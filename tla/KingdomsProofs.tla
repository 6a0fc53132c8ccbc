--------------------------- MODULE KingdomsProofs ---------------------------
(***************************************************************************)
(* Proofs about the Kingdoms scenario, for every roster, board and         *)
(* balance that satisfies the assumptions of module Kingdoms.              *)
(***************************************************************************)
EXTENDS Kingdoms, FiniteSetTheorems, WellFoundedInduction, TLAPS

-----------------------------------------------------------------------------
(* Forces *)

LEMMA SizeType ==
  ASSUME NEW f \in Army
  PROVE  Size(f) \in Nat /\ CombatSize(f) \in Nat
BY DEF Army, UnitKinds, Size, CombatSize

LEMMA NoForceType == NoForce \in Army /\ Size(NoForce) = 0
BY DEF Army, NoForce, UnitKinds, Size

LEMMA AddUnit ==
  ASSUME NEW f \in Army, NEW k \in UnitKinds
  PROVE  f (+) Single(k) \in Army
BY DEF Army, Single, (+), UnitKinds

LEMMA RemoveUnit ==
  ASSUME NEW f \in Army, NEW k \in UnitKinds, f[k] > 0
  PROVE  f (-) Single(k) \in Army /\ Size(f) > 0
BY DEF Army, Single, (-), UnitKinds, Size

\* Taking away a part of a force leaves a force, no larger than it was.
LEMMA RemovePart ==
  ASSUME NEW f \in Army, NEW g \in Army, \A k \in UnitKinds : g[k] <= f[k]
  PROVE  f (-) g \in Army /\ Size(f (-) g) <= Size(f)
BY DEF Army, (-), UnitKinds, Size

LEMMA SubForcesType ==
  ASSUME NEW f \in Army, NEW g \in SubForces(f)
  PROVE  g \in Army /\ \A k \in UnitKinds : g[k] <= f[k]
BY DEF Army, SubForces, UnitKinds

-----------------------------------------------------------------------------
(* Sums and seats *)

\* A sum over tiles is a natural number.
LEMMA TotalType ==
  ASSUME NEW S \in SUBSET Tiles, NEW f \in [Tiles -> Nat]
  PROVE  Total(S, f) \in Nat
<1> DEFINE g == [t \in S |-> {t} \X (1 .. f[t])]
           R == { g[t] : t \in S }
<1>1. IsFiniteSet(S)
  BY FS_Subset, BoardAssumption
<1>2. \A t \in S : IsFiniteSet(g[t])
  <2> TAKE t \in S
  <2>1. IsFiniteSet({t})
    BY FS_Singleton
  <2>2. f[t] \in Int
    OBVIOUS
  <2>3. IsFiniteSet(1 .. f[t])
    BY <2>2, FS_Interval
  <2> QED BY <2>1, <2>3, FS_Product
<1>3. IsFiniteSet(R)
  <2>1. g \in Surjection(S, R)
    BY DEF Surjection
  <2> QED BY <1>1, <2>1, FS_Surjection
<1>4. IsFiniteSet(UNION R)
  BY <1>2, <1>3, FS_UNION
<1>5. Total(S, f) = Cardinality(UNION R)
  <2>1. R = { {t} \X (1 .. f[t]) : t \in S }
    OBVIOUS
  <2> QED BY <2>1 DEF Total
<1> QED BY <1>4, <1>5, FS_CardinalityType

\* Every non-empty set of players has a first seat.
LEMMA FirstBySeatType ==
  ASSUME NEW S \in SUBSET Players, S # {}
  PROVE  FirstBySeat(S) \in S
<1> DEFINE N == { Seat[p] : p \in S }
<1>1. N \in SUBSET Nat /\ N # {}
  BY RosterAssumption
<1>2. PICK n \in N : \A m \in N : ~ (<<m, n>> \in OpToRel(<, Nat))
  BY <1>1, NatLessThanWellFounded, WFMin
<1>3. \A m \in N : n <= m
  <2> TAKE m \in N
  <2>1. m \in Nat /\ n \in Nat
    BY <1>1
  <2>2. ~ (m < n)
    BY <1>2, <2>1 DEF OpToRel
  <2> QED BY <2>1, <2>2
<1>4. PICK p \in S : \A q \in S : Seat[p] <= Seat[q]
  BY <1>3
<1> QED BY <1>4 DEF FirstBySeat

-----------------------------------------------------------------------------
(* The economy *)

LEMMA TileYieldType ==
  ASSUME NEW t \in Tiles, NEW r \in Resources
  PROVE  TileYield(t, r) \in Nat
<1>1. EconomicValue[t] \in Nat
  BY BoardAssumption
<1>2. CASE WorkingKind(t) = "city"
  BY <1>1, <1>2 DEF TileYield, BaseYield
<1>3. CASE WorkingKind(t) # "city"
  BY <1>1, <1>3 DEF TileYield, BaseYield
<1> QED BY <1>2, <1>3

LEMMA IncomeType ==
  ASSUME NEW p \in Players, NEW r \in Resources
  PROVE  Income(p, r) \in Nat
<1>1. Connected(p) \in SUBSET Tiles
  BY DEF Connected, Owned
<1>2. [t \in Tiles |-> TileYield(t, r)] \in [Tiles -> Nat]
  BY TileYieldType
<1> QED BY <1>1, <1>2, TotalType DEF Income

LEMMA FoodCostType ==
  ASSUME TypeOK, NEW p \in Players
  PROVE  FoodCost(p) \in Nat
<1> DEFINE upkeep == [t \in Tiles |->
      units[p][t]["spearman"] * UnitUpkeep["spearman"]
      + units[p][t]["cannoneer"] * UnitUpkeep["cannoneer"]
      + units[p][t]["noble"] * UnitUpkeep["noble"]
      + (IF structure[t].owner = p /\ WorkingKind(t) = "city" THEN 2 ELSE 0)]
<1>1. upkeep \in [Tiles -> Nat]
  <2> SUFFICES ASSUME NEW t \in Tiles
               PROVE  upkeep[t] \in Nat
    OBVIOUS
  <2>1. units[p][t] \in Army
    BY DEF TypeOK
  <2> QED BY <2>1 DEF Army, UnitKinds, UnitUpkeep
<1> QED BY <1>1, TotalType DEF FoodCost

\* Buying food never costs more gold than there is.
LEMMA FoodBoughtBound ==
  ASSUME NEW deficit \in Int, NEW gold \in Nat
  PROVE  /\ FoodBought(deficit, gold) \in Nat
         /\ ExchangeRate * FoodBought(deficit, gold) <= gold
<1>1. /\ gold \div 3 \in Nat
      /\ 3 * (gold \div 3) <= gold
  OBVIOUS
<1> QED BY <1>1 DEF FoodBought, Lesser, ExchangeRate

\* The cycle of a player that owes nothing leaves it owing nothing.
LEMMA AfterCycleType ==
  ASSUME TypeOK, NEW p \in Players
  PROVE  /\ AfterCycle(p) \in [Resources -> Int]
         /\ (\A r \in Resources : stock[p][r] >= 0)
            => \A r \in Resources : AfterCycle(p)[r] >= 0
<1> DEFINE fed     == [r \in Resources |-> stock[p][r] + Income(p, r)]
           cost    == FoodCost(p)
           deficit == cost - fed["food"]
           bought  == FoodBought(deficit, fed["gold"])
<1>1. fed \in [Resources -> Int]
  BY IncomeType DEF TypeOK
<1>2. cost \in Nat /\ deficit \in Int /\ fed["food"] \in Int /\ fed["gold"] \in Int
  BY <1>1, FoodCostType DEF Resources
<1>3. bought \in Int
  BY <1>2 DEF FoodBought, Lesser, ExchangeRate
<1>4. AfterCycle(p) =
        [fed EXCEPT !["food"] = @ - Lesser(@, cost) + bought,
                    !["gold"] = @ - ExchangeRate * bought]
  BY DEF AfterCycle
<1> HIDE DEF fed, cost, deficit, bought
<1>5. AfterCycle(p) \in [Resources -> Int]
  BY <1>1, <1>2, <1>3, <1>4 DEF Resources, Lesser, ExchangeRate
<1>6. ASSUME \A r \in Resources : stock[p][r] >= 0
      PROVE  \A r \in Resources : AfterCycle(p)[r] >= 0
  <2>1. \A r \in Resources : fed[r] \in Nat
    BY <1>6, IncomeType DEF TypeOK, fed
  <2>2. fed["gold"] \in Nat /\ fed["food"] \in Nat
    BY <2>1 DEF Resources
  <2>3. bought \in Nat /\ ExchangeRate * bought <= fed["gold"]
    BY <1>2, <2>2, FoodBoughtBound DEF bought
  <2>4. fed["food"] - Lesser(fed["food"], cost) + bought >= 0
    BY <1>2, <2>2, <2>3 DEF Lesser
  <2>5. fed["gold"] - ExchangeRate * bought >= 0
    BY <2>2, <2>3 DEF ExchangeRate
  <2> QED BY <1>1, <1>4, <2>1, <2>4, <2>5 DEF Resources
<1> QED BY <1>5, <1>6

-----------------------------------------------------------------------------
(* Type correctness *)

LEMMA InitType == Init => TypeOK
<1> SUFFICES ASSUME Init PROVE TypeOK
  OBVIOUS
<1>1. owner \in [Tiles -> Players \cup {Nobody}]
  BY DEF Init
<1>2. structure \in [Tiles -> Site]
  BY <1>1 DEF Init, Site, NoSite, StructureKinds, BuildableKinds
<1>3. units \in [Players -> [Tiles -> Army]] /\ moved \in [Tiles -> Army]
  BY SetupAssumption, NoForceType DEF Init
<1>4. stock \in [Players -> [Resources -> Int]]
  BY SetupAssumption DEF Init
<1>5. active \in Players
  <2>1. Players # {}
    <3>1. Cardinality({}) = 0
      BY FS_EmptySet
    <3> QED BY <3>1, RosterAssumption
  <2> QED BY <2>1, FirstBySeatType DEF Init
<1>6. /\ loyalty \in [Tiles -> 1 .. MaxLoyalty]
      /\ developed \subseteq Tiles /\ mortgaged \subseteq Tiles
      /\ eliminated \subseteq Players
      /\ round \in Nat \ {0}
  BY DEF Init, MaxLoyalty
<1>7. attacked \in BOOLEAN /\ winner \in Players \cup {Nobody}
  BY DEF Init
<1> QED BY <1>1, <1>2, <1>3, <1>4, <1>5, <1>6, <1>7 DEF TypeOK

\* A price in whole units, paid or given back, leaves whole units.
LEMMA PayType ==
  ASSUME TypeOK, NEW p \in Players, NEW cost \in [Resources -> Int], Pay(p, cost)
  PROVE  stock' \in [Players -> [Resources -> Int]]
BY DEF TypeOK, Pay

LEMMA StructureCostType ==
  ASSUME NEW k \in BuildableKinds
  PROVE  StructureCost[k] \in [Resources -> Nat]
BY DEF BuildableKinds, StructureCost, NoCost, Resources

LEMMA RecruitCostType ==
  ASSUME TypeOK, NEW p \in Players, NEW k \in UnitKinds, UnitCount(p, k) < UnitLimit[k]
  PROVE  UnitPrice(p, k) \in [Resources -> Nat]
<1>1. CASE k = "noble"
  <2>1. [t \in Tiles |-> units[p][t][k]] \in [Tiles -> Nat]
    BY DEF TypeOK, Army
  <2>2. UnitCount(p, k) \in Nat
    BY <2>1, TotalType DEF UnitCount
  <2>3. UnitCount(p, k) \in 0 .. 9
    BY <1>1, <2>2, SetupAssumption DEF UnitKinds
  <2>4. NobleGold[UnitCount(p, k)] \in Nat
    BY <2>3 DEF NobleGold
  <2> QED BY <1>1, <2>4 DEF UnitPrice, NobleCost, NoCost, Resources
<1>2. CASE k # "noble"
  BY <1>2 DEF UnitPrice, UnitKinds, UnitCost, NoCost, Resources
<1> QED BY <1>1, <1>2

LEMMA ConnectedOwned ==
  ASSUME NEW p, NEW t \in Connected(p)
  PROVE  t \in Tiles /\ owner[t] = p
BY DEF Connected, Owned

\* Casualties are part of the force they are taken from.
LEMMA MovedType ==
  ASSUME TypeOK, NEW p, NEW s \in Tiles, NEW lost \in Army,
         \E m \in MovedLosses(p, s, lost) : moved' = [moved EXCEPT ![s] = @ (-) m]
  PROVE  moved' \in [Tiles -> Army]
<1>1. PICK m \in MovedLosses(p, s, lost) : moved' = [moved EXCEPT ![s] = @ (-) m]
  OBVIOUS
<1>2. m \in Army /\ \A k \in UnitKinds : m[k] <= moved[s][k]
  BY SubForcesType DEF MovedLosses
<1>3. moved[s] \in Army
  BY DEF TypeOK
<1>4. moved[s] (-) m \in Army
  BY <1>2, <1>3, RemovePart
<1> QED BY <1>1, <1>4 DEF TypeOK

\* Whatever the victory condition says, it names a player of the game.
LEMMA WinnerType ==
  ASSUME TypeOK, JudgeVictory
  PROVE  winner' \in Players \cup {Nobody}
<1>1. CASE winner = Nobody /\ Cardinality(Alive') = 1
  <2>1. IsFiniteSet(Alive')
    BY FS_Difference, RosterAssumption DEF Alive
  <2>2. PICK x : Alive' = {x}
    BY <1>1, <2>1, FS_Singleton
  <2>3. x \in Players
    BY <2>2 DEF Alive
  <2> QED BY <1>1, <2>2, <2>3 DEF JudgeVictory
<1>2. CASE ~ (winner = Nobody /\ Cardinality(Alive') = 1)
  BY <1>2 DEF JudgeVictory, TypeOK
<1> QED BY <1>1, <1>2

LEMMA RecruitKeepsType ==
  ASSUME TypeOK, winner' \in Players \cup {Nobody},
         NEW p \in Players, NEW t \in Tiles, NEW k \in UnitKinds, RecruitUnit(p, t, k)
  PROVE  TypeOK'
<1>1. UnitCount(p, k) < UnitLimit[k] /\ Pay(p, UnitPrice(p, k))
  BY DEF RecruitUnit, MayRecruit
<1>2. UnitPrice(p, k) \in [Resources -> Int]
  BY <1>1, RecruitCostType
<1>3. stock' \in [Players -> [Resources -> Int]]
  BY <1>1, <1>2, PayType
<1>4. units[p][t] (+) Single(k) \in Army
  BY AddUnit DEF TypeOK
<1>5. units' \in [Players -> [Tiles -> Army]]
  BY <1>4 DEF RecruitUnit, TypeOK
<1> QED BY <1>3, <1>5 DEF RecruitUnit, TypeOK, land, turn

LEMMA MoveKeepsType ==
  ASSUME TypeOK, winner' \in Players \cup {Nobody},
         NEW p \in Players, NEW k \in UnitKinds, NEW s \in Tiles, NEW t \in Tiles,
         MoveUnit(p, k, s, t)
  PROVE  TypeOK'
<1>1. units[p][s] \in Army /\ units[p][t] \in Army /\ moved[s] \in Army /\ moved[t] \in Army
  BY DEF TypeOK
<1>2. units[p][s][k] > 0
  BY <1>1 DEF MoveUnit, MayMove, Army
<1>3. /\ units[p][s] (-) Single(k) \in Army
      /\ units[p][t] (+) Single(k) \in Army
      /\ moved[t] (+) Single(k) \in Army
  BY <1>1, <1>2, AddUnit, RemoveUnit
<1>4. units' \in [Players -> [Tiles -> Army]] /\ moved' \in [Tiles -> Army]
  BY <1>3 DEF MoveUnit, TypeOK
<1> QED BY <1>4 DEF MoveUnit, TypeOK, land, turn

LEMMA BuildKeepsType ==
  ASSUME TypeOK, winner' \in Players \cup {Nobody},
         NEW p \in Players, NEW t \in Tiles, NEW k \in BuildableKinds, BuildStructure(p, t, k)
  PROVE  TypeOK'
<1>1. stock' \in [Players -> [Resources -> Int]]
  BY PayType, StructureCostType DEF BuildStructure
<1>2. [kind |-> k, owner |-> p] \in Site
  BY DEF Site, StructureKinds
<1>3. structure' \in [Tiles -> Site]
  BY <1>2 DEF BuildStructure, TypeOK
<1> QED BY <1>1, <1>3 DEF BuildStructure, TypeOK, land, turn

LEMMA DemolishKeepsType ==
  ASSUME TypeOK, winner' \in Players \cup {Nobody},
         NEW p \in Players, NEW t \in Tiles, DemolishStructure(p, t)
  PROVE  TypeOK'
<1>1. StructureCost[structure[t].kind] \in [Resources -> Nat]
  BY StructureCostType DEF DemolishStructure, MayDemolish
<1>2. [r \in Resources |-> stock[p][r] + StructureCost[structure[t].kind][r] \div 2]
        \in [Resources -> Int]
  BY <1>1 DEF TypeOK
<1>3. stock' \in [Players -> [Resources -> Int]]
  BY <1>2 DEF DemolishStructure, TypeOK
<1>4. structure' \in [Tiles -> Site]
  BY DEF DemolishStructure, TypeOK, Site, NoSite
<1> QED BY <1>3, <1>4 DEF DemolishStructure, TypeOK, land, turn

LEMMA DevelopKeepsType ==
  ASSUME TypeOK, winner' \in Players \cup {Nobody},
         NEW p \in Players, NEW t \in Tiles, DevelopTile(p, t)
  PROVE  TypeOK'
<1>1. [NoCost EXCEPT !["gold"] = DevelopCost] \in [Resources -> Int]
  BY DEF NoCost, DevelopCost, Resources
<1>2. stock' \in [Players -> [Resources -> Int]]
  BY <1>1, PayType DEF DevelopTile
<1> QED BY <1>2 DEF DevelopTile, TypeOK, board, turn

LEMMA RepelledKeepsType ==
  ASSUME TypeOK, winner' \in Players \cup {Nobody}, attacked' = TRUE, UNCHANGED turn,
         NEW p \in Players, NEW s \in Tiles, NEW t \in Tiles,
         NEW f \in SubForces(units[p][s]), NEW c, AttackRepelled(p, s, t, f, c)
  PROVE  TypeOK'
<1>1. PICK lost \in [Players -> UNION { SubForces(units[q][t]) : q \in Players }] :
        /\ \A q \in Players : lost[q] \in SubForces(units[q][t])
        /\ units' = [q \in Players |-> [x \in Tiles |->
                       IF x = t THEN units[q][x] (-) lost[q]
                       ELSE IF q = p /\ x = s THEN units[q][x] (-) f
                       ELSE units[q][x]]]
  BY DEF AttackRepelled
<1>2. \A q \in Players, x \in Tiles : units[q][x] \in Army
  BY DEF TypeOK
<1>3. f \in Army /\ units[p][s] (-) f \in Army
  BY <1>2, SubForcesType, RemovePart
<1>4. \A q \in Players : units[q][t] (-) lost[q] \in Army
  BY <1>1, <1>2, SubForcesType, RemovePart
<1>5. units' \in [Players -> [Tiles -> Army]]
  BY <1>1, <1>2, <1>3, <1>4
<1>6. moved' \in [Tiles -> Army]
  BY <1>3, MovedType DEF AttackRepelled
<1> QED BY <1>5, <1>6 DEF AttackRepelled, TypeOK, land, turn

LEMMA WonKeepsType ==
  ASSUME TypeOK, winner' \in Players \cup {Nobody}, attacked' = TRUE, UNCHANGED turn,
         NEW p \in Players, NEW s \in Tiles, NEW t \in Tiles,
         NEW f \in SubForces(units[p][s]), NEW lost \in SubForces(f),
         AttackWon(p, s, t, f, lost)
  PROVE  TypeOK'
<1> DEFINE eroded   == lost["noble"] < f["noble"]
           captured == eroded /\ loyalty[t] <= LoyaltyDamagePerAttack
           fallen   == Fallen(t, captured)
<1>1. \A q \in Players, x \in Tiles : units[q][x] \in Army
  BY DEF TypeOK
<1>2. f \in Army /\ lost \in Army /\ units[p][s] (-) lost \in Army
  <2>1. f \in Army /\ \A k \in UnitKinds : f[k] <= units[p][s][k]
    BY <1>1, SubForcesType
  <2>2. lost \in Army /\ \A k \in UnitKinds : lost[k] <= f[k]
    BY <2>1, SubForcesType
  <2>3. \A k \in UnitKinds : lost[k] <= units[p][s][k]
    BY <1>1, <2>1, <2>2 DEF Army
  <2> QED BY <1>1, <2>1, <2>2, <2>3, RemovePart
<1>3. units' \in [Players -> [Tiles -> Army]]
  BY <1>1, <1>2, NoForceType DEF AttackWon, UnitsAfterWin
<1>4. moved' \in [Tiles -> Army]
  BY <1>2, MovedType DEF AttackWon
<1>5. fallen \subseteq Players
  BY DEF Fallen, TypeOK
<1>6. loyalty' \in [Tiles -> 1 .. MaxLoyalty]
  <2>1. loyalty[t] \in 1 .. 100 /\ LoyaltyDamagePerAttack \in Nat
    BY SetupAssumption DEF TypeOK, MaxLoyalty
  <2>2. CASE captured
    BY <2>2 DEF AttackWon, TypeOK, MaxLoyalty
  <2>3. CASE ~ captured /\ eroded
    <3>1. loyalty[t] - LoyaltyDamagePerAttack \in 1 .. 100
      BY <2>1, <2>3
    <3>2. loyalty' = [loyalty EXCEPT ![t] = @ - LoyaltyDamagePerAttack]
      BY <2>3 DEF AttackWon
    <3> QED BY <3>1, <3>2 DEF TypeOK, MaxLoyalty
  <2>4. CASE ~ captured /\ ~ eroded
    BY <2>4 DEF AttackWon, TypeOK
  <2> QED BY <2>2, <2>3, <2>4
<1>7. owner' \in [Tiles -> Players \cup {Nobody}]
  <2>1. OwnerAfterCapture(p, t, fallen) \in [Tiles -> Players \cup {Nobody}]
    BY DEF OwnerAfterCapture, TypeOK
  <2> QED BY <2>1 DEF AttackWon, TypeOK
<1>8. structure' \in [Tiles -> Site]
  <2>1. StructureAfterCapture(p, t, fallen) \in [Tiles -> Site]
    BY DEF StructureAfterCapture, TypeOK, Site, NoSite
  <2> QED BY <2>1 DEF AttackWon, TypeOK
<1>9. eliminated' \subseteq Players /\ mortgaged' \subseteq Tiles
  BY <1>5 DEF AttackWon, TypeOK
<1> QED BY <1>3, <1>4, <1>6, <1>7, <1>8, <1>9 DEF AttackWon, TypeOK, turn

LEMMA AttackKeepsType ==
  ASSUME TypeOK, winner' \in Players \cup {Nobody},
         NEW p \in Players, NEW s \in Tiles, NEW t \in Tiles,
         NEW f \in SubForces(units[p][s]), NEW n \in Counted(f), AttackTile(p, s, t, f, n)
  PROVE  TypeOK'
<1>1. attacked' = TRUE /\ UNCHANGED turn
  BY DEF AttackTile
<1>2. PICK o \in BattleOutcomes(t, n) :
        \/ \E lost \in SubForces(f) : AttackWon(p, s, t, f, lost)
        \/ AttackRepelled(p, s, t, f, o.losses)
  BY DEF AttackTile, Losses
<1> QED BY <1>1, <1>2, WonKeepsType, RepelledKeepsType

\* The turn passes to a player still in the game.
LEMMA NextPlayerAlive ==
  ASSUME TypeOK, active \notin eliminated
  PROVE  NextPlayer \in Alive
<1> DEFINE later == { q \in Alive : Seat[q] > Seat[active] }
           S == IF active \in Alive /\ later # {} THEN later ELSE Alive
<1>1. S \in SUBSET Players /\ S # {} /\ S \subseteq Alive
  BY DEF Alive, TypeOK
<1>2. FirstBySeat(S) \in S
  BY <1>1, FirstBySeatType
<1> QED BY <1>1, <1>2 DEF NextPlayer

LEMMA EndTurnKeepsType ==
  ASSUME TypeOK, winner' \in Players \cup {Nobody}, NEW p \in Players, EndTurn(p)
  PROVE  TypeOK'
<1>1. active' \in Players
  BY NextPlayerAlive DEF EndTurn, MayAct, Alive
<1>2. moved' \in [Tiles -> Army] /\ attacked' \in BOOLEAN
  BY NoForceType DEF EndTurn
<1>3. CASE RoundEnd /\ round' = round + 1
  <2>1. stock' \in [Players -> [Resources -> Int]]
    BY <1>3, AfterCycleType DEF RoundEnd, TypeOK
  <2>2. mortgaged' \subseteq Tiles
    BY <1>3 DEF RoundEnd, MortgageDebtors, TypeOK
  <2>3. loyalty' \in [Tiles -> 1 .. MaxLoyalty]
    BY <1>3 DEF RoundEnd, Recovered, TypeOK, MaxLoyalty, LoyaltyRecovery
  <2>4. round' \in Nat \ {0}
    BY <1>3 DEF TypeOK
  <2> QED BY <1>1, <1>2, <2>1, <2>2, <2>3, <2>4 DEF EndTurn, TypeOK
<1>4. CASE UNCHANGED <<round, stock, mortgaged, loyalty>>
  BY <1>1, <1>2, <1>4 DEF EndTurn, TypeOK
<1> QED BY <1>3, <1>4 DEF EndTurn

LEMMA NextType == TypeOK /\ [Next]_vars => TypeOK'
<1> SUFFICES ASSUME TypeOK, [Next]_vars PROVE TypeOK'
  OBVIOUS
<1>1. CASE Next
  <2>1. winner' \in Players \cup {Nobody}
    BY <1>1, WinnerType DEF Next
  <2>2. ASSUME NEW p \in Players, NEW t \in Tiles, NEW k \in UnitKinds, RecruitUnit(p, t, k)
        PROVE  TypeOK'
    BY <2>1, <2>2, RecruitKeepsType
  <2>3. ASSUME NEW p \in Players, NEW s \in Tiles, NEW t \in Tiles, NEW k \in UnitKinds,
               MoveUnit(p, k, s, t)
        PROVE  TypeOK'
    BY <2>1, <2>3, MoveKeepsType
  <2>4. ASSUME NEW p \in Players, NEW t \in Tiles, NEW k \in BuildableKinds,
               BuildStructure(p, t, k)
        PROVE  TypeOK'
    BY <2>1, <2>4, BuildKeepsType
  <2>5. ASSUME NEW p \in Players, NEW t \in Tiles,
               DemolishStructure(p, t) \/ DevelopTile(p, t)
        PROVE  TypeOK'
    BY <2>1, <2>5, DemolishKeepsType, DevelopKeepsType
  <2>6. ASSUME NEW p \in Players, NEW s \in Tiles, NEW t \in Tiles,
               NEW f \in SubForces(units[p][s]), NEW n \in Counted(f), AttackTile(p, s, t, f, n)
        PROVE  TypeOK'
    BY <2>1, <2>6, AttackKeepsType
  <2>7. ASSUME NEW p \in Players, EndTurn(p)
        PROVE  TypeOK'
    BY <2>1, <2>7, EndTurnKeepsType
  <2> QED BY <1>1, <2>2, <2>3, <2>4, <2>5, <2>6, <2>7 DEF Next, Command
<1>2. CASE UNCHANGED vars
  BY <1>2 DEF TypeOK, vars, land, board, turn
<1> QED BY <1>1, <1>2

\* Every variable keeps its type: battles leave no negative unit count, the
\* turn always goes to a player, loyalty stays in 1 .. 100.
THEOREM TypeCorrect == Spec => []TypeOK
BY InitType, NextType, PTL DEF Spec

-----------------------------------------------------------------------------
(* The board stays consistent *)

\* The commands other than attack-tile: they leave the land, and move or add
\* units and structures only where the player may.
LEMMA PeacefulForces ==
  ASSUME TypeOK, ForcesStandAtHome, NEW p \in Players,
         \/ \E t \in Tiles, k \in UnitKinds : RecruitUnit(p, t, k)
         \/ \E s, t \in Tiles, k \in UnitKinds : MoveUnit(p, k, s, t)
         \/ \E t \in Tiles, k \in BuildableKinds : BuildStructure(p, t, k)
         \/ \E t \in Tiles : DemolishStructure(p, t) \/ DevelopTile(p, t)
         \/ EndTurn(p)
  PROVE  ForcesStandAtHome'
<1>1. ASSUME NEW t \in Tiles, NEW k \in UnitKinds, RecruitUnit(p, t, k)
      PROVE  ForcesStandAtHome'
  <2> SUFFICES ASSUME NEW q \in Players, NEW x \in Tiles, Size(units'[q][x]) > 0
               PROVE  owner'[x] = q
    BY DEF ForcesStandAtHome
  <2>1. owner' = owner /\ owner[t] = p
    BY <1>1 DEF RecruitUnit, MayRecruit, land
  <2>2. CASE q = p /\ x = t
    BY <2>1, <2>2
  <2>3. CASE ~ (q = p /\ x = t)
    <3>1. units'[q][x] = units[q][x]
      BY <1>1, <2>3 DEF RecruitUnit, TypeOK
    <3> QED BY <2>1, <3>1 DEF ForcesStandAtHome
  <2> QED BY <2>2, <2>3
<1>2. ASSUME NEW s \in Tiles, NEW t \in Tiles, NEW k \in UnitKinds, MoveUnit(p, k, s, t)
      PROVE  ForcesStandAtHome'
  <2> SUFFICES ASSUME NEW q \in Players, NEW x \in Tiles, Size(units'[q][x]) > 0
               PROVE  owner'[x] = q
    BY DEF ForcesStandAtHome
  <2>1. owner' = owner /\ owner[t] = p
    BY <1>2 DEF MoveUnit, MayMove, land
  <2>2. units[p][s] \in Army /\ moved[s] \in Army
    BY DEF TypeOK
  <2>3. units[p][s][k] > 0
    BY <1>2, <2>2 DEF MoveUnit, MayMove, Army
  <2>4. CASE q = p /\ x = t
    BY <2>1, <2>4
  <2>5. CASE q = p /\ x = s
    <3>1. Size(units[p][s]) > 0
      BY <2>2, <2>3, RemoveUnit
    <3> QED BY <2>1, <2>5, <3>1 DEF ForcesStandAtHome
  <2>6. CASE ~ (q = p /\ x \in {s, t})
    <3>1. units'[q][x] = units[q][x]
      BY <1>2, <2>6 DEF MoveUnit, TypeOK
    <3> QED BY <2>1, <3>1 DEF ForcesStandAtHome
  <2> QED BY <2>4, <2>5, <2>6
<1>3. ASSUME NEW t \in Tiles, NEW k \in BuildableKinds, BuildStructure(p, t, k)
      PROVE  ForcesStandAtHome'
  BY <1>3 DEF BuildStructure, ForcesStandAtHome, land
<1>4. ASSUME NEW t \in Tiles, DemolishStructure(p, t) \/ DevelopTile(p, t)
      PROVE  ForcesStandAtHome'
  BY <1>4 DEF DemolishStructure, DevelopTile, ForcesStandAtHome, land, board
<1>5. CASE EndTurn(p)
  BY <1>5 DEF EndTurn, ForcesStandAtHome
<1> QED BY <1>1, <1>2, <1>3, <1>4, <1>5

LEMMA RepelledForces ==
  ASSUME TypeOK, ForcesStandAtHome, NEW p \in Players, NEW s \in Tiles, NEW t \in Tiles,
         NEW f \in SubForces(units[p][s]), NEW c, AttackRepelled(p, s, t, f, c)
  PROVE  ForcesStandAtHome'
<1> SUFFICES ASSUME NEW q \in Players, NEW x \in Tiles, Size(units'[q][x]) > 0
             PROVE  owner'[x] = q
  BY DEF ForcesStandAtHome
<1>1. PICK g \in Army : /\ \A k \in UnitKinds : g[k] <= units[q][x][k]
                        /\ units'[q][x] = units[q][x] (-) g \/ units'[q][x] = units[q][x]
  <2>1. PICK lost \in [Players -> UNION { SubForces(units[r][t]) : r \in Players }] :
          /\ \A r \in Players : lost[r] \in SubForces(units[r][t])
          /\ units' = [r \in Players |-> [y \in Tiles |->
                         IF y = t THEN units[r][y] (-) lost[r]
                         ELSE IF r = p /\ y = s THEN units[r][y] (-) f
                         ELSE units[r][y]]]
    BY DEF AttackRepelled
  <2>2. units[q][t] \in Army /\ units[p][s] \in Army /\ units[q][x] \in Army
    BY DEF TypeOK
  <2>3. CASE x = t
    BY <2>1, <2>2, <2>3, SubForcesType
  <2>4. CASE x # t /\ q = p /\ x = s
    BY <2>1, <2>2, <2>4, SubForcesType
  <2>5. CASE x # t /\ ~ (q = p /\ x = s)
    <3>1. units'[q][x] = units[q][x]
      BY <2>1, <2>5
    <3>2. NoForce \in Army /\ \A k \in UnitKinds : NoForce[k] <= units[q][x][k]
      BY <2>2 DEF NoForce, Army, UnitKinds
    <3> QED BY <3>1, <3>2
  <2> QED BY <2>3, <2>4, <2>5
<1>2. units[q][x] \in Army
  BY DEF TypeOK
<1>3. Size(units[q][x]) > 0
  <2>1. Size(units[q][x]) \in Nat /\ Size(units[q][x] (-) g) \in Nat
    BY <1>1, <1>2, RemovePart, SizeType
  <2> QED BY <1>1, <1>2, <2>1, RemovePart
<1> QED BY <1>3 DEF ForcesStandAtHome, AttackRepelled, land

\* Whoever falls with a tile was in the game, owned that tile as its capital,
\* and is not the attacker.
LEMMA FallenPlayer ==
  ASSUME TypeOK, EliminatedAreGone, NEW p \in Players, NEW t \in Tiles,
         owner[t] # p, NEW captured, NEW v \in Fallen(t, captured)
  PROVE  /\ captured /\ v \in Alive /\ v # p /\ owner[t] = v /\ Capital[v] = t
         /\ Fallen(t, captured) = {v}
BY DEF Fallen, EliminatedAreGone, TypeOK, Alive

LEMMA WonForces ==
  ASSUME TypeOK, ForcesStandAtHome, NEW p \in Players, NEW s \in Tiles, NEW t \in Tiles,
         NEW f \in SubForces(units[p][s]), NEW lost \in SubForces(f),
         AttackWon(p, s, t, f, lost)
  PROVE  ForcesStandAtHome'
<1> DEFINE captured == lost["noble"] < f["noble"] /\ loyalty[t] <= LoyaltyDamagePerAttack
           fallen   == Fallen(t, captured)
<1> SUFFICES ASSUME NEW q \in Players, NEW x \in Tiles, Size(units'[q][x]) > 0
             PROVE  owner'[x] = q
  BY DEF ForcesStandAtHome
<1>1. x # t /\ q \notin fallen
  <2>1. ASSUME x = t \/ q \in fallen PROVE units'[q][x] = NoForce
    BY <2>1 DEF AttackWon, UnitsAfterWin
  <2> QED BY <2>1, NoForceType
<1>2. Size(units[q][x]) > 0
  <2>1. units[q][x] \in Army /\ units[p][s] \in Army
    BY DEF TypeOK
  <2>2. CASE q = p /\ x = s
    <3>1. f \in Army /\ \A k \in UnitKinds : f[k] <= units[p][s][k]
      BY <2>1, SubForcesType
    <3>2. lost \in Army /\ \A k \in UnitKinds : lost[k] <= f[k]
      BY <3>1, SubForcesType
    <3>3. \A k \in UnitKinds : lost[k] <= units[p][s][k]
      BY <2>1, <3>1, <3>2 DEF Army
    <3>4. /\ units[p][s] (-) lost \in Army
          /\ Size(units[p][s] (-) lost) <= Size(units[p][s])
      BY <2>1, <3>2, <3>3, RemovePart
    <3>5. units'[q][x] = units[p][s] (-) lost
      BY <1>1, <2>2 DEF AttackWon, UnitsAfterWin
    <3> QED BY <2>1, <2>2, <3>4, <3>5, SizeType
  <2>3. CASE ~ (q = p /\ x = s)
    BY <1>1, <2>3 DEF AttackWon, UnitsAfterWin
  <2> QED BY <2>2, <2>3
<1>3. owner[x] = q
  BY <1>2 DEF ForcesStandAtHome
<1> QED BY <1>1, <1>3 DEF AttackWon, OwnerAfterCapture

LEMMA AttackForces ==
  ASSUME TypeOK, ForcesStandAtHome, NEW p \in Players, NEW s \in Tiles, NEW t \in Tiles,
         NEW f \in SubForces(units[p][s]), NEW n \in Counted(f), AttackTile(p, s, t, f, n)
  PROVE  ForcesStandAtHome'
<1>1. PICK o \in BattleOutcomes(t, n) :
        \/ \E lost \in SubForces(f) : AttackWon(p, s, t, f, lost)
        \/ AttackRepelled(p, s, t, f, o.losses)
  BY DEF AttackTile, Losses
<1> QED BY <1>1, WonForces, RepelledForces

LEMMA ForcesNext == TypeOK /\ ForcesStandAtHome /\ [Next]_vars => ForcesStandAtHome'
<1>1. ASSUME TypeOK, ForcesStandAtHome, Next PROVE ForcesStandAtHome'
  <2>1. PICK p \in Players :
          \/ \E t \in Tiles, k \in UnitKinds : RecruitUnit(p, t, k)
          \/ \E s, t \in Tiles, k \in UnitKinds : MoveUnit(p, k, s, t)
          \/ \E t \in Tiles, k \in BuildableKinds : BuildStructure(p, t, k)
          \/ \E t \in Tiles : DemolishStructure(p, t) \/ DevelopTile(p, t)
          \/ EndTurn(p)
          \/ \E s, t \in Tiles : \E f \in SubForces(units[p][s]) : \E n \in Counted(f) :
               AttackTile(p, s, t, f, n)
    BY <1>1 DEF Next, Command
  <2>2. CASE \E s, t \in Tiles : \E f \in SubForces(units[p][s]) : \E n \in Counted(f) :
               AttackTile(p, s, t, f, n)
    BY <1>1, <2>2, AttackForces
  <2> QED BY <1>1, <2>1, <2>2, PeacefulForces
<1>2. ASSUME ForcesStandAtHome, UNCHANGED vars PROVE ForcesStandAtHome'
  BY <1>2 DEF ForcesStandAtHome, vars, land, board
<1> QED BY <1>1, <1>2

LEMMA InitForces == Init => ForcesStandAtHome
<1> SUFFICES ASSUME Init, NEW p \in Players, NEW t \in Tiles, Size(units[p][t]) > 0
             PROVE  owner[t] = p
  BY DEF ForcesStandAtHome
<1>1. t = Capital[p]
  BY NoForceType DEF Init
<1> QED BY <1>1, BoardAssumption DEF Init

\* Units stand only on land of their own player: whatever is moved, killed,
\* captured or neutralised, in whatever order, nobody is left behind.
THEOREM ForcesAtHome == Spec => []ForcesStandAtHome
<1>1. Init => TypeOK /\ ForcesStandAtHome
  BY InitType, InitForces
<1>2. TypeOK /\ ForcesStandAtHome /\ [Next]_vars => (TypeOK /\ ForcesStandAtHome)'
  BY NextType, ForcesNext
<1> QED BY <1>1, <1>2, PTL DEF Spec

-----------------------------------------------------------------------------
(* Land, structures, capitals and players *)

\* One command of player p.
PeacefulStep(p) ==
  \/ \E t \in Tiles, k \in UnitKinds : RecruitUnit(p, t, k)
  \/ \E s, t \in Tiles, k \in UnitKinds : MoveUnit(p, k, s, t)
  \/ \E t \in Tiles, k \in BuildableKinds : BuildStructure(p, t, k)
  \/ \E t \in Tiles : DemolishStructure(p, t) \/ DevelopTile(p, t)
  \/ EndTurn(p)

LEMMA StepCases ==
  ASSUME TypeOK, Next
  PROVE  \E p \in Players :
           \/ PeacefulStep(p)
           \/ \E s, t \in Tiles : \E f \in SubForces(units[p][s]) :
                /\ MayAttack(p, s, t, f) /\ turn' = turn
                /\ \/ \E lost \in SubForces(f) : AttackWon(p, s, t, f, lost)
                   \/ \E c : AttackRepelled(p, s, t, f, c)
<1>1. PICK p \in Players :
        \/ PeacefulStep(p)
        \/ \E s, t \in Tiles : \E f \in SubForces(units[p][s]) : \E n \in Counted(f) :
             AttackTile(p, s, t, f, n)
  BY DEF Next, Command, PeacefulStep
<1>2. ASSUME NEW s \in Tiles, NEW t \in Tiles, NEW f \in SubForces(units[p][s]),
             NEW n \in Counted(f), AttackTile(p, s, t, f, n)
      PROVE  /\ MayAttack(p, s, t, f) /\ turn' = turn
             /\ \/ \E lost \in SubForces(f) : AttackWon(p, s, t, f, lost)
                \/ \E c : AttackRepelled(p, s, t, f, c)
  BY <1>2 DEF AttackTile, Losses, turn
<1> QED BY <1>1, <1>2

LEMMA PeacefulLand ==
  ASSUME NEW p \in Players, PeacefulStep(p)
  PROVE  owner' = owner /\ eliminated' = eliminated /\ MayAct(p)
BY DEF PeacefulStep, RecruitUnit, MayRecruit, MoveUnit, MayMove, BuildStructure, MayBuild,
       DemolishStructure, MayDemolish, DevelopTile, MayDevelop, EndTurn, land

LEMMA PeacefulStructures ==
  ASSUME TypeOK, NEW p \in Players, PeacefulStep(p)
  PROVE  \/ structure' = structure
         \/ \E t \in Tiles, k \in BuildableKinds :
              /\ owner[t] = p /\ structure[t].kind = "none"
              /\ structure' = [structure EXCEPT ![t] = [kind |-> k, owner |-> p]]
         \/ \E t \in Tiles :
              /\ owner[t] = p /\ structure[t].kind \in BuildableKinds
              /\ structure' = [structure EXCEPT ![t] = NoSite]
BY DEF PeacefulStep, RecruitUnit, MoveUnit, BuildStructure, MayBuild, DemolishStructure,
       MayDemolish, DevelopTile, EndTurn, board

\* What a won battle does to land, structures and players.
LEMMA WonEffects ==
  ASSUME TypeOK, EliminatedAreGone, NEW p \in Players, NEW s, NEW t \in Tiles, NEW f, NEW lost,
         owner[t] # p, AttackWon(p, s, t, f, lost)
  PROVE  \E captured \in BOOLEAN, fallen \in SUBSET Players :
           /\ fallen = Fallen(t, captured)
           /\ eliminated' = eliminated \cup fallen
           /\ owner' = IF captured THEN OwnerAfterCapture(p, t, fallen) ELSE owner
           /\ structure' = IF captured THEN StructureAfterCapture(p, t, fallen) ELSE structure
           /\ units' = UnitsAfterWin(p, s, t, lost, fallen)
<1> DEFINE captured == lost["noble"] < f["noble"] /\ loyalty[t] <= LoyaltyDamagePerAttack
<1>1. captured \in BOOLEAN
  OBVIOUS
<1>2. Fallen(t, captured) \in SUBSET Players
  BY DEF Fallen, TypeOK
<1> QED BY <1>1, <1>2 DEF AttackWon

LEMMA StructuresNext ==
  TypeOK /\ EliminatedAreGone /\ StructuresFollowLand /\ [Next]_vars => StructuresFollowLand'
<1>1. ASSUME TypeOK, StructuresFollowLand, NEW p \in Players, PeacefulStep(p)
      PROVE  StructuresFollowLand'
  <2> SUFFICES ASSUME NEW x \in Tiles
               PROVE  IF structure'[x].kind = "none" THEN structure'[x] = NoSite
                      ELSE owner'[x] # Nobody /\ structure'[x].owner = owner'[x]
    BY DEF StructuresFollowLand
  <2>1. owner' = owner /\ p # Nobody
    BY <1>1, PeacefulLand, RosterAssumption
  <2>2. IF structure[x].kind = "none" THEN structure[x] = NoSite
        ELSE owner[x] # Nobody /\ structure[x].owner = owner[x]
    BY <1>1 DEF StructuresFollowLand
  <2>3. CASE structure' = structure
    BY <2>1, <2>2, <2>3
  <2>4. ASSUME NEW t \in Tiles, NEW k \in BuildableKinds, owner[t] = p,
               structure' = [structure EXCEPT ![t] = [kind |-> k, owner |-> p]]
        PROVE  IF structure'[x].kind = "none" THEN structure'[x] = NoSite
               ELSE owner'[x] # Nobody /\ structure'[x].owner = owner'[x]
    <3>1. structure'[x] = IF x = t THEN [kind |-> k, owner |-> p] ELSE structure[x]
      BY <1>1, <2>4 DEF TypeOK
    <3>2. CASE x = t
      BY <2>1, <2>4, <3>1, <3>2 DEF BuildableKinds
    <3>3. CASE x # t
      BY <2>1, <2>2, <3>1, <3>3
    <3> QED BY <3>2, <3>3
  <2>5. ASSUME NEW t \in Tiles, structure' = [structure EXCEPT ![t] = NoSite]
        PROVE  IF structure'[x].kind = "none" THEN structure'[x] = NoSite
               ELSE owner'[x] # Nobody /\ structure'[x].owner = owner'[x]
    <3>1. structure'[x] = IF x = t THEN NoSite ELSE structure[x]
      BY <1>1, <2>5 DEF TypeOK
    <3>2. NoSite.kind = "none"
      BY DEF NoSite
    <3> QED BY <2>1, <2>2, <3>1, <3>2
  <2> QED BY <1>1, <2>3, <2>4, <2>5, PeacefulStructures
<1>2. ASSUME TypeOK, EliminatedAreGone, StructuresFollowLand, NEW p \in Players, NEW s \in Tiles,
             NEW t \in Tiles, NEW f, NEW lost, owner[t] # p, AttackWon(p, s, t, f, lost)
      PROVE  StructuresFollowLand'
  <2>1. PICK captured \in BOOLEAN, fallen \in SUBSET Players :
          /\ fallen = Fallen(t, captured)
          /\ owner' = IF captured THEN OwnerAfterCapture(p, t, fallen) ELSE owner
          /\ structure' = IF captured THEN StructureAfterCapture(p, t, fallen) ELSE structure
    BY <1>2, WonEffects
  <2>2. CASE ~ captured
    BY <1>2, <2>1, <2>2 DEF StructuresFollowLand
  <2>3. CASE captured
    <3> SUFFICES ASSUME NEW x \in Tiles
                 PROVE  IF structure'[x].kind = "none" THEN structure'[x] = NoSite
                        ELSE owner'[x] # Nobody /\ structure'[x].owner = owner'[x]
      BY DEF StructuresFollowLand
    <3>1. /\ owner'[x] = IF x = t THEN p ELSE IF owner[x] \in fallen THEN Nobody ELSE owner[x]
          /\ structure'[x] =
               IF structure[x].owner \in fallen THEN NoSite
               ELSE IF x = t /\ fallen = {} /\ owner[t] # Nobody /\ structure[t] # NoSite
               THEN [structure[t] EXCEPT !.owner = p]
               ELSE structure[x]
      BY <2>1, <2>3 DEF OwnerAfterCapture, StructureAfterCapture
    <3>2. IF structure[x].kind = "none" THEN structure[x] = NoSite
          ELSE owner[x] # Nobody /\ structure[x].owner = owner[x]
      BY <1>2 DEF StructuresFollowLand
    <3>3. p # Nobody /\ structure[x] \in Site /\ (fallen # {} => fallen = {owner[t]})
      BY <1>2, <2>1, RosterAssumption DEF TypeOK, Fallen
    <3>4. CASE structure[x].owner \in fallen
      BY <3>1, <3>4 DEF NoSite
    <3>5. CASE structure[x].owner \notin fallen /\ x # t
      BY <3>1, <3>2, <3>5 DEF NoSite
    <3>6. CASE structure[x].owner \notin fallen /\ x = t /\ structure[x].kind = "none"
      BY <3>1, <3>2, <3>6 DEF NoSite
    <3>7. CASE structure[x].owner \notin fallen /\ x = t /\ structure[x].kind # "none"
      <4>1. fallen = {} /\ owner[t] # Nobody /\ structure[t] # NoSite
        BY <3>2, <3>3, <3>7 DEF NoSite
      <4>2. structure'[x] = [structure[t] EXCEPT !.owner = p] /\ owner'[x] = p
        BY <3>1, <3>7, <4>1
      <4>3. structure'[x].owner = p /\ structure'[x].kind = structure[t].kind
        BY <3>3, <3>7, <4>2 DEF Site
      <4> QED BY <3>3, <3>7, <4>2, <4>3
    <3> QED BY <3>4, <3>5, <3>6, <3>7
  <2> QED BY <2>2, <2>3
<1>3. ASSUME StructuresFollowLand, NEW p, NEW s, NEW t, NEW f, NEW c,
             AttackRepelled(p, s, t, f, c)
      PROVE  StructuresFollowLand'
  BY <1>3 DEF AttackRepelled, StructuresFollowLand, land
<1>4. ASSUME StructuresFollowLand, UNCHANGED vars PROVE StructuresFollowLand'
  BY <1>4 DEF StructuresFollowLand, vars, land, board
<1> QED BY <1>1, <1>2, <1>3, <1>4, StepCases DEF MayAttack

LEMMA EliminatedNext == TypeOK /\ EliminatedAreGone /\ [Next]_vars => EliminatedAreGone'
<1>1. ASSUME TypeOK, EliminatedAreGone, NEW p \in Players, PeacefulStep(p)
      PROVE  EliminatedAreGone'
  <2>1. owner' = owner /\ eliminated' = eliminated /\ MayAct(p)
    BY <1>1, PeacefulLand
  <2>2. active' \notin eliminated'
    <3>1. CASE EndTurn(p)
      BY <1>1, <2>1, <3>1, NextPlayerAlive DEF EndTurn, MayAct, Alive
    <3>2. CASE ~ EndTurn(p)
      <4>1. active' = active
        BY <1>1, <3>2 DEF PeacefulStep, RecruitUnit, MoveUnit, BuildStructure,
                          DemolishStructure, DevelopTile, turn
      <4> QED BY <2>1, <4>1 DEF MayAct
    <3> QED BY <3>1, <3>2
  <2>3. ASSUME NEW x \in Tiles PROVE structure'[x].owner \notin eliminated
    <3>1. p \notin eliminated /\ Nobody \notin eliminated
      BY <1>1, <2>1, RosterAssumption DEF MayAct, TypeOK
    <3>2. structure[x].owner \notin eliminated
      BY <1>1 DEF EliminatedAreGone
    <3>3. ASSUME NEW t \in Tiles, NEW k,
                 structure' = [structure EXCEPT ![t] = [kind |-> k, owner |-> p]]
          PROVE  structure'[x].owner \notin eliminated
      <4>1. structure'[x] = IF x = t THEN [kind |-> k, owner |-> p] ELSE structure[x]
        BY <1>1, <3>3 DEF TypeOK
      <4> QED BY <3>1, <3>2, <4>1
    <3>4. ASSUME NEW t \in Tiles, structure' = [structure EXCEPT ![t] = NoSite]
          PROVE  structure'[x].owner \notin eliminated
      <4>1. structure'[x] = IF x = t THEN NoSite ELSE structure[x]
        BY <1>1, <3>4 DEF TypeOK
      <4>2. NoSite.owner = Nobody
        BY DEF NoSite
      <4> QED BY <3>1, <3>2, <4>1, <4>2
    <3> QED BY <1>1, <3>2, <3>3, <3>4, PeacefulStructures
  <2>4. ASSUME NEW q \in eliminated, NEW x \in Tiles PROVE Size(units'[q][x]) = 0
    <3>1. q # p /\ q \in Players
      BY <1>1, <2>1 DEF MayAct, TypeOK
    <3>2. units'[q][x] = units[q][x]
      BY <1>1, <3>1 DEF PeacefulStep, RecruitUnit, MoveUnit, BuildStructure,
                        DemolishStructure, DevelopTile, EndTurn, TypeOK, board
    <3> QED BY <1>1, <3>2 DEF EliminatedAreGone
  <2> QED BY <1>1, <2>1, <2>2, <2>3, <2>4 DEF EliminatedAreGone
<1>2. ASSUME TypeOK, EliminatedAreGone, NEW p \in Players, NEW s \in Tiles, NEW t \in Tiles,
             NEW f, NEW lost, MayAttack(p, s, t, f), AttackWon(p, s, t, f, lost), turn' = turn
      PROVE  EliminatedAreGone'
  <2>1. active' = p /\ p \notin eliminated /\ owner[t] # p
    BY <1>2 DEF MayAttack, MayAct, turn
  <2>2. PICK captured \in BOOLEAN, fallen \in SUBSET Players :
          /\ fallen = Fallen(t, captured)
          /\ eliminated' = eliminated \cup fallen
          /\ owner' = IF captured THEN OwnerAfterCapture(p, t, fallen) ELSE owner
          /\ structure' = IF captured THEN StructureAfterCapture(p, t, fallen) ELSE structure
          /\ units' = UnitsAfterWin(p, s, t, lost, fallen)
    BY <1>2, <2>1, WonEffects
  <2>3. p \notin fallen /\ (~ captured => fallen = {})
    BY <1>2, <2>1, <2>2, FallenPlayer DEF Fallen
  <2>4. Nobody \notin eliminated' /\ p \notin eliminated'
    BY <1>2, <2>1, <2>2, <2>3, RosterAssumption DEF TypeOK
  <2>5. ASSUME NEW x \in Tiles PROVE owner'[x] \notin eliminated'
    BY <1>2, <2>2, <2>3, <2>4 DEF OwnerAfterCapture, EliminatedAreGone
  <2>6. ASSUME NEW x \in Tiles PROVE structure'[x].owner \notin eliminated'
    <3>1. structure[x] \in Site /\ structure[t] \in Site /\ structure[x].owner \notin eliminated
      BY <1>2 DEF TypeOK, EliminatedAreGone
    <3>2. \/ structure'[x] = NoSite
          \/ structure'[x] = [structure[t] EXCEPT !.owner = p]
          \/ structure'[x] = structure[x] /\ structure[x].owner \notin fallen
      BY <2>2, <2>3 DEF StructureAfterCapture
    <3> QED BY <2>2, <2>4, <3>1, <3>2 DEF NoSite, Site
  <2>7. ASSUME NEW q \in eliminated', NEW x \in Tiles PROVE Size(units'[q][x]) = 0
    <3>1. q \in Players /\ q # p
      BY <1>2, <2>2, <2>4 DEF TypeOK
    <3>2. units'[q][x] = NoForce \/ (units'[q][x] = units[q][x] /\ q \notin fallen)
      BY <2>2, <3>1 DEF UnitsAfterWin
    <3> QED BY <1>2, <2>2, <3>2, NoForceType DEF EliminatedAreGone
  <2> QED BY <2>1, <2>4, <2>5, <2>6, <2>7 DEF EliminatedAreGone
<1>3. ASSUME TypeOK, EliminatedAreGone, NEW p \in Players, NEW s \in Tiles, NEW t \in Tiles,
             NEW f, NEW c, MayAttack(p, s, t, f), AttackRepelled(p, s, t, f, c), turn' = turn
      PROVE  EliminatedAreGone'
  <2>1. /\ active' = active /\ owner' = owner /\ structure' = structure
        /\ eliminated' = eliminated /\ p \notin eliminated
    BY <1>3 DEF AttackRepelled, MayAttack, MayAct, land, turn
  <2>2. ASSUME NEW q \in eliminated, NEW x \in Tiles PROVE Size(units'[q][x]) = 0
    <3>1. q \in Players /\ q # p /\ units[q][x] \in Army /\ Size(units[q][x]) = 0
      BY <1>3, <2>1 DEF TypeOK, EliminatedAreGone
    <3>2. PICK lost \in [Players -> UNION { SubForces(units[r][t]) : r \in Players }] :
            /\ \A r \in Players : lost[r] \in SubForces(units[r][t])
            /\ units' = [r \in Players |-> [y \in Tiles |->
                           IF y = t THEN units[r][y] (-) lost[r]
                           ELSE IF r = p /\ y = s THEN units[r][y] (-) f
                           ELSE units[r][y]]]
      BY <1>3 DEF AttackRepelled
    <3>3. CASE x = t
      <4>1. lost[q] \in Army /\ \A k \in UnitKinds : lost[q][k] <= units[q][x][k]
        BY <3>1, <3>2, <3>3, SubForcesType
      <4>2. units[q][x] (-) lost[q] \in Army /\ Size(units[q][x] (-) lost[q]) <= 0
        BY <3>1, <4>1, RemovePart
      <4>3. Size(units[q][x] (-) lost[q]) = 0
        BY <4>2, SizeType
      <4> QED BY <3>1, <3>2, <3>3, <4>3
    <3>4. CASE x # t
      BY <3>1, <3>2, <3>4
    <3> QED BY <3>3, <3>4
  <2> QED BY <1>3, <2>1, <2>2 DEF EliminatedAreGone
<1>4. ASSUME EliminatedAreGone, UNCHANGED vars PROVE EliminatedAreGone'
  BY <1>4 DEF EliminatedAreGone, vars, land, board, turn
<1> QED BY <1>1, <1>2, <1>3, <1>4, StepCases

LEMMA InitLand == Init => StructuresFollowLand /\ EliminatedAreGone
<1> SUFFICES ASSUME Init PROVE StructuresFollowLand /\ EliminatedAreGone
  OBVIOUS
<1>1. ASSUME NEW t \in Tiles
      PROVE  structure[t] = IF owner[t] = Nobody THEN NoSite
                            ELSE [kind |-> "capital-base", owner |-> owner[t]]
  BY DEF Init
<1>2. StructuresFollowLand
  <2>1. ASSUME NEW t \in Tiles
        PROVE  IF structure[t].kind = "none" THEN structure[t] = NoSite
               ELSE owner[t] # Nobody /\ structure[t].owner = owner[t]
    <3>1. CASE owner[t] = Nobody
      <4>1. structure[t] = NoSite /\ NoSite.kind = "none"
        BY <1>1, <3>1 DEF NoSite
      <4> QED BY <4>1
    <3>2. CASE owner[t] # Nobody
      <4>1. structure[t] = [kind |-> "capital-base", owner |-> owner[t]]
        BY <1>1, <3>2
      <4> QED BY <3>2, <4>1
    <3> QED BY <3>1, <3>2
  <2> QED BY <2>1 DEF StructuresFollowLand
<1>3. EliminatedAreGone
  BY DEF Init, EliminatedAreGone
<1> QED BY <1>2, <1>3

\* The structure of a tile belongs to the tile's owner, through building,
\* demolition, capture and elimination (attack.ts:153-178): income.ts may ask
\* by tile where food costs and limits ask by owner.
THEOREM StructuresOnLand == Spec => []StructuresFollowLand
<1>1. Init => TypeOK /\ StructuresFollowLand /\ EliminatedAreGone
  BY InitType, InitLand
<1>2. TypeOK /\ StructuresFollowLand /\ EliminatedAreGone /\ [Next]_vars
      => (TypeOK /\ StructuresFollowLand /\ EliminatedAreGone)'
  BY NextType, StructuresNext, EliminatedNext
<1> QED BY <1>1, <1>2, PTL DEF Spec

\* Nothing of an eliminated player stays on the board, and the turn order
\* never hands it the turn (attack.ts:153-170, turn-order.ts:27-37).
THEOREM EliminatedGone == Spec => []EliminatedAreGone
<1>1. Init => TypeOK /\ EliminatedAreGone
  BY InitType, InitLand
<1>2. TypeOK /\ EliminatedAreGone /\ [Next]_vars => (TypeOK /\ EliminatedAreGone)'
  BY NextType, EliminatedNext
<1> QED BY <1>1, <1>2, PTL DEF Spec

-----------------------------------------------------------------------------
(* The rules: capitals, the winner, conquest, and the treasury *)

\* The board is consistent: what the proofs below know of a state.
Consistent == TypeOK /\ StructuresFollowLand /\ EliminatedAreGone

LEMMA ConsistentInit == Init => Consistent
BY InitType, InitLand DEF Consistent

LEMMA ConsistentNext == Consistent /\ [Next]_vars => Consistent'
BY NextType, StructuresNext, EliminatedNext DEF Consistent

-----------------------------------------------------------------------------
(* Capitals *)

CapitalBases == { t \in Tiles : structure[t].kind = "capital-base" }

LEMMA PeacefulCapitals ==
  ASSUME Consistent, CapitalsHeld, NEW p \in Players, PeacefulStep(p)
  PROVE  CapitalsHeld'
<1>1. owner' = owner /\ Alive' = Alive
  BY PeacefulLand DEF Alive
<1>2. ASSUME NEW x \in Tiles
      PROVE  structure'[x].kind = "capital-base" <=> structure[x].kind = "capital-base"
  <2>1. structure \in [Tiles -> Site]
    BY DEF Consistent, TypeOK
  <2>2. CASE structure' = structure
    BY <2>2
  <2>3. ASSUME NEW t \in Tiles, NEW k \in BuildableKinds, structure[t].kind = "none",
               structure' = [structure EXCEPT ![t] = [kind |-> k, owner |-> p]]
        PROVE  structure'[x].kind = "capital-base" <=> structure[x].kind = "capital-base"
    <3>1. structure'[x] = IF x = t THEN [kind |-> k, owner |-> p] ELSE structure[x]
      BY <2>1, <2>3
    <3>2. k # "capital-base"
      BY DEF BuildableKinds
    <3> QED BY <2>3, <3>1, <3>2
  <2>4. ASSUME NEW t \in Tiles, structure[t].kind \in BuildableKinds,
               structure' = [structure EXCEPT ![t] = NoSite]
        PROVE  structure'[x].kind = "capital-base" <=> structure[x].kind = "capital-base"
    <3>1. structure'[x] = IF x = t THEN NoSite ELSE structure[x]
      BY <2>1, <2>4
    <3>2. NoSite.kind # "capital-base" /\ structure[t].kind # "capital-base"
      BY <2>4 DEF NoSite, BuildableKinds
    <3> QED BY <3>1, <3>2
  <2> QED BY <2>2, <2>3, <2>4, PeacefulStructures DEF Consistent
<1>3. { t \in Tiles : structure'[t].kind = "capital-base" } = CapitalBases
  BY <1>2 DEF CapitalBases
<1> QED BY <1>1, <1>3 DEF CapitalsHeld, CapitalBases

LEMMA WonCapitals ==
  ASSUME Consistent, CapitalsHeld, NEW p \in Players, NEW s \in Tiles, NEW t \in Tiles,
         NEW f, NEW lost, p \in Alive, owner[t] # p, AttackWon(p, s, t, f, lost)
  PROVE  CapitalsHeld'
<1>1. PICK captured \in BOOLEAN, fallen \in SUBSET Players :
        /\ fallen = Fallen(t, captured)
        /\ eliminated' = eliminated \cup fallen
        /\ owner' = IF captured THEN OwnerAfterCapture(p, t, fallen) ELSE owner
        /\ structure' = IF captured THEN StructureAfterCapture(p, t, fallen) ELSE structure
  BY WonEffects DEF Consistent
<1>2. Alive' = Alive \ fallen
  BY <1>1 DEF Alive
<1>3. CASE ~ captured
  <2>1. owner' = owner /\ structure' = structure /\ fallen = {}
    BY <1>1, <1>3 DEF Fallen
  <2> QED BY <1>2, <2>1 DEF CapitalsHeld
<1>4. CASE captured
  <2>1. \A x \in Tiles : owner'[x] = IF x = t THEN p
                                    ELSE IF owner[x] \in fallen THEN Nobody ELSE owner[x]
    BY <1>1, <1>4 DEF OwnerAfterCapture
  <2>2. \A v \in fallen : v \in Alive /\ v # p /\ owner[t] = v /\ Capital[v] = t
    BY <1>1, FallenPlayer DEF Consistent
  <2>3. Capital \in [Players -> Tiles] /\ Alive \subseteq Players
    BY BoardAssumption DEF Alive
  <2>4. \A q \in Alive : owner[Capital[q]] = q
    BY DEF CapitalsHeld
  <2>5. \A q \in Alive : Capital[q] = t => q \in fallen
    BY <1>1, <1>4, <2>3, <2>4, RosterAssumption DEF Fallen
  <2>6. \A q \in Alive' : owner'[Capital[q]] = q
    BY <1>2, <2>1, <2>3, <2>4, <2>5
  <2>7. ASSUME NEW x \in Tiles
        PROVE  structure'[x].kind = "capital-base"
               <=> structure[x].kind = "capital-base" /\ owner[x] \notin fallen
    <3>1. structure[x] \in Site /\ structure[t] \in Site
      BY DEF Consistent, TypeOK
    <3>2. structure[x].kind = "capital-base" => structure[x].owner = owner[x]
      BY DEF Consistent, StructuresFollowLand
    <3>3. structure'[x] =
            IF structure[x].owner \in fallen THEN NoSite
            ELSE IF x = t /\ fallen = {} /\ owner[t] # Nobody /\ structure[t] # NoSite
            THEN [structure[t] EXCEPT !.owner = p]
            ELSE structure[x]
      BY <1>1, <1>4 DEF StructureAfterCapture
    <3>4. NoSite.kind # "capital-base"
      BY DEF NoSite
    <3>5. CASE structure[x].owner \in fallen
      BY <3>2, <3>3, <3>4, <3>5
    <3>6. CASE structure[x].owner \notin fallen
      <4>1. structure'[x].kind = structure[x].kind
        BY <3>1, <3>3, <3>6 DEF Site
      <4> QED BY <3>2, <3>6, <4>1
    <3> QED BY <3>5, <3>6
  <2>8. { x \in Tiles : structure[x].kind = "capital-base" } = { Capital[q] : q \in Alive }
    BY DEF CapitalsHeld
  <2>9. { x \in Tiles : structure'[x].kind = "capital-base" } = { Capital[q] : q \in Alive' }
    <3>1. ASSUME NEW x \in Tiles, structure'[x].kind = "capital-base"
          PROVE  x \in { Capital[q] : q \in Alive' }
      <4>1. PICK q \in Alive : x = Capital[q]
        BY <2>7, <2>8, <3>1
      <4> QED BY <1>2, <2>4, <2>7, <3>1, <4>1
    <3>2. ASSUME NEW q \in Alive'
          PROVE  Capital[q] \in Tiles /\ structure'[Capital[q]].kind = "capital-base"
      <4>1. q \in Alive /\ q \notin fallen /\ Capital[q] \in Tiles
        BY <1>2, <2>3
      <4>2. structure[Capital[q]].kind = "capital-base"
        BY <2>8, <4>1
      <4> QED BY <2>4, <2>7, <4>1, <4>2
    <3> QED BY <3>1, <3>2
  <2> QED BY <2>6, <2>9 DEF CapitalsHeld
<1> QED BY <1>3, <1>4

LEMMA CapitalsNext == Consistent /\ CapitalsHeld /\ [Next]_vars => CapitalsHeld'
<1>1. ASSUME CapitalsHeld, NEW p, NEW s, NEW t, NEW f, NEW c, AttackRepelled(p, s, t, f, c)
      PROVE  CapitalsHeld'
  BY <1>1 DEF AttackRepelled, CapitalsHeld, Alive, land
<1>2. ASSUME CapitalsHeld, UNCHANGED vars PROVE CapitalsHeld'
  BY <1>2 DEF CapitalsHeld, Alive, vars, land, board
<1> QED BY <1>1, <1>2, StepCases, PeacefulCapitals, WonCapitals
        DEF Consistent, MayAttack, MayAct, Alive

LEMMA InitCapitals == Init => CapitalsHeld
<1> SUFFICES ASSUME Init PROVE CapitalsHeld
  OBVIOUS
<1>1. Alive = Players
  BY DEF Init, Alive
<1>2. \A p \in Players : Capital[p] \in Tiles /\ owner[Capital[p]] = p
  BY BoardAssumption DEF Init
<1>3. ASSUME NEW t \in Tiles
      PROVE  structure[t].kind = "capital-base" <=> \E p \in Players : Capital[p] = t
  <2>1. structure[t] = IF owner[t] = Nobody THEN NoSite
                       ELSE [kind |-> "capital-base", owner |-> owner[t]]
    BY DEF Init
  <2>2. owner[t] # Nobody <=> \E p \in Players : Capital[p] = t
    BY <1>2, RosterAssumption DEF Init
  <2>3. NoSite.kind # "capital-base"
    BY DEF NoSite
  <2> QED BY <2>1, <2>2, <2>3
<1> QED BY <1>1, <1>2, <1>3 DEF CapitalsHeld

\* A player is in the game exactly as long as it holds its capital, and the
\* capital bases are exactly those: capture of a capital eliminates its
\* player and deletes its base in the same command (attack.ts:153-178).
THEOREM CapitalsStand == Spec => []CapitalsHeld
<1>1. Init => Consistent /\ CapitalsHeld
  BY ConsistentInit, InitCapitals
<1>2. Consistent /\ CapitalsHeld /\ [Next]_vars => (Consistent /\ CapitalsHeld)'
  BY ConsistentNext, CapitalsNext
<1> QED BY <1>1, <1>2, PTL DEF Spec

-----------------------------------------------------------------------------
(* The winner *)

\* A step keeps a player in the game and brings nobody back.
LEMMA AliveShrinks ==
  ASSUME Consistent, Next
  PROVE  Alive' \subseteq Alive /\ Alive' # {}
<1>1. ASSUME NEW p \in Players, PeacefulStep(p)
      PROVE  Alive' \subseteq Alive /\ Alive' # {}
  BY <1>1, PeacefulLand DEF MayAct, Alive
<1>2. ASSUME NEW p \in Players, NEW s \in Tiles, NEW t \in Tiles, NEW f, NEW lost,
             MayAttack(p, s, t, f), AttackWon(p, s, t, f, lost)
      PROVE  Alive' \subseteq Alive /\ Alive' # {}
  <2>1. p \in Alive /\ owner[t] # p
    BY <1>2 DEF MayAttack, MayAct, Alive
  <2>2. PICK captured \in BOOLEAN, fallen \in SUBSET Players :
          fallen = Fallen(t, captured) /\ eliminated' = eliminated \cup fallen
    BY <1>2, <2>1, WonEffects DEF Consistent
  <2>3. p \notin fallen
    BY <2>1, <2>2, FallenPlayer DEF Consistent
  <2> QED BY <2>1, <2>2, <2>3 DEF Alive
<1>3. ASSUME NEW p \in Players, NEW s, NEW t, NEW f, NEW c,
             MayAttack(p, s, t, f), AttackRepelled(p, s, t, f, c)
      PROVE  Alive' \subseteq Alive /\ Alive' # {}
  BY <1>3 DEF AttackRepelled, MayAttack, MayAct, Alive
<1> QED BY <1>1, <1>2, <1>3, StepCases DEF Consistent

LEMMA WinnerNext == Consistent /\ WinnerStandsAlone /\ [Next]_vars => WinnerStandsAlone'
<1>1. ASSUME Consistent, WinnerStandsAlone, Next PROVE WinnerStandsAlone'
  <2>1. Alive' \subseteq Alive /\ Alive' # {} /\ Alive \subseteq Players
    BY <1>1, AliveShrinks DEF Alive
  <2>2. winner \in Players \cup {Nobody} /\ Nobody \notin Players
    BY <1>1, RosterAssumption DEF Consistent, TypeOK
  <2>3. winner' = IF winner = Nobody /\ Cardinality(Alive') = 1
                  THEN CHOOSE p \in Players : p \in Alive' ELSE winner
    BY <1>1 DEF Next, JudgeVictory
  <2>4. \A p \in Players : (winner = p) <=> (Alive = {p})
    BY <1>1 DEF WinnerStandsAlone
  <2>5. \A p \in Players : (winner' = p) <=> (Alive' = {p})
    <3>1. CASE winner \in Players
      <4>1. Alive = {winner} /\ Alive' = {winner} /\ winner' = winner
        BY <2>1, <2>2, <2>3, <2>4, <3>1
      <4> QED BY <3>1, <4>1
    <3>2. CASE winner = Nobody /\ Cardinality(Alive') = 1
      <4>1. IsFiniteSet(Alive')
        BY <2>1, FS_Subset, RosterAssumption
      <4>2. PICK x : Alive' = {x}
        BY <3>2, <4>1, FS_Singleton
      <4>3. winner' = x
        BY <2>1, <2>3, <3>2, <4>2
      <4> QED BY <4>2, <4>3
    <3>3. CASE winner = Nobody /\ Cardinality(Alive') # 1
      <4>1. winner' = Nobody
        BY <2>3, <3>3
      <4>2. \A p : Alive' # {p}
        BY <3>3, FS_Singleton
      <4> QED BY <2>2, <4>1, <4>2
    <3> QED BY <2>2, <3>1, <3>2, <3>3
  <2> QED BY <2>5 DEF WinnerStandsAlone
<1>2. ASSUME WinnerStandsAlone, UNCHANGED vars PROVE WinnerStandsAlone'
  BY <1>2 DEF WinnerStandsAlone, Alive, vars
<1> QED BY <1>1, <1>2

LEMMA InitWinner == Init => WinnerStandsAlone
<1>1. ASSUME Init, NEW p \in Players PROVE winner # p /\ Alive # {p}
  <2>1. Alive = Players /\ winner = Nobody
    BY <1>1 DEF Init, Alive
  <2>2. Players # {p}
    BY FS_Singleton, RosterAssumption
  <2> QED BY <2>1, <2>2, RosterAssumption
<1> QED BY <1>1 DEF WinnerStandsAlone

\* The winner Game.submit records (game.ts:64-69, victory.ts:8-29) is the only
\* player in the game, and stays it: no late command can undo the verdict.
THEOREM WinnerAlone == Spec => []WinnerStandsAlone
<1>1. Init => Consistent /\ WinnerStandsAlone
  BY ConsistentInit, InitWinner
<1>2. Consistent /\ WinnerStandsAlone /\ [Next]_vars => (Consistent /\ WinnerStandsAlone)'
  BY ConsistentNext, WinnerNext
<1> QED BY <1>1, <1>2, PTL DEF Spec

-----------------------------------------------------------------------------
(* Conquest *)

LEMMA ConquestStep == Consistent /\ [Next]_vars => [Conquest]_vars
<1>1. ASSUME owner' = owner PROVE Conquest
  <2>1. { t \in { x \in Tiles : owner'[x] # owner[x] } : owner'[t] # Nobody } = {}
    BY <1>1
  <2> QED BY <1>1, <2>1, FS_EmptySet DEF Conquest
<1>2. ASSUME Consistent, NEW p \in Players, NEW s \in Tiles, NEW t \in Tiles, NEW f, NEW lost,
             MayAttack(p, s, t, f), AttackWon(p, s, t, f, lost)
      PROVE  Conquest
  <2>1. p = active /\ owner[s] = p /\ owner[t] # p /\ s \in Neighbours[t] /\ p # Nobody
    BY <1>2, BoardAssumption, RosterAssumption DEF MayAttack, MayAct
  <2>2. PICK captured \in BOOLEAN, fallen \in SUBSET Players :
          /\ fallen = Fallen(t, captured)
          /\ eliminated' = eliminated \cup fallen
          /\ owner' = IF captured THEN OwnerAfterCapture(p, t, fallen) ELSE owner
    BY <1>2, <2>1, WonEffects DEF Consistent
  <2>3. CASE ~ captured
    BY <1>1, <2>2, <2>3
  <2>4. CASE captured
    <3> DEFINE changed == { x \in Tiles : owner'[x] # owner[x] }
               taken   == { x \in changed : owner'[x] # Nobody }
    <3>1. \A x \in Tiles : owner'[x] = IF x = t THEN p
                                      ELSE IF owner[x] \in fallen THEN Nobody ELSE owner[x]
      BY <2>2, <2>4 DEF OwnerAfterCapture
    <3>2. taken \subseteq {t}
      BY <3>1
    <3>3. Cardinality(taken) <= 1
      <4>1. IsFiniteSet({t}) /\ Cardinality({t}) = 1
        BY FS_Singleton
      <4>2. Cardinality(taken) <= Cardinality({t}) /\ Cardinality(taken) \in Nat
        BY <3>2, <4>1, FS_Subset, FS_CardinalityType
      <4> QED BY <4>1, <4>2
    <3>4. \A x \in taken : owner'[x] = active /\ \E y \in Neighbours[x] : owner[y] = active
      BY <2>1, <3>1, <3>2
    <3>5. \A x \in changed \ taken : owner[x] \in eliminated' \ eliminated
      <4>1. \A x \in Tiles : owner[x] \notin eliminated
        BY <1>2 DEF Consistent, EliminatedAreGone
      <4> QED BY <2>1, <2>2, <3>1, <4>1
    <3> QED BY <3>3, <3>4, <3>5 DEF Conquest
  <2> QED BY <2>3, <2>4
<1>3. ASSUME NEW p, NEW s, NEW t, NEW f, NEW c, AttackRepelled(p, s, t, f, c)
      PROVE  owner' = owner
  BY <1>3 DEF AttackRepelled, land
<1> QED BY <1>1, <1>2, <1>3, StepCases, PeacefulLand DEF Consistent

\* Land changes hands only by conquest: one tile in a command, to the active
\* player, from its own land next to it; it falls vacant only when its owner
\* is eliminated in that very command (attack.ts:147-168).
THEOREM ConquestOnly == Spec => LandChangesHands
<1>1. Init => Consistent
  BY ConsistentInit
<1>2. Consistent /\ [Next]_vars => Consistent'
  BY ConsistentNext
<1>3. Consistent /\ [Next]_vars => [Conquest]_vars
  BY ConquestStep
<1> QED BY <1>1, <1>2, <1>3, PTL DEF Spec, LandChangesHands

-----------------------------------------------------------------------------
(* The treasury *)

LEMMA PayAffordable ==
  ASSUME TypeOK, NoDebt, NEW p \in Players, NEW cost \in [Resources -> Int],
         \A r \in Resources : stock[p][r] >= cost[r], Pay(p, cost)
  PROVE  \A q \in Players, r \in Resources : stock'[q][r] >= 0
<1> SUFFICES ASSUME NEW q \in Players, NEW r \in Resources PROVE stock'[q][r] >= 0
  OBVIOUS
<1>1. stock \in [Players -> [Resources -> Int]] /\ stock[q][r] >= 0
  BY DEF TypeOK, NoDebt
<1>2. stock'[q][r] = IF q = p THEN stock[p][r] - cost[r] ELSE stock[q][r]
  BY <1>1 DEF Pay
<1> QED BY <1>1, <1>2

\* Nobody owes gold at the round end, so no city is mortgaged.
LEMMA NobodyMortgaged ==
  ASSUME Consistent, NoDebt, MortgageDebtors,
         \A q \in Players : stock'[q]["gold"] >= 0, stock' \in [Players -> [Resources -> Int]]
  PROVE  mortgaged' = {}
<1>1. PICK M \in SUBSET { t \in Tiles : WorkingKind(t) = "city" } :
        /\ \A q \in Players :
             LET cities == { t \in Tiles : WorkingKind(t) = "city" /\ structure[t].owner = q }
                 due    == q \in Alive /\ stock'[q]["gold"] < 0 /\ cities # {}
             IN  Cardinality(M \cap cities) = IF due THEN 1 ELSE 0
        /\ mortgaged' = mortgaged \cup M
  BY DEF MortgageDebtors
<1>2. ASSUME NEW x \in M PROVE FALSE
  <2>1. x \in Tiles /\ WorkingKind(x) = "city"
    BY <1>1
  <2>2. structure[x].kind = "city"
    BY <2>1 DEF WorkingKind
  <2>3. owner[x] \in Players /\ structure[x].owner = owner[x]
    BY <2>1, <2>2 DEF Consistent, TypeOK, StructuresFollowLand
  <2> DEFINE q == owner[x]
             cities == { t \in Tiles : WorkingKind(t) = "city" /\ structure[t].owner = q }
  <2>4. ~ (stock'[q]["gold"] < 0)
    <3>1. stock'[q]["gold"] \in Int
      BY <2>3 DEF Resources
    <3> QED BY <2>3, <3>1
  <2>5. Cardinality(M \cap cities) = 0
    BY <1>1, <2>3, <2>4
  <2>6. IsFiniteSet(M \cap cities)
    BY FS_Subset, BoardAssumption
  <2>7. M \cap cities = {}
    BY <2>5, <2>6, FS_EmptySet
  <2> QED BY <2>1, <2>3, <2>7
<1> QED BY <1>1, <1>2 DEF NoDebt

LEMMA NoDebtNext == Consistent /\ NoDebt /\ [Next]_vars => NoDebt'
<1>1. ASSUME Consistent, NoDebt, Next PROVE NoDebt'
  <2>1. TypeOK
    BY <1>1 DEF Consistent
  <2>2. ASSUME stock' = stock, mortgaged' = {} PROVE NoDebt'
    BY <1>1, <2>2 DEF NoDebt
  <2>3. ASSUME NEW p \in Players, NEW t \in Tiles, NEW k \in UnitKinds, RecruitUnit(p, t, k)
        PROVE  NoDebt'
    <3>1. /\ UnitCount(p, k) < UnitLimit[k]
          /\ Pay(p, UnitPrice(p, k)) /\ Affords(p, UnitPrice(p, k))
      BY <2>3 DEF RecruitUnit, MayRecruit
    <3>2. UnitPrice(p, k) \in [Resources -> Int]
      BY <2>1, <3>1, RecruitCostType
    <3>3. \A q \in Players, r \in Resources : stock'[q][r] >= 0
      BY <1>1, <2>1, <3>1, <3>2, PayAffordable DEF Affords
    <3> QED BY <1>1, <2>3, <3>3 DEF NoDebt, RecruitUnit
  <2>4. ASSUME NEW p \in Players, NEW t \in Tiles, NEW k \in BuildableKinds,
               BuildStructure(p, t, k)
        PROVE  NoDebt'
    <3>1. StructureCost[k] \in [Resources -> Int]
      BY StructureCostType
    <3>2. \A q \in Players, r \in Resources : stock'[q][r] >= 0
      BY <1>1, <2>1, <2>4, <3>1, PayAffordable DEF BuildStructure, MayBuild, Affords
    <3> QED BY <1>1, <2>4, <3>2 DEF NoDebt, BuildStructure
  <2>5. ASSUME NEW p \in Players, NEW t \in Tiles, DevelopTile(p, t)
        PROVE  NoDebt'
    <3> DEFINE cost == [NoCost EXCEPT !["gold"] = DevelopCost]
    <3>1. /\ cost \in [Resources -> Int]
          /\ \A r \in Resources : cost[r] = IF r = "gold" THEN DevelopCost ELSE 0
      BY DEF NoCost, DevelopCost, Resources
    <3>2. \A r \in Resources : stock[p][r] >= cost[r]
      BY <1>1, <2>5, <3>1 DEF NoDebt, DevelopTile, MayDevelop
    <3>3. Pay(p, cost)
      BY <2>5 DEF DevelopTile
    <3>4. \A q \in Players, r \in Resources : stock'[q][r] >= 0
      BY <1>1, <2>1, <3>1, <3>2, <3>3, PayAffordable
    <3> QED BY <1>1, <2>5, <3>4 DEF NoDebt, DevelopTile, board
  <2>6. ASSUME NEW p \in Players, NEW t \in Tiles, DemolishStructure(p, t)
        PROVE  NoDebt'
    <3> DEFINE refund == StructureCost[structure[t].kind]
    <3>1. refund \in [Resources -> Nat]
      BY <2>6, StructureCostType DEF DemolishStructure, MayDemolish
    <3>2. ASSUME NEW q \in Players, NEW r \in Resources PROVE stock'[q][r] >= 0
      <4>1. stock \in [Players -> [Resources -> Int]] /\ stock[q][r] >= 0
        BY <1>1, <2>1 DEF TypeOK, NoDebt
      <4>2. stock' = [stock EXCEPT ![p] = [x \in Resources |-> @[x] + refund[x] \div 2]]
        BY <2>6 DEF DemolishStructure
      <4>3. stock'[q][r] = IF q = p THEN stock[p][r] + refund[r] \div 2 ELSE stock[q][r]
        BY <4>1, <4>2
      <4>4. refund[r] \div 2 \in Nat
        BY <3>1
      <4> QED BY <4>1, <4>3, <4>4
    <3> QED BY <1>1, <2>6, <3>2 DEF NoDebt, DemolishStructure
  <2>7. ASSUME NEW p \in Players, EndTurn(p), RoundEnd PROVE NoDebt'
    <3>1. stock' \in [Players -> [Resources -> Int]]
      BY <2>1, <2>7, AfterCycleType DEF RoundEnd, TypeOK
    <3>2. \A q \in Players, r \in Resources : stock'[q][r] >= 0
      <4>1. \A q \in Players, r \in Resources : stock[q][r] >= 0
        BY <1>1 DEF NoDebt
      <4>2. \A q \in Players : stock'[q] = IF q \in Alive THEN AfterCycle(q) ELSE stock[q]
        BY <2>7 DEF RoundEnd
      <4> QED BY <2>1, <4>1, <4>2, AfterCycleType
    <3>3. mortgaged' = {}
      BY <1>1, <2>7, <3>1, <3>2, NobodyMortgaged DEF RoundEnd, Resources
    <3> QED BY <3>2, <3>3 DEF NoDebt
  <2>8. ASSUME NEW p \in Players, EndTurn(p), ~ RoundEnd PROVE NoDebt'
    BY <1>1, <2>2, <2>8 DEF EndTurn, NoDebt
  <2>9. ASSUME NEW p, NEW k, NEW s, NEW t, MoveUnit(p, k, s, t) PROVE NoDebt'
    BY <1>1, <2>2, <2>9 DEF MoveUnit, NoDebt
  <2>10. ASSUME NEW p, NEW s, NEW t, NEW f, NEW lost, AttackWon(p, s, t, f, lost) PROVE NoDebt'
    BY <1>1, <2>2, <2>10 DEF AttackWon, NoDebt
  <2>11. ASSUME NEW p, NEW s, NEW t, NEW f, NEW c, AttackRepelled(p, s, t, f, c) PROVE NoDebt'
    BY <1>1, <2>2, <2>11 DEF AttackRepelled, NoDebt
  <2>12. PICK p \in Players :
           \/ PeacefulStep(p)
           \/ \E s, t \in Tiles : \E f \in SubForces(units[p][s]) :
                \/ \E lost \in SubForces(f) : AttackWon(p, s, t, f, lost)
                \/ \E c : AttackRepelled(p, s, t, f, c)
    BY <1>1, <2>1, StepCases
  <2>13. CASE PeacefulStep(p)
    BY <2>3, <2>4, <2>5, <2>6, <2>7, <2>8, <2>9, <2>13 DEF PeacefulStep
  <2> QED BY <2>10, <2>11, <2>12, <2>13
<1>2. ASSUME NoDebt, UNCHANGED vars PROVE NoDebt'
  BY <1>2 DEF NoDebt, vars, board
<1> QED BY <1>1, <1>2

LEMMA InitNoDebt == Init => NoDebt
BY SetupAssumption DEF Init, NoDebt

\* No inventory ever goes negative: Inventory.remove (inventory.ts:19-24)
\* never throws half-way through a round end, the round end never leaves a
\* debt, and the mortgage safeguard (economy-loop.ts:147-162) is dead code.
THEOREM DebtFree == Spec => []NoDebt
<1>1. Init => Consistent /\ NoDebt
  BY ConsistentInit, InitNoDebt
<1>2. Consistent /\ NoDebt /\ [Next]_vars => (Consistent /\ NoDebt)'
  BY ConsistentNext, NoDebtNext
<1> QED BY <1>1, <1>2, PTL DEF Spec

-----------------------------------------------------------------------------
(* Units that moved *)

\* The units marked as moved on a tile stand there and belong to the player on
\* turn: losses take their marks along, and none outlasts the turn (the list of
\* the code keeps ids of casualties, which name no unit any more; move.ts:51-64,
\* attack.ts:119-121, end-turn.ts:27).
MovedAreThere == \A t \in Tiles, k \in UnitKinds : moved[t][k] <= units[active][t][k]

LEMMA RecruitMoved ==
  ASSUME TypeOK, MovedAreThere, NEW p \in Players, NEW t \in Tiles, NEW k \in UnitKinds,
         RecruitUnit(p, t, k)
  PROVE  MovedAreThere'
<1> SUFFICES ASSUME NEW x \in Tiles, NEW j \in UnitKinds
             PROVE  moved'[x][j] <= units'[active'][x][j]
  BY DEF MovedAreThere
<1>1. moved' = moved /\ active' = active
  BY DEF RecruitUnit, turn
<1>2. units[active][x] \in Army /\ units[p][t] \in Army /\ moved[x] \in Army
  BY DEF TypeOK
<1>3. units'[active][x] = IF active = p /\ x = t THEN units[p][t] (+) Single(k)
                          ELSE units[active][x]
  BY DEF RecruitUnit, TypeOK
<1>4. moved[x][j] <= units[active][x][j]
  BY DEF MovedAreThere
<1> QED BY <1>1, <1>2, <1>3, <1>4 DEF Army, (+), Single

LEMMA MoveMoved ==
  ASSUME TypeOK, MovedAreThere, NEW p \in Players, NEW k \in UnitKinds, NEW s \in Tiles,
         NEW t \in Tiles, MoveUnit(p, k, s, t)
  PROVE  MovedAreThere'
<1> SUFFICES ASSUME NEW x \in Tiles, NEW j \in UnitKinds
             PROVE  moved'[x][j] <= units'[active'][x][j]
  BY DEF MovedAreThere
<1>1. active' = p /\ active = p /\ s # t /\ units[p][s][k] > moved[s][k]
  BY DEF MoveUnit, MayMove, MayAct, turn
<1>2. units[p][x] \in Army /\ moved[x] \in Army
  BY DEF TypeOK
<1>3. /\ units'[p][x] = IF x = t THEN units[p][x] (+) Single(k)
                        ELSE IF x = s THEN units[p][x] (-) Single(k)
                        ELSE units[p][x]
      /\ moved'[x] = IF x = t THEN moved[x] (+) Single(k) ELSE moved[x]
  BY <1>1 DEF MoveUnit, TypeOK
<1>4. moved[x][j] <= units[p][x][j]
  BY <1>1 DEF MovedAreThere
<1> QED BY <1>1, <1>2, <1>3, <1>4 DEF Army, (+), (-), Single

\* The attacker's own units on the tile it attacks: there are none.
LEMMA NoneOnTarget ==
  ASSUME TypeOK, ForcesStandAtHome, MovedAreThere, NEW p \in Players, NEW t \in Tiles,
         MayAct(p), owner[t] # p, NEW k \in UnitKinds
  PROVE  units[p][t][k] = 0 /\ moved[t][k] = 0
<1>1. units[p][t] \in Army /\ moved[t] \in Army /\ active = p
  BY DEF TypeOK, MayAct
<1>2. ~ (Size(units[p][t]) > 0)
  BY DEF ForcesStandAtHome
<1>3. units[p][t][k] = 0
  BY <1>1, <1>2 DEF Army, UnitKinds, Size
<1>4. moved[t][k] <= units[p][t][k]
  BY <1>1 DEF MovedAreThere
<1> QED BY <1>1, <1>3, <1>4 DEF Army

\* Casualties leave the list with the tile.
LEMMA LossesMoved ==
  ASSUME TypeOK, MovedAreThere, NEW p \in Players, active = p, NEW s \in Tiles,
         NEW lost \in Army, NEW m \in MovedLosses(p, s, lost), NEW k \in UnitKinds
  PROVE  (moved[s] (-) m)[k] <= (units[p][s] (-) lost)[k]
<1>1. units[p][s] \in Army /\ moved[s] \in Army
  BY DEF TypeOK
<1>2. m \in Army /\ m[k] <= moved[s][k] /\ lost[k] - m[k] <= units[p][s][k] - moved[s][k]
  BY SubForcesType DEF MovedLosses
<1> QED BY <1>1, <1>2 DEF Army, (-)

LEMMA RepelledMoved ==
  ASSUME TypeOK, ForcesStandAtHome, MovedAreThere, NEW p \in Players, NEW s \in Tiles,
         NEW t \in Tiles, NEW f \in SubForces(units[p][s]), MayAttack(p, s, t, f), turn' = turn,
         NEW c, AttackRepelled(p, s, t, f, c)
  PROVE  MovedAreThere'
<1> SUFFICES ASSUME NEW x \in Tiles, NEW j \in UnitKinds
             PROVE  moved'[x][j] <= units'[active'][x][j]
  BY DEF MovedAreThere
<1>1. active' = p /\ active = p /\ MayAct(p) /\ owner[s] = p /\ owner[t] # p /\ s # t
  BY DEF MayAttack, MayAct, turn
<1>2. units[p][x] \in Army /\ moved[x] \in Army /\ units[p][s] \in Army
  BY DEF TypeOK
<1>3. PICK lost \in [Players -> UNION { SubForces(units[r][t]) : r \in Players }] :
        /\ \A r \in Players : lost[r] \in SubForces(units[r][t])
        /\ units' = [r \in Players |-> [y \in Tiles |->
                       IF y = t THEN units[r][y] (-) lost[r]
                       ELSE IF r = p /\ y = s THEN units[r][y] (-) f
                       ELSE units[r][y]]]
  BY DEF AttackRepelled
<1>4. PICK m \in MovedLosses(p, s, f) : moved' = [moved EXCEPT ![s] = @ (-) m]
  BY DEF AttackRepelled
<1>5. moved[x][j] <= units[p][x][j]
  BY <1>1 DEF MovedAreThere
<1>6. CASE x = t
  <2>1. units[p][t] \in Army /\ units[p][t][j] = 0 /\ moved[t][j] = 0
    BY <1>1, <1>2, <1>6, NoneOnTarget
  <2>2. lost[p] \in Army /\ lost[p][j] <= units[p][t][j]
    BY <1>3, <2>1, SubForcesType
  <2>3. units'[p][t] = units[p][t] (-) lost[p] /\ moved'[t] = moved[t]
    BY <1>1, <1>3, <1>4 DEF TypeOK
  <2>4. (units[p][t] (-) lost[p])[j] = 0
    BY <2>1, <2>2 DEF Army, (-)
  <2> QED BY <1>1, <1>6, <2>1, <2>3, <2>4
<1>7. CASE x = s
  <2>1. f \in Army
    BY <1>2, SubForcesType
  <2>2. units'[p][s] = units[p][s] (-) f /\ moved'[s] = moved[s] (-) m
    BY <1>1, <1>3, <1>4 DEF TypeOK
  <2> QED BY <1>1, <1>7, <2>1, <2>2, LossesMoved
<1>8. CASE x # s /\ x # t
  <2>1. units'[p][x] = units[p][x] /\ moved'[x] = moved[x]
    BY <1>3, <1>4, <1>8 DEF TypeOK
  <2> QED BY <1>1, <1>5, <2>1
<1> QED BY <1>6, <1>7, <1>8

LEMMA WonMoved ==
  ASSUME TypeOK, ForcesStandAtHome, MovedAreThere, NEW p \in Players, NEW s \in Tiles,
         NEW t \in Tiles, NEW f \in SubForces(units[p][s]), MayAttack(p, s, t, f), turn' = turn,
         NEW lost \in SubForces(f), AttackWon(p, s, t, f, lost)
  PROVE  MovedAreThere'
<1> SUFFICES ASSUME NEW x \in Tiles, NEW j \in UnitKinds
             PROVE  moved'[x][j] <= units'[active'][x][j]
  BY DEF MovedAreThere
<1> DEFINE captured == lost["noble"] < f["noble"] /\ loyalty[t] <= LoyaltyDamagePerAttack
           fallen   == Fallen(t, captured)
<1>1. active' = p /\ active = p /\ MayAct(p) /\ owner[s] = p /\ owner[t] # p /\ s # t
  BY DEF MayAttack, MayAct, turn
<1>2. units[p][s] \in Army /\ lost \in Army
  <2>1. units[p][s] \in Army
    BY DEF TypeOK
  <2> QED BY <2>1, SubForcesType
<1>3. p \notin fallen
  BY <1>1 DEF Fallen
<1>4. units'[p][x] = IF x = t THEN NoForce
                     ELSE IF x = s THEN units[p][x] (-) lost
                     ELSE units[p][x]
  BY <1>3 DEF AttackWon, UnitsAfterWin
<1>5. PICK m \in MovedLosses(p, s, lost) : moved' = [moved EXCEPT ![s] = @ (-) m]
  BY DEF AttackWon
<1>6. CASE x = t
  <2>1. moved[t][j] = 0
    BY <1>1, NoneOnTarget
  <2>2. moved'[t] = moved[t]
    BY <1>1, <1>5 DEF TypeOK
  <2> QED BY <1>1, <1>4, <1>6, <2>1, <2>2 DEF NoForce
<1>7. CASE x = s
  <2>1. moved'[s] = moved[s] (-) m
    BY <1>5 DEF TypeOK
  <2> QED BY <1>1, <1>2, <1>4, <1>7, <2>1, LossesMoved
<1>8. CASE x # s /\ x # t
  <2>1. moved[x][j] <= units[p][x][j]
    BY <1>1 DEF MovedAreThere
  <2> QED BY <1>1, <1>4, <1>5, <1>8, <2>1 DEF TypeOK
<1> QED BY <1>6, <1>7, <1>8

LEMMA MovedNext ==
  TypeOK /\ ForcesStandAtHome /\ MovedAreThere /\ [Next]_vars => MovedAreThere'
<1>1. ASSUME TypeOK, ForcesStandAtHome, MovedAreThere, Next PROVE MovedAreThere'
  <2>1. PICK p \in Players :
          \/ PeacefulStep(p)
          \/ \E s, t \in Tiles : \E f \in SubForces(units[p][s]) :
               /\ MayAttack(p, s, t, f) /\ turn' = turn
               /\ \/ \E lost \in SubForces(f) : AttackWon(p, s, t, f, lost)
                  \/ \E c : AttackRepelled(p, s, t, f, c)
    BY <1>1, StepCases
  <2>2. ASSUME UNCHANGED <<units, moved, active>> PROVE MovedAreThere'
    BY <1>1, <2>2 DEF MovedAreThere
  <2>3. ASSUME NEW t \in Tiles, DemolishStructure(p, t) \/ DevelopTile(p, t)
        PROVE  MovedAreThere'
    BY <2>2, <2>3 DEF DemolishStructure, DevelopTile, board, turn
  <2>4. ASSUME NEW t \in Tiles, NEW k \in BuildableKinds, BuildStructure(p, t, k)
        PROVE  MovedAreThere'
    BY <2>2, <2>4 DEF BuildStructure, turn
  <2>5. CASE EndTurn(p)
    <3>1. TypeOK' /\ \A t \in Tiles : moved'[t] = NoForce
      BY <1>1, <2>5, NextType DEF EndTurn
    <3>2. \A t \in Tiles : units'[active'][t] \in Army
      BY <3>1 DEF TypeOK
    <3>3. \A t \in Tiles, k \in UnitKinds : units'[active'][t][k] >= 0 /\ NoForce[k] = 0
      BY <3>2 DEF Army, NoForce
    <3> QED BY <3>1, <3>3 DEF MovedAreThere
  <2>6. CASE PeacefulStep(p)
    BY <1>1, <2>3, <2>4, <2>5, <2>6, RecruitMoved, MoveMoved DEF PeacefulStep
  <2> QED BY <1>1, <2>1, <2>6, WonMoved, RepelledMoved
<1>2. ASSUME MovedAreThere, UNCHANGED vars PROVE MovedAreThere'
  BY <1>2 DEF MovedAreThere, vars, board, turn
<1> QED BY <1>1, <1>2

LEMMA InitMoved == Init => MovedAreThere
<1>1. ASSUME Init, NEW t \in Tiles, NEW k \in UnitKinds PROVE moved[t][k] <= units[active][t][k]
  <2>1. units[active][t] \in Army
    BY <1>1, InitType DEF TypeOK
  <2>2. moved[t][k] = 0
    BY <1>1 DEF Init, NoForce
  <2> QED BY <2>1, <2>2 DEF Army
<1> QED BY <1>1 DEF MovedAreThere

\* No tile has more units marked as moved than the player on turn has there:
\* the difference, which is what can still move, is never negative
\* (move.ts:51-64, attack.ts:119-121).
THEOREM MovedUnitsStand == Spec => []MovedAreThere
<1>1. Init => TypeOK /\ ForcesStandAtHome /\ MovedAreThere
  BY InitType, InitForces, InitMoved
<1>2. TypeOK /\ ForcesStandAtHome /\ MovedAreThere /\ [Next]_vars
        => (TypeOK /\ ForcesStandAtHome /\ MovedAreThere)'
  BY NextType, ForcesNext, MovedNext
<1> QED BY <1>1, <1>2, PTL DEF Spec
=============================================================================
