------------------------------ MODULE Kingdoms ------------------------------
(***************************************************************************)
(* The Kingdoms of Dominion scenario as the engine plays it: one action    *)
(* per command (validator and executor), applied one after the other by    *)
(* Game.submit, which evaluates the victory condition after each.          *)
(*                                                                         *)
(* Abstractions.  Piece ids are dropped: units are bags per player and     *)
(* tile, and a tile carries at most one structure (build refuses an        *)
(* occupied tile).  Casualties are any choice the shuffle could make.  The *)
(* events, the history and the view are not state of the rules.            *)
(* No action tests the game's status: no validator of the scenario does.   *)
(***************************************************************************)
EXTENDS Combat, FiniteSets

CONSTANTS
  Players, Nobody,  \* the roster; the owner of unowned land
  Seat,             \* player -> seat number
  Tiles,            \* tile ids of the board
  Neighbours,       \* tile -> adjacent tiles
  Terrain,          \* tile -> terrain
  EconomicValue,    \* tile -> gold value
  Capital,          \* player -> starting tile
  StartForce,       \* units on a capital at setup
  StartStock,       \* resources of a player at setup
  UnitLimit,        \* unit kind -> limitPerPlayer
  StructureLimit,   \* limited structure kind -> limitPerPlayer
  LoyaltyDamagePerAttack,  \* 45 in the code
  MaxRepeats        \* bound: times an attack names units of a kind again

BuildableKinds == {"farm", "city", "castle", "gate"}
LimitedKinds   == {"farm", "city", "castle"}   \* a gate has no limit
StructureKinds == BuildableKinds \cup {"capital-base"}
Resources      == {"wood", "food", "iron", "gold"}
Terrains       == {"plains", "hills", "forest", "mountain"}

ASSUME RosterAssumption ==
  /\ IsFiniteSet(Players) /\ Cardinality(Players) >= 2
  /\ Nobody \notin Players
  /\ Seat \in [Players -> Nat]
  /\ \A p, q \in Players : Seat[p] = Seat[q] => p = q

ASSUME BoardAssumption ==
  /\ IsFiniteSet(Tiles)
  /\ Neighbours \in [Tiles -> SUBSET Tiles]
  /\ \A s, t \in Tiles : t \in Neighbours[s] <=> s \in Neighbours[t]
  /\ Terrain \in [Tiles -> Terrains]
  /\ EconomicValue \in [Tiles -> Nat]
  /\ Capital \in [Players -> Tiles]
  /\ \A p, q \in Players : Capital[p] = Capital[q] => p = q

\* A tenth noble is the last one the price list below covers.
ASSUME SetupAssumption ==
  /\ StartForce \in Army
  /\ StartStock \in [Resources -> Nat]
  /\ UnitLimit \in [UnitKinds -> Nat] /\ UnitLimit["noble"] <= 10
  /\ StructureLimit \in [LimitedKinds -> Nat]
  /\ LoyaltyDamagePerAttack \in Nat \ {0}
  /\ MaxRepeats \in Nat

-----------------------------------------------------------------------------
(* Balance tables *)

MaxLoyalty      == 100
LoyaltyRecovery == 10
ExchangeRate    == 3
DevelopCost     == 8
BaseYield       == 2

NoCost == [r \in Resources |-> 0]

UnitCost ==
  [ spearman  |-> [NoCost EXCEPT !["gold"] = 10, !["food"] = 1],
    cannoneer |-> [NoCost EXCEPT !["gold"] = 20, !["iron"] = 2] ]

\* ceil(8 * 1.7^max(0, n - 1)) gold for the next noble of a player with n.
NobleGold == [n \in 0 .. 9 |-> <<8, 8, 14, 24, 40, 67, 114, 194, 329, 559>>[n + 1]]

NobleCost(n) == [NoCost EXCEPT !["gold"] = NobleGold[n], !["iron"] = 1, !["food"] = 1]

UnitUpkeep == [spearman |-> 1, cannoneer |-> 2, noble |-> 1]

StructureCost ==
  [ farm   |-> [NoCost EXCEPT !["wood"] = 2],
    city   |-> [NoCost EXCEPT !["wood"] = 3, !["iron"] = 2],
    castle |-> [NoCost EXCEPT !["wood"] = 4, !["iron"] = 3],
    gate   |-> [NoCost EXCEPT !["wood"] = 2, !["iron"] = 1] ]

TerrainResource ==
  [plains |-> "food", forest |-> "wood", hills |-> "iron", mountain |-> "iron"]

-----------------------------------------------------------------------------
VARIABLES
  owner,       \* tile -> player or Nobody            (k:ownership)
  loyalty,     \* tile -> 1 .. MaxLoyalty             (k:tileLoyalty)
  developed,   \* developed tiles                     (k:developed)
  units,       \* player -> tile -> force             (pieces)
  moved,       \* tile -> active player's moved units (k:movedThisTurn)
  structure,   \* tile -> kind and owner              (pieces)
  mortgaged,   \* tiles of mortgaged cities           (k:mortgagedCities)
  attacked,    \* the active player attacked          (k:attackedFrom)
  stock,       \* player -> resource -> amount        (inventories)
  eliminated,  \* eliminated players                  (players)
  active,      \* whose turn it is                    (rounds)
  round,       \* round number                        (rounds)
  winner       \* winner of the ended game, or Nobody (status, game-ended)

land  == <<owner, loyalty, developed>>
board == <<units, moved, structure, mortgaged, attacked>>
turn  == <<active, round>>
vars  == <<land, board, stock, eliminated, turn, winner>>

Site   == [kind : StructureKinds \cup {"none"}, owner : Players \cup {Nobody}]
NoSite == [kind |-> "none", owner |-> Nobody]

TypeOK ==
  /\ owner \in [Tiles -> Players \cup {Nobody}]
  /\ loyalty \in [Tiles -> 1 .. MaxLoyalty]
  /\ developed \subseteq Tiles
  /\ units \in [Players -> [Tiles -> Army]]
  /\ moved \in [Tiles -> Army]
  /\ structure \in [Tiles -> Site]
  /\ mortgaged \subseteq Tiles
  /\ attacked \in BOOLEAN
  /\ stock \in [Players -> [Resources -> Int]]
  /\ eliminated \subseteq Players
  /\ active \in Players
  /\ round \in Nat \ {0}
  /\ winner \in Players \cup {Nobody}

-----------------------------------------------------------------------------
(* Queries *)

\* The sum of f over the tiles of S.  Counted as a set, not folded: the
\* finite-set theorems then give its type for every board.
Total(S, f) == Cardinality(UNION { {t} \X (1 .. f[t]) : t \in S })

Alive == Players \ eliminated

Owned(p) == { t \in Tiles : owner[t] = p }

Gates(p) == { t \in Tiles : structure[t] = [kind |-> "gate", owner |-> p] }

\* One step of the search from tile t: to an owned neighbour or, from a
\* gate, to owned land beyond a neighbour that is not owned.
Linked(p, t, u) ==
  /\ owner[u] = p
  /\ \/ u \in Neighbours[t]
     \/ /\ t \in Gates(p)
        /\ \E m \in Neighbours[t] : owner[m] # p /\ u \in Neighbours[m]

\* The tiles the search from the capital visits: the least set that holds
\* the capital and is closed under Linked.
Connected(p) ==
  { t \in Owned(p) :
      /\ owner[Capital[p]] = p
      /\ \A S \in SUBSET Owned(p) :
           /\ Capital[p] \in S
           /\ \A s \in S, u \in Owned(p) : Linked(p, s, u) => u \in S
           => t \in S }

UnitCount(p, k) == Total(Tiles, [t \in Tiles |-> units[p][t][k]])

StructureCount(p, k) == Cardinality({ t \in Tiles : structure[t] = [kind |-> k, owner |-> p] })

\* unitsOnTile without an owner filter: everybody's units count.
Garrison(t) ==
  [k \in UnitKinds |->
     Cardinality(UNION { {q} \X (1 .. units[q][t][k]) : q \in Players })]

Affords(p, cost) == \A r \in Resources : stock[p][r] >= cost[r]

Pay(p, cost) == stock' = [stock EXCEPT ![p] = [r \in Resources |-> @[r] - cost[r]]]

\* guardActivePlayer
MayAct(p) == active = p /\ p \notin eliminated

-----------------------------------------------------------------------------
(* Commands: what the validator asks, and what the executor does.          *)

UnitPrice(p, k) == IF k = "noble" THEN NobleCost(UnitCount(p, k)) ELSE UnitCost[k]

MayRecruit(p, t, k) ==
  /\ MayAct(p)
  /\ owner[t] = p /\ structure[t].kind \in {"capital-base", "city"}
  /\ UnitCount(p, k) < UnitLimit[k]
  /\ Affords(p, UnitPrice(p, k))
  /\ stock[p]["food"] > 0
  /\ t \in Connected(p)

RecruitUnit(p, t, k) ==
  /\ MayRecruit(p, t, k)
  /\ Pay(p, UnitPrice(p, k))
  /\ units' = [units EXCEPT ![p][t] = @ (+) Single(k)]
  /\ UNCHANGED <<land, moved, structure, mortgaged, attacked, eliminated, turn>>

\* Any unit of the player that has not moved, wherever it stands.
MayMove(p, k, s, t) ==
  /\ MayAct(p)
  /\ units[p][s][k] > moved[s][k]
  /\ s # t /\ owner[t] = p
  /\ t \in Connected(p)

MoveUnit(p, k, s, t) ==
  /\ MayMove(p, k, s, t)
  /\ units' = [units EXCEPT ![p][s] = @ (-) Single(k), ![p][t] = @ (+) Single(k)]
  /\ moved' = [moved EXCEPT ![t] = @ (+) Single(k)]
  /\ UNCHANGED <<land, structure, mortgaged, attacked, stock, eliminated, turn>>

MayBuild(p, t, k) ==
  /\ MayAct(p)
  /\ owner[t] = p /\ structure[t].kind = "none"
  /\ k \in LimitedKinds => StructureCount(p, k) < StructureLimit[k]
  /\ Affords(p, StructureCost[k])
  /\ t \in Connected(p)

BuildStructure(p, t, k) ==
  /\ MayBuild(p, t, k)
  /\ Pay(p, StructureCost[k])
  /\ structure' = [structure EXCEPT ![t] = [kind |-> k, owner |-> p]]
  /\ UNCHANGED <<land, units, moved, mortgaged, attacked, eliminated, turn>>

\* Needs no connection to the capital.
MayDemolish(p, t) ==
  /\ MayAct(p)
  /\ owner[t] = p
  /\ structure[t].kind \in BuildableKinds
  /\ structure[t].owner = p

\* Half of the cost comes back.
DemolishStructure(p, t) ==
  /\ MayDemolish(p, t)
  /\ structure' = [structure EXCEPT ![t] = NoSite]
  /\ mortgaged' = mortgaged \ {t}
  /\ stock' = [stock EXCEPT ![p] =
                 [r \in Resources |-> @[r] + StructureCost[structure[t].kind][r] \div 2]]
  /\ UNCHANGED <<land, units, moved, attacked, eliminated, turn>>

MayDevelop(p, t) ==
  /\ MayAct(p)
  /\ owner[t] = p /\ t \notin developed
  /\ stock[p]["gold"] >= DevelopCost
  /\ t \in Connected(p)

DevelopTile(p, t) ==
  /\ MayDevelop(p, t)
  /\ Pay(p, [NoCost EXCEPT !["gold"] = DevelopCost])
  /\ developed' = developed \cup {t}
  /\ UNCHANGED <<owner, loyalty, board, eliminated, turn>>

-----------------------------------------------------------------------------
(* attack-tile *)

\* Mutant: the target need not be adjacent.
MayAttackAnywhere(p, s, t, f) ==
  /\ MayAct(p) /\ ~ attacked
  /\ owner[t] # p
  /\ IF owner[t] = Nobody THEN Size(f) > 0 ELSE CombatSize(f) > 0
  /\ s \in Connected(p)

\* attackTileValidator, for the selection f of the units on s.
MayAttack(p, s, t, f) ==
  /\ MayAct(p)
  /\ owner[s] = p /\ owner[t] # p
  /\ t \in Neighbours[s]
  /\ ~ attacked
  /\ IF owner[t] = Nobody THEN Size(f) > 0 ELSE CombatSize(f) > 0
  /\ s \in Connected(p)

BattleOutcomes(t, f) ==
  LET g == Garrison(t)
      doubled == structure[t].kind \in {"capital-base", "castle"}
      bonus10 == TerrainDefense[Terrain[t]] * (IF doubled THEN 2 ELSE 1)
  IN  Outcomes(TotalAttack(f), Size(f), TotalAttack(g), Size(g), bonus10)

\* The casualties among the moved units when the units lost of tile s go.
MovedLosses(p, s, lost) ==
  { m \in SubForces(lost) :
      \A k \in UnitKinds : /\ m[k] <= moved[s][k]
                           /\ lost[k] - m[k] <= units[p][s][k] - moved[s][k] }

\* All attackers fall, and a random c of the units on t.
AttackRepelled(p, s, t, f, c) ==
  \E lost \in { l \in [Players -> UNION { SubForces(units[q][t]) : q \in Players }] :
                  /\ \A q \in Players : l[q] \in SubForces(units[q][t])
                  /\ Cardinality(UNION { {q} \X (1 .. Size(l[q])) : q \in Players }) = c } :
    /\ units' = [q \in Players |-> [x \in Tiles |->
                   IF x = t THEN units[q][x] (-) lost[q]
                   ELSE IF q = p /\ x = s THEN units[q][x] (-) f
                   ELSE units[q][x]]]
    /\ \E m \in MovedLosses(p, s, f) : moved' = [moved EXCEPT ![s] = @ (-) m]
    /\ UNCHANGED <<land, structure, mortgaged, stock, eliminated>>

\* Mutant: a capital is captured like any other tile.
FallenNever(t, captured) == {}

\* The player that leaves the game when t is captured: its capital fell.
Fallen(t, captured) ==
  IF captured /\ owner[t] # Nobody /\ Capital[owner[t]] = t THEN {owner[t]} ELSE {}

\* Mutant: the beaten defenders and the pieces of a fallen player stay.
UnitsAfterWinLeftBehind(p, s, t, lost, fallen) ==
  [units EXCEPT ![p][s] = @ (-) lost]

\* Every unit on t falls, the attackers in lost, and the pieces of the fallen.
UnitsAfterWin(p, s, t, lost, fallen) ==
  [q \in Players |-> [x \in Tiles |->
     IF q \in fallen \/ x = t THEN NoForce
     ELSE IF q = p /\ x = s THEN units[q][x] (-) lost
     ELSE units[q][x]]]

\* The other tiles of a fallen player become unowned.
OwnerAfterCapture(p, t, fallen) ==
  [x \in Tiles |-> IF x = t THEN p
                   ELSE IF owner[x] \in fallen THEN Nobody
                   ELSE owner[x]]

\* Mutant: the structure of a captured tile keeps its owner.
StructureAfterCaptureKept(p, t, fallen) ==
  [x \in Tiles |-> IF structure[x].owner \in fallen THEN NoSite ELSE structure[x]]

\* The structures of a fallen player are deleted with its pieces; any other
\* capture of an owned tile hands its structure to the new owner.
StructureAfterCapture(p, t, fallen) ==
  [x \in Tiles |-> IF structure[x].owner \in fallen THEN NoSite
                   ELSE IF x = t /\ fallen = {} /\ owner[t] # Nobody /\ structure[t] # NoSite
                   THEN [structure[t] EXCEPT !.owner = p]
                   ELSE structure[x]]

\* The defenders lose.  A noble that survives erodes the loyalty of t, and
\* takes the tile when none would be left.
AttackWon(p, s, t, f, lost) ==
  LET eroded   == lost["noble"] < f["noble"]
      captured == eroded /\ loyalty[t] <= LoyaltyDamagePerAttack
      fallen   == Fallen(t, captured)
  IN  /\ units' = UnitsAfterWin(p, s, t, lost, fallen)
      /\ \E m \in MovedLosses(p, s, lost) : moved' = [moved EXCEPT ![s] = @ (-) m]
      /\ loyalty' = IF captured THEN [loyalty EXCEPT ![t] = MaxLoyalty]
                    ELSE IF eroded THEN [loyalty EXCEPT ![t] = @ - LoyaltyDamagePerAttack]
                    ELSE loyalty
      /\ owner' = IF captured THEN OwnerAfterCapture(p, t, fallen) ELSE owner
      /\ structure' = IF captured THEN StructureAfterCapture(p, t, fallen) ELSE structure
      /\ eliminated' = eliminated \cup fallen
      /\ mortgaged' = { x \in mortgaged : structure[x].owner \notin fallen }
      /\ UNCHANGED <<developed, stock>>

\* The force the battle counts for the selection f: the list of ids may name a
\* unit more than once, and no validator refuses that.
Counted(f) ==
  { f (+) again :
      again \in SubForces([k \in UnitKinds |-> IF f[k] = 0 THEN 0 ELSE MaxRepeats]) }

\* The units of f that fall when c of those counted as n are picked.  Picks of
\* one unit fall together.
Losses(f, n, c) ==
  { l \in SubForces(f) :
      LET picks == [k \in UnitKinds |-> IF l[k] = 0 THEN 0 ELSE n[k] - (f[k] - l[k])]
      IN  Size(l) <= c /\ c <= Size(picks) }

AttackTile(p, s, t, f, n) ==
  /\ MayAttack(p, s, t, f)
  /\ \E o \in BattleOutcomes(t, n) :
       IF o.attackerWins
       THEN \E lost \in Losses(f, n, o.losses) : AttackWon(p, s, t, f, lost)
       ELSE AttackRepelled(p, s, t, f, o.losses)
  /\ attacked' = TRUE
  /\ UNCHANGED turn

-----------------------------------------------------------------------------
(* end-turn *)

FirstBySeat(S) == CHOOSE p \in S : \A q \in S : Seat[p] <= Seat[q]

\* Mutant: the turn order forgets to skip eliminated players.
NextPlayerOfAll ==
  LET later == { q \in Players : Seat[q] > Seat[active] }
  IN  FirstBySeat(IF later # {} THEN later ELSE Players)

\* ClockwiseTurnOrder.next over the players still in the game.
NextPlayer ==
  LET later == { q \in Alive : Seat[q] > Seat[active] }
  IN  FirstBySeat(IF active \in Alive /\ later # {} THEN later ELSE Alive)

\* A mortgaged city yields nothing more than the land.
WorkingKind(t) == IF t \in mortgaged THEN "none" ELSE structure[t].kind

TileYield(t, r) ==
  IF r = "gold"
  THEN EconomicValue[t] * (IF WorkingKind(t) = "city" THEN 2 ELSE 1)
       + (IF WorkingKind(t) = "capital-base" THEN 1 ELSE 0)
  ELSE IF r = TerrainResource[Terrain[t]]
  THEN BaseYield + (IF WorkingKind(t) = "farm" THEN 1 ELSE 0)
       + (IF t \in developed THEN BaseYield ELSE 0)
  ELSE 0

Income(p, r) == Total(Connected(p), [t \in Tiles |-> TileYield(t, r)])

FoodCost(p) ==
  Total(Tiles, [t \in Tiles |->
    units[p][t]["spearman"] * UnitUpkeep["spearman"]
    + units[p][t]["cannoneer"] * UnitUpkeep["cannoneer"]
    + units[p][t]["noble"] * UnitUpkeep["noble"]
    + (IF structure[t].owner = p /\ WorkingKind(t) = "city" THEN 2 ELSE 0)])

Lesser(a, b) == IF a <= b THEN a ELSE b

\* Mutant: the last unit of food is bought with too little gold.
FoodBoughtRoundedUp(deficit, gold) ==
  IF deficit > 0 THEN Lesser(deficit, (gold + ExchangeRate - 1) \div ExchangeRate) ELSE 0

\* exchangeForFood: as much of the deficit as the gold pays for.
FoodBought(deficit, gold) ==
  IF deficit > 0 THEN Lesser(deficit, gold \div ExchangeRate) ELSE 0

\* processPlayerCycle up to the mortgage: income, then food consumption, then
\* gold for the missing food; what is bought stays in stock.
AfterCycle(p) ==
  LET fed     == [r \in Resources |-> stock[p][r] + Income(p, r)]
      cost    == FoodCost(p)
      deficit == cost - fed["food"]
      bought  == FoodBought(deficit, fed["gold"])
  IN  [fed EXCEPT !["food"] = @ - Lesser(@, cost) + bought,
                  !["gold"] = @ - ExchangeRate * bought]

\* The safeguard: a player in debt mortgages an unmortgaged city.  The code
\* takes the oldest; ids are abstracted away, so any one may be taken.
MortgageDebtors ==
  \E M \in SUBSET { t \in Tiles : WorkingKind(t) = "city" } :
    /\ \A p \in Players :
         LET cities == { t \in Tiles : WorkingKind(t) = "city" /\ structure[t].owner = p }
             due    == p \in Alive /\ stock'[p]["gold"] < 0 /\ cities # {}
         IN  Cardinality(M \cap cities) = IF due THEN 1 ELSE 0
    /\ mortgaged' = mortgaged \cup M

\* Mutant: recovery is not capped.
RecoveredUncapped(l) == l + LoyaltyRecovery

Recovered(l) == IF l + LoyaltyRecovery >= MaxLoyalty THEN MaxLoyalty ELSE l + LoyaltyRecovery

\* processRoundEnd, and the recovery of loyalty that follows it.
RoundEnd ==
  /\ stock' = [p \in Players |-> IF p \in Alive THEN AfterCycle(p) ELSE stock[p]]
  /\ MortgageDebtors
  /\ loyalty' = [t \in Tiles |-> Recovered(loyalty[t])]

EndTurn(p) ==
  /\ MayAct(p)
  /\ moved' = [t \in Tiles |-> NoForce]
  /\ attacked' = FALSE
  /\ active' = NextPlayer
  /\ IF Seat[NextPlayer] <= Seat[active]
     THEN round' = round + 1 /\ RoundEnd
     ELSE UNCHANGED <<round, stock, mortgaged, loyalty>>
  /\ UNCHANGED <<owner, developed, units, structure, eliminated>>

-----------------------------------------------------------------------------
Init ==
  /\ owner = [t \in Tiles |-> IF \E p \in Players : Capital[p] = t
                              THEN CHOOSE p \in Players : Capital[p] = t
                              ELSE Nobody]
  /\ loyalty = [t \in Tiles |-> MaxLoyalty]
  /\ developed = {}
  /\ units = [p \in Players |-> [t \in Tiles |-> IF t = Capital[p] THEN StartForce ELSE NoForce]]
  /\ moved = [t \in Tiles |-> NoForce]
  /\ structure = [t \in Tiles |-> IF owner[t] = Nobody THEN NoSite
                                  ELSE [kind |-> "capital-base", owner |-> owner[t]]]
  /\ mortgaged = {}
  /\ attacked = FALSE
  /\ stock = [p \in Players |-> StartStock]
  /\ eliminated = {}
  /\ active = FirstBySeat(Players)
  /\ round = 1
  /\ winner = Nobody

Command ==
  \E p \in Players :
    \/ \E t \in Tiles, k \in UnitKinds : RecruitUnit(p, t, k)
    \/ \E s, t \in Tiles, k \in UnitKinds : MoveUnit(p, k, s, t)
    \/ \E t \in Tiles, k \in BuildableKinds : BuildStructure(p, t, k)
    \/ \E t \in Tiles : DemolishStructure(p, t)
    \/ \E t \in Tiles : DevelopTile(p, t)
    \/ \E s, t \in Tiles : \E f \in SubForces(units[p][s]) : \E n \in Counted(f) :
         AttackTile(p, s, t, f, n)
    \/ EndTurn(p)

\* Mutant: the victory condition sees the players of before the command.
JudgeVictoryEarly ==
  winner' = IF winner = Nobody /\ Cardinality(Alive) = 1
            THEN CHOOSE p \in Players : p \in Alive
            ELSE winner

\* Game.submit evaluates lastPlayerStanding after every command.  The first
\* verdict ends the game; a later one throws and is not recorded.
JudgeVictory ==
  winner' = IF winner = Nobody /\ Cardinality(Alive') = 1
            THEN CHOOSE p \in Players : p \in Alive'
            ELSE winner

Next == Command /\ JudgeVictory

Spec == Init /\ [][Next]_vars
-----------------------------------------------------------------------------
(* Properties *)

\* Units stand only on land of their own player: whatever the commands and
\* battles did, nobody is left behind on a tile that was captured, given up
\* by an elimination, or never owned (move.ts, attack.ts).
ForcesStandAtHome ==
  \A p \in Players, t \in Tiles : Size(units[p][t]) > 0 => owner[t] = p

\* A structure belongs to the owner of its land: capture hands it over and
\* elimination deletes it, so income.ts may read structures by tile while
\* food costs and limits are read by owner.
StructuresFollowLand ==
  \A t \in Tiles :
    IF structure[t].kind = "none"
    THEN structure[t] = NoSite
    ELSE owner[t] # Nobody /\ structure[t].owner = owner[t]

\* A player is in the game exactly as long as it holds its capital, and the
\* only capital bases are those: none is demolished, transferred or left on
\* the capital of a player that fell (attack.ts:153-178).
CapitalsHeld ==
  /\ \A p \in Alive : owner[Capital[p]] = p
  /\ { t \in Tiles : structure[t].kind = "capital-base" } = { Capital[p] : p \in Alive }

\* Nothing of an eliminated player is left on the board, and it is never on
\* turn again.
EliminatedAreGone ==
  /\ active \notin eliminated
  /\ \A t \in Tiles : owner[t] \notin eliminated /\ structure[t].owner \notin eliminated
  /\ \A p \in eliminated, t \in Tiles : Size(units[p][t]) = 0

\* "Max instances per player" (structures.ts:48, piece-registry.ts:11).
StructureLimits ==
  \A p \in Players, k \in LimitedKinds : StructureCount(p, k) <= StructureLimit[k]

\* No inventory goes negative, so Inventory.remove never throws half-way
\* through a round end, and the mortgage safeguard (economy-loop.ts:147-152)
\* never fires.
NoDebt ==
  /\ \A p \in Players, r \in Resources : stock[p][r] >= 0
  /\ mortgaged = {}

\* The recorded winner is the only player in the game, also after commands
\* that reach the game when it is over.
WinnerStandsAlone ==
  \A p \in Players : (winner = p) <=> (Alive = {p})

\* Land changes hands only to the active player, one tile in a command, from
\* a neighbouring tile it held; and it becomes unowned only when its owner
\* is eliminated by that command.
Conquest ==
  LET changed == { t \in Tiles : owner'[t] # owner[t] }
      taken   == { t \in changed : owner'[t] # Nobody }
  IN  /\ Cardinality(taken) <= 1
      /\ \A t \in taken : owner'[t] = active /\ \E s \in Neighbours[t] : owner[s] = active
      /\ \A t \in changed \ taken : owner[t] \in eliminated' \ eliminated

\* Land changes hands by conquest only (attack.ts:110-187).
LandChangesHands == [][Conquest]_vars
=============================================================================
