------------------------- MODULE KingdomsLoopProofs -------------------------
(***************************************************************************)
(* Proofs about the two loops beside the state machine of Kingdoms: the    *)
(* search for connected land (KingdomsSearch) and the turns that go round  *)
(* the table (KingdomsTurns).                                              *)
(***************************************************************************)
EXTENDS KingdomsSearch, KingdomsTurns, KingdomsProofs

-----------------------------------------------------------------------------
(* The search *)

\* The tiles queued from an owned tile are those it is linked to.
LEMMA FoundIsLinked ==
  ASSUME TypeOK, who \in Players, NEW t \in Tiles
  PROVE  Found(t) = { u \in Owned(who) : Linked(who, t, u) }
BY BoardAssumption DEF Found, Linked, Owned, TypeOK

\* Connected land is owned, and closed under steps of the search.
LEMMA ConnectedIsClosed ==
  ASSUME NEW s \in Connected(who), NEW u \in Owned(who), Linked(who, s, u)
  PROVE  u \in Connected(who)
BY DEF Connected

LEMMA SearchStarts ==
  ASSUME SearchInit
  PROVE  SearchInv
<1>1. owner[Capital[who]] = who => Capital[who] \in Connected(who)
  BY BoardAssumption, RosterAssumption DEF SearchInit, Connected, Owned, TypeOK
<1>2. owner[Capital[who]] = who => Capital[who] \in Owned(who)
  BY BoardAssumption, RosterAssumption DEF SearchInit, Owned, TypeOK
<1>3. queue \subseteq Connected(who)
  BY <1>1 DEF SearchInit, Owned
<1> QED BY <1>1, <1>2, <1>3 DEF SearchInit, SearchInv

\* Each tile taken from the queue leaves the search sound and complete.
LEMMA VisitKeeps ==
  ASSUME SearchInv, NEW t \in queue, Visit(t)
  PROVE  SearchInv'
<1> USE DEF SearchInv
<1>1. t \in Connected(who) /\ t \in Tiles /\ t \in Owned(who)
  BY DEF Connected, Owned
<1>2. Found(t) = { u \in Owned(who) : Linked(who, t, u) }
  BY <1>1, FoundIsLinked
<1>3. UNCHANGED <<vars, who>>
  BY DEF Visit
<1>4. Connected(who)' = Connected(who) /\ Owned(who)' = Owned(who) /\ TypeOK'
  BY <1>3 DEF Connected, Owned, Linked, Gates, TypeOK, vars, land, board, turn
<1>5. visited' \cup queue' = visited \cup queue \cup {t} \cup Found(t)
  BY DEF Visit
<1>6. Found(t) \subseteq Connected(who)
  BY <1>1, <1>2, ConnectedIsClosed
<1>7. \A s \in visited', u \in Owned(who) : Linked(who, s, u) => u \in visited' \cup queue'
  BY <1>2, <1>5 DEF Visit
<1>8. \A s, u : Linked(who, s, u)' <=> Linked(who, s, u)
  BY <1>3 DEF Linked, Gates, vars, land, board
<1> QED
  BY <1>1, <1>3, <1>4, <1>5, <1>6, <1>7, <1>8 DEF vars, land

LEMMA SearchEnds ==
  ASSUME SearchInv
  PROVE  SearchIsRight
<1> SUFFICES ASSUME queue = {}, NEW t \in Connected(who)
             PROVE  t \in visited
  BY DEF SearchInv, SearchIsRight
<1>1. visited \in SUBSET Owned(who)
  BY DEF SearchInv, Connected
<1> QED BY <1>1 DEF SearchInv, Connected

\* The loop of getConnectedTiles computes Connected, on every board and for
\* every distribution of land and gates.
THEOREM SearchCorrect == SearchSpec => []SearchIsRight
<1>1. SearchInv /\ [SearchNext]_searchVars => SearchInv'
  <2> SUFFICES ASSUME SearchInv, [SearchNext]_searchVars PROVE SearchInv'
    OBVIOUS
  <2>1. CASE SearchNext
    BY <2>1, VisitKeeps DEF SearchNext
  <2>2. CASE UNCHANGED searchVars
    BY <2>2 DEF SearchInv, TypeOK, Connected, Owned, Linked, Gates,
                searchVars, search, vars, land, board, turn
  <2> QED BY <2>1, <2>2
<1> QED BY <1>1, SearchStarts, SearchEnds, PTL DEF SearchSpec

-----------------------------------------------------------------------------
(* The turns *)

\* Inductive: the order holds among the players of a consistent game.
TurnsInv == Consistent /\ TurnsInOrder /\ DOMAIN turns = Players

\* The first of some seats is at most any of them.
LEMMA FirstIsLeast ==
  ASSUME NEW S \in SUBSET Players, S # {}, NEW q \in S
  PROVE  FirstBySeat(S) \in S /\ Seat[FirstBySeat(S)] <= Seat[q]
<1> DEFINE N == { Seat[p] : p \in S }
<1>1. N \in SUBSET Nat /\ N # {}
  BY RosterAssumption
<1>2. PICK n \in N : \A m \in N : ~ (<<m, n>> \in OpToRel(<, Nat))
  BY <1>1, NatLessThanWellFounded, WFMin
<1>3. \A m \in N : n <= m
  <2> TAKE m \in N
  <2>1. m \in Nat /\ n \in Nat
    BY <1>1
  <2>2. ~ (m < n)
    BY <1>2, <2>1 DEF OpToRel
  <2> QED BY <2>1, <2>2
<1>4. PICK p \in S : \A x \in S : Seat[p] <= Seat[x]
  BY <1>3
<1> QED BY <1>4 DEF FirstBySeat

\* Only end-turn changes the round or the active player.
LEMMA OtherCommands ==
  ASSUME TypeOK, Next
  PROVE  \/ UNCHANGED <<round, active>>
         \/ \E p \in Players : EndTurn(p)
<1>1. ASSUME NEW p \in Players, PeacefulStep(p)
      PROVE  UNCHANGED <<round, active>> \/ EndTurn(p)
  <2>1. CASE \E t \in Tiles, k \in UnitKinds : RecruitUnit(p, t, k)
    BY <2>1 DEF RecruitUnit, turn
  <2>2. CASE \E s, t \in Tiles, k \in UnitKinds : MoveUnit(p, k, s, t)
    BY <2>2 DEF MoveUnit, turn
  <2>3. CASE \E t \in Tiles, k \in BuildableKinds : BuildStructure(p, t, k)
    BY <2>3 DEF BuildStructure, turn
  <2>4. CASE \E t \in Tiles : DemolishStructure(p, t)
    BY <2>4 DEF DemolishStructure, turn
  <2>5. CASE \E t \in Tiles : DevelopTile(p, t)
    BY <2>5 DEF DevelopTile, turn
  <2> QED BY <1>1, <2>1, <2>2, <2>3, <2>4, <2>5 DEF PeacefulStep
<1>2. turn' = turn => UNCHANGED <<round, active>>
  BY DEF turn
<1>3. PICK p \in Players : PeacefulStep(p) \/ turn' = turn
  BY StepCases
<1> QED BY <1>1, <1>2, <1>3

\* The next player follows in the order of the seats, or leads a new round.
LEMMA NextSeat ==
  ASSUME TypeOK, active \in Alive
  PROVE  /\ NextPlayer \in Alive
         /\ Seat[NextPlayer] > Seat[active] =>
              \A p \in Alive : Seat[p] <= Seat[NextPlayer] <=> Seat[p] <= Seat[active] \/ p = NextPlayer
         /\ Seat[NextPlayer] <= Seat[active] =>
              \A p \in Alive : Seat[p] <= Seat[active] /\ Seat[NextPlayer] <= Seat[p]
<1> DEFINE later == { q \in Alive : Seat[q] > Seat[active] }
<1>1. Alive \in SUBSET Players /\ later \in SUBSET Players /\ later \subseteq Alive
  BY DEF Alive
<1>2. \A p \in Players : Seat[p] \in Nat
  BY RosterAssumption
<1>3. \A p, q \in Players : Seat[p] = Seat[q] => p = q
  BY RosterAssumption
<1>4. CASE later # {}
  <2>1. NextPlayer = FirstBySeat(later)
    BY <1>4 DEF NextPlayer
  <2>2. NextPlayer \in later /\ \A q \in later : Seat[NextPlayer] <= Seat[q]
    BY <1>1, <1>4, <2>1, FirstIsLeast
  <2> QED BY <1>1, <1>2, <1>3, <2>2
<1>5. CASE later = {}
  <2>1. NextPlayer = FirstBySeat(Alive)
    BY <1>5 DEF NextPlayer
  <2>2. NextPlayer \in Alive /\ \A q \in Alive : Seat[NextPlayer] <= Seat[q]
    BY <1>1, <2>1, FirstIsLeast
  <2>3. \A p \in Alive : ~ (Seat[p] > Seat[active])
    BY <1>5
  <2> QED BY <1>1, <1>2, <2>2, <2>3
<1> QED BY <1>4, <1>5

\* What the end of a turn does to round, turns and the active player.
LEMMA EndTurnStep ==
  ASSUME TypeOK, NEW p \in Players, EndTurn(p)
  PROVE  /\ active \in Alive /\ eliminated' = eliminated /\ active' = NextPlayer
         /\ IF Seat[NextPlayer] <= Seat[active] THEN round' = round + 1 ELSE round' = round
BY DEF EndTurn, MayAct, Alive

LEMMA TurnsNextKeeps ==
  ASSUME TurnsInv, TurnsNext
  PROVE  TurnsInv' /\ RoundIsOver
<1> USE DEF TurnsInv, Consistent
<1>1. Consistent'
  BY ConsistentNext DEF TurnsNext
<1>2. TypeOK /\ Next /\ round \in Nat /\ active \in Players /\ active' \in Players
  BY <1>1 DEF TurnsNext, TypeOK
<1>3. DOMAIN turns' = Players
  BY DEF TurnsNext, OnlyActive
<1>4. CASE UNCHANGED <<round, active>>
  <2>1. turns' = turns /\ Alive' \subseteq Alive
    BY <1>2, <1>4, AliveShrinks DEF TurnsNext
  <2> QED BY <1>1, <1>3, <1>4, <2>1 DEF TurnsInOrder, RoundIsOver
<1>5. ASSUME NEW p \in Players, EndTurn(p)
      PROVE  TurnsInOrder' /\ RoundIsOver
  <2>1. active \in Alive /\ Alive' = Alive /\ active' = NextPlayer
    BY <1>2, <1>5, EndTurnStep DEF Alive
  <2>2. Alive \in SUBSET Players /\ \A q \in Players : Seat[q] \in Nat
    BY RosterAssumption DEF Alive
  <2>3. \A x, y \in Players : Seat[x] = Seat[y] => x = y
    BY RosterAssumption
  <2>4. CASE Seat[NextPlayer] <= Seat[active]
    <3>1. round' # round
      BY <1>2, <1>5, <2>4, EndTurnStep
    <3>2. turns' = OnlyActive'
      BY <3>1 DEF TurnsNext
    <3>3. \A q \in Alive : Seat[q] <= Seat[active] /\ Seat[NextPlayer] <= Seat[q]
      BY <1>2, <2>1, <2>4, NextSeat
    <3>4. \A q \in Alive : Seat[q] <= Seat[NextPlayer] <=> q = NextPlayer
      BY <1>2, <2>1, <2>2, <2>3, <3>3
    <3>5. \A q \in Alive : turns'[q] = IF q = NextPlayer THEN 1 ELSE 0
      BY <2>1, <2>2, <3>2 DEF OnlyActive
    <3> QED BY <2>1, <3>3, <3>4, <3>5 DEF TurnsInOrder, RoundIsOver
  <2>5. CASE ~ (Seat[NextPlayer] <= Seat[active])
    <3>1. round' = round
      BY <1>5, <2>5, <1>2, EndTurnStep
    <3>2. NextPlayer \in Alive /\ Seat[NextPlayer] > Seat[active]
      BY <1>2, <2>1, <2>2, <2>5, NextSeat
    <3>3. turns' = [turns EXCEPT ![NextPlayer] = @ + 1]
      BY <1>2, <2>1, <2>2, <3>1, <3>2 DEF TurnsNext
    <3>4. \A q \in Alive : Seat[q] <= Seat[NextPlayer] <=> Seat[q] <= Seat[active] \/ q = NextPlayer
      BY <1>2, <2>1, <3>2, NextSeat
    <3>5. turns[NextPlayer] = 0
      BY <1>2, <2>2, <3>2 DEF TurnsInOrder
    <3>6. \A q \in Alive : turns'[q] = IF q = NextPlayer THEN 1 ELSE turns[q]
      BY <2>2, <3>2, <3>3, <3>5
    <3> QED BY <2>1, <3>1, <3>4, <3>6 DEF TurnsInOrder, RoundIsOver
  <2> QED BY <2>4, <2>5
<1> QED BY <1>1, <1>2, <1>3, <1>4, <1>5, OtherCommands

LEMMA TurnsStart ==
  ASSUME TurnsInit
  PROVE  TurnsInv
<1>1. Consistent
  BY ConsistentInit DEF TurnsInit
<1>2. Players # {} /\ active = FirstBySeat(Players) /\ Alive = Players
  BY RosterAssumption, FS_EmptySet DEF TurnsInit, Init, Alive
<1>3. \A q \in Players : Seat[active] <= Seat[q] /\ active \in Players
  BY <1>2, FirstIsLeast
<1>4. \A q \in Players : Seat[q] <= Seat[active] <=> q = active
  BY <1>3, RosterAssumption
<1> QED BY <1>1, <1>2, <1>4 DEF TurnsInit, TurnsInv, TurnsInOrder, OnlyActive

LEMMA TurnsStep == TurnsInv /\ [TurnsNext]_turnVars => TurnsInv' /\ RoundIsOver
<1>1. ASSUME TurnsInv, UNCHANGED turnVars PROVE TurnsInv' /\ RoundIsOver
  <2>1. Consistent'
    BY <1>1, ConsistentNext DEF TurnsInv, turnVars
  <2> QED BY <1>1, <2>1 DEF TurnsInv, TurnsInOrder, RoundIsOver, Alive, turnVars, vars, turn
<1> QED BY <1>1, TurnsNextKeeps

\* Turns go round by seats, once each per round, for any number of players
\* and through any eliminations.
THEOREM TurnsGoRound == TurnsSpec => []TurnsInOrder
<1>1. TurnsInv => TurnsInOrder
  BY DEF TurnsInv
<1> QED BY <1>1, TurnsStart, TurnsStep, PTL DEF TurnsSpec

\* Every player in the game has had exactly one turn when a round ends.
THEOREM RoundsComplete == TurnsSpec => RoundsAreComplete
<1>1. TurnsInv /\ [TurnsNext]_turnVars => [RoundIsOver]_turnVars
  BY TurnsStep
<1> QED BY <1>1, TurnsStart, TurnsStep, PTL DEF TurnsSpec, RoundsAreComplete
=============================================================================
