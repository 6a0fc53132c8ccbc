---------------------------- MODULE KingdomsTurns ----------------------------
(***************************************************************************)
(* The turns of Kingdoms with a history: how often each player was on turn *)
(* in the current round.  The code keeps no such count; it recomputes the  *)
(* order at each end of a turn from the seats of the players still in the  *)
(* game (turn-order.ts) and takes a wrap of the seats for a new round      *)
(* (round-manager.ts).                                                     *)
(***************************************************************************)
EXTENDS Kingdoms

VARIABLE turns     \* player -> turns it got in this round; history

turnVars == <<vars, turns>>

OnlyActive == [p \in Players |-> IF p = active THEN 1 ELSE 0]

TurnsInit == Init /\ turns = OnlyActive

TurnsNext ==
  /\ Next
  /\ turns' = IF round' # round THEN OnlyActive'
              ELSE IF active' # active THEN [turns EXCEPT ![active'] = @ + 1]
              ELSE turns

TurnsSpec == TurnsInit /\ [][TurnsNext]_turnVars

-----------------------------------------------------------------------------
(* Properties *)

\* In each round, the players in the game have their turns in the order of
\* their seats, once each, whoever was eliminated in between: those up to
\* the active player had theirs, the others are still to come
\* (turn-order.ts:27-37, round-manager.ts:63-78).
TurnsInOrder ==
  \A p \in Alive : turns[p] = IF Seat[p] <= Seat[active] THEN 1 ELSE 0

\* No round ends, and no income is paid, before every player in the game had
\* exactly one turn (end-turn.ts:32-50).
RoundIsOver == round' # round => \A p \in Alive : turns[p] = 1

RoundsAreComplete == [][RoundIsOver]_turnVars
=============================================================================
