--------------------------- MODULE KingdomsSearch ---------------------------
(***************************************************************************)
(* The breadth-first search that tells which land of a player is connected *)
(* to its capital (utils/connectivity.ts), step by step.  Kingdoms uses    *)
(* what it computes, Connected; that it does is proved of this loop.       *)
(*                                                                         *)
(* A search runs within one command: the board stands still.  The queue is *)
(* a set: a tile that is queued twice is skipped the second time, and the  *)
(* order does not matter to the result.                                    *)
(***************************************************************************)
EXTENDS Kingdoms

VARIABLES
  who,        \* whose land is searched
  queue,
  visited

search     == <<queue, visited>>
searchVars == <<vars, who, search>>

\* What is queued from tile t: owned neighbours and, from a gate, owned land
\* beyond the neighbours that are not owned.
Found(t) ==
  (Owned(who) \cap Neighbours[t])
  \cup IF t \in Gates(who)
       THEN { u \in Owned(who) : \E m \in Neighbours[t] \ Owned(who) : u \in Neighbours[m] }
       ELSE {}

\* The search may start in any state of the game.
SearchInit ==
  /\ TypeOK
  /\ who \in Players
  /\ visited = {}
  /\ queue = Owned(who) \cap {Capital[who]}

Visit(t) ==
  /\ t \in queue
  /\ visited' = visited \cup {t}
  /\ queue' = (queue \cup Found(t)) \ visited'
  /\ UNCHANGED <<vars, who>>

SearchNext == \E t \in queue : Visit(t)

SearchSpec == SearchInit /\ [][SearchNext]_searchVars

-----------------------------------------------------------------------------
(* Properties *)

\* When the search is over, it has visited exactly the least set of owned
\* tiles that holds the capital and is closed under single steps
\* (utils/connectivity.ts:31-71, connectivity.ts:67-79).
SearchIsRight == queue = {} => visited = Connected(who)

\* Inductive: nothing is visited too many, and nothing beside the queue is
\* left out.
SearchInv ==
  /\ TypeOK /\ who \in Players
  /\ visited \cup queue \subseteq Connected(who)
  /\ owner[Capital[who]] = who => Capital[who] \in visited \cup queue
  /\ \A s \in visited, u \in Owned(who) : Linked(who, s, u) => u \in visited \cup queue
=============================================================================
