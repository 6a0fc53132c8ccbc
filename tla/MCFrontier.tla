----------------------------- MODULE MCFrontier -----------------------------
(* A strip of four tiles between two homes: t2 and t3 are contested, and t3  *)
(* can be reached from home p1 only by a leap.                               *)
EXTENDS FrontierClient, TLC

CONSTANTS p1, p2, t1, t2, t3, t4, MaxRound, MaxPosted

MCSeat       == (p1 :> 0) @@ (p2 :> 1)
MCNeighbours == (t1 :> {t2}) @@ (t2 :> {t1, t3}) @@ (t3 :> {t2, t4}) @@ (t4 :> {t3})
MCTerrain    == (t1 :> "mountain") @@ (t2 :> "forest") @@ (t3 :> "mountain") @@ (t4 :> "forest")
MCHome       == (p1 :> t1) @@ (p2 :> t4)

\* The bounds on rounds, on offers ever posted, and on what they name.
Bounded ==
  /\ round <= MaxRound /\ lastOfferId <= MaxPosted
  /\ \A o \in offers : o.give["wood"] + o.give["stone"] = 1 /\ o.want["wood"] + o.want["stone"] = 1
=============================================================================
