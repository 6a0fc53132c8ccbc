-------------------------- MODULE MCKingdomsClient --------------------------
(* A small board for the model checker: two capitals border on a forest.    *)
EXTENDS KingdomsClient, TLC

CONSTANTS p1, p2, t1, t2, t3, MaxRound

\* The bounds on rounds (the last ends with the turn of Me) and on changes
\* not yet seen.  What the other player does with its resources is of no
\* account to the page: it may spend once.
ClientBound ==
  /\ round < MaxRound \/ (round = MaxRound /\ active = Me)
  /\ behind <= MaxLag + 1
  /\ developed \subseteq Owned(Me)
  /\ \A t \in Tiles : structure[t].kind \in BuildableKinds => structure[t].owner = Me
  /\ \A p \in Players \ {Me} : UnitCount(p, "spearman") <= StartForce["spearman"]

Stock(w, f, i, g) == ("wood" :> w) @@ ("food" :> f) @@ ("iron" :> i) @@ ("gold" :> g)
Units(s, c, n)    == ("spearman" :> s) @@ ("cannoneer" :> c) @@ ("noble" :> n)

PagePlayers    == {p1, p2}
PageSeat       == (p1 :> 0) @@ (p2 :> 1)
PageTiles      == {t1, t2, t3}
PageNeighbours == (t1 :> {t3}) @@ (t2 :> {t3}) @@ (t3 :> {t1, t2})
PageTerrain    == (t1 :> "plains") @@ (t2 :> "plains") @@ (t3 :> "forest")
PageValue      == [t \in PageTiles |-> 1]
PageCapital    == (p1 :> t1) @@ (p2 :> t2)
PageForce      == Units(1, 0, 1)
PageStock      == Stock(2, 1, 1, 10)
PageLimit      == Units(2, 0, 1)
PageStructures == ("farm" :> 0) @@ ("city" :> 0) @@ ("castle" :> 0)
=============================================================================
