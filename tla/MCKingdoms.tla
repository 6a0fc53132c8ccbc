----------------------------- MODULE MCKingdoms -----------------------------
(* Small boards for the model checker. *)
EXTENDS Kingdoms, TLC

CONSTANTS p1, p2, p3, t1, t2, t3, t4, MaxRound

\* The bound on rounds.
RoundBound == round <= MaxRound

Stock(w, f, i, g) == ("wood" :> w) @@ ("food" :> f) @@ ("iron" :> i) @@ ("gold" :> g)
Units(s, c, n)    == ("spearman" :> s) @@ ("cannoneer" :> c) @@ ("noble" :> n)

-----------------------------------------------------------------------------
\* War: three capitals, everything adjacent.
WarPlayers    == {p1, p2, p3}
WarSeat       == (p1 :> 0) @@ (p2 :> 1) @@ (p3 :> 2)
WarTiles      == {t1, t2, t3}
WarNeighbours == [t \in WarTiles |-> WarTiles \ {t}]
WarTerrain    == [t \in WarTiles |-> "plains"]
WarValue      == [t \in WarTiles |-> 1]
WarCapital    == (p1 :> t1) @@ (p2 :> t2) @@ (p3 :> t3)
WarForce      == Units(0, 1, 1)
WarStock      == Stock(0, 0, 0, 0)
WarLimit      == Units(1, 1, 1)
NoStructures  == ("farm" :> 0) @@ ("city" :> 0) @@ ("castle" :> 0)
-----------------------------------------------------------------------------
\* Realm: two unowned tiles between the capitals; t2 borders on both.
RealmPlayers    == {p1, p2}
RealmSeat       == (p1 :> 0) @@ (p2 :> 1)
RealmTiles      == {t1, t2, t3, t4}
RealmNeighbours == (t1 :> {t3}) @@ (t2 :> {t3, t4}) @@ (t3 :> {t1, t2, t4}) @@ (t4 :> {t2, t3})
RealmTerrain    == [t \in RealmTiles |-> "plains"]
RealmValue      == [t \in RealmTiles |-> 1]
RealmCapital    == (p1 :> t1) @@ (p2 :> t2)
RealmForce      == Units(1, 0, 1)
RealmStock      == Stock(3, 0, 2, 0)
RealmLimit      == Units(1, 0, 1)
OneCity         == ("farm" :> 0) @@ ("city" :> 1) @@ ("castle" :> 0)

-----------------------------------------------------------------------------
\* Economy: two kingdoms on a strip, with enough to build, recruit and develop.
EconomyTiles      == {t1, t2, t3}
EconomyNeighbours == (t3 :> {t1, t2}) @@ [t \in {t1, t2} |-> {t3}]
EconomyTerrain    == (t1 :> "forest") @@ (t2 :> "forest") @@ (t3 :> "plains")
EconomyValue      == (t1 :> 1) @@ (t2 :> 1) @@ (t3 :> 2)
EconomyForce      == Units(0, 0, 1)
EconomyStock      == Stock(1, 1, 2, 6)
EconomyLimit      == Units(1, 1, 2)
EconomyStructures == ("farm" :> 1) @@ ("city" :> 1) @@ ("castle" :> 0)
=============================================================================
