------------------------------ MODULE Frontier ------------------------------
(***************************************************************************)
(* The rules of the Frontier scenario (demo-v1): claim tiles, convert and  *)
(* trade resources, build forts.  One action per command, validator and    *)
(* executor; validators are operators of their own (May...), because the   *)
(* client offers commands by rules of its own (FrontierClient).            *)
(*                                                                         *)
(* Flags are never removed, so the pieces of the scenario are a map from   *)
(* tiles to owners.  Dice are any roll.  Nobody is ever eliminated.        *)
(***************************************************************************)
EXTENDS Integers, FiniteSets

CONSTANTS
  Players, Nobody,
  Seat,         \* player -> seat; inventories are in seat order, too
  Tiles, Neighbours, Terrain,
  Home,         \* player -> its starting tile
  WinVP,        \* 18 in the code
  MaxOffers,    \* open offers of a player, 3 in the code
  Amounts       \* quantities an offer may name (a bound for TLC)

Wares    == {"wood", "stone"}
Goods    == Wares \cup {"vp"}
Terrains == {"grass", "forest", "mountain"}

TerrainVP       == [grass |-> 1, forest |-> 2, mountain |-> 3]
TerrainResource == [grass |-> "none", forest |-> "wood", mountain |-> "stone"]

ASSUME RosterAssumption ==
  /\ IsFiniteSet(Players) /\ Cardinality(Players) >= 2
  /\ Nobody \notin Players
  /\ Seat \in [Players -> Nat]
  /\ \A p, q \in Players : Seat[p] = Seat[q] => p = q

\* Nobody has won when the game starts (37 tiles, at most 3 points for a home).
ASSUME BoardAssumption ==
  /\ IsFiniteSet(Tiles) /\ Neighbours \in [Tiles -> SUBSET Tiles]
  /\ Terrain \in [Tiles -> Terrains]
  /\ Home \in [Players -> Tiles]
  /\ \A p, q \in Players : Home[p] = Home[q] => p = q
  /\ \E t \in Tiles : \A p \in Players : Home[p] # t
  /\ WinVP \in Nat /\ WinVP > 3 /\ MaxOffers \in Nat
  /\ Amounts \subseteq Nat

Bundle == [Wares -> Nat]
Offer  == [id : Nat, from : Players, give : Bundle, want : Bundle]

VARIABLES
  owner,        \* tile -> player whose flag stands there, or Nobody (pieces)
  fort,         \* tile -> who fortified it, or Nobody  (extras.fortifications)
  offers,       \* open offers                          (extras.tradeOffers)
  lastOfferId,  \*                                      (extras.nextOfferId)
  stock,        \* player -> good -> amount             (inventories)
  claimed, leap,  \* turn flags claimedThisTurn and stoneLeap
  active, round,
  ended, winner   \* status and the verdict; a draw has no winner

land   == <<owner, fort>>
market == <<offers, lastOfferId>>
turn   == <<claimed, leap, active, round>>
rules  == <<land, market, stock, turn, ended, winner>>

TypeOK ==
  /\ owner \in [Tiles -> Players \cup {Nobody}]
  /\ fort \in [Tiles -> Players \cup {Nobody}]
  /\ offers \subseteq Offer
  /\ lastOfferId \in Nat
  /\ stock \in [Players -> [Goods -> Nat]]
  /\ claimed \in BOOLEAN /\ leap \in BOOLEAN
  /\ active \in Players
  /\ round \in Nat \ {0}
  /\ ended \in BOOLEAN
  /\ winner \in Players \cup {Nobody}

-----------------------------------------------------------------------------
(* Helpers *)

NoGoods == [g \in Goods |-> 0]

\* A bundle of wares, as goods of an inventory.
AsGoods(b) == [g \in Goods |-> IF g \in Wares THEN b[g] ELSE 0]

Holds(p, gs) == \A g \in Goods : stock[p][g] >= gs[g]

\* Inventory.add and Inventory.remove for one player.
Exchange(p, minus, plus) ==
  stock' = [stock EXCEPT ![p] = [g \in Goods |-> @[g] - minus[g] + plus[g]]]

OffersOf(p) == { o \in offers : o.from = p }

BoardFull == \A t \in Tiles : owner[t] # Nobody

-----------------------------------------------------------------------------
(* Commands *)

MayClaim(p, t) ==
  /\ active = p /\ ~ claimed
  /\ owner[t] = Nobody
  /\ leap \/ \E s \in Neighbours[t] : owner[s] = p

BonusVP(roll) == IF roll >= 10 THEN 2 ELSE IF roll >= 7 THEN 1 ELSE 0

ClaimTile(p, t, roll) ==
  /\ MayClaim(p, t)
  /\ owner' = [owner EXCEPT ![t] = p]
  /\ Exchange(p, NoGoods,
       [g \in Goods |-> IF g = "vp" THEN TerrainVP[Terrain[t]] + BonusVP(roll)
                        ELSE IF g = TerrainResource[Terrain[t]] THEN 1 ELSE 0])
  /\ claimed' = TRUE /\ leap' = FALSE
  /\ UNCHANGED <<fort, market, active, round>>

FirstBySeat(S) == CHOOSE p \in S : \A q \in S : Seat[p] <= Seat[q]

\* ClockwiseTurnOrder.next; everybody stays active.
NextPlayer ==
  LET later == { q \in Players : Seat[q] > Seat[active] }
  IN  FirstBySeat(IF later # {} THEN later ELSE Players)

\* RoundManager.endTurn: the round ends when the seats wrap around.
NewRound == Seat[NextPlayer] <= Seat[active]

\* A point per fort, and a unit per forest and mountain.
RoundIncome(p, g) ==
  IF g = "vp" THEN Cardinality({ t \in Tiles : fort[t] = p })
  ELSE Cardinality({ t \in Tiles : owner[t] = p /\ TerrainResource[Terrain[t]] = g })

MayEndTurn(p) == active = p

EndTurn(p) ==
  /\ MayEndTurn(p)
  /\ active' = NextPlayer
  /\ claimed' = FALSE /\ leap' = FALSE
  /\ round' = IF NewRound THEN round + 1 ELSE round
  /\ stock' = IF NewRound
              THEN [q \in Players |-> [g \in Goods |-> stock[q][g] + RoundIncome(q, g)]]
              ELSE stock
  /\ UNCHANGED <<land, market>>

\* Two wood for a point, or two stone for the next claim to ignore adjacency.
MayTrade(p, w) == active = p /\ stock[p][w] >= 2 /\ (w = "stone" => ~ leap)

Trade(p, w) ==
  /\ MayTrade(p, w)
  /\ Exchange(p, [NoGoods EXCEPT ![w] = 2], [NoGoods EXCEPT !["vp"] = IF w = "wood" THEN 1 ELSE 0])
  /\ leap' = (leap \/ w = "stone")
  /\ UNCHANGED <<land, market, claimed, active, round>>

FortPrice == [NoGoods EXCEPT !["wood"] = 2, !["stone"] = 1]

\* Mutant: the tile may be anybody's.
MayFortifyAnywhere(p, t) ==
  active = p /\ Holds(p, FortPrice) /\ owner[t] # Nobody /\ fort[t] = Nobody

MayFortify(p, t) == active = p /\ Holds(p, FortPrice) /\ owner[t] = p /\ fort[t] = Nobody

Fortify(p, t) ==
  /\ MayFortify(p, t)
  /\ Exchange(p, FortPrice, NoGoods)
  /\ fort' = [fort EXCEPT ![t] = p]
  /\ UNCHANGED <<owner, market, turn>>

SomeOf(b) == \E w \in Wares : b[w] > 0

\* Mutants: the stock is not compared with the offer; the limit is off by one.
MayPostUncovered(p, give, want) ==
  active = p /\ SomeOf(give) /\ SomeOf(want) /\ Cardinality(OffersOf(p)) < MaxOffers
MayPostFour(p, give, want) ==
  /\ active = p /\ SomeOf(give) /\ SomeOf(want)
  /\ Holds(p, AsGoods(give)) /\ Cardinality(OffersOf(p)) <= MaxOffers

MayPost(p, give, want) ==
  /\ active = p /\ SomeOf(give) /\ SomeOf(want)
  /\ Holds(p, AsGoods(give))
  /\ Cardinality(OffersOf(p)) < MaxOffers

NewOffer(p, give, want) == [id |-> lastOfferId + 1, from |-> p, give |-> give, want |-> want]

\* What is offered leaves the stock at once.
PostOffer(p, give, want) ==
  /\ MayPost(p, give, want)
  /\ Exchange(p, AsGoods(give), NoGoods)
  /\ offers' = offers \cup {NewOffer(p, give, want)}
  /\ lastOfferId' = lastOfferId + 1
  /\ UNCHANGED <<land, turn>>

\* find and filter go by the id.
Without(o) == { x \in offers : x.id # o.id }

MayAccept(p, o) == active = p /\ o.from # p /\ Holds(p, AsGoods(o.want))

\* Mutant: the offerer is not paid.
SettledOneSided(p, o) ==
  [stock EXCEPT ![p] = [g \in Goods |-> @[g] - AsGoods(o.want)[g] + AsGoods(o.give)[g]]]

\* The accepter pays what is wanted and gets what was reserved.
Settled(p, o) ==
  [stock EXCEPT ![p] = [g \in Goods |-> @[g] - AsGoods(o.want)[g] + AsGoods(o.give)[g]],
                ![o.from] = [g \in Goods |-> @[g] + AsGoods(o.want)[g]]]

AcceptOffer(p, o) ==
  /\ o \in offers /\ MayAccept(p, o)
  /\ stock' = Settled(p, o)
  /\ offers' = Without(o)
  /\ UNCHANGED <<land, lastOfferId, turn>>

MayCancel(p, o) == active = p /\ o.from = p

CancelOffer(p, o) ==
  /\ o \in offers /\ MayCancel(p, o)
  /\ Exchange(p, NoGoods, AsGoods(o.give))
  /\ offers' = Without(o)
  /\ UNCHANGED <<land, lastOfferId, turn>>

-----------------------------------------------------------------------------
(* Victory *)

Racers == { p \in Players : stock'[p]["vp"] >= WinVP }

Leaders == { p \in Players : \A q \in Players : stock'[p]["vp"] >= stock'[q]["vp"] }

\* Mutant: a full board is noticed only when somebody reached the goal.
JudgeVictoryLate ==
  /\ ended' = (ended \/ Racers # {})
  /\ winner' = IF ~ ended /\ Racers # {} THEN FirstBySeat(Racers) ELSE winner

\* Game.submit after every command: the race first, then the full board,
\* which is a draw if the lead is shared.  On a game that has ended submit
\* throws here, with the command executed and its events never published.
JudgeVictory ==
  /\ ended' = (ended \/ Racers # {} \/ BoardFull')
  /\ winner' = IF ended THEN winner
               ELSE IF Racers # {} THEN FirstBySeat(Racers)
               ELSE IF BoardFull' /\ Cardinality(Leaders) = 1 THEN CHOOSE p \in Leaders : TRUE
               ELSE Nobody

-----------------------------------------------------------------------------
Init ==
  /\ owner = [t \in Tiles |-> IF \E p \in Players : Home[p] = t
                              THEN CHOOSE p \in Players : Home[p] = t ELSE Nobody]
  /\ fort = [t \in Tiles |-> Nobody]
  /\ offers = {} /\ lastOfferId = 0
  /\ stock = [p \in Players |-> [NoGoods EXCEPT !["vp"] = TerrainVP[Terrain[Home[p]]]]]
  /\ claimed = FALSE /\ leap = FALSE
  /\ active = FirstBySeat(Players)
  /\ round = 1
  /\ ended = FALSE /\ winner = Nobody

Bundles == [Wares -> Amounts]

Command(p) ==
  \/ \E t \in Tiles : (\E roll \in 2 .. 12 : ClaimTile(p, t, roll)) \/ Fortify(p, t)
  \/ EndTurn(p)
  \/ \E w \in Wares : Trade(p, w)
  \/ \E give, want \in Bundles : PostOffer(p, give, want)
  \/ \E o \in offers : AcceptOffer(p, o) \/ CancelOffer(p, o)

Next == (\E p \in Players : Command(p)) /\ JudgeVictory

Spec == Init /\ [][Next]_rules

-----------------------------------------------------------------------------
(* Properties *)

\* The market's books: an offer is known by its id alone, no player
\* has more open than allowed, and every one gives and wants something, over any number
\* of turns of posting, accepting and cancelling (actions.ts:305, 322, 375).
MarketSound ==
  /\ \A o, q \in offers : o.id = q.id => o = q
  /\ \A o \in offers : o.id \in 1 .. lastOfferId /\ SomeOf(o.give) /\ SomeOf(o.want)
  /\ \A p \in Players : Cardinality(OffersOf(p)) <= MaxOffers

\* Forts stand on land of the player that built them, so a point of fort
\* income goes to the owner of the tile (actions.ts:157-164, 252).
FortsOnOwnLand == \A t \in Tiles : fort[t] # Nobody => fort[t] = owner[t]

\* A verdict is never missed and never early: while the game runs nobody has
\* the points and a tile is free; when it is over the winner has the points
\* or the board is full, also after commands that arrive late (victory.ts).
VerdictInTime ==
  /\ ~ ended => /\ winner = Nobody /\ ~ BoardFull
                /\ \A p \in Players : stock[p]["vp"] < WinVP
  /\ ended => BoardFull \/ (winner # Nobody /\ stock[winner]["vp"] >= WinVP)
=============================================================================
