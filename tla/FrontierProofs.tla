--------------------------- MODULE FrontierProofs ---------------------------
(***************************************************************************)
(* Proofs about Frontier for every roster, board and goal that satisfies   *)
(* the assumptions of module Frontier, and about the rules as a browser    *)
(* plays them (FrontierClient).                                            *)
(***************************************************************************)
EXTENDS FrontierClient, FiniteSetTheorems, SequenceTheorems, WellFoundedInduction, TLAPS

-----------------------------------------------------------------------------
(* Seats and bundles *)

\* Every non-empty set of players has a first seat.
LEMMA FirstSeat ==
  ASSUME NEW S \in SUBSET Players, S # {}
  PROVE  FirstBySeat(S) \in S
<1> DEFINE N == { Seat[p] : p \in S }
<1>1. N \in SUBSET Nat /\ N # {}
  BY RosterAssumption
<1>2. PICK n \in N : \A m \in N : ~ (<<m, n>> \in OpToRel(<, Nat))
  BY <1>1, NatLessThanWellFounded, WFMin
<1>3. \A m \in N : n <= m
  <2> TAKE m \in N
  <2>1. m \in Nat /\ n \in Nat
    BY <1>1
  <2>2. ~ (m < n)
    BY <1>2, <2>1 DEF OpToRel
  <2> QED BY <2>1, <2>2
<1>4. PICK p \in S : \A q \in S : Seat[p] <= Seat[q]
  BY <1>3
<1> QED BY <1>4 DEF FirstBySeat

LEMMA RosterNonEmpty == Players # {}
<1> SUFFICES ASSUME Players = {} PROVE FALSE
  OBVIOUS
<1>1. Cardinality(Players) = 0
  BY FS_EmptySet
<1> QED BY <1>1, RosterAssumption

LEMMA NextPlayerType == NextPlayer \in Players
<1> DEFINE later == { q \in Players : Seat[q] > Seat[active] }
           S == IF later # {} THEN later ELSE Players
<1>1. S \in SUBSET Players /\ S # {}
  BY RosterNonEmpty
<1> HIDE DEF S
<1>2. FirstBySeat(S) \in Players
  BY <1>1, FirstSeat
<1> QED BY <1>2 DEF NextPlayer, S

LEMMA BundleGoods ==
  ASSUME NEW b \in Bundle
  PROVE  AsGoods(b) \in [Goods -> Nat]
BY DEF Bundle, AsGoods, Goods, Wares

LEMMA BundlesAreBundles == Bundles \subseteq Bundle
BY BoardAssumption DEF Bundles, Bundle

LEMMA RoundIncomeType ==
  ASSUME NEW p, NEW g
  PROVE  RoundIncome(p, g) \in Nat
<1> DEFINE S == { t \in Tiles : fort[t] = p }
           T == { t \in Tiles : owner[t] = p /\ TerrainResource[Terrain[t]] = g }
<1>1. IsFiniteSet(S) /\ IsFiniteSet(T)
  BY FS_Subset, BoardAssumption
<1>2. Cardinality(S) \in Nat /\ Cardinality(T) \in Nat
  BY <1>1, FS_CardinalityType
<1> QED BY <1>2 DEF RoundIncome

\* What a player that holds the goods gives, and gets in return.
LEMMA ExchangeType ==
  ASSUME TypeOK, NEW p \in Players,
         NEW minus \in [Goods -> Nat], NEW plus \in [Goods -> Nat],
         Holds(p, minus), Exchange(p, minus, plus)
  PROVE  /\ stock' \in [Players -> [Goods -> Nat]]
         /\ \A q \in Players, g \in Goods :
              stock'[q][g] = IF q = p THEN stock[q][g] - minus[g] + plus[g] ELSE stock[q][g]
<1>1. [g \in Goods |-> stock[p][g] - minus[g] + plus[g]] \in [Goods -> Nat]
  <2> SUFFICES ASSUME NEW g \in Goods PROVE stock[p][g] - minus[g] + plus[g] \in Nat
    OBVIOUS
  <2>1. stock[p][g] \in Nat /\ stock[p][g] >= minus[g]
    BY DEF TypeOK, Holds
  <2> QED BY <2>1
<1>2. stock' = [stock EXCEPT ![p] = [g \in Goods |-> stock[p][g] - minus[g] + plus[g]]]
  BY DEF Exchange, TypeOK
<1> QED BY <1>1, <1>2 DEF TypeOK

LEMMA NoGoodsType == NoGoods \in [Goods -> Nat] /\ \A g \in Goods : NoGoods[g] = 0
BY DEF NoGoods

-----------------------------------------------------------------------------
(* What every command does *)

\* The parts of a step the invariants depend on: flags and forts are only
\* added, by the active player, and points are never taken back.
Progress(p) ==
  /\ p = active
  /\ stock' \in [Players -> [Goods -> Nat]]
  /\ \A q \in Players : stock'[q]["vp"] >= stock[q]["vp"]
  /\ owner' \in [Tiles -> Players \cup {Nobody}]
  /\ \A t \in Tiles : owner[t] # Nobody => owner'[t] = owner[t]
  /\ fort' \in [Tiles -> Players \cup {Nobody}]
  /\ \A t \in Tiles : fort'[t] # fort[t] => fort'[t] = p /\ owner'[t] = p

Calm == UNCHANGED market

LEMMA ClaimStep ==
  ASSUME TypeOK, NEW p \in Players, NEW t \in Tiles, NEW roll \in 2 .. 12, ClaimTile(p, t, roll)
  PROVE  Progress(p) /\ Calm /\ UNCHANGED <<active, round>> /\ claimed' \in BOOLEAN /\ leap' \in BOOLEAN
<1> DEFINE plus == [g \in Goods |-> IF g = "vp" THEN TerrainVP[Terrain[t]] + BonusVP(roll)
                                    ELSE IF g = TerrainResource[Terrain[t]] THEN 1 ELSE 0]
<1>1. Terrain[t] \in Terrains
  BY BoardAssumption
<1>2. TerrainVP[Terrain[t]] + BonusVP(roll) \in Nat
  BY <1>1 DEF Terrains, TerrainVP, BonusVP
<1>3. plus \in [Goods -> Nat]
  BY <1>2
<1> HIDE DEF plus
<1>4. Exchange(p, NoGoods, plus)
  BY DEF ClaimTile, plus
<1>5. Holds(p, NoGoods)
  BY NoGoodsType DEF Holds, TypeOK
<1>6. /\ stock' \in [Players -> [Goods -> Nat]]
      /\ \A q \in Players : stock'[q]["vp"] >= stock[q]["vp"]
  <2>1. /\ stock' \in [Players -> [Goods -> Nat]]
        /\ \A q \in Players, g \in Goods :
             stock'[q][g] = IF q = p THEN stock[q][g] - NoGoods[g] + plus[g] ELSE stock[q][g]
    BY <1>3, <1>4, <1>5, NoGoodsType, ExchangeType
  <2>2. "vp" \in Goods /\ NoGoods["vp"] = 0
    BY NoGoodsType DEF Goods
  <2>3. \A q \in Players : stock[q]["vp"] \in Nat
    BY <2>2 DEF TypeOK
  <2> QED BY <2>1, <2>2, <2>3, <1>3
<1>7. /\ owner' = [owner EXCEPT ![t] = p] /\ owner[t] = Nobody /\ active = p
      /\ UNCHANGED <<fort, market, active, round>>
      /\ claimed' = TRUE /\ leap' = FALSE
  BY DEF ClaimTile, MayClaim
<1> QED BY <1>6, <1>7 DEF Progress, Calm, TypeOK

LEMMA FortifyStep ==
  ASSUME TypeOK, NEW p \in Players, NEW t \in Tiles, Fortify(p, t)
  PROVE  Progress(p) /\ Calm /\ UNCHANGED turn
<1>1. FortPrice \in [Goods -> Nat] /\ FortPrice["vp"] = 0
  BY DEF FortPrice, NoGoods, Goods, Wares
<1>2. Holds(p, FortPrice) /\ Exchange(p, FortPrice, NoGoods)
  BY DEF Fortify, MayFortify
<1>3. /\ stock' \in [Players -> [Goods -> Nat]]
      /\ \A q \in Players, g \in Goods :
           stock'[q][g] = IF q = p THEN stock[q][g] - FortPrice[g] + NoGoods[g] ELSE stock[q][g]
  BY <1>1, <1>2, NoGoodsType, ExchangeType
<1>4. \A q \in Players : stock'[q]["vp"] >= stock[q]["vp"]
  <2>1. "vp" \in Goods /\ NoGoods["vp"] = 0
    BY NoGoodsType DEF Goods
  <2>2. \A q \in Players : stock[q]["vp"] \in Nat
    BY <2>1 DEF TypeOK
  <2> QED BY <1>1, <1>3, <2>1, <2>2
<1>5. /\ fort' = [fort EXCEPT ![t] = p] /\ owner[t] = p /\ active = p
      /\ UNCHANGED <<owner, market, turn>>
  BY DEF Fortify, MayFortify
<1> QED BY <1>3, <1>4, <1>5 DEF Progress, Calm, TypeOK

LEMMA TradeStep ==
  ASSUME TypeOK, NEW p \in Players, NEW w \in Wares, Trade(p, w)
  PROVE  Progress(p) /\ Calm /\ UNCHANGED <<claimed, active, round>> /\ leap' \in BOOLEAN
<1> DEFINE minus == [NoGoods EXCEPT ![w] = 2]
           plus == [NoGoods EXCEPT !["vp"] = IF w = "wood" THEN 1 ELSE 0]
<1>0. w \in Goods /\ w # "vp" /\ "vp" \in Goods
  BY DEF Goods, Wares
<1>1. /\ minus \in [Goods -> Nat] /\ plus \in [Goods -> Nat]
      /\ minus["vp"] = 0 /\ minus[w] = 2 /\ \A g \in Goods : g # w => minus[g] = 0
  BY <1>0 DEF NoGoods
<1>2. Holds(p, minus)
  <2>1. stock[p][w] >= 2
    BY DEF Trade, MayTrade
  <2>2. \A g \in Goods : stock[p][g] \in Nat
    BY DEF TypeOK
  <2> QED BY <1>1, <2>1, <2>2 DEF Holds
<1>3. Exchange(p, minus, plus)
  BY DEF Trade
<1> HIDE DEF minus, plus
<1>4. /\ stock' \in [Players -> [Goods -> Nat]]
      /\ \A q \in Players, g \in Goods :
           stock'[q][g] = IF q = p THEN stock[q][g] - minus[g] + plus[g] ELSE stock[q][g]
  BY <1>1, <1>2, <1>3, ExchangeType
<1>5. \A q \in Players : stock'[q]["vp"] >= stock[q]["vp"]
  <2>1. \A q \in Players : stock[q]["vp"] \in Nat
    BY <1>0 DEF TypeOK
  <2>2. plus["vp"] \in Nat
    BY <1>0, <1>1
  <2> QED BY <1>0, <1>1, <1>4, <2>1, <2>2
<1>6. active = p /\ leap' = (leap \/ w = "stone") /\ UNCHANGED <<land, market, claimed, active, round>>
  BY DEF Trade, MayTrade
<1> QED BY <1>4, <1>5, <1>6 DEF Progress, Calm, TypeOK, land

LEMMA EndTurnStep ==
  ASSUME TypeOK, NEW p \in Players, EndTurn(p)
  PROVE  /\ Progress(p) /\ Calm
         /\ active' \in Players /\ round' \in Nat \ {0}
         /\ claimed' \in BOOLEAN /\ leap' \in BOOLEAN
<1>1. active' \in Players
  BY NextPlayerType DEF EndTurn
<1>2. round' \in Nat \ {0}
  BY DEF EndTurn, TypeOK
<1>3. /\ stock' \in [Players -> [Goods -> Nat]]
      /\ \A q \in Players : stock'[q]["vp"] >= stock[q]["vp"]
  <2>1. CASE NewRound
    <3>1. stock' = [q \in Players |-> [g \in Goods |-> stock[q][g] + RoundIncome(q, g)]]
      BY <2>1 DEF EndTurn
    <3>2. \A q \in Players, g \in Goods : stock[q][g] \in Nat /\ RoundIncome(q, g) \in Nat
      BY RoundIncomeType DEF TypeOK
    <3>3. "vp" \in Goods
      BY DEF Goods
    <3> QED BY <3>1, <3>2, <3>3
  <2>2. CASE ~ NewRound
    <3>1. stock' = stock
      BY <2>2 DEF EndTurn
    <3>2. \A q \in Players : stock[q]["vp"] \in Nat
      BY DEF TypeOK, Goods
    <3> QED BY <3>1, <3>2 DEF TypeOK
  <2> QED BY <2>1, <2>2
<1>4. active = p /\ UNCHANGED <<land, market>> /\ claimed' = FALSE /\ leap' = FALSE
  BY DEF EndTurn, MayEndTurn
<1> QED BY <1>1, <1>2, <1>3, <1>4 DEF Progress, Calm, TypeOK, land

LEMMA PostOfferStep ==
  ASSUME TypeOK, NEW p \in Players, NEW give \in Bundles, NEW want \in Bundles,
         PostOffer(p, give, want)
  PROVE  /\ Progress(p) /\ UNCHANGED turn
         /\ NewOffer(p, give, want) \in Offer
         /\ offers' = offers \cup {NewOffer(p, give, want)} /\ lastOfferId' = lastOfferId + 1
<1>1. give \in Bundle /\ want \in Bundle
  BY BundlesAreBundles
<1>2. AsGoods(give) \in [Goods -> Nat]
  BY <1>1, BundleGoods
<1>3. Holds(p, AsGoods(give)) /\ Exchange(p, AsGoods(give), NoGoods) /\ active = p
  BY DEF PostOffer, MayPost
<1>4. /\ stock' \in [Players -> [Goods -> Nat]]
      /\ \A q \in Players, g \in Goods :
           stock'[q][g] = IF q = p THEN stock[q][g] - AsGoods(give)[g] + NoGoods[g]
                                   ELSE stock[q][g]
  BY <1>2, <1>3, NoGoodsType, ExchangeType
<1>5. "vp" \in Goods /\ AsGoods(give)["vp"] = 0 /\ NoGoods["vp"] = 0
  BY DEF Goods, Wares, AsGoods, NoGoods
<1>6. \A q \in Players : stock'[q]["vp"] >= stock[q]["vp"]
  <2>1. \A q \in Players : stock[q]["vp"] \in Nat
    BY <1>5 DEF TypeOK
  <2> QED BY <1>4, <1>5, <2>1
<1>7. /\ UNCHANGED <<land, turn>>
      /\ offers' = offers \cup {NewOffer(p, give, want)} /\ lastOfferId' = lastOfferId + 1
  BY DEF PostOffer
<1>8. NewOffer(p, give, want) \in Offer
  BY <1>1 DEF NewOffer, Offer, TypeOK
<1> QED BY <1>3, <1>4, <1>6, <1>7, <1>8 DEF Progress, TypeOK, land

LEMMA AcceptStep ==
  ASSUME TypeOK, NEW p \in Players, NEW o \in offers, AcceptOffer(p, o)
  PROVE  Progress(p) /\ UNCHANGED <<lastOfferId, turn>> /\ offers' = Without(o)
<1> DEFINE want == AsGoods(o.want)
           give == AsGoods(o.give)
           mine == [g \in Goods |-> stock[p][g] - want[g] + give[g]]
           theirs == [g \in Goods |-> stock[o.from][g] + want[g]]
<1>1. o.from \in Players /\ o.give \in Bundle /\ o.want \in Bundle
  BY DEF TypeOK, Offer
<1>2. want \in [Goods -> Nat] /\ give \in [Goods -> Nat]
  BY <1>1, BundleGoods
<1>3. "vp" \in Goods /\ want["vp"] = 0 /\ give["vp"] = 0
  BY DEF Goods, Wares, AsGoods
<1>4. active = p /\ o.from # p /\ Holds(p, want)
  BY DEF AcceptOffer, MayAccept
<1>5. stock' = [stock EXCEPT ![p] = mine, ![o.from] = theirs]
  BY <1>1, <1>4 DEF AcceptOffer, Settled, TypeOK
<1> HIDE DEF want, give
<1>6. mine \in [Goods -> Nat] /\ theirs \in [Goods -> Nat]
  <2> SUFFICES ASSUME NEW g \in Goods
               PROVE  stock[p][g] - want[g] + give[g] \in Nat /\ stock[o.from][g] + want[g] \in Nat
    OBVIOUS
  <2>1. stock[p][g] \in Nat /\ stock[o.from][g] \in Nat /\ want[g] \in Nat /\ give[g] \in Nat
    BY <1>1, <1>2 DEF TypeOK
  <2>2. stock[p][g] >= want[g]
    BY <1>4 DEF Holds
  <2> QED BY <2>1, <2>2
<1>7. mine["vp"] = stock[p]["vp"] /\ theirs["vp"] = stock[o.from]["vp"]
  <2>1. stock[p]["vp"] \in Nat /\ stock[o.from]["vp"] \in Nat
    BY <1>1, <1>3 DEF TypeOK
  <2> QED BY <1>3, <2>1
<1> HIDE DEF mine, theirs
<1>8. stock' \in [Players -> [Goods -> Nat]]
  BY <1>1, <1>5, <1>6 DEF TypeOK
<1>9. \A q \in Players : stock'[q]["vp"] >= stock[q]["vp"]
  <2> TAKE q \in Players
  <2>1. stock[q]["vp"] \in Nat
    BY <1>3 DEF TypeOK
  <2>2. stock'[q]["vp"] = stock[q]["vp"]
    BY <1>1, <1>4, <1>5, <1>7 DEF TypeOK
  <2> QED BY <2>1, <2>2
<1>10. offers' = Without(o) /\ UNCHANGED <<land, lastOfferId, turn>>
  BY DEF AcceptOffer
<1> QED BY <1>4, <1>8, <1>9, <1>10 DEF Progress, TypeOK, land

LEMMA CancelStep ==
  ASSUME TypeOK, NEW p \in Players, NEW o \in offers, CancelOffer(p, o)
  PROVE  Progress(p) /\ UNCHANGED <<lastOfferId, turn>> /\ offers' = Without(o)
<1>1. o.give \in Bundle
  BY DEF TypeOK, Offer
<1>2. AsGoods(o.give) \in [Goods -> Nat]
  BY <1>1, BundleGoods
<1>3. active = p /\ Exchange(p, NoGoods, AsGoods(o.give))
  BY DEF CancelOffer, MayCancel
<1>4. Holds(p, NoGoods)
  BY NoGoodsType DEF Holds, TypeOK
<1>5. /\ stock' \in [Players -> [Goods -> Nat]]
      /\ \A q \in Players, g \in Goods :
           stock'[q][g] = IF q = p THEN stock[q][g] - NoGoods[g] + AsGoods(o.give)[g]
                                   ELSE stock[q][g]
  BY <1>2, <1>3, <1>4, NoGoodsType, ExchangeType
<1>6. \A q \in Players : stock'[q]["vp"] >= stock[q]["vp"]
  <2>1. "vp" \in Goods /\ NoGoods["vp"] = 0 /\ AsGoods(o.give)["vp"] = 0
    BY DEF Goods, Wares, AsGoods, NoGoods
  <2>2. \A q \in Players : stock[q]["vp"] \in Nat
    BY <2>1 DEF TypeOK
  <2> QED BY <1>5, <2>1, <2>2
<1>7. offers' = Without(o) /\ UNCHANGED <<land, lastOfferId, turn>>
  BY DEF CancelOffer
<1> QED BY <1>3, <1>5, <1>6, <1>7 DEF Progress, TypeOK, land

\* The market moves by one offer: posted under a fresh id, or taken away.
Posting(p) ==
  \E o \in Offer : /\ o.from = p /\ o.id = lastOfferId + 1 /\ SomeOf(o.give) /\ SomeOf(o.want)
                  /\ Cardinality(OffersOf(p)) < MaxOffers
                  /\ offers' = offers \cup {o} /\ lastOfferId' = lastOfferId + 1

Taking == \E o \in offers : offers' = Without(o) /\ lastOfferId' = lastOfferId

LEMMA CommandStep ==
  ASSUME TypeOK, NEW p \in Players, Command(p)
  PROVE  /\ Progress(p) /\ (Calm \/ Posting(p) \/ Taking)
         /\ active' \in Players /\ round' \in Nat \ {0}
         /\ claimed' \in BOOLEAN /\ leap' \in BOOLEAN
<1>0. active \in Players /\ round \in Nat \ {0} /\ claimed \in BOOLEAN /\ leap \in BOOLEAN
  BY DEF TypeOK
<1>1. ASSUME NEW t \in Tiles, NEW roll \in 2 .. 12, ClaimTile(p, t, roll)
      PROVE  /\ Progress(p) /\ Calm /\ active' \in Players /\ round' \in Nat \ {0}
             /\ claimed' \in BOOLEAN /\ leap' \in BOOLEAN
  BY <1>0, <1>1, ClaimStep
<1>2. ASSUME NEW t \in Tiles, Fortify(p, t)
      PROVE  Progress(p) /\ Calm /\ UNCHANGED turn
  BY <1>2, FortifyStep
<1>3. ASSUME EndTurn(p)
      PROVE  /\ Progress(p) /\ Calm /\ active' \in Players /\ round' \in Nat \ {0}
             /\ claimed' \in BOOLEAN /\ leap' \in BOOLEAN
  BY <1>3, EndTurnStep
<1>4. ASSUME NEW w \in Wares, Trade(p, w)
      PROVE  /\ Progress(p) /\ Calm /\ UNCHANGED <<claimed, active, round>> /\ leap' \in BOOLEAN
  BY <1>4, TradeStep
<1>5. ASSUME NEW give \in Bundles, NEW want \in Bundles, PostOffer(p, give, want)
      PROVE  Progress(p) /\ Posting(p) /\ UNCHANGED turn
  <2>1. /\ Progress(p) /\ UNCHANGED turn
        /\ NewOffer(p, give, want) \in Offer
        /\ offers' = offers \cup {NewOffer(p, give, want)} /\ lastOfferId' = lastOfferId + 1
    BY <1>5, PostOfferStep
  <2>2. SomeOf(give) /\ SomeOf(want) /\ Cardinality(OffersOf(p)) < MaxOffers
    BY <1>5 DEF PostOffer, MayPost
  <2>3. /\ NewOffer(p, give, want).from = p /\ NewOffer(p, give, want).id = lastOfferId + 1
        /\ NewOffer(p, give, want).give = give /\ NewOffer(p, give, want).want = want
    BY DEF NewOffer
  <2>4. Posting(p)
    BY <2>1, <2>2, <2>3 DEF Posting
  <2> QED BY <2>1, <2>4
<1>6. ASSUME NEW o \in offers, AcceptOffer(p, o) \/ CancelOffer(p, o)
      PROVE  Progress(p) /\ Taking /\ UNCHANGED turn
  BY <1>6, AcceptStep, CancelStep DEF Taking
<1> QED BY <1>0, <1>1, <1>2, <1>3, <1>4, <1>5, <1>6 DEF Command, turn

-----------------------------------------------------------------------------
(* The inductive invariant *)

RulesInv ==
  /\ TypeOK /\ IsFiniteSet(offers)
  /\ MarketSound /\ FortsOnOwnLand /\ VerdictInTime

\* Which of the two ends it is, the winner is a player or there is none.
LEMMA WinnerType ==
  ASSUME TypeOK, JudgeVictory
  PROVE  ended' \in BOOLEAN /\ winner' \in Players \cup {Nobody}
<1>1. Racers # {} => FirstBySeat(Racers) \in Players
  <2>1. Racers \in SUBSET Players
    BY DEF Racers
  <2> QED BY <2>1, FirstSeat
<1>2. Cardinality(Leaders) = 1 => (CHOOSE p \in Leaders : TRUE) \in Players
  <2>1. Cardinality(Leaders) = 1 => Leaders # {}
    BY FS_EmptySet
  <2> QED BY <2>1 DEF Leaders
<1> QED BY <1>1, <1>2 DEF JudgeVictory, TypeOK

LEMMA TypeStep ==
  ASSUME TypeOK, IsFiniteSet(offers), NEW p \in Players, Command(p), JudgeVictory
  PROVE  TypeOK' /\ IsFiniteSet(offers)'
<1>1. /\ Progress(p) /\ (Calm \/ Posting(p) \/ Taking)
      /\ active' \in Players /\ round' \in Nat \ {0}
      /\ claimed' \in BOOLEAN /\ leap' \in BOOLEAN
  BY CommandStep
<1>2. ended' \in BOOLEAN /\ winner' \in Players \cup {Nobody}
  BY WinnerType
<1>3. offers' \subseteq Offer /\ lastOfferId' \in Nat /\ IsFiniteSet(offers')
  <2>1. CASE Calm
    BY <2>1 DEF Calm, market, TypeOK
  <2>2. CASE Posting(p)
    <3>1. PICK o \in Offer : offers' = offers \cup {o} /\ lastOfferId' = lastOfferId + 1
      BY <2>2 DEF Posting
    <3>2. IsFiniteSet(offers')
      BY <3>1, FS_AddElement
    <3> QED BY <3>1, <3>2 DEF TypeOK
  <2>3. CASE Taking
    <3>1. offers' \subseteq offers /\ lastOfferId' = lastOfferId
      BY <2>3 DEF Taking, Without
    <3>2. IsFiniteSet(offers')
      BY <3>1, FS_Subset
    <3> QED BY <3>1, <3>2 DEF TypeOK
  <2> QED BY <1>1, <2>1, <2>2, <2>3
<1> QED BY <1>1, <1>2, <1>3 DEF TypeOK, Progress

\* The books after one offer was posted, taken away, or nothing happened.
LEMMA MarketStep ==
  ASSUME TypeOK, IsFiniteSet(offers), MarketSound, NEW p \in Players,
         Calm \/ Posting(p) \/ Taking
  PROVE  MarketSound'
<1>1. CASE Calm
  <2>1. offers' = offers /\ lastOfferId' = lastOfferId
    BY <1>1 DEF Calm, market
  <2>2. \A q \in Players : OffersOf(q)' = OffersOf(q)
    BY <2>1 DEF OffersOf
  <2> QED BY <2>1, <2>2 DEF MarketSound
<1>2. CASE Posting(p)
  <2>1. PICK n \in Offer :
          /\ n.from = p /\ n.id = lastOfferId + 1 /\ SomeOf(n.give) /\ SomeOf(n.want)
          /\ Cardinality(OffersOf(p)) < MaxOffers
          /\ offers' = offers \cup {n} /\ lastOfferId' = lastOfferId + 1
    BY <1>2 DEF Posting
  <2>2. lastOfferId \in Nat /\ \A o \in offers : o.id \in Nat /\ o.id <= lastOfferId
    BY DEF TypeOK, MarketSound
  <2>3. \A o, q \in offers' : o.id = q.id => o = q
    <3> SUFFICES ASSUME NEW o \in offers', NEW q \in offers', o.id = q.id PROVE o = q
      OBVIOUS
    <3>1. \A x \in offers : x.id # n.id
      BY <2>1, <2>2
    <3> QED BY <2>1, <3>1 DEF MarketSound
  <2>4. \A o \in offers' : o.id \in 1 .. lastOfferId' /\ SomeOf(o.give) /\ SomeOf(o.want)
    <3>1. n.id \in 1 .. lastOfferId'
      BY <2>1, <2>2
    <3>2. \A o \in offers : o.id \in 1 .. lastOfferId' /\ SomeOf(o.give) /\ SomeOf(o.want)
      BY <2>1, <2>2 DEF MarketSound
    <3> QED BY <2>1, <3>1, <3>2
  <2>5. \A q \in Players : Cardinality(OffersOf(q)') <= MaxOffers
    <3> TAKE q \in Players
    <3>1. CASE q = p
      <4>1. OffersOf(q)' = OffersOf(q) \cup {n}
        BY <2>1, <3>1 DEF OffersOf
      <4>2. IsFiniteSet(OffersOf(q))
        BY FS_Subset DEF OffersOf
      <4>3. Cardinality(OffersOf(q)) \in Nat
        BY <4>2, FS_CardinalityType
      <4>4. Cardinality(OffersOf(q) \cup {n}) \in {Cardinality(OffersOf(q)), Cardinality(OffersOf(q)) + 1}
        BY <4>2, FS_AddElement
      <4>5. Cardinality(OffersOf(q)) < MaxOffers /\ MaxOffers \in Nat
        BY <2>1, <3>1, BoardAssumption
      <4> QED BY <4>1, <4>3, <4>4, <4>5
    <3>2. CASE q # p
      <4>1. OffersOf(q)' = OffersOf(q)
        BY <2>1, <3>2 DEF OffersOf
      <4> QED BY <4>1 DEF MarketSound
    <3> QED BY <3>1, <3>2
  <2> QED BY <2>3, <2>4, <2>5 DEF MarketSound
<1>3. CASE Taking
  <2>1. offers' \subseteq offers /\ lastOfferId' = lastOfferId
    BY <1>3 DEF Taking, Without
  <2>2. \A q \in Players : Cardinality(OffersOf(q)') <= MaxOffers
    <3> TAKE q \in Players
    <3>1. OffersOf(q)' \subseteq OffersOf(q)
      BY <2>1 DEF OffersOf
    <3>2. IsFiniteSet(OffersOf(q))
      BY FS_Subset DEF OffersOf
    <3>3. /\ Cardinality(OffersOf(q)') <= Cardinality(OffersOf(q))
          /\ Cardinality(OffersOf(q)') \in Nat /\ Cardinality(OffersOf(q)) \in Nat
      BY <3>1, <3>2, FS_Subset, FS_CardinalityType
    <3>4. Cardinality(OffersOf(q)) <= MaxOffers /\ MaxOffers \in Nat
      BY BoardAssumption DEF MarketSound
    <3> QED BY <3>3, <3>4
  <2> QED BY <2>1, <2>2 DEF MarketSound
<1> QED BY <1>1, <1>2, <1>3

LEMMA FortStep ==
  ASSUME TypeOK, FortsOnOwnLand, NEW p \in Players, Progress(p)
  PROVE  FortsOnOwnLand'
<1> SUFFICES ASSUME NEW t \in Tiles, fort'[t] # Nobody PROVE fort'[t] = owner'[t]
  BY DEF FortsOnOwnLand
<1>1. CASE fort'[t] # fort[t]
  BY <1>1 DEF Progress
<1>2. CASE fort'[t] = fort[t]
  BY <1>2 DEF Progress, FortsOnOwnLand
<1> QED BY <1>1, <1>2

LEMMA VerdictStep ==
  ASSUME TypeOK, VerdictInTime, NEW p \in Players, Progress(p), JudgeVictory
  PROVE  VerdictInTime'
<1>0. "vp" \in Goods /\ WinVP \in Nat
  BY BoardAssumption DEF Goods
<1>1. /\ \A q \in Players : stock[q]["vp"] \in Nat /\ stock'[q]["vp"] \in Nat
      /\ \A q \in Players : stock'[q]["vp"] >= stock[q]["vp"]
  BY <1>0 DEF TypeOK, Progress
<1>2. BoardFull => BoardFull'
  BY DEF BoardFull, Progress
<1>3. CASE ended
  <2>1. ended' /\ winner' = winner
    BY <1>3 DEF JudgeVictory
  <2>2. winner \in Players \cup {Nobody}
    BY DEF TypeOK
  <2>3. BoardFull' \/ (winner' # Nobody /\ stock'[winner']["vp"] >= WinVP)
    BY <1>0, <1>1, <1>2, <1>3, <2>1, <2>2 DEF VerdictInTime
  <2> QED BY <2>1, <2>3 DEF VerdictInTime
<1>4. CASE ~ ended /\ Racers # {}
  <2>1. FirstBySeat(Racers) \in Racers
    <3>1. Racers \in SUBSET Players
      BY DEF Racers
    <3> QED BY <1>4, <3>1, FirstSeat
  <2>2. ended' /\ winner' = FirstBySeat(Racers)
    BY <1>4 DEF JudgeVictory
  <2>3. winner' \in Players /\ stock'[winner']["vp"] >= WinVP
    BY <2>1, <2>2 DEF Racers
  <2> QED BY <2>2, <2>3, RosterAssumption DEF VerdictInTime
<1>5. CASE ~ ended /\ Racers = {} /\ BoardFull'
  <2>1. ended'
    BY <1>5 DEF JudgeVictory
  <2> QED BY <1>5, <2>1 DEF VerdictInTime
<1>6. CASE ~ ended /\ Racers = {} /\ ~ BoardFull'
  <2>1. ended' = FALSE /\ winner' = Nobody
    BY <1>6 DEF JudgeVictory
  <2>2. \A q \in Players : stock'[q]["vp"] < WinVP
    BY <1>0, <1>1, <1>6 DEF Racers
  <2> QED BY <1>6, <2>1, <2>2 DEF VerdictInTime
<1> QED BY <1>3, <1>4, <1>5, <1>6

LEMMA RulesInit == Init => RulesInv
<1> SUFFICES ASSUME Init PROVE RulesInv
  OBVIOUS
<1>1. active \in Players
  BY FirstSeat, RosterNonEmpty DEF Init
<1>2. \A t \in Tiles : owner[t] \in Players \cup {Nobody}
  <2> TAKE t \in Tiles
  <2>1. CASE \E p \in Players : Home[p] = t
    BY <2>1 DEF Init
  <2>2. CASE ~ \E p \in Players : Home[p] = t
    BY <2>2 DEF Init
  <2> QED BY <2>1, <2>2
<1>3. \A p \in Players : Terrain[Home[p]] \in Terrains
  BY BoardAssumption
<1>4. \A p \in Players : TerrainVP[Terrain[Home[p]]] \in 1 .. 3
  BY <1>3 DEF TerrainVP, Terrains
<1>5. /\ stock \in [Players -> [Goods -> Nat]]
      /\ \A p \in Players : stock[p]["vp"] \in 1 .. 3
  <2>1. stock = [p \in Players |-> [NoGoods EXCEPT !["vp"] = TerrainVP[Terrain[Home[p]]]]]
    BY DEF Init
  <2>2. "vp" \in Goods
    BY DEF Goods
  <2> QED BY <1>4, <2>1, <2>2 DEF NoGoods
<1>6. TypeOK /\ IsFiniteSet(offers)
  <2>1. owner = [t \in Tiles |-> owner[t]] /\ fort \in [Tiles -> Players \cup {Nobody}]
    BY DEF Init
  <2>2. owner \in [Tiles -> Players \cup {Nobody}]
    BY <1>2, <2>1
  <2>3. offers \subseteq Offer /\ lastOfferId \in Nat /\ round \in Nat \ {0}
    BY DEF Init
  <2>4. /\ claimed \in BOOLEAN /\ leap \in BOOLEAN /\ ended \in BOOLEAN
        /\ winner \in Players \cup {Nobody}
    BY DEF Init
  <2>5. IsFiniteSet(offers)
    BY FS_EmptySet DEF Init
  <2> QED BY <1>1, <1>5, <2>1, <2>2, <2>3, <2>4, <2>5 DEF TypeOK
<1>7. MarketSound
  <2>1. offers = {}
    BY DEF Init
  <2>2. \A p \in Players : Cardinality(OffersOf(p)) = 0
    <3>1. \A p \in Players : OffersOf(p) = {}
      BY <2>1 DEF OffersOf
    <3>2. Cardinality({}) = 0
      BY FS_EmptySet
    <3> QED BY <3>1, <3>2
  <2>3. MaxOffers \in Nat
    BY BoardAssumption
  <2> QED BY <2>1, <2>2, <2>3 DEF MarketSound
<1>8. FortsOnOwnLand
  BY DEF Init, FortsOnOwnLand
<1>9. VerdictInTime
  <2>1. ~ BoardFull
    BY BoardAssumption DEF Init, BoardFull
  <2>2. \A p \in Players : stock[p]["vp"] < WinVP
    BY <1>5, BoardAssumption
  <2> QED BY <2>1, <2>2 DEF Init, VerdictInTime
<1> QED BY <1>6, <1>7, <1>8, <1>9 DEF RulesInv

LEMMA RulesStep == RulesInv /\ [Next]_rules => RulesInv'
<1> SUFFICES ASSUME RulesInv, [Next]_rules PROVE RulesInv'
  OBVIOUS
<1> USE DEF RulesInv
<1>1. CASE Next
  <2>1. PICK p \in Players : Command(p) /\ JudgeVictory
    BY <1>1 DEF Next
  <2>2. Progress(p) /\ (Calm \/ Posting(p) \/ Taking)
    BY <2>1, CommandStep
  <2>3. TypeOK' /\ IsFiniteSet(offers)'
    BY <2>1, TypeStep
  <2>4. MarketSound'
    BY <2>2, MarketStep
  <2>5. FortsOnOwnLand'
    BY <2>2, FortStep
  <2>6. VerdictInTime'
    BY <2>1, <2>2, VerdictStep
  <2> QED BY <2>3, <2>4, <2>5, <2>6
<1>2. CASE UNCHANGED rules
  <2>1. TypeOK' /\ IsFiniteSet(offers)'
    BY <1>2 DEF rules, land, market, turn, TypeOK
  <2>2. MarketSound'
    BY <1>2 DEF rules, market, MarketSound, OffersOf
  <2>3. FortsOnOwnLand' /\ VerdictInTime'
    BY <1>2 DEF rules, land, FortsOnOwnLand, VerdictInTime, BoardFull
  <2> QED BY <2>1, <2>2, <2>3
<1> QED BY <1>1, <1>2

LEMMA RulesInvariant == Spec => []RulesInv
BY RulesInit, RulesStep, PTL DEF Spec

-----------------------------------------------------------------------------
(* The rules as a browser plays them *)

\* A click of the page runs a command of the rules, or is refused.
LEMMA ClickStep ==
  ASSUME NEW p \in Players, NEW may, NEW command, NEW es, command => Command(p),
         Click(may, command, es)
  PROVE  [Next]_rules
<1>1. CASE may
  BY <1>1 DEF Click, Judged, Next
<1>2. CASE ~ may
  BY <1>2 DEF Click
<1> QED BY <1>1, <1>2

\* The browser adds nothing to the rules and takes nothing away: what the
\* page sends, and what the others send, are commands of the rules; the rest
\* of what happens in the browser leaves the game alone.
LEMMA ClientStep == [ClientNext]_vars => [Next]_rules
<1> SUFFICES ASSUME [ClientNext]_vars PROVE [Next]_rules
  OBVIOUS
<1>0. Me \in Players
  BY ClientAssumption
<1>1. CASE OthersCommand
  <2>1. PICK p \in Players : CommandOf(p)
    BY <1>1 DEF OthersCommand
  <2>2. Command(p) /\ JudgeVictory
    BY <2>1 DEF CommandOf, Command, Judged
  <2> QED BY <2>2 DEF Next
<1>2. CASE MyClick
  <2>1. ASSUME NEW t \in Tiles, NEW roll \in 2 .. 12, NEW es,
               Click(MayClaim(Me, t), ClaimTile(Me, t, roll), es)
        PROVE  [Next]_rules
    <3>1. ClaimTile(Me, t, roll) => Command(Me)
      BY DEF Command
    <3> QED BY <1>0, <2>1, <3>1, ClickStep
  <2>2. ASSUME NEW t \in Tiles, NEW es, Click(MayFortify(Me, t), Fortify(Me, t), es)
        PROVE  [Next]_rules
    <3>1. Fortify(Me, t) => Command(Me)
      BY DEF Command
    <3> QED BY <1>0, <2>2, <3>1, ClickStep
  <2>3. ASSUME NEW es, Click(MayEndTurn(Me), EndTurn(Me), es)
        PROVE  [Next]_rules
    <3>1. EndTurn(Me) => Command(Me)
      BY DEF Command
    <3> QED BY <1>0, <2>3, <3>1, ClickStep
  <2>4. ASSUME NEW w \in Wares, NEW es, Click(MayTrade(Me, w), Trade(Me, w), es)
        PROVE  [Next]_rules
    <3>1. Trade(Me, w) => Command(Me)
      BY DEF Command
    <3> QED BY <1>0, <2>4, <3>1, ClickStep
  <2>5. ASSUME NEW give \in Bundles, NEW want \in Bundles, NEW es,
               Click(MayPost(Me, give, want), PostOffer(Me, give, want), es)
        PROVE  [Next]_rules
    <3>1. PostOffer(Me, give, want) => Command(Me)
      BY DEF Command
    <3> QED BY <1>0, <2>5, <3>1, ClickStep
  <2>6. ASSUME NEW o, NEW es,
               \/ Click(o \in offers /\ MayAccept(Me, o), AcceptOffer(Me, o), es)
               \/ Click(o \in offers /\ MayCancel(Me, o), CancelOffer(Me, o), es)
        PROVE  [Next]_rules
    <3>1. (AcceptOffer(Me, o) => Command(Me)) /\ (CancelOffer(Me, o) => Command(Me))
      BY DEF Command, AcceptOffer, CancelOffer
    <3> QED BY <1>0, <2>6, <3>1, ClickStep
  <2>7. MyCommand
    BY <1>2 DEF MyClick
  <2>8. Claimable \subseteq Tiles /\ Fortifiable \subseteq Tiles
    BY DEF Claimable, Fortifiable
  <2> QED BY <2>1, <2>2, <2>3, <2>4, <2>5, <2>6, <2>7, <2>8 DEF MyCommand
<1>3. CASE TogglePage \/ Receive
  BY <1>3 DEF TogglePage, Receive
<1>4. CASE UNCHANGED vars
  BY <1>4 DEF vars
<1> QED BY <1>1, <1>2, <1>3, <1>4 DEF ClientNext

\* A game played through browsers is a game of the rules, whatever the page
\* offers and however far it lags behind (GamePage.tsx against actions.ts).
THEOREM BrowserPlaysByTheRules == ClientSpec => Spec
BY ClientStep, PTL DEF ClientSpec, ClientInit, Spec

LEMMA ClientInvariant == ClientSpec => []RulesInv
BY BrowserPlaysByTheRules, RulesInvariant, PTL

-----------------------------------------------------------------------------
(* Theorems *)

\* No command leaves a negative stock, a foreign owner or a half-made offer:
\* every removal is covered by what its validator saw.
THEOREM TypeCorrect == ClientSpec => []TypeOK
BY ClientInvariant, PTL DEF RulesInv

\* The market's books are in order for every roster and every limit of offers.
THEOREM MarketIsSound == ClientSpec => []MarketSound
BY ClientInvariant, PTL DEF RulesInv

\* The point of a fort always goes to the owner of its tile.
THEOREM FortsStandOnOwnLand == ClientSpec => []FortsOnOwnLand
BY ClientInvariant, PTL DEF RulesInv

\* No verdict is missed, and none is given early, on any board with a free
\* tile and any goal above a home's points.
THEOREM VerdictIsInTime == ClientSpec => []VerdictInTime
BY ClientInvariant, PTL DEF RulesInv

-----------------------------------------------------------------------------
(* The events rebuild the view *)

\* What the browser is sent.
Message ==
  [type : {"tile-claimed"}, player : Players, tile : Tiles, vp : Nat]
  \cup [type : {"trade"}, player : Players, ware : Wares]
  \cup [type : {"fortify"}, player : Players, tile : Tiles]
  \cup [type : {"post-offer", "accept-offer", "cancel-offer"}, player : Players, offer : Offer]
  \cup [type : {"turn-ended", "fort-income"}, player : Players]
  \cup [type : {"round-ended"}, round : Nat]
  \cup [type : {"tile-income"}, player : Players, wood : Nat, stone : Nat]
  \cup [type : {"game-ended"}, player : Players \cup {Nobody}]

\* A store with the view v comes to have the view w by the events es.
Becomes(v, es, w) ==
  \E h : /\ h[0] = v /\ h[Len(es)] = w
         /\ \A i \in 1 .. Len(es) : h[i] = ApplyEvent(h[i - 1], es[i])

\* Nothing told, nothing changed.
LEMMA BecomesByNothing ==
  ASSUME NEW v, NEW w
  PROVE  Becomes(v, << >>, w) <=> v = w
<1>1. Becomes(v, << >>, w) => v = w
  BY DEF Becomes
<1>2. ASSUME v = w  PROVE Becomes(v, << >>, w)
  <2> DEFINE h == [i \in {0} |-> v]
  <2>1. h[0] = v /\ Len(<< >>) = 0 /\ \A i \in 1 .. Len(<< >>) : FALSE
    OBVIOUS
  <2> HIDE DEF h
  <2>. QED  BY <1>2, <2>1 DEF Becomes
<1>. QED  BY <1>1, <1>2

\* One event.
LEMMA BecomesByOne ==
  ASSUME NEW v, NEW e
  PROVE  Becomes(v, <<e>>, ApplyEvent(v, e))
<1> DEFINE h == [i \in 0 .. 1 |-> IF i = 0 THEN v ELSE ApplyEvent(v, e)]
<1>1. h[0] = v /\ h[1] = ApplyEvent(v, e)
  OBVIOUS
<1> HIDE DEF h
<1>2. Len(<<e>>) = 1 /\ <<e>>[1] = e
  OBVIOUS
<1>3. \A i \in 1 .. 1 : h[i] = ApplyEvent(h[i - 1], <<e>>[i])
  <2> TAKE i \in 1 .. 1
  <2>1. i = 1 /\ i - 1 = 0
    OBVIOUS
  <2>. QED  BY <1>1, <1>2, <2>1
<1>. QED  BY <1>1, <1>2, <1>3 DEF Becomes

\* More events lead on.
LEMMA BecomesByMore ==
  ASSUME NEW S, NEW es \in Seq(S), NEW fs \in Seq(S), NEW v, NEW w, NEW x, Becomes(v, es, w), Becomes(w, fs, x)
  PROVE  Becomes(v, es \o fs, x)
<1> DEFINE m == Len(es)
           n == Len(fs)
<1>1. /\ m \in Nat /\ n \in Nat /\ Len(es \o fs) = m + n
      /\ \A i \in 1 .. m : (es \o fs)[i] = es[i]
      /\ \A i \in m + 1 .. m + n : (es \o fs)[i] = fs[i - m]
  OBVIOUS
<1>2. PICK a : a[0] = v /\ a[m] = w /\ \A i \in 1 .. m : a[i] = ApplyEvent(a[i - 1], es[i])
  BY DEF Becomes
<1>3. PICK b : b[0] = w /\ b[n] = x /\ \A i \in 1 .. n : b[i] = ApplyEvent(b[i - 1], fs[i])
  BY DEF Becomes
<1> HIDE DEF m, n
<1> DEFINE h == [i \in 0 .. m + n |-> IF i <= m THEN a[i] ELSE b[i - m]]
<1>4. /\ \A i \in 0 .. m : h[i] = a[i]
      /\ \A i \in m + 1 .. m + n : h[i] = b[i - m]
  BY <1>1
<1> HIDE DEF h
<1>5. h[0] = v
  BY <1>1, <1>2, <1>4
<1>6. h[m + n] = x
  <2>1. CASE n = 0
    BY <1>1, <1>2, <1>3, <1>4, <2>1
  <2>2. CASE n # 0
    <3>1. PICK k \in m + 1 .. m + n : k = m + n /\ k - m = n
      BY <1>1, <2>2
    <3>2. h[k] = b[k - m]
      BY <1>4, <3>1
    <3>. QED  BY <1>3, <3>1, <3>2
  <2>. QED  BY <2>1, <2>2
<1>7. \A i \in 1 .. m + n : h[i] = ApplyEvent(h[i - 1], (es \o fs)[i])
  <2> TAKE i \in 1 .. m + n
  <2>1. CASE i <= m
    <3>1. i \in 1 .. m /\ i \in 0 .. m /\ i - 1 \in 0 .. m
      BY <1>1, <2>1
    <3>. QED  BY <1>1, <1>2, <1>4, <3>1
  <2>2. CASE i = m + 1
    <3>1. i \in m + 1 .. m + n /\ i - 1 = m /\ m \in 0 .. m /\ i - m = 1 /\ 1 \in 1 .. n /\ 1 - 1 = 0
      BY <1>1, <2>2
    <3>2. h[i] = b[1] /\ h[i - 1] = w /\ (es \o fs)[i] = fs[1]
      BY <1>1, <1>2, <1>4, <3>1
    <3>3. b[1] = ApplyEvent(b[0], fs[1])
      BY <1>3, <3>1
    <3>. QED  BY <1>3, <3>2, <3>3
  <2>3. CASE i > m + 1
    <3>1. /\ i \in m + 1 .. m + n /\ i - 1 \in m + 1 .. m + n
          /\ i - m \in 1 .. n /\ i - 1 - m = i - m - 1
      BY <1>1, <2>3
    <3>2. h[i] = b[i - m] /\ h[i - 1] = b[i - m - 1] /\ (es \o fs)[i] = fs[i - m]
      BY <1>1, <1>4, <3>1
    <3>. QED  BY <1>3, <3>1, <3>2
  <2>. QED  BY <1>1, <2>1, <2>2, <2>3
<1>. QED  BY <1>1, <1>5, <1>6, <1>7 DEF Becomes

\* The store applies the first event; the rest leads on from there.
LEMMA BecomesByTheRest ==
  ASSUME NEW S, NEW es \in Seq(S), es # << >>, NEW v, NEW w, Becomes(v, es, w)
  PROVE  Becomes(ApplyEvent(v, Head(es)), Tail(es), w)
<1> DEFINE m == Len(es)
           r == Tail(es)
<1>1. /\ m \in Nat /\ m > 0 /\ Head(es) = es[1] /\ Len(r) = m - 1
      /\ \A i \in 1 .. m - 1 : r[i] = es[i + 1]
  OBVIOUS
<1>2. PICK a : a[0] = v /\ a[m] = w /\ \A i \in 1 .. m : a[i] = ApplyEvent(a[i - 1], es[i])
  BY DEF Becomes
<1> HIDE DEF m, r
<1> DEFINE h == [i \in 0 .. m - 1 |-> a[i + 1]]
<1>3. \A i \in 0 .. m - 1 : h[i] = a[i + 1]
  OBVIOUS
<1> HIDE DEF h
<1>4. h[0] = ApplyEvent(v, Head(es)) /\ h[m - 1] = w
  <2>1. 0 \in 0 .. m - 1 /\ m - 1 \in 0 .. m - 1 /\ m - 1 + 1 = m /\ 0 + 1 = 1 /\ 1 \in 1 .. m /\ 1 - 1 = 0
    BY <1>1
  <2>. QED  BY <1>1, <1>2, <1>3, <2>1
<1>5. \A i \in 1 .. m - 1 : h[i] = ApplyEvent(h[i - 1], r[i])
  <2> TAKE i \in 1 .. m - 1
  <2>1. i \in 0 .. m - 1 /\ i - 1 \in 0 .. m - 1 /\ i - 1 + 1 = i /\ i + 1 - 1 = i /\ i + 1 \in 1 .. m
    BY <1>1
  <2>2. h[i] = a[i + 1] /\ h[i - 1] = a[i] /\ r[i] = es[i + 1]
    BY <1>1, <1>3, <2>1
  <2>3. a[i + 1] = ApplyEvent(a[i], es[i + 1])
    BY <1>2, <2>1
  <2>. QED  BY <2>2, <2>3
<1>. QED  BY <1>1, <1>4, <1>5 DEF Becomes, r

-----------------------------------------------------------------------------
(* One event *)

\* A view; its round is that of the first snapshot.
Picture(o, f, of, st, a, e, w) ==
  [owner |-> o, fort |-> f, offers |-> of, stock |-> st,
   active |-> a, round |-> 1, ended |-> e, winner |-> w]

\* The view the events lead to, and the one after a command, before the verdict.
Current == Picture(owner, fort, offers, stock, active, ended, winner)
Done    == Picture(owner', fort', offers', stock', active', ended, winner)

\* Earn changes the stock of the picture only.
LEMMA EarnPicture ==
  ASSUME NEW o, NEW f, NEW of, NEW st, NEW a, NEW e, NEW w, NEW p, NEW gs
  PROVE  Earn(Picture(o, f, of, st, a, e, w), p, gs)
           = Picture(o, f, of, [st EXCEPT ![p] = [g \in Goods |-> @[g] + gs[g]]], a, e, w)
BY DEF Earn, Picture

\* Spend changes the stock of the picture only.
LEMMA SpendPicture ==
  ASSUME NEW o, NEW f, NEW of, NEW st, NEW a, NEW e, NEW w, NEW p, NEW gs
  PROVE  Spend(Picture(o, f, of, st, a, e, w), p, gs)
           = Picture(o, f, of, [st EXCEPT ![p] = [g \in Goods |-> Floor0(@[g] - gs[g])]], a, e, w)
BY DEF Spend, Picture

\* A row that is right makes the stock right.
LEMMA RowIsEnough ==
  ASSUME NEW s \in [Players -> [Goods -> Nat]], NEW u \in [Players -> [Goods -> Nat]],
         NEW p \in Players, NEW F, F = [g \in Goods |-> F[g]],
         \A g \in Goods : F[g] = u[p][g],
         \A q \in Players \ {p} : \A g \in Goods : u[q][g] = s[q][g]
  PROVE  [s EXCEPT ![p] = F] = u
<1>1. F = u[p]
  BY DEF Goods
<1>2. \A q \in Players \ {p} : u[q] = s[q]
  <2> TAKE q \in Players \ {p}
  <2>1. u[q] \in [Goods -> Nat] /\ s[q] \in [Goods -> Nat]
    OBVIOUS
  <2>. QED  BY <2>1
<1>. QED  BY <1>1, <1>2

\* TileClaimed: the tile, its points and its unit (actions.ts:100-130).
LEMMA ClaimIsTold ==
  ASSUME TypeOK, NEW p \in Players, NEW t \in Tiles, NEW roll \in 2 .. 12, ClaimTile(p, t, roll)
  PROVE  LET e == TileClaimed(p, t, TerrainVP[Terrain[t]] + BonusVP(roll))
         IN  e \in Message /\ ApplyEvent(Current, e) = Done
<1> DEFINE n == TerrainVP[Terrain[t]] + BonusVP(roll)
           plus == [g \in Goods |-> IF g = "vp" THEN n
                                    ELSE IF g = TerrainResource[Terrain[t]] THEN 1 ELSE 0]
           e == TileClaimed(p, t, n)
<1>1. n \in Nat
  BY BoardAssumption DEF TerrainVP, Terrains, BonusVP
<1>2. /\ owner' = [owner EXCEPT ![t] = p] /\ Exchange(p, NoGoods, plus)
      /\ UNCHANGED <<fort, offers, active>>
  BY DEF ClaimTile, market
<1> HIDE DEF n
<1>3. e \in Message
  BY <1>1 DEF Message, TileClaimed
<1>4. plus \in [Goods -> Nat]
  BY <1>1
<1>5. Holds(p, NoGoods)
  BY DEF Holds, NoGoods, TypeOK
<1>6. /\ stock' \in [Players -> [Goods -> Nat]]
      /\ \A q \in Players, g \in Goods :
           stock'[q][g] = IF q = p THEN stock[q][g] - NoGoods[g] + plus[g] ELSE stock[q][g]
  <2> HIDE DEF plus
  <2>. QED  BY <1>2, <1>4, <1>5, NoGoodsType, ExchangeType
<1>7. [stock EXCEPT ![p] = [g \in Goods |-> @[g] + plus[g]]] = stock'
  <2> HIDE DEF plus
  <2> DEFINE F == [g \in Goods |-> stock[p][g] + plus[g]]
  <2>1. \A g \in Goods : F[g] = stock'[p][g]
    BY <1>4, <1>6, NoGoodsType DEF TypeOK
  <2>2. \A q \in Players \ {p} : \A g \in Goods : stock'[q][g] = stock[q][g]
    BY <1>6
  <2>3. stock \in [Players -> [Goods -> Nat]] /\ F = [g \in Goods |-> F[g]]
    BY DEF TypeOK
  <2> HIDE DEF F
  <2>4. [stock EXCEPT ![p] = F] = stock'
    BY <1>6, <2>1, <2>2, <2>3, RowIsEnough
  <2>. QED  BY <2>3, <2>4 DEF F
<1>8. ApplyEvent(Current, e) = OnTileClaimed(Current, e)
  BY DEF ApplyEvent, TileClaimed
<1>9. OnTileClaimed(Current, e) = Earn(Picture(owner', fort, offers, stock, active, ended, winner), p, plus)
  BY <1>2 DEF OnTileClaimed, Current, Picture, TileClaimed
<1>10. ApplyEvent(Current, e) = Done
  <2> HIDE DEF plus
  <2>. QED  BY <1>2, <1>7, <1>8, <1>9, EarnPicture DEF Done
<1>. QED  BY <1>3, <1>10 DEF n

\* Spend never meets the floor: the validators saw what is removed.
LEMMA PaidInFull ==
  ASSUME TypeOK, NEW p \in Players, NEW minus \in [Goods -> Nat], Holds(p, minus), Exchange(p, minus, NoGoods)
  PROVE  [stock EXCEPT ![p] = [g \in Goods |-> Floor0(@[g] - minus[g])]] = stock'
<1> DEFINE F == [g \in Goods |-> Floor0(stock[p][g] - minus[g])]
<1>1. /\ stock' \in [Players -> [Goods -> Nat]]
      /\ \A q \in Players, g \in Goods :
           stock'[q][g] = IF q = p THEN stock[q][g] - minus[g] + NoGoods[g] ELSE stock[q][g]
  BY NoGoodsType, ExchangeType
<1>2. \A g \in Goods : F[g] = stock'[p][g]
  <2> TAKE g \in Goods
  <2>1. stock[p][g] \in Nat /\ minus[g] \in Nat /\ stock[p][g] >= minus[g] /\ NoGoods[g] = 0
    BY NoGoodsType DEF TypeOK, Holds
  <2>2. F[g] = stock[p][g] - minus[g]
    BY <2>1 DEF Floor0
  <2>. QED  BY <1>1, <2>1, <2>2
<1>3. \A q \in Players \ {p} : \A g \in Goods : stock'[q][g] = stock[q][g]
  BY <1>1
<1>4. stock \in [Players -> [Goods -> Nat]] /\ F = [g \in Goods |-> F[g]]
  BY DEF TypeOK
<1> HIDE DEF F
<1>5. [stock EXCEPT ![p] = F] = stock'
  BY <1>1, <1>2, <1>3, <1>4, RowIsEnough
<1>. QED  BY <1>4, <1>5 DEF F

\* What is earned is added.
LEMMA EarnedInFull ==
  ASSUME TypeOK, NEW p \in Players, NEW plus \in [Goods -> Nat], Exchange(p, NoGoods, plus)
  PROVE  [stock EXCEPT ![p] = [g \in Goods |-> @[g] + plus[g]]] = stock'
<1> DEFINE F == [g \in Goods |-> stock[p][g] + plus[g]]
<1>1. /\ stock' \in [Players -> [Goods -> Nat]]
      /\ \A q \in Players, g \in Goods :
           stock'[q][g] = IF q = p THEN stock[q][g] - NoGoods[g] + plus[g] ELSE stock[q][g]
  <2>1. Holds(p, NoGoods)
    BY DEF Holds, NoGoods, TypeOK
  <2>. QED  BY <2>1, NoGoodsType, ExchangeType
<1>2. \A g \in Goods : F[g] = stock'[p][g]
  BY <1>1, NoGoodsType DEF TypeOK
<1>3. \A q \in Players \ {p} : \A g \in Goods : stock'[q][g] = stock[q][g]
  BY <1>1
<1>4. stock \in [Players -> [Goods -> Nat]] /\ F = [g \in Goods |-> F[g]]
  BY DEF TypeOK
<1> HIDE DEF F
<1>5. [stock EXCEPT ![p] = F] = stock'
  BY <1>1, <1>2, <1>3, <1>4, RowIsEnough
<1>. QED  BY <1>4, <1>5 DEF F

\* Fortified: the fort and its price.
LEMMA FortifyIsTold ==
  ASSUME TypeOK, NEW p \in Players, NEW t \in Tiles, Fortify(p, t)
  PROVE  LET e == Fortified(p, t) IN e \in Message /\ ApplyEvent(Current, e) = Done
<1> DEFINE e == Fortified(p, t)
<1>1. /\ fort' = [fort EXCEPT ![t] = p] /\ Exchange(p, FortPrice, NoGoods) /\ Holds(p, FortPrice)
      /\ UNCHANGED <<owner, offers, active>>
  BY DEF Fortify, MayFortify, market, turn
<1>2. FortPrice \in [Goods -> Nat]
  BY DEF FortPrice, NoGoods, Goods, Wares
<1>3. [stock EXCEPT ![p] = [g \in Goods |-> Floor0(@[g] - FortPrice[g])]] = stock'
  BY <1>1, <1>2, PaidInFull
<1>4. ApplyEvent(Current, e) = OnFortify(Current, e)
  BY DEF ApplyEvent, Fortified
<1>5. OnFortify(Current, e) = Spend(Picture(owner, fort', offers, stock, active, ended, winner), p, FortPrice)
  BY <1>1 DEF OnFortify, Current, Picture, Fortified
<1>6. e \in Message
  BY DEF Message, Fortified
<1>. QED  BY <1>1, <1>3, <1>4, <1>5, <1>6, SpendPicture DEF Done

\* Traded: two of the ware, and the point if it was wood.
LEMMA TradeIsTold ==
  ASSUME TypeOK, NEW p \in Players, NEW w \in Wares, Trade(p, w)
  PROVE  LET e == Traded(p, w) IN e \in Message /\ ApplyEvent(Current, e) = Done
<1> DEFINE e == Traded(p, w)
           minus == [NoGoods EXCEPT ![w] = 2]
           point == [NoGoods EXCEPT !["vp"] = 1]
           plus == [NoGoods EXCEPT !["vp"] = IF w = "wood" THEN 1 ELSE 0]
           paid == [stock EXCEPT ![p] = [g \in Goods |-> Floor0(@[g] - minus[g])]]
<1>1. /\ Exchange(p, minus, plus) /\ stock[p][w] >= 2
      /\ UNCHANGED <<owner, fort, offers, active>>
  BY DEF Trade, MayTrade, land, market
<1>2. /\ minus \in [Goods -> Nat] /\ plus \in [Goods -> Nat] /\ point \in [Goods -> Nat]
      /\ \A g \in Goods : minus[g] = (IF g = w THEN 2 ELSE 0)
                          /\ point[g] = (IF g = "vp" THEN 1 ELSE 0)
                          /\ plus[g] = (IF g = "vp" /\ w = "wood" THEN 1 ELSE 0)
  BY DEF NoGoods, Goods, Wares
<1>3. Holds(p, minus)
  BY <1>1, <1>2 DEF Holds, TypeOK
<1> HIDE DEF minus, plus, point
<1>4. /\ stock' \in [Players -> [Goods -> Nat]]
      /\ \A q \in Players, g \in Goods :
           stock'[q][g] = IF q = p THEN stock[q][g] - minus[g] + plus[g] ELSE stock[q][g]
  BY <1>1, <1>2, <1>3, ExchangeType
<1>5. /\ paid \in [Players -> [Goods -> Nat]]
      /\ \A q \in Players, g \in Goods :
           paid[q][g] = IF q = p THEN stock[q][g] - minus[g] ELSE stock[q][g]
  <2> DEFINE F == [g \in Goods |-> Floor0(stock[p][g] - minus[g])]
  <2>1. \A g \in Goods : stock[p][g] \in Nat /\ minus[g] \in Nat /\ stock[p][g] >= minus[g]
    BY <1>2, <1>3 DEF TypeOK, Holds
  <2>2. \A g \in Goods : F[g] = stock[p][g] - minus[g] /\ F[g] \in Nat
    BY <2>1 DEF Floor0
  <2>3. F \in [Goods -> Nat]
    BY <2>2
  <2>4. paid = [stock EXCEPT ![p] = F]
    OBVIOUS
  <2> HIDE DEF F, paid
  <2>. QED  BY <2>2, <2>3, <2>4 DEF TypeOK
<1>6. ApplyEvent(Current, e) = OnTrade(Current, e)
  BY DEF ApplyEvent, Traded
<1>7. Spend(Current, p, minus) = Picture(owner, fort, offers, paid, active, ended, winner)
  BY SpendPicture DEF Current
<1>8. e \in Message
  BY DEF Message, Traded
<1>9. OnTrade(Current, e) = IF w = "wood" THEN Earn(Spend(Current, p, minus), p, point) ELSE Spend(Current, p, minus)
  BY DEF OnTrade, Traded, minus, point
<1> HIDE DEF paid
<1>10. CASE w = "wood"
  <2> DEFINE F == [g \in Goods |-> paid[p][g] + point[g]]
  <2>1. \A g \in Goods : F[g] = stock'[p][g]
    <3> TAKE g \in Goods
    <3>1. F[g] = paid[p][g] + point[g] /\ point[g] = plus[g]
      BY <1>2, <1>10
    <3>2. paid[p][g] = stock[p][g] - minus[g] /\ stock'[p][g] = stock[p][g] - minus[g] + plus[g]
      BY <1>4, <1>5
    <3>. QED  BY <3>1, <3>2
  <2>2. \A q \in Players \ {p} : \A g \in Goods : stock'[q][g] = paid[q][g]
    BY <1>4, <1>5
  <2>3. F = [g \in Goods |-> F[g]]
    OBVIOUS
  <2>4. [paid EXCEPT ![p] = [g \in Goods |-> @[g] + point[g]]] = [paid EXCEPT ![p] = F]
    BY <1>5
  <2> HIDE DEF F
  <2>5. [paid EXCEPT ![p] = F] = stock'
    BY <1>4, <1>5, <2>1, <2>2, <2>3, RowIsEnough
  <2>6. Earn(Picture(owner, fort, offers, paid, active, ended, winner), p, point) = Done
    BY <1>1, <2>4, <2>5, EarnPicture DEF Done
  <2>. QED  BY <1>6, <1>7, <1>8, <1>9, <1>10, <2>6
<1>11. CASE w # "wood"
  <2>1. \A q \in Players : \A g \in Goods : stock'[q][g] = paid[q][g]
    BY <1>2, <1>4, <1>5, <1>11 DEF TypeOK
  <2>2. \A q \in Players : stock'[q] = paid[q]
    <3> TAKE q \in Players
    <3>1. stock'[q] \in [Goods -> Nat] /\ paid[q] \in [Goods -> Nat]
      BY <1>4, <1>5
    <3>. QED  BY <2>1, <3>1
  <2>3. stock' = paid
    BY <1>4, <1>5, <2>2
  <2>. QED  BY <1>1, <1>6, <1>7, <1>8, <1>9, <1>11, <2>3 DEF Done
<1>. QED  BY <1>10, <1>11

\* The event of an offer posted: the offer and what it reserves.
LEMMA PostIsTold ==
  ASSUME TypeOK, NEW p \in Players, NEW give \in Bundles, NEW want \in Bundles, PostOffer(p, give, want)
  PROVE  LET e == OfferEvent("post-offer", p, NewOffer(p, give, want))
         IN  e \in Message /\ ApplyEvent(Current, e) = Done
<1> DEFINE o == NewOffer(p, give, want)
           e == OfferEvent("post-offer", p, o)
<1>1. /\ offers' = offers \cup {o} /\ Exchange(p, AsGoods(give), NoGoods) /\ Holds(p, AsGoods(give))
      /\ UNCHANGED <<owner, fort, active>>
  BY DEF PostOffer, MayPost, land, turn
<1>2. o \in Offer /\ o.give = give /\ AsGoods(give) \in [Goods -> Nat]
  BY BundlesAreBundles, BundleGoods DEF NewOffer, Offer, TypeOK
<1>3. [stock EXCEPT ![p] = [g \in Goods |-> Floor0(@[g] - AsGoods(give)[g])]] = stock'
  BY <1>1, <1>2, PaidInFull
<1> HIDE DEF o
<1>4. ApplyEvent(Current, e) = OnPostOffer(Current, e)
  BY DEF ApplyEvent, OfferEvent
<1>5. OnPostOffer(Current, e) = Spend(Picture(owner, fort, offers', stock, active, ended, winner), p, AsGoods(give))
  BY <1>1, <1>2 DEF OnPostOffer, Current, Picture, OfferEvent
<1>6. e \in Message
  BY <1>2 DEF Message, OfferEvent
<1>. QED  BY <1>1, <1>3, <1>4, <1>5, <1>6, SpendPicture DEF Done, o

\* Offers are dropped by their ids, as in the rules.
LEMMA DroppedPicture ==
  ASSUME NEW o
  PROVE  Dropped(Current, o) = Picture(owner, fort, Without(o), stock, active, ended, winner)
<1>1. { x \in Current.offers : x.id # o.id } = Without(o)
  BY DEF Current, Picture, Without
<1>2. Dropped(Current, o) = [Current EXCEPT !.offers = Without(o)]
  <2> DEFINE W == Without(o)
  <2>1. { x \in Current.offers : x.id # o.id } = W
    BY <1>1
  <2> HIDE DEF W
  <2>. QED  BY <2>1 DEF Dropped, W
<1>. QED  BY <1>2 DEF Current, Picture

\* The event of an offer accepted: both rows, and the offer is gone.
LEMMA AcceptIsTold ==
  ASSUME TypeOK, NEW p \in Players, NEW o \in offers, AcceptOffer(p, o)
  PROVE  LET e == OfferEvent("accept-offer", p, o) IN e \in Message /\ ApplyEvent(Current, e) = Done
<1> DEFINE e == OfferEvent("accept-offer", p, o)
<1>1. stock' = Settled(p, o) /\ offers' = Without(o) /\ UNCHANGED <<owner, fort, active>>
  BY DEF AcceptOffer, land, turn
<1>2. ApplyEvent(Current, e) = OnAcceptOffer(Current, e)
  BY DEF ApplyEvent, OfferEvent
<1>3. e.offer = o /\ e.player = p
  BY DEF OfferEvent
<1>4. Dropped(Current, o) = Picture(owner, fort, offers', stock, active, ended, winner)
  BY <1>1, DroppedPicture
<1>5. OnAcceptOffer(Current, e) = Picture(owner, fort, offers', Settled(p, o), active, ended, winner)
  <2> DEFINE F == [g \in Goods |-> stock[p][g] - AsGoods(o.want)[g] + AsGoods(o.give)[g]]
             G == [g \in Goods |-> stock[o.from][g] + AsGoods(o.want)[g]]
             s == [stock EXCEPT ![p] = F]
             u == [s EXCEPT ![o.from] = G]
             v == Picture(owner, fort, offers', stock, active, ended, winner)
             x == Picture(owner, fort, offers', s, active, ended, winner)
             y == Picture(owner, fort, offers', u, active, ended, winner)
  <2>1. v.stock = stock
    BY DEF Picture
  <2>2. Settled(p, o) = u
    BY DEF Settled
  <2>3. OnAcceptOffer(Current, e) = [[v EXCEPT !.stock[p] = F] EXCEPT !.stock[o.from] = G]
    <3> DEFINE A == [g \in Goods |-> v.stock[p][g] - AsGoods(o.want)[g] + AsGoods(o.give)[g]]
               B == [g \in Goods |-> v.stock[o.from][g] + AsGoods(o.want)[g]]
    <3>1. A = F /\ B = G
      BY <2>1
    <3> DEFINE Book(d, q, z) ==
                 [d EXCEPT !.stock[q] = [g \in Goods |-> @[g] - AsGoods(z.want)[g] + AsGoods(z.give)[g]],
                           !.stock[z.from] = [g \in Goods |-> @[g] + AsGoods(z.want)[g]]]
    <3> HIDE DEF v, F, G, e
    <3>2. OnAcceptOffer(Current, e) = Book(v, p, o)
      <4>1. OnAcceptOffer(Current, e) = Book(Dropped(Current, e.offer), e.player, e.offer)
        BY DEF OnAcceptOffer
      <4> HIDE DEF Book
      <4>. QED  BY <1>3, <1>4, <4>1 DEF v
    <3>3. Book(v, p, o) = [v EXCEPT !.stock[p] = A, !.stock[o.from] = B]
      OBVIOUS
    <3> HIDE DEF A, B, Book
    <3>4. [v EXCEPT !.stock[p] = A, !.stock[o.from] = B] = [[v EXCEPT !.stock[p] = A] EXCEPT !.stock[o.from] = B]
      OBVIOUS
    <3>. QED  BY <3>1, <3>2, <3>3, <3>4
  <2> HIDE DEF F, G
  <2>4. [v EXCEPT !.stock[p] = F] = x
    BY DEF Picture
  <2> HIDE DEF s
  <2>5. [x EXCEPT !.stock[o.from] = G] = y
    BY DEF Picture
  <2> HIDE DEF u, v, x
  <2>. QED  BY <2>2, <2>3, <2>4, <2>5 DEF y
<1>6. e \in Message
  BY DEF Message, OfferEvent, TypeOK
<1>. QED  BY <1>1, <1>2, <1>5, <1>6 DEF Done

\* The event of an offer cancelled: what was reserved comes back.
LEMMA CancelIsTold ==
  ASSUME TypeOK, NEW p \in Players, NEW o \in offers, CancelOffer(p, o)
  PROVE  LET e == OfferEvent("cancel-offer", p, o) IN e \in Message /\ ApplyEvent(Current, e) = Done
<1> DEFINE e == OfferEvent("cancel-offer", p, o)
<1>1. Exchange(p, NoGoods, AsGoods(o.give)) /\ offers' = Without(o) /\ UNCHANGED <<owner, fort, active>>
  BY DEF CancelOffer, land, turn
<1>2. ApplyEvent(Current, e) = OnCancelOffer(Current, e)
  BY DEF ApplyEvent, OfferEvent
<1>3. e.offer = o /\ e.player = p /\ o \in Offer
  BY DEF OfferEvent, TypeOK
<1>4. Dropped(Current, o) = Picture(owner, fort, offers', stock, active, ended, winner)
  BY <1>1, DroppedPicture
<1>5. OnCancelOffer(Current, e) = Earn(Picture(owner, fort, offers', stock, active, ended, winner), p, AsGoods(o.give))
  BY <1>3, <1>4 DEF OnCancelOffer
<1>6. AsGoods(o.give) \in [Goods -> Nat]
  BY <1>3, BundleGoods DEF Offer
<1>7. [stock EXCEPT ![p] = [g \in Goods |-> @[g] + AsGoods(o.give)[g]]] = stock'
  BY <1>1, <1>6, EarnedInFull
<1>8. e \in Message
  BY <1>3 DEF Message, OfferEvent
<1>. QED  BY <1>1, <1>2, <1>5, <1>7, <1>8, EarnPicture DEF Done

-----------------------------------------------------------------------------
(* The income of a round *)

\* SetToSeq lists every member of a finite set once.
LEMMA InSequence ==
  ASSUME NEW S, IsFiniteSet(S)
  PROVE  /\ SetToSeq(S) \in Seq(S) /\ Len(SetToSeq(S)) = Cardinality(S) /\ Cardinality(S) \in Nat
         /\ DOMAIN SetToSeq(S) = 1 .. Cardinality(S)
         /\ SetToSeq(S) \in Bijection(1 .. Cardinality(S), S)
<1> DEFINE n == Cardinality(S)
           f == SetToSeq(S)
<1>1. n \in Nat /\ ExistsBijection(1 .. n, S)
  BY FS_CardinalityType
<1>2. PICK b : b \in Bijection(1 .. n, S)
  BY <1>1 DEF ExistsBijection
<1>3. b \in [1 .. n -> S] /\ IsInjective(b)
  BY <1>2 DEF Bijection, Injection
<1>4. f \in [1 .. n -> S] /\ IsInjective(f)
  BY <1>3 DEF SetToSeq
<1>5. f \in Injection(1 .. n, S)
  BY <1>4 DEF Injection
<1>6. f \in Surjection(1 .. n, S)
  <2>1. IsFiniteSet(1 .. n) /\ Cardinality(1 .. n) = n
    BY <1>1, FS_Interval
  <2> HIDE DEF f
  <2>. QED  BY <1>5, <2>1, FS_Injection
<1> HIDE DEF f
<1>7. f \in Seq(S) /\ Len(f) = n /\ DOMAIN f = 1 .. n
  BY <1>1, <1>4
<1>. QED  BY <1>1, <1>5, <1>6, <1>7 DEF Bijection, f

\* The places of f that have the value q, up to m, and how their number grows.
Places(f, q, m) == { i \in 1 .. m : f[i] = q }

LEMMA CountUp ==
  ASSUME NEW f, NEW q, NEW k \in Nat
  PROVE  /\ Cardinality(Places(f, q, k)) \in Nat
         /\ Cardinality(Places(f, q, k + 1))
              = Cardinality(Places(f, q, k)) + (IF f[k + 1] = q THEN 1 ELSE 0)
<1> DEFINE S(m) == Places(f, q, m)
<1>1. IsFiniteSet(1 .. k) /\ S(k) \subseteq 1 .. k
  BY FS_Interval DEF Places
<1>2. IsFiniteSet(S(k)) /\ Cardinality(S(k)) \in Nat
  BY <1>1, FS_Subset, FS_CardinalityType
<1>3. CASE f[k + 1] = q
  <2>1. S(k + 1) = S(k) \cup {k + 1} /\ k + 1 \notin S(k)
    BY <1>3 DEF Places
  <2>. QED  BY <1>2, <1>3, <2>1, FS_AddElement
<1>4. CASE f[k + 1] # q
  <2>1. S(k + 1) = S(k)
    BY <1>4 DEF Places
  <2>. QED  BY <1>2, <1>4, <2>1
<1>. QED  BY <1>3, <1>4

\* The tiles and the players that the income events are about.
Forts   == { t \in Tiles : fort[t] # Nobody }
Earners == { p \in Players : \E w \in Wares : RoundIncome(p, w) > 0 }

FortEvents == [i \in DOMAIN SetToSeq(Forts) |-> FortIncome(fort[SetToSeq(Forts)[i]])]
TileEvents ==
  [i \in DOMAIN SetToSeq(Earners) |->
     TileIncome(SetToSeq(Earners)[i], RoundIncome(SetToSeq(Earners)[i], "wood"),
                RoundIncome(SetToSeq(Earners)[i], "stone"))]

\* The stock once the points of all forts are added.
Taxed == [p \in Players |-> [g \in Goods |-> stock[p][g] + (IF g = "vp" THEN RoundIncome(p, g) ELSE 0)]]

\* Every fort counts once for the player that built it.
LEMMA FortsAreCounted ==
  ASSUME NEW p \in Players
  PROVE  LET f == SetToSeq(Forts)
         IN  Cardinality({ i \in 1 .. Cardinality(Forts) : fort[f[i]] = p }) = RoundIncome(p, "vp")
<1> DEFINE f == SetToSeq(Forts)
           n == Cardinality(Forts)
           I == { i \in 1 .. n : fort[f[i]] = p }
           T == { t \in Tiles : fort[t] = p }
           b == [i \in I |-> f[i]]
<1>1. IsFiniteSet(Forts) /\ Forts \subseteq Tiles
  BY BoardAssumption, FS_Subset DEF Forts
<1>2. n \in Nat /\ f \in Bijection(1 .. n, Forts)
  BY <1>1, InSequence
<1> HIDE DEF f, n
<1>3. /\ f \in [1 .. n -> Forts]
      /\ \A i, j \in 1 .. n : f[i] = f[j] => i = j
      /\ \A t \in Forts : \E i \in 1 .. n : f[i] = t
  BY <1>2 DEF Bijection, Injection, Surjection, IsInjective
<1>4. b \in Bijection(I, T)
  <2>1. b \in [I -> T] /\ \A i, j \in I : b[i] = b[j] => i = j
    BY <1>1, <1>3
  <2>2. ASSUME NEW t \in T  PROVE \E i \in I : b[i] = t
    <3>1. t \in Forts
      BY <2>2, RosterAssumption DEF Forts
    <3>2. PICK i \in 1 .. n : f[i] = t
      BY <1>3, <3>1
    <3>. QED  BY <3>2
  <2> HIDE DEF b, I, T
  <2>. QED  BY <2>1, <2>2, Zenon DEF Bijection, Injection, Surjection, IsInjective
<1>5. IsFiniteSet(I)
  BY <1>2, FS_Interval, FS_Subset
<1>6. Cardinality(T) = Cardinality(I)
  <2> HIDE DEF b, I, T
  <2>. QED  BY <1>4, <1>5, FS_Bijection DEF ExistsBijection
<1>. QED  BY <1>6 DEF RoundIncome, f, n

\* The events of the forts add their points, one by one.
LEMMA FortsAreTold ==
  ASSUME TypeOK, NEW a, NEW e, NEW w
  PROVE  /\ FortEvents \in Seq(Message)
         /\ Becomes(Picture(owner, fort, offers, stock, a, e, w), FortEvents,
                    Picture(owner, fort, offers, Taxed, a, e, w))
<1> DEFINE f == SetToSeq(Forts)
           n == Cardinality(Forts)
           C(p, k) == Cardinality({ i \in 1 .. k : fort[f[i]] = p })
           Row(p, k) == [g \in Goods |-> stock[p][g] + (IF g = "vp" THEN C(p, k) ELSE 0)]
           Stock(k) == [p \in Players |-> Row(p, k)]
           Pic(s) == Picture(owner, fort, offers, s, a, e, w)
           h == [k \in 0 .. n |-> Pic(Stock(k))]
<1>1. IsFiniteSet(Forts) /\ Forts \subseteq Tiles
  BY BoardAssumption, FS_Subset DEF Forts
<1>2. n \in Nat /\ f \in Seq(Forts) /\ Len(f) = n /\ DOMAIN f = 1 .. n
  BY <1>1, InSequence
<1>3. \A p : \A k \in Nat : C(p, k) \in Nat /\ C(p, k + 1) = C(p, k) + (IF fort[f[k + 1]] = p THEN 1 ELSE 0)
  <2> TAKE p
  <2> DEFINE F == [i \in Nat |-> fort[f[i]]]
             D(k) == Cardinality(Places(F, p, k))
  <2> HIDE DEF f
  <2>1. \A k \in Nat : C(p, k) = D(k)
    <3> TAKE k \in Nat
    <3>1. Places(F, p, k) = { i \in 1 .. k : fort[f[i]] = p }
      BY DEF Places
    <3>. QED  BY <3>1
  <2>2. \A k \in Nat : F[k + 1] = fort[f[k + 1]]
    OBVIOUS
  <2> HIDE DEF F, C
  <2>3. \A k \in Nat : D(k) \in Nat /\ D(k + 1) = D(k) + (IF F[k + 1] = p THEN 1 ELSE 0)
    BY CountUp
  <2> HIDE DEF D
  <2>. QED  BY <2>1, <2>2, <2>3
<1>4. \A p : C(p, 0) = 0
  <2> TAKE p
  <2>1. { i \in 1 .. 0 : fort[f[i]] = p } = {}
    OBVIOUS
  <2>. QED  BY <2>1, FS_EmptySet
<1>5. \A p \in Players : C(p, n) = RoundIncome(p, "vp")
  BY FortsAreCounted
<1> HIDE DEF f, n, C
<1>6. \A i \in 1 .. n : fort[f[i]] \in Players
  BY <1>1, <1>2 DEF Forts, TypeOK
<1>7. FortEvents = [i \in 1 .. n |-> FortIncome(fort[f[i]])]
  BY <1>2 DEF FortEvents, f
<1>8. FortEvents \in Seq(Message) /\ Len(FortEvents) = n
  <2>1. \A i \in 1 .. n : FortIncome(fort[f[i]]) \in Message
    BY <1>6 DEF FortIncome, Message
  <2>. QED  BY <1>2, <1>7, <2>1
<1>9. stock \in [Players -> [Goods -> Nat]]
  BY DEF TypeOK
<1>10. h[0] = Pic(stock)
  <2>1. \A p \in Players : Row(p, 0) = stock[p]
    BY <1>4, <1>9
  <2>2. Stock(0) = stock
    <3> HIDE DEF Row
    <3>. QED  BY <1>9, <2>1
  <2>3. h[0] = Pic(Stock(0))
    BY <1>2
  <2>. QED  BY <2>2, <2>3
<1>11. h[n] = Pic(Taxed)
  <2>1. \A p \in Players, g \in Goods : (IF g = "vp" THEN C(p, n) ELSE 0) = (IF g = "vp" THEN RoundIncome(p, g) ELSE 0)
    BY <1>5
  <2>2. Stock(n) = Taxed
    BY <2>1 DEF Taxed
  <2>3. h[n] = Pic(Stock(n))
    BY <1>2
  <2>. QED  BY <2>2, <2>3
<1>12. \A i \in 1 .. n : h[i] = ApplyEvent(h[i - 1], FortEvents[i])
  <2> TAKE i \in 1 .. n
  <2> DEFINE p == fort[f[i]]
             point == [NoGoods EXCEPT !["vp"] = 1]
             F == [g \in Goods |-> Stock(i - 1)[p][g] + point[g]]
  <2>1. i - 1 \in 0 .. n /\ i - 1 \in Nat /\ i \in 0 .. n /\ i - 1 + 1 = i
    BY <1>2
  <2>2. h[i - 1] = Pic(Stock(i - 1)) /\ h[i] = Pic(Stock(i))
    BY <2>1
  <2>3. FortEvents[i] = FortIncome(p) /\ p \in Players
    BY <1>6, <1>7
  <2>4. /\ \A q \in Players : C(q, i - 1) \in Nat /\ C(q, i) \in Nat
        /\ C(p, i) = C(p, i - 1) + 1
        /\ \A q \in Players \ {p} : C(q, i) = C(q, i - 1)
    <3>1. \A q : C(q, i) = C(q, i - 1) + (IF fort[f[i]] = q THEN 1 ELSE 0)
                 /\ C(q, i - 1) \in Nat
      BY <1>3, <2>1
    <3>. QED  BY <3>1
  <2> HIDE DEF p
  <2>5. \A g \in Goods : point[g] = IF g = "vp" THEN 1 ELSE 0
    BY DEF NoGoods
  <2>6. \A q \in Players : Row(q, i - 1) \in [Goods -> Nat] /\ Row(q, i) \in [Goods -> Nat]
    BY <1>9, <2>4
  <2>7. \A g \in Goods : F[g] = Stock(i)[p][g]
    <3> TAKE g \in Goods
    <3>1. F[g] = Row(p, i - 1)[g] + point[g] /\ Stock(i)[p][g] = Row(p, i)[g]
      BY <2>3
    <3>2. stock[p][g] \in Nat /\ C(p, i - 1) \in Nat
      BY <1>9, <2>3, <2>4
    <3>. QED  BY <2>4, <2>5, <3>1, <3>2
  <2>8. \A q \in Players \ {p} : \A g \in Goods : Stock(i)[q][g] = Stock(i - 1)[q][g]
    BY <2>4
  <2>9. F = [g \in Goods |-> F[g]]
    OBVIOUS
  <2>10. Stock(i - 1) \in [Players -> [Goods -> Nat]] /\ Stock(i) \in [Players -> [Goods -> Nat]]
    <3> HIDE DEF Row
    <3>. QED  BY <2>6
  <2>11. [Stock(i - 1) EXCEPT ![p] = [g \in Goods |-> @[g] + point[g]]] = Stock(i)
    <3> DEFINE s == Stock(i - 1)
               u == Stock(i)
    <3> HIDE DEF s, u
    <3>1. [s EXCEPT ![p] = F] = u
      <4>1. \A g \in Goods : F[g] = u[p][g]
        BY <2>7 DEF u
      <4>2. \A q \in Players \ {p} : \A g \in Goods : u[q][g] = s[q][g]
        BY <2>8 DEF s, u
      <4>3. s \in [Players -> [Goods -> Nat]] /\ u \in [Players -> [Goods -> Nat]]
        BY <2>10 DEF s, u
      <4> HIDE DEF F
      <4>. QED  BY <2>3, <2>9, <4>1, <4>2, <4>3, RowIsEnough
    <3>2. [s EXCEPT ![p] = [g \in Goods |-> @[g] + point[g]]] = [s EXCEPT ![p] = F]
      BY DEF s
    <3>. QED  BY <3>1, <3>2 DEF s, u
  <2>12. ApplyEvent(Pic(Stock(i - 1)), FortIncome(p)) = Earn(Pic(Stock(i - 1)), p, point)
    <3> DEFINE v == Pic(Stock(i - 1))
    <3> HIDE DEF v
    <3>1. ApplyEvent(v, FortIncome(p)) = Earn(v, p, point)
      BY DEF ApplyEvent, FortIncome
    <3>. QED  BY <3>1 DEF v
  <2>13. Earn(Pic(Stock(i - 1)), p, point) = Pic(Stock(i))
    <3> DEFINE s == Stock(i - 1)
               u == Stock(i)
    <3>1. [s EXCEPT ![p] = [g \in Goods |-> @[g] + point[g]]] = u
      BY <2>11
    <3> HIDE DEF s, u, point
    <3>2. Earn(Pic(s), p, point) = Pic(u)
      BY <3>1, EarnPicture
    <3>. QED  BY <3>2 DEF s, u
  <2>. QED  BY <2>2, <2>3, <2>12, <2>13
<1> HIDE DEF h
<1>. QED  BY <1>8, <1>10, <1>11, <1>12 DEF Becomes

\* The stock at the end of the round.
Harvested == [p \in Players |-> [g \in Goods |-> stock[p][g] + RoundIncome(p, g)]]

\* The events of the tiles add the wares of every player that earns some.
LEMMA TilesAreTold ==
  ASSUME TypeOK, NEW a, NEW e, NEW w
  PROVE  /\ TileEvents \in Seq(Message)
         /\ Becomes(Picture(owner, fort, offers, Taxed, a, e, w), TileEvents,
                    Picture(owner, fort, offers, Harvested, a, e, w))
<1> DEFINE f == SetToSeq(Earners)
           n == Cardinality(Earners)
           Had(p, k) == \E i \in 1 .. k : f[i] = p
           Row(p, k) == [g \in Goods |-> Taxed[p][g] + (IF g \in Wares /\ Had(p, k) THEN RoundIncome(p, g) ELSE 0)]
           Stock(k) == [p \in Players |-> Row(p, k)]
           Pic(s) == Picture(owner, fort, offers, s, a, e, w)
           h == [k \in 0 .. n |-> Pic(Stock(k))]
<1>1. IsFiniteSet(Earners) /\ Earners \subseteq Players
  BY RosterAssumption, FS_Subset DEF Earners
<1>2. n \in Nat /\ f \in Seq(Earners) /\ Len(f) = n /\ DOMAIN f = 1 .. n /\ f \in Bijection(1 .. n, Earners)
  BY <1>1, InSequence
<1> HIDE DEF f, n
<1>3. /\ f \in [1 .. n -> Earners]
      /\ \A i, j \in 1 .. n : f[i] = f[j] => i = j
      /\ \A p \in Earners : \E i \in 1 .. n : f[i] = p
  BY <1>2 DEF Bijection, Injection, Surjection, IsInjective
<1>4. \A p \in Players, g \in Goods : RoundIncome(p, g) \in Nat
  BY RoundIncomeType
<1>5. TileEvents = [i \in 1 .. n |-> TileIncome(f[i], RoundIncome(f[i], "wood"), RoundIncome(f[i], "stone"))]
  BY <1>2 DEF TileEvents, f
<1>6. TileEvents \in Seq(Message) /\ Len(TileEvents) = n
  <2>1. ASSUME NEW i \in 1 .. n
        PROVE  TileIncome(f[i], RoundIncome(f[i], "wood"), RoundIncome(f[i], "stone")) \in Message
    <3>1. f[i] \in Players /\ RoundIncome(f[i], "wood") \in Nat /\ RoundIncome(f[i], "stone") \in Nat
      BY <1>1, <1>3, <1>4 DEF Goods, Wares
    <3>. QED  BY <3>1 DEF TileIncome, Message
  <2>. QED  BY <1>2, <1>5, <2>1
<1>7. Taxed \in [Players -> [Goods -> Nat]]
  <2>1. \A p \in Players, g \in Goods : stock[p][g] + (IF g = "vp" THEN RoundIncome(p, g) ELSE 0) \in Nat
    BY <1>4 DEF TypeOK
  <2>. QED  BY <2>1 DEF Taxed
<1>8. h[0] = Pic(Taxed)
  <2>1. \A p \in Players : Row(p, 0) = Taxed[p]
    BY <1>7
  <2>2. Stock(0) = Taxed
    <3> HIDE DEF Row
    <3>. QED  BY <1>7, <2>1
  <2>3. h[0] = Pic(Stock(0))
    BY <1>2
  <2>. QED  BY <2>2, <2>3
<1>9. h[n] = Pic(Harvested)
  <2>1. \A p \in Players, g \in Goods : Row(p, n)[g] = stock[p][g] + RoundIncome(p, g)
    <3> TAKE p \in Players, g \in Goods
    <3>1. /\ Taxed[p][g] = stock[p][g] + (IF g = "vp" THEN RoundIncome(p, g) ELSE 0)
          /\ Row(p, n)[g] = Taxed[p][g] + (IF g \in Wares /\ Had(p, n) THEN RoundIncome(p, g) ELSE 0)
      BY DEF Taxed
    <3>2. stock[p][g] \in Nat /\ RoundIncome(p, g) \in Nat
      BY <1>4 DEF TypeOK
    <3>3. CASE g = "vp"
      BY <3>1, <3>2, <3>3 DEF Wares
    <3>4. CASE g \in Wares
      <4>1. Had(p, n) \/ RoundIncome(p, g) = 0
        <5>1. CASE p \in Earners
          BY <1>3, <5>1
        <5>2. CASE p \notin Earners
          BY <3>2, <3>4, <5>2 DEF Earners
        <5>. QED  BY <5>1, <5>2
      <4>. QED  BY <3>1, <3>2, <3>4, <4>1 DEF Wares
    <3>. QED  BY <3>3, <3>4 DEF Goods
  <2>2. Stock(n) = Harvested
    <3>1. \A p \in Players : Row(p, n) = [g \in Goods |-> stock[p][g] + RoundIncome(p, g)]
      <4> TAKE p \in Players
      <4>1. Row(p, n) = [g \in Goods |-> Row(p, n)[g]]
        OBVIOUS
      <4>2. \A g \in Goods : Row(p, n)[g] = stock[p][g] + RoundIncome(p, g)
        BY <2>1
      <4> HIDE DEF Row
      <4>. QED  BY <4>1, <4>2
    <3> HIDE DEF Row
    <3>. QED  BY <3>1 DEF Harvested
  <2>3. h[n] = Pic(Stock(n))
    BY <1>2
  <2>. QED  BY <2>2, <2>3
<1>10. \A i \in 1 .. n : h[i] = ApplyEvent(h[i - 1], TileEvents[i])
  <2> TAKE i \in 1 .. n
  <2> DEFINE p == f[i]
             ev == TileIncome(p, RoundIncome(p, "wood"), RoundIncome(p, "stone"))
             gain == [NoGoods EXCEPT !["wood"] = ev.wood, !["stone"] = ev.stone]
             F == [g \in Goods |-> Stock(i - 1)[p][g] + gain[g]]
  <2>1. i - 1 \in 0 .. n /\ i - 1 \in Nat /\ i \in 0 .. n /\ i - 1 + 1 = i
    BY <1>2
  <2>2. h[i - 1] = Pic(Stock(i - 1)) /\ h[i] = Pic(Stock(i))
    BY <2>1
  <2>3. TileEvents[i] = ev /\ p \in Players
    BY <1>1, <1>3, <1>5
  <2>4. Had(p, i) /\ ~ Had(p, i - 1) /\ \A q \in Players \ {p} : Had(q, i) <=> Had(q, i - 1)
    <3>1. Had(p, i)
      BY <1>2
    <3>2. ~ Had(p, i - 1)
      BY <1>2, <1>3
    <3>3. \A q \in Players \ {p} : Had(q, i) <=> Had(q, i - 1)
      BY <1>2
    <3>. QED  BY <3>1, <3>2, <3>3
  <2>5. \A g \in Goods : gain[g] = IF g \in Wares THEN RoundIncome(p, g) ELSE 0
    BY DEF NoGoods, Goods, Wares, TileIncome
  <2> HIDE DEF Had, gain, ev, p
  <2>6. \A q \in Players, k \in Nat : Row(q, k) \in [Goods -> Nat]
    BY <1>4, <1>7
  <2>7. \A g \in Goods : F[g] = Stock(i)[p][g]
    <3> TAKE g \in Goods
    <3>1. F[g] = Row(p, i - 1)[g] + gain[g] /\ Stock(i)[p][g] = Row(p, i)[g]
      BY <2>3
    <3>2. Taxed[p][g] \in Nat /\ RoundIncome(p, g) \in Nat
      BY <1>4, <1>7, <2>3
    <3>3. Row(p, i - 1)[g] = Taxed[p][g] + 0
      BY <2>4
    <3>4. Row(p, i)[g] = Taxed[p][g] + gain[g]
      BY <2>4, <2>5
    <3>5. gain[g] \in Nat
      BY <2>5, <3>2
    <3> HIDE DEF F, Stock, Row
    <3>. QED  BY <3>1, <3>2, <3>3, <3>4, <3>5
  <2>8. \A q \in Players \ {p} : \A g \in Goods : Stock(i)[q][g] = Stock(i - 1)[q][g]
    BY <2>4
  <2>9. F = [g \in Goods |-> F[g]]
    OBVIOUS
  <2>10. Stock(i - 1) \in [Players -> [Goods -> Nat]] /\ Stock(i) \in [Players -> [Goods -> Nat]]
    <3> HIDE DEF Row
    <3>. QED  BY <2>1, <2>6, <1>2
  <2> DEFINE s == Stock(i - 1)
             u == Stock(i)
  <2>11. [s EXCEPT ![p] = [g \in Goods |-> @[g] + gain[g]]] = u
    <3>1. \A g \in Goods : F[g] = u[p][g]
      BY <2>7
    <3>2. \A q \in Players \ {p} : \A g \in Goods : u[q][g] = s[q][g]
      BY <2>8
    <3>3. s \in [Players -> [Goods -> Nat]] /\ u \in [Players -> [Goods -> Nat]]
      BY <2>10
    <3>4. [s EXCEPT ![p] = [g \in Goods |-> @[g] + gain[g]]] = [s EXCEPT ![p] = F]
      <4> HIDE DEF Stock
      <4>. QED  OBVIOUS
    <3> HIDE DEF F, s, u
    <3>5. [s EXCEPT ![p] = F] = u
      BY <2>3, <2>9, <3>1, <3>2, <3>3, RowIsEnough
    <3>. QED  BY <3>4, <3>5
  <2>12. ApplyEvent(Pic(s), ev) = Earn(Pic(s), p, gain)
    <3> DEFINE v == Pic(s)
    <3> HIDE DEF v
    <3>1. ev.type = "tile-income" /\ ev.player = p
      BY DEF ev, TileIncome
    <3>2. ApplyEvent(v, ev) = Earn(v, ev.player, [NoGoods EXCEPT !["wood"] = ev.wood, !["stone"] = ev.stone])
      BY <3>1 DEF ApplyEvent
    <3>. QED  BY <3>1, <3>2 DEF v, gain
  <2> HIDE DEF s, u
  <2>13. Earn(Pic(s), p, gain) = Pic(u)
    BY <2>11, EarnPicture
  <2>. QED  BY <2>2, <2>3, <2>12, <2>13 DEF s, u
<1> HIDE DEF h
<1>. QED  BY <1>6, <1>8, <1>9, <1>10 DEF Becomes

\* The events of a turn: the next player, and the income if the round ends.
LEMMA EndTurnIsTold ==
  ASSUME TypeOK, NEW p \in Players, EndTurn(p)
  PROVE  EndTurnEvents \in Seq(Message) /\ Becomes(Current, EndTurnEvents, Done)
<1> DEFINE q == NextPlayer
           Pic(s, a) == Picture(owner, fort, offers, s, a, ended, winner)
           first == <<TurnEnded(q)>>
           over == <<RoundEnded(round)>>
<1>1. /\ active' = q /\ UNCHANGED <<owner, fort, offers>>
      /\ stock' = IF NewRound THEN Harvested ELSE stock
  BY DEF EndTurn, land, market, Harvested
<1>2. q \in Players /\ round \in Nat
  BY NextPlayerType DEF TypeOK
<1> HIDE DEF q
<1>3. TurnEnded(q) \in Message /\ RoundEnded(round) \in Message
  BY <1>2 DEF TurnEnded, RoundEnded, Message
<1>4. first \in Seq(Message) /\ over \in Seq(Message) /\ << >> \in Seq(Message)
  BY <1>3
<1>5. Becomes(Pic(stock, active), first, Pic(stock, q))
  <2> DEFINE v == Pic(stock, active)
  <2>1. [v EXCEPT !.active = q] = Pic(stock, q)
    BY DEF Picture
  <2> HIDE DEF v
  <2>2. ApplyEvent(v, TurnEnded(q)) = [v EXCEPT !.active = q]
    BY DEF ApplyEvent, TurnEnded
  <2>3. Becomes(v, first, ApplyEvent(v, TurnEnded(q)))
    BY BecomesByOne
  <2>. QED  BY <2>1, <2>2, <2>3 DEF v
<1>6. Becomes(Pic(stock, q), over, Pic(stock, q))
  <2> DEFINE v == Pic(stock, q)
  <2> HIDE DEF v
  <2>1. ApplyEvent(v, RoundEnded(round)) = v
    BY DEF ApplyEvent, RoundEnded
  <2>2. Becomes(v, over, ApplyEvent(v, RoundEnded(round)))
    BY BecomesByOne
  <2>. QED  BY <2>1, <2>2 DEF v
<1>7. IncomeEvents = FortEvents \o TileEvents
  BY DEF IncomeEvents, FortEvents, TileEvents, Forts, Earners
<1>8. /\ FortEvents \in Seq(Message) /\ TileEvents \in Seq(Message)
      /\ Becomes(Pic(stock, q), FortEvents, Pic(Taxed, q))
      /\ Becomes(Pic(Taxed, q), TileEvents, Pic(Harvested, q))
  BY FortsAreTold, TilesAreTold
<1>9. IncomeEvents \in Seq(Message) /\ Becomes(Pic(stock, q), IncomeEvents, Pic(Harvested, q))
  <2> DEFINE v == Pic(stock, q)
             w == Pic(Taxed, q)
             x == Pic(Harvested, q)
  <2>1. Becomes(v, FortEvents, w) /\ Becomes(w, TileEvents, x)
    BY <1>8
  <2> HIDE DEF v, w, x
  <2>2. Becomes(v, FortEvents \o TileEvents, x)
    BY <1>8, <2>1, BecomesByMore
  <2>3. FortEvents \o TileEvents \in Seq(Message)
    BY <1>8
  <2>. QED  BY <1>7, <2>2, <2>3 DEF v, x
<1> DEFINE rest == IF NewRound THEN over \o IncomeEvents ELSE << >>
           last == IF NewRound THEN Harvested ELSE stock
<1>10. rest \in Seq(Message) /\ Becomes(Pic(stock, q), rest, Pic(last, q))
  <2>1. CASE NewRound
    <3> DEFINE v == Pic(stock, q)
               x == Pic(Harvested, q)
    <3>1. Becomes(v, over, v) /\ Becomes(v, IncomeEvents, x)
      BY <1>6, <1>9
    <3> HIDE DEF v, x, over
    <3>2. Becomes(v, over \o IncomeEvents, x)
      BY <1>4, <1>9, <3>1, BecomesByMore
    <3>3. over \o IncomeEvents \in Seq(Message)
      BY <1>4, <1>9
    <3>. QED  BY <2>1, <3>2, <3>3 DEF v, x
  <2>2. CASE ~ NewRound
    BY <1>4, <2>2, BecomesByNothing
  <2>. QED  BY <2>1, <2>2
<1>11. EndTurnEvents = first \o rest
  BY DEF EndTurnEvents, q
<1>12. Current = Pic(stock, active) /\ Done = Pic(last, q)
  BY <1>1 DEF Current, Done
<1> HIDE DEF Pic, first, rest, last
<1>. QED  BY <1>4, <1>5, <1>10, <1>11, <1>12, BecomesByMore

-----------------------------------------------------------------------------
(* The inductive invariant *)

\* While the game runs, the events under way lead the store to its view; once
\* it is over, they tell so.
Followed ==
  /\ channel \in Seq(Message)
  /\ ~ ended => Becomes(shown, channel, Current)
  /\ ended => \E w : Becomes(shown, channel, w) /\ w.ended = TRUE

\* What the verdict does to a view.
Judge(v, x, y) == [v EXCEPT !.ended = x, !.winner = y]

\* The verdict changes nothing else.
LEMMA VerdictPicture ==
  ASSUME NEW o, NEW f, NEW of, NEW st, NEW a, NEW e, NEW w, NEW x, NEW y
  PROVE  Judge(Picture(o, f, of, st, a, e, w), x, y) = Picture(o, f, of, st, a, x, y)
<1> DEFINE v == Picture(o, f, of, st, a, e, w)
           u == Picture(o, f, of, st, a, x, w)
<1>1. [v EXCEPT !.ended = x] = u
  BY DEF Picture
<1>2. [u EXCEPT !.winner = y] = Picture(o, f, of, st, a, x, y)
  BY DEF Picture
<1>3. [v EXCEPT !.ended = x, !.winner = y] = [[v EXCEPT !.ended = x] EXCEPT !.winner = y]
  <2> HIDE DEF v
  <2>. QED  OBVIOUS
<1> HIDE DEF u, v
<1>4. [v EXCEPT !.ended = x, !.winner = y] = [u EXCEPT !.winner = y]
  BY <1>1, <1>3
<1>. QED  BY <1>2, <1>4 DEF v, Judge

\* The verdict is the last thing told (store/game.ts:203-208).
LEMMA VerdictIsTold ==
  ASSUME TypeOK, winner' \in Players \cup {Nobody}, ~ ended => winner = Nobody, Followed, ~ ended,
         NEW es \in Seq(Message), Becomes(Current, es, Done), JudgeVictory, Announce(es), shown' = shown
  PROVE  /\ channel' \in Seq(Message) /\ Becomes(shown', channel', Current')
         /\ Current'.ended = ended'
<1> DEFINE ge == [type |-> "game-ended", player |-> winner']
           tail == IF ended' THEN <<ge>> ELSE << >>
           now == Picture(owner', fort', offers', stock', active', ended', winner')
           mid == Picture(owner', fort', offers', stock', active', ended, winner)
<1>1. channel' = (channel \o es) \o tail
  BY DEF Announce
<1>2. Current' = now /\ Done = mid
  BY DEF Current, Done
<1>3. tail \in Seq(Message)
  <2>1. ge \in Message
    BY DEF Message
  <2>. QED  BY <2>1
<1>4. ended' \in BOOLEAN /\ ended = FALSE
  BY DEF JudgeVictory, TypeOK
<1>5. Becomes(mid, tail, now)
  <2>1. CASE ended'
    <3>1. Judge(mid, ended', winner') = now
      BY VerdictPicture
    <3>2. ApplyEvent(mid, ge) = Judge(mid, ended', winner')
      <4> HIDE DEF mid
      <4>1. ended' = TRUE
        BY <1>4, <2>1
      <4>2. ApplyEvent(mid, ge) = [mid EXCEPT !.ended = TRUE, !.winner = winner']
        BY DEF ApplyEvent
      <4>. QED  BY <4>1, <4>2 DEF Judge
    <3>3. Becomes(mid, <<ge>>, ApplyEvent(mid, ge))
      BY BecomesByOne
    <3>. QED  BY <2>1, <3>1, <3>2, <3>3
  <2>2. CASE ~ ended'
    <3>1. winner' = winner
      BY <1>4, <2>2 DEF JudgeVictory
    <3>2. mid = now
      BY <1>4, <2>2, <3>1
    <3>. QED  BY <2>2, <3>2, BecomesByNothing
  <2>. QED  BY <2>1, <2>2
<1>6. now.ended = ended'
  BY DEF Picture
<1> HIDE DEF tail, now, mid
<1>7. channel \in Seq(Message) /\ Becomes(shown, channel, Current)
  BY DEF Followed
<1>8. channel \o es \in Seq(Message) /\ Becomes(shown, channel \o es, mid)
  BY <1>2, <1>7, BecomesByMore
<1>9. (channel \o es) \o tail \in Seq(Message) /\ Becomes(shown, (channel \o es) \o tail, now)
  <2> DEFINE c == channel \o es
  <2>1. c \in Seq(Message) /\ Becomes(shown, c, mid)
    BY <1>8
  <2> HIDE DEF c
  <2>2. Becomes(shown, c \o tail, now)
    BY <1>3, <1>5, <2>1, BecomesByMore
  <2>3. c \o tail \in Seq(Message)
    BY <1>3, <2>1
  <2>. QED  BY <2>2, <2>3 DEF c
<1>. QED  BY <1>1, <1>2, <1>6, <1>9

\* A command that was executed, before or behind the end.
LEMMA JudgedFollowed ==
  ASSUME RulesInv, RulesInv', Followed, shown' = shown,
         NEW es \in Seq(Message), Becomes(Current, es, Done), Judged(es)
  PROVE  Followed' /\ (~ ended => Becomes(shown', channel', Current'))
<1>1. JudgeVictory /\ Announce(es)
  BY DEF Judged
<1>2. CASE ended
  <2>1. ended' /\ channel' = channel
    BY <1>1, <1>2 DEF JudgeVictory, Announce
  <2>. QED  BY <1>2, <2>1 DEF Followed
<1>3. CASE ~ ended
  <2>1. TypeOK /\ winner = Nobody /\ winner' \in Players \cup {Nobody} /\ ended' \in BOOLEAN
    BY <1>3 DEF RulesInv, VerdictInTime, TypeOK
  <2>2. /\ channel' \in Seq(Message) /\ Becomes(shown', channel', Current')
        /\ Current'.ended = ended'
    BY <1>1, <1>3, <2>1, VerdictIsTold
  <2>. QED  BY <1>3, <2>1, <2>2 DEF Followed
<1>. QED  BY <1>2, <1>3

\* Whatever a player sends, the events of it lead on.
LEMMA CommandFollowed ==
  ASSUME RulesInv, RulesInv', Followed, shown' = shown, NEW p \in Players, CommandOf(p)
  PROVE  Followed' /\ (~ ended => Becomes(shown', channel', Current'))
<1>0. TypeOK
  BY DEF RulesInv
<1>1. ASSUME NEW e \in Message, ApplyEvent(Current, e) = Done, Judged(<<e>>)
      PROVE  Followed' /\ (~ ended => Becomes(shown', channel', Current'))
  <2>1. <<e>> \in Seq(Message) /\ Becomes(Current, <<e>>, Done)
    BY <1>1, BecomesByOne
  <2>. QED  BY <1>1, <2>1, JudgedFollowed
<1>2. ASSUME NEW t \in Tiles, NEW roll \in 2 .. 12, ClaimTile(p, t, roll),
             Judged(<<TileClaimed(p, t, TerrainVP[Terrain[t]] + BonusVP(roll))>>)
      PROVE  Followed' /\ (~ ended => Becomes(shown', channel', Current'))
  BY <1>0, <1>1, <1>2, ClaimIsTold
<1>3. ASSUME NEW t \in Tiles, Fortify(p, t), Judged(<<Fortified(p, t)>>)
      PROVE  Followed' /\ (~ ended => Becomes(shown', channel', Current'))
  BY <1>0, <1>1, <1>3, FortifyIsTold
<1>4. ASSUME EndTurn(p), Judged(EndTurnEvents)
      PROVE  Followed' /\ (~ ended => Becomes(shown', channel', Current'))
  BY <1>0, <1>4, EndTurnIsTold, JudgedFollowed
<1>5. ASSUME NEW w \in Wares, Trade(p, w), Judged(<<Traded(p, w)>>)
      PROVE  Followed' /\ (~ ended => Becomes(shown', channel', Current'))
  BY <1>0, <1>1, <1>5, TradeIsTold
<1>6. ASSUME NEW give \in Bundles, NEW want \in Bundles, PostOffer(p, give, want),
             Judged(<<OfferEvent("post-offer", p, NewOffer(p, give, want))>>)
      PROVE  Followed' /\ (~ ended => Becomes(shown', channel', Current'))
  BY <1>0, <1>1, <1>6, PostIsTold
<1>7. ASSUME NEW o \in offers, AcceptOffer(p, o), Judged(<<OfferEvent("accept-offer", p, o)>>)
      PROVE  Followed' /\ (~ ended => Becomes(shown', channel', Current'))
  BY <1>0, <1>1, <1>7, AcceptIsTold
<1>8. ASSUME NEW o \in offers, CancelOffer(p, o), Judged(<<OfferEvent("cancel-offer", p, o)>>)
      PROVE  Followed' /\ (~ ended => Becomes(shown', channel', Current'))
  BY <1>0, <1>1, <1>8, CancelIsTold
<1>. QED  BY <1>2, <1>3, <1>4, <1>5, <1>6, <1>7, <1>8 DEF CommandOf

\* A click is a command, or refused.
LEMMA ClickFollowed ==
  ASSUME RulesInv, RulesInv', Followed, MyClick
  PROVE  Followed' /\ (~ ended => Becomes(shown', channel', Current'))
<1>1. MyCommand /\ shown' = shown
  BY DEF MyClick
<1>2. ASSUME UNCHANGED <<rules, channel>>
      PROVE  Followed' /\ (~ ended => Becomes(shown', channel', Current'))
  <2>1. /\ ended' = ended /\ channel' = channel /\ shown' = shown /\ Current' = Current
    BY <1>1, <1>2 DEF rules, land, market, turn, Current
  <2>. QED  BY <2>1 DEF Followed
<1>3. CommandOf(Me) \/ UNCHANGED <<rules, channel>>
  <2>1. ASSUME NEW t \in Claimable, NEW roll \in 2 .. 12,
               Click(MayClaim(Me, t), ClaimTile(Me, t, roll),
                     <<TileClaimed(Me, t, TerrainVP[Terrain[t]] + BonusVP(roll))>>)
        PROVE  CommandOf(Me) \/ UNCHANGED <<rules, channel>>
    <3>1. t \in Tiles
      BY DEF Claimable
    <3>. QED  BY <2>1, <3>1 DEF Click, CommandOf
  <2>2. ASSUME NEW t \in Fortifiable, Click(MayFortify(Me, t), Fortify(Me, t), <<Fortified(Me, t)>>)
        PROVE  CommandOf(Me) \/ UNCHANGED <<rules, channel>>
    <3>1. t \in Tiles
      BY DEF Fortifiable
    <3>. QED  BY <2>2, <3>1 DEF Click, CommandOf
  <2>3. ASSUME Click(MayEndTurn(Me), EndTurn(Me), EndTurnEvents)
        PROVE  CommandOf(Me) \/ UNCHANGED <<rules, channel>>
    BY <2>3 DEF Click, CommandOf
  <2>4. ASSUME NEW w \in Wares, Click(MayTrade(Me, w), Trade(Me, w), <<Traded(Me, w)>>)
        PROVE  CommandOf(Me) \/ UNCHANGED <<rules, channel>>
    BY <2>4 DEF Click, CommandOf
  <2>5. ASSUME NEW give \in Bundles, NEW want \in Bundles,
               Click(MayPost(Me, give, want), PostOffer(Me, give, want),
                     <<OfferEvent("post-offer", Me, NewOffer(Me, give, want))>>)
        PROVE  CommandOf(Me) \/ UNCHANGED <<rules, channel>>
    BY <2>5 DEF Click, CommandOf
  <2>6. ASSUME NEW o, Click(o \in offers /\ MayAccept(Me, o), AcceptOffer(Me, o),
                            <<OfferEvent("accept-offer", Me, o)>>)
        PROVE  CommandOf(Me) \/ UNCHANGED <<rules, channel>>
    BY <2>6 DEF Click, CommandOf
  <2>7. ASSUME NEW o, Click(o \in offers /\ MayCancel(Me, o), CancelOffer(Me, o),
                            <<OfferEvent("cancel-offer", Me, o)>>)
        PROVE  CommandOf(Me) \/ UNCHANGED <<rules, channel>>
    BY <2>7 DEF Click, CommandOf
  <2>. QED  BY <1>1, <2>1, <2>2, <2>3, <2>4, <2>5, <2>6, <2>7 DEF MyCommand
<1>. QED  BY <1>1, <1>2, <1>3, CommandFollowed, ClientAssumption

\* Every step keeps Followed, and the last command is told as well.
LEMMA FollowedNext ==
  ASSUME RulesInv, RulesInv', Followed, [ClientNext]_vars
  PROVE  Followed' /\ (~ ended => Becomes(shown', channel', Current'))
<1>1. CASE OthersCommand
  <2>1. shown' = shown /\ \E p \in Players : CommandOf(p)
    BY <1>1 DEF OthersCommand
  <2>. QED  BY <2>1, CommandFollowed
<1>2. CASE MyClick
  BY <1>2, ClickFollowed
<1>3. CASE TogglePage \/ UNCHANGED vars
  <2>1. ended' = ended /\ channel' = channel /\ shown' = shown /\ Current' = Current
    BY <1>3 DEF TogglePage, vars, rules, land, market, turn, Current
  <2>. QED  BY <2>1 DEF Followed
<1>4. CASE Receive
  <2>1. /\ channel # << >> /\ channel' = Tail(channel) /\ shown' = ApplyEvent(shown, Head(channel))
        /\ ended' = ended /\ Current' = Current
    BY <1>4 DEF Receive, rules, land, market, turn, Current
  <2>2. channel \in Seq(Message) /\ channel' \in Seq(Message)
    BY <2>1 DEF Followed
  <2>3. \A w : Becomes(shown, channel, w) => Becomes(shown', channel', w)
    BY <2>1, <2>2, BecomesByTheRest
  <2>. QED  BY <2>1, <2>2, <2>3 DEF Followed
<1>. QED  BY <1>1, <1>2, <1>3, <1>4 DEF ClientNext

\* Followed holds initially and every step keeps it.
LEMMA FollowedHolds == ClientSpec => []Followed
<1>1. ClientInit => Followed
  <2> SUFFICES ASSUME ClientInit PROVE Followed
    OBVIOUS
  <2>1. channel = << >> /\ shown = View /\ round = 1 /\ ended = FALSE
    BY DEF ClientInit, Init
  <2>2. View = Current
    BY <2>1 DEF View, Current, Picture
  <2>. QED  BY <2>1, <2>2, BecomesByNothing DEF Followed
<1>2. RulesInv /\ RulesInv' /\ Followed /\ [ClientNext]_vars => Followed'
  BY FollowedNext
<1>. QED  BY <1>1, <1>2, ClientInvariant, PTL DEF ClientSpec

\* What is on its way to the store makes it the view of the game, but for the round.
Rebuilds == \E w : Becomes(shown, channel, w) /\ SameView(w, View)

\* The events of a game rebuild its view, up to and including the verdict,
\* although the reducer repeats in the browser what the executors do on the
\* server (store/game.ts:70-211 against actions.ts): ClientFollows, with the
\* list of views between in place of the fold.
THEOREM EventsRebuildTheView == ClientSpec => [][~ ended => Rebuilds']_vars
<1>1. RulesInv /\ RulesInv' /\ Followed /\ [ClientNext]_vars => [~ ended => Rebuilds']_vars
  <2> SUFFICES ASSUME RulesInv, RulesInv', Followed, [ClientNext]_vars, ~ ended  PROVE Rebuilds'
    OBVIOUS
  <2>1. Becomes(shown', channel', Current')
    BY FollowedNext
  <2>2. SameView(Current', View')
    BY DEF SameView, Current, View, Picture
  <2>. QED  BY <2>1, <2>2 DEF Rebuilds
<1>. QED  BY <1>1, FollowedHolds, ClientInvariant, PTL DEF ClientSpec

\* On an up-to-date page what is offered is accepted, but for the cases the
\* page cannot know of (GamePage.tsx:190-195, Board.tsx:180-202,
\* TradePanel.tsx:159-170).
THEOREM OffersAreAccepted == ClientSpec => []OfferedIsAccepted
<1>1. RulesInv /\ Followed => OfferedIsAccepted
  <2> SUFFICES ASSUME RulesInv, Followed, UpToDate  PROVE OfferedIsAccepted
    BY DEF OfferedIsAccepted
  <2>1. channel = << >> /\ shown = Current
    <3>1. channel = << >> /\ ~ shown.ended
      BY DEF UpToDate, Playing
    <3>2. ~ ended
      <4> SUFFICES ASSUME ended PROVE FALSE
        OBVIOUS
      <4>1. PICK w : Becomes(shown, << >>, w) /\ w.ended = TRUE
        BY <3>1 DEF Followed
      <4>2. w = shown
        BY <4>1, BecomesByNothing
      <4>. QED  BY <3>1, <4>1, <4>2
    <3>. QED  BY <3>1, <3>2, BecomesByNothing DEF Followed
  <2>2. /\ shown.owner = owner /\ shown.fort = fort /\ shown.offers = offers
        /\ shown.stock = stock /\ shown.active = active
    BY <2>1 DEF Current, Picture
  <2>3. TypeOK /\ MarketSound /\ Me \in Players
    BY ClientAssumption DEF RulesInv
  <2>4. \A t \in Claimable : claimed \/ MayClaim(Me, t)
    BY <2>2 DEF Claimable, MayClaim, IsMyTurn
  <2>5. \A t \in Fortifiable : Holds(Me, FortPrice) => MayFortify(Me, t)
    BY <2>2 DEF Fortifiable, MayFortify, IsMyTurn
  <2>6. CanPass => MayEndTurn(Me)
    BY <2>2 DEF CanPass, MayEndTurn, IsMyTurn
  <2>7. \A w \in Wares : CanTrade(w) => MayTrade(Me, w) \/ (w = "stone" /\ leap)
    BY <2>2 DEF CanTrade, MayTrade, IsMyTurn, Mine
  <2>8. \A b \in Bundle : (\A w \in Wares : stock[Me][w] >= b[w]) => Holds(Me, AsGoods(b))
    <3> TAKE b \in Bundle
    <3> HAVE \A w \in Wares : stock[Me][w] >= b[w]
    <3> SUFFICES ASSUME NEW g \in Goods PROVE stock[Me][g] >= AsGoods(b)[g]
      BY DEF Holds
    <3>1. CASE g \in Wares
      BY <3>1 DEF AsGoods
    <3>2. CASE g \notin Wares
      <4>1. AsGoods(b)[g] = 0 /\ stock[Me][g] \in Nat
        BY <2>3, <3>2 DEF AsGoods, TypeOK
      <4>. QED  BY <4>1
    <3>. QED  BY <3>1, <3>2
  <2>9. \A o \in shown.offers :
          /\ CanAccept(o) => o \in offers /\ MayAccept(Me, o)
          /\ CanCancel(o) => o \in offers /\ MayCancel(Me, o)
    <3> TAKE o \in shown.offers
    <3>1. o \in offers /\ o.want \in Bundle
      BY <2>2, <2>3 DEF TypeOK, Offer
    <3>2. CanAccept(o) => MayAccept(Me, o)
      BY <2>2, <2>8, <3>1 DEF CanAccept, MayAccept, IsMyTurn, Mine
    <3>3. CanCancel(o) => MayCancel(Me, o)
      BY <2>2 DEF CanCancel, MayCancel, IsMyTurn
    <3>. QED  BY <3>1, <3>2, <3>3
  <2>10. \A give, want \in Bundles :
           CanPost(give, want) =>
             MayPost(Me, give, want) \/ ~ IsMyTurn \/ Cardinality(OffersOf(Me)) = MaxOffers
    <3> SUFFICES ASSUME NEW give \in Bundles, NEW want \in Bundles, CanPost(give, want), IsMyTurn,
                        Cardinality(OffersOf(Me)) # MaxOffers
                 PROVE  MayPost(Me, give, want)
      OBVIOUS
    <3>1. Holds(Me, AsGoods(give))
      <4>1. give \in Bundle
        BY BundlesAreBundles
      <4>2. \A w \in Wares : stock[Me][w] >= give[w]
        BY <2>2, <2>3, <4>1 DEF CanPost, Mine, TypeOK, Bundle, Goods
      <4>. QED  BY <2>8, <4>1, <4>2
    <3>2. Cardinality(OffersOf(Me)) < MaxOffers
      <4>1. Cardinality(OffersOf(Me)) <= MaxOffers
        BY <2>3 DEF MarketSound
      <4>2. MaxOffers \in Nat /\ Cardinality(OffersOf(Me)) \in Nat
        <5>1. IsFiniteSet(OffersOf(Me))
          BY FS_Subset DEF RulesInv, OffersOf
        <5>. QED  BY <5>1, BoardAssumption, FS_CardinalityType
      <4>. QED  BY <2>3, <4>1, <4>2
    <3>3. active = Me /\ SomeOf(give) /\ SomeOf(want)
      BY <2>2 DEF CanPost, IsMyTurn
    <3>. QED  BY <3>1, <3>2, <3>3 DEF MayPost
  <2>. QED  BY <2>4, <2>5, <2>6, <2>7, <2>9, <2>10 DEF OfferedIsAccepted
<1>. QED  BY <1>1, FollowedHolds, ClientInvariant, PTL
=============================================================================
