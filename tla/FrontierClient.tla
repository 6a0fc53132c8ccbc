--------------------------- MODULE FrontierClient ---------------------------
(***************************************************************************)
(* A browser on a game of Frontier: the events of the game, the reducer    *)
(* that keeps the client's copy of the view (store/game.ts), and the page  *)
(* that decides from that copy what the player Me can click.               *)
(*                                                                         *)
(* The client has been given a view and receives every event after it, in  *)
(* order (how that comes about is the subject of Delivery).  A click acts  *)
(* on the copy, which may be behind the game; the time a command travels   *)
(* is part of that lag.  Everybody else may send any command.              *)
(***************************************************************************)
EXTENDS Frontier, Sequences, SequencesExt

CONSTANTS
  Me,
  MaxLag      \* bound: events under way at which the others go on

ASSUME ClientAssumption == Me \in Players /\ MaxLag \in Nat

VARIABLES
  shown,        \* view, in the store
  channel,      \* events published and not yet received
  fortifyMode,  \* GamePage
  composing     \* TradePanel

page == <<fortifyMode, composing>>
vars == <<rules, shown, channel, page>>

-----------------------------------------------------------------------------
(* The view and the events *)

View ==
  [owner |-> owner, fort |-> fort, offers |-> offers, stock |-> stock,
   active |-> active, round |-> round, ended |-> ended, winner |-> winner]

TileClaimed(p, t, vp) == [type |-> "tile-claimed", player |-> p, tile |-> t, vp |-> vp]
Traded(p, w)          == [type |-> "trade", player |-> p, ware |-> w]
Fortified(p, t)       == [type |-> "fortify", player |-> p, tile |-> t]
OfferEvent(type, p, o) == [type |-> type, player |-> p, offer |-> o]
TurnEnded(p)          == [type |-> "turn-ended", player |-> p]
RoundEnded(n)         == [type |-> "round-ended", round |-> n]
FortIncome(p)         == [type |-> "fort-income", player |-> p]
TileIncome(p, w, s)   == [type |-> "tile-income", player |-> p, wood |-> w, stone |-> s]

\* One event per fort, and one per player with income of wood or stone.
IncomeEvents ==
  LET forts   == SetToSeq({ t \in Tiles : fort[t] # Nobody })
      earners == SetToSeq({ p \in Players : \E w \in Wares : RoundIncome(p, w) > 0 })
  IN  [i \in DOMAIN forts |-> FortIncome(fort[forts[i]])]
      \o [i \in DOMAIN earners |->
            TileIncome(earners[i], RoundIncome(earners[i], "wood"), RoundIncome(earners[i], "stone"))]

EndTurnEvents ==
  <<TurnEnded(NextPlayer)>>
  \o (IF NewRound THEN <<RoundEnded(round)>> \o IncomeEvents ELSE <<>>)

-----------------------------------------------------------------------------
(* applyEvent *)

Earn(v, p, gs)  == [v EXCEPT !.stock[p] = [g \in Goods |-> @[g] + gs[g]]]
Floor0(n)       == IF n < 0 THEN 0 ELSE n
Spend(v, p, gs) == [v EXCEPT !.stock[p] = [g \in Goods |-> Floor0(@[g] - gs[g])]]

OnTileClaimed(v, e) ==
  Earn([v EXCEPT !.owner[e.tile] = e.player], e.player,
       [g \in Goods |-> IF g = "vp" THEN e.vp
                        ELSE IF g = TerrainResource[Terrain[e.tile]] THEN 1 ELSE 0])

OnTrade(v, e) ==
  LET paid == Spend(v, e.player, [NoGoods EXCEPT ![e.ware] = 2])
  IN  IF e.ware = "wood" THEN Earn(paid, e.player, [NoGoods EXCEPT !["vp"] = 1]) ELSE paid

OnFortify(v, e) == Spend([v EXCEPT !.fort[e.tile] = e.player], e.player, FortPrice)

OnPostOffer(v, e) ==
  Spend([v EXCEPT !.offers = @ \cup {e.offer}], e.player, AsGoods(e.offer.give))

Dropped(v, o) == [v EXCEPT !.offers = { x \in @ : x.id # o.id }]

\* Mutant: the offerer's row is not updated.
OnAcceptOfferHalf(v, e) ==
  LET o == e.offer
  IN  [Dropped(v, o) EXCEPT
         !.stock[e.player] = [g \in Goods |-> @[g] - AsGoods(o.want)[g] + AsGoods(o.give)[g]]]

OnAcceptOffer(v, e) ==
  LET o == e.offer
  IN  [Dropped(v, o) EXCEPT
         !.stock[e.player] = [g \in Goods |-> @[g] - AsGoods(o.want)[g] + AsGoods(o.give)[g]],
         !.stock[o.from]   = [g \in Goods |-> @[g] + AsGoods(o.want)[g]]]

OnCancelOffer(v, e) == Earn(Dropped(v, e.offer), e.player, AsGoods(e.offer.give))

\* There is no case for round-ended: the round shown is that of the snapshot.
ApplyEvent(v, e) ==
  CASE e.type = "tile-claimed" -> OnTileClaimed(v, e)
    [] e.type = "trade"        -> OnTrade(v, e)
    [] e.type = "fortify"      -> OnFortify(v, e)
    [] e.type = "post-offer"   -> OnPostOffer(v, e)
    [] e.type = "accept-offer" -> OnAcceptOffer(v, e)
    [] e.type = "cancel-offer" -> OnCancelOffer(v, e)
    [] e.type = "fort-income"  -> Earn(v, e.player, [NoGoods EXCEPT !["vp"] = 1])
    [] e.type = "tile-income"  ->
         Earn(v, e.player, [NoGoods EXCEPT !["wood"] = e.wood, !["stone"] = e.stone])
    [] e.type = "turn-ended"   -> [v EXCEPT !.active = e.player]
    [] e.type = "game-ended"   -> [v EXCEPT !.ended = TRUE, !.winner = e.player]
    [] OTHER -> v

-----------------------------------------------------------------------------
(* The page: what it offers Me, from the copy *)

IsMyTurn == shown.active = Me

\* The winner screen replaces everything.
Playing == ~ shown.ended

\* Mutant: tiles next to anybody's land light up.
ClaimableNextToAny ==
  { t \in Tiles : /\ Playing /\ IsMyTurn /\ ~ fortifyMode
                  /\ shown.owner[t] = Nobody
                  /\ \E s \in Neighbours[t] : shown.owner[s] # Nobody }

\* Board: free tiles next to the player's own.
Claimable ==
  { t \in Tiles : /\ Playing /\ IsMyTurn /\ ~ fortifyMode
                  /\ shown.owner[t] = Nobody
                  /\ \E s \in Neighbours[t] : shown.owner[s] = Me }

Fortifiable ==
  { t \in Tiles : /\ Playing /\ IsMyTurn /\ fortifyMode
                  /\ shown.owner[t] = Me /\ shown.fort[t] = Nobody }

Mine(w) == shown.stock[Me][w]

CanPass == Playing /\ IsMyTurn /\ ~ fortifyMode

CanTrade(w) == Playing /\ IsMyTurn /\ ~ fortifyMode /\ Mine(w) >= 2

CanBuildFort ==
  /\ Playing /\ IsMyTurn /\ ~ fortifyMode
  /\ Mine("wood") >= 2 /\ Mine("stone") >= 1
  /\ Cardinality({ t \in Tiles : shown.owner[t] = Me })
       > Cardinality({ t \in Tiles : shown.fort[t] = Me })

CanCompose ==
  /\ Playing /\ IsMyTurn /\ ~ composing
  /\ Cardinality({ o \in shown.offers : o.from = Me }) < MaxOffers
  /\ \E w \in Wares : Mine(w) > 0

\* The form asks neither whose turn it is nor how many offers there are.
CanPost(give, want) ==
  /\ Playing /\ composing
  /\ SomeOf(give) /\ SomeOf(want)
  /\ \A w \in Wares : give[w] <= Mine(w)

CanAccept(o) ==
  /\ Playing /\ IsMyTurn /\ o \in shown.offers /\ o.from # Me
  /\ \A w \in Wares : Mine(w) >= o.want[w]

CanCancel(o) == Playing /\ IsMyTurn /\ o \in shown.offers /\ o.from = Me

-----------------------------------------------------------------------------
(* Steps *)

\* What a command published: its events, and the verdict if it brought one.
\* Those of a command behind the end stay in the engine's buffer.
Announce(es) ==
  channel' = IF ended THEN channel
             ELSE channel \o es
                  \o (IF ended' THEN <<[type |-> "game-ended", player |-> winner']>> ELSE <<>>)

Judged(es) == JudgeVictory /\ Announce(es)

CommandOf(p) ==
  \/ \E t \in Tiles, roll \in 2 .. 12 :
       ClaimTile(p, t, roll)
       /\ Judged(<<TileClaimed(p, t, TerrainVP[Terrain[t]] + BonusVP(roll))>>)
  \/ \E t \in Tiles : Fortify(p, t) /\ Judged(<<Fortified(p, t)>>)
  \/ EndTurn(p) /\ Judged(EndTurnEvents)
  \/ \E w \in Wares : Trade(p, w) /\ Judged(<<Traded(p, w)>>)
  \/ \E give, want \in Bundles :
       PostOffer(p, give, want)
       /\ Judged(<<OfferEvent("post-offer", p, NewOffer(p, give, want))>>)
  \/ \E o \in offers : AcceptOffer(p, o) /\ Judged(<<OfferEvent("accept-offer", p, o)>>)
  \/ \E o \in offers : CancelOffer(p, o) /\ Judged(<<OfferEvent("cancel-offer", p, o)>>)

\* The others play.
OthersCommand ==
  /\ Len(channel) < MaxLag
  /\ \E p \in Players \ {Me} : CommandOf(p)
  /\ UNCHANGED <<shown, page>>

\* A click sends a command; the rules refuse it if the copy misled the page.
Click(may, command, es) ==
  IF may THEN command /\ Judged(es) ELSE UNCHANGED <<rules, channel>>

MyCommand ==
  \/ /\ \E t \in Claimable : \E roll \in 2 .. 12 :
          Click(MayClaim(Me, t), ClaimTile(Me, t, roll),
                <<TileClaimed(Me, t, TerrainVP[Terrain[t]] + BonusVP(roll))>>)
     /\ UNCHANGED page
  \/ /\ \E t \in Fortifiable :
          Click(MayFortify(Me, t), Fortify(Me, t), <<Fortified(Me, t)>>)
     /\ fortifyMode' = FALSE /\ UNCHANGED composing
  \/ /\ CanPass
     /\ Click(MayEndTurn(Me), EndTurn(Me), EndTurnEvents)
     /\ UNCHANGED page
  \/ /\ \E w \in Wares : CanTrade(w) /\ Click(MayTrade(Me, w), Trade(Me, w), <<Traded(Me, w)>>)
     /\ UNCHANGED page
  \/ /\ \E give, want \in Bundles :
          /\ CanPost(give, want)
          /\ Click(MayPost(Me, give, want), PostOffer(Me, give, want),
                   <<OfferEvent("post-offer", Me, NewOffer(Me, give, want))>>)
     /\ composing' = FALSE /\ UNCHANGED fortifyMode
  \/ /\ \E o \in shown.offers :
          \/ /\ CanAccept(o)
             /\ Click(o \in offers /\ MayAccept(Me, o), AcceptOffer(Me, o),
                      <<OfferEvent("accept-offer", Me, o)>>)
          \/ /\ CanCancel(o)
             /\ Click(o \in offers /\ MayCancel(Me, o), CancelOffer(Me, o),
                      <<OfferEvent("cancel-offer", Me, o)>>)
     /\ UNCHANGED page

\* The player may be quicker than the events: a second click on the same copy.
MyClick == Len(channel) <= MaxLag /\ MyCommand /\ UNCHANGED shown

TogglePage ==
  /\ \/ CanBuildFort /\ fortifyMode' = TRUE /\ UNCHANGED composing
     \/ Playing /\ fortifyMode /\ fortifyMode' = FALSE /\ UNCHANGED composing
     \/ CanCompose /\ composing' = TRUE /\ UNCHANGED fortifyMode
     \/ Playing /\ composing /\ composing' = FALSE /\ UNCHANGED fortifyMode
  /\ UNCHANGED <<rules, shown, channel>>

\* The effect on isMyTurn leaves fortify mode; the form stays open until the
\* winner screen removes it.
Receive ==
  /\ channel # <<>>
  /\ shown' = ApplyEvent(shown, Head(channel))
  /\ channel' = Tail(channel)
  /\ fortifyMode' = (fortifyMode /\ shown'.active = Me)
  /\ composing' = (composing /\ ~ shown'.ended)
  /\ UNCHANGED rules

ClientInit ==
  /\ Init
  /\ shown = View
  /\ channel = <<>>
  /\ fortifyMode = FALSE /\ composing = FALSE

ClientNext == OthersCommand \/ MyClick \/ TogglePage \/ Receive

ClientSpec == ClientInit /\ [][ClientNext]_vars

-----------------------------------------------------------------------------
(* Properties *)

SumOver(S, f(_)) == FoldSet(LAMBDA x, sum : f(x) + sum, 0, S)

\* What the players hold and what their offers reserve.
InCirculation(w) == SumOver(Players, LAMBDA p : stock[p][w]) + SumOver(offers, LAMBDA o : o.give[w])

\* Posting, accepting and cancelling neither create nor destroy anything,
\* whoever does it in whose turn, and also behind the end: nothing reserved
\* is refunded twice, paid out to two players or forgotten (actions.ts:319-414).
MarketConserves ==
  [][offers' # offers => \A w \in Wares : InCirculation(w)' = InCirculation(w)]_vars

\* The round is the one thing the client does not follow.
SameView(v, w) == [v EXCEPT !.round = 0] = [w EXCEPT !.round = 0]

\* The events of a game rebuild its view: a client that applies what is on
\* its way to it sees the game as the engine would render it, up to and
\* including the verdict, although the reducer repeats in the browser what
\* the executors do on the server (store/game.ts:70-211 against actions.ts).
ClientFollows ==
  [][~ ended => SameView(FoldLeft(ApplyEvent, shown', channel'), View')]_vars

UpToDate == channel = <<>> /\ Playing

\* On an up-to-date page, what is offered is accepted, but for the cases in
\* which the page lacks the knowledge: the turn flags are not part of the
\* view, fortify mode survives a purchase in the market, and the form of the
\* market outlives the turn and the count of offers (GamePage.tsx:190-195,
\* Board.tsx:180-202, TradePanel.tsx:159-170).
OfferedIsAccepted ==
  UpToDate =>
    /\ \A t \in Claimable : claimed \/ MayClaim(Me, t)
    /\ \A t \in Fortifiable : Holds(Me, FortPrice) => MayFortify(Me, t)
    /\ CanPass => MayEndTurn(Me)
    /\ \A w \in Wares : CanTrade(w) => MayTrade(Me, w) \/ (w = "stone" /\ leap)
    /\ \A o \in shown.offers :
         /\ CanAccept(o) => o \in offers /\ MayAccept(Me, o)
         /\ CanCancel(o) => o \in offers /\ MayCancel(Me, o)
    /\ \A give, want \in Bundles :
         CanPost(give, want) =>
           MayPost(Me, give, want) \/ ~ IsMyTurn \/ Cardinality(OffersOf(Me)) = MaxOffers

\* Stated in GamePage.tsx:60, and not so: after two stone "next claim ignores
\* adjacency".  The board lights up adjacent tiles only.
LeapReaches ==
  UpToDate /\ CanPass /\ leap /\ ~ claimed =>
    \A t \in Tiles : shown.owner[t] = Nobody => t \in Claimable
=============================================================================
