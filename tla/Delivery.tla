------------------------------ MODULE Delivery ------------------------------
(***************************************************************************)
(* The way of a game's events from the engine to one browser: the queue of *)
(* each gateway, its registry and socket.io rooms, connections that break  *)
(* and are made again, possibly to another gateway, and the store of the   *)
(* page, which also fetches the stored view over HTTP.                     *)
(*                                                                         *)
(* The engine is what GameLog promises.  Other games have a view and       *)
(* nothing happens in them.  A view is the sequence of the commands whose  *)
(* effect it shows.                                                        *)
(***************************************************************************)
EXTENDS GameLog, FiniteSets

CONSTANTS
  Gateways,
  Games,
  Game,          \* the one that GameLog is about
  MaxEvents, MaxSockets, MaxFetches, MaxDrops    \* bounds

ASSUME DeliveryAssumption ==
  /\ Game \in Games
  /\ None \notin Gateways /\ None \notin Games /\ None \notin 1 .. MaxSockets
  /\ MaxEvents \in Nat /\ MaxSockets \in Nat /\ MaxFetches \in Nat /\ MaxDrops \in Nat

VARIABLES
  scenario,      \* of all games: it decides which page and store are used
  bus,           \* events published
  relayed,       \* gateway -> how many of them its queue has delivered
  home,          \* socket -> gateway that holds it, or None
  bySocket,      \* socket -> games      (RoomRegistryService.bySocket)
  byGame,        \* game -> sockets      (RoomRegistryService.byGame)
  joined,        \* game -> sockets in its socket.io room
  up,            \* socket -> requests under way to its gateway
  down,          \* events under way to the browser on its connection
  page,          \* the game whose page is open, or None
  link,          \* the store's socket: "none", "connecting" or "connected"
  sid,           \* its id, None unless connected
  buffered,      \* what it sends when connected
  troubled,      \* Kingdoms only: connectionStatus is not 'connected'
  view,          \* the store's view, None or of some game
  sawStart,      \* game-started was received on this page; for properties
  heard,         \* the last event received on this connection; for properties
  fetches,       \* requests for a view under way
  drops          \* connections and attempts that failed so far

engine  == <<log, bus>>
gateway == <<relayed, home, bySocket, byGame, joined>>
wire    == <<up, down>>
client  == <<page, link, sid, buffered, troubled, view, sawStart, heard, fetches>>
vars    == <<engine, gateway, wire, client, scenario, drops>>

Sockets == 1 .. MaxSockets
View    == [game : Games, cmds : Seq(Commands)]
Event   == [type : {"started", "applied", "error"}, cmds : Seq(Commands)]
Request == [op : {"subscribe", "unsubscribe"}, game : Games]
Fetch   == [game : Games, status : {"sent", "answered"}, answer : View \cup {None}]

ASSUME NoneAssumption == None \notin View

TypeOK ==
  /\ scenario \in {"frontier", "kingdoms"}
  /\ bus \in Seq(Event)
  /\ relayed \in [Gateways -> 0 .. Len(bus)]
  /\ home \in [Sockets -> Gateways \cup {None}]
  /\ bySocket \in [Sockets -> SUBSET Games]
  /\ byGame \in [Games -> SUBSET Sockets] /\ joined \in [Games -> SUBSET Sockets]
  /\ up \in [Sockets -> Seq(Request)] /\ down \in Seq(1 .. Len(bus))
  /\ page \in Games \cup {None}
  /\ link \in {"none", "connecting", "connected"}
  /\ sid \in Sockets \cup {None} /\ (sid # None <=> link = "connected")
  /\ buffered \in Seq(Request)
  /\ troubled \in BOOLEAN /\ sawStart \in BOOLEAN
  /\ view \in View \cup {None}
  /\ heard \in 0 .. Len(bus)
  /\ fetches \in Seq(Fetch)
  /\ drops \in 0 .. MaxDrops

-----------------------------------------------------------------------------
(* The engine *)

Publish(type, cmds) ==
  Len(bus) < MaxEvents /\ bus' = Append(bus, [type |-> type, cmds |-> cmds])

\* The end of a game, one more event, is left out.
EngineApplies ==
  /\ \E c \in Commands : Tell(<<c>>, FALSE) /\ Publish("applied", <<c>>)
  /\ UNCHANGED <<gateway, wire, client, scenario, drops>>

EngineStores ==
  /\ stored # told
  /\ \E n \in 0 .. Len(told) : Store(SubSeq(told, 1, n))
  /\ UNCHANGED <<bus, gateway, wire, client, scenario, drops>>

\* The payload is the view stored just before.
EngineStarts ==
  /\ stored # None
  /\ Start(stored) /\ Publish("started", stored)
  /\ UNCHANGED <<gateway, wire, client, scenario, drops>>

\* A command of this user is refused.
EngineRefuses ==
  /\ Publish("error", <<>>)
  /\ UNCHANGED <<log, gateway, wire, client, scenario, drops>>

-----------------------------------------------------------------------------
(* Gateways *)

\* Mutant: a private event is matched with the socket, not with its user.
ReceiversPublicOnly(w, e) ==
  { s \in (IF e.type = "error" THEN {} ELSE joined[Game]) : home[s] = w }

\* EventRelayService.dispatch: private events go by the registry.
Receivers(w, e) ==
  { s \in (IF e.type = "error" THEN byGame[Game] ELSE joined[Game]) : home[s] = w }

Relay(w) ==
  /\ relayed[w] < Len(bus)
  /\ LET n == relayed[w] + 1
     IN  /\ relayed' = [relayed EXCEPT ![w] = n]
         /\ down' = IF sid \in Receivers(w, bus[n]) THEN Append(down, n) ELSE down
  /\ UNCHANGED <<engine, home, bySocket, byGame, joined, up, client, scenario, drops>>

Attach(s, g) ==
  /\ byGame' = [byGame EXCEPT ![g] = @ \cup {s}]
  /\ bySocket' = [bySocket EXCEPT ![s] = @ \cup {g}]
  /\ joined' = [joined EXCEPT ![g] = @ \cup {s}]

Detach(s, g) ==
  /\ byGame' = [byGame EXCEPT ![g] = @ \ {s}]
  /\ bySocket' = [bySocket EXCEPT ![s] = @ \ {g}]
  /\ joined' = [joined EXCEPT ![g] = @ \ {s}]

HandleRequest(s) ==
  /\ home[s] # None /\ up[s] # <<>>
  /\ up' = [up EXCEPT ![s] = Tail(@)]
  /\ LET q == Head(up[s])
     IN  IF q.op = "subscribe" THEN Attach(s, q.game) ELSE Detach(s, q.game)
  /\ UNCHANGED <<engine, relayed, home, down, client, scenario, drops>>

\* Mutant: only the socket's own entry is removed.
ForgottenBySocketOnly(S) == [g \in Games |-> byGame[g]]

\* RoomRegistryService.removeSocket for the sockets S.
Forgotten(S) == [g \in Games |-> byGame[g] \ { s \in S : g \in bySocket[s] }]

\* The sockets S are gone for their gateways; socket.io has left the rooms.
Remove(S) ==
  /\ byGame' = Forgotten(S)
  /\ bySocket' = [s \in Sockets |-> IF s \in S THEN {} ELSE bySocket[s]]
  /\ joined' = [g \in Games |-> joined[g] \ S]
  /\ home' = [s \in Sockets |-> IF s \in S THEN None ELSE home[s]]
  /\ up' = [s \in Sockets |-> IF s \in S THEN <<>> ELSE up[s]]

\* A gateway notices, at once or much later, that a socket is closed.  What
\* was sent before is handled first, or lost with the connection.
Disconnected(s) ==
  /\ home[s] # None /\ s # sid
  /\ Remove({s})
  /\ UNCHANGED <<engine, relayed, down, client, scenario, drops>>

-----------------------------------------------------------------------------
(* Connections of the browser *)

SendFetch(g) == fetches' = Append(fetches, [game |-> g, status |-> "sent", answer |-> None])

Subscribe(g) == [op |-> "subscribe", game |-> g]

\* Mutant: the store trusts that its subscription outlives the connection.
OnConnectSilent == buffered

\* The Kingdoms store subscribes again when there was trouble.
OnConnect ==
  IF troubled THEN Append(buffered, Subscribe(page)) ELSE buffered

\* A connection is made, to any gateway; the Kingdoms store then also fetches.
Connect(s, w) ==
  /\ link = "connecting" /\ home[s] = None /\ up[s] = <<>>
  /\ link' = "connected" /\ sid' = s
  /\ home' = [home EXCEPT ![s] = w]
  /\ up' = [up EXCEPT ![s] = OnConnect]
  /\ buffered' = <<>>
  /\ IF troubled
     THEN Len(fetches) < MaxFetches /\ SendFetch(page)
     ELSE UNCHANGED fetches
  /\ troubled' = FALSE
  /\ UNCHANGED <<engine, relayed, bySocket, byGame, joined, down, page, view, sawStart,
                 heard, scenario, drops>>

\* Mutant: a broken connection leaves the socket as it was.
BreakUnnoticed ==
  /\ link # "none" /\ drops < MaxDrops /\ drops' = drops + 1
  /\ sid' = None /\ troubled' = (scenario = "kingdoms")
  /\ heard' = 0 /\ down' = <<>>
  /\ UNCHANGED <<engine, gateway, up, page, link, buffered, view, sawStart, fetches, scenario>>

\* The connection breaks, or an attempt to connect fails.
Break ==
  /\ link # "none" /\ drops < MaxDrops /\ drops' = drops + 1
  /\ link' = "connecting" /\ sid' = None /\ troubled' = (scenario = "kingdoms")
  /\ heard' = 0 /\ down' = <<>>
  /\ UNCHANGED <<engine, gateway, up, page, buffered, view, sawStart, fetches, scenario>>

\* A gateway restarts: its queue was exclusive and is gone.
Restart(w) ==
  /\ drops < MaxDrops /\ drops' = drops + 1
  /\ relayed' = [relayed EXCEPT ![w] = Len(bus)]
  /\ Remove({ s \in Sockets : home[s] = w })
  /\ IF sid # None /\ home[sid] = w
     THEN link' = "connecting" /\ sid' = None /\ troubled' = (scenario = "kingdoms")
          /\ heard' = 0 /\ down' = <<>>
     ELSE UNCHANGED <<link, sid, troubled, heard, down>>
  /\ UNCHANGED <<engine, page, buffered, view, sawStart, fetches, scenario>>

-----------------------------------------------------------------------------
(* The page and its store *)

OpenPage(g) ==
  /\ page = None /\ page' = g
  /\ Len(fetches) < MaxFetches /\ SendFetch(g)
  /\ link' = "connecting" /\ buffered' = <<Subscribe(g)>> /\ troubled' = FALSE
  /\ UNCHANGED <<engine, gateway, wire, sid, view, sawStart, heard, scenario, drops>>

\* disconnect(): answers to fetches may still come.
ClosePage ==
  /\ page # None /\ page' = None
  /\ up' = IF sid = None THEN up
           ELSE [up EXCEPT ![sid] = Append(@, [op |-> "unsubscribe", game |-> page])]
  /\ link' = "none" /\ sid' = None /\ buffered' = <<>> /\ troubled' = FALSE
  /\ view' = None /\ sawStart' = FALSE /\ heard' = 0 /\ down' = <<>>
  /\ UNCHANGED <<engine, gateway, fetches, scenario, drops>>

\* The Frontier store applies an event to whatever view it has.
ShownAfter(e) ==
  CASE e.type = "started"              -> [game |-> page, cmds |-> e.cmds]
    [] e.type # "started" /\ view = None -> None
    [] OTHER                           -> [view EXCEPT !.cmds = @ \o e.cmds]

\* The Kingdoms store shows a start and fetches the view for anything else.
Receive ==
  /\ down # <<>>
  /\ LET n == Head(down)
         e == bus[n]
     IN  /\ heard' = n
         /\ sawStart' = (sawStart \/ e.type = "started")
         /\ IF scenario = "frontier" \/ e.type = "started"
            THEN view' = ShownAfter(e) /\ UNCHANGED fetches
            ELSE Len(fetches) < MaxFetches /\ SendFetch(page) /\ UNCHANGED view
  /\ down' = Tail(down)
  /\ UNCHANGED <<engine, gateway, up, page, link, sid, buffered, troubled, scenario, drops>>

\* GET /init reads the stored view.
ServeFetch(i) ==
  /\ fetches[i].status = "sent"
  /\ fetches' = [fetches EXCEPT ![i].status = "answered",
       ![i].answer = IF fetches[i].game # Game THEN [game |-> fetches[i].game, cmds |-> <<>>]
                     ELSE IF stored = None THEN None ELSE [game |-> Game, cmds |-> stored]]
  /\ UNCHANGED <<engine, gateway, wire, page, link, sid, buffered, troubled, view, sawStart,
                 heard, scenario, drops>>

\* Mutant: the Frontier store, too, takes the answer in any case.
ShownWithAlways(answer) == IF answer = None THEN view ELSE answer

\* The Frontier store keeps a view it has; an error leaves the view alone.
ShownWith(answer) ==
  IF answer = None \/ (scenario = "frontier" /\ view # None) THEN view ELSE answer

\* Answers come in any order, even to a page that was closed or left.
Answer(i) ==
  /\ fetches[i].status = "answered"
  /\ view' = ShownWith(fetches[i].answer)
  /\ fetches' = SubSeq(fetches, 1, i - 1) \o SubSeq(fetches, i + 1, Len(fetches))
  /\ UNCHANGED <<engine, gateway, wire, page, link, sid, buffered, troubled, sawStart, heard,
                 scenario, drops>>

-----------------------------------------------------------------------------
Init ==
  /\ LogInit
  /\ scenario \in {"frontier", "kingdoms"}
  /\ bus = <<>>
  /\ relayed = [w \in Gateways |-> 0]
  /\ home = [s \in Sockets |-> None]
  /\ bySocket = [s \in Sockets |-> {}]
  /\ byGame = [g \in Games |-> {}] /\ joined = [g \in Games |-> {}]
  /\ up = [s \in Sockets |-> <<>>] /\ down = <<>>
  /\ page = None /\ link = "none" /\ sid = None
  /\ buffered = <<>> /\ troubled = FALSE
  /\ view = None /\ sawStart = FALSE /\ heard = 0
  /\ fetches = <<>>
  /\ drops = 0

EngineNext == EngineApplies \/ EngineStores \/ EngineStarts \/ EngineRefuses

GatewayNext ==
  \/ \E w \in Gateways : Relay(w) \/ Restart(w)
  \/ \E s \in Sockets : HandleRequest(s) \/ Disconnected(s)

ConnectAny == \E s \in Sockets, w \in Gateways : Connect(s, w)

ClientNext ==
  \/ ConnectAny \/ Break
  \/ \E g \in Games : OpenPage(g)
  \/ ClosePage
  \/ Receive
  \/ \E i \in DOMAIN fetches : ServeFetch(i) \/ Answer(i)

Next == EngineNext \/ GatewayNext \/ ClientNext

Spec == Init /\ [][Next]_vars

-----------------------------------------------------------------------------
(* Properties *)

\* The two maps of the registry and the rooms of socket.io agree on who hears
\* of which game, through subscriptions, late disconnects and restarts, and
\* nothing is kept of a socket that is gone (room-registry.service.ts:14-32).
RegistryAgrees ==
  \A g \in Games :
    /\ byGame[g] = joined[g]
    /\ byGame[g] = { s \in Sockets : g \in bySocket[s] }
    /\ \A s \in byGame[g] : home[s] # None

\* From its subscription on, a connection gets every event, private ones and
\* public ones, once and in the order of publication: what is under way goes
\* on where the last event received left off and ends with what the gateway
\* relayed last (event-relay.service.ts:39-51).
EventsInSequence ==
  sid # None =>
    LET line == (IF heard = 0 THEN <<>> ELSE <<heard>>) \o down
    IN  /\ \A i \in 1 .. Len(line) - 1 : line[i + 1] = line[i] + 1
        /\ sid \in joined[Game] /\ line # <<>> => line[Len(line)] = relayed[home[sid]]

\* No command was announced before the start.
StartCameFirst ==
  \A i, j \in DOMAIN bus : bus[i].type = "started" /\ bus[j].type = "applied" => i < j

Real(cmds) == Fits(cmds, told, over)

\* A page shows a state the game really went through: the Kingdoms page
\* always, the Frontier page from the start of the game on, if it saw it and
\* no command came before, whatever answers to fetches are late
\* (kingdoms-game.ts:189-197, store/game.ts:237-242, 264).
ViewsAreReal ==
  view # None =>
    /\ scenario = "kingdoms" /\ view.game = Game => Real(view.cmds)
    /\ scenario = "frontier" /\ sawStart /\ StartCameFirst =>
         view.game = Game /\ Real(view.cmds)

\* A Kingdoms page that is connected is subscribed or about to be, across
\* broken connections, failed attempts and restarts (kingdoms-game.ts:95-108).
KeepsSubscribed ==
  scenario = "kingdoms" /\ sid # None =>
    \/ sid \in joined[page]
    \/ \E i \in DOMAIN up[sid] : up[sid][i] = Subscribe(page)
=============================================================================
