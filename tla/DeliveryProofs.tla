--------------------------- MODULE DeliveryProofs ---------------------------
(***************************************************************************)
(* Proofs about the delivery of events, for any number of gateways, games, *)
(* connections and requests, and any number of events.                     *)
(***************************************************************************)
EXTENDS Delivery, SequenceTheorems, FiniteSetTheorems, TLAPS

-----------------------------------------------------------------------------
(* Types *)

LogType == told \in Seq(Commands) /\ stored \in Seq(Commands) \cup {None}

\* The page, its socket and what is under way on the connection go together
\* (store/game.ts:233-262, kingdoms-game.ts:79-137).
Connection ==
  /\ page = None <=> link = "none"
  /\ sid = None => heard = 0 /\ down = <<>>
  /\ sid # None => home[sid] # None
  /\ troubled => page # None

Typed == TypeOK /\ LogType /\ Connection

LEMMA InitTyped == Init => Typed
<1> SUFFICES ASSUME Init PROVE Typed
  OBVIOUS
<1>1. LogType /\ Connection
  BY DEF Init, LogInit, LogType, Connection
<1>2. bus \in Seq(Event) /\ Len(bus) = 0 /\ fetches \in Seq(Fetch) /\ buffered \in Seq(Request)
  BY DEF Init
<1>3. relayed \in [Gateways -> 0 .. Len(bus)] /\ heard \in 0 .. Len(bus)
      /\ down \in Seq(1 .. Len(bus))
  BY <1>2 DEF Init
<1>4. up \in [Sockets -> Seq(Request)] /\ home \in [Sockets -> Gateways \cup {None}]
      /\ bySocket \in [Sockets -> SUBSET Games]
      /\ byGame \in [Games -> SUBSET Sockets] /\ joined \in [Games -> SUBSET Sockets]
  BY DEF Init
<1>5. drops \in 0 .. MaxDrops
  BY DeliveryAssumption DEF Init
<1>6. /\ page \in Games \cup {None} /\ link \in {"none", "connecting", "connected"}
      /\ sid \in Sockets \cup {None} /\ (sid # None <=> link = "connected")
      /\ troubled \in BOOLEAN /\ sawStart \in BOOLEAN /\ view \in View \cup {None}
      /\ scenario \in {"frontier", "kingdoms"}
  BY DEF Init
<1> QED BY <1>1, <1>2, <1>3, <1>4, <1>5, <1>6 DEF TypeOK, Typed

\* One more event on the bus.
LEMMA PublishType ==
  ASSUME TypeOK, NEW type \in {"started", "applied", "error"}, NEW cmds \in Seq(Commands),
         Publish(type, cmds), UNCHANGED <<gateway, wire, client, scenario, drops>>
  PROVE  TypeOK'
<1> DEFINE e == [type |-> type, cmds |-> cmds]
<1>1. e \in Event /\ bus' = Append(bus, e) /\ bus \in Seq(Event)
  BY DEF Event, Publish, TypeOK
<1>2. bus' \in Seq(Event) /\ Len(bus') = Len(bus) + 1 /\ Len(bus) \in Nat
  BY <1>1
<1>3. 0 .. Len(bus) \subseteq 0 .. Len(bus') /\ 1 .. Len(bus) \subseteq 1 .. Len(bus')
  BY <1>2
<1>4. relayed \in [Gateways -> 0 .. Len(bus')] /\ heard \in 0 .. Len(bus')
  BY <1>3 DEF TypeOK
<1>5. down \in Seq(1 .. Len(bus'))
  BY <1>3, SeqMonotonic DEF TypeOK
<1> QED BY <1>2, <1>4, <1>5 DEF TypeOK, gateway, wire, client

LEMMA EngineTyped ==
  ASSUME Typed, EngineNext
  PROVE  Typed' /\ UNCHANGED <<gateway, wire, client, scenario, drops>>
<1>1. ASSUME NEW c \in Commands, Tell(<<c>>, FALSE), Publish("applied", <<c>>),
             UNCHANGED <<gateway, wire, client, scenario, drops>>
      PROVE  Typed'
  <2>1. TypeOK'
    <3>1. <<c>> \in Seq(Commands)
      OBVIOUS
    <3> QED BY <1>1, <3>1, PublishType DEF Typed
  <2>2. LogType'
    BY <1>1 DEF Tell, LogType, Typed
  <2> QED BY <1>1, <2>1, <2>2 DEF Typed, Connection, client, wire, gateway
<1>2. CASE EngineStores
  <2>1. PICK n \in 0 .. Len(told) : Store(SubSeq(told, 1, n))
    BY <1>2 DEF EngineStores
  <2>2. SubSeq(told, 1, n) \in Seq(Commands)
    BY DEF Typed, LogType
  <2>3. LogType'
    BY <2>1, <2>2 DEF Store, Keep, LogType, Typed
  <2> QED BY <1>2, <2>3
      DEF EngineStores, Typed, TypeOK, Connection, client, wire, gateway
<1>3. CASE EngineStarts
  <2>1. stored \in Seq(Commands) /\ Start(stored) /\ Publish("started", stored)
        /\ UNCHANGED <<gateway, wire, client, scenario, drops>>
    BY <1>3 DEF EngineStarts, Typed, LogType
  <2>2. TypeOK'
    BY <2>1, PublishType DEF Typed
  <2>3. LogType'
    BY <2>1 DEF Start, Keep, LogType, Typed
  <2> QED BY <2>1, <2>2, <2>3 DEF Typed, Connection, client, wire, gateway
<1>4. CASE EngineRefuses
  <2>1. Publish("error", <<>>) /\ UNCHANGED <<log, gateway, wire, client, scenario, drops>>
        /\ <<>> \in Seq(Commands)
    BY <1>4 DEF EngineRefuses
  <2>2. TypeOK'
    BY <2>1, PublishType DEF Typed
  <2> QED BY <2>1, <2>2 DEF Typed, Connection, LogType, log, client, wire, gateway
<1> QED BY <1>1, <1>2, <1>3, <1>4
    DEF EngineNext, EngineApplies, EngineStores, EngineStarts, EngineRefuses

\* Sockets that are gone.
LEMMA RemoveEffect ==
  ASSUME TypeOK, NEW S \in SUBSET Sockets, Remove(S)
  PROVE  /\ home' \in [Sockets -> Gateways \cup {None}]
         /\ bySocket' \in [Sockets -> SUBSET Games]
         /\ byGame' \in [Games -> SUBSET Sockets] /\ joined' \in [Games -> SUBSET Sockets]
         /\ up' \in [Sockets -> Seq(Request)]
         /\ \A s \in Sockets \ S : home'[s] = home[s] /\ up'[s] = up[s]
<1>1. /\ home' \in [Sockets -> Gateways \cup {None}]
      /\ bySocket' \in [Sockets -> SUBSET Games]
      /\ joined' \in [Games -> SUBSET Sockets]
  BY DEF Remove, TypeOK
<1>2. byGame' \in [Games -> SUBSET Sockets]
  BY DEF Remove, Forgotten, TypeOK
<1>3. up' \in [Sockets -> Seq(Request)]
  <2>1. \A s \in Sockets : (IF s \in S THEN <<>> ELSE up[s]) \in Seq(Request)
    BY DEF TypeOK
  <2> QED BY <2>1 DEF Remove
<1>4. \A s \in Sockets \ S : home'[s] = home[s] /\ up'[s] = up[s]
  BY DEF Remove
<1> QED BY <1>1, <1>2, <1>3, <1>4

LEMMA RelayTyped ==
  ASSUME Typed, NEW w \in Gateways, Relay(w)
  PROVE  Typed'
<1> USE DEF Typed
<1>1. relayed[w] + 1 \in 1 .. Len(bus) /\ relayed[w] + 1 \in 0 .. Len(bus)
  BY DEF Relay, TypeOK
<1>2. relayed' \in [Gateways -> 0 .. Len(bus)]
  BY <1>1 DEF Relay, TypeOK
<1>3. down' \in Seq(1 .. Len(bus))
  <2>1. down' = down \/ down' = Append(down, relayed[w] + 1)
    BY DEF Relay
  <2>2. down \in Seq(1 .. Len(bus))
    BY DEF TypeOK
  <2> QED BY <1>1, <2>1, <2>2
<1>4. UNCHANGED <<log, bus, home, bySocket, byGame, joined, up>> /\ UNCHANGED client
      /\ UNCHANGED <<scenario, drops>>
  BY DEF Relay, engine
<1>5. sid = None => down' = down
  <2>1. None \notin Receivers(w, bus[relayed[w] + 1])
    BY DeliveryAssumption DEF Receivers, TypeOK, Sockets
  <2> QED BY <2>1 DEF Relay
<1>6. TypeOK'
  BY <1>2, <1>3, <1>4 DEF TypeOK, client
<1>7. LogType' /\ Connection'
  BY <1>4, <1>5 DEF LogType, Connection, client, log
<1> QED BY <1>6, <1>7

LEMMA HandleRequestTyped ==
  ASSUME Typed, NEW s \in Sockets, HandleRequest(s)
  PROVE  Typed'
<1> USE DEF Typed
<1> DEFINE q == Head(up[s])
<1>1. up[s] \in Seq(Request) /\ up[s] # <<>>
  BY DEF HandleRequest, TypeOK
<1>2. Tail(up[s]) \in Seq(Request) /\ q \in Request
  BY <1>1
<1>3. up' \in [Sockets -> Seq(Request)]
  BY <1>2 DEF HandleRequest, TypeOK
<1>4. q.game \in Games
  BY <1>2 DEF Request
<1>5. Attach(s, q.game) \/ Detach(s, q.game)
  BY DEF HandleRequest
<1>6. /\ bySocket' \in [Sockets -> SUBSET Games]
      /\ byGame' \in [Games -> SUBSET Sockets] /\ joined' \in [Games -> SUBSET Sockets]
  <2> HIDE DEF q
  <2>1. CASE Attach(s, q.game)
    BY <1>4, <2>1 DEF Attach, TypeOK
  <2>2. CASE Detach(s, q.game)
    BY <1>4, <2>2 DEF Detach, TypeOK
  <2> QED BY <1>5, <2>1, <2>2
<1>7. UNCHANGED <<log, bus, relayed, home, down>> /\ UNCHANGED client
      /\ UNCHANGED <<scenario, drops>>
  BY DEF HandleRequest, engine
<1>8. TypeOK'
  BY <1>3, <1>6, <1>7 DEF TypeOK, client
<1> QED BY <1>7, <1>8 DEF LogType, Connection, client, log

LEMMA DisconnectedTyped ==
  ASSUME Typed, NEW s \in Sockets, Disconnected(s)
  PROVE  Typed'
<1> USE DEF Typed
<1>1. Remove({s}) /\ s # sid /\ UNCHANGED <<log, bus, relayed, down>> /\ UNCHANGED client
      /\ UNCHANGED <<scenario, drops>>
  BY DEF Disconnected, engine
<1>2. TypeOK'
  BY <1>1, RemoveEffect DEF TypeOK, client
<1>3. Connection'
  <2>1. sid \in Sockets => home'[sid] = home[sid]
    BY <1>1, RemoveEffect
  <2> QED BY <1>1, <2>1 DEF Connection, client, TypeOK
<1> QED BY <1>1, <1>2, <1>3 DEF LogType, log

LEMMA RestartTyped ==
  ASSUME Typed, NEW w \in Gateways, Restart(w)
  PROVE  Typed'
<1> USE DEF Typed
<1> DEFINE S == { s \in Sockets : home[s] = w }
<1>1. Remove(S) /\ S \in SUBSET Sockets /\ UNCHANGED <<log, bus>>
      /\ UNCHANGED <<page, buffered, view, sawStart, fetches, scenario>>
      /\ relayed' = [relayed EXCEPT ![w] = Len(bus)] /\ drops < MaxDrops /\ drops' = drops + 1
  BY DEF Restart, engine
<1>2. relayed' \in [Gateways -> 0 .. Len(bus)] /\ drops' \in 0 .. MaxDrops
  BY <1>1, DeliveryAssumption DEF TypeOK
<1>3. \A s \in Sockets \ S : home'[s] = home[s]
  BY <1>1, RemoveEffect
<1>4. CASE sid # None /\ home[sid] = w
  <2>1. link' = "connecting" /\ sid' = None /\ troubled' = (scenario = "kingdoms")
        /\ heard' = 0 /\ down' = <<>>
    BY <1>4 DEF Restart
  <2>2. page # None
    BY <1>4 DEF Connection, TypeOK
  <2>3. troubled' \in BOOLEAN /\ down' \in Seq(1 .. Len(bus)) /\ heard' \in 0 .. Len(bus)
    BY <2>1 DEF TypeOK
  <2>4. TypeOK'
    BY <1>1, <1>2, <2>1, <2>3, RemoveEffect DEF TypeOK
  <2>5. Connection'
    BY <1>1, <2>1, <2>2 DEF Connection
  <2> QED BY <1>1, <2>4, <2>5 DEF LogType, log
<1>5. CASE ~ (sid # None /\ home[sid] = w)
  <2>1. UNCHANGED <<link, sid, troubled, heard, down>>
    BY <1>5 DEF Restart
  <2>2. TypeOK'
    BY <1>1, <1>2, <2>1, RemoveEffect DEF TypeOK
  <2>3. sid # None => home'[sid] = home[sid]
    BY <1>3, <1>5 DEF TypeOK
  <2>4. Connection'
    BY <1>1, <2>1, <2>3 DEF Connection
  <2> QED BY <1>1, <2>2, <2>4 DEF LogType, log
<1> QED BY <1>4, <1>5

LEMMA SendFetchType ==
  ASSUME TypeOK, NEW g \in Games, SendFetch(g)
  PROVE  fetches' \in Seq(Fetch)
<1> DEFINE f == [game |-> g, status |-> "sent", answer |-> None]
<1>1. f \in Fetch
  BY DEF Fetch
<1>2. fetches \in Seq(Fetch) /\ fetches' = Append(fetches, f)
  BY DEF SendFetch, TypeOK
<1> QED BY <1>1, <1>2

LEMMA ConnectTyped ==
  ASSUME Typed, NEW s \in Sockets, NEW w \in Gateways, w # None, Connect(s, w)
  PROVE  Typed'
<1> USE DEF Typed
<1>1. page \in Games /\ s # None /\ sid = None
  BY DeliveryAssumption DEF Connect, Connection, TypeOK, Sockets
<1>2. OnConnect \in Seq(Request)
  <2>1. Subscribe(page) \in Request
    BY <1>1 DEF Subscribe, Request
  <2>2. buffered \in Seq(Request)
    BY DEF TypeOK
  <2> QED BY <2>1, <2>2 DEF OnConnect
<1>3. up' \in [Sockets -> Seq(Request)] /\ home' \in [Sockets -> Gateways \cup {None}]
      /\ home'[s] = w
  BY <1>2 DEF Connect, TypeOK
<1>4. fetches' \in Seq(Fetch)
  <2>1. SendFetch(page) \/ fetches' = fetches
    BY DEF Connect
  <2> QED BY <1>1, <2>1, SendFetchType DEF TypeOK
<1>5. /\ link' = "connected" /\ sid' = s /\ buffered' = <<>> /\ troubled' = FALSE
      /\ UNCHANGED <<log, bus, relayed, bySocket, byGame, joined, down, page, view, sawStart,
                     heard, scenario, drops>>
  BY DEF Connect, engine
<1>6. TypeOK'
  <2>1. /\ sid' \in Sockets \cup {None} /\ (sid' # None <=> link' = "connected")
        /\ link' \in {"none", "connecting", "connected"} /\ page' \in Games \cup {None}
        /\ buffered' \in Seq(Request) /\ troubled' \in BOOLEAN
    <3>1. sid' \in Sockets \cup {None} /\ page' \in Games \cup {None} /\ buffered' \in Seq(Request)
      BY <1>1, <1>5
    <3>2. link' \in {"none", "connecting", "connected"} /\ (sid' # None <=> link' = "connected")
      BY <1>1, <1>5
    <3>3. troubled' \in BOOLEAN
      BY <1>5
    <3> QED BY <3>1, <3>2, <3>3
  <2>2. UNCHANGED <<bus, relayed, bySocket, byGame, joined, down, view, sawStart, heard,
                    scenario, drops>>
    BY <1>5
  <2> QED BY <1>3, <1>4, <2>1, <2>2 DEF TypeOK
<1>7. Connection'
  <2>1. page # None /\ page' = page /\ sid' = s /\ home'[s] # None /\ link' = "connected"
        /\ troubled' = FALSE
    BY <1>1, <1>3, <1>5, DeliveryAssumption
  <2> QED BY <1>1, <2>1 DEF Connection
<1> QED BY <1>5, <1>6, <1>7 DEF LogType, log

LEMMA BreakTyped ==
  ASSUME Typed, Break
  PROVE  Typed'
<1> USE DEF Typed
<1>1. /\ link' = "connecting" /\ sid' = None /\ troubled' = (scenario = "kingdoms")
      /\ heard' = 0 /\ down' = <<>> /\ drops < MaxDrops /\ drops' = drops + 1 /\ page # None
      /\ UNCHANGED <<log, bus, relayed, home, bySocket, byGame, joined, up, page, buffered,
                     view, sawStart, fetches, scenario>>
  BY DEF Break, engine, gateway, Connection
<1>2. drops' \in 0 .. MaxDrops /\ troubled' \in BOOLEAN /\ down' \in Seq(1 .. Len(bus))
      /\ heard' \in 0 .. Len(bus)
  BY <1>1, DeliveryAssumption DEF TypeOK
<1>3. TypeOK'
  BY <1>1, <1>2 DEF TypeOK
<1> QED BY <1>1, <1>3 DEF Connection, LogType, log

LEMMA OpenPageTyped ==
  ASSUME Typed, NEW g \in Games, OpenPage(g)
  PROVE  Typed'
<1> USE DEF Typed
<1>1. /\ page = None /\ page' = g /\ g # None /\ link' = "connecting" /\ troubled' = FALSE
      /\ buffered' = <<Subscribe(g)>> /\ SendFetch(g)
      /\ UNCHANGED <<log, bus, relayed, home, bySocket, byGame, joined, up, down, sid, view,
                     sawStart, heard, scenario, drops>>
  BY DeliveryAssumption DEF OpenPage, engine, gateway, wire
<1>2. sid = None
  BY <1>1 DEF Connection, TypeOK
<1>3. buffered' \in Seq(Request) /\ fetches' \in Seq(Fetch)
  BY <1>1, SendFetchType DEF Subscribe, Request
<1>4. TypeOK'
  BY <1>1, <1>2, <1>3 DEF TypeOK
<1> QED BY <1>1, <1>2, <1>4 DEF Connection, LogType, log

LEMMA ClosePageTyped ==
  ASSUME Typed, ClosePage
  PROVE  Typed'
<1> USE DEF Typed
<1>1. /\ page # None /\ page' = None /\ link' = "none" /\ sid' = None /\ buffered' = <<>>
      /\ troubled' = FALSE /\ view' = None /\ sawStart' = FALSE /\ heard' = 0 /\ down' = <<>>
      /\ UNCHANGED <<log, bus, relayed, home, bySocket, byGame, joined, fetches, scenario, drops>>
  BY DEF ClosePage, engine, gateway
<1>2. up' \in [Sockets -> Seq(Request)]
  <2> DEFINE q == [op |-> "unsubscribe", game |-> page]
  <2>1. q \in Request
    BY <1>1 DEF Request, TypeOK
  <2>2. up' = up \/ (sid \in Sockets /\ up' = [up EXCEPT ![sid] = Append(@, q)])
    BY DEF ClosePage, TypeOK
  <2> HIDE DEF q
  <2>3. up \in [Sockets -> Seq(Request)]
    BY DEF TypeOK
  <2>4. sid \in Sockets => Append(up[sid], q) \in Seq(Request)
    BY <2>1, <2>3
  <2> QED BY <2>2, <2>3, <2>4
<1>3. down' \in Seq(1 .. Len(bus)) /\ heard' \in 0 .. Len(bus)
  BY <1>1 DEF TypeOK
<1>4. TypeOK'
  <2>1. /\ sid' \in Sockets \cup {None} /\ (sid' # None <=> link' = "connected")
        /\ link' \in {"none", "connecting", "connected"} /\ page' \in Games \cup {None}
        /\ buffered' \in Seq(Request) /\ troubled' \in BOOLEAN
        /\ view' \in View \cup {None} /\ sawStart' \in BOOLEAN
    <3>1. sid' \in Sockets \cup {None} /\ page' \in Games \cup {None} /\ buffered' \in Seq(Request)
      BY <1>1
    <3>2. link' \in {"none", "connecting", "connected"} /\ (sid' # None <=> link' = "connected")
      BY <1>1
    <3>3. troubled' \in BOOLEAN /\ view' \in View \cup {None} /\ sawStart' \in BOOLEAN
      BY <1>1
    <3> QED BY <3>1, <3>2, <3>3
  <2>2. UNCHANGED <<bus, relayed, home, bySocket, byGame, joined, fetches, scenario, drops>>
    BY <1>1
  <2> QED BY <1>2, <1>3, <2>1, <2>2 DEF TypeOK
<1> QED BY <1>1, <1>4 DEF Connection, LogType, log

LEMMA ReceiveTyped ==
  ASSUME Typed, Receive
  PROVE  Typed'
<1> USE DEF Typed
<1> DEFINE n == Head(down)
           e == bus[n]
<1>1. down \in Seq(1 .. Len(bus)) /\ down # <<>> /\ bus \in Seq(Event)
  BY DEF Receive, TypeOK
<1>2. n \in 1 .. Len(bus) /\ Tail(down) \in Seq(1 .. Len(bus))
  BY <1>1
<1>3. e \in Event /\ n \in 0 .. Len(bus)
  BY <1>1, <1>2
<1>4. sid # None /\ page \in Games
  BY <1>1 DEF Connection, TypeOK
<1>5. ShownAfter(e) \in View \cup {None}
  <2>1. CASE e.type = "started"
    BY <1>3, <1>4, <2>1 DEF ShownAfter, View, Event
  <2>2. CASE e.type # "started" /\ view = None
    BY <2>2 DEF ShownAfter
  <2>3. CASE e.type # "started" /\ view # None
    <3>1. view \in View /\ e.cmds \in Seq(Commands)
      BY <1>3, <2>3 DEF TypeOK, Event
    <3>2. view.cmds \o e.cmds \in Seq(Commands)
      BY <3>1 DEF View
    <3> QED BY <2>3, <3>1, <3>2 DEF ShownAfter, View
  <2> QED BY <2>1, <2>2, <2>3
<1>6. /\ heard' = n /\ down' = Tail(down)
      /\ \/ view' = ShownAfter(e) /\ fetches' = fetches
         \/ SendFetch(page) /\ view' = view
      /\ UNCHANGED <<log, bus, relayed, home, bySocket, byGame, joined, up, page, link, sid,
                     buffered, troubled, scenario, drops>>
  BY DEF Receive, engine, gateway
<1>7. sawStart' \in BOOLEAN
  <2>1. sawStart' = (sawStart \/ e.type = "started")
    BY DEF Receive
  <2> QED BY <2>1
<1> HIDE DEF n, e
<1>8. view' \in View \cup {None} /\ fetches' \in Seq(Fetch)
  BY <1>4, <1>5, <1>6, SendFetchType DEF TypeOK
<1>9. TypeOK'
  BY <1>2, <1>3, <1>6, <1>7, <1>8 DEF TypeOK
<1> QED BY <1>4, <1>6, <1>9 DEF Connection, LogType, log

LEMMA ServeFetchTyped ==
  ASSUME Typed, NEW i \in DOMAIN fetches, ServeFetch(i)
  PROVE  Typed'
<1> USE DEF Typed
<1> DEFINE f == fetches[i]
           a == IF f.game # Game THEN [game |-> f.game, cmds |-> <<>>]
                ELSE IF stored = None THEN None ELSE [game |-> Game, cmds |-> stored]
           new == [f EXCEPT !.status = "answered", !.answer = a]
<1>1. fetches \in Seq(Fetch) /\ i \in 1 .. Len(fetches)
  BY DEF TypeOK
<1>2. f \in Fetch
  BY <1>1
<1>3. a \in View \cup {None}
  <2>1. <<>> \in Seq(Commands) /\ (stored # None => stored \in Seq(Commands))
    BY DEF LogType
  <2> QED BY <1>2, <2>1, DeliveryAssumption DEF Fetch, View
<1>4. fetches' = [fetches EXCEPT ![i].status = "answered", ![i].answer = a]
  BY DEF ServeFetch
<1> HIDE DEF a
<1>5. fetches' = [fetches EXCEPT ![i] = new]
  BY <1>1, <1>2, <1>4 DEF Fetch
<1>6. new \in Fetch
  BY <1>2, <1>3 DEF Fetch
<1> HIDE DEF new
<1>7. fetches' \in Seq(Fetch)
  BY <1>1, <1>5, <1>6, ExceptSeq
<1>8. UNCHANGED <<log, bus, relayed, home, bySocket, byGame, joined, up, down, page, link, sid,
                  buffered, troubled, view, sawStart, heard, scenario, drops>>
  BY DEF ServeFetch, engine, gateway, wire
<1>9. TypeOK'
  BY <1>7, <1>8 DEF TypeOK
<1> QED BY <1>8, <1>9 DEF Connection, LogType, log

LEMMA AnswerTyped ==
  ASSUME Typed, NEW i \in DOMAIN fetches, Answer(i)
  PROVE  Typed'
<1> USE DEF Typed
<1>1. fetches \in Seq(Fetch) /\ i \in 1 .. Len(fetches) /\ fetches[i] \in Fetch
  BY DEF TypeOK
<1>2. view' \in View \cup {None}
  BY <1>1 DEF Answer, ShownWith, Fetch, TypeOK
<1>3. fetches' \in Seq(Fetch)
  <2>1. SubSeq(fetches, 1, i - 1) \in Seq(Fetch) /\ SubSeq(fetches, i + 1, Len(fetches)) \in Seq(Fetch)
    BY <1>1
  <2> QED BY <2>1, ConcatProperties DEF Answer
<1>4. UNCHANGED <<log, bus, relayed, home, bySocket, byGame, joined, up, down, page, link, sid,
                  buffered, troubled, sawStart, heard, scenario, drops>>
  BY DEF Answer, engine, gateway, wire
<1>5. TypeOK'
  BY <1>2, <1>3, <1>4 DEF TypeOK
<1> QED BY <1>4, <1>5 DEF Connection, LogType, log

LEMMA NextTyped == Typed /\ [Next]_vars => Typed'
<1> SUFFICES ASSUME Typed, [Next]_vars PROVE Typed'
  OBVIOUS
<1>1. CASE EngineNext
  BY <1>1, EngineTyped
<1>2. CASE GatewayNext
  BY <1>2, RelayTyped, RestartTyped, HandleRequestTyped, DisconnectedTyped DEF GatewayNext
<1>3. ASSUME NEW s \in Sockets, NEW w \in Gateways, Connect(s, w) PROVE Typed'
  BY <1>3, ConnectTyped, DeliveryAssumption
<1>4. CASE ClientNext
  BY <1>3, <1>4, BreakTyped, OpenPageTyped, ClosePageTyped, ReceiveTyped, ServeFetchTyped,
     AnswerTyped DEF ClientNext, ConnectAny
<1>5. CASE UNCHANGED vars
  BY <1>5 DEF vars, engine, log, gateway, wire, client, Typed, TypeOK, LogType, Connection
<1> QED BY <1>1, <1>2, <1>4, <1>5 DEF Next

\* Every reachable state of the delivery has the declared types.
THEOREM TypeCorrect == Spec => []TypeOK
<1>1. Typed => TypeOK
  BY DEF Typed
<1> QED BY <1>1, InitTyped, NextTyped, PTL DEF Spec

-----------------------------------------------------------------------------
(* The registry *)

\* The agreement, entry by entry.
Agree(s, g) ==
  /\ s \in byGame[g] <=> g \in bySocket[s]
  /\ s \in byGame[g] <=> s \in joined[g]
  /\ s \in byGame[g] => home[s] # None

LEMMA RegistryByEntry ==
  ASSUME byGame \in [Games -> SUBSET Sockets], joined \in [Games -> SUBSET Sockets]
  PROVE  RegistryAgrees <=> \A s \in Sockets, g \in Games : Agree(s, g)
<1>1. ASSUME RegistryAgrees PROVE \A s \in Sockets, g \in Games : Agree(s, g)
  BY <1>1 DEF RegistryAgrees, Agree
<1>2. ASSUME \A s \in Sockets, g \in Games : Agree(s, g), NEW g \in Games
      PROVE  /\ byGame[g] = joined[g]
             /\ byGame[g] = { s \in Sockets : g \in bySocket[s] }
             /\ \A s \in byGame[g] : home[s] # None
  <2>1. byGame[g] \in SUBSET Sockets /\ joined[g] \in SUBSET Sockets
    OBVIOUS
  <2>2. \A s \in Sockets : Agree(s, g)
    BY <1>2
  <2>3. byGame[g] = joined[g]
    BY <2>1, <2>2 DEF Agree
  <2>4. byGame[g] = { s \in Sockets : g \in bySocket[s] }
    BY <2>1, <2>2 DEF Agree
  <2>5. \A s \in byGame[g] : home[s] # None
    BY <2>1, <2>2 DEF Agree
  <2> QED BY <2>3, <2>4, <2>5
<1> QED BY <1>1, <1>2 DEF RegistryAgrees

LEMMA RegistryByEntryNext ==
  ASSUME byGame' \in [Games -> SUBSET Sockets], joined' \in [Games -> SUBSET Sockets],
         \A s \in Sockets, g \in Games : Agree(s, g)'
  PROVE  RegistryAgrees'
<1>1. ASSUME NEW g \in Games
      PROVE  /\ byGame'[g] = joined'[g]
             /\ byGame'[g] = { s \in Sockets : g \in bySocket'[s] }
             /\ \A s \in byGame'[g] : home'[s] # None
  <2>1. byGame'[g] \in SUBSET Sockets /\ joined'[g] \in SUBSET Sockets
    OBVIOUS
  <2>2. \A s \in Sockets : Agree(s, g)'
    OBVIOUS
  <2>3. byGame'[g] = joined'[g]
    BY <2>1, <2>2 DEF Agree
  <2>4. byGame'[g] = { s \in Sockets : g \in bySocket'[s] }
    BY <2>1, <2>2 DEF Agree
  <2>5. \A s \in byGame'[g] : home'[s] # None
    BY <2>1, <2>2 DEF Agree
  <2> QED BY <2>3, <2>4, <2>5
<1> QED BY <1>1 DEF RegistryAgrees

LEMMA AttachAgrees ==
  ASSUME TypeOK, RegistryAgrees, NEW s \in Sockets, NEW g \in Games, home[s] # None,
         home' = home, Attach(s, g) \/ Detach(s, g)
  PROVE  RegistryAgrees'
<1>0. \A x \in Sockets, h \in Games : Agree(x, h)
  BY RegistryByEntry DEF TypeOK
<1>1. CASE Attach(s, g)
  <2>1. /\ byGame' = [byGame EXCEPT ![g] = byGame[g] \cup {s}]
        /\ joined' = [joined EXCEPT ![g] = joined[g] \cup {s}]
        /\ bySocket' = [bySocket EXCEPT ![s] = bySocket[s] \cup {g}]
    BY <1>1 DEF Attach
  <2>2. \A h \in Games : byGame'[h] = byGame[h] \cup (IF h = g THEN {s} ELSE {})
                       /\ joined'[h] = joined[h] \cup (IF h = g THEN {s} ELSE {})
    BY <2>1 DEF TypeOK
  <2>3. \A x \in Sockets : bySocket'[x] = bySocket[x] \cup (IF x = s THEN {g} ELSE {})
    BY <2>1 DEF TypeOK
  <2>4. \A x \in Sockets, h \in Games : Agree(x, h)'
    BY <1>0, <2>2, <2>3 DEF Agree
  <2>5. byGame' \in [Games -> SUBSET Sockets] /\ joined' \in [Games -> SUBSET Sockets]
    BY <2>1 DEF TypeOK
  <2> QED BY <2>4, <2>5, RegistryByEntryNext
<1>2. CASE Detach(s, g)
  <2>1. /\ byGame' = [byGame EXCEPT ![g] = byGame[g] \ {s}]
        /\ joined' = [joined EXCEPT ![g] = joined[g] \ {s}]
        /\ bySocket' = [bySocket EXCEPT ![s] = bySocket[s] \ {g}]
    BY <1>2 DEF Detach
  <2>2. \A h \in Games : byGame'[h] = byGame[h] \ (IF h = g THEN {s} ELSE {})
                       /\ joined'[h] = joined[h] \ (IF h = g THEN {s} ELSE {})
    BY <2>1 DEF TypeOK
  <2>3. \A x \in Sockets : bySocket'[x] = bySocket[x] \ (IF x = s THEN {g} ELSE {})
    BY <2>1 DEF TypeOK
  <2>4. \A x \in Sockets, h \in Games : Agree(x, h)'
    BY <1>0, <2>2, <2>3 DEF Agree
  <2>5. byGame' \in [Games -> SUBSET Sockets] /\ joined' \in [Games -> SUBSET Sockets]
    BY <2>1 DEF TypeOK
  <2> QED BY <2>4, <2>5, RegistryByEntryNext
<1> QED BY <1>1, <1>2

LEMMA RemoveAgrees ==
  ASSUME TypeOK, RegistryAgrees, NEW S \in SUBSET Sockets, Remove(S)
  PROVE  RegistryAgrees' /\ \A g \in Games : joined'[g] = joined[g] \ S
<1>1. \A g \in Games : byGame'[g] = byGame[g] \ S
  BY DEF Remove, Forgotten, TypeOK, RegistryAgrees
<1>2. \A g \in Games : joined'[g] = joined[g] \ S
  BY DEF Remove
<1>3. \A s \in Sockets : bySocket'[s] = IF s \in S THEN {} ELSE bySocket[s]
  BY DEF Remove
<1>4. \A s \in Sockets : home'[s] = IF s \in S THEN None ELSE home[s]
  BY DEF Remove
<1>5. \A x \in Sockets, g \in Games : Agree(x, g)
  BY RegistryByEntry DEF TypeOK
<1>6. \A x \in Sockets, g \in Games : Agree(x, g)'
  BY <1>1, <1>2, <1>3, <1>4, <1>5 DEF Agree
<1>7. RegistryAgrees'
  BY <1>6, RemoveEffect, RegistryByEntryNext
<1> QED BY <1>2, <1>7

LEMMA RegistryNext == Typed /\ RegistryAgrees /\ [Next]_vars => RegistryAgrees'
<1> SUFFICES ASSUME Typed, RegistryAgrees, [Next]_vars PROVE RegistryAgrees'
  OBVIOUS
<1> USE DEF Typed
<1>1. CASE UNCHANGED <<home, bySocket, byGame, joined>>
  BY <1>1 DEF RegistryAgrees
<1>2. ASSUME NEW s \in Sockets, HandleRequest(s) PROVE RegistryAgrees'
  <2>1. up[s] \in Seq(Request) /\ up[s] # <<>> /\ home[s] # None /\ home' = home
    BY <1>2 DEF HandleRequest, TypeOK
  <2>2. Head(up[s]).game \in Games
    <3>1. Head(up[s]) \in Request
      BY <2>1
    <3> QED BY <3>1 DEF Request
  <2> QED BY <1>2, <2>1, <2>2, AttachAgrees DEF HandleRequest
<1>3. ASSUME NEW s \in Sockets, Disconnected(s) PROVE RegistryAgrees'
  BY <1>3, RemoveAgrees DEF Disconnected
<1>4. ASSUME NEW w \in Gateways, Restart(w) PROVE RegistryAgrees'
  <2>1. Remove({ s \in Sockets : home[s] = w })
    BY <1>4 DEF Restart
  <2> QED BY <2>1, RemoveAgrees
<1>5. ASSUME NEW s \in Sockets, NEW w \in Gateways, Connect(s, w) PROVE RegistryAgrees'
  <2>1. home' = [home EXCEPT ![s] = w] /\ UNCHANGED <<bySocket, byGame, joined>> /\ w # None
    BY <1>5, DeliveryAssumption DEF Connect
  <2> QED BY <2>1 DEF RegistryAgrees, TypeOK
<1>6. CASE EngineNext
  BY <1>1, <1>6, EngineTyped DEF gateway
<1>7. CASE GatewayNext
  BY <1>1, <1>2, <1>3, <1>4, <1>7 DEF GatewayNext, Relay
<1>8. CASE ClientNext
  BY <1>1, <1>5, <1>8 DEF ClientNext, ConnectAny, Break, OpenPage, ClosePage, Receive,
     ServeFetch, Answer, gateway
<1>9. CASE UNCHANGED vars
  BY <1>1, <1>9 DEF vars, gateway
<1> QED BY <1>6, <1>7, <1>8, <1>9 DEF Next

\* Both maps of the registry and the rooms of socket.io agree, and nothing is
\* kept of a socket that is gone (room-registry.service.ts:14-32), for any
\* number of gateways, sockets and games.
THEOREM RegistryIsRight == Spec => []RegistryAgrees
<1>1. Init => RegistryAgrees
  BY DEF Init, RegistryAgrees
<1> QED BY <1>1, InitTyped, NextTyped, RegistryNext, PTL DEF Spec

-----------------------------------------------------------------------------
(* Subscriptions and the order of events *)

\* All requests of the page's connection are subscriptions of its game.
Following ==
  /\ sid # None => \A i \in DOMAIN up[sid] : up[sid][i] = Subscribe(page)
  /\ \A i \in DOMAIN buffered : buffered[i] = Subscribe(page)
  /\ scenario = "kingdoms" /\ link = "connecting" /\ ~ troubled => buffered # <<>>
  /\ KeepsSubscribed

\* The events on the connection, one after the other, up to the last relayed.
InOrder ==
  sid # None =>
    /\ heard # 0 \/ down # <<>> => sid \in joined[Game]
    /\ \A i \in 1 .. Len(down) - 1 : down[i + 1] = down[i] + 1
    /\ heard # 0 /\ down # <<>> => down[1] = heard + 1
    /\ down # <<>> => down[Len(down)] = relayed[home[sid]]
    /\ down = <<>> /\ heard # 0 => heard = relayed[home[sid]]

Stream == Following /\ InOrder

LEMMA StreamUnchanged ==
  ASSUME Stream,
         UNCHANGED <<sid, up, page, buffered, scenario, link, troubled, joined, heard, down,
                     relayed, home>>
  PROVE  Stream'
BY DEF Stream, Following, KeepsSubscribed, InOrder, Subscribe

LEMMA RelayStream ==
  ASSUME Typed, RegistryAgrees, Stream, NEW w \in Gateways, Relay(w)
  PROVE  Stream'
<1> DEFINE n == relayed[w] + 1
<1>1. UNCHANGED <<sid, up, page, buffered, scenario, link, troubled, joined, heard, home>>
  BY DEF Relay, client
<1>2. Following'
  BY <1>1 DEF Stream, Following, KeepsSubscribed, Subscribe
<1>3. /\ relayed' = [relayed EXCEPT ![w] = n]
      /\ down' = IF sid \in Receivers(w, bus[n]) THEN Append(down, n) ELSE down
  BY DEF Relay
<1>4. relayed'[w] = n /\ \A x \in Gateways \ {w} : relayed'[x] = relayed[x]
  BY <1>3 DEF Typed, TypeOK
<1>5. sid \in Receivers(w, bus[n]) <=> sid \in joined[Game] /\ home[sid] = w
  BY DeliveryAssumption DEF Receivers, RegistryAgrees
<1>6. InOrder'
  <2> SUFFICES ASSUME sid # None
               PROVE  InOrder'
    BY <1>1 DEF InOrder
  <2>1. home[sid] \in Gateways /\ down \in Seq(1 .. Len(bus)) /\ heard \in Nat /\ n \in Nat
    BY DEF Typed, TypeOK, Connection
  <2>2. CASE sid \in joined[Game] /\ home[sid] = w
    <3>1. down' = Append(down, n) /\ Len(down') = Len(down) + 1 /\ down'[Len(down) + 1] = n
          /\ (\A i \in 1 .. Len(down) : down'[i] = down[i]) /\ Len(down) \in Nat
      BY <1>3, <1>5, <2>1, <2>2
    <3>2. down # <<>> => Len(down) >= 1 /\ down[Len(down)] + 1 = n
      BY <2>1, <2>2 DEF Stream, InOrder
    <3>3. \A i \in 1 .. Len(down') - 1 : down'[i + 1] = down'[i] + 1
      <4> TAKE i \in 1 .. Len(down') - 1
      <4>1. CASE i < Len(down)
        <5>1. i \in 1 .. Len(down) - 1 /\ i + 1 \in 1 .. Len(down) /\ i \in 1 .. Len(down)
          BY <3>1, <4>1
        <5>2. down[i + 1] = down[i] + 1
          BY <5>1 DEF Stream, InOrder
        <5> QED BY <3>1, <5>1, <5>2
      <4>2. CASE i = Len(down)
        <5>1. down # <<>> /\ i \in 1 .. Len(down)
          BY <3>1, <4>2
        <5> QED BY <3>1, <3>2, <4>2, <5>1
      <4> QED BY <3>1, <4>1, <4>2
    <3>4. heard # 0 => down'[1] = heard + 1
      <4>1. CASE down = <<>>
        BY <2>2, <3>1, <4>1 DEF Stream, InOrder
      <4>2. CASE down # <<>>
        BY <3>1, <3>2, <4>2 DEF Stream, InOrder
      <4> QED BY <4>1, <4>2
    <3>5. down' # <<>>
      BY <3>1
    <3> QED BY <1>1, <1>4, <2>2, <3>1, <3>3, <3>4, <3>5 DEF InOrder
  <2>3. CASE ~ (sid \in joined[Game] /\ home[sid] = w)
    <3>1. down' = down
      BY <1>3, <1>5, <2>3
    <3>2. heard # 0 \/ down # <<>> => home[sid] # w
      BY <2>3 DEF Stream, InOrder
    <3>3. heard # 0 \/ down # <<>> => relayed'[home[sid]] = relayed[home[sid]]
      BY <1>4, <2>1, <3>2
    <3> QED BY <1>1, <3>1, <3>3 DEF Stream, InOrder
  <2> QED BY <2>2, <2>3
<1> QED BY <1>2, <1>6 DEF Stream

LEMMA HandleRequestStream ==
  ASSUME Typed, RegistryAgrees, Stream, NEW s \in Sockets, HandleRequest(s)
  PROVE  Stream'
<1> DEFINE q == Head(up[s])
<1>1. UNCHANGED <<sid, page, buffered, scenario, link, troubled, heard, down, relayed, home>>
  BY DEF HandleRequest, client
<1>2. up[s] \in Seq(Request) /\ up[s] # <<>> /\ up' = [up EXCEPT ![s] = Tail(@)]
      /\ (Attach(s, q.game) \/ Detach(s, q.game))
      /\ (q.op = "subscribe" => Attach(s, q.game))
  BY DEF HandleRequest, Typed, TypeOK
<1>3. up'[s] = Tail(up[s]) /\ \A x \in Sockets \ {s} : up'[x] = up[x]
  BY <1>2 DEF Typed, TypeOK
<1>4. \A x \in Sockets \ {s}, g \in Games : x \in joined'[g] <=> x \in joined[g]
  <2>1. \/ joined' = [joined EXCEPT ![q.game] = joined[q.game] \cup {s}]
        \/ joined' = [joined EXCEPT ![q.game] = joined[q.game] \ {s}]
    BY <1>2 DEF Attach, Detach
  <2>2. q.game \in Games /\ joined \in [Games -> SUBSET Sockets]
    <3>1. q \in Request
      BY <1>2
    <3> QED BY <3>1 DEF Typed, TypeOK, Request
  <2> HIDE DEF q
  <2>3. CASE joined' = [joined EXCEPT ![q.game] = joined[q.game] \cup {s}]
    BY <2>2, <2>3
  <2>4. CASE joined' = [joined EXCEPT ![q.game] = joined[q.game] \ {s}]
    BY <2>2, <2>4
  <2> QED BY <2>1, <2>3, <2>4
<1>5. Game \in Games /\ (page # None => page \in Games)
  BY DeliveryAssumption DEF Typed, TypeOK
<1>6. sid # None => sid \in Sockets /\ page # None
  BY DEF Typed, TypeOK, Connection
<1>7. CASE s # sid
  <2>1. sid # None => up'[sid] = up[sid]
        /\ \A g \in Games : sid \in joined'[g] <=> sid \in joined[g]
    BY <1>3, <1>4, <1>6, <1>7
  <2>2. Following'
    BY <1>1, <1>5, <1>6, <2>1 DEF Stream, Following, KeepsSubscribed, Subscribe
  <2>3. InOrder'
    BY <1>1, <1>5, <2>1 DEF Stream, InOrder
  <2> QED BY <2>2, <2>3 DEF Stream
<1>8. CASE s = sid
  <2>0. sid # None /\ page \in Games
    BY <1>5, <1>6, <1>8, DeliveryAssumption DEF Sockets
  <2>1. q = Subscribe(page)
    <3>1. q = up[s][1] /\ 1 \in DOMAIN up[s]
      BY <1>2
    <3> QED BY <1>8, <2>0, <3>1 DEF Stream, Following
  <2>2. q.game = page /\ Attach(s, page)
    BY <1>2, <2>1 DEF Subscribe
  <2>3. s \in joined'[page] /\ \A g \in Games : joined[g] \subseteq joined'[g]
    BY <2>0, <2>2 DEF Attach, Typed, TypeOK
  <2>4. \A i \in DOMAIN up'[s] : up'[s][i] = Subscribe(page)
    <3>1. \A i \in DOMAIN Tail(up[s]) : i + 1 \in DOMAIN up[s] /\ Tail(up[s])[i] = up[s][i + 1]
      BY <1>2
    <3> QED BY <1>3, <1>8, <2>0, <3>1 DEF Stream, Following
  <2>5. Following'
    BY <1>1, <1>8, <2>3, <2>4 DEF Stream, Following, KeepsSubscribed, Subscribe
  <2>6. InOrder'
    BY <1>1, <1>5, <2>3 DEF Stream, InOrder
  <2> QED BY <2>5, <2>6 DEF Stream
<1> QED BY <1>7, <1>8

LEMMA DisconnectedStream ==
  ASSUME Typed, RegistryAgrees, Stream, NEW s \in Sockets, Disconnected(s)
  PROVE  Stream'
<1>1. s # sid /\ Remove({s})
      /\ UNCHANGED <<sid, page, buffered, scenario, link, troubled, heard, down, relayed>>
  BY DEF Disconnected, client
<1>2. \A g \in Games : joined'[g] = joined[g] \ {s}
  BY <1>1, RemoveAgrees DEF Typed
<1>3. \A x \in Sockets \ {s} : home'[x] = home[x] /\ up'[x] = up[x]
  BY <1>1, RemoveEffect DEF Typed
<1>4. sid # None => page \in Games /\ home'[sid] = home[sid] /\ up'[sid] = up[sid]
                    /\ \A g \in Games : sid \in joined'[g] <=> sid \in joined[g]
  BY <1>1, <1>2, <1>3 DEF Typed, TypeOK, Connection
<1>5. Following'
  BY <1>1, <1>4 DEF Stream, Following, KeepsSubscribed, Subscribe
<1>6. InOrder'
  BY <1>1, <1>4, DeliveryAssumption DEF Stream, InOrder
<1> QED BY <1>5, <1>6 DEF Stream

LEMMA RestartStream ==
  ASSUME Typed, RegistryAgrees, Stream, NEW w \in Gateways, Restart(w)
  PROVE  Stream'
<1> DEFINE S == { s \in Sockets : home[s] = w }
<1>1. Remove(S) /\ S \in SUBSET Sockets /\ UNCHANGED <<page, buffered, scenario>>
      /\ relayed' = [relayed EXCEPT ![w] = Len(bus)]
  BY DEF Restart
<1> HIDE DEF S
<1>2. CASE sid # None /\ home[sid] = w
  <2>1. sid' = None /\ link' = "connecting" /\ troubled' = (scenario = "kingdoms")
    BY <1>2 DEF Restart
  <2> QED BY <1>1, <2>1 DEF Stream, Following, KeepsSubscribed, InOrder, Subscribe
<1>3. CASE ~ (sid # None /\ home[sid] = w)
  <2>1. UNCHANGED <<link, sid, troubled, heard, down>>
    BY <1>3 DEF Restart
  <2>2. CASE sid = None
    BY <1>1, <2>1, <2>2 DEF Stream, Following, KeepsSubscribed, InOrder, Subscribe
  <2>3. CASE sid # None
    <3>1. sid \in Sockets /\ sid \notin S /\ page \in Games /\ home[sid] \in Gateways \ {w}
      BY <1>3, <2>3 DEF S, Typed, TypeOK, Connection
    <3>2. home'[sid] = home[sid] /\ up'[sid] = up[sid]
      BY <1>1, <3>1, RemoveEffect DEF Typed
    <3>3. \A g \in Games : sid \in joined'[g] <=> sid \in joined[g]
      BY <1>1, <3>1, RemoveAgrees DEF Typed
    <3>4. relayed'[home[sid]] = relayed[home[sid]]
      BY <1>1, <3>1 DEF Typed, TypeOK
    <3>5. Following'
      BY <1>1, <2>1, <3>1, <3>2, <3>3 DEF Stream, Following, KeepsSubscribed, Subscribe
    <3>6. InOrder'
      BY <1>1, <2>1, <3>2, <3>3, <3>4, DeliveryAssumption DEF Stream, InOrder
    <3> QED BY <3>5, <3>6 DEF Stream
  <2> QED BY <2>2, <2>3
<1> QED BY <1>2, <1>3

LEMMA ConnectStream ==
  ASSUME Typed, RegistryAgrees, Stream, NEW s \in Sockets, NEW w \in Gateways, Connect(s, w)
  PROVE  Stream'
<1>1. /\ sid' = s /\ link' = "connected" /\ troubled' = FALSE /\ buffered' = <<>>
      /\ UNCHANGED <<page, scenario, heard, down, relayed, joined>>
      /\ link = "connecting" /\ up' = [up EXCEPT ![s] = OnConnect]
  BY DEF Connect
<1>2. sid = None /\ heard = 0 /\ down = <<>> /\ page \in Games
  BY <1>1 DEF Typed, TypeOK, Connection
<1>3. up'[s] = OnConnect
  BY <1>1 DEF Typed, TypeOK
<1>4. /\ \A i \in DOMAIN OnConnect : OnConnect[i] = Subscribe(page)
      /\ scenario = "kingdoms" => \E i \in DOMAIN OnConnect : OnConnect[i] = Subscribe(page)
  <2>0. buffered \in Seq(Request) /\ Subscribe(page) \in Request
    BY <1>2 DEF Typed, TypeOK, Subscribe, Request
  <2> DEFINE q == Subscribe(page)
  <2>1. \A i \in DOMAIN buffered : buffered[i] = q
    BY DEF Stream, Following
  <2>2. CASE troubled
    <3>1. OnConnect = Append(buffered, q)
      BY <2>2 DEF OnConnect
    <3> HIDE DEF q
    <3>2. DOMAIN Append(buffered, q) = 1 .. Len(buffered) + 1 /\ Len(buffered) \in Nat
          /\ DOMAIN buffered = 1 .. Len(buffered)
          /\ Append(buffered, q)[Len(buffered) + 1] = q
          /\ \A i \in 1 .. Len(buffered) : Append(buffered, q)[i] = buffered[i]
      BY <2>0 DEF q
    <3>3. \A i \in DOMAIN Append(buffered, q) : Append(buffered, q)[i] = q
      BY <2>1, <3>2
    <3>4. Len(buffered) + 1 \in DOMAIN Append(buffered, q)
      BY <3>2
    <3> QED BY <3>1, <3>3, <3>4 DEF q
  <2>3. CASE ~ troubled
    <3>1. OnConnect = buffered
      BY <2>3 DEF OnConnect
    <3>2. scenario = "kingdoms" => 1 \in DOMAIN buffered
      BY <1>1, <2>0, <2>3 DEF Stream, Following
    <3> QED BY <2>1, <3>1, <3>2
  <2> QED BY <2>2, <2>3
<1>5. Subscribe(page)' = Subscribe(page)
  BY <1>1 DEF Subscribe
<1>6. Following'
  BY <1>1, <1>3, <1>4, <1>5 DEF Following, KeepsSubscribed
<1>7. InOrder'
  BY <1>1, <1>2 DEF InOrder
<1> QED BY <1>6, <1>7 DEF Stream

LEMMA OpenPageStream ==
  ASSUME Typed, Stream, NEW g \in Games, OpenPage(g)
  PROVE  Stream'
<1>1. /\ page' = g /\ link' = "connecting" /\ buffered' = <<Subscribe(g)>>
      /\ sid' = sid /\ page = None
  BY DEF OpenPage
<1>2. sid = None
  BY <1>1 DEF Typed, TypeOK, Connection
<1>3. Subscribe(page)' = Subscribe(g)
  BY <1>1 DEF Subscribe
<1>4. \A i \in DOMAIN buffered' : buffered'[i] = Subscribe(g)
  BY <1>1
<1>5. Following'
  BY <1>1, <1>2, <1>3, <1>4 DEF Following, KeepsSubscribed
<1> QED BY <1>1, <1>2, <1>5 DEF Stream, InOrder

\* Without a connection, only what the store keeps for the next one matters.
LEMMA NoConnectionStream ==
  ASSUME sid' = None,
         \A i \in DOMAIN buffered' : buffered'[i] = Subscribe(page'),
         scenario' = "kingdoms" /\ link' = "connecting" /\ ~ troubled' => buffered' # <<>>
  PROVE  Stream'
<1>1. Following'
  BY DEF Following, KeepsSubscribed, Subscribe
<1> QED BY <1>1 DEF Stream, InOrder

LEMMA BreakStream ==
  ASSUME Typed, Stream, Break
  PROVE  Stream'
<1>1. /\ sid' = None /\ troubled' = (scenario = "kingdoms")
      /\ UNCHANGED <<buffered, page, scenario>>
  BY DEF Break
<1>2. \A i \in DOMAIN buffered' : buffered'[i] = Subscribe(page')
  BY <1>1 DEF Stream, Following, Subscribe
<1> QED BY <1>1, <1>2, NoConnectionStream

LEMMA ClosePageStream ==
  ASSUME ClosePage
  PROVE  Stream'
<1>1. sid' = None /\ link' = "none" /\ buffered' = <<>>
  BY DEF ClosePage
<1> QED BY <1>1, NoConnectionStream

LEMMA ReceiveStream ==
  ASSUME Typed, Stream, Receive
  PROVE  Stream'
<1>1. /\ down # <<>> /\ heard' = Head(down) /\ down' = Tail(down)
      /\ UNCHANGED <<sid, up, page, buffered, scenario, link, troubled, joined, relayed, home>>
  BY DEF Receive, gateway
<1>2. Following'
  BY <1>1 DEF Stream, Following, KeepsSubscribed, Subscribe
<1>3. InOrder'
  <2> SUFFICES ASSUME sid # None
               PROVE  InOrder'
    BY <1>1 DEF InOrder
  <2>1. down \in Seq(1 .. Len(bus))
    BY DEF Typed, TypeOK
  <2>2. /\ heard' = down[1] /\ Len(down) \in Nat /\ Len(down) >= 1
        /\ Len(down') = Len(down) - 1 /\ down' \in Seq(1 .. Len(bus))
        /\ \A i \in 1 .. Len(down) - 1 : down'[i] = down[i + 1]
    BY <1>1, <2>1
  <2>3. \A i \in 1 .. Len(down) - 1 : down[i + 1] = down[i] + 1
    BY DEF Stream, InOrder
  <2>4. sid \in joined[Game] /\ down[Len(down)] = relayed[home[sid]]
    BY <1>1 DEF Stream, InOrder
  <2>5. \A i \in 1 .. Len(down') - 1 : down'[i + 1] = down'[i] + 1
    <3> TAKE i \in 1 .. Len(down') - 1
    <3>1. i \in 1 .. Len(down) - 1 /\ i + 1 \in 1 .. Len(down) - 1
      BY <2>2
    <3> QED BY <2>2, <2>3, <3>1
  <2>6. down' # <<>> => Len(down) >= 2
    BY <2>2
  <2>7. down' # <<>> => down'[1] = heard' + 1
    <3> SUFFICES ASSUME down' # <<>> PROVE down'[1] = heard' + 1
      OBVIOUS
    <3>1. 1 \in 1 .. Len(down) - 1
      BY <2>2, <2>6
    <3> QED BY <2>2, <2>3, <3>1
  <2>8. down' # <<>> => down'[Len(down')] = relayed[home[sid]]
    <3> SUFFICES ASSUME down' # <<>> PROVE down'[Len(down')] = relayed[home[sid]]
      OBVIOUS
    <3>1. Len(down') \in 1 .. Len(down) - 1 /\ Len(down') + 1 = Len(down)
      BY <2>2, <2>6
    <3> QED BY <2>2, <2>4, <3>1
  <2>9. down' = <<>> => heard' = relayed[home[sid]]
    <3> SUFFICES ASSUME down' = <<>> PROVE heard' = relayed[home[sid]]
      OBVIOUS
    <3>1. Len(down) = 1
      BY <2>2
    <3> QED BY <2>2, <2>4, <3>1
  <2> QED BY <1>1, <2>4, <2>5, <2>7, <2>8, <2>9 DEF InOrder
<1> QED BY <1>2, <1>3 DEF Stream

LEMMA StreamNext == Typed /\ RegistryAgrees /\ Stream /\ [Next]_vars => Stream'
<1> SUFFICES ASSUME Typed, RegistryAgrees, Stream, [Next]_vars PROVE Stream'
  OBVIOUS
<1>1. CASE EngineNext
  BY <1>1, EngineTyped, StreamUnchanged DEF gateway, wire, client
<1>2. CASE GatewayNext
  BY <1>2, RelayStream, RestartStream, HandleRequestStream, DisconnectedStream
  DEF GatewayNext
<1>3. CASE ClientNext
  <2>1. ASSUME NEW i \in DOMAIN fetches, ServeFetch(i) \/ Answer(i) PROVE Stream'
    BY <2>1, StreamUnchanged DEF ServeFetch, Answer, gateway, wire
  <2> QED BY <1>3, <2>1, ConnectStream, BreakStream, OpenPageStream, ClosePageStream,
             ReceiveStream
      DEF ClientNext, ConnectAny
<1>4. CASE UNCHANGED vars
  BY <1>4, StreamUnchanged DEF vars, gateway, wire, client
<1> QED BY <1>1, <1>2, <1>3, <1>4 DEF Next

LEMMA InitStream == Init => Stream
BY DEF Init, Stream, Following, InOrder, KeepsSubscribed

LEMMA StreamIsInSequence ==
  ASSUME Typed, Stream
  PROVE  EventsInSequence
<1> SUFFICES ASSUME sid # None PROVE EventsInSequence
  BY DEF EventsInSequence
<1> DEFINE line == (IF heard = 0 THEN <<>> ELSE <<heard>>) \o down
<1>1. down \in Seq(1 .. Len(bus)) /\ heard \in Nat /\ Len(down) \in Nat
  BY DEF Typed, TypeOK
<1>2. \A i \in 1 .. Len(down) - 1 : down[i + 1] = down[i] + 1
  BY DEF Stream, InOrder
<1>3. CASE heard = 0
  <2>1. line = down
    BY <1>1, <1>3
  <2> QED BY <1>2, <2>1 DEF Stream, InOrder, EventsInSequence
<1>4. CASE heard # 0
  <2>1. /\ line = <<heard>> \o down /\ Len(line) = Len(down) + 1 /\ line # <<>>
        /\ line[1] = heard /\ \A i \in 1 .. Len(down) : line[i + 1] = down[i]
    BY <1>1, <1>4
  <2>2. \A i \in 1 .. Len(line) - 1 : line[i + 1] = line[i] + 1
    <3> TAKE i \in 1 .. Len(line) - 1
    <3>1. i \in 1 .. Len(down)
      BY <1>1, <2>1
    <3>2. CASE i = 1
      BY <1>1, <1>4, <2>1, <3>1, <3>2 DEF Stream, InOrder
    <3>3. CASE i # 1
      <4>1. i - 1 \in 1 .. Len(down) - 1 /\ i - 1 \in 1 .. Len(down) /\ (i - 1) + 1 = i
        BY <1>1, <3>1, <3>3
      <4>2. line[i] = down[i - 1] /\ down[i] = down[i - 1] + 1 /\ line[i + 1] = down[i]
        BY <1>2, <2>1, <3>1, <4>1
      <4> QED BY <4>2
    <3> QED BY <3>2, <3>3
  <2>3. line[Len(line)] = relayed[home[sid]]
    <3>1. CASE down = <<>>
      BY <1>4, <2>1, <3>1 DEF Stream, InOrder
    <3>2. CASE down # <<>>
      <4>1. Len(down) \in 1 .. Len(down)
        BY <1>1, <3>2
      <4>2. line[Len(line)] = down[Len(down)]
        BY <2>1, <4>1
      <4> QED BY <3>2, <4>2 DEF Stream, InOrder
    <3> QED BY <3>1, <3>2
  <2> HIDE DEF line
  <2>4. EventsInSequence <=>
          /\ \A i \in 1 .. Len(line) - 1 : line[i + 1] = line[i] + 1
          /\ sid \in joined[Game] /\ line # <<>> => line[Len(line)] = relayed[home[sid]]
    BY DEF EventsInSequence, line
  <2> QED BY <2>2, <2>3, <2>4
<1> QED BY <1>3, <1>4

\* A connection gets every event from its subscription on, once and in the
\* order of publication (event-relay.service.ts:39-51): for any number of
\* gateways, connections, broken connections and restarts.
THEOREM EventsArriveInSequence == Spec => []EventsInSequence
<1> QED BY InitTyped, NextTyped, InitStream, StreamNext, StreamIsInSequence, RegistryIsRight,
           PTL DEF Spec

\* A connected Kingdoms page is subscribed or has its subscription under way
\* (kingdoms-game.ts:95-108).
THEOREM StaysSubscribed == Spec => []KeepsSubscribed
<1>1. Stream => KeepsSubscribed
  BY DEF Stream, Following
<1> QED BY <1>1, InitTyped, NextTyped, InitStream, StreamNext, RegistryIsRight, PTL DEF Spec

-----------------------------------------------------------------------------
(* What is announced *)

\* How many of the first m events of b announce a command.
CountTo(b, m) == Cardinality({ i \in 1 .. m : b[i].type = "applied" })

\* The count grows by one with every event that announces a command.
LEMMA CountFacts ==
  ASSUME NEW b
  PROVE  /\ CountTo(b, 0) = 0
         /\ \A m \in Nat : /\ CountTo(b, m) \in Nat
                           /\ CountTo(b, m + 1) = CountTo(b, m) + (IF b[m + 1].type = "applied" THEN 1 ELSE 0)
<1> DEFINE S(m) == { i \in 1 .. m : b[i].type = "applied" }
<1>1. S(0) = {}
  OBVIOUS
<1>2. ASSUME NEW m \in Nat
      PROVE  /\ Cardinality(S(m)) \in Nat
             /\ Cardinality(S(m + 1)) = Cardinality(S(m)) + (IF b[m + 1].type = "applied" THEN 1 ELSE 0)
  <2>1. IsFiniteSet(1 .. m) /\ S(m) \subseteq 1 .. m
    BY FS_Interval
  <2>2. IsFiniteSet(S(m))
    BY <2>1, FS_Subset
  <2>3. m + 1 \notin S(m)
    OBVIOUS
  <2>4. S(m + 1) = IF b[m + 1].type = "applied" THEN S(m) \cup {m + 1} ELSE S(m)
    <3>1. \A i : i \in 1 .. m + 1 <=> i \in 1 .. m \/ i = m + 1
      OBVIOUS
    <3>. QED  BY <3>1
  <2> HIDE DEF S
  <2>5. Cardinality(S(m)) \in Nat
    BY <2>2, FS_CardinalityType
  <2>6. Cardinality(S(m) \cup {m + 1}) = Cardinality(S(m)) + 1
    BY <2>2, <2>3, FS_AddElement
  <2>. QED  BY <2>4, <2>5, <2>6
<1>. QED  BY <1>1, <1>2, FS_EmptySet DEF CountTo

\* What is published later does not change the count.
LEMMA CountAppend ==
  ASSUME NEW b \in Seq(Event), NEW e \in Event, NEW m \in 0 .. Len(b)
  PROVE  CountTo(Append(b, e), m) = CountTo(b, m)
<1>1. \A i \in 1 .. m : Append(b, e)[i] = b[i]
  OBVIOUS
<1>2. { i \in 1 .. m : Append(b, e)[i].type = "applied" } = { i \in 1 .. m : b[i].type = "applied" }
  BY <1>1
<1>. QED  BY <1>2 DEF CountTo

\* The events announce the commands that were told, one by one, and the views
\* published and stored are on the way.
Announced ==
  /\ ~ over
  /\ stored # None => Leads(stored, told)
  /\ Len(told) = CountTo(bus, Len(bus))
  /\ \A i \in DOMAIN bus :
       /\ bus[i].type = "applied" =>
            CountTo(bus, i) \in DOMAIN told /\ bus[i].cmds = <<told[CountTo(bus, i)]>>
       /\ bus[i].type = "started" => Leads(bus[i].cmds, told) /\ Len(bus[i].cmds) <= CountTo(bus, i)
       /\ bus[i].type = "error" => bus[i].cmds = <<>>

\* The commands s that came first do so when t goes on.
Further(t, u) ==
  /\ \A s \in Seq(Commands) : Leads(s, t) => Leads(s, u)
  /\ \A k \in DOMAIN t : k \in DOMAIN u /\ u[k] = t[k]

\* A sequence that gets longer goes on from what it was.
LEMMA FurtherConcat ==
  ASSUME NEW t \in Seq(Commands), NEW c \in Commands
  PROVE  /\ Further(t, t) /\ Further(t, t \o <<c>>)
         /\ t \o <<c>> \in Seq(Commands) /\ Len(t \o <<c>>) = Len(t) + 1 /\ (t \o <<c>>)[Len(t) + 1] = c
<1>1. /\ Len(t) \in Nat /\ DOMAIN t = 1 .. Len(t) /\ DOMAIN (t \o <<c>>) = 1 .. Len(t) + 1
      /\ t \o <<c>> \in Seq(Commands) /\ Len(t \o <<c>>) = Len(t) + 1 /\ (t \o <<c>>)[Len(t) + 1] = c
      /\ \A k \in 1 .. Len(t) : (t \o <<c>>)[k] = t[k]
  OBVIOUS
<1>2. ASSUME NEW s \in Seq(Commands), Leads(s, t)  PROVE Leads(s, t \o <<c>>)
  <2>1. Len(s) \in Nat
    OBVIOUS
  <2>. QED  BY <1>1, <1>2, <2>1 DEF Leads
<1>. QED  BY <1>1, <1>2 DEF Further

\* Publishing one event, with the command it announces told, keeps Announced.
LEMMA BusGrows ==
  ASSUME Typed, Announced, NEW e \in Event, bus' = Append(bus, e), Further(told, told'), told' \in Seq(Commands),
         Len(told') = Len(told) + (IF e.type = "applied" THEN 1 ELSE 0),
         e.type = "applied" => e.cmds = <<told'[Len(told')]>>,
         e.type = "started" => Leads(e.cmds, told') /\ Len(e.cmds) <= Len(told'),
         e.type = "error" => e.cmds = <<>>,
         ~ over', stored' # None => Leads(stored', told')
  PROVE  Announced'
<1> DEFINE n == Len(bus)
<1>1. /\ bus \in Seq(Event) /\ n \in Nat /\ DOMAIN bus = 1 .. n /\ DOMAIN bus' = 1 .. n + 1
      /\ Len(bus') = n + 1 /\ bus'[n + 1] = e /\ \A i \in 1 .. n : bus'[i] = bus[i]
  BY DEF Typed, TypeOK
<1>2. \A m \in 0 .. n : CountTo(bus', m) = CountTo(bus, m) /\ CountTo(bus', m) \in Nat
  BY <1>1, CountAppend, CountFacts
<1>3. CountTo(bus', n + 1) = Len(told')
  <2>1. CountTo(bus', n + 1) = CountTo(bus', n) + (IF bus'[n + 1].type = "applied" THEN 1 ELSE 0)
    BY <1>1, CountFacts
  <2>2. CountTo(bus', n) = Len(told)
    BY <1>1, <1>2 DEF Announced
  <2>. QED  BY <1>1, <2>1, <2>2
<1>4. /\ told \in Seq(Commands) /\ Len(told) \in Nat /\ DOMAIN told' = 1 .. Len(told')
  BY DEF Typed, LogType
<1> HIDE DEF n
<1>5. ASSUME NEW i \in 1 .. n
      PROVE  /\ bus'[i].type = "applied" =>
                  CountTo(bus', i) \in DOMAIN told' /\ bus'[i].cmds = <<told'[CountTo(bus', i)]>>
             /\ bus'[i].type = "started" => Leads(bus'[i].cmds, told') /\ Len(bus'[i].cmds) <= CountTo(bus', i)
             /\ bus'[i].type = "error" => bus'[i].cmds = <<>>
  <2>1. bus'[i] = bus[i] /\ CountTo(bus', i) = CountTo(bus, i) /\ bus[i] \in Event
    BY <1>1, <1>2
  <2>2. bus[i].cmds \in Seq(Commands)
    BY <2>1 DEF Event
  <2>. QED  BY <1>1, <2>1, <2>2 DEF Announced, Further
<1>6. /\ e.type = "applied" => Len(told') \in DOMAIN told'
  BY <1>4
<1>7. \A i \in DOMAIN bus' :
        /\ bus'[i].type = "applied" =>
             CountTo(bus', i) \in DOMAIN told' /\ bus'[i].cmds = <<told'[CountTo(bus', i)]>>
        /\ bus'[i].type = "started" => Leads(bus'[i].cmds, told') /\ Len(bus'[i].cmds) <= CountTo(bus', i)
        /\ bus'[i].type = "error" => bus'[i].cmds = <<>>
  <2> TAKE i \in DOMAIN bus'
  <2>1. i \in 1 .. n \/ i = n + 1
    BY <1>1
  <2>. QED  BY <1>1, <1>3, <1>5, <1>6, <2>1
<1>. QED  BY <1>1, <1>3, <1>7 DEF Announced

\* The engine's steps: what is told and published only grows.
LEMMA EngineGrows ==
  ASSUME Typed, Announced, EngineNext
  PROVE  /\ Announced' /\ Further(told, told')
         /\ bus' = bus \/ \E e \in Event : bus' = Append(bus, e)
<1>1. told \in Seq(Commands) /\ (stored # None => stored \in Seq(Commands)) /\ bus \in Seq(Event)
  BY DEF Typed, LogType, TypeOK
<1>2. ASSUME NEW c \in Commands, Tell(<<c>>, FALSE), Publish("applied", <<c>>)
      PROVE  Announced' /\ Further(told, told') /\ \E e \in Event : bus' = Append(bus, e)
  <2> DEFINE e == [type |-> "applied", cmds |-> <<c>>]
  <2>1. /\ told' = told \o <<c>> /\ over' = (over \/ FALSE) /\ stored' = stored
        /\ bus' = Append(bus, e) /\ e \in Event
    BY <1>2 DEF Tell, Publish, Event
  <2>2. e.type = "applied" /\ e.cmds = <<c>>
    OBVIOUS
  <2> HIDE DEF e
  <2>3. /\ Further(told, told') /\ told' \in Seq(Commands) /\ Len(told') = Len(told) + 1
        /\ told'[Len(told')] = c
    BY <1>1, <2>1, FurtherConcat
  <2>4. stored' # None => Leads(stored', told')
    BY <1>1, <2>1, <2>3 DEF Announced, Further
  <2>5. ~ over'
    BY <2>1 DEF Announced
  <2>. QED  BY <2>1, <2>2, <2>3, <2>4, <2>5, BusGrows
<1>3. ASSUME NEW v, Keep(v), told' = told, over' = over
      PROVE  Leads(v, told) /\ ~ over' /\ stored' = v /\ Further(told, told')
  <2>1. Further(told, told)
    BY DEF Further
  <2>. QED  BY <1>3, <2>1 DEF Keep, Fits, Announced
<1>4. CASE EngineStores
  <2>1. PICK n \in 0 .. Len(told) : Store(SubSeq(told, 1, n))
    BY <1>4 DEF EngineStores
  <2>2. Leads(SubSeq(told, 1, n), told) /\ ~ over' /\ stored' = SubSeq(told, 1, n) /\ Further(told, told')
    BY <1>3, <2>1 DEF Store
  <2>3. told' = told /\ bus' = bus
    BY <1>4, <2>1 DEF EngineStores, Store
  <2>. QED  BY <2>2, <2>3 DEF Announced
<1>5. ASSUME EngineStarts
      PROVE  Announced' /\ Further(told, told') /\ \E e \in Event : bus' = Append(bus, e)
  <2> DEFINE e == [type |-> "started", cmds |-> stored]
  <2>1. /\ told' = told /\ over' = over /\ Keep(stored) /\ stored # None
        /\ bus' = Append(bus, e)
    BY <1>5 DEF EngineStarts, Start, Publish
  <2>2. e \in Event /\ e.type = "started" /\ e.cmds = stored
    BY <1>1, <2>1 DEF Event
  <2> HIDE DEF e
  <2>3. Leads(stored, told) /\ ~ over' /\ stored' = stored /\ Further(told, told')
    BY <1>3, <2>1
  <2>4. Len(stored) <= Len(told) /\ Len(told') = Len(told) + 0 /\ Len(told) \in Nat
    BY <1>1, <2>1, <2>3 DEF Leads
  <2>. QED  BY <1>1, <2>1, <2>2, <2>3, <2>4, BusGrows
<1>6. ASSUME EngineRefuses
      PROVE  Announced' /\ Further(told, told') /\ \E e \in Event : bus' = Append(bus, e)
  <2> DEFINE e == [type |-> "error", cmds |-> <<>>]
  <2>1. told' = told /\ over' = over /\ stored' = stored /\ bus' = Append(bus, e)
    BY <1>6 DEF EngineRefuses, Publish, log
  <2>2. e \in Event /\ e.type = "error" /\ e.cmds = <<>>
    <3>1. <<>> \in Seq(Commands)
      OBVIOUS
    <3>. QED  BY <3>1 DEF Event
  <2> HIDE DEF e
  <2>3. Further(told, told') /\ ~ over' /\ (stored' # None => Leads(stored', told'))
    BY <2>1 DEF Announced, Further
  <2>4. Len(told') = Len(told) + 0 /\ Len(told) \in Nat
    BY <1>1, <2>1
  <2>. QED  BY <1>1, <2>1, <2>2, <2>3, <2>4, BusGrows
<1>. QED  BY <1>2, <1>4, <1>5, <1>6 DEF EngineNext, EngineApplies

\* Gateways and pages publish nothing, so every step keeps Announced.
LEMMA AnnouncedNext == Typed /\ Announced /\ [Next]_vars => Announced'
<1> SUFFICES ASSUME Typed, Announced, [Next]_vars PROVE Announced'
  OBVIOUS
<1>1. CASE EngineNext
  BY <1>1, EngineGrows
<1>2. CASE UNCHANGED engine
  BY <1>2 DEF engine, log, Announced
<1>. QED  BY <1>1, <1>2, ZenonT(40) DEF Next, vars, GatewayNext, ClientNext, ConnectAny, Relay, Restart,
     HandleRequest, Disconnected, Connect, Break, OpenPage, ClosePage, Receive, ServeFetch, Answer

-----------------------------------------------------------------------------
(* Who hears of the game *)

\* A connection is in the room of its page only, and has sent all it had to.
\* A Frontier page subscribes once: when the connection on which it saw the
\* start is gone, it hears nothing any more (store/game.ts:233-262).
Reception ==
  /\ scenario = "frontier" => ~ troubled
  /\ sid # None => buffered = <<>> /\ \A g \in Games : sid \in joined[g] => g = page
  /\ page = None => ~ sawStart
  /\ scenario = "frontier" /\ sawStart => buffered = <<>>
  /\ scenario = "frontier" /\ sawStart /\ heard = 0 =>
       down = <<>> /\ (sid # None => up[sid] = <<>> /\ \A g \in Games : sid \notin joined[g])

\* Steps that leave rooms, requests and connections alone.
LEMMA ReceptionUnchanged ==
  ASSUME Reception,
         UNCHANGED <<scenario, troubled, sid, buffered, joined, page, sawStart, heard, down, up>>
  PROVE  Reception'
BY DEF Reception

\* A relayed event only goes to connections in the room.
LEMMA RelayReception ==
  ASSUME Typed, RegistryAgrees, Reception, NEW w \in Gateways, Relay(w)
  PROVE  Reception'
<1>1. /\ UNCHANGED <<scenario, troubled, sid, buffered, joined, page, sawStart, heard, up>>
      /\ down' = IF sid \in Receivers(w, bus[relayed[w] + 1]) THEN Append(down, relayed[w] + 1) ELSE down
  BY DEF Relay, client
<1>2. sid \notin joined[Game] => sid \notin Receivers(w, bus[relayed[w] + 1])
  BY DeliveryAssumption DEF Receivers, RegistryAgrees
<1>3. sid = None => sid \notin joined[Game]
  BY DeliveryAssumption DEF Typed, TypeOK, Sockets
<1>4. scenario = "frontier" /\ sawStart /\ heard = 0 => sid \notin joined[Game]
  BY <1>3, DeliveryAssumption DEF Reception
<1>. QED  BY <1>1, <1>2, <1>4 DEF Reception

\* A gateway that handles a request (realtime.gateway.ts).
LEMMA HandleRequestReception ==
  ASSUME Typed, Stream, Reception, NEW s \in Sockets, HandleRequest(s)
  PROVE  Reception'
<1> DEFINE q == Head(up[s])
<1>1. /\ up[s] # <<>> /\ up' = [up EXCEPT ![s] = Tail(@)]
      /\ Attach(s, q.game) \/ Detach(s, q.game)
      /\ q.op = "subscribe" \/ Detach(s, q.game)
      /\ UNCHANGED <<scenario, troubled, sid, buffered, page, sawStart, heard, down>>
  BY DEF HandleRequest, client
<1>2. \A x \in Sockets \ {s} : up'[x] = up[x] /\ \A g \in Games : x \in joined'[g] <=> x \in joined[g]
  <2>1. \A x \in Sockets \ {s} : up'[x] = up[x]
    BY <1>1 DEF Typed, TypeOK
  <2> DEFINE h == q.game
  <2>2. joined' = [joined EXCEPT ![h] = @ \cup {s}] \/ joined' = [joined EXCEPT ![h] = @ \ {s}]
    BY <1>1 DEF Attach, Detach
  <2> HIDE DEF h
  <2>3. \A x \in Sockets \ {s} : \A g \in Games : x \in joined'[g] <=> x \in joined[g]
    <3>1. joined \in [Games -> SUBSET Sockets]
      BY DEF Typed, TypeOK
    <3>2. CASE joined' = [joined EXCEPT ![h] = @ \cup {s}]
      BY <3>1, <3>2
    <3>3. CASE joined' = [joined EXCEPT ![h] = @ \ {s}]
      BY <3>1, <3>3
    <3>. QED  BY <2>2, <3>2, <3>3
  <2>. QED  BY <2>1, <2>3
<1>3. ASSUME sid = s
      PROVE  q.game = page /\ \A g \in Games : s \in joined'[g] => s \in joined[g] \/ g = q.game
  <2>1. s # None /\ up[s] \in Seq(Request)
    BY DeliveryAssumption DEF Typed, TypeOK, Sockets
  <2>2. 1 \in DOMAIN up[s] /\ Head(up[s]) = up[s][1]
    BY <1>1, <2>1
  <2>3. q = Subscribe(page)
    BY <1>3, <2>1, <2>2 DEF Stream, Following
  <2> HIDE DEF q
  <2>4. q.game = page
    BY <2>3 DEF Subscribe
  <2>5. \A g \in Games : s \in joined'[g] => s \in joined[g] \/ g = q.game
    BY <1>1 DEF Attach, Detach, Typed, TypeOK
  <2>. QED  BY <2>4, <2>5
<1>4. sid \in Sockets \cup {None}
  BY DEF Typed, TypeOK
<1> HIDE DEF q
<1>5. CASE sid = s
  BY <1>1, <1>3, <1>5, DeliveryAssumption DEF Reception, Sockets
<1>6. CASE sid # s
  BY <1>1, <1>2, <1>4, <1>6 DEF Reception
<1>. QED  BY <1>5, <1>6

\* A late disconnect is of a connection no page uses any more.
LEMMA DisconnectedReception ==
  ASSUME Typed, Reception, NEW s \in Sockets, Disconnected(s)
  PROVE  Reception'
<1>1. /\ s # sid /\ Remove({s})
      /\ UNCHANGED <<scenario, troubled, sid, buffered, page, sawStart, heard, down>>
  BY DEF Disconnected, client
<1>2. \A x \in Sockets \ {s} : up'[x] = up[x]
  BY <1>1 DEF Remove
<1>3. \A g \in Games : joined'[g] \subseteq joined[g]
  BY <1>1 DEF Remove
<1>4. sid # None => sid \in Sockets \ {s}
  BY <1>1 DEF Typed, TypeOK
<1>. QED  BY <1>1, <1>2, <1>3, <1>4 DEF Reception

\* A gateway that restarts forgets its connections.
LEMMA RestartReception ==
  ASSUME Typed, Reception, NEW w \in Gateways, Restart(w)
  PROVE  Reception'
<1> DEFINE S == { s \in Sockets : home[s] = w }
<1>1. Remove(S) /\ UNCHANGED <<scenario, buffered, page, sawStart>>
  BY DEF Restart
<1>2. /\ \A x \in Sockets \ S : up'[x] = up[x]
      /\ \A g \in Games : joined'[g] \subseteq joined[g]
  BY <1>1 DEF Remove
<1>3. CASE sid # None /\ home[sid] = w
  <2>1. sid' = None /\ troubled' = (scenario = "kingdoms") /\ heard' = 0 /\ down' = <<>>
    BY <1>3 DEF Restart
  <2>. QED  BY <1>1, <2>1 DEF Reception
<1>4. CASE ~ (sid # None /\ home[sid] = w)
  <2>1. UNCHANGED <<sid, troubled, heard, down>>
    BY <1>4 DEF Restart
  <2>2. sid # None => sid \in Sockets \ S
    BY <1>4 DEF Typed, TypeOK
  <2>. QED  BY <1>1, <1>2, <2>1, <2>2 DEF Reception
<1>. QED  BY <1>3, <1>4

\* A new connection has heard nothing yet.
LEMMA ConnectReception ==
  ASSUME Typed, RegistryAgrees, Reception, NEW s \in Sockets, NEW w \in Gateways, Connect(s, w)
  PROVE  Reception'
<1>1. /\ link = "connecting" /\ home[s] = None
      /\ sid' = s /\ up' = [up EXCEPT ![s] = OnConnect] /\ buffered' = <<>> /\ troubled' = FALSE
      /\ UNCHANGED <<scenario, joined, page, sawStart, heard, down>>
  BY DEF Connect
<1>2. sid = None /\ down = <<>> /\ up'[s] = OnConnect
  BY <1>1 DEF Typed, TypeOK, Connection
<1>3. \A g \in Games : s \notin joined[g]
  BY <1>1 DEF RegistryAgrees
<1>4. scenario = "frontier" /\ sawStart => OnConnect = <<>>
  BY DEF Reception, OnConnect
<1>. QED  BY <1>1, <1>2, <1>3, <1>4 DEF Reception

\* The page opens, closes, loses its connection or hears an event.
LEMMA ClientReception ==
  ASSUME Typed, Reception,
         \/ Break \/ ClosePage \/ Receive \/ \E g \in Games : OpenPage(g)
         \/ \E i \in DOMAIN fetches : ServeFetch(i) \/ Answer(i)
  PROVE  Reception'
<1>1. ASSUME Break  PROVE Reception'
  <2>1. /\ sid' = None /\ troubled' = (scenario = "kingdoms") /\ heard' = 0 /\ down' = <<>>
        /\ UNCHANGED <<scenario, buffered, page, sawStart>>
    BY <1>1 DEF Break
  <2>. QED  BY <2>1 DEF Reception
<1>2. ASSUME NEW g \in Games, OpenPage(g)  PROVE Reception'
  <2>1. /\ page = None /\ troubled' = FALSE /\ UNCHANGED <<scenario, sid, sawStart>>
    BY <1>2 DEF OpenPage
  <2>2. ~ sawStart /\ sid = None
    BY <2>1 DEF Reception, Typed, TypeOK, Connection
  <2>. QED  BY <2>1, <2>2 DEF Reception
<1>3. ASSUME ClosePage  PROVE Reception'
  BY <1>3 DEF ClosePage, Reception
<1>4. ASSUME Receive  PROVE Reception'
  <2>1. /\ down # <<>> /\ heard' = Head(down)
        /\ UNCHANGED <<scenario, troubled, sid, buffered, joined, page, up>>
    BY <1>4 DEF Receive, gateway
  <2>2. sid # None /\ page # None
    BY <2>1 DEF Typed, TypeOK, Connection
  <2>3. heard' # 0
    <3>1. down \in Seq(1 .. Len(bus))
      BY DEF Typed, TypeOK
    <3>2. Head(down) \in 1 .. Len(bus)
      BY <2>1, <3>1
    <3>. QED  BY <2>1, <3>2
  <2>. QED  BY <2>1, <2>2, <2>3 DEF Reception
<1>5. ASSUME NEW i \in DOMAIN fetches, ServeFetch(i) \/ Answer(i)  PROVE Reception'
  BY <1>5, ReceptionUnchanged DEF ServeFetch, Answer, gateway, wire
<1>. QED  BY <1>1, <1>2, <1>3, <1>4, <1>5

\* Every step keeps Reception.
LEMMA ReceptionNext == Typed /\ RegistryAgrees /\ Stream /\ Reception /\ [Next]_vars => Reception'
<1> SUFFICES ASSUME Typed, RegistryAgrees, Stream, Reception, [Next]_vars PROVE Reception'
  OBVIOUS
<1>1. CASE EngineNext
  BY <1>1, EngineTyped, ReceptionUnchanged DEF gateway, wire, client
<1>2. CASE GatewayNext
  BY <1>2, RelayReception, RestartReception, HandleRequestReception, DisconnectedReception
  DEF GatewayNext
<1>3. CASE ClientNext
  BY <1>3, ConnectReception, ClientReception DEF ClientNext, ConnectAny
<1>4. CASE UNCHANGED vars
  BY <1>4, ReceptionUnchanged DEF vars, gateway, wire, client
<1>. QED  BY <1>1, <1>2, <1>3, <1>4 DEF Next

-----------------------------------------------------------------------------
(* Views *)

\* An answer under way is a view that was stored.
FetchesReal ==
  \A i \in DOMAIN fetches :
    LET a == fetches[i].answer IN a # None /\ a.game = Game => Leads(a.cmds, told)

\* The page of Kingdoms shows a view that was stored.  The page of Frontier
\* shows, from the start on, the commands announced by the events it heard.
ShownReal ==
  /\ scenario = "kingdoms" /\ view # None /\ view.game = Game => Leads(view.cmds, told)
  /\ scenario = "frontier" /\ sawStart =>
       /\ view # None
       /\ StartCameFirst =>
            /\ view.game = Game /\ Leads(view.cmds, told)
            /\ heard # 0 => Len(view.cmds) = CountTo(bus, heard)

\* What is told goes on, and what is heard stays or is forgotten.
LEMMA ShownUnchanged ==
  ASSUME Typed, ShownReal, Further(told, told'), bus' = bus \/ \E e \in Event : bus' = Append(bus, e),
         UNCHANGED <<scenario, view, sawStart>>, heard' \in {heard, 0}
  PROVE  ShownReal'
<1>1. bus \in Seq(Event) /\ heard \in 0 .. Len(bus) /\ (view # None => view.cmds \in Seq(Commands))
  BY DEF Typed, TypeOK, View
<1>2. view # None /\ Leads(view.cmds, told) => Leads(view.cmds, told')
  BY <1>1 DEF Further
<1>3. CountTo(bus', heard) = CountTo(bus, heard)
  BY <1>1, CountAppend
<1>4. StartCameFirst' => StartCameFirst
  <2>1. \A i \in DOMAIN bus : i \in DOMAIN bus' /\ bus'[i] = bus[i]
    BY <1>1
  <2>. QED  BY <2>1 DEF StartCameFirst
<1>. QED  BY <1>2, <1>3, <1>4 DEF ShownReal

\* A request that was just sent has no answer yet.
LEMMA FetchesSent ==
  ASSUME Typed, FetchesReal, Further(told, told'), fetches' = fetches \/ \E g \in Games : SendFetch(g)
  PROVE  FetchesReal'
<1>1. fetches \in Seq(Fetch)
  BY DEF Typed, TypeOK
<1>2. \A i \in DOMAIN fetches : fetches[i].answer # None => fetches[i].answer.cmds \in Seq(Commands)
  <2>1. \A i \in DOMAIN fetches : fetches[i] \in Fetch
    BY <1>1
  <2>. QED  BY <2>1 DEF Fetch, View
<1>3. \A i \in DOMAIN fetches :
        LET a == fetches[i].answer IN a # None /\ a.game = Game => Leads(a.cmds, told')
  BY <1>2 DEF FetchesReal, Further
<1>4. ASSUME NEW g \in Games, SendFetch(g)  PROVE FetchesReal'
  <2> DEFINE f == [game |-> g, status |-> "sent", answer |-> None]
  <2>1. fetches' = Append(fetches, f) /\ f.answer = None
    BY <1>4 DEF SendFetch
  <2> HIDE DEF f
  <2>2. \A i \in DOMAIN fetches' : (i \in DOMAIN fetches /\ fetches'[i] = fetches[i]) \/ fetches'[i] = f
    BY <1>1, <2>1
  <2>. QED  BY <1>3, <2>1, <2>2 DEF FetchesReal
<1>. QED  BY <1>3, <1>4 DEF FetchesReal

\* The page hears the next event: the view goes on by what it announces.
LEMMA ReceiveReal ==
  ASSUME Typed, Stream, Reception, Announced, ShownReal, Receive
  PROVE  ShownReal'
<1> DEFINE n == Head(down)
           e == bus[n]
<1>1. /\ down # <<>> /\ heard' = n /\ sawStart' = (sawStart \/ e.type = "started")
      /\ scenario = "frontier" \/ e.type = "started" => view' = ShownAfter(e)
      /\ ~ (scenario = "frontier" \/ e.type = "started") => view' = view
      /\ UNCHANGED <<told, bus, scenario, page>>
  BY DEF Receive, engine, log
<1>2. /\ down \in Seq(1 .. Len(bus)) /\ bus \in Seq(Event) /\ heard \in Nat /\ page \in Games
      /\ sid \in Sockets /\ sid # None
  BY <1>1 DEF Typed, TypeOK, Connection
<1>3. n = down[1] /\ n \in 1 .. Len(bus) /\ n \in DOMAIN bus /\ n \in Nat
  BY <1>1, <1>2
<1>4. e \in Event /\ e.cmds \in Seq(Commands) /\ e.type \in {"started", "applied", "error"}
  <2> HIDE DEF n
  <2>1. bus[n] \in Event
    BY <1>2, <1>3
  <2>. QED  BY <2>1 DEF Event
<1>5. page = Game
  BY <1>1, <1>2, DeliveryAssumption DEF Stream, InOrder, Reception
<1>6. heard # 0 => n = heard + 1
  BY <1>1, <1>2, <1>3 DEF Stream, InOrder
<1>7. /\ e.type = "applied" => CountTo(bus, n) \in DOMAIN told /\ e.cmds = <<told[CountTo(bus, n)]>>
      /\ e.type = "started" => Leads(e.cmds, told) /\ Len(e.cmds) <= CountTo(bus, n)
      /\ e.type = "error" => e.cmds = <<>>
  BY <1>3 DEF Announced
<1>8. told \in Seq(Commands)
  BY DEF Typed, LogType
<1>9. StartCameFirst' <=> StartCameFirst
  BY <1>1 DEF StartCameFirst
<1> HIDE DEF n
<1>10. CASE e.type = "started"
  <2>1. view' = [game |-> page, cmds |-> e.cmds]
    BY <1>1, <1>10 DEF ShownAfter
  <2>2. view' # None /\ view'.game = Game /\ view'.cmds = e.cmds
    <3>1. view' \in View
      BY <1>2, <1>4, <2>1 DEF View
    <3>. QED  BY <1>5, <2>1, <3>1, NoneAssumption
  <2>3. StartCameFirst => Len(e.cmds) = CountTo(bus, n)
    <3> SUFFICES ASSUME StartCameFirst PROVE Len(e.cmds) = CountTo(bus, n)
      OBVIOUS
    <3>1. \A j \in 1 .. n : bus[j].type # "applied"
      <4> TAKE j \in 1 .. n
      <4>1. j \in DOMAIN bus /\ ~ (n < j)
        BY <1>2, <1>3
      <4>. QED  BY <1>3, <1>10, <4>1 DEF StartCameFirst
    <3>2. CountTo(bus, n) = 0
      <4>1. { j \in 1 .. n : bus[j].type = "applied" } = {}
        BY <3>1
      <4>. QED  BY <4>1, FS_EmptySet DEF CountTo
    <3>3. Len(e.cmds) \in Nat
      BY <1>4
    <3>. QED  BY <1>7, <1>10, <3>2, <3>3
  <2>. QED  BY <1>1, <1>7, <1>9, <1>10, <2>2, <2>3 DEF ShownReal
<1>11. CASE e.type # "started"
  <2>1. sawStart' = sawStart
    BY <1>1, <1>11 DEF Typed, TypeOK
  <2>2. CASE scenario = "kingdoms"
    <3>1. view' = view
      BY <1>1, <1>11, <2>2
    <3>. QED  BY <1>1, <2>2, <3>1 DEF ShownReal
  <2>3. CASE scenario = "frontier" /\ ~ sawStart
    BY <1>1, <2>1, <2>3 DEF ShownReal
  <2>4. CASE scenario = "frontier" /\ sawStart
    <3>1. heard # 0 /\ n = heard + 1
      BY <1>1, <1>6, <2>4 DEF Reception
    <3>2. view # None /\ view \in View
      BY <2>4 DEF ShownReal, Typed, TypeOK
    <3>3. view' = [view EXCEPT !.cmds = @ \o e.cmds]
      BY <1>1, <1>11, <2>4, <3>2 DEF ShownAfter
    <3>4. view.cmds \in Seq(Commands) /\ view.cmds \o e.cmds \in Seq(Commands)
      BY <1>4, <3>2 DEF View
    <3>5. view' \in View /\ view'.game = view.game /\ view'.cmds = view.cmds \o e.cmds
      BY <3>2, <3>3, <3>4 DEF View
    <3>6. view' # None
      BY <3>5, NoneAssumption
    <3>7. ASSUME StartCameFirst
          PROVE  /\ view'.game = Game /\ Leads(view'.cmds, told)
                 /\ Len(view'.cmds) = CountTo(bus, n)
      <4>1. /\ view.game = Game /\ Leads(view.cmds, told)
            /\ Len(view.cmds) = CountTo(bus, heard)
        BY <2>4, <3>1, <3>7 DEF ShownReal
      <4>2. CountTo(bus, n) = CountTo(bus, heard) + (IF e.type = "applied" THEN 1 ELSE 0)
        BY <1>2, <3>1, CountFacts
      <4> DEFINE v == view.cmds
                 k == CountTo(bus, n)
      <4>3. CASE e.type = "applied"
        <5>1. k \in 1 .. Len(told) /\ e.cmds = <<told[k]>> /\ k = Len(v) + 1
          BY <1>7, <1>8, <4>1, <4>2, <4>3
        <5>2. /\ Len(v \o e.cmds) = k /\ (v \o e.cmds)[k] = told[k]
              /\ \A j \in 1 .. Len(v) : (v \o e.cmds)[j] = v[j]
          BY <3>4, <5>1
        <5>3. Leads(v, told) /\ Len(v) \in Nat
          BY <3>4, <4>1
        <5> HIDE DEF v, k
        <5>4. Leads(v \o e.cmds, told)
          <6>1. \A j \in 1 .. k : j \in 1 .. Len(v) \/ j = k
            BY <5>1, <5>3
          <6>2. k <= Len(told)
            BY <5>1
          <6>. QED  BY <5>2, <5>3, <6>1, <6>2 DEF Leads
        <5>. QED  BY <3>5, <4>1, <5>2, <5>4 DEF v, k
      <4>4. CASE e.type = "error"
        <5>1. v \o e.cmds = v
          <6>1. e.cmds = << >> /\ v \in Seq(Commands)
            BY <1>7, <3>4, <4>4
          <6> HIDE DEF v
          <6>2. v \o << >> = v
            BY <6>1
          <6>. QED  BY <6>1, <6>2
        <5>2. k = CountTo(bus, heard) + 0 /\ CountTo(bus, heard) \in Nat
          BY <1>2, <4>2, <4>4, CountFacts
        <5>. QED  BY <3>5, <4>1, <5>1, <5>2
      <4>. QED  BY <1>4, <1>11, <4>3, <4>4
    <3>. QED  BY <1>1, <1>9, <2>1, <2>4, <3>6, <3>7 DEF ShownReal
  <2>. QED  BY <2>2, <2>3, <2>4 DEF Typed, TypeOK
<1>. QED  BY <1>10, <1>11

\* The service answers with the view that is stored.
LEMMA ServeReal ==
  ASSUME Typed, Announced, FetchesReal, ShownReal, NEW i \in DOMAIN fetches, ServeFetch(i)
  PROVE  FetchesReal' /\ ShownReal'
<1> DEFINE f == fetches[i]
           a == IF f.game # Game THEN [game |-> f.game, cmds |-> <<>>]
                ELSE IF stored = None THEN None ELSE [game |-> Game, cmds |-> stored]
<1>1. /\ fetches' = [fetches EXCEPT ![i].status = "answered", ![i].answer = a]
      /\ UNCHANGED <<told, bus, scenario, view, sawStart, heard>>
  BY DEF ServeFetch, engine, log
<1>2. fetches \in Seq(Fetch) /\ f \in Fetch
  BY DEF Typed, TypeOK
<1>3. a # None /\ a.game = Game => Leads(a.cmds, told)
  BY DEF Announced
<1> HIDE DEF a
<1>4. DOMAIN fetches' = DOMAIN fetches /\ fetches'[i].answer = a
      /\ \A j \in DOMAIN fetches \ {i} : fetches'[j] = fetches[j]
  BY <1>1, <1>2 DEF Fetch
<1>5. FetchesReal'
  BY <1>1, <1>3, <1>4 DEF FetchesReal
<1>6. Further(told, told')
  BY <1>1 DEF Further
<1>. QED  BY <1>1, <1>5, <1>6, ShownUnchanged

\* The answer arrives: Kingdoms shows it, Frontier only if it shows nothing.
LEMMA AnswerReal ==
  ASSUME Typed, FetchesReal, ShownReal, NEW i \in DOMAIN fetches, Answer(i)
  PROVE  FetchesReal' /\ ShownReal'
<1>1. /\ fetches' = SubSeq(fetches, 1, i - 1) \o SubSeq(fetches, i + 1, Len(fetches))
      /\ view' = ShownWith(fetches[i].answer)
      /\ UNCHANGED <<told, bus, scenario, sawStart, heard>>
  BY DEF Answer, engine, log
<1>2. fetches \in Seq(Fetch) /\ i \in 1 .. Len(fetches) /\ Len(fetches) \in Nat
  BY DEF Typed, TypeOK
<1>3. \A j \in DOMAIN fetches' : \E k \in DOMAIN fetches : fetches'[j] = fetches[k]
  <2> DEFINE p == SubSeq(fetches, 1, i - 1)
             q == SubSeq(fetches, i + 1, Len(fetches))
  <2>1. /\ p \in Seq(Fetch) /\ Len(p) = i - 1 /\ \A j \in 1 .. i - 1 : p[j] = fetches[j]
    BY <1>2
  <2>2. /\ q \in Seq(Fetch) /\ Len(q) = Len(fetches) - i
        /\ \A j \in 1 .. Len(fetches) - i : q[j] = fetches[j + i]
    BY <1>2
  <2> HIDE DEF p, q
  <2>3. \A j \in DOMAIN (p \o q) : \/ j \in 1 .. Len(p) /\ (p \o q)[j] = p[j]
                                   \/ j - Len(p) \in 1 .. Len(q) /\ (p \o q)[j] = q[j - Len(p)]
    BY <2>1, <2>2
  <2>4. \A j \in 1 .. i - 1 : j \in DOMAIN fetches
    BY <1>2
  <2>5. \A j \in 1 .. Len(fetches) - i : j + i \in DOMAIN fetches
    BY <1>2
  <2>6. fetches' = p \o q
    BY <1>1 DEF p, q
  <2>. QED  BY <2>1, <2>2, <2>3, <2>4, <2>5, <2>6
<1>4. FetchesReal'
  <2> DEFINE Right(f) == f.answer # None /\ f.answer.game = Game => Leads(f.answer.cmds, told)
  <2>1. \A k \in DOMAIN fetches : Right(fetches[k])
    BY DEF FetchesReal
  <2> HIDE DEF Right
  <2>2. \A j \in DOMAIN fetches' : Right(fetches'[j])
    BY <1>3, <2>1
  <2>3. told' = told
    BY <1>1
  <2>. QED  BY <2>2, <2>3 DEF FetchesReal, Right
<1>5. CASE view' = view
  <2>1. Further(told, told')
    BY <1>1 DEF Further
  <2>. QED  BY <1>1, <1>4, <1>5, <2>1, ShownUnchanged
<1>6. CASE view' = fetches[i].answer /\ ~ (scenario = "frontier" /\ view # None)
  <2>1. ~ (scenario = "frontier" /\ sawStart)
    BY <1>6 DEF ShownReal
  <2>2. view' # None /\ view'.game = Game => Leads(view'.cmds, told)
    BY <1>6 DEF FetchesReal
  <2>. QED  BY <1>1, <1>4, <2>1, <2>2 DEF ShownReal
<1>. QED  BY <1>1, <1>5, <1>6 DEF ShownWith

\* Every step keeps the answers and the pages real.
LEMMA ViewsNext ==
  Typed /\ Stream /\ Reception /\ Announced /\ FetchesReal /\ ShownReal /\ [Next]_vars
    => FetchesReal' /\ ShownReal'
<1> SUFFICES ASSUME Typed, Stream, Reception, Announced, FetchesReal, ShownReal, [Next]_vars
             PROVE  FetchesReal' /\ ShownReal'
  OBVIOUS
<1>0. Further(told, told)
  BY DEF Further
<1>1. CASE EngineNext
  BY <1>1, EngineTyped, EngineGrows, FetchesSent, ShownUnchanged DEF client
<1>2. CASE GatewayNext
  <2>1. ASSUME NEW w \in Gateways, Relay(w) \/ Restart(w)
        PROVE  UNCHANGED <<told, bus, scenario, view, sawStart, fetches>> /\ heard' \in {heard, 0}
    BY <2>1 DEF Relay, Restart, engine, log, client
  <2>2. ASSUME NEW s \in Sockets, HandleRequest(s) \/ Disconnected(s)
        PROVE  UNCHANGED <<told, bus, scenario, view, sawStart, fetches>> /\ heard' \in {heard, 0}
    BY <2>2 DEF HandleRequest, Disconnected, engine, log, client
  <2>. QED  BY <1>0, <1>2, <2>1, <2>2, FetchesSent, ShownUnchanged DEF GatewayNext
<1>3. ASSUME NEW s \in Sockets, NEW w \in Gateways, Connect(s, w)  PROVE FetchesReal' /\ ShownReal'
  <2>1. /\ UNCHANGED <<told, bus, scenario, view, sawStart, heard>>
        /\ fetches' = fetches \/ SendFetch(page)
        /\ page \in Games
    <3>1. page # None
      BY <1>3 DEF Connect, Typed, Connection
    <3>. QED  BY <1>3, <3>1 DEF Connect, engine, log, Typed, TypeOK
  <2>. QED  BY <1>0, <2>1, FetchesSent, ShownUnchanged
<1>4. ASSUME Break \/ \E g \in Games : OpenPage(g)  PROVE FetchesReal' /\ ShownReal'
  <2>1. /\ UNCHANGED <<told, bus, scenario, view, sawStart>> /\ heard' \in {heard, 0}
        /\ fetches' = fetches \/ \E g \in Games : SendFetch(g)
    BY <1>4 DEF Break, OpenPage, engine, log
  <2>. QED  BY <1>0, <2>1, FetchesSent, ShownUnchanged
<1>5. CASE ClosePage
  <2>1. told' = told /\ fetches' = fetches /\ view' = None /\ sawStart' = FALSE
    BY <1>5 DEF ClosePage, engine, log
  <2>2. ShownReal'
    BY <2>1 DEF ShownReal
  <2>. QED  BY <1>0, <2>1, <2>2, FetchesSent
<1>6. CASE Receive
  <2>1. told' = told /\ page \in Games /\ (fetches' = fetches \/ SendFetch(page))
    <3>1. page # None
      BY <1>6 DEF Receive, Typed, TypeOK, Connection
    <3>. QED  BY <1>6, <3>1 DEF Receive, engine, log, Typed, TypeOK
  <2>. QED  BY <1>0, <1>6, <2>1, FetchesSent, ReceiveReal
<1>7. CASE UNCHANGED vars
  <2>1. UNCHANGED <<told, bus, scenario, view, sawStart, fetches, heard>>
    BY <1>7 DEF vars, engine, log, client
  <2>. QED  BY <1>0, <2>1, FetchesSent, ShownUnchanged
<1>. QED  BY <1>1, <1>2, <1>3, <1>4, <1>5, <1>6, <1>7, ServeReal, AnswerReal DEF Next, ClientNext, ConnectAny

\* The inductive invariant.
DeliveryInv == Typed /\ RegistryAgrees /\ Stream /\ Reception /\ Announced /\ FetchesReal /\ ShownReal

\* DeliveryInv holds initially and every step keeps it.
LEMMA DeliveryInvHolds == Spec => []DeliveryInv
<1>1. ASSUME Init  PROVE Reception /\ Announced /\ FetchesReal /\ ShownReal
  <2>1. told = <<>> /\ bus = <<>> /\ over = FALSE /\ stored = None /\ fetches = <<>>
    BY <1>1 DEF Init, LogInit
  <2>2. Reception /\ FetchesReal /\ ShownReal
    BY <1>1, <2>1 DEF Init, Reception, FetchesReal, ShownReal
  <2>3. Announced
    BY <2>1, CountFacts DEF Announced
  <2>. QED  BY <2>2, <2>3
<1>2. ASSUME DeliveryInv, Typed', RegistryAgrees', [Next]_vars  PROVE DeliveryInv'
  BY <1>2, StreamNext, ReceptionNext, AnnouncedNext, ViewsNext DEF DeliveryInv
<1>. QED  BY <1>1, <1>2, InitTyped, NextTyped, InitStream, RegistryIsRight, PTL DEF Spec, DeliveryInv

\* A page shows a state the game really went through: the Kingdoms page always,
\* the Frontier page from the start of the game on, if it saw the start and no
\* command came before, whatever answers to fetches are late
\* (kingdoms-game.ts:189-197, store/game.ts:237-242, 264).
THEOREM PagesShowRealStates == Spec => []ViewsAreReal
<1>1. DeliveryInv => ViewsAreReal
  BY DEF DeliveryInv, ShownReal, ViewsAreReal, Real, Fits
<1>. QED  BY <1>1, DeliveryInvHolds, PTL
=============================================================================
