---------------------------- MODULE EngineProofs ----------------------------
(***************************************************************************)
(* Proofs about the engine: any number of replicas, games, commands,       *)
(* crashes and failures.                                                   *)
(*                                                                         *)
(* The inductive invariant adds two facts to the types and to custody of   *)
(* the messages: where a game lives follows from the fate of its message   *)
(* (HomeOf), and the command that won is behind all others of its game in  *)
(* the queue of requests (WinnerLast).                                     *)
(***************************************************************************)
EXTENDS Engine, TLAPS

\* A game is in memory only where its message is being handled, or was.
HomeOf ==
  \A r \in Replicas, g \in Games :
    live[r][g] # None =>
      \/ status[g] = "handling" /\ consumer[g] = r
      \/ status[g] \in {"acked", "rejected"}

\* In a queue of requests, while command e waits for its save, no save of
\* game g is behind it; while it waits for its view, nothing of the game is.
LastIn(queue, g, e) ==
  \A k, j \in DOMAIN queue :
    queue[k].msg = e /\ GameOf(queue[j].msg) = g /\ queue[j].kind # "load" /\ j # k =>
      /\ queue[k].kind = "save" /\ queue[j].kind = "save" => j < k
      /\ queue[k].kind = "view" => j < k /\ queue[j].kind = "view"

\* The command that won is a command of the game and behind all others.
WinnerLast ==
  \A r \in Replicas, g \in Games :
    live[r][g] # None /\ live[r][g].endedBy # None =>
      /\ Target[live[r][g].endedBy] = g
      /\ LastIn(pending[r], g, live[r][g].endedBy)

-----------------------------------------------------------------------------
(* Queues *)

LEMMA TailFacts ==
  ASSUME NEW S, NEW q \in Seq(S), q # <<>>
  PROVE  /\ Tail(q) \in Seq(S) /\ Head(q) \in S /\ Head(q) = q[1] /\ 1 \in DOMAIN q
         /\ DOMAIN q = 1 .. Len(q) /\ Len(q) \in Nat /\ DOMAIN Tail(q) = 1 .. Len(q) - 1
         /\ \A i \in DOMAIN Tail(q) : i + 1 \in DOMAIN q /\ Tail(q)[i] = q[i + 1]
  OBVIOUS

LEMMA AppendFacts ==
  ASSUME NEW S, NEW q \in Seq(S), NEW x \in S
  PROVE  /\ Append(q, x) \in Seq(S) /\ Len(q) \in Nat
         /\ DOMAIN q = 1 .. Len(q) /\ DOMAIN Append(q, x) = 1 .. Len(q) + 1
         /\ \A i \in DOMAIN q : Append(q, x)[i] = q[i]
         /\ Append(q, x)[Len(q) + 1] = x
  OBVIOUS

-----------------------------------------------------------------------------
(* Types *)

LEMMA EventTypes ==
  /\ \A t \in {"error", "game-started"}, c \in Commands \cup {None}, v \in Snapshot \cup {None} :
       EngineEvent(t, c, v) \in Event
  /\ \A t \in {"applied", "game-ended"}, c \in Commands, n \in Nat : GameEvent(t, c, n) \in Event
  BY DEF EngineEvent, GameEvent, Event

LEMMA InstanceTypes ==
  /\ Fresh \in Instance
  /\ \A i \in Instance :
       /\ SnapshotOf(i) \in Snapshot
       /\ i.buffer \in Seq(Event)
       /\ Drained(i) \in Instance
       /\ \A m \in Messages : ViewFor(i, m) \in Snapshot
       /\ \A c \in Commands :
            /\ Execute(i, c) \in Instance
            /\ ExecuteAndWin(i, c) \in Instance
<1>1. Fresh \in Instance
  BY DEF Fresh, Instance
<1>2. ASSUME NEW i \in Instance
      PROVE  /\ SnapshotOf(i) \in Snapshot
             /\ i.buffer \in Seq(Event)
             /\ Drained(i) \in Instance
             /\ \A m \in Messages : ViewFor(i, m) \in Snapshot
  <2>1. i.log \in Seq(Commands) /\ i.buffer \in Seq(Event) /\ i.endedBy \in Commands \cup {None}
    BY DEF Instance
  <2>2. Drained(i) \in Instance
    BY <2>1 DEF Drained, Instance
  <2>3. SnapshotOf(i) \in Snapshot
    BY <2>1 DEF SnapshotOf, Snapshot
  <2>4. ASSUME NEW m \in Messages  PROVE ViewFor(i, m) \in Snapshot
    <3>1. (IF i.endedBy = m THEN m ELSE None) \in Commands \cup {None}
      BY <2>1
    <3>. QED  BY <2>1, <3>1 DEF ViewFor, Snapshot
  <2>. QED  BY <2>1, <2>2, <2>3, <2>4
<1>3. ASSUME NEW i \in Instance, NEW c \in Commands
      PROVE  Execute(i, c) \in Instance /\ ExecuteAndWin(i, c) \in Instance
  <2>1. /\ i.log \in Seq(Commands) /\ i.buffer \in Seq(Event) /\ i.endedBy \in Commands \cup {None}
    BY DEF Instance
  <2>2. NextSeq(i) \in Nat /\ NextSeq(i) + 1 \in Nat
    <3>1. Len(i.log) \in Nat
      BY <2>1
    <3>2. NextSeq(i) = Len(i.log) + 1 \/ NextSeq(i) = Len(i.log) + 2
      BY DEF NextSeq
    <3>. QED  BY <3>1, <3>2
  <2>3. Append(i.log, c) \in Seq(Commands)
    BY <2>1
  <2>4. Append(i.buffer, GameEvent("applied", c, NextSeq(i))) \in Seq(Event)
    BY <2>1, <2>2, EventTypes
  <2>5. Execute(i, c) = [log |-> Append(i.log, c), endedBy |-> i.endedBy,
                         buffer |-> Append(i.buffer, GameEvent("applied", c, NextSeq(i)))]
    BY DEF Execute
  <2>6. Execute(i, c) \in Instance
    BY <2>1, <2>3, <2>4, <2>5 DEF Instance
  <2>7. Append(Execute(i, c).buffer, GameEvent("game-ended", c, NextSeq(i) + 1)) \in Seq(Event)
    BY <2>2, <2>4, <2>5, EventTypes
  <2>8. ExecuteAndWin(i, c)
          = [log |-> Append(i.log, c), endedBy |-> c,
             buffer |-> Append(Execute(i, c).buffer, GameEvent("game-ended", c, NextSeq(i) + 1))]
    BY DEF ExecuteAndWin
  <2>. QED  BY <2>3, <2>6, <2>7, <2>8 DEF Instance
<1>. QED  BY <1>1, <1>2, <1>3

LEMMA InitTypes == Init => TypeOK
<1>. SUFFICES ASSUME Init PROVE TypeOK
  OBVIOUS
<1>1. /\ None \in Replicas \cup {None} /\ None \in Instance \cup {None} /\ None \in Snapshot \cup {None}
      /\ "unsent" \in Statuses /\ 0 \in 0 .. MaxCrashes /\ 0 \in 0 .. MaxFailures
  BY EngineAssumption DEF Statuses
<1>2. sent \in Seq(Messages) /\ inbox \in [Replicas -> Seq(Messages)]
  BY DEF Init
<1>3. pending \in [Replicas -> Seq(Request)] /\ events \in [Games -> Seq(Event)]
  BY DEF Init
<1>4. live \in [Replicas -> [Games -> Instance \cup {None}]]
  BY <1>1 DEF Init
<1>. QED  BY <1>1, <1>2, <1>3, <1>4 DEF Init, TypeOK

LEMMA MessageTypes ==
  /\ \A g \in Games : g \in Messages /\ GameOf(g) = g
  /\ \A c \in Commands : c \in Messages /\ GameOf(c) = Target[c] /\ Target[c] \in Games
  /\ \A m \in Messages : GameOf(m) \in Games
  BY EngineAssumption DEF Messages, GameOf

LEMMA FinishTypes ==
  ASSUME TypeOK, NEW m \in Messages, NEW fate \in {"acked", "rejected"}, Finish(m, fate)
  PROVE  /\ sent' \in Seq(Messages) /\ status' \in [Messages -> Statuses]
         /\ consumer' \in [Messages -> Replicas \cup {None}]
  BY DEF TypeOK, Finish, Statuses

LEMMA TakeTypes ==
  ASSUME TypeOK, NEW r \in Replicas, NEW m \in Messages, Take(r, m)
  PROVE  /\ inbox' \in [Replicas -> Seq(Messages)]
         /\ saved' \in [Games -> Snapshot \cup {None}] /\ view' \in [Games -> Snapshot \cup {None}]
         /\ crashes' \in 0 .. MaxCrashes /\ failures' \in 0 .. MaxFailures
<1>1. inbox[r] \in Seq(Messages) /\ inbox[r] # <<>>
  BY DEF TypeOK, Take
<1>2. Tail(inbox[r]) \in Seq(Messages)
  BY <1>1, TailFacts
<1>. QED  BY <1>2 DEF TypeOK, Take

LEMMA HandleTypes ==
  ASSUME TypeOK, NEW m \in Messages, Handle(m)
  PROVE  /\ sent' \in Seq(Messages) /\ status' \in [Messages -> Statuses]
         /\ consumer' \in [Messages -> Replicas \cup {None}]
  BY DEF TypeOK, Handle, Taken, Statuses

LEMMA RequestTypes ==
  \A m \in Messages, k \in {"load", "save", "view"}, v \in Snapshot \cup {None} :
    [msg |-> m, kind |-> k, value |-> v] \in Request
  BY DEF Request

LEMMA AwaitTypes ==
  ASSUME TypeOK, NEW r \in Replicas, NEW m \in Messages, NEW k \in {"load", "save", "view"},
         NEW v \in Snapshot \cup {None}, Await(r, m, k, v)
  PROVE  pending' \in [Replicas -> Seq(Request)]
<1>1. pending[r] \in Seq(Request)
  BY DEF TypeOK
<1>2. Append(pending[r], [msg |-> m, kind |-> k, value |-> v]) \in Seq(Request)
  BY <1>1, RequestTypes, AppendFacts
<1>. QED  BY <1>2 DEF TypeOK, Await

LEMMA HeadTypes ==
  ASSUME TypeOK, NEW r \in Replicas, pending[r] # <<>>
  PROVE  /\ pending[r] \in Seq(Request) /\ Tail(pending[r]) \in Seq(Request)
         /\ Head(pending[r]) \in Request /\ Head(pending[r]) = pending[r][1]
         /\ 1 \in DOMAIN pending[r] /\ Head(pending[r]).value \in Snapshot \cup {None}
<1>1. pending[r] \in Seq(Request)
  BY DEF TypeOK
<1>2. /\ Tail(pending[r]) \in Seq(Request) /\ Head(pending[r]) \in Request
      /\ Head(pending[r]) = pending[r][1] /\ 1 \in DOMAIN pending[r]
  BY <1>1, TailFacts
<1>. QED  BY <1>1, <1>2 DEF Request

LEMMA UpdateType ==
  ASSUME NEW D, NEW S, NEW f \in [D -> S], NEW d \in D, NEW x \in S
  PROVE  [f EXCEPT ![d] = x] \in [D -> S]
  OBVIOUS

LEMMA AnswerTypes ==
  ASSUME TypeOK, NEW r \in Replicas, pending[r] # <<>>
  PROVE  /\ Forget(r) => pending' \in [Replicas -> Seq(Request)]
         /\ \A m \in Messages, k \in {"load", "save", "view"}, v \in Snapshot \cup {None} :
              ForgetAndAwait(r, m, k, v) => pending' \in [Replicas -> Seq(Request)]
<1>1. Forget(r) => pending' \in [Replicas -> Seq(Request)]
  BY HeadTypes DEF TypeOK, Forget
<1>2. ASSUME NEW m \in Messages, NEW k \in {"load", "save", "view"}, NEW v \in Snapshot \cup {None},
             ForgetAndAwait(r, m, k, v)
      PROVE  pending' \in [Replicas -> Seq(Request)]
  <2>1. Append(Tail(pending[r]), [msg |-> m, kind |-> k, value |-> v]) \in Seq(Request)
    BY HeadTypes, RequestTypes, AppendFacts
  <2>2. pending' = [pending EXCEPT ![r] =
                      Append(Tail(pending[r]), [msg |-> m, kind |-> k, value |-> v])]
    BY <1>2 DEF ForgetAndAwait
  <2>3. pending \in [Replicas -> Seq(Request)]
    BY DEF TypeOK
  <2>. QED  BY <2>1, <2>2, <2>3, UpdateType
<1>. QED  BY <1>1, <1>2

LEMMA PublishTypes ==
  ASSUME TypeOK, NEW g \in Games, NEW es \in Seq(Event), Publish(g, es)
  PROVE  events' \in [Games -> Seq(Event)]
<1>1. events[g] \o es \in Seq(Event)
  BY DEF TypeOK
<1>. QED  BY <1>1 DEF TypeOK, Publish


LEMMA CrashTypes ==
  ASSUME TypeOK, NEW r \in Replicas, Crash(r)
  PROVE  TypeOK'
<1>1. sent' \in Seq(Messages) /\ events' \in [Games -> Seq(Event)]
  BY DEF Crash, TypeOK
<1>2. status' \in [Messages -> Statuses] /\ consumer' \in [Messages -> Replicas \cup {None}]
  <2>1. "ready" \in Statuses
    BY DEF Statuses
  <2>. QED  BY <2>1 DEF Crash, TypeOK
<1>3. inbox' \in [Replicas -> Seq(Messages)] /\ pending' \in [Replicas -> Seq(Request)]
  BY DEF Crash, TypeOK
<1>4. live' \in [Replicas -> [Games -> Instance \cup {None}]]
  BY DEF Crash, TypeOK
<1>5. saved' \in [Games -> Snapshot \cup {None}] /\ view' \in [Games -> Snapshot \cup {None}]
  <2>1. PICK n \in 0 .. Len(pending[r]) : \E s, v \in [Games -> 0 .. n] :
          /\ saved' = [g \in Games |-> IF s[g] = 0 THEN saved[g] ELSE pending[r][s[g]].value]
          /\ view' = [g \in Games |-> IF v[g] = 0 THEN view[g] ELSE pending[r][v[g]].value]
    BY DEF Crash
  <2>2. \A i \in 1 .. n : pending[r][i].value \in Snapshot \cup {None}
    <3>1. pending[r] \in Seq(Request)
      BY DEF TypeOK
    <3>2. \A i \in 1 .. n : pending[r][i] \in Request
      BY <3>1
    <3>. QED  BY <3>2 DEF Request
  <2>3. PICK s \in [Games -> 0 .. n], v \in [Games -> 0 .. n] :
          /\ saved' = [g \in Games |-> IF s[g] = 0 THEN saved[g] ELSE pending[r][s[g]].value]
          /\ view' = [g \in Games |-> IF v[g] = 0 THEN view[g] ELSE pending[r][v[g]].value]
    BY <2>1
  <2>4. \A g \in Games : s[g] # 0 => s[g] \in 1 .. n
    OBVIOUS
  <2>5. \A g \in Games : v[g] # 0 => v[g] \in 1 .. n
    OBVIOUS
  <2>. QED  BY <2>2, <2>3, <2>4, <2>5 DEF TypeOK
<1>6. crashes' \in 0 .. MaxCrashes /\ failures' \in 0 .. MaxFailures
  BY EngineAssumption DEF Crash, TypeOK
<1>. QED  BY <1>1, <1>2, <1>3, <1>4, <1>5, <1>6 DEF TypeOK
LEMMA LiveTypes ==
  ASSUME TypeOK, NEW r \in Replicas, NEW g \in Games, NEW x \in Instance \cup {None},
         live' = [live EXCEPT ![r][g] = x]
  PROVE  live' \in [Replicas -> [Games -> Instance \cup {None}]]
  BY DEF TypeOK

LEMMA HandlerHasGame ==
  ASSUME TypeOK, RemovedIsSilent, NEW r \in Replicas, NEW m \in Messages, NEW k \in {"save", "view"},
         Answered(r, m, k)
  PROVE  live[r][GameOf(m)] \in Instance
<1>1. pending[r][1].msg = m /\ pending[r][1].kind = k /\ 1 \in DOMAIN pending[r]
  BY HeadTypes DEF Answered
<1>2. live[r][GameOf(m)] # None
  BY <1>1 DEF RemovedIsSilent
<1>. QED  BY <1>2, MessageTypes DEF TypeOK

LEMMA BeginTypes ==
  ASSUME TypeOK, NEW r \in Replicas, Begin(r)
  PROVE  TypeOK'
<1>1. ASSUME NEW g \in Games, BeginCreate(r, g)  PROVE TypeOK'
  <2>1. Take(r, g) /\ Handle(g) /\ Await(r, g, "save", SnapshotOf(Fresh))
    BY <1>1 DEF BeginCreate
  <2>2. pending' \in [Replicas -> Seq(Request)]
    BY <2>1, AwaitTypes, InstanceTypes, MessageTypes
  <2>3. live' \in [Replicas -> [Games -> Instance \cup {None}]]
    BY <1>1, LiveTypes, InstanceTypes DEF BeginCreate
  <2>4. events' = events
    BY <1>1 DEF BeginCreate
  <2>. QED  BY <2>1, <2>2, <2>3, <2>4, TakeTypes, HandleTypes, MessageTypes DEF TypeOK
<1>2. ASSUME NEW c \in Commands, BeginForeign(r, c)  PROVE TypeOK'
  <2>1. Take(r, c) /\ Handle(c) /\ Await(r, c, "load", None)
    BY <1>2 DEF BeginForeign
  <2>2. pending' \in [Replicas -> Seq(Request)]
    BY <2>1, AwaitTypes, MessageTypes
  <2>3. live' = live /\ events' = events
    BY <1>2 DEF BeginForeign
  <2>. QED  BY <2>1, <2>2, <2>3, TakeTypes, HandleTypes, MessageTypes DEF TypeOK
<1>3. ASSUME NEW c \in Commands, Refuse(r, c)  PROVE TypeOK'
  <2>1. /\ Take(r, c) /\ Finish(c, "acked") /\ live' = live /\ pending' = pending
        /\ Publish(Target[c], <<EngineEvent("error", c, None)>>)
    BY <1>3 DEF Refuse
  <2>2. <<EngineEvent("error", c, None)>> \in Seq(Event)
    BY EventTypes
  <2>3. events' \in [Games -> Seq(Event)]
    BY <2>1, <2>2, PublishTypes, MessageTypes
  <2>. QED  BY <2>1, <2>3, TakeTypes, FinishTypes, MessageTypes DEF TypeOK
<1>4. ASSUME NEW c \in Commands, BeginCommand(r, c)  PROVE TypeOK'
  <2>1. live[r][Target[c]] \in Instance
    BY <1>4, MessageTypes DEF BeginCommand, TypeOK
  <2>2. PICK i \in Instance : Take(r, c) /\ Handle(c) /\ Accept(r, c, i)
    BY <1>4, <2>1, InstanceTypes DEF BeginCommand
  <2>3. pending' \in [Replicas -> Seq(Request)]
    BY <2>2, AwaitTypes, InstanceTypes, MessageTypes DEF Accept
  <2>4. live' \in [Replicas -> [Games -> Instance \cup {None}]]
    BY <2>2, LiveTypes, InstanceTypes, MessageTypes DEF Accept
  <2>5. events' \in [Games -> Seq(Event)]
    BY <2>2, PublishTypes, InstanceTypes, MessageTypes DEF Accept
  <2>. QED  BY <2>2, <2>3, <2>4, <2>5, TakeTypes, HandleTypes, MessageTypes DEF TypeOK
<1>5. ASSUME NEW c \in Commands, BeginLate(r, c)  PROVE TypeOK'
  <2>1. Take(r, c) /\ Finish(c, "rejected") /\ pending' = pending /\ events' = events
    BY <1>5 DEF BeginLate, Thrown
  <2>2. live[r][Target[c]] \in Instance
    BY <1>5, MessageTypes DEF BeginLate, TypeOK
  <2>3. live' \in [Replicas -> [Games -> Instance \cup {None}]]
    BY <1>5, <2>2, LiveTypes, InstanceTypes, MessageTypes DEF BeginLate
  <2>. QED  BY <2>1, <2>3, TakeTypes, FinishTypes, MessageTypes DEF TypeOK
<1>. QED  BY <1>1, <1>2, <1>3, <1>4, <1>5 DEF Begin

LEMMA ContinueTypes ==
  ASSUME TypeOK, RemovedIsSilent, NEW r \in Replicas, Continue(r)
  PROVE  TypeOK'
<1>1. ASSUME NEW g \in Games, CreateSaved(r, g)  PROVE TypeOK'
  <2>1. /\ Answered(r, g, "save") /\ pending[r] # <<>> /\ g \in Messages
        /\ ForgetAndAwait(r, g, "view", ViewFor(live[r][g], g))
        /\ Publish(g, live[r][g].buffer)
        /\ live' = [live EXCEPT ![r][g] = Drained(live[r][g])]
        /\ saved' = [saved EXCEPT ![g] = Head(pending[r]).value]
        /\ UNCHANGED <<broker, view, inbox, crashes, failures>>
    BY <1>1, MessageTypes DEF CreateSaved, Answered
  <2>2. live[r][g] \in Instance
    BY <2>1, HandlerHasGame, MessageTypes
  <2>3. pending' \in [Replicas -> Seq(Request)]
    BY <2>1, <2>2, AnswerTypes, InstanceTypes
  <2>4. live' \in [Replicas -> [Games -> Instance \cup {None}]]
    BY <2>1, <2>2, LiveTypes, InstanceTypes
  <2>5. events' \in [Games -> Seq(Event)]
    BY <2>1, <2>2, PublishTypes, InstanceTypes
  <2>6. saved' \in [Games -> Snapshot \cup {None}]
    BY <2>1, HeadTypes DEF TypeOK
  <2>. QED  BY <2>1, <2>3, <2>4, <2>5, <2>6 DEF TypeOK, broker
<1>2. ASSUME NEW g \in Games, CreateViewed(r, g)  PROVE TypeOK'
  <2>1. /\ pending[r] # <<>> /\ g \in Messages /\ Forget(r) /\ Finish(g, "acked")
        /\ Publish(g, <<EngineEvent("game-started", None, Head(pending[r]).value)>>)
        /\ view' = [view EXCEPT ![g] = Head(pending[r]).value]
        /\ UNCHANGED <<live, saved, inbox, crashes, failures>>
    BY <1>2, MessageTypes DEF CreateViewed, Answered
  <2>2. <<EngineEvent("game-started", None, Head(pending[r]).value)>> \in Seq(Event)
    <3>1. EngineEvent("game-started", None, Head(pending[r]).value) \in Event
      BY <2>1, HeadTypes, EventTypes
    <3>. QED  BY <3>1
  <2>3. events' \in [Games -> Seq(Event)]
    BY <2>1, <2>2, PublishTypes
  <2>4. view' \in [Games -> Snapshot \cup {None}]
    BY <2>1, HeadTypes DEF TypeOK
  <2>. QED  BY <2>1, <2>3, <2>4, AnswerTypes, FinishTypes DEF TypeOK
<1>3. ASSUME NEW c \in Commands, CommandSaved(r, c)  PROVE TypeOK'
  <2>1. /\ Answered(r, c, "save") /\ pending[r] # <<>> /\ c \in Messages
        /\ ForgetAndAwait(r, c, "view", ViewFor(live[r][Target[c]], c))
        /\ saved' = [saved EXCEPT ![Target[c]] = Head(pending[r]).value]
        /\ UNCHANGED <<broker, live, view, events, inbox, crashes, failures>>
    BY <1>3, MessageTypes DEF CommandSaved, Answered
  <2>2. live[r][Target[c]] \in Instance
    BY <2>1, HandlerHasGame, MessageTypes
  <2>3. pending' \in [Replicas -> Seq(Request)]
    BY <2>1, <2>2, AnswerTypes, InstanceTypes
  <2>4. saved' \in [Games -> Snapshot \cup {None}]
    BY <2>1, HeadTypes DEF TypeOK
  <2>. QED  BY <2>1, <2>3, <2>4 DEF TypeOK, broker
<1>4. ASSUME NEW c \in Commands, CommandViewed(r, c)  PROVE TypeOK'
  <2>1. /\ pending[r] # <<>> /\ c \in Messages /\ Forget(r) /\ Finish(c, "acked")
        /\ view' = [view EXCEPT ![Target[c]] = Head(pending[r]).value]
        /\ live' = live \/ live' = [live EXCEPT ![r][Target[c]] = None]
        /\ UNCHANGED <<saved, events, inbox, crashes, failures>>
    BY <1>4, MessageTypes DEF CommandViewed, Answered
  <2>2. live' \in [Replicas -> [Games -> Instance \cup {None}]]
    BY <2>1, LiveTypes, MessageTypes DEF TypeOK
  <2>3. view' \in [Games -> Snapshot \cup {None}]
    BY <2>1, HeadTypes DEF TypeOK
  <2>. QED  BY <2>1, <2>2, <2>3, AnswerTypes, FinishTypes DEF TypeOK
<1>5. ASSUME NEW c \in Commands, Loaded(r, c)  PROVE TypeOK'
  <2>1. /\ pending[r] # <<>> /\ c \in Messages /\ Forget(r) /\ Finish(c, "rejected")
        /\ UNCHANGED <<live, saved, view, events, inbox, crashes, failures>>
    BY <1>5, MessageTypes DEF Loaded, Answered, Thrown
  <2>. QED  BY <2>1, AnswerTypes, FinishTypes DEF TypeOK
<1>. QED  BY <1>1, <1>2, <1>3, <1>4, <1>5 DEF Continue
LEMMA TypeStep ==
  ASSUME TypeOK, RemovedIsSilent, [Next]_vars
  PROVE  TypeOK'
<1>1. ASSUME NEW m \in Messages, Send(m)  PROVE TypeOK'
  <2>1. Append(sent, m) \in Seq(Messages)
    BY AppendFacts DEF TypeOK
  <2>. QED  BY <1>1, <2>1 DEF Send, TypeOK, Statuses
<1>2. ASSUME NEW r \in Replicas, Deliver(r)  PROVE TypeOK'
  <2>1. PICK i \in DOMAIN sent :
          /\ status' = [status EXCEPT ![sent[i]] = "delivered"]
          /\ consumer' = [consumer EXCEPT ![sent[i]] = r]
          /\ inbox' = [inbox EXCEPT ![r] = Append(@, sent[i])]
          /\ UNCHANGED <<sent, pending, live, saved, view, events, crashes, failures>>
    BY <1>2 DEF Deliver, DeliveredOnce
  <2>2. sent[i] \in Messages
    BY DEF TypeOK
  <2>3. Append(inbox[r], sent[i]) \in Seq(Messages)
    BY <2>2, AppendFacts DEF TypeOK
  <2>4. inbox' \in [Replicas -> Seq(Messages)]
    BY <2>1, <2>3 DEF TypeOK
  <2>. QED  BY <2>1, <2>2, <2>4 DEF TypeOK, Statuses
<1>3. ASSUME NEW r \in Replicas, NEW m \in Messages, RequestFails(r, m)  PROVE TypeOK'
  <2>1. /\ pending[r] # <<>> /\ Forget(r) /\ Finish(m, "rejected")
        /\ failures < MaxFailures /\ failures' = failures + 1
        /\ UNCHANGED <<inbox, live, saved, view, events, crashes>>
    BY <1>3 DEF RequestFails, Thrown
  <2>2. failures' \in 0 .. MaxFailures
    BY <2>1, EngineAssumption DEF TypeOK
  <2>. QED  BY <2>1, <2>2, AnswerTypes, FinishTypes DEF TypeOK
<1>4. ASSUME UNCHANGED vars  PROVE TypeOK'
  BY <1>4 DEF vars, broker, TypeOK
<1>. QED  BY <1>1, <1>2, <1>3, <1>4, BeginTypes, ContinueTypes, CrashTypes DEF Next

-----------------------------------------------------------------------------
(* Custody *)

\* What a step does to the messages of replica r, one case per way to take,
\* hold and finish a message.
Begun(r, m) ==
  /\ Take(r, m) /\ Handle(m)
  /\ \E k \in {"load", "save", "view"}, v \in Snapshot \cup {None} : Await(r, m, k, v)

Declined(r, m) ==
  Take(r, m) /\ pending' = pending /\ \E fate \in {"acked", "rejected"} : Finish(m, fate)

Continued(r, m) ==
  /\ pending[r] # <<>> /\ Head(pending[r]).msg = m
  /\ UNCHANGED <<broker, inbox>>
  /\ \E k \in {"load", "save", "view"}, v \in Snapshot \cup {None} : ForgetAndAwait(r, m, k, v)

Finished(r, m) ==
  /\ pending[r] # <<>> /\ Head(pending[r]).msg = m
  /\ Forget(r) /\ inbox' = inbox
  /\ \E fate \in {"acked", "rejected"} : Finish(m, fate)

\* What is true of the messages in the inboxes and in the requests of a state
\* whose messages have the given status and consumer.
InboxesHold(box, st, at) ==
  \A s \in Replicas : \A i \in DOMAIN box[s] :
    /\ st[box[s][i]] = "delivered" /\ at[box[s][i]] = s
    /\ \A j \in DOMAIN box[s] : box[s][j] = box[s][i] => j = i

RequestsHold(req, st, at) ==
  \A s \in Replicas : \A i \in DOMAIN req[s] :
    /\ st[req[s][i].msg] = "handling" /\ at[req[s][i].msg] = s
    /\ \A j \in DOMAIN req[s] : req[s][j].msg = req[s][i].msg => j = i

LEMMA InHandParts ==
  /\ InHand <=> InboxesHold(inbox, status, consumer) /\ RequestsHold(pending, status, consumer)
  /\ InHand' <=> InboxesHold(inbox', status', consumer') /\ RequestsHold(pending', status', consumer')
  BY DEF InHand, InboxesHold, RequestsHold

\* A message that is taken is in no inbox any more.
LEMMA TakenInbox ==
  ASSUME TypeOK, InHand, NEW r \in Replicas, NEW m \in Messages, Take(r, m)
  PROVE  /\ status[m] = "delivered" /\ consumer[m] = r
         /\ InboxesHold(inbox', status, consumer)
         /\ \A s \in Replicas : \A i \in DOMAIN inbox'[s] : inbox'[s][i] \in Messages \ {m}
         /\ \A s \in Replicas : \A i \in DOMAIN pending[s] : pending[s][i].msg # m
<1>1. /\ inbox[r] \in Seq(Messages) /\ inbox[r] # <<>> /\ inbox[r][1] = m
      /\ 1 \in DOMAIN inbox[r]
      /\ \A i \in DOMAIN Tail(inbox[r]) :
           i \in Nat \ {0} /\ i + 1 \in DOMAIN inbox[r] /\ Tail(inbox[r])[i] = inbox[r][i + 1]
  BY TailFacts DEF TypeOK, Take
<1>2. inbox' = [inbox EXCEPT ![r] = Tail(inbox[r])]
  BY DEF Take
<1>3. status[m] = "delivered" /\ consumer[m] = r
  BY <1>1 DEF InHand
<1>4. ASSUME NEW s \in Replicas, NEW i \in DOMAIN inbox'[s]
      PROVE  /\ status[inbox'[s][i]] = "delivered" /\ consumer[inbox'[s][i]] = s
             /\ \A j \in DOMAIN inbox'[s] : inbox'[s][j] = inbox'[s][i] => j = i
             /\ inbox'[s][i] \in Messages \ {m}
  <2>1. CASE s = r
    <3>1. \A j \in DOMAIN inbox'[r] :
            j \in Nat \ {0} /\ j + 1 \in DOMAIN inbox[r] /\ inbox'[r][j] = inbox[r][j + 1]
      BY <1>1, <1>2 DEF TypeOK
    <3>2. inbox[r][i + 1] # m
      BY <2>1, <1>1, <3>1 DEF InHand
    <3>3. status[inbox[r][i + 1]] = "delivered" /\ consumer[inbox[r][i + 1]] = r
      BY <2>1, <3>1 DEF InHand
    <3>4. \A j \in DOMAIN inbox'[r] : inbox[r][j + 1] = inbox[r][i + 1] => j + 1 = i + 1
      BY <2>1, <3>1 DEF InHand
    <3>5. \A j \in DOMAIN inbox'[r] : inbox'[r][j] = inbox'[r][i] => j = i
      BY <2>1, <3>1, <3>4
    <3>6. inbox[r][i + 1] \in Messages
      BY <2>1, <1>1, <3>1
    <3>. QED  BY <2>1, <3>1, <3>2, <3>3, <3>5, <3>6
  <2>2. CASE s # r
    <3>1. inbox'[s] = inbox[s] /\ inbox[s] \in Seq(Messages)
      BY <2>2, <1>2 DEF TypeOK
    <3>2. inbox[s][i] # m /\ inbox[s][i] \in Messages
      BY <3>1, <2>2, <1>3 DEF InHand
    <3>. QED  BY <3>1, <3>2 DEF InHand
  <2>. QED  BY <2>1, <2>2
<1>5. \A s \in Replicas : \A i \in DOMAIN pending[s] : pending[s][i].msg # m
  BY <1>3 DEF InHand
<1>. QED  BY <1>3, <1>4, <1>5 DEF InboxesHold

\* The requests of a state in which the oldest request of r is answered, and
\* of one in which r has one request more than in req.
Rest(r)           == [pending EXCEPT ![r] = Tail(pending[r])]
Longer(req, r, q) == [req EXCEPT ![r] = Append(req[r], q)]

\* A request that is answered leaves no request of its handler.
LEMMA ForgottenRequest ==
  ASSUME TypeOK, InHand, NEW r \in Replicas, NEW m, pending[r] # <<>>, Head(pending[r]).msg = m
  PROVE  /\ m \in Messages /\ status[m] = "handling" /\ consumer[m] = r
         /\ Rest(r) \in [Replicas -> Seq(Request)]
         /\ RequestsHold(Rest(r), status, consumer)
         /\ \A s \in Replicas : \A i \in DOMAIN Rest(r)[s] : Rest(r)[s][i].msg \in Messages \ {m}
         /\ \A s \in Replicas : \A i \in DOMAIN inbox[s] : inbox[s][i] \in Messages \ {m}
<1>1. /\ pending[r] \in Seq(Request) /\ pending[r][1].msg = m /\ 1 \in DOMAIN pending[r]
      /\ \A i \in DOMAIN Tail(pending[r]) :
           i \in Nat \ {0} /\ i + 1 \in DOMAIN pending[r] /\ Tail(pending[r])[i] = pending[r][i + 1]
  BY TailFacts DEF TypeOK
<1>2. \A s \in Replicas : \A i \in DOMAIN pending[s] : pending[s][i].msg \in Messages
  <2>1. ASSUME NEW s \in Replicas, NEW i \in DOMAIN pending[s]  PROVE pending[s][i].msg \in Messages
    <3>1. pending[s] \in Seq(Request)
      BY DEF TypeOK
    <3>2. pending[s][i] \in Request
      BY <3>1
    <3>. QED  BY <3>2 DEF Request
  <2>. QED  BY <2>1
<1>3. m \in Messages /\ status[m] = "handling" /\ consumer[m] = r
  BY <1>1, <1>2 DEF InHand
<1>4. ASSUME NEW s \in Replicas, NEW i \in DOMAIN Rest(r)[s]
      PROVE  /\ status[Rest(r)[s][i].msg] = "handling" /\ consumer[Rest(r)[s][i].msg] = s
             /\ \A j \in DOMAIN Rest(r)[s] : Rest(r)[s][j].msg = Rest(r)[s][i].msg => j = i
             /\ Rest(r)[s][i].msg \in Messages \ {m}
  <2>1. CASE s = r
    <3>1. \A j \in DOMAIN Rest(r)[r] :
            j \in Nat \ {0} /\ j + 1 \in DOMAIN pending[r] /\ Rest(r)[r][j] = pending[r][j + 1]
      BY <1>1 DEF TypeOK, Rest
    <3>2. pending[r][i + 1].msg # m
      BY <2>1, <1>1, <3>1 DEF InHand
    <3>3. status[pending[r][i + 1].msg] = "handling" /\ consumer[pending[r][i + 1].msg] = r
      BY <2>1, <3>1 DEF InHand
    <3>4. \A j \in DOMAIN Rest(r)[r] : pending[r][j + 1].msg = pending[r][i + 1].msg => j + 1 = i + 1
      BY <2>1, <3>1 DEF InHand
    <3>5. \A j \in DOMAIN Rest(r)[r] : Rest(r)[r][j].msg = Rest(r)[r][i].msg => j = i
      BY <2>1, <3>1, <3>4
    <3>. QED  BY <2>1, <1>2, <3>1, <3>2, <3>3, <3>5
  <2>2. CASE s # r
    <3>1. Rest(r)[s] = pending[s]
      BY <2>2 DEF TypeOK, Rest
    <3>2. pending[s][i].msg # m
      BY <3>1, <2>2, <1>3 DEF InHand
    <3>3. i \in DOMAIN pending[s] /\ pending[s][i].msg \in Messages
      BY <1>2, <3>1
    <3>4. /\ status[pending[s][i].msg] = "handling" /\ consumer[pending[s][i].msg] = s
          /\ \A j \in DOMAIN pending[s] : pending[s][j].msg = pending[s][i].msg => j = i
      BY <3>3 DEF InHand
    <3>. QED  BY <3>1, <3>2, <3>3, <3>4
  <2>. QED  BY <2>1, <2>2
<1>5. \A s \in Replicas : \A i \in DOMAIN inbox[s] : inbox[s][i] \in Messages \ {m}
  BY <1>3 DEF InHand, TypeOK
<1>6. Rest(r) \in [Replicas -> Seq(Request)]
  BY HeadTypes DEF TypeOK, Rest
<1>. QED  BY <1>3, <1>4, <1>5, <1>6 DEF RequestsHold

\* A request that is appended, by a handler that has no other.
LEMMA AppendedRequest ==
  ASSUME NEW old \in [Replicas -> Seq(Request)], NEW r \in Replicas, NEW q \in Request,
         NEW st, NEW at,
         RequestsHold(old, st, at), st[q.msg] = "handling", at[q.msg] = r,
         \A s \in Replicas : \A i \in DOMAIN old[s] : old[s][i].msg # q.msg
  PROVE  RequestsHold(Longer(old, r, q), st, at)
<1>1. /\ Len(old[r]) \in Nat /\ DOMAIN old[r] = 1 .. Len(old[r])
      /\ DOMAIN Longer(old, r, q)[r] = 1 .. Len(old[r]) + 1
      /\ \A i \in DOMAIN old[r] : Longer(old, r, q)[r][i] = old[r][i]
      /\ Longer(old, r, q)[r][Len(old[r]) + 1] = q
  BY AppendFacts DEF Longer
<1>2. \A i \in DOMAIN Longer(old, r, q)[r] : i \in DOMAIN old[r] \/ i = Len(old[r]) + 1
  BY <1>1
<1>3. ASSUME NEW i \in DOMAIN Longer(old, r, q)[r]
      PROVE  /\ st[Longer(old, r, q)[r][i].msg] = "handling" /\ at[Longer(old, r, q)[r][i].msg] = r
             /\ \A j \in DOMAIN Longer(old, r, q)[r] : Longer(old, r, q)[r][j].msg = Longer(old, r, q)[r][i].msg => j = i
  <2>1. CASE i \in DOMAIN old[r]
    BY <2>1, <1>1, <1>2 DEF RequestsHold
  <2>2. CASE i = Len(old[r]) + 1
    BY <2>2, <1>1, <1>2
  <2>. QED  BY <2>1, <2>2, <1>2
<1>4. \A s \in Replicas \ {r} : Longer(old, r, q)[s] = old[s]
  BY DEF Longer
<1>. QED  BY <1>3, <1>4 DEF RequestsHold
LEMMA FinishOthers ==
  ASSUME TypeOK, NEW m \in Messages
  PROVE  /\ \A fate \in {"acked", "rejected"} : Finish(m, fate) =>
              \A x \in Messages \ {m} : status'[x] = status[x] /\ consumer'[x] = consumer[x]
         /\ Handle(m) => \A x \in Messages \ {m} : status'[x] = status[x] /\ consumer'[x] = consumer[x]
         /\ Handle(m) => status'[m] = "handling" /\ consumer'[m] = consumer[m]
         /\ \A fate \in {"acked", "rejected"} : Finish(m, fate) => status'[m] = fate
  BY DEF Finish, Handle, Taken, TypeOK

LEMMA RequestMessages ==
  ASSUME TypeOK, NEW s \in Replicas, NEW i \in DOMAIN pending[s]
  PROVE  pending[s][i] \in Request /\ pending[s][i].msg \in Messages
<1>1. pending[s] \in Seq(Request)
  BY DEF TypeOK
<1>2. pending[s][i] \in Request
  BY <1>1
<1>. QED  BY <1>2 DEF Request

LEMMA BegunInHand ==
  ASSUME TypeOK, InHand, NEW r \in Replicas, NEW m \in Messages, Begun(r, m)
  PROVE  InHand'
<1>1. Take(r, m) /\ Handle(m)
  BY DEF Begun
<1>2. PICK q \in Request : q.msg = m /\ pending' = Longer(pending, r, q)
  BY RequestTypes DEF Begun, Await, Longer
<1>3. \A s \in Replicas : \A i \in DOMAIN pending[s] : pending[s][i].msg \in Messages \ {m}
  BY <1>1, TakenInbox, RequestMessages
<1>4. RequestsHold(pending, status', consumer') /\ InboxesHold(inbox', status', consumer')
  <2>1. RequestsHold(pending, status, consumer)
    BY InHandParts
  <2>. QED  BY <1>1, <1>3, <2>1, TakenInbox, FinishOthers DEF InboxesHold, RequestsHold
<1>5. status'[q.msg] = "handling" /\ consumer'[q.msg] = r
  BY <1>1, <1>2, TakenInbox, FinishOthers
<1>6. pending \in [Replicas -> Seq(Request)]
  BY DEF TypeOK
<1>7. RequestsHold(pending', status', consumer')
  BY <1>2, <1>3, <1>4, <1>5, <1>6, AppendedRequest
<1>. QED  BY <1>4, <1>7, InHandParts

LEMMA DeclinedInHand ==
  ASSUME TypeOK, InHand, NEW r \in Replicas, NEW m \in Messages, Declined(r, m)
  PROVE  InHand'
<1>1. Take(r, m) /\ pending' = pending
  BY DEF Declined
<1>2. PICK fate \in {"acked", "rejected"} : Finish(m, fate)
  BY DEF Declined
<1>3. \A s \in Replicas : \A i \in DOMAIN pending[s] : pending[s][i].msg \in Messages \ {m}
  BY <1>1, TakenInbox, RequestMessages
<1>4. RequestsHold(pending, status, consumer)
  BY InHandParts
<1>5. RequestsHold(pending, status', consumer') /\ InboxesHold(inbox', status', consumer')
  BY <1>1, <1>2, <1>3, <1>4, TakenInbox, FinishOthers DEF InboxesHold, RequestsHold
<1>. QED  BY <1>1, <1>5, InHandParts

LEMMA ContinuedInHand ==
  ASSUME TypeOK, InHand, NEW r \in Replicas, NEW m \in Messages, Continued(r, m)
  PROVE  InHand'
<1>1. pending[r] # <<>> /\ Head(pending[r]).msg = m /\ inbox' = inbox /\ status' = status /\ consumer' = consumer
  BY DEF Continued, broker
<1>2. PICK q \in Request : /\ q.msg = m
                           /\ pending' = [pending EXCEPT ![r] = Append(Tail(pending[r]), q)]
  BY RequestTypes DEF Continued, ForgetAndAwait
<1>3. /\ status[m] = "handling" /\ consumer[m] = r
      /\ Rest(r) \in [Replicas -> Seq(Request)] /\ RequestsHold(Rest(r), status, consumer)
      /\ \A s \in Replicas : \A i \in DOMAIN Rest(r)[s] : Rest(r)[s][i].msg \in Messages \ {m}
  BY <1>1, ForgottenRequest
<1>4. pending' = Longer(Rest(r), r, q)
  BY <1>2 DEF TypeOK, Longer, Rest
<1>5. RequestsHold(pending', status, consumer)
  <2>1. /\ status[q.msg] = "handling" /\ consumer[q.msg] = r
        /\ \A s \in Replicas : \A i \in DOMAIN Rest(r)[s] : Rest(r)[s][i].msg # q.msg
    BY <1>2, <1>3
  <2>. QED  BY <1>3, <1>4, <2>1, AppendedRequest
<1>. QED  BY <1>1, <1>5, InHandParts

LEMMA FinishedInHand ==
  ASSUME TypeOK, InHand, NEW r \in Replicas, NEW m \in Messages, Finished(r, m)
  PROVE  InHand'
<1>1. /\ pending[r] # <<>> /\ Head(pending[r]).msg = m /\ inbox' = inbox
      /\ pending' = Rest(r)
  BY DEF Finished, Forget, Rest
<1>2. PICK fate \in {"acked", "rejected"} : Finish(m, fate)
  BY DEF Finished
<1>3. /\ RequestsHold(pending', status, consumer)
      /\ \A s \in Replicas : \A i \in DOMAIN pending'[s] : pending'[s][i].msg \in Messages \ {m}
      /\ \A s \in Replicas : \A i \in DOMAIN inbox[s] : inbox[s][i] \in Messages \ {m}
  BY <1>1, ForgottenRequest
<1>4. InboxesHold(inbox, status, consumer)
  BY InHandParts
<1>5. RequestsHold(pending', status', consumer') /\ InboxesHold(inbox', status', consumer')
  BY <1>1, <1>2, <1>3, <1>4, FinishOthers DEF InboxesHold, RequestsHold
<1>. QED  BY <1>5, InHandParts
LEMMA DeliverInHand ==
  ASSUME TypeOK, InHand, NEW r \in Replicas, Deliver(r)
  PROVE  InHand'
<1>1. PICK i \in DOMAIN sent :
        /\ status[sent[i]] = "ready"
        /\ status' = [status EXCEPT ![sent[i]] = "delivered"]
        /\ consumer' = [consumer EXCEPT ![sent[i]] = r]
        /\ inbox' = [inbox EXCEPT ![r] = Append(@, sent[i])]
        /\ pending' = pending
  BY DEF Deliver, DeliveredOnce, FirstReady
<1> DEFINE m == sent[i]
<1>2. m \in Messages /\ status[m] = "ready"
  BY <1>1 DEF TypeOK
<1>3. /\ status'[m] = "delivered" /\ consumer'[m] = r
      /\ \A x \in Messages \ {m} : status'[x] = status[x] /\ consumer'[x] = consumer[x]
  BY <1>1, <1>2 DEF TypeOK
<1>4. \A s \in Replicas : \A k \in DOMAIN pending[s] : pending[s][k].msg \in Messages \ {m}
  BY <1>2, RequestMessages DEF InHand
<1>5. \A s \in Replicas : \A k \in DOMAIN inbox[s] : inbox[s][k] \in Messages \ {m}
  BY <1>2 DEF InHand, TypeOK
<1>6. RequestsHold(pending', status', consumer')
  <2>1. RequestsHold(pending, status, consumer)
    BY InHandParts
  <2>. QED  BY <1>1, <1>3, <1>4, <2>1 DEF RequestsHold
<1>7. inbox[r] \in Seq(Messages)
  BY DEF TypeOK
<1>8. /\ Len(inbox[r]) \in Nat /\ DOMAIN inbox[r] = 1 .. Len(inbox[r])
      /\ DOMAIN inbox'[r] = 1 .. Len(inbox[r]) + 1
      /\ \A k \in DOMAIN inbox[r] : inbox'[r][k] = inbox[r][k]
      /\ inbox'[r][Len(inbox[r]) + 1] = m
      /\ \A s \in Replicas \ {r} : inbox'[s] = inbox[s]
  BY <1>1, <1>2, <1>7, AppendFacts DEF TypeOK
<1>9. \A k \in DOMAIN inbox'[r] : k \in DOMAIN inbox[r] \/ k = Len(inbox[r]) + 1
  BY <1>8
<1> HIDE DEF m
<1>10. ASSUME NEW s \in Replicas, NEW k \in DOMAIN inbox[s]
       PROVE  /\ status'[inbox[s][k]] = "delivered" /\ consumer'[inbox[s][k]] = s
              /\ \A j \in DOMAIN inbox[s] : inbox[s][j] = inbox[s][k] => j = k
  BY <1>3, <1>5 DEF InHand
<1>11. ASSUME NEW k \in DOMAIN inbox'[r]
       PROVE  /\ status'[inbox'[r][k]] = "delivered" /\ consumer'[inbox'[r][k]] = r
              /\ \A j \in DOMAIN inbox'[r] : inbox'[r][j] = inbox'[r][k] => j = k
  <2>1. CASE k \in DOMAIN inbox[r]
    BY <2>1, <1>5, <1>8, <1>9, <1>10
  <2>2. CASE k = Len(inbox[r]) + 1
    BY <2>2, <1>3, <1>5, <1>8, <1>9
  <2>. QED  BY <2>1, <2>2, <1>9
<1>12. InboxesHold(inbox', status', consumer')
  BY <1>8, <1>10, <1>11 DEF InboxesHold
<1>. QED  BY <1>6, <1>12, InHandParts

LEMMA CrashInHand ==
  ASSUME TypeOK, InHand, NEW r \in Replicas, Crash(r)
  PROVE  InHand'
<1>1. /\ inbox'[r] = <<>> /\ pending'[r] = <<>>
      /\ \A s \in Replicas \ {r} : inbox'[s] = inbox[s] /\ pending'[s] = pending[s]
  BY DEF Crash, TypeOK
<1>2. \A m \in Messages : consumer[m] # r => status'[m] = status[m] /\ consumer'[m] = consumer[m]
  BY DEF Crash
<1>3. ASSUME NEW s \in Replicas \ {r}, NEW i \in DOMAIN inbox[s]
      PROVE  status'[inbox[s][i]] = "delivered" /\ consumer'[inbox[s][i]] = s
  <2>1. inbox[s][i] \in Messages /\ status[inbox[s][i]] = "delivered" /\ consumer[inbox[s][i]] = s
    BY DEF InHand, TypeOK
  <2>. QED  BY <2>1, <1>2
<1>4. ASSUME NEW s \in Replicas \ {r}, NEW i \in DOMAIN pending[s]
      PROVE  status'[pending[s][i].msg] = "handling" /\ consumer'[pending[s][i].msg] = s
  <2>1. /\ pending[s][i].msg \in Messages
        /\ status[pending[s][i].msg] = "handling" /\ consumer[pending[s][i].msg] = s
    BY RequestMessages DEF InHand
  <2>. QED  BY <2>1, <1>2
<1>5. InboxesHold(inbox', status', consumer')
  <2>1. InboxesHold(inbox, status, consumer)
    BY InHandParts
  <2>. QED  BY <1>1, <1>3, <2>1 DEF InboxesHold
<1>6. RequestsHold(pending', status', consumer')
  <2>1. RequestsHold(pending, status, consumer)
    BY InHandParts
  <2>. QED  BY <1>1, <1>4, <2>1 DEF RequestsHold
<1>. QED  BY <1>5, <1>6, InHandParts

LEMMA SendInHand ==
  ASSUME TypeOK, InHand, NEW m \in Messages, Send(m)
  PROVE  InHand'
<1>1. /\ status[m] = "unsent" /\ inbox' = inbox /\ pending' = pending /\ consumer' = consumer
      /\ \A x \in Messages \ {m} : status'[x] = status[x]
  BY DEF Send, TypeOK
<1>2. \A s \in Replicas : \A k \in DOMAIN pending[s] : pending[s][k].msg \in Messages \ {m}
  BY <1>1, RequestMessages DEF InHand
<1>3. \A s \in Replicas : \A k \in DOMAIN inbox[s] : inbox[s][k] \in Messages \ {m}
  BY <1>1 DEF InHand, TypeOK
<1>4. InboxesHold(inbox, status, consumer) /\ RequestsHold(pending, status, consumer)
  BY InHandParts
<1>5. InboxesHold(inbox', status', consumer') /\ RequestsHold(pending', status', consumer')
  BY <1>1, <1>2, <1>3, <1>4 DEF InboxesHold, RequestsHold
<1>. QED  BY <1>5, InHandParts

\* Every action on a replica is of one of the four kinds.
LEMMA ActionKinds ==
  ASSUME TypeOK, RemovedIsSilent, NEW r \in Replicas
  PROVE  /\ \A g \in Games :
              /\ BeginCreate(r, g)  => Begun(r, g)
              /\ CreateSaved(r, g)  => Continued(r, g)
              /\ CreateViewed(r, g) => Finished(r, g)
         /\ \A c \in Commands :
              /\ BeginForeign(r, c)  => Begun(r, c)
              /\ BeginCommand(r, c)  => Begun(r, c)
              /\ Refuse(r, c)        => Declined(r, c)
              /\ BeginLate(r, c)     => Declined(r, c)
              /\ CommandSaved(r, c)  => Continued(r, c)
              /\ CommandViewed(r, c) => Finished(r, c)
              /\ Loaded(r, c)        => Finished(r, c)
         /\ \A m \in Messages : RequestFails(r, m) => Finished(r, m)
<1>1. ASSUME NEW g \in Games, BeginCreate(r, g)  PROVE Begun(r, g)
  BY <1>1, InstanceTypes DEF BeginCreate, Begun
<1>2. ASSUME NEW g \in Games, CreateSaved(r, g)  PROVE Continued(r, g)
  <2>1. live[r][g] \in Instance
    BY <1>2, HandlerHasGame, MessageTypes DEF CreateSaved
  <2>2. ViewFor(live[r][g], g) \in Snapshot
    BY <2>1, InstanceTypes, MessageTypes
  <2>. QED  BY <1>2, <2>2 DEF CreateSaved, Continued, Answered
<1>3. ASSUME NEW g \in Games, CreateViewed(r, g)  PROVE Finished(r, g)
  BY <1>3 DEF CreateViewed, Finished, Answered
<1>4. ASSUME NEW c \in Commands, BeginForeign(r, c)  PROVE Begun(r, c)
  BY <1>4 DEF BeginForeign, Begun
<1>5. ASSUME NEW c \in Commands, BeginCommand(r, c)  PROVE Begun(r, c)
  <2>1. live[r][Target[c]] \in Instance
    BY <1>5, MessageTypes DEF BeginCommand, TypeOK
  <2>2. PICK i \in Instance : Take(r, c) /\ Handle(c) /\ Accept(r, c, i)
    BY <1>5, <2>1, InstanceTypes DEF BeginCommand
  <2>3. SnapshotOf(i) \in Snapshot
    BY InstanceTypes
  <2>. QED  BY <2>2, <2>3 DEF Accept, Begun
<1>6. ASSUME NEW c \in Commands, Refuse(r, c) \/ BeginLate(r, c)  PROVE Declined(r, c)
  BY <1>6 DEF Refuse, BeginLate, Declined, Thrown
<1>7. ASSUME NEW c \in Commands, CommandSaved(r, c)  PROVE Continued(r, c)
  <2>1. live[r][Target[c]] \in Instance
    BY <1>7, HandlerHasGame, MessageTypes DEF CommandSaved
  <2>2. ViewFor(live[r][Target[c]], c) \in Snapshot
    BY <2>1, InstanceTypes, MessageTypes
  <2>. QED  BY <1>7, <2>2 DEF CommandSaved, Continued, Answered
<1>8. ASSUME NEW c \in Commands, CommandViewed(r, c) \/ Loaded(r, c)  PROVE Finished(r, c)
  BY <1>8 DEF CommandViewed, Loaded, Finished, Answered, Thrown
<1>9. ASSUME NEW m \in Messages, RequestFails(r, m)  PROVE Finished(r, m)
  BY <1>9 DEF RequestFails, Finished, Thrown
<1>. QED  BY <1>1, <1>2, <1>3, <1>4, <1>5, <1>6, <1>7, <1>8, <1>9

LEMMA InHandStep ==
  ASSUME TypeOK, InHand, RemovedIsSilent, [Next]_vars
  PROVE  InHand'
<1>1. ASSUME NEW m \in Messages, Send(m)  PROVE InHand'
  BY <1>1, SendInHand
<1>2. ASSUME NEW r \in Replicas, Deliver(r) \/ Crash(r)  PROVE InHand'
  BY <1>2, DeliverInHand, CrashInHand
<1>3. ASSUME NEW r \in Replicas, NEW m \in Messages,
             Begun(r, m) \/ Declined(r, m) \/ Continued(r, m) \/ Finished(r, m)
      PROVE  InHand'
  BY <1>3, BegunInHand, DeclinedInHand, ContinuedInHand, FinishedInHand
<1>4. ASSUME NEW r \in Replicas, Begin(r) \/ Continue(r)  PROVE InHand'
  BY <1>3, <1>4, ActionKinds, MessageTypes DEF Begin, Continue
<1>5. ASSUME NEW r \in Replicas, NEW m \in Messages, RequestFails(r, m)  PROVE InHand'
  BY <1>3, <1>5, ActionKinds
<1>6. ASSUME UNCHANGED vars  PROVE InHand'
  BY <1>6 DEF vars, broker, InHand
<1>. QED  BY <1>1, <1>2, <1>4, <1>5, <1>6 DEF Next
-----------------------------------------------------------------------------
(* One owner *)

\* A message that is taken or answered is r's; a finished one stays finished.
LEMMA KindFates ==
  ASSUME TypeOK, InHand, NEW r \in Replicas, NEW m \in Messages
  PROVE  /\ Begun(r, m) =>
              /\ status[m] = "delivered" /\ status'[m] = "handling" /\ consumer'[m] = r
              /\ \A x \in Messages \ {m} : status'[x] = status[x] /\ consumer'[x] = consumer[x]
         /\ Declined(r, m) =>
              /\ status'[m] \in {"acked", "rejected"}
              /\ \A x \in Messages \ {m} : status'[x] = status[x] /\ consumer'[x] = consumer[x]
         /\ Continued(r, m) =>
              /\ status[m] = "handling" /\ consumer[m] = r
              /\ \A x \in Messages : status'[x] = status[x] /\ consumer'[x] = consumer[x]
         /\ Finished(r, m) =>
              /\ status'[m] \in {"acked", "rejected"}
              /\ \A x \in Messages \ {m} : status'[x] = status[x] /\ consumer'[x] = consumer[x]
<1>1. ASSUME Begun(r, m)
      PROVE  /\ status[m] = "delivered" /\ status'[m] = "handling" /\ consumer'[m] = r
             /\ \A x \in Messages \ {m} : status'[x] = status[x] /\ consumer'[x] = consumer[x]
  <2>1. Take(r, m) /\ Handle(m)
    BY <1>1 DEF Begun
  <2>. QED  BY <2>1, TakenInbox, FinishOthers
<1>2. ASSUME Declined(r, m) \/ Finished(r, m)
      PROVE  /\ status'[m] \in {"acked", "rejected"}
             /\ \A x \in Messages \ {m} : status'[x] = status[x] /\ consumer'[x] = consumer[x]
  <2>1. PICK fate \in {"acked", "rejected"} : Finish(m, fate)
    BY <1>2 DEF Declined, Finished
  <2>. QED  BY <2>1, FinishOthers
<1>3. ASSUME Continued(r, m)
      PROVE  /\ status[m] = "handling" /\ consumer[m] = r
             /\ \A x \in Messages : status'[x] = status[x] /\ consumer'[x] = consumer[x]
  <2>1. pending[r] # <<>> /\ Head(pending[r]).msg = m /\ status' = status /\ consumer' = consumer
    BY <1>3 DEF Continued, broker
  <2>. QED  BY <2>1, ForgottenRequest
<1>. QED  BY <1>1, <1>2, <1>3

\* What an action of r does to the games in memory.
LEMMA HomeKept ==
  ASSUME TypeOK, HomeOf, NEW r \in Replicas,
         \A s \in Replicas, g \in Games : live'[s][g] # None =>
           live[s][g] # None \/ (s = r /\ status'[g] = "handling" /\ consumer'[g] = r),
         \A g \in Games : \/ status'[g] = status[g] /\ consumer'[g] = consumer[g]
                          \/ status'[g] \in {"acked", "rejected"}
                          \/ status'[g] # status[g] /\ status[g] \in {"unsent", "ready", "delivered"}
  PROVE  HomeOf'
  BY DEF HomeOf

LEMMA HomeOfStep ==
  ASSUME TypeOK, InHand, RemovedIsSilent, HomeOf, [Next]_vars
  PROVE  HomeOf'
<1>1. ASSUME NEW m \in Messages, Send(m)  PROVE HomeOf'
  BY <1>1 DEF Send, HomeOf, TypeOK, Messages
<1>2. ASSUME NEW r \in Replicas, Deliver(r)  PROVE HomeOf'
  <2>1. PICK i \in DOMAIN sent :
          /\ status[sent[i]] = "ready" /\ live' = live
          /\ status' = [status EXCEPT ![sent[i]] = "delivered"]
          /\ consumer' = [consumer EXCEPT ![sent[i]] = r]
    BY <1>2 DEF Deliver, DeliveredOnce, FirstReady
  <2>2. \A g \in Games : \/ status'[g] = status[g] /\ consumer'[g] = consumer[g]
                         \/ status[g] = "ready"
    BY <2>1, MessageTypes DEF TypeOK
  <2>. QED  BY <2>1, <2>2 DEF HomeOf
<1>3. ASSUME NEW r \in Replicas, Crash(r)  PROVE HomeOf'
  <2>1. \A s \in Replicas, g \in Games : live'[s][g] # None => s # r /\ live[s][g] # None
    BY <1>3 DEF Crash, TypeOK
  <2>2. \A m \in Messages :
          /\ consumer[m] # r => status'[m] = status[m] /\ consumer'[m] = consumer[m]
          /\ status[m] \in {"acked", "rejected"} => status'[m] = status[m]
    BY <1>3 DEF Crash
  <2>. QED  BY <2>1, <2>2, MessageTypes DEF HomeOf
<1>4. ASSUME NEW r \in Replicas, NEW g \in Games, BeginCreate(r, g)  PROVE HomeOf'
  <2>1. Begun(r, g) /\ g \in Messages
    BY <1>4, ActionKinds, MessageTypes
  <2>2. \A s \in Replicas, h \in Games : live'[s][h] # None => live[s][h] # None \/ (s = r /\ h = g)
    BY <1>4 DEF BeginCreate, TypeOK
  <2>3. status[g] = "delivered" /\ status'[g] = "handling" /\ consumer'[g] = r
    BY <2>1, KindFates
  <2>4. \A h \in Games \ {g} : status'[h] = status[h] /\ consumer'[h] = consumer[h]
    BY <2>1, KindFates, MessageTypes
  <2>. QED  BY <2>2, <2>3, <2>4, HomeKept
<1>5. ASSUME NEW r \in Replicas, NEW m \in Messages,
             (Begun(r, m) /\ m \in Commands) \/ Declined(r, m) \/ Continued(r, m) \/ Finished(r, m),
             \A s \in Replicas, g \in Games : live'[s][g] # None =>
               live[s][g] # None \/ (s = r /\ g = m /\ Continued(r, m))
      PROVE  HomeOf'
  <2>1. \A g \in Games : \/ status'[g] = status[g] /\ consumer'[g] = consumer[g]
                         \/ status'[g] \in {"acked", "rejected"}
    <3>1. m \in Commands => \A g \in Games : g \in Messages \ {m}
      BY EngineAssumption DEF Messages
    <3>. QED  BY <1>5, <3>1, KindFates, MessageTypes
  <2>2. Continued(r, m) => status'[m] = "handling" /\ consumer'[m] = r
    BY KindFates
  <2>. QED  BY <1>5, <2>1, <2>2, HomeKept
<1>6. ASSUME NEW r \in Replicas, NEW c \in Commands,
             BeginForeign(r, c) \/ Refuse(r, c) \/ CommandSaved(r, c) \/ Loaded(r, c)
      PROVE  HomeOf'
  <2>1. live' = live
    BY <1>6 DEF BeginForeign, Refuse, CommandSaved, Loaded
  <2>2. Begun(r, c) \/ Declined(r, c) \/ Continued(r, c) \/ Finished(r, c)
    BY <1>6, ActionKinds
  <2>. QED  BY <1>5, <2>1, <2>2, MessageTypes
<1>7. ASSUME NEW r \in Replicas, NEW c \in Commands, BeginCommand(r, c) \/ BeginLate(r, c)
      PROVE  HomeOf'
  <2>1. \A s \in Replicas, g \in Games : live'[s][g] # None => live[s][g] # None
    <3>1. live[r][Target[c]] # None /\ Target[c] \in Games
      BY <1>7, MessageTypes DEF BeginCommand, BeginLate
    <3>2. \E i : live' = [live EXCEPT ![r][Target[c]] = i]
      <4>1. CASE BeginCommand(r, c)
        BY <4>1 DEF BeginCommand, Accept
      <4>2. CASE BeginLate(r, c)
        BY <4>2 DEF BeginLate
      <4>. QED  BY <1>7, <4>1, <4>2
    <3>. QED  BY <3>1, <3>2 DEF TypeOK
  <2>2. Begun(r, c) \/ Declined(r, c)
    BY <1>7, ActionKinds
  <2>. QED  BY <1>5, <2>1, <2>2, MessageTypes
<1>8. ASSUME NEW r \in Replicas, NEW g \in Games, CreateSaved(r, g)  PROVE HomeOf'
  <2>1. \A s \in Replicas, h \in Games : live'[s][h] # None => live[s][h] # None \/ (s = r /\ h = g)
    BY <1>8 DEF CreateSaved, TypeOK
  <2>. QED  BY <1>5, <1>8, <2>1, ActionKinds, MessageTypes
<1>9. ASSUME NEW r \in Replicas, NEW g \in Games, CreateViewed(r, g)  PROVE HomeOf'
  <2>1. live' = live
    BY <1>9 DEF CreateViewed
  <2>. QED  BY <1>5, <1>9, <2>1, ActionKinds, MessageTypes
<1>10. ASSUME NEW r \in Replicas, NEW c \in Commands, CommandViewed(r, c)  PROVE HomeOf'
  <2>1. \A s \in Replicas, h \in Games : live'[s][h] # None => live[s][h] # None
    BY <1>10, MessageTypes DEF CommandViewed, TypeOK
  <2>. QED  BY <1>5, <1>10, <2>1, ActionKinds, MessageTypes
<1>11. ASSUME NEW r \in Replicas, NEW m \in Messages, RequestFails(r, m)  PROVE HomeOf'
  <2>1. live' = live
    BY <1>11 DEF RequestFails
  <2>. QED  BY <1>5, <1>11, <2>1, ActionKinds
<1>12. ASSUME UNCHANGED vars  PROVE HomeOf'
  BY <1>12 DEF vars, broker, HomeOf
<1>. QED
  BY <1>1, <1>2, <1>3, <1>4, <1>6, <1>7, <1>8, <1>9, <1>10, <1>11, <1>12 DEF Next, Begin, Continue

LEMMA OneOwnerStep ==
  ASSUME TypeOK, InHand, RemovedIsSilent, HomeOf, OneOwner, [Next]_vars
  PROVE  OneOwner'
<1>1. ASSUME \A s \in Replicas, g \in Games : live'[s][g] # None => live[s][g] # None
      PROVE  OneOwner'
  BY <1>1 DEF OneOwner
<1>2. ASSUME NEW r \in Replicas, NEW g \in Games, BeginCreate(r, g)  PROVE OneOwner'
  <2>1. Begun(r, g)
    BY <1>2, ActionKinds
  <2>2. status[g] = "delivered"
    BY <2>1, KindFates, MessageTypes
  <2>3. \A s \in Replicas : live[s][g] = None
    BY <2>2 DEF HomeOf
  <2>4. \A s \in Replicas, h \in Games : live'[s][h] # None => live[s][h] # None \/ (s = r /\ h = g)
    BY <1>2 DEF BeginCreate, TypeOK
  <2>. QED  BY <2>3, <2>4 DEF OneOwner
<1>3. ASSUME NEW r \in Replicas, NEW g \in Games, CreateSaved(r, g)  PROVE OneOwner'
  <2>1. live[r][g] # None
    BY <1>3, HandlerHasGame, MessageTypes, NoneAssumption DEF CreateSaved
  <2>2. \A s \in Replicas, h \in Games : live'[s][h] # None => live[s][h] # None
    BY <1>3, <2>1 DEF CreateSaved, TypeOK
  <2>. QED  BY <1>1, <2>2
<1>4. ASSUME NEW r \in Replicas, NEW c \in Commands, BeginCommand(r, c) \/ BeginLate(r, c)
      PROVE  OneOwner'
  <2>1. live[r][Target[c]] # None /\ Target[c] \in Games
    BY <1>4, MessageTypes DEF BeginCommand, BeginLate
  <2>2. \E i : live' = [live EXCEPT ![r][Target[c]] = i]
    <3>1. CASE BeginCommand(r, c)
      BY <3>1 DEF BeginCommand, Accept
    <3>2. CASE BeginLate(r, c)
      BY <3>2 DEF BeginLate
    <3>. QED  BY <1>4, <3>1, <3>2
  <2>3. \A s \in Replicas, g \in Games : live'[s][g] # None => live[s][g] # None
    BY <2>1, <2>2 DEF TypeOK
  <2>. QED  BY <1>1, <2>3
<1>5. ASSUME NEW r \in Replicas, NEW c \in Commands, CommandViewed(r, c)  PROVE OneOwner'
  <2>1. \A s \in Replicas, h \in Games : live'[s][h] # None => live[s][h] # None
    BY <1>5, MessageTypes DEF CommandViewed, TypeOK
  <2>. QED  BY <1>1, <2>1
<1>6. ASSUME NEW r \in Replicas, Crash(r)  PROVE OneOwner'
  <2>1. \A s \in Replicas, g \in Games : live'[s][g] # None => live[s][g] # None
    BY <1>6 DEF Crash, TypeOK
  <2>. QED  BY <1>1, <2>1
<1>7. ASSUME live' = live  PROVE OneOwner'
  BY <1>7 DEF OneOwner
<1>8. ASSUME NEW r \in Replicas, Begin(r)  PROVE OneOwner'
  BY <1>2, <1>4, <1>7, <1>8 DEF Begin, BeginForeign, Refuse
<1>9. ASSUME NEW r \in Replicas, Continue(r)  PROVE OneOwner'
  BY <1>3, <1>5, <1>7, <1>9 DEF Continue, CreateViewed, CommandSaved, Loaded
<1>10. ASSUME UNCHANGED vars \/ (\E m \in Messages : Send(m))
              \/ (\E r \in Replicas : Deliver(r) \/ \E m \in Messages : RequestFails(r, m))
       PROVE  OneOwner'
  BY <1>7, <1>10 DEF vars, Send, Deliver, RequestFails
<1>. QED  BY <1>6, <1>8, <1>9, <1>10 DEF Next
-----------------------------------------------------------------------------
(* The command that won is answered last *)

LEMMA LastBeforeOthers ==
  ASSUME NEW queue \in Seq(Request), NEW g, NEW e \in Commands, Target[e] = g, NEW q \in Request,
         LastIn(queue, g, e), GameOf(q.msg) # g \/ q.kind = "load"
  PROVE  LastIn(Append(queue, q), g, e)
<1>1. GameOf(e) = g
  BY MessageTypes
<1>2. q.msg = e => q.kind = "load"
  BY <1>1
<1> DEFINE longer == Append(queue, q)
<1>3. /\ \A i \in DOMAIN longer : i \in DOMAIN queue \/ i = Len(queue) + 1
      /\ \A i \in DOMAIN queue : longer[i] = queue[i]
      /\ longer[Len(queue) + 1] = q
  BY AppendFacts
<1> HIDE DEF longer
<1>4. LastIn(longer, g, e)
  BY <1>2, <1>3 DEF LastIn
<1>. QED  BY <1>4 DEF longer

LEMMA LastInTail ==
  ASSUME NEW queue \in Seq(Request), queue # <<>>, NEW g, NEW e, LastIn(queue, g, e)
  PROVE  LastIn(Tail(queue), g, e)
<1> DEFINE rest == Tail(queue)
<1>1. \A i \in DOMAIN rest : i \in Nat /\ i + 1 \in DOMAIN queue /\ rest[i] = queue[i + 1]
  BY TailFacts
<1> HIDE DEF rest
<1>2. ASSUME NEW k \in DOMAIN rest, NEW j \in DOMAIN rest,
             rest[k].msg = e, GameOf(rest[j].msg) = g, rest[j].kind # "load", j # k
      PROVE  /\ rest[k].kind = "save" /\ rest[j].kind = "save" => j < k
             /\ rest[k].kind = "view" => j < k /\ rest[j].kind = "view"
  <2>1. k + 1 \in DOMAIN queue /\ j + 1 \in DOMAIN queue /\ j + 1 # k + 1
    BY <1>1, <1>2
  <2>2. queue[k + 1] = rest[k] /\ queue[j + 1] = rest[j]
    BY <1>1
  <2>3. /\ rest[k].kind = "save" /\ rest[j].kind = "save" => j + 1 < k + 1
        /\ rest[k].kind = "view" => j + 1 < k + 1 /\ rest[j].kind = "view"
    BY <1>2, <2>1, <2>2 DEF LastIn
  <2>. QED  BY <1>1, <2>3
<1>. QED  BY <1>2 DEF LastIn, rest

\* The oldest request is a save of the game, answered, and its handler goes on
\* to wait for its view.
LEMMA LastAfterSave ==
  ASSUME NEW queue \in Seq(Request), queue # <<>>, NEW g, NEW e, LastIn(queue, g, e),
         queue[1].kind = "save", GameOf(queue[1].msg) = g,
         \A i, j \in DOMAIN queue : queue[i].msg = queue[j].msg => i = j,
         NEW q \in Request, q.msg = queue[1].msg, q.kind = "view"
  PROVE  LastIn(Append(Tail(queue), q), g, e)
<1> DEFINE rest == Tail(queue)
           longer == Append(rest, q)
<1>1. /\ rest \in Seq(Request) /\ 1 \in DOMAIN queue /\ Len(rest) \in Nat
      /\ DOMAIN rest = 1 .. Len(rest)
      /\ \A i \in DOMAIN rest : i \in Nat \ {0} /\ i + 1 \in DOMAIN queue /\ rest[i] = queue[i + 1]
  BY TailFacts
<1>2. /\ \A i \in DOMAIN longer : i \in DOMAIN rest \/ i = Len(rest) + 1
      /\ \A i \in DOMAIN rest : longer[i] = rest[i] /\ i < Len(rest) + 1
      /\ longer[Len(rest) + 1] = q
  BY <1>1, AppendFacts
<1>3. \A i \in DOMAIN queue : queue[i].kind \in {"load", "save", "view"}
  <2>1. \A i \in DOMAIN queue : queue[i] \in Request
    OBVIOUS
  <2>. QED  BY <2>1 DEF Request
<1>4. LastIn(rest, g, e)
  BY LastInTail
<1> HIDE DEF rest, longer
<1>5. ASSUME NEW k \in DOMAIN longer, NEW j \in DOMAIN longer,
             longer[k].msg = e, GameOf(longer[j].msg) = g, longer[j].kind # "load", j # k
      PROVE  /\ longer[k].kind = "save" /\ longer[j].kind = "save" => j < k
             /\ longer[k].kind = "view" => j < k /\ longer[j].kind = "view"
  <2>1. CASE k \in DOMAIN rest /\ j \in DOMAIN rest
    BY <1>2, <1>4, <1>5, <2>1 DEF LastIn
  <2>2. CASE k \in DOMAIN rest /\ j = Len(rest) + 1
    <3>1. longer[j].kind = "view"
      BY <1>2, <2>2
    <3>2. longer[k] = queue[k + 1] /\ k + 1 \in DOMAIN queue /\ k + 1 # 1
      BY <1>1, <1>2, <2>2
    <3>3. queue[k + 1].kind # "view"
      BY <1>1, <1>5, <3>2 DEF LastIn
    <3>. QED  BY <3>1, <3>2, <3>3
  <2>3. CASE k = Len(rest) + 1 /\ j \in DOMAIN rest
    <3>1. queue[1].msg = e /\ longer[k].kind = "view" /\ j < k
      BY <1>2, <1>5, <2>3
    <3>2. longer[j] = queue[j + 1] /\ j + 1 \in DOMAIN queue /\ j + 1 # 1 /\ ~ (j + 1 < 1)
      BY <1>1, <1>2, <2>3
    <3>3. queue[j + 1].kind # "save"
      BY <1>1, <1>5, <3>1, <3>2 DEF LastIn
    <3>. QED  BY <1>3, <1>5, <3>1, <3>2, <3>3
  <2>. QED  BY <1>2, <1>5, <2>1, <2>2, <2>3
<1>. QED  BY <1>5 DEF LastIn, longer, rest

LEMMA LastWhenWon ==
  ASSUME NEW queue \in Seq(Request), NEW g, NEW q \in Request, q.kind = "save",
         \A i \in DOMAIN queue : queue[i].msg # q.msg
  PROVE  LastIn(Append(queue, q), g, q.msg)
<1> DEFINE longer == Append(queue, q)
<1>1. /\ Len(queue) \in Nat /\ DOMAIN queue = 1 .. Len(queue)
      /\ \A i \in DOMAIN longer : i \in DOMAIN queue \/ i = Len(queue) + 1
      /\ \A i \in DOMAIN queue : longer[i] = queue[i] /\ i < Len(queue) + 1
      /\ longer[Len(queue) + 1] = q
  BY AppendFacts
<1> HIDE DEF longer
<1>2. LastIn(longer, g, q.msg)
  BY <1>1 DEF LastIn
<1>. QED  BY <1>2 DEF longer
\* RemovedIsSilent and WinnerLast, of the requests and the games of one replica.
Orderly(queue, games) ==
  /\ \A i \in DOMAIN queue : queue[i].kind # "load" => games[GameOf(queue[i].msg)] # None
  /\ \A g \in Games : games[g] # None /\ games[g].endedBy # None =>
       Target[games[g].endedBy] = g /\ LastIn(queue, g, games[g].endedBy)

LEMMA OrderlyEverywhere ==
  /\ RemovedIsSilent /\ WinnerLast <=> \A r \in Replicas : Orderly(pending[r], live[r])
  /\ (RemovedIsSilent /\ WinnerLast)' <=> \A r \in Replicas : Orderly(pending'[r], live'[r])
  BY DEF RemovedIsSilent, WinnerLast, Orderly

GamesHere == [Games -> Instance \cup {None}]

LEMMA OrderlySameWinner ==
  ASSUME NEW queue \in Seq(Request), NEW games \in GamesHere, NEW g \in Games, NEW i \in Instance,
         Orderly(queue, games),
         i.endedBy = None \/ (games[g] # None /\ i.endedBy = games[g].endedBy)
  PROVE  Orderly(queue, [games EXCEPT ![g] = i])
<1> DEFINE after == [games EXCEPT ![g] = i]
<1>1. /\ after[g] = i /\ i # None
      /\ \A h \in Games \ {g} : after[h] = games[h]
  BY NoneAssumption DEF GamesHere
<1>2. \A k \in DOMAIN queue : GameOf(queue[k].msg) \in Games
  <2>1. \A k \in DOMAIN queue : queue[k] \in Request
    OBVIOUS
  <2>. QED  BY <2>1, MessageTypes DEF Request
<1> HIDE DEF after
<1>3. Orderly(queue, after)
  BY <1>1, <1>2 DEF Orderly
<1>. QED  BY <1>3 DEF after

LEMMA OrderlyTail ==
  ASSUME NEW queue \in Seq(Request), queue # <<>>, NEW games \in GamesHere, Orderly(queue, games)
  PROVE  Orderly(Tail(queue), games)
<1>1. \A i \in DOMAIN Tail(queue) : i + 1 \in DOMAIN queue /\ Tail(queue)[i] = queue[i + 1]
  BY TailFacts
<1>2. \A i \in DOMAIN Tail(queue) : Tail(queue)[i].kind # "load" =>
        games[GameOf(Tail(queue)[i].msg)] # None
  BY <1>1 DEF Orderly
<1>3. \A g \in Games : games[g] # None /\ games[g].endedBy # None =>
        Target[games[g].endedBy] = g /\ LastIn(Tail(queue), g, games[g].endedBy)
  BY LastInTail DEF Orderly
<1>. QED  BY <1>2, <1>3 DEF Orderly

LEMMA OrderlyAppend ==
  ASSUME NEW queue \in Seq(Request), NEW games \in GamesHere, NEW q \in Request, Orderly(queue, games),
         \/ q.kind = "load"
         \/ games[GameOf(q.msg)] # None /\ games[GameOf(q.msg)].endedBy = None
  PROVE  Orderly(Append(queue, q), games)
<1> DEFINE longer == Append(queue, q)
<1>1. /\ \A i \in DOMAIN longer : i \in DOMAIN queue \/ i = Len(queue) + 1
      /\ \A i \in DOMAIN queue : longer[i] = queue[i]
      /\ longer[Len(queue) + 1] = q
  BY AppendFacts
<1>2. ASSUME NEW g \in Games, games[g] # None, games[g].endedBy # None
      PROVE  Target[games[g].endedBy] = g /\ LastIn(longer, g, games[g].endedBy)
  <2>1. games[g].endedBy \in Commands
    BY <1>2 DEF GamesHere, Instance
  <2>2. Target[games[g].endedBy] = g /\ LastIn(queue, g, games[g].endedBy)
    BY <1>2 DEF Orderly
  <2>3. GameOf(q.msg) # g \/ q.kind = "load"
    BY <1>2
  <2>. QED  BY <2>1, <2>2, <2>3, LastBeforeOthers
<1> HIDE DEF longer
<1>3. \A i \in DOMAIN longer : longer[i].kind # "load" => games[GameOf(longer[i].msg)] # None
  BY <1>1 DEF Orderly
<1>4. Orderly(longer, games)
  BY <1>2, <1>3 DEF Orderly
<1>. QED  BY <1>4 DEF longer

LEMMA OrderlyAfterSave ==
  ASSUME NEW queue \in Seq(Request), queue # <<>>, NEW games \in GamesHere, Orderly(queue, games),
         queue[1].kind = "save", \A i, j \in DOMAIN queue : queue[i].msg = queue[j].msg => i = j,
         NEW q \in Request, q.msg = queue[1].msg, q.kind = "view"
  PROVE  Orderly(Append(Tail(queue), q), games)
<1> DEFINE rest == Tail(queue)
           longer == Append(rest, q)
<1>1. rest \in Seq(Request) /\ Orderly(rest, games) /\ 1 \in DOMAIN queue
  BY TailFacts, OrderlyTail
<1>2. /\ \A i \in DOMAIN longer : i \in DOMAIN rest \/ i = Len(rest) + 1
      /\ \A i \in DOMAIN rest : longer[i] = rest[i]
      /\ longer[Len(rest) + 1] = q
  BY <1>1, AppendFacts
<1>3. games[GameOf(q.msg)] # None
  BY <1>1 DEF Orderly
<1>4. ASSUME NEW g \in Games, games[g] # None, games[g].endedBy # None
      PROVE  Target[games[g].endedBy] = g /\ LastIn(longer, g, games[g].endedBy)
  <2>1. games[g].endedBy \in Commands
    BY <1>4 DEF GamesHere, Instance
  <2>2. /\ Target[games[g].endedBy] = g /\ LastIn(queue, g, games[g].endedBy)
        /\ LastIn(rest, g, games[g].endedBy)
    BY <1>1, <1>4 DEF Orderly
  <2>3. CASE GameOf(q.msg) = g
    BY <2>2, <2>3, LastAfterSave
  <2>4. CASE GameOf(q.msg) # g
    BY <1>1, <2>1, <2>2, <2>4, LastBeforeOthers
  <2>. QED  BY <2>2, <2>3, <2>4
<1> HIDE DEF rest, longer
<1>5. \A i \in DOMAIN longer : longer[i].kind # "load" => games[GameOf(longer[i].msg)] # None
  BY <1>1, <1>2, <1>3 DEF Orderly
<1>6. Orderly(longer, games)
  BY <1>4, <1>5 DEF Orderly
<1>. QED  BY <1>6 DEF longer, rest

LEMMA OrderlyWhenWon ==
  ASSUME NEW queue \in Seq(Request), NEW games \in GamesHere, NEW q \in Request, q.kind = "save",
         NEW c \in Commands, q.msg = c, NEW i \in Instance, i.endedBy = c,
         Orderly(queue, games), games[Target[c]] # None, games[Target[c]].endedBy = None,
         \A k \in DOMAIN queue : queue[k].msg # c
  PROVE  Orderly(Append(queue, q), [games EXCEPT ![Target[c]] = i])
<1> DEFINE g == Target[c]
           longer == Append(queue, q)
           after == [games EXCEPT ![g] = i]
<1>1. g \in Games /\ GameOf(q.msg) = g /\ i # None
  BY MessageTypes, NoneAssumption
<1>2. Orderly(longer, games)
  BY <1>1, OrderlyAppend
<1>3. LastIn(longer, g, c)
  BY LastWhenWon
<1>4. after[g] = i /\ \A h \in Games \ {g} : after[h] = games[h]
  BY <1>1 DEF GamesHere
<1>5. \A k \in DOMAIN longer : GameOf(longer[k].msg) \in Games
  <2>1. longer \in Seq(Request)
    BY AppendFacts
  <2>2. \A k \in DOMAIN longer : longer[k] \in Request
    <3> HIDE DEF longer
    <3>. QED  BY <2>1
  <2>. QED  BY <2>2, MessageTypes DEF Request
<1> HIDE DEF longer, after
<1>6. \A k \in DOMAIN longer : longer[k].kind # "load" => after[GameOf(longer[k].msg)] # None
  BY <1>1, <1>2, <1>4, <1>5 DEF Orderly
<1>7. \A h \in Games : after[h] # None /\ after[h].endedBy # None =>
        Target[after[h].endedBy] = h /\ LastIn(longer, h, after[h].endedBy)
  BY <1>2, <1>3, <1>4 DEF Orderly
<1>8. Orderly(longer, after)
  BY <1>6, <1>7 DEF Orderly
<1>. QED  BY <1>8 DEF longer, after
\* A step of r leaves the other replicas alone.
LEMMA OrderlyElsewhere ==
  ASSUME RemovedIsSilent, WinnerLast, NEW r \in Replicas, Orderly(pending'[r], live'[r]),
         \A s \in Replicas \ {r} : pending'[s] = pending[s] /\ live'[s] = live[s]
  PROVE  RemovedIsSilent' /\ WinnerLast'
<1>1. \A s \in Replicas : Orderly(pending[s], live[s])
  BY OrderlyEverywhere
<1>2. ASSUME NEW s \in Replicas  PROVE Orderly(pending'[s], live'[s])
  BY <1>1
<1>. QED  BY <1>2, OrderlyEverywhere

LEMMA OrderlyStep ==
  ASSUME TypeOK, InHand, RemovedIsSilent, WinnerLast, [Next]_vars
  PROVE  RemovedIsSilent' /\ WinnerLast'
<1>1. \A r \in Replicas :
        /\ pending[r] \in Seq(Request) /\ live[r] \in GamesHere /\ Orderly(pending[r], live[r])
        /\ \A i, j \in DOMAIN pending[r] : pending[r][i].msg = pending[r][j].msg => i = j
  BY OrderlyEverywhere DEF TypeOK, InHand, GamesHere
<1>2. ASSUME NEW r \in Replicas, NEW g \in Games, BeginCreate(r, g)
      PROVE  RemovedIsSilent' /\ WinnerLast'
  <2>1. live' = [live EXCEPT ![r][g] = Fresh]
    BY <1>2 DEF BeginCreate
  <2>2. PICK q \in Request : q.msg = g /\ pending' = [pending EXCEPT ![r] = Append(pending[r], q)]
    <3>1. [msg |-> g, kind |-> "save", value |-> SnapshotOf(Fresh)] \in Request
      BY InstanceTypes, RequestTypes, MessageTypes
    <3>. QED  BY <1>2, <3>1 DEF BeginCreate, Await
  <2>3. Fresh \in Instance /\ Fresh # None /\ Fresh.endedBy = None
    BY InstanceTypes, NoneAssumption DEF Fresh
  <2>4. live'[r] = [live[r] EXCEPT ![g] = Fresh] /\ pending'[r] = Append(pending[r], q)
    BY <2>1, <2>2 DEF TypeOK
  <2>5. live'[r] \in GamesHere /\ live'[r][g] = Fresh
    BY <1>1, <2>3, <2>4 DEF GamesHere
  <2>6. pending[r] \in Seq(Request) /\ live[r] \in GamesHere /\ Orderly(pending[r], live[r])
    BY <1>1
  <2>7. Orderly(pending'[r], live'[r])
    <3>1. Orderly(pending[r], [live[r] EXCEPT ![g] = Fresh])
      BY <2>3, <2>6, OrderlySameWinner
    <3>2. GameOf(q.msg) = g
      BY <2>2, MessageTypes
    <3>3. live'[r][GameOf(q.msg)] # None /\ live'[r][GameOf(q.msg)].endedBy = None
      BY <2>3, <2>5, <3>2
    <3>. QED  BY <2>4, <2>5, <2>6, <3>1, <3>3, OrderlyAppend
  <2>. QED  BY <2>1, <2>2, <2>7, OrderlyElsewhere DEF TypeOK
<1>3. ASSUME NEW r \in Replicas, NEW c \in Commands, BeginForeign(r, c)
      PROVE  RemovedIsSilent' /\ WinnerLast'
  <2>1. PICK q \in Request : /\ q.kind = "load" /\ live' = live
                             /\ pending' = [pending EXCEPT ![r] = Append(pending[r], q)]
    <3>1. [msg |-> c, kind |-> "load", value |-> None] \in Request
      BY RequestTypes, MessageTypes
    <3>. QED  BY <1>3, <3>1 DEF BeginForeign, Await
  <2>2. pending'[r] = Append(pending[r], q)
    BY <2>1 DEF TypeOK
  <2>3. Orderly(pending'[r], live'[r])
    BY <1>1, <2>1, <2>2, OrderlyAppend
  <2>. QED  BY <2>1, <2>3, OrderlyElsewhere DEF TypeOK
<1>4. ASSUME NEW r \in Replicas, NEW c \in Commands, BeginCommand(r, c)
      PROVE  RemovedIsSilent' /\ WinnerLast'
  <2>1. live[r][Target[c]] # None /\ live[r][Target[c]].endedBy = None /\ Target[c] \in Games
    BY <1>4, MessageTypes DEF BeginCommand
  <2>2. live[r][Target[c]] \in Instance
    BY <2>1 DEF TypeOK
  <2>3. PICK i \in Instance : Take(r, c) /\ Accept(r, c, i) /\ i.endedBy \in {None, c}
    <3>1. /\ Execute(live[r][Target[c]], c).endedBy = None
          /\ ExecuteAndWin(live[r][Target[c]], c).endedBy = c
      BY <2>1 DEF Execute, ExecuteAndWin
    <3>. QED  BY <1>4, <2>2, <3>1, InstanceTypes DEF BeginCommand
  <2>4. PICK q \in Request : /\ q.msg = c /\ q.kind = "save"
                             /\ pending' = [pending EXCEPT ![r] = Append(pending[r], q)]
    <3>1. [msg |-> c, kind |-> "save", value |-> SnapshotOf(i)] \in Request
      BY InstanceTypes, RequestTypes, MessageTypes
    <3>. QED  BY <2>3, <3>1 DEF Accept, Await
  <2>5. live' = [live EXCEPT ![r][Target[c]] = Drained(i)]
    BY <2>3 DEF Accept
  <2>6. Drained(i) \in Instance /\ Drained(i).endedBy = i.endedBy /\ Drained(i) # None
    BY InstanceTypes, NoneAssumption DEF Drained
  <2>7. /\ live'[r] = [live[r] EXCEPT ![Target[c]] = Drained(i)]
        /\ pending'[r] = Append(pending[r], q)
    BY <2>4, <2>5 DEF TypeOK
  <2>8. CASE i.endedBy = None
    <3>1. live'[r] \in GamesHere /\ live'[r][Target[c]] = Drained(i)
      BY <1>1, <2>1, <2>6, <2>7 DEF GamesHere
    <3>2. pending[r] \in Seq(Request) /\ live[r] \in GamesHere /\ Orderly(pending[r], live[r])
      BY <1>1
    <3>3. Orderly(pending'[r], live'[r])
      <4>1. Orderly(pending[r], [live[r] EXCEPT ![Target[c]] = Drained(i)])
        BY <2>1, <2>6, <2>8, <3>2, OrderlySameWinner
      <4>2. GameOf(q.msg) = Target[c]
        BY <2>4, MessageTypes
      <4>3. live'[r][GameOf(q.msg)] # None /\ live'[r][GameOf(q.msg)].endedBy = None
        BY <2>6, <2>8, <3>1, <4>2
      <4>. QED  BY <2>7, <3>1, <3>2, <4>1, <4>3, OrderlyAppend
    <3>. QED  BY <2>4, <2>5, <3>3, OrderlyElsewhere DEF TypeOK
  <2>9. CASE i.endedBy = c
    <3>1. \A k \in DOMAIN pending[r] : pending[r][k].msg # c
      BY <2>3, TakenInbox, MessageTypes
    <3>2. pending[r] \in Seq(Request) /\ live[r] \in GamesHere /\ Orderly(pending[r], live[r])
      BY <1>1
    <3>3. Orderly(Append(pending[r], q), [live[r] EXCEPT ![Target[c]] = Drained(i)])
      BY <2>1, <2>4, <2>6, <2>9, <3>1, <3>2, OrderlyWhenWon
    <3>4. Orderly(pending'[r], live'[r])
      BY <2>7, <3>3
    <3>. QED  BY <2>4, <2>5, <3>4, OrderlyElsewhere DEF TypeOK
  <2>. QED  BY <2>3, <2>8, <2>9
<1>5. ASSUME NEW r \in Replicas, NEW c \in Commands, BeginLate(r, c)
      PROVE  RemovedIsSilent' /\ WinnerLast'
  <2>1. live[r][Target[c]] # None /\ Target[c] \in Games
    BY <1>5, MessageTypes DEF BeginLate
  <2>2. live[r][Target[c]] \in Instance
    BY <2>1 DEF TypeOK
  <2>3. PICK i \in Instance : /\ live' = [live EXCEPT ![r][Target[c]] = i] /\ pending' = pending
                              /\ i.endedBy = live[r][Target[c]].endedBy
    BY <1>5, <2>2, InstanceTypes DEF BeginLate, Execute
  <2>4. live'[r] = [live[r] EXCEPT ![Target[c]] = i]
    BY <2>3 DEF TypeOK
  <2>5. Orderly(pending'[r], live'[r])
    <3>1. pending[r] \in Seq(Request) /\ live[r] \in GamesHere /\ Orderly(pending[r], live[r])
      BY <1>1
    <3>2. Orderly(pending[r], [live[r] EXCEPT ![Target[c]] = i])
      BY <2>1, <2>3, <3>1, OrderlySameWinner
    <3>. QED  BY <2>3, <2>4, <3>2
  <2>. QED  BY <2>3, <2>5, OrderlyElsewhere DEF TypeOK
<1>6. ASSUME NEW r \in Replicas, NEW m \in Messages, NEW q \in Request,
             Answered(r, m, "save"), q.msg = m, q.kind = "view",
             pending' = [pending EXCEPT ![r] = Append(Tail(pending[r]), q)]
      PROVE  Orderly(pending'[r], live[r])
  <2>1. pending[r] # <<>> /\ pending[r][1].msg = m /\ pending[r][1].kind = "save"
    BY <1>6, HeadTypes DEF Answered
  <2>2. pending'[r] = Append(Tail(pending[r]), q)
    BY <1>6 DEF TypeOK
  <2>. QED  BY <1>1, <1>6, <2>1, <2>2, OrderlyAfterSave
<1>7. ASSUME NEW r \in Replicas, NEW g \in Games, CreateSaved(r, g)
      PROVE  RemovedIsSilent' /\ WinnerLast'
  <2>1. Answered(r, g, "save") /\ g \in Messages
    BY <1>7, MessageTypes DEF CreateSaved
  <2>2. live[r][g] \in Instance
    BY <2>1, HandlerHasGame, MessageTypes
  <2>3. PICK q \in Request : /\ q.msg = g /\ q.kind = "view"
                             /\ pending' = [pending EXCEPT ![r] = Append(Tail(pending[r]), q)]
    <3>1. [msg |-> g, kind |-> "view", value |-> ViewFor(live[r][g], g)] \in Request
      BY <2>1, <2>2, InstanceTypes, RequestTypes
    <3>. QED  BY <1>7, <3>1 DEF CreateSaved, ForgetAndAwait
  <2>4. /\ Drained(live[r][g]) \in Instance /\ Drained(live[r][g]).endedBy = live[r][g].endedBy
        /\ live[r][g] # None
    BY <2>2, InstanceTypes, NoneAssumption DEF Drained
  <2>5. live' = [live EXCEPT ![r][g] = Drained(live[r][g])]
    BY <1>7 DEF CreateSaved
  <2>6. live'[r] = [live[r] EXCEPT ![g] = Drained(live[r][g])]
    BY <2>5 DEF TypeOK
  <2>7. pending'[r] \in Seq(Request)
    BY <1>7, <2>3, ContinueTypes DEF TypeOK, Continue
  <2>8. Orderly(pending'[r], live'[r])
    <3>1. Orderly(pending'[r], live[r]) /\ live[r] \in GamesHere
      BY <1>1, <1>6, <2>1, <2>3
    <3>2. Orderly(pending'[r], [live[r] EXCEPT ![g] = Drained(live[r][g])])
      BY <2>4, <2>7, <3>1, OrderlySameWinner
    <3>. QED  BY <2>6, <3>2
  <2>. QED  BY <2>3, <2>5, <2>8, OrderlyElsewhere DEF TypeOK
<1>8. ASSUME NEW r \in Replicas, NEW c \in Commands, CommandSaved(r, c)
      PROVE  RemovedIsSilent' /\ WinnerLast'
  <2>1. Answered(r, c, "save") /\ c \in Messages /\ live' = live
    BY <1>8, MessageTypes DEF CommandSaved
  <2>2. live[r][Target[c]] \in Instance
    BY <2>1, HandlerHasGame, MessageTypes
  <2>3. PICK q \in Request : /\ q.msg = c /\ q.kind = "view"
                             /\ pending' = [pending EXCEPT ![r] = Append(Tail(pending[r]), q)]
    <3>1. [msg |-> c, kind |-> "view", value |-> ViewFor(live[r][Target[c]], c)] \in Request
      BY <2>1, <2>2, InstanceTypes, RequestTypes
    <3>. QED  BY <1>8, <3>1 DEF CommandSaved, ForgetAndAwait
  <2>4. Orderly(pending'[r], live'[r])
    BY <1>6, <2>1, <2>3
  <2>. QED  BY <2>1, <2>3, <2>4, OrderlyElsewhere DEF TypeOK
<1>9. ASSUME NEW r \in Replicas, pending[r] # <<>>, Forget(r), live' = live
      PROVE  RemovedIsSilent' /\ WinnerLast'
  <2>1. pending' = [pending EXCEPT ![r] = Tail(pending[r])] /\ pending'[r] = Tail(pending[r])
    BY <1>9 DEF Forget, TypeOK
  <2>2. Orderly(pending'[r], live'[r])
    BY <1>1, <1>9, <2>1, OrderlyTail
  <2>. QED  BY <1>9, <2>1, <2>2, OrderlyElsewhere DEF TypeOK
<1>10. ASSUME NEW r \in Replicas, NEW c \in Commands, CommandViewed(r, c)
       PROVE  RemovedIsSilent' /\ WinnerLast'
  <2> DEFINE g == Target[c]
  <2>1. /\ pending[r] # <<>> /\ pending[r][1].msg = c /\ pending[r][1].kind = "view"
        /\ 1 \in DOMAIN pending[r] /\ Forget(r)
    BY <1>10, HeadTypes DEF CommandViewed, Answered
  <2>2. CASE live' = live
    BY <1>9, <2>1, <2>2
  <2>3. CASE live[r][g].endedBy = c /\ live' = [live EXCEPT ![r][g] = None]
    <3>1. g \in Games /\ GameOf(c) = g /\ c # None
      BY MessageTypes, EngineAssumption
    <3>2. /\ pending' = [pending EXCEPT ![r] = Tail(pending[r])]
          /\ pending'[r] = Tail(pending[r]) /\ live'[r] = [live[r] EXCEPT ![g] = None]
      BY <2>1, <2>3 DEF Forget, TypeOK
    <3>3. \A i \in DOMAIN pending'[r] :
            i \in Nat \ {0} /\ i + 1 \in DOMAIN pending[r] /\ pending'[r][i] = pending[r][i + 1]
      <4>1. pending[r] \in Seq(Request) /\ pending[r] # <<>>
        BY <1>1, <2>1
      <4>2. \A i \in DOMAIN Tail(pending[r]) :
              i \in Nat \ {0} /\ i + 1 \in DOMAIN pending[r] /\ Tail(pending[r])[i] = pending[r][i + 1]
        BY <4>1, TailFacts
      <4>. QED  BY <3>2, <4>2
    <3>4. live[r][g] # None
      BY <2>1, <3>1 DEF RemovedIsSilent
    <3>5. LastIn(pending[r], g, c)
      BY <2>3, <3>1, <3>4 DEF WinnerLast
    <3>6. \A i \in DOMAIN pending'[r] : pending'[r][i].kind # "load" => GameOf(pending'[r][i].msg) # g
      <4>1. \A i \in DOMAIN pending'[r] : i + 1 # 1 /\ ~ (i + 1 < 1)
        BY <3>3
      <4>. QED  BY <2>1, <3>3, <3>5, <4>1 DEF LastIn
    <3>7. Orderly(pending'[r], live[r])
      BY <1>1, <2>1, <3>2, OrderlyTail
    <3>8. \A h \in Games \ {g} : live'[r][h] = live[r][h]
      BY <1>1, <3>2 DEF GamesHere
    <3>9. live'[r][g] = None
      BY <1>1, <3>1, <3>2 DEF GamesHere
    <3>10. \A i \in DOMAIN pending'[r] : GameOf(pending'[r][i].msg) \in Games
      BY <3>3, RequestMessages, MessageTypes
    <3>11. \A i \in DOMAIN pending'[r] :
             pending'[r][i].kind # "load" => live'[r][GameOf(pending'[r][i].msg)] # None
      BY <3>6, <3>7, <3>8, <3>10 DEF Orderly
    <3>12. Orderly(pending'[r], live'[r])
      BY <3>7, <3>8, <3>9, <3>11 DEF Orderly
    <3>. QED  BY <2>3, <3>2, <3>12, OrderlyElsewhere DEF TypeOK
  <2>. QED  BY <1>10, <2>2, <2>3 DEF CommandViewed
<1>11. ASSUME NEW r \in Replicas, Crash(r)  PROVE RemovedIsSilent' /\ WinnerLast'
  <2>1. /\ pending' = [pending EXCEPT ![r] = <<>>] /\ pending'[r] = <<>>
        /\ live' = [live EXCEPT ![r] = [g \in Games |-> None]] /\ \A g \in Games : live'[r][g] = None
    BY <1>11 DEF Crash, TypeOK
  <2>2. Orderly(pending'[r], live'[r])
    BY <2>1 DEF Orderly
  <2>. QED  BY <2>1, <2>2, OrderlyElsewhere DEF TypeOK
<1>12. ASSUME UNCHANGED <<pending, live>>  PROVE RemovedIsSilent' /\ WinnerLast'
  BY <1>12 DEF RemovedIsSilent, WinnerLast
<1>13. ASSUME NEW r \in Replicas, Begin(r)  PROVE RemovedIsSilent' /\ WinnerLast'
  <2>1. \A c \in Commands : Refuse(r, c) => UNCHANGED <<pending, live>>
    BY DEF Refuse
  <2>. QED  BY <1>2, <1>3, <1>4, <1>5, <1>12, <1>13, <2>1 DEF Begin
<1>14. ASSUME NEW r \in Replicas, Continue(r)  PROVE RemovedIsSilent' /\ WinnerLast'
  <2>1. /\ \A g \in Games : CreateViewed(r, g) => pending[r] # <<>> /\ Forget(r) /\ live' = live
        /\ \A c \in Commands : Loaded(r, c) => pending[r] # <<>> /\ Forget(r) /\ live' = live
    BY DEF CreateViewed, Loaded, Answered
  <2>. QED  BY <1>7, <1>8, <1>9, <1>10, <1>14, <2>1 DEF Continue
<1>15. ASSUME NEW r \in Replicas, NEW m \in Messages, RequestFails(r, m)
       PROVE  RemovedIsSilent' /\ WinnerLast'
  BY <1>9, <1>15 DEF RequestFails
<1>16. ASSUME UNCHANGED vars \/ (\E m \in Messages : Send(m)) \/ (\E r \in Replicas : Deliver(r))
       PROVE  RemovedIsSilent' /\ WinnerLast'
  BY <1>12, <1>16 DEF vars, Send, Deliver
<1>. QED  BY <1>11, <1>13, <1>14, <1>15, <1>16 DEF Next
-----------------------------------------------------------------------------
(* Applied once *)

\* A command in the log of a game in memory is being handled there, or was.
AppliedHere ==
  \A r \in Replicas, g \in Games : live[r][g] # None =>
    \A k \in DOMAIN live[r][g].log :
      \/ status[live[r][g].log[k]] = "handling" /\ consumer[live[r][g].log[k]] = r
      \/ status[live[r][g].log[k]] \in {"acked", "rejected"}

LEMMA LogCommands ==
  ASSUME TypeOK, NEW r \in Replicas, NEW g \in Games, live[r][g] # None
  PROVE  live[r][g].log \in Seq(Commands)
  BY DEF TypeOK, Instance

\* Of every log that is not empty, the step keeps the log or drops the game,
\* and commands that are handled stay where they are, or are finished, or
\* their replica r loses its games.
LEMMA LogsKept ==
  ASSUME TypeOK, AppliedHere, AppliedOnce,
         \A s \in Replicas, g \in Games : live'[s][g] # None =>
           \/ live'[s][g].log = <<>>
           \/ /\ live[s][g] # None /\ live'[s][g].log = live[s][g].log
              /\ \A c \in Commands :
                   \/ status'[c] = status[c] /\ consumer'[c] = consumer[c]
                   \/ status'[c] \in {"acked", "rejected"}
                   \/ status[c] \in {"unsent", "ready", "delivered"}
                   \/ status[c] = "handling" /\ consumer[c] # s
  PROVE  AppliedHere' /\ AppliedOnce'
<1>1. ASSUME NEW s \in Replicas, NEW g \in Games, live'[s][g] # None
      PROVE  /\ \A k \in DOMAIN live'[s][g].log :
                  \/ status'[live'[s][g].log[k]] = "handling" /\ consumer'[live'[s][g].log[k]] = s
                  \/ status'[live'[s][g].log[k]] \in {"acked", "rejected"}
             /\ \A i, j \in DOMAIN live'[s][g].log :
                  live'[s][g].log[i] = live'[s][g].log[j] => i = j
  <2>1. CASE live'[s][g].log = <<>>
    BY <2>1
  <2>2. CASE live'[s][g].log # <<>>
    <3>1. live[s][g] # None /\ live'[s][g].log = live[s][g].log
      BY <1>1, <2>2
    <3>2. live[s][g].log \in Seq(Commands)
      BY <3>1, LogCommands
    <3>3. ASSUME NEW k \in DOMAIN live[s][g].log
          PROVE  \/ status'[live[s][g].log[k]] = "handling" /\ consumer'[live[s][g].log[k]] = s
                 \/ status'[live[s][g].log[k]] \in {"acked", "rejected"}
      <4> DEFINE c == live[s][g].log[k]
      <4>1. c \in Commands
        BY <3>2
      <4>2. (status[c] = "handling" /\ consumer[c] = s) \/ status[c] \in {"acked", "rejected"}
        BY <3>1 DEF AppliedHere
      <4>3. \/ status'[c] = status[c] /\ consumer'[c] = consumer[c]
            \/ status'[c] \in {"acked", "rejected"}
            \/ status[c] \in {"unsent", "ready", "delivered"}
            \/ status[c] = "handling" /\ consumer[c] # s
        BY <1>1, <2>2, <4>1
      <4>. QED  BY <4>2, <4>3
    <3>4. \A i, j \in DOMAIN live[s][g].log : live[s][g].log[i] = live[s][g].log[j] => i = j
      BY <3>1 DEF AppliedOnce
    <3>. QED  BY <3>1, <3>3, <3>4
  <2>. QED  BY <2>1, <2>2
<1>. QED  BY <1>1 DEF AppliedHere, AppliedOnce

\* One command is appended to one log.
LEMMA LogAppended ==
  ASSUME TypeOK, AppliedHere, AppliedOnce, NEW r \in Replicas, NEW c \in Commands, NEW i \in Instance,
         live[r][Target[c]] # None, i.log = Append(live[r][Target[c]].log, c),
         live' = [live EXCEPT ![r][Target[c]] = i],
         status[c] = "delivered",
         (status'[c] = "handling" /\ consumer'[c] = r) \/ status'[c] \in {"acked", "rejected"},
         \A x \in Messages \ {c} : status'[x] = status[x] /\ consumer'[x] = consumer[x]
  PROVE  AppliedHere' /\ AppliedOnce'
<1> DEFINE g   == Target[c]
           old == live[r][g].log
           new == Append(old, c)
<1>1. g \in Games /\ old \in Seq(Commands)
  BY LogCommands, MessageTypes
<1>2. /\ \A k \in DOMAIN new : k \in DOMAIN old \/ k = Len(old) + 1
      /\ \A k \in DOMAIN old : new[k] = old[k]
      /\ new[Len(old) + 1] = c
  BY <1>1, AppendFacts
<1>3. ASSUME NEW s \in Replicas, NEW h \in Games, live[s][h] # None, NEW k \in DOMAIN live[s][h].log
      PROVE  /\ live[s][h].log[k] # c
             /\ \/ status'[live[s][h].log[k]] = "handling" /\ consumer'[live[s][h].log[k]] = s
                \/ status'[live[s][h].log[k]] \in {"acked", "rejected"}
  <2> DEFINE x == live[s][h].log[k]
  <2>1. x \in Commands
    BY <1>3, LogCommands
  <2>2. (status[x] = "handling" /\ consumer[x] = s) \/ status[x] \in {"acked", "rejected"}
    BY <1>3 DEF AppliedHere
  <2>3. x # c
    BY <2>2
  <2>4. status'[x] = status[x] /\ consumer'[x] = consumer[x]
    BY <2>1, <2>3, MessageTypes
  <2>. QED  BY <2>2, <2>3, <2>4
<1>4. live'[r][g] = i
  BY <1>1 DEF TypeOK
<1>5. \A s \in Replicas, h \in Games : ~ (s = r /\ h = g) => live'[s][h] = live[s][h]
  BY <1>1 DEF TypeOK
<1>6. \A k \in DOMAIN old :
        /\ old[k] # c
        /\ \/ status'[old[k]] = "handling" /\ consumer'[old[k]] = r
           \/ status'[old[k]] \in {"acked", "rejected"}
        /\ \A j \in DOMAIN old : old[j] = old[k] => j = k
  BY <1>1, <1>3 DEF AppliedOnce
<1>7. i.log = new
  OBVIOUS
<1> HIDE DEF old, new, g
<1>8. \A k \in DOMAIN new :
        /\ \/ status'[new[k]] = "handling" /\ consumer'[new[k]] = r
           \/ status'[new[k]] \in {"acked", "rejected"}
        /\ \A j \in DOMAIN new : new[j] = new[k] => j = k
  BY <1>2, <1>6
<1>9. AppliedHere'
  BY <1>3, <1>4, <1>5, <1>7, <1>8 DEF AppliedHere
<1>10. AppliedOnce'
  <2>1. \A s \in Replicas, h \in Games : live[s][h] # None =>
          \A k, j \in DOMAIN live[s][h].log : live[s][h].log[k] = live[s][h].log[j] => k = j
    BY DEF AppliedOnce
  <2>. QED  BY <1>4, <1>5, <1>7, <1>8, <2>1 DEF AppliedOnce
<1>. QED  BY <1>9, <1>10

LEMMA AppliedStep ==
  ASSUME TypeOK, InHand, RemovedIsSilent, AppliedHere, AppliedOnce, [Next]_vars
  PROVE  AppliedHere' /\ AppliedOnce'
<1>1. ASSUME NEW r \in Replicas, NEW m \in Messages,
             Begun(r, m) \/ Declined(r, m) \/ Continued(r, m) \/ Finished(r, m)
      PROVE  \A c \in Commands :
               \/ status'[c] = status[c] /\ consumer'[c] = consumer[c]
               \/ status'[c] \in {"acked", "rejected"}
               \/ status[c] \in {"unsent", "ready", "delivered"}
  BY <1>1, KindFates, MessageTypes
<1>2. ASSUME NEW r \in Replicas, NEW m \in Messages,
             Begun(r, m) \/ Declined(r, m) \/ Continued(r, m) \/ Finished(r, m),
             \A s \in Replicas, g \in Games : live'[s][g] # None =>
               live'[s][g].log = <<>> \/ (live[s][g] # None /\ live'[s][g].log = live[s][g].log)
      PROVE  AppliedHere' /\ AppliedOnce'
  BY <1>1, <1>2, LogsKept
<1>3. ASSUME NEW r \in Replicas, NEW g \in Games, BeginCreate(r, g)  PROVE AppliedHere' /\ AppliedOnce'
  <2>1. Begun(r, g) /\ g \in Messages
    BY <1>3, ActionKinds, MessageTypes
  <2>2. Fresh.log = <<>>
    BY DEF Fresh
  <2>3. \A s \in Replicas, h \in Games : live'[s][h] = Fresh \/ live'[s][h] = live[s][h]
    BY <1>3 DEF BeginCreate, TypeOK
  <2>. QED  BY <1>2, <2>1, <2>2, <2>3
<1>4. ASSUME NEW r \in Replicas, NEW c \in Commands, BeginCommand(r, c)
      PROVE  AppliedHere' /\ AppliedOnce'
  <2>1. Begun(r, c) /\ c \in Messages /\ live[r][Target[c]] # None /\ Target[c] \in Games
    BY <1>4, ActionKinds, MessageTypes DEF BeginCommand
  <2>2. live[r][Target[c]] \in Instance
    BY <2>1 DEF TypeOK
  <2>3. PICK i \in Instance : /\ live' = [live EXCEPT ![r][Target[c]] = i]
                              /\ i.log = Append(live[r][Target[c]].log, c)
    <3>1. PICK x \in Instance : Accept(r, c, x) /\ x.log = Append(live[r][Target[c]].log, c)
      <4>1. /\ Execute(live[r][Target[c]], c).log = Append(live[r][Target[c]].log, c)
            /\ ExecuteAndWin(live[r][Target[c]], c).log = Append(live[r][Target[c]].log, c)
        BY DEF Execute, ExecuteAndWin
      <4>. QED  BY <1>4, <2>2, <4>1, InstanceTypes DEF BeginCommand
    <3>2. Drained(x) \in Instance /\ Drained(x).log = x.log
      BY InstanceTypes DEF Drained
    <3>. QED  BY <3>1, <3>2 DEF Accept
  <2>4. /\ status[c] = "delivered" /\ status'[c] = "handling" /\ consumer'[c] = r
        /\ \A x \in Messages \ {c} : status'[x] = status[x] /\ consumer'[x] = consumer[x]
    BY <2>1, KindFates
  <2>. QED  BY <2>1, <2>3, <2>4, LogAppended
<1>5. ASSUME NEW r \in Replicas, NEW c \in Commands, BeginLate(r, c)
      PROVE  AppliedHere' /\ AppliedOnce'
  <2>1. /\ Declined(r, c) /\ Take(r, c) /\ c \in Messages
        /\ live[r][Target[c]] # None /\ Target[c] \in Games
    BY <1>5, ActionKinds, MessageTypes DEF BeginLate
  <2>2. live[r][Target[c]] \in Instance
    BY <2>1 DEF TypeOK
  <2>3. PICK i \in Instance : /\ live' = [live EXCEPT ![r][Target[c]] = i]
                              /\ i.log = Append(live[r][Target[c]].log, c)
    BY <1>5, <2>2, InstanceTypes DEF BeginLate, Execute
  <2>4. /\ status[c] = "delivered" /\ status'[c] \in {"acked", "rejected"}
        /\ \A x \in Messages \ {c} : status'[x] = status[x] /\ consumer'[x] = consumer[x]
    BY <2>1, KindFates, TakenInbox
  <2>. QED  BY <2>1, <2>3, <2>4, LogAppended
<1>6. ASSUME NEW r \in Replicas, NEW g \in Games, CreateSaved(r, g)  PROVE AppliedHere' /\ AppliedOnce'
  <2>1. Continued(r, g) /\ g \in Messages
    BY <1>6, ActionKinds, MessageTypes
  <2>2. live[r][g] # None
    BY <1>6, HandlerHasGame, MessageTypes, NoneAssumption DEF CreateSaved
  <2>3. Drained(live[r][g]).log = live[r][g].log
    BY DEF Drained
  <2>4. \A s \in Replicas, h \in Games :
          \/ live'[s][h] = live[s][h]
          \/ s = r /\ h = g /\ live'[s][h] = Drained(live[r][g])
    BY <1>6 DEF CreateSaved, TypeOK
  <2>. QED  BY <1>2, <2>1, <2>2, <2>3, <2>4
<1>7. ASSUME NEW r \in Replicas, NEW m \in Messages,
             Begun(r, m) \/ Declined(r, m) \/ Continued(r, m) \/ Finished(r, m), live' = live
      PROVE  AppliedHere' /\ AppliedOnce'
  BY <1>2, <1>7
<1>8. ASSUME NEW r \in Replicas, NEW c \in Commands, CommandViewed(r, c)  PROVE AppliedHere' /\ AppliedOnce'
  <2>1. Finished(r, c) /\ c \in Messages
    BY <1>8, ActionKinds, MessageTypes
  <2>2. \A s \in Replicas, h \in Games : live'[s][h] = None \/ live'[s][h] = live[s][h]
    BY <1>8, MessageTypes DEF CommandViewed, TypeOK
  <2>. QED  BY <1>2, <2>1, <2>2
<1>9. ASSUME NEW r \in Replicas, Crash(r)  PROVE AppliedHere' /\ AppliedOnce'
  <2>1. \A s \in Replicas, g \in Games : live'[s][g] # None => s # r /\ live'[s][g] = live[s][g]
    BY <1>9 DEF Crash, TypeOK
  <2>2. \A c \in Commands :
          \/ status'[c] = status[c] /\ consumer'[c] = consumer[c]
          \/ consumer[c] = r
    BY <1>9, MessageTypes DEF Crash
  <2>3. \A c \in Commands : status'[c] = status[c] \/ status[c] \in {"delivered", "handling"}
    BY <1>9, MessageTypes DEF Crash
  <2>4. \A c \in Commands : status[c] \in {"acked", "rejected"} => status'[c] \in {"acked", "rejected"}
    BY <2>3
  <2>5. \A c \in Commands : status[c] \in {"unsent", "ready", "delivered", "handling", "acked", "rejected"}
    BY MessageTypes DEF TypeOK, Statuses
  <2>6. ASSUME NEW s \in Replicas, s # r, NEW c \in Commands
        PROVE  \/ status'[c] = status[c] /\ consumer'[c] = consumer[c]
               \/ status'[c] \in {"acked", "rejected"}
               \/ status[c] \in {"unsent", "ready", "delivered"}
               \/ status[c] = "handling" /\ consumer[c] # s
    BY <2>2, <2>4, <2>5, <2>6
  <2>. QED  BY <2>1, <2>6, LogsKept
<1>10. ASSUME NEW r \in Replicas, Deliver(r)  PROVE AppliedHere' /\ AppliedOnce'
  <2>1. PICK i \in DOMAIN sent :
          /\ status[sent[i]] = "ready" /\ live' = live
          /\ status' = [status EXCEPT ![sent[i]] = "delivered"]
          /\ consumer' = [consumer EXCEPT ![sent[i]] = r]
    BY <1>10 DEF Deliver, DeliveredOnce, FirstReady
  <2>2. \A c \in Commands : \/ status'[c] = status[c] /\ consumer'[c] = consumer[c]
                            \/ status[c] = "ready"
    BY <2>1, MessageTypes DEF TypeOK
  <2>. QED  BY <2>1, <2>2, LogsKept
<1>11. ASSUME NEW m \in Messages, Send(m)  PROVE AppliedHere' /\ AppliedOnce'
  <2>1. live' = live /\ \A c \in Commands : \/ status'[c] = status[c] /\ consumer'[c] = consumer[c]
                                            \/ status[c] = "unsent"
    BY <1>11, MessageTypes DEF Send, TypeOK
  <2>. QED  BY <2>1, LogsKept
<1>12. ASSUME UNCHANGED vars  PROVE AppliedHere' /\ AppliedOnce'
  BY <1>12 DEF vars, broker, AppliedHere, AppliedOnce
<1>13. ASSUME NEW r \in Replicas, Begin(r)  PROVE AppliedHere' /\ AppliedOnce'
  <2>1. \A c \in Commands : BeginForeign(r, c) \/ Refuse(r, c) => live' = live
    BY DEF BeginForeign, Refuse
  <2>. QED  BY <1>3, <1>4, <1>5, <1>7, <1>13, <2>1, ActionKinds, MessageTypes DEF Begin
<1>14. ASSUME NEW r \in Replicas, Continue(r)  PROVE AppliedHere' /\ AppliedOnce'
  <2>1. /\ \A g \in Games : CreateViewed(r, g) => live' = live
        /\ \A c \in Commands : CommandSaved(r, c) \/ Loaded(r, c) => live' = live
    BY DEF CreateViewed, CommandSaved, Loaded
  <2>. QED  BY <1>6, <1>7, <1>8, <1>14, <2>1, ActionKinds, MessageTypes DEF Continue
<1>15. ASSUME NEW r \in Replicas, NEW m \in Messages, RequestFails(r, m)
       PROVE  AppliedHere' /\ AppliedOnce'
  <2>1. Finished(r, m) /\ live' = live
    BY <1>15, ActionKinds DEF RequestFails
  <2>. QED  BY <1>7, <2>1
<1>. QED  BY <1>9, <1>10, <1>11, <1>12, <1>13, <1>14, <1>15 DEF Next

-----------------------------------------------------------------------------
(* Theorems *)

\* The inductive invariant.
EngineInv == /\ TypeOK /\ InHand /\ RemovedIsSilent /\ WinnerLast /\ HomeOf /\ OneOwner
             /\ AppliedHere /\ AppliedOnce

LEMMA EngineInvHolds == Spec => []EngineInv
<1>1. Init => EngineInv
  <2>. SUFFICES ASSUME Init PROVE EngineInv
    OBVIOUS
  <2>1. TypeOK
    BY InitTypes
  <2>2. InHand /\ RemovedIsSilent
    BY DEF Init, InHand, RemovedIsSilent
  <2>3. WinnerLast /\ HomeOf /\ OneOwner
    BY DEF Init, WinnerLast, HomeOf, OneOwner
  <2>4. AppliedHere /\ AppliedOnce
    BY DEF Init, AppliedHere, AppliedOnce
  <2>. QED  BY <2>1, <2>2, <2>3, <2>4 DEF EngineInv
<1>2. EngineInv /\ [Next]_vars => EngineInv'
  BY TypeStep, InHandStep, OrderlyStep, HomeOfStep, OneOwnerStep, AppliedStep DEF EngineInv
<1>. QED  BY <1>1, <1>2, PTL DEF Spec

\* Messages, requests, games, stored values and events always have the
\* declared types: no handler stores or publishes half a game.
THEOREM TypeCorrect == Spec => []TypeOK
<1>1. EngineInv => TypeOK
  BY DEF EngineInv
<1>. QED  BY <1>1, EngineInvHolds, PTL

\* A message is never with two replicas, or twice with one.
THEOREM NeverHandledTwice == Spec => []InHand
<1>1. EngineInv => InHand
  BY DEF EngineInv
<1>. QED  BY <1>1, EngineInvHolds, PTL

\* A game lives on one replica at a time.
THEOREM OwnerIsUnique == Spec => []OneOwner
<1>1. EngineInv => OneOwner
  BY DEF EngineInv
<1>. QED  BY <1>1, EngineInvHolds, PTL

\* No command is applied twice to a game, whatever is delivered again.
THEOREM NoneAppliedTwice == Spec => []AppliedOnce
<1>1. EngineInv => AppliedOnce
  BY DEF EngineInv
<1>. QED  BY <1>1, EngineInvHolds, PTL

\* The removal of a game that ended leaves no handler behind that would store
\* its state or view again.
THEOREM RemovalIsLast == Spec => []RemovedIsSilent
<1>1. EngineInv => RemovedIsSilent
  BY DEF EngineInv
<1>. QED  BY <1>1, EngineInvHolds, PTL
=============================================================================
