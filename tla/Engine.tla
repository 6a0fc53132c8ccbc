------------------------------- MODULE Engine -------------------------------
(***************************************************************************)
(* The game engine: replicas that share two work queues, create games and  *)
(* apply commands in asynchronous handlers, and keep the state and a view  *)
(* of every game in Redis.                                                 *)
(*                                                                         *)
(* A handler is cut at its awaits.  Every await is a Redis request, and a  *)
(* replica's requests are answered in the order they were made: ioredis    *)
(* pipelines them on one connection.  So a replica is a queue of delivered *)
(* messages and a queue of pending requests, each with the handler that    *)
(* waits for it; between two steps any other handler may run.              *)
(*                                                                         *)
(* A game's state is the sequence of the commands applied to it and the    *)
(* one that ended it.  Which commands are valid and which one wins is left *)
(* open; a game that was won once stays won (proved for Kingdoms as        *)
(* WinnerAlone; victory points and flags are never taken back in Frontier).*)
(***************************************************************************)
EXTENDS Naturals, Sequences, FiniteSets

CONSTANTS
  Replicas,
  Games,        \* a game also stands for its game-starting message
  Commands,     \* a command is sent once
  Target,       \* command -> game
  None,
  MaxCrashes,   \* bounds of the model: crashes of replicas
  MaxFailures   \*   and failed Redis requests

Messages == Games \cup Commands

ASSUME EngineAssumption ==
  /\ Games \cap Commands = {}
  /\ Target \in [Commands -> Games]
  /\ None \notin Replicas \cup Messages
  /\ MaxCrashes \in Nat /\ MaxFailures \in Nat

GameOf(m) == IF m \in Games THEN m ELSE Target[m]

Snapshot == [log : Seq(Commands), endedBy : Commands \cup {None}]

\* seq is 0 for the two types the engine makes itself; the view of
\* game-started is its payload.
Event ==
  [type : {"applied", "game-ended", "error", "game-started"}, seq : Nat,
   cmd : Commands \cup {None}, view : Snapshot \cup {None}]

\* A game in memory, with the events emitted and not yet published.
Instance == [log : Seq(Commands), endedBy : Commands \cup {None}, buffer : Seq(Event)]

ASSUME NoneAssumption == None \notin Instance \cup Snapshot \cup Seq(Commands)

\* A Redis request, and the message whose handler waits for the answer.
Request == [msg : Messages, kind : {"load", "save", "view"}, value : Snapshot \cup {None}]

VARIABLES
  sent,       \* messages in the order of publication
  status,     \* message -> where it stands with the broker
  consumer,   \* message -> replica it was delivered to, while unacknowledged
  inbox,      \* replica -> messages delivered and not yet handled
  pending,    \* replica -> Redis requests not yet answered
  live,       \* replica -> game -> instance                 (EngineService.games)
  saved,      \* game -> state in Redis                      (engine:state:<id>)
  view,       \* game -> view in Redis                       (engine:view:<id>)
  events,     \* game -> events published
  crashes, failures

broker == <<sent, status, consumer>>
vars   == <<broker, inbox, pending, live, saved, view, events, crashes, failures>>

Statuses == {"unsent", "ready", "delivered", "handling", "acked", "rejected"}

TypeOK ==
  /\ sent \in Seq(Messages)
  /\ status \in [Messages -> Statuses]
  /\ consumer \in [Messages -> Replicas \cup {None}]
  /\ inbox \in [Replicas -> Seq(Messages)]
  /\ pending \in [Replicas -> Seq(Request)]
  /\ live \in [Replicas -> [Games -> Instance \cup {None}]]
  /\ saved \in [Games -> Snapshot \cup {None}]
  /\ view \in [Games -> Snapshot \cup {None}]
  /\ events \in [Games -> Seq(Event)]
  /\ crashes \in 0 .. MaxCrashes /\ failures \in 0 .. MaxFailures

-----------------------------------------------------------------------------
(* Instances and events *)

Fresh == [log |-> <<>>, endedBy |-> None, buffer |-> <<>>]

SnapshotOf(i) == [log |-> i.log, endedBy |-> i.endedBy]

\* Mutant: the instance itself is stored as the view.
ViewForRaw(i, m) == i

\* The view names the winner only when built by the handler of the command
\* that won: the verdict comes from its own result, not from the state.
ViewFor(i, m) == [log |-> i.log, endedBy |-> IF i.endedBy = m THEN m ELSE None]

EngineEvent(t, c, v) == [type |-> t, seq |-> 0, cmd |-> c, view |-> v]

\* One event per command, and one more for the end of the game.
NextSeq(i) == Len(i.log) + (IF i.endedBy = None THEN 1 ELSE 2)

GameEvent(t, c, n) == [type |-> t, seq |-> n, cmd |-> c, view |-> None]

\* Mutant: the executor and the pipeline both emit the event.
ExecuteEmitTwice(i, c) ==
  [log |-> Append(i.log, c), endedBy |-> i.endedBy,
   buffer |-> i.buffer \o <<GameEvent("applied", c, NextSeq(i)),
                           GameEvent("applied", c, NextSeq(i) + 1)>>]

Execute(i, c) ==
  [log |-> Append(i.log, c), endedBy |-> i.endedBy,
   buffer |-> Append(i.buffer, GameEvent("applied", c, NextSeq(i)))]

ExecuteAndWin(i, c) ==
  [log |-> Append(i.log, c), endedBy |-> c,
   buffer |-> Append(Execute(i, c).buffer, GameEvent("game-ended", c, NextSeq(i) + 1))]

\* Mutant: the buffer is not cleared.
DrainedNothing(i) == i

\* drainEvents
Drained(i) == [log |-> i.log, endedBy |-> i.endedBy, buffer |-> <<>>]

Publish(g, es) == events' = [events EXCEPT ![g] = @ \o es]

-----------------------------------------------------------------------------
(* Broker *)

\* Mutants: a queue per replica instead of a shared one; acknowledgement on
\* delivery; rejection with requeue.
DeliveredToEach == "ready"
TakenAutoAck    == "acked"
ThrownRequeued  == "ready"

\* The queue is shared: a message delivered to one replica is gone for others.
DeliveredOnce == "delivered"

\* The handler runs, the message is acknowledged when it returns.
Taken == "handling"

\* A handler that throws rejects its message without requeue.
Thrown == "rejected"

\* A message leaves the broker's hands for good.
Finish(m, fate) ==
  /\ status' = [status EXCEPT ![m] = fate]
  /\ consumer' = [consumer EXCEPT ![m] = None]
  /\ UNCHANGED sent

\* The lobby announces a game, and clients that know of it send commands.
Send(m) ==
  /\ status[m] = "unsent"
  /\ m \in Commands => status[Target[m]] # "unsent"
  /\ sent' = Append(sent, m)
  /\ status' = [status EXCEPT ![m] = "ready"]
  /\ UNCHANGED <<consumer, inbox, pending, live, saved, view, events, crashes, failures>>

\* The i-th message sent is the first of its queue.
FirstReady(i, Queue) ==
  /\ sent[i] \in Queue /\ status[sent[i]] = "ready"
  /\ \A j \in 1 .. i - 1 : ~ (sent[j] \in Queue /\ status[sent[j]] = "ready")

\* No prefetch limit: delivery does not wait for the handlers that run.
Deliver(r) ==
  \E i \in DOMAIN sent, Queue \in {Games, Commands} :
    /\ FirstReady(i, Queue)
    /\ status' = [status EXCEPT ![sent[i]] = DeliveredOnce]
    /\ consumer' = [consumer EXCEPT ![sent[i]] = r]
    /\ inbox' = [inbox EXCEPT ![r] = Append(@, sent[i])]
    /\ UNCHANGED <<sent, pending, live, saved, view, events, crashes, failures>>

-----------------------------------------------------------------------------
(* Handlers *)

Await(r, m, kind, value) ==
  pending' = [pending EXCEPT ![r] = Append(@, [msg |-> m, kind |-> kind, value |-> value])]

Take(r, m) ==
  /\ inbox[r] # <<>> /\ Head(inbox[r]) = m
  /\ inbox' = [inbox EXCEPT ![r] = Tail(@)]
  /\ UNCHANGED <<saved, view, crashes, failures>>

Handle(m) ==
  status' = [status EXCEPT ![m] = Taken] /\ UNCHANGED <<sent, consumer>>

\* createGame up to the first await; the game takes commands from here on.
BeginCreate(r, g) ==
  /\ Take(r, g) /\ Handle(g)
  /\ live' = [live EXCEPT ![r][g] = Fresh]
  /\ Await(r, g, "save", SnapshotOf(Fresh))
  /\ UNCHANGED events

\* handleCommand for a game that is not in memory here.
BeginForeign(r, c) ==
  /\ Take(r, c) /\ Handle(c)
  /\ live[r][Target[c]] = None
  /\ Await(r, c, "load", None)
  /\ UNCHANGED <<live, events>>

\* The validator refuses: a private error, and done.
Refuse(r, c) ==
  /\ Take(r, c)
  /\ live[r][Target[c]] # None
  /\ Publish(Target[c], <<EngineEvent("error", c, None)>>)
  /\ Finish(c, "acked")
  /\ UNCHANGED <<live, pending>>

\* Mutant: the events are not flushed with the command.
AcceptUnflushed(r, c, i) ==
  /\ live' = [live EXCEPT ![r][Target[c]] = i]
  /\ Await(r, c, "save", SnapshotOf(i))
  /\ UNCHANGED events

\* Mutant: the state is saved before the command is applied to it.
AcceptSavedBefore(r, c, i) ==
  /\ Publish(Target[c], i.buffer)
  /\ live' = [live EXCEPT ![r][Target[c]] = Drained(i)]
  /\ Await(r, c, "save", SnapshotOf(live[r][Target[c]]))

\* After submit: flush the events, then save.
Accept(r, c, i) ==
  /\ Publish(Target[c], i.buffer)
  /\ live' = [live EXCEPT ![r][Target[c]] = Drained(i)]
  /\ Await(r, c, "save", SnapshotOf(i))

\* submit succeeds, and the command may win the game.
BeginCommand(r, c) ==
  LET i == live[r][Target[c]] IN
    /\ Take(r, c) /\ Handle(c)
    /\ i # None /\ i.endedBy = None
    /\ \/ Accept(r, c, Execute(i, c))
       \/ Accept(r, c, ExecuteAndWin(i, c))

\* submit on a game that was won: the command is executed, the victory
\* condition holds again, and the status machine throws.
BeginLate(r, c) ==
  LET i == live[r][Target[c]] IN
    /\ Take(r, c)
    /\ i # None /\ i.endedBy # None
    /\ live' = [live EXCEPT ![r][Target[c]] = Execute(i, c)]
    /\ Finish(c, Thrown)
    /\ UNCHANGED <<events, pending>>

\* The oldest request of r is answered, for a handler of message m.
Answered(r, m, kind) ==
  /\ pending[r] # <<>>
  /\ Head(pending[r]).msg = m /\ Head(pending[r]).kind = kind
  /\ UNCHANGED <<inbox, crashes, failures>>

Forget(r) == pending' = [pending EXCEPT ![r] = Tail(@)]

ForgetAndAwait(r, m, kind, value) ==
  pending' = [pending EXCEPT ![r] =
                Append(Tail(@), [msg |-> m, kind |-> kind, value |-> value])]

\* Mutant: the game is announced before its view is stored.
CreateSavedAnnounced(r, g) ==
  /\ Answered(r, g, "save")
  /\ saved' = [saved EXCEPT ![g] = Head(pending[r]).value]
  /\ Publish(g, Append(live[r][g].buffer, EngineEvent("game-started", None, None)))
  /\ live' = [live EXCEPT ![r][g] = Drained(@)]
  /\ ForgetAndAwait(r, g, "view", ViewFor(live[r][g], g))
  /\ UNCHANGED <<broker, view>>

\* createGame after the save: flush, and store the first view.
CreateSaved(r, g) ==
  /\ Answered(r, g, "save")
  /\ saved' = [saved EXCEPT ![g] = Head(pending[r]).value]
  /\ Publish(g, live[r][g].buffer)
  /\ live' = [live EXCEPT ![r][g] = Drained(@)]
  /\ ForgetAndAwait(r, g, "view", ViewFor(live[r][g], g))
  /\ UNCHANGED <<broker, view>>

\* createGame after the view: announce the game with that view.
CreateViewed(r, g) ==
  /\ Answered(r, g, "view")
  /\ view' = [view EXCEPT ![g] = Head(pending[r]).value]
  /\ Publish(g, <<EngineEvent("game-started", None, Head(pending[r]).value)>>)
  /\ Forget(r)
  /\ Finish(g, "acked")
  /\ UNCHANGED <<live, saved>>

\* Mutant: the view is stored at the start of the game only.
CommandSavedOnly(r, c) ==
  /\ Answered(r, c, "save")
  /\ saved' = [saved EXCEPT ![Target[c]] = Head(pending[r]).value]
  /\ Forget(r)
  /\ Finish(c, "acked")
  /\ UNCHANGED <<live, view, events>>

\* handleCommand after the save: the view is built from the game as it is now.
CommandSaved(r, c) ==
  /\ Answered(r, c, "save")
  /\ saved' = [saved EXCEPT ![Target[c]] = Head(pending[r]).value]
  /\ ForgetAndAwait(r, c, "view", ViewFor(live[r][Target[c]], c))
  /\ UNCHANGED <<broker, live, view, events>>

\* Mutant: any command handled to the end after the game was won removes it.
CommandViewedEnded(r, c) ==
  LET g == Target[c] IN
    /\ Answered(r, c, "view")
    /\ view' = [view EXCEPT ![g] = Head(pending[r]).value]
    /\ live' = IF live[r][g].endedBy # None THEN [live EXCEPT ![r][g] = None] ELSE live
    /\ Forget(r)
    /\ Finish(c, "acked")
    /\ UNCHANGED <<saved, events>>

\* handleCommand after the view: the command that won removes the game.
CommandViewed(r, c) ==
  LET g == Target[c] IN
    /\ Answered(r, c, "view")
    /\ view' = [view EXCEPT ![g] = Head(pending[r]).value]
    /\ live' = IF live[r][g].endedBy = c THEN [live EXCEPT ![r][g] = None] ELSE live
    /\ Forget(r)
    /\ Finish(c, "acked")
    /\ UNCHANGED <<saved, events>>

\* The game is not here, whether it is known (503) or not (404): throw.
Loaded(r, c) ==
  /\ Answered(r, c, "load")
  /\ Forget(r)
  /\ Finish(c, Thrown)
  /\ UNCHANGED <<live, saved, view, events>>

-----------------------------------------------------------------------------
(* Failures *)

\* A request fails: the handler throws, and nothing it did is undone.
RequestFails(r, m) ==
  /\ failures < MaxFailures
  /\ pending[r] # <<>> /\ Head(pending[r]).msg = m
  /\ Forget(r)
  /\ Finish(m, Thrown)
  /\ failures' = failures + 1
  /\ UNCHANGED <<inbox, live, saved, view, events, crashes>>

\* Of the first n requests of r, the i-th is the last that writes this kind
\* of value for g; with i = 0, none does.
LastWrite(r, n, g, kind, i) ==
  LET writes == { j \in 1 .. n : pending[r][j].kind = kind /\ GameOf(pending[r][j].msg) = g }
  IN  (i = 0 /\ writes = {}) \/ (i \in writes /\ \A j \in writes : j <= i)

\* A replica dies and starts again: its memory is lost, some of the requests
\* under way still reach Redis, and the broker takes back its messages.
Crash(r) ==
  /\ crashes < MaxCrashes
  /\ crashes' = crashes + 1
  /\ \E n \in 0 .. Len(pending[r]) : \E s, v \in [Games -> 0 .. n] :
       /\ \A g \in Games : LastWrite(r, n, g, "save", s[g]) /\ LastWrite(r, n, g, "view", v[g])
       /\ saved' = [g \in Games |-> IF s[g] = 0 THEN saved[g] ELSE pending[r][s[g]].value]
       /\ view' = [g \in Games |-> IF v[g] = 0 THEN view[g] ELSE pending[r][v[g]].value]
  /\ live' = [live EXCEPT ![r] = [g \in Games |-> None]]
  /\ pending' = [pending EXCEPT ![r] = <<>>]
  /\ inbox' = [inbox EXCEPT ![r] = <<>>]
  /\ status' = [m \in Messages |->
                  IF consumer[m] = r /\ status[m] \in {"delivered", "handling"}
                  THEN "ready" ELSE status[m]]
  /\ consumer' = [m \in Messages |-> IF consumer[m] = r THEN None ELSE consumer[m]]
  /\ UNCHANGED <<sent, events, failures>>

-----------------------------------------------------------------------------
Init ==
  /\ sent = <<>>
  /\ status = [m \in Messages |-> "unsent"]
  /\ consumer = [m \in Messages |-> None]
  /\ inbox = [r \in Replicas |-> <<>>]
  /\ pending = [r \in Replicas |-> <<>>]
  /\ live = [r \in Replicas |-> [g \in Games |-> None]]
  /\ saved = [g \in Games |-> None]
  /\ view = [g \in Games |-> None]
  /\ events = [g \in Games |-> <<>>]
  /\ crashes = 0 /\ failures = 0

\* The next delivered message is handled up to its first await.
Begin(r) ==
  \/ \E g \in Games : BeginCreate(r, g)
  \/ \E c \in Commands :
       BeginForeign(r, c) \/ Refuse(r, c) \/ BeginCommand(r, c) \/ BeginLate(r, c)

\* The handler that waits for the oldest request goes on.
Continue(r) ==
  \/ \E g \in Games : CreateSaved(r, g) \/ CreateViewed(r, g)
  \/ \E c \in Commands : CommandSaved(r, c) \/ CommandViewed(r, c) \/ Loaded(r, c)

Next ==
  \/ \E m \in Messages : Send(m)
  \/ \E r \in Replicas :
       \/ Deliver(r) \/ Begin(r) \/ Continue(r)
       \/ \E m \in Messages : RequestFails(r, m)
       \/ Crash(r)

Spec == Init /\ [][Next]_vars

\* The broker delivers what is ready, the event loop of a replica runs what
\* is runnable, and Redis answers.  Nothing has to be sent or to fail.
Fairness ==
  /\ WF_vars(\E r \in Replicas : Deliver(r))
  /\ \A r \in Replicas : WF_vars(Begin(r)) /\ WF_vars(Continue(r))

FairSpec == Spec /\ Fairness

-----------------------------------------------------------------------------
(* Properties *)

\* A message waits in the inbox of the replica it was delivered to and
\* nowhere else, and a handler under way waits for one request of its replica.
InHand ==
  \A r \in Replicas :
    /\ \A i \in DOMAIN inbox[r] :
         /\ status[inbox[r][i]] = "delivered" /\ consumer[inbox[r][i]] = r
         /\ \A j \in DOMAIN inbox[r] : inbox[r][j] = inbox[r][i] => j = i
    /\ \A i \in DOMAIN pending[r] :
         /\ status[pending[r][i].msg] = "handling" /\ consumer[pending[r][i].msg] = r
         /\ \A j \in DOMAIN pending[r] : pending[r][j].msg = pending[r][i].msg => j = i

\* Every message is in exactly one place: none is handled twice at a time, and
\* none is held for ever by a handler that waits for nothing (acknowledgement
\* after the handler, consumer.ts:32-45).
Custody ==
  /\ InHand
  /\ \A m \in Messages :
       /\ status[m] = "delivered" =>
            \E r \in Replicas : \E i \in DOMAIN inbox[r] : inbox[r][i] = m
       /\ status[m] = "handling" =>
            \E r \in Replicas : \E i \in DOMAIN pending[r] : pending[r][i].msg = m

\* Nothing is stored for a game that its replica has removed: the command that
\* won is the last of its game to be answered, although the handlers of
\* earlier commands and of createGame may still be under way when it wins
\* (engine.service.ts:126-128).
RemovedIsSilent ==
  \A r \in Replicas : \A i \in DOMAIN pending[r] :
    pending[r][i].kind # "load" => live[r][GameOf(pending[r][i].msg)] # None

\* A game lives on one replica at a time, across crashes and redelivery of
\* its game-starting message (engine.service.ts:10-13).
OneOwner ==
  \A g \in Games, r, s \in Replicas :
    live[r][g] # None /\ live[s][g] # None => r = s

\* No command is applied twice to one game, even if its message is delivered
\* again (engine.service.ts:95, consumer.ts:41).
AppliedOnce ==
  \A r \in Replicas, g \in Games :
    live[r][g] # None =>
      \A i, j \in DOMAIN live[r][g].log : live[r][g].log[i] = live[r][g].log[j] => i = j

\* No handler of the game or of one of its commands is under way.
Settled(g) == \A m \in Messages : GameOf(m) = g => status[m] # "handling"

\* When no handler is left and Redis answered every request, the saved state
\* and the view are the game in memory, and the view of a finished game has
\* its verdict, whatever the order in which handlers were resumed
\* (engine.service.ts:112-124; "page refreshes recover current state").
CatchesUp ==
  \A g \in Games : failures = 0 /\ Settled(g) =>
    /\ \A r \in Replicas : live[r][g] # None =>
         saved[g] = SnapshotOf(live[r][g]) /\ view[g] = SnapshotOf(live[r][g])
    /\ crashes = 0 /\ saved[g] # None => view[g].endedBy = saved[g].endedBy

Announced(g, c) == \E i \in DOMAIN events[g] : events[g][i].type = "applied" /\ events[g][i].cmd = c

RangeOf(log) == { log[i] : i \in DOMAIN log }

\* Nothing is stored that was not announced: a client that fetches the state
\* has been, or will be, told of every command in it, but for those that were
\* dropped (engine.service.ts:112 before :113 and :122).
StoredWasAnnounced ==
  \A g \in Games :
    /\ saved[g] # None => \A c \in RangeOf(saved[g].log) : Announced(g, c)
    /\ view[g] # None =>
         \A c \in RangeOf(view[g].log) : status[c] = "rejected" \/ Announced(g, c)

\* A client that hears of the start finds a view (engine.service.ts:52-55).
StartIsViewable ==
  \A g \in Games :
    (\E i \in DOMAIN events[g] : events[g][i].type = "game-started") => view[g] # None

\* Without a crash, what the game emitted is published gap-free and in order:
\* the numbers before an event are exactly the smaller ones.
EventsInOrder ==
  \A g \in Games : crashes = 0 =>
    \A i \in DOMAIN events[g] : events[g][i].seq > 0 =>
      { events[g][j].seq : j \in 1 .. i - 1 } \ {0} = 1 .. events[g][i].seq - 1

\* A crash can make the engine create a game anew over its saved state, but
\* never over a command that was accepted and acknowledged: the message of the
\* game is acknowledged (or dropped) first, although createGame and
\* handleCommand race (engine.service.ts:49-55 against :113-124).
CreationAckedFirst ==
  [][\A c \in Commands : status[c] = "handling" /\ status'[c] = "acked" =>
       status[Target[c]] \in {"acked", "rejected"}]_vars

\* The engine starts every game the lobby announced, unless Redis fails.
GameStarts ==
  \A g \in Games :
    status[g] = "ready" ~>
      \/ \E i \in DOMAIN events[g] : events[g][i].type = "game-started"
      \/ failures > 0

\* Every command is acknowledged or dropped: "nack without requeue to avoid
\* poison loops" (consumer.ts:39).
Settles == \A c \in Commands : status[c] = "ready" ~> status[c] \in {"acked", "rejected"}

\* Stated in game-runner.service.ts:15-16, and not so: "The replica owning the
\* game processes the command; others reject and re-enqueue".
OwnedNotDropped ==
  [][\A c \in Commands, r \in Replicas :
       /\ live[r][Target[c]] # None /\ live[r][Target[c]].endedBy = None
       /\ status[c] # "rejected" /\ status'[c] = "rejected"
       => failures' > failures]_vars

\* Stated in docs/architecture.md:44-45, and not so for a command that
\* arrives while the one that won waits for Redis: "Applies the command
\* [...] Publishes resulting events".
EffectsArePublished ==
  \A g \in Games : failures = 0 /\ Settled(g) /\ view[g] # None =>
    \A c \in RangeOf(view[g].log) : Announced(g, c)
=============================================================================
