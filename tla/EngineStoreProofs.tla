------------------------- MODULE EngineStoreProofs -------------------------
(***************************************************************************)
(* Proofs about what the engine publishes and stores, for any number of    *)
(* replicas, games, commands, crashes and failures.                        *)
(*                                                                         *)
(* A property of Redis or of the events published is a property of the     *)
(* requests that are still to be answered, so each needs an invariant of   *)
(* the queues of requests: who is in front of whom, and what the values    *)
(* written will be.  Each invariant is kept by pushing a request, by       *)
(* dropping the oldest, and by dropping the oldest and pushing the next    *)
(* one of the same handler; the steps of the engine are reduced to these.  *)
(*                                                                         *)
(* The last part shows that the engine implements GameLog.  What a game    *)
(* logged is what was told and what waits in its buffer, and the views on  *)
(* their way to Redis are prefixes of it, each of the next.                *)
(***************************************************************************)
EXTENDS EngineProofs, EngineLog, FiniteSetTheorems, SequenceTheorems

\* A message is in somebody's hands as long as the broker waits for it.
Held ==
  \A m \in Messages :
    /\ status[m] = "delivered" => \E r \in Replicas : \E i \in DOMAIN inbox[r] : inbox[r][i] = m
    /\ status[m] = "handling" => \E r \in Replicas : \E i \in DOMAIN pending[r] : pending[r][i].msg = m

-----------------------------------------------------------------------------
(* The steps *)

Req(m, kind, value) == [msg |-> m, kind |-> kind, value |-> value]

\* Nothing changes but on replica r and for game g.
Local(r, g) ==
  /\ \A s \in Replicas \ {r} : pending'[s] = pending[s] /\ live'[s] = live[s] /\ inbox'[s] = inbox[s]
  /\ \A h \in Games \ {g} :
       live'[r][h] = live[r][h] /\ events'[h] = events[h] /\ saved'[h] = saved[h] /\ view'[h] = view[h]
  /\ crashes' = crashes

LEMMA BeginEffects ==
  ASSUME TypeOK, NEW r \in Replicas
  PROVE  /\ \A g \in Games : BeginCreate(r, g) =>
              /\ Local(r, g) /\ failures' = failures
              /\ live'[r][g] = Fresh
              /\ pending'[r] = Append(pending[r], Req(g, "save", SnapshotOf(Fresh)))
              /\ saved' = saved /\ view' = view /\ events' = events
         /\ \A c \in Commands : BeginForeign(r, c) =>
              /\ Local(r, Target[c]) /\ failures' = failures
              /\ live' = live
              /\ pending'[r] = Append(pending[r], Req(c, "load", None))
              /\ saved' = saved /\ view' = view /\ events' = events
         /\ \A c \in Commands : Refuse(r, c) =>
              /\ Local(r, Target[c]) /\ failures' = failures
              /\ live' = live /\ pending' = pending /\ saved' = saved /\ view' = view
              /\ events'[Target[c]] = events[Target[c]] \o <<EngineEvent("error", c, None)>>
         /\ \A c \in Commands : BeginLate(r, c) =>
              /\ Local(r, Target[c]) /\ failures' = failures
              /\ live[r][Target[c]] # None /\ live[r][Target[c]].endedBy # None
              /\ live'[r][Target[c]] = Execute(live[r][Target[c]], c)
              /\ pending' = pending /\ saved' = saved /\ view' = view /\ events' = events
<1>1. ASSUME NEW g \in Games, BeginCreate(r, g)
      PROVE  /\ Local(r, g) /\ failures' = failures
             /\ live'[r][g] = Fresh
             /\ pending'[r] = Append(pending[r], Req(g, "save", SnapshotOf(Fresh)))
             /\ saved' = saved /\ view' = view /\ events' = events
  BY <1>1 DEF BeginCreate, Await, Take, Local, TypeOK, Req
<1>2. ASSUME NEW c \in Commands, BeginForeign(r, c)
      PROVE  /\ Local(r, Target[c]) /\ failures' = failures
             /\ live' = live
             /\ pending'[r] = Append(pending[r], Req(c, "load", None))
             /\ saved' = saved /\ view' = view /\ events' = events
  BY <1>2 DEF BeginForeign, Await, Take, Local, TypeOK, Req
<1>3. ASSUME NEW c \in Commands, Refuse(r, c)
      PROVE  /\ Local(r, Target[c]) /\ failures' = failures
             /\ live' = live /\ pending' = pending /\ saved' = saved /\ view' = view
             /\ events'[Target[c]] = events[Target[c]] \o <<EngineEvent("error", c, None)>>
  BY <1>3, MessageTypes DEF Refuse, Publish, Take, Local, TypeOK
<1>4. ASSUME NEW c \in Commands, BeginLate(r, c)
      PROVE  /\ Local(r, Target[c]) /\ failures' = failures
             /\ live[r][Target[c]] # None /\ live[r][Target[c]].endedBy # None
             /\ live'[r][Target[c]] = Execute(live[r][Target[c]], c)
             /\ pending' = pending /\ saved' = saved /\ view' = view /\ events' = events
  BY <1>4, MessageTypes DEF BeginLate, Take, Local, TypeOK
<1>. QED  BY <1>1, <1>2, <1>3, <1>4

LEMMA CommandEffects ==
  ASSUME TypeOK, NEW r \in Replicas, NEW c \in Commands, BeginCommand(r, c)
  PROVE  /\ Local(r, Target[c]) /\ failures' = failures
         /\ live[r][Target[c]] \in Instance /\ live[r][Target[c]].endedBy = None
         /\ \E i \in {Execute(live[r][Target[c]], c), ExecuteAndWin(live[r][Target[c]], c)} :
              /\ i \in Instance
              /\ live'[r][Target[c]] = Drained(i)
              /\ pending'[r] = Append(pending[r], Req(c, "save", SnapshotOf(i)))
              /\ events'[Target[c]] = events[Target[c]] \o i.buffer
         /\ saved' = saved /\ view' = view
<1>1. live[r][Target[c]] \in Instance /\ live[r][Target[c]].endedBy = None /\ Target[c] \in Games
  BY MessageTypes DEF BeginCommand, TypeOK
<1>2. PICK i \in {Execute(live[r][Target[c]], c), ExecuteAndWin(live[r][Target[c]], c)} :
        Accept(r, c, i)
  BY DEF BeginCommand
<1>3. i \in Instance
  BY <1>1, InstanceTypes
<1>4. Local(r, Target[c]) /\ failures' = failures /\ saved' = saved /\ view' = view
  <2>1. Take(r, c)
    BY DEF BeginCommand
  <2>. QED  BY <2>1, <1>1, <1>2 DEF Accept, Await, Publish, Take, Local, TypeOK
<1>5. /\ live'[r][Target[c]] = Drained(i)
      /\ pending'[r] = Append(pending[r], Req(c, "save", SnapshotOf(i)))
      /\ events'[Target[c]] = events[Target[c]] \o i.buffer
  BY <1>1, <1>2 DEF Accept, Await, Publish, TypeOK, Req
<1>. QED  BY <1>1, <1>3, <1>4, <1>5

LEMMA ContinueEffects ==
  ASSUME TypeOK, RemovedIsSilent, NEW r \in Replicas
  PROVE  /\ \A g \in Games : CreateSaved(r, g) =>
              /\ Local(r, g) /\ failures' = failures
              /\ pending[r] # <<>> /\ pending[r][1].msg = g /\ pending[r][1].kind = "save"
              /\ live[r][g] \in Instance /\ live'[r][g] = Drained(live[r][g])
              /\ pending'[r] = Append(Tail(pending[r]), Req(g, "view", ViewFor(live[r][g], g)))
              /\ saved'[g] = pending[r][1].value /\ view' = view
              /\ events'[g] = events[g] \o live[r][g].buffer
         /\ \A g \in Games : CreateViewed(r, g) =>
              /\ Local(r, g) /\ failures' = failures
              /\ pending[r] # <<>> /\ pending[r][1].msg = g /\ pending[r][1].kind = "view"
              /\ live[r][g] \in Instance /\ live' = live
              /\ pending'[r] = Tail(pending[r])
              /\ saved' = saved /\ view'[g] = pending[r][1].value
              /\ events'[g] = events[g] \o <<EngineEvent("game-started", None, pending[r][1].value)>>
         /\ \A c \in Commands : CommandSaved(r, c) =>
              /\ Local(r, Target[c]) /\ failures' = failures
              /\ pending[r] # <<>> /\ pending[r][1].msg = c /\ pending[r][1].kind = "save"
              /\ live[r][Target[c]] \in Instance /\ live' = live
              /\ pending'[r] = Append(Tail(pending[r]), Req(c, "view", ViewFor(live[r][Target[c]], c)))
              /\ saved'[Target[c]] = pending[r][1].value /\ view' = view /\ events' = events
         /\ \A c \in Commands : CommandViewed(r, c) =>
              /\ Local(r, Target[c]) /\ failures' = failures
              /\ pending[r] # <<>> /\ pending[r][1].msg = c /\ pending[r][1].kind = "view"
              /\ live[r][Target[c]] \in Instance
              /\ live'[r][Target[c]] = IF live[r][Target[c]].endedBy = c THEN None ELSE live[r][Target[c]]
              /\ pending'[r] = Tail(pending[r])
              /\ view'[Target[c]] = pending[r][1].value /\ saved' = saved /\ events' = events
         /\ \A c \in Commands : Loaded(r, c) =>
              /\ Local(r, Target[c]) /\ failures' = failures
              /\ pending[r] # <<>> /\ pending[r][1].msg = c /\ pending[r][1].kind = "load"
              /\ pending'[r] = Tail(pending[r])
              /\ live' = live /\ saved' = saved /\ view' = view /\ events' = events
         /\ \A m \in Messages : RequestFails(r, m) =>
              /\ Local(r, GameOf(m)) /\ failures' = failures + 1
              /\ pending[r] # <<>> /\ pending[r][1].msg = m
              /\ pending'[r] = Tail(pending[r])
              /\ live' = live /\ saved' = saved /\ view' = view /\ events' = events
<1>0. pending[r] # <<>> => Head(pending[r]) = pending[r][1]
  BY HeadTypes
<1>1. ASSUME NEW g \in Games, CreateSaved(r, g)
      PROVE  /\ Local(r, g) /\ failures' = failures
             /\ pending[r] # <<>> /\ pending[r][1].msg = g /\ pending[r][1].kind = "save"
             /\ live[r][g] \in Instance /\ live'[r][g] = Drained(live[r][g])
             /\ pending'[r] = Append(Tail(pending[r]), Req(g, "view", ViewFor(live[r][g], g)))
             /\ saved'[g] = pending[r][1].value /\ view' = view
             /\ events'[g] = events[g] \o live[r][g].buffer
  <2>1. live[r][g] \in Instance
    BY <1>1, HandlerHasGame, MessageTypes DEF CreateSaved
  <2>. QED  BY <1>0, <1>1, <2>1 DEF CreateSaved, Answered, ForgetAndAwait, Publish, Local, TypeOK, Req
<1>2. ASSUME NEW g \in Games, CreateViewed(r, g)
      PROVE  /\ Local(r, g) /\ failures' = failures
             /\ pending[r] # <<>> /\ pending[r][1].msg = g /\ pending[r][1].kind = "view"
             /\ live[r][g] \in Instance /\ live' = live
             /\ pending'[r] = Tail(pending[r])
             /\ saved' = saved /\ view'[g] = pending[r][1].value
             /\ events'[g] = events[g] \o <<EngineEvent("game-started", None, pending[r][1].value)>>
  <2>1. live[r][g] \in Instance
    BY <1>2, HandlerHasGame, MessageTypes DEF CreateViewed
  <2>. QED  BY <1>0, <1>2, <2>1 DEF CreateViewed, Answered, Forget, Publish, Local, TypeOK
<1>3. ASSUME NEW c \in Commands, CommandSaved(r, c)
      PROVE  /\ Local(r, Target[c]) /\ failures' = failures
             /\ pending[r] # <<>> /\ pending[r][1].msg = c /\ pending[r][1].kind = "save"
             /\ live[r][Target[c]] \in Instance /\ live' = live
             /\ pending'[r] = Append(Tail(pending[r]), Req(c, "view", ViewFor(live[r][Target[c]], c)))
             /\ saved'[Target[c]] = pending[r][1].value /\ view' = view /\ events' = events
  <2>1. live[r][Target[c]] \in Instance
    BY <1>3, HandlerHasGame, MessageTypes DEF CommandSaved
  <2>. QED
    BY <1>0, <1>3, <2>1, MessageTypes DEF CommandSaved, Answered, ForgetAndAwait, Local, TypeOK, Req
<1>4. ASSUME NEW c \in Commands, CommandViewed(r, c)
      PROVE  /\ Local(r, Target[c]) /\ failures' = failures
             /\ pending[r] # <<>> /\ pending[r][1].msg = c /\ pending[r][1].kind = "view"
             /\ live[r][Target[c]] \in Instance
             /\ live'[r][Target[c]] = IF live[r][Target[c]].endedBy = c THEN None ELSE live[r][Target[c]]
             /\ pending'[r] = Tail(pending[r])
             /\ view'[Target[c]] = pending[r][1].value /\ saved' = saved /\ events' = events
  <2>1. live[r][Target[c]] \in Instance
    BY <1>4, HandlerHasGame, MessageTypes DEF CommandViewed
  <2>. QED  BY <1>0, <1>4, <2>1, MessageTypes DEF CommandViewed, Answered, Forget, Local, TypeOK
<1>5. ASSUME NEW c \in Commands, Loaded(r, c)
      PROVE  /\ Local(r, Target[c]) /\ failures' = failures
             /\ pending[r] # <<>> /\ pending[r][1].msg = c /\ pending[r][1].kind = "load"
             /\ pending'[r] = Tail(pending[r])
             /\ live' = live /\ saved' = saved /\ view' = view /\ events' = events
  BY <1>0, <1>5, MessageTypes DEF Loaded, Answered, Forget, Local, TypeOK
<1>6. ASSUME NEW m \in Messages, RequestFails(r, m)
      PROVE  /\ Local(r, GameOf(m)) /\ failures' = failures + 1
             /\ pending[r] # <<>> /\ pending[r][1].msg = m
             /\ pending'[r] = Tail(pending[r])
             /\ live' = live /\ saved' = saved /\ view' = view /\ events' = events
  BY <1>0, <1>6, MessageTypes DEF RequestFails, Forget, Local, TypeOK
<1>. QED  BY <1>1, <1>2, <1>3, <1>4, <1>5, <1>6

LEMMA CrashEffects ==
  ASSUME TypeOK, NEW r \in Replicas, Crash(r)
  PROVE  /\ \A s \in Replicas \ {r} : pending'[s] = pending[s] /\ live'[s] = live[s]
         /\ pending'[r] = <<>> /\ \A g \in Games : live'[r][g] = None
         /\ events' = events /\ crashes' = crashes + 1 /\ failures' = failures
         /\ \A g \in Games :
              /\ \/ saved'[g] = saved[g]
                 \/ \E k \in DOMAIN pending[r] : /\ pending[r][k].kind = "save" /\ GameOf(pending[r][k].msg) = g
                                                 /\ saved'[g] = pending[r][k].value
              /\ \/ view'[g] = view[g]
                 \/ \E k \in DOMAIN pending[r] : /\ pending[r][k].kind = "view" /\ GameOf(pending[r][k].msg) = g
                                                 /\ view'[g] = pending[r][k].value
<1>1. /\ \A s \in Replicas \ {r} : pending'[s] = pending[s] /\ live'[s] = live[s]
      /\ pending'[r] = <<>> /\ \A g \in Games : live'[r][g] = None
      /\ events' = events /\ crashes' = crashes + 1 /\ failures' = failures
  BY DEF Crash, TypeOK
<1>2. pending[r] \in Seq(Request) /\ Len(pending[r]) \in Nat /\ DOMAIN pending[r] = 1 .. Len(pending[r])
  BY DEF TypeOK
<1>3. PICK n \in 0 .. Len(pending[r]) : \E s, v \in [Games -> 0 .. n] :
        /\ \A g \in Games : LastWrite(r, n, g, "save", s[g]) /\ LastWrite(r, n, g, "view", v[g])
        /\ saved' = [g \in Games |-> IF s[g] = 0 THEN saved[g] ELSE pending[r][s[g]].value]
        /\ view' = [g \in Games |-> IF v[g] = 0 THEN view[g] ELSE pending[r][v[g]].value]
  BY DEF Crash
<1>4. PICK s \in [Games -> 0 .. n], v \in [Games -> 0 .. n] :
        /\ \A g \in Games : LastWrite(r, n, g, "save", s[g]) /\ LastWrite(r, n, g, "view", v[g])
        /\ saved' = [g \in Games |-> IF s[g] = 0 THEN saved[g] ELSE pending[r][s[g]].value]
        /\ view' = [g \in Games |-> IF v[g] = 0 THEN view[g] ELSE pending[r][v[g]].value]
  BY <1>3
<1>5. ASSUME NEW g \in Games, NEW kind, NEW i \in 0 .. n, i # 0, LastWrite(r, n, g, kind, i)
      PROVE  i \in DOMAIN pending[r] /\ pending[r][i].kind = kind /\ GameOf(pending[r][i].msg) = g
  BY <1>2, <1>5 DEF LastWrite
<1>6. ASSUME NEW g \in Games
      PROVE  /\ \/ saved'[g] = saved[g]
                \/ \E k \in DOMAIN pending[r] : /\ pending[r][k].kind = "save" /\ GameOf(pending[r][k].msg) = g
                                                /\ saved'[g] = pending[r][k].value
             /\ \/ view'[g] = view[g]
                \/ \E k \in DOMAIN pending[r] : /\ pending[r][k].kind = "view" /\ GameOf(pending[r][k].msg) = g
                                                /\ view'[g] = pending[r][k].value
  <2>1. s[g] \in 0 .. n /\ v[g] \in 0 .. n
    OBVIOUS
  <2>2. CASE s[g] = 0
    BY <2>2, <2>1, <1>4, <1>5
  <2>3. CASE s[g] # 0
    BY <2>3, <2>1, <1>4, <1>5
  <2>. QED  BY <2>2, <2>3
<1>. QED  BY <1>1, <1>6

-----------------------------------------------------------------------------
(* Custody *)

\* Who waits in a queue before and after it is changed.
LEMMA StillThere ==
  ASSUME NEW S, NEW q \in Seq(S)
  PROVE  /\ \A x \in S, i \in DOMAIN q : i \in DOMAIN Append(q, x) /\ Append(q, x)[i] = q[i]
         /\ \A x \in S : Len(q) + 1 \in DOMAIN Append(q, x) /\ Append(q, x)[Len(q) + 1] = x
         /\ q # <<>> => \A i \in DOMAIN q \ {1} : i - 1 \in DOMAIN Tail(q) /\ Tail(q)[i - 1] = q[i]
  OBVIOUS

LEMMA HeldStep ==
  ASSUME TypeOK, InHand, RemovedIsSilent, Held, [Next]_vars
  PROVE  Held'
<1> DEFINE Boxed(x)   == \E s \in Replicas : \E i \in DOMAIN inbox'[s] : inbox'[s][i] = x
           Waiting(x) == \E s \in Replicas : \E i \in DOMAIN pending'[s] : pending'[s][i].msg = x
<1>0. SUFFICES \A x \in Messages : /\ status'[x] = "delivered" => Boxed(x)
                                   /\ status'[x] = "handling" => Waiting(x)
  BY DEF Held
<1>1. ASSUME NEW r \in Replicas, NEW m \in Messages, Take(r, m)
      PROVE  \A x \in Messages \ {m} : status[x] = "delivered" => Boxed(x)
  <2>1. /\ inbox[r] \in Seq(Messages) /\ inbox[r] # <<>> /\ inbox[r][1] = m
        /\ inbox' = [inbox EXCEPT ![r] = Tail(inbox[r])]
    BY <1>1, TailFacts DEF Take, TypeOK
  <2>2. \A i \in DOMAIN inbox[r] \ {1} : i - 1 \in DOMAIN inbox'[r] /\ inbox'[r][i - 1] = inbox[r][i]
    BY <2>1, StillThere DEF TypeOK
  <2>3. \A s \in Replicas \ {r} : inbox'[s] = inbox[s]
    BY <2>1 DEF TypeOK
  <2>4. ASSUME NEW x \in Messages \ {m}, status[x] = "delivered"  PROVE Boxed(x)
    <3>0. PICK s \in Replicas : \E i \in DOMAIN inbox[s] : inbox[s][i] = x
      BY <2>4 DEF Held
    <3>1. PICK i \in DOMAIN inbox[s] : inbox[s][i] = x
      BY <3>0
    <3>2. CASE s = r
      <4>1. i - 1 \in DOMAIN inbox'[r] /\ inbox'[r][i - 1] = x
        BY <2>1, <2>2, <3>1, <3>2
      <4>. QED  BY <4>1
    <3>3. CASE s # r
      BY <2>3, <3>1, <3>3
    <3>. QED  BY <3>2, <3>3
  <2>. QED  BY <2>4
<1>2. ASSUME NEW r \in Replicas, pending[r] # <<>>
      PROVE  \A x \in Messages \ {Head(pending[r]).msg} : status[x] = "handling" =>
               \E s \in Replicas : \E i \in DOMAIN Rest(r)[s] : Rest(r)[s][i].msg = x
  <2>1. /\ Rest(r)[r] = Tail(pending[r])
        /\ \A s \in Replicas \ {r} : Rest(r)[s] = pending[s]
    BY DEF Rest, TypeOK
  <2>2. pending[r] \in Seq(Request) /\ Head(pending[r]) = pending[r][1]
    BY <1>2, HeadTypes
  <2>3. \A i \in DOMAIN pending[r] \ {1} : i - 1 \in DOMAIN Rest(r)[r] /\ Rest(r)[r][i - 1] = pending[r][i]
    BY <1>2, <2>1, <2>2, StillThere
  <2>4. ASSUME NEW x \in Messages \ {Head(pending[r]).msg}, status[x] = "handling"
        PROVE  \E s \in Replicas : \E i \in DOMAIN Rest(r)[s] : Rest(r)[s][i].msg = x
    <3>0. PICK s \in Replicas : \E i \in DOMAIN pending[s] : pending[s][i].msg = x
      BY <2>4 DEF Held
    <3>1. PICK i \in DOMAIN pending[s] : pending[s][i].msg = x
      BY <3>0
    <3>2. CASE s = r
      <4>1. i - 1 \in DOMAIN Rest(r)[r] /\ Rest(r)[r][i - 1].msg = x
        BY <2>2, <2>3, <3>1, <3>2
      <4>. QED  BY <4>1
    <3>3. CASE s # r
      BY <2>1, <3>1, <3>3
    <3>. QED  BY <3>2, <3>3
  <2>. QED  BY <2>4
<1>3. ASSUME NEW r \in Replicas, NEW m \in Messages, Begun(r, m)
      PROVE  \A x \in Messages : /\ status'[x] = "delivered" => Boxed(x)
                                 /\ status'[x] = "handling" => Waiting(x)
  <2>1. PICK q \in Request : q.msg = m /\ pending' = Longer(pending, r, q)
    BY <1>3, RequestTypes DEF Begun, Await, Longer
  <2>2. pending[r] \in Seq(Request) /\ pending'[r] = Append(pending[r], q)
        /\ \A s \in Replicas \ {r} : pending'[s] = pending[s]
    BY <2>1 DEF TypeOK, Longer
  <2>3. /\ \A i \in DOMAIN pending[r] : i \in DOMAIN pending'[r] /\ pending'[r][i] = pending[r][i]
        /\ Len(pending[r]) + 1 \in DOMAIN pending'[r] /\ pending'[r][Len(pending[r]) + 1] = q
    BY <2>2, StillThere
  <2>4. \A x \in Messages \ {m} : status'[x] = status[x]
    BY <1>3, KindFates
  <2>5. status'[m] = "handling" /\ Waiting(m)
    BY <1>3, <2>1, <2>3, KindFates
  <2>6. \A x \in Messages \ {m} : status[x] = "handling" => Waiting(x)
    BY <2>2, <2>3 DEF Held
  <2>7. \A x \in Messages \ {m} : status[x] = "delivered" => Boxed(x)
    BY <1>1, <1>3 DEF Begun
  <2>. QED  BY <2>4, <2>5, <2>6, <2>7
<1>4. ASSUME NEW r \in Replicas, NEW m \in Messages, Declined(r, m)
      PROVE  \A x \in Messages : /\ status'[x] = "delivered" => Boxed(x)
                                 /\ status'[x] = "handling" => Waiting(x)
  <2>1. /\ status'[m] \in {"acked", "rejected"} /\ \A x \in Messages \ {m} : status'[x] = status[x]
        /\ pending' = pending
    BY <1>4, KindFates DEF Declined
  <2>2. \A x \in Messages \ {m} : status[x] = "delivered" => Boxed(x)
    BY <1>1, <1>4 DEF Declined
  <2>. QED  BY <2>1, <2>2 DEF Held
<1>5. ASSUME NEW r \in Replicas, NEW m \in Messages, Continued(r, m)
      PROVE  \A x \in Messages : /\ status'[x] = "delivered" => Boxed(x)
                                 /\ status'[x] = "handling" => Waiting(x)
  <2>1. /\ pending[r] # <<>> /\ Head(pending[r]).msg = m /\ inbox' = inbox /\ status' = status
    BY <1>5 DEF Continued, broker
  <2>2. PICK q \in Request : q.msg = m /\ pending' = [pending EXCEPT ![r] = Append(Tail(pending[r]), q)]
    BY <1>5, RequestTypes DEF Continued, ForgetAndAwait
  <2>3. /\ Rest(r)[r] \in Seq(Request) /\ pending'[r] = Append(Rest(r)[r], q)
        /\ \A s \in Replicas \ {r} : pending'[s] = Rest(r)[s]
    BY <2>1, <2>2, HeadTypes DEF TypeOK, Rest
  <2>4. /\ \A i \in DOMAIN Rest(r)[r] : i \in DOMAIN pending'[r] /\ pending'[r][i] = Rest(r)[r][i]
        /\ Len(Rest(r)[r]) + 1 \in DOMAIN pending'[r] /\ pending'[r][Len(Rest(r)[r]) + 1] = q
    BY <2>3, StillThere
  <2>5. \A x \in Messages \ {m} : status[x] = "handling" => Waiting(x)
    BY <1>2, <2>1, <2>3, <2>4
  <2>6. Waiting(m)
    BY <2>2, <2>4
  <2>. QED  BY <2>1, <2>5, <2>6 DEF Held
<1>6. ASSUME NEW r \in Replicas, NEW m \in Messages, Finished(r, m)
      PROVE  \A x \in Messages : /\ status'[x] = "delivered" => Boxed(x)
                                 /\ status'[x] = "handling" => Waiting(x)
  <2>0. status'[m] \in {"acked", "rejected"} /\ \A x \in Messages \ {m} : status'[x] = status[x]
    BY <1>6, KindFates
  <2>1. pending' = Rest(r) /\ inbox' = inbox /\ pending[r] # <<>> /\ Head(pending[r]).msg = m
    BY <1>6 DEF Finished, Forget, Rest
  <2>2. \A x \in Messages \ {m} : status[x] = "handling" => Waiting(x)
    BY <1>2, <2>1
  <2>3. \A x \in Messages \ {m} : status[x] = "delivered" => Boxed(x)
    BY <2>1 DEF Held
  <2>. QED  BY <2>0, <2>2, <2>3
<1>7. ASSUME NEW r \in Replicas, Deliver(r)
      PROVE  \A x \in Messages : /\ status'[x] = "delivered" => Boxed(x)
                                 /\ status'[x] = "handling" => Waiting(x)
  <2>1. PICK i \in DOMAIN sent :
          /\ status' = [status EXCEPT ![sent[i]] = "delivered"]
          /\ inbox' = [inbox EXCEPT ![r] = Append(@, sent[i])]
          /\ pending' = pending
    BY <1>7 DEF Deliver, DeliveredOnce
  <2> DEFINE m == sent[i]
  <2>2. m \in Messages /\ inbox[r] \in Seq(Messages)
    BY DEF TypeOK
  <2>3. /\ status'[m] = "delivered" /\ \A x \in Messages \ {m} : status'[x] = status[x]
        /\ inbox'[r] = Append(inbox[r], m) /\ \A s \in Replicas \ {r} : inbox'[s] = inbox[s]
    BY <2>1, <2>2 DEF TypeOK
  <2> HIDE DEF m
  <2>4. /\ \A k \in DOMAIN inbox[r] : k \in DOMAIN inbox'[r] /\ inbox'[r][k] = inbox[r][k]
        /\ Len(inbox[r]) + 1 \in DOMAIN inbox'[r] /\ inbox'[r][Len(inbox[r]) + 1] = m
    BY <2>2, <2>3, StillThere
  <2>5. \A x \in Messages \ {m} : status[x] = "delivered" => Boxed(x)
    BY <2>3, <2>4 DEF Held
  <2>6. Boxed(m)
    BY <2>4
  <2>. QED  BY <2>1, <2>3, <2>5, <2>6 DEF Held
<1>8. ASSUME NEW r \in Replicas, Crash(r)
      PROVE  \A x \in Messages : /\ status'[x] = "delivered" => Boxed(x)
                                 /\ status'[x] = "handling" => Waiting(x)
  <2>1. \A s \in Replicas \ {r} : pending'[s] = pending[s] /\ inbox'[s] = inbox[s]
    BY <1>8 DEF Crash, TypeOK
  <2>2. \A x \in Messages : status'[x] \in {"delivered", "handling"} =>
          status'[x] = status[x] /\ consumer[x] # r
    BY <1>8 DEF Crash
  <2>3. /\ \A s \in Replicas : \A i \in DOMAIN inbox[s] : consumer[inbox[s][i]] = s
        /\ \A s \in Replicas : \A i \in DOMAIN pending[s] : consumer[pending[s][i].msg] = s
    BY DEF InHand
  <2>. QED  BY <2>1, <2>2, <2>3 DEF Held
<1>9. ASSUME NEW m \in Messages, Send(m)
      PROVE  \A x \in Messages : /\ status'[x] = "delivered" => Boxed(x)
                                 /\ status'[x] = "handling" => Waiting(x)
  <2>1. inbox' = inbox /\ pending' = pending /\ \A x \in Messages : status'[x] = status[x] \/ status'[x] = "ready"
    BY <1>9 DEF Send, TypeOK
  <2>. QED  BY <2>1 DEF Held
<1>10. CASE UNCHANGED vars
  BY <1>10 DEF vars, broker, Held
<1> HIDE DEF Boxed, Waiting
<1>11. ASSUME NEW r \in Replicas, Begin(r) \/ Continue(r) \/ \E m \in Messages : RequestFails(r, m)
       PROVE  \A x \in Messages : /\ status'[x] = "delivered" => Boxed(x)
                                  /\ status'[x] = "handling" => Waiting(x)
  BY <1>3, <1>4, <1>5, <1>6, <1>11, ActionKinds, MessageTypes DEF Begin, Continue
<1>. QED  BY <1>7, <1>8, <1>9, <1>10, <1>11 DEF Next

-----------------------------------------------------------------------------
(* Requests that make sense *)

\* createGame loads nothing, and whatever is written is a snapshot.
ProperRequest(q) == (q.msg \in Games => q.kind # "load") /\ (q.kind # "load" => q.value # None)

Proper == \A r \in Replicas : \A i \in DOMAIN pending[r] : ProperRequest(pending[r][i])

LEMMA ProperQueue ==
  ASSUME NEW queue \in Seq(Request), \A i \in DOMAIN queue : ProperRequest(queue[i])
  PROVE  /\ queue # <<>> => \A i \in DOMAIN Tail(queue) : ProperRequest(Tail(queue)[i])
         /\ \A q \in Request : ProperRequest(q) =>
              \A i \in DOMAIN Append(queue, q) : ProperRequest(Append(queue, q)[i])
         /\ queue # <<>> => \A q \in Request : ProperRequest(q) =>
              \A i \in DOMAIN Append(Tail(queue), q) : ProperRequest(Append(Tail(queue), q)[i])
<1>1. queue # <<>> => Tail(queue) \in Seq(Request) /\ \A i \in DOMAIN Tail(queue) : ProperRequest(Tail(queue)[i])
  BY TailFacts
<1>2. ASSUME NEW some \in Seq(Request), \A i \in DOMAIN some : ProperRequest(some[i]),
             NEW q \in Request, ProperRequest(q)
      PROVE  \A i \in DOMAIN Append(some, q) : ProperRequest(Append(some, q)[i])
  <2>1. \A i \in DOMAIN Append(some, q) : i \in DOMAIN some \/ i = Len(some) + 1
    BY AppendFacts
  <2>. QED  BY <1>2, <2>1, AppendFacts
<1>. QED  BY <1>1, <1>2

\* What a handler waits for makes sense.
LEMMA ProperValues ==
  /\ None \notin Snapshot
  /\ \A m \in Messages, k \in {"load", "save", "view"}, v \in Snapshot \cup {None} : Req(m, k, v) \in Request
  /\ \A m \in Messages, k \in {"save", "view"}, v \in Snapshot : ProperRequest(Req(m, k, v))
  /\ \A c \in Commands : ProperRequest(Req(c, "load", None))
<1>1. None \notin Snapshot
  BY NoneAssumption
<1>2. \A m \in Messages, k \in {"load", "save", "view"}, v \in Snapshot \cup {None} : Req(m, k, v) \in Request
  BY RequestTypes DEF Req
<1>3. \A m \in Messages, k \in {"save", "view"}, v \in Snapshot : ProperRequest(Req(m, k, v))
  BY <1>1 DEF ProperRequest, Req
<1>4. \A c \in Commands : ProperRequest(Req(c, "load", None))
  BY EngineAssumption DEF ProperRequest, Req
<1>. QED  BY <1>1, <1>2, <1>3, <1>4

LEMMA ProperStep ==
  ASSUME TypeOK, RemovedIsSilent, Proper, [Next]_vars
  PROVE  Proper'
<1> DEFINE ProperAt(queue) == \A i \in DOMAIN queue : ProperRequest(queue[i])
<1>1. \A s \in Replicas : pending[s] \in Seq(Request) /\ ProperAt(pending[s])
  BY DEF Proper, TypeOK
<1>2. ASSUME NEW r \in Replicas, \A s \in Replicas \ {r} : pending'[s] = pending[s], ProperAt(pending'[r])
      PROVE  Proper'
  BY <1>1, <1>2 DEF Proper
<1>3. ASSUME NEW r \in Replicas, NEW g, Local(r, g),
             \/ pending'[r] = pending[r]
             \/ pending[r] # <<>> /\ pending'[r] = Tail(pending[r])
             \/ \E q \in Request : /\ ProperRequest(q)
                                   /\ \/ pending'[r] = Append(pending[r], q)
                                      \/ pending[r] # <<>> /\ pending'[r] = Append(Tail(pending[r]), q)
      PROVE  Proper'
  <2>1. ProperAt(pending'[r])
    BY <1>1, <1>3, ProperQueue
  <2>. QED  BY <1>2, <1>3, <2>1 DEF Local
<1> HIDE DEF ProperAt
<1>4. ASSUME NEW r \in Replicas, Begin(r)  PROVE Proper'
  <2>1. ASSUME NEW g \in Games, BeginCreate(r, g)  PROVE Proper'
    <3>1. SnapshotOf(Fresh) \in Snapshot
      BY InstanceTypes
    <3>. QED  BY <1>3, <2>1, <3>1, BeginEffects, ProperValues, MessageTypes
  <2>2. ASSUME NEW c \in Commands, BeginForeign(r, c)  PROVE Proper'
    BY <1>3, <2>2, BeginEffects, ProperValues, MessageTypes
  <2>3. ASSUME NEW c \in Commands, Refuse(r, c) \/ BeginLate(r, c)  PROVE Proper'
    BY <1>3, <2>3, BeginEffects, ZenonT(40)
  <2>4. ASSUME NEW c \in Commands, BeginCommand(r, c)  PROVE Proper'
    <3>1. \E i \in Instance : pending'[r] = Append(pending[r], Req(c, "save", SnapshotOf(i)))
      BY <2>4, CommandEffects
    <3>2. Local(r, Target[c])
      BY <2>4, CommandEffects
    <3>3. \A i \in Instance : /\ Req(c, "save", SnapshotOf(i)) \in Request
                              /\ ProperRequest(Req(c, "save", SnapshotOf(i)))
      BY InstanceTypes, ProperValues, MessageTypes
    <3>. QED  BY <1>3, <3>1, <3>2, <3>3
  <2>. QED  BY <1>4, <2>1, <2>2, <2>3, <2>4 DEF Begin
<1>5. ASSUME NEW r \in Replicas, Continue(r)  PROVE Proper'
  <2>1. ASSUME NEW i \in Instance, NEW m \in Messages
        PROVE  /\ Req(m, "view", ViewFor(i, m)) \in Request
               /\ ProperRequest(Req(m, "view", ViewFor(i, m)))
    BY InstanceTypes, ProperValues
  <2>2. ASSUME NEW g \in Games, CreateSaved(r, g)  PROVE Proper'
    <3>1. /\ Local(r, g) /\ pending[r] # <<>> /\ live[r][g] \in Instance
          /\ pending'[r] = Append(Tail(pending[r]), Req(g, "view", ViewFor(live[r][g], g)))
      BY <2>2, ContinueEffects
    <3>. QED  BY <1>3, <2>1, <3>1, MessageTypes
  <2>3. ASSUME NEW c \in Commands, CommandSaved(r, c)  PROVE Proper'
    <3>1. /\ Local(r, Target[c]) /\ pending[r] # <<>> /\ live[r][Target[c]] \in Instance
          /\ pending'[r] = Append(Tail(pending[r]), Req(c, "view", ViewFor(live[r][Target[c]], c)))
      BY <2>3, ContinueEffects
    <3>. QED  BY <1>3, <2>1, <3>1, MessageTypes
  <2>4. ASSUME NEW g \in Games, CreateViewed(r, g)  PROVE Proper'
    BY <1>3, <2>4, ContinueEffects
  <2>5. ASSUME NEW c \in Commands, CommandViewed(r, c) \/ Loaded(r, c)  PROVE Proper'
    BY <1>3, <2>5, ContinueEffects
  <2>. QED  BY <1>5, <2>2, <2>3, <2>4, <2>5 DEF Continue
<1>6. ASSUME NEW r \in Replicas, NEW m \in Messages, RequestFails(r, m)  PROVE Proper'
  BY <1>3, <1>6, ContinueEffects
<1>7. ASSUME NEW r \in Replicas, Crash(r)  PROVE Proper'
  <2>1. ProperAt(<<>>)
    BY DEF ProperAt
  <2>. QED  BY <1>2, <1>7, <2>1, CrashEffects
<1>8. ASSUME pending' = pending  PROVE Proper'
  BY <1>8 DEF Proper
<1>. QED  BY <1>4, <1>5, <1>6, <1>7, <1>8 DEF Next, Send, Deliver, vars

-----------------------------------------------------------------------------
(* The creation of a game is answered first *)

\* While the message of game g waits for its save, all other requests of the
\* game are saves behind it; while it waits for its view, no view is before it.
FirstIn(queue, g) ==
  \A k, j \in DOMAIN queue :
    queue[k].msg = g /\ GameOf(queue[j].msg) = g /\ queue[j].kind # "load" /\ j # k =>
      /\ queue[k].kind = "save" => k < j /\ queue[j].kind = "save"
      /\ queue[k].kind = "view" /\ queue[j].kind = "view" => k < j

CreatorFirst == \A r \in Replicas, g \in Games : FirstIn(pending[r], g)

LEMMA FirstInTail ==
  ASSUME NEW queue \in Seq(Request), queue # <<>>, NEW g, FirstIn(queue, g)
  PROVE  FirstIn(Tail(queue), g)
<1> DEFINE rest == Tail(queue)
<1>1. \A i \in DOMAIN rest : i \in Nat /\ i + 1 \in DOMAIN queue /\ rest[i] = queue[i + 1]
  BY TailFacts
<1> HIDE DEF rest
<1>2. ASSUME NEW k \in DOMAIN rest, NEW j \in DOMAIN rest,
             rest[k].msg = g, GameOf(rest[j].msg) = g, rest[j].kind # "load", j # k
      PROVE  /\ rest[k].kind = "save" => k < j /\ rest[j].kind = "save"
             /\ rest[k].kind = "view" /\ rest[j].kind = "view" => k < j
  <2>1. k + 1 \in DOMAIN queue /\ j + 1 \in DOMAIN queue /\ j + 1 # k + 1
    BY <1>1, <1>2
  <2>2. queue[k + 1] = rest[k] /\ queue[j + 1] = rest[j]
    BY <1>1
  <2>3. /\ rest[k].kind = "save" => k + 1 < j + 1 /\ rest[j].kind = "save"
        /\ rest[k].kind = "view" /\ rest[j].kind = "view" => k + 1 < j + 1
    BY <1>2, <2>1, <2>2 DEF FirstIn
  <2>. QED  BY <1>1, <2>3
<1>. QED  BY <1>2 DEF FirstIn, rest

\* A request that is pushed is not the creator's, or the only one of the game.
LEMMA FirstInAppend ==
  ASSUME NEW queue \in Seq(Request), NEW g, NEW q \in Request, FirstIn(queue, g),
         \/ GameOf(q.msg) # g /\ q.msg # g
         \/ q.msg # g /\ q.kind \in {"load", "save"}
         \/ \A i \in DOMAIN queue : ~ (GameOf(queue[i].msg) = g /\ queue[i].kind # "load")
            /\ queue[i].msg # g
  PROVE  FirstIn(Append(queue, q), g)
<1> DEFINE longer == Append(queue, q)
<1>1. /\ Len(queue) \in Nat
      /\ \A i \in DOMAIN longer : i \in DOMAIN queue \/ i = Len(queue) + 1
      /\ \A i \in DOMAIN queue : longer[i] = queue[i] /\ i < Len(queue) + 1
      /\ longer[Len(queue) + 1] = q
  BY AppendFacts
<1> HIDE DEF longer
<1>2. FirstIn(longer, g)
  BY <1>1 DEF FirstIn
<1>. QED  BY <1>2 DEF longer

LEMMA FirstInAfterSave ==
  ASSUME NEW queue \in Seq(Request), queue # <<>>, NEW g, FirstIn(queue, g),
         queue[1].kind = "save", GameOf(queue[1].msg) = g,
         \A i, j \in DOMAIN queue : queue[i].msg = queue[j].msg => i = j,
         NEW q \in Request, q.msg = queue[1].msg, q.kind = "view"
  PROVE  FirstIn(Append(Tail(queue), q), g)
<1> DEFINE rest == Tail(queue)
           longer == Append(rest, q)
<1>1. /\ rest \in Seq(Request) /\ 1 \in DOMAIN queue /\ Len(rest) \in Nat
      /\ \A i \in DOMAIN rest : i \in Nat \ {0} /\ i + 1 \in DOMAIN queue /\ rest[i] = queue[i + 1]
  BY TailFacts
<1>2. /\ \A i \in DOMAIN longer : i \in DOMAIN rest \/ i = Len(rest) + 1
      /\ \A i \in DOMAIN rest : longer[i] = rest[i] /\ i < Len(rest) + 1
      /\ longer[Len(rest) + 1] = q
  BY <1>1, AppendFacts
<1>3. FirstIn(rest, g)
  BY FirstInTail
<1> HIDE DEF rest, longer
<1>4. ASSUME NEW k \in DOMAIN longer, NEW j \in DOMAIN longer,
             longer[k].msg = g, GameOf(longer[j].msg) = g, longer[j].kind # "load", j # k
      PROVE  /\ longer[k].kind = "save" => k < j /\ longer[j].kind = "save"
             /\ longer[k].kind = "view" /\ longer[j].kind = "view" => k < j
  <2>1. CASE k \in DOMAIN rest /\ j \in DOMAIN rest
    BY <1>2, <1>3, <1>4, <2>1 DEF FirstIn
  <2>2. CASE k \in DOMAIN rest /\ j = Len(rest) + 1
    <3>1. longer[k] = queue[k + 1] /\ k + 1 \in DOMAIN queue /\ k + 1 # 1 /\ k < j /\ ~ (k + 1 < 1)
      BY <1>1, <1>2, <2>2
    <3>2. queue[k + 1].kind # "save"
      BY <1>1, <1>4, <3>1 DEF FirstIn
    <3>. QED  BY <3>1, <3>2
  <2>3. CASE k = Len(rest) + 1 /\ j \in DOMAIN rest
    <3>1. queue[1].msg = g /\ longer[k].kind = "view"
      BY <1>2, <1>4, <2>3
    <3>2. longer[j] = queue[j + 1] /\ j + 1 \in DOMAIN queue /\ j + 1 # 1
      BY <1>1, <1>2, <2>3
    <3>3. queue[j + 1].kind = "save"
      BY <1>1, <1>4, <3>1, <3>2 DEF FirstIn
    <3>. QED  BY <3>1, <3>2, <3>3
  <2>. QED  BY <1>2, <1>4, <2>1, <2>2, <2>3
<1>. QED  BY <1>4 DEF FirstIn, longer, rest

\* While its message is not handled a game has no request that writes.
LEMMA NothingWritten ==
  ASSUME TypeOK, RemovedIsSilent, HomeOf, NEW r \in Replicas, NEW g \in Games, status[g] = "delivered"
  PROVE  /\ \A s \in Replicas : live[s][g] = None
         /\ \A s \in Replicas : \A i \in DOMAIN pending[s] :
              ~ (GameOf(pending[s][i].msg) = g /\ pending[s][i].kind # "load")
  BY DEF RemovedIsSilent, HomeOf

LEMMA CreatorFirstStep ==
  ASSUME TypeOK, InHand, RemovedIsSilent, HomeOf, CreatorFirst, [Next]_vars
  PROVE  CreatorFirst'
<1>1. \A s \in Replicas, g \in Games : pending[s] \in Seq(Request) /\ FirstIn(pending[s], g)
  BY DEF CreatorFirst, TypeOK
<1>2. ASSUME NEW r \in Replicas, \A s \in Replicas \ {r} : pending'[s] = pending[s],
             \A g \in Games : FirstIn(pending'[r], g)
      PROVE  CreatorFirst'
  BY <1>1, <1>2 DEF CreatorFirst
<1>3. ASSUME NEW r \in Replicas, NEW g, Local(r, g),
             \/ pending'[r] = pending[r]
             \/ pending[r] # <<>> /\ pending'[r] = Tail(pending[r])
             \/ \E q \in Request : /\ q.msg \in Commands /\ q.kind \in {"load", "save"}
                                   /\ pending'[r] = Append(pending[r], q)
      PROVE  CreatorFirst'
  <2>1. ASSUME NEW q \in Request, q.msg \in Commands, q.kind \in {"load", "save"}, NEW h \in Games
        PROVE  FirstIn(Append(pending[r], q), h)
    <3>1. q.msg # h
      BY <2>1, EngineAssumption
    <3>. QED  BY <1>1, <2>1, <3>1, FirstInAppend
  <2>2. ASSUME NEW h \in Games  PROVE FirstIn(pending'[r], h)
    <3>1. pending[r] # <<>> => FirstIn(Tail(pending[r]), h)
      BY <1>1, FirstInTail
    <3>. QED  BY <1>1, <1>3, <2>1, <3>1
  <2>. QED  BY <1>2, <1>3, <2>2 DEF Local
<1>4. ASSUME NEW r \in Replicas, NEW m \in Messages, NEW g, Local(r, g),
             pending[r] # <<>>, pending[r][1].msg = m, pending[r][1].kind = "save",
             NEW q \in Request, q.msg = m, q.kind = "view", pending'[r] = Append(Tail(pending[r]), q)
      PROVE  CreatorFirst'
  <2>1. \A i, j \in DOMAIN pending[r] : pending[r][i].msg = pending[r][j].msg => i = j
    BY DEF InHand
  <2>2. ASSUME NEW h \in Games  PROVE FirstIn(pending'[r], h)
    <3>1. CASE GameOf(m) = h
      BY <1>1, <1>4, <2>1, <3>1, FirstInAfterSave
    <3>2. CASE GameOf(m) # h
      <4>1. m # h
        BY <3>2, MessageTypes
      <4>2. Tail(pending[r]) \in Seq(Request) /\ FirstIn(Tail(pending[r]), h)
        BY <1>1, <1>4, FirstInTail, HeadTypes
      <4>. QED  BY <1>4, <3>2, <4>1, <4>2, FirstInAppend
    <3>. QED  BY <3>1, <3>2
  <2>. QED  BY <1>2, <1>4, <2>2 DEF Local
<1>5. ASSUME NEW r \in Replicas, Begin(r)  PROVE CreatorFirst'
  <2>1. ASSUME NEW g \in Games, BeginCreate(r, g)  PROVE CreatorFirst'
    <3> DEFINE q == Req(g, "save", SnapshotOf(Fresh))
    <3>1. Local(r, g) /\ pending'[r] = Append(pending[r], q)
      BY <2>1, BeginEffects
    <3>2. q \in Request /\ q.msg = g
      BY InstanceTypes, ProperValues, MessageTypes DEF Req
    <3>3. status[g] = "delivered" /\ \A i \in DOMAIN pending[r] : pending[r][i].msg # g
      BY <2>1, TakenInbox, MessageTypes DEF BeginCreate
    <3>4. \A i \in DOMAIN pending[r] : ~ (GameOf(pending[r][i].msg) = g /\ pending[r][i].kind # "load")
      BY <3>3, NothingWritten
    <3> HIDE DEF q
    <3>5. ASSUME NEW h \in Games  PROVE FirstIn(pending'[r], h)
      <4>1. CASE h = g
        BY <1>1, <3>1, <3>2, <3>3, <3>4, <4>1, FirstInAppend
      <4>2. CASE h # g
        <5>1. GameOf(q.msg) # h /\ q.msg # h
          BY <3>2, <4>2, MessageTypes
        <5>. QED  BY <1>1, <3>1, <3>2, <5>1, FirstInAppend
      <4>. QED  BY <4>1, <4>2
    <3>. QED  BY <1>2, <3>1, <3>5 DEF Local
  <2>2. ASSUME NEW c \in Commands, BeginForeign(r, c)  PROVE CreatorFirst'
    <3>1. Req(c, "load", None) \in Request /\ Req(c, "load", None).msg = c /\ Req(c, "load", None).kind = "load"
      BY ProperValues, MessageTypes DEF Req
    <3>. QED  BY <1>3, <2>2, <3>1, BeginEffects
  <2>3. ASSUME NEW c \in Commands, Refuse(r, c) \/ BeginLate(r, c)  PROVE CreatorFirst'
    BY <1>3, <2>3, BeginEffects, ZenonT(40)
  <2>4. ASSUME NEW c \in Commands, BeginCommand(r, c)  PROVE CreatorFirst'
    <3>1. PICK i \in Instance : pending'[r] = Append(pending[r], Req(c, "save", SnapshotOf(i)))
      BY <2>4, CommandEffects
    <3>2. Local(r, Target[c])
      BY <2>4, CommandEffects
    <3>3. /\ Req(c, "save", SnapshotOf(i)) \in Request /\ Req(c, "save", SnapshotOf(i)).msg = c
          /\ Req(c, "save", SnapshotOf(i)).kind = "save"
      BY InstanceTypes, ProperValues, MessageTypes DEF Req
    <3>. QED  BY <1>3, <3>1, <3>2, <3>3
  <2>. QED  BY <1>5, <2>1, <2>2, <2>3, <2>4 DEF Begin
<1>6. ASSUME NEW r \in Replicas, Continue(r)  PROVE CreatorFirst'
  <2>1. ASSUME NEW i \in Instance, NEW m \in Messages
        PROVE  /\ Req(m, "view", ViewFor(i, m)) \in Request
               /\ Req(m, "view", ViewFor(i, m)).msg = m /\ Req(m, "view", ViewFor(i, m)).kind = "view"
    BY InstanceTypes, ProperValues DEF Req
  <2>2. ASSUME NEW g \in Games, CreateSaved(r, g)  PROVE CreatorFirst'
    <3>1. /\ Local(r, g) /\ pending[r] # <<>> /\ live[r][g] \in Instance
          /\ pending[r][1].msg = g /\ pending[r][1].kind = "save"
          /\ pending'[r] = Append(Tail(pending[r]), Req(g, "view", ViewFor(live[r][g], g)))
      BY <2>2, ContinueEffects
    <3>. QED  BY <1>4, <2>1, <3>1, MessageTypes
  <2>3. ASSUME NEW c \in Commands, CommandSaved(r, c)  PROVE CreatorFirst'
    <3>1. /\ Local(r, Target[c]) /\ pending[r] # <<>> /\ live[r][Target[c]] \in Instance
          /\ pending[r][1].msg = c /\ pending[r][1].kind = "save"
          /\ pending'[r] = Append(Tail(pending[r]), Req(c, "view", ViewFor(live[r][Target[c]], c)))
      BY <2>3, ContinueEffects
    <3>. QED  BY <1>4, <2>1, <3>1, MessageTypes
  <2>4. ASSUME NEW g \in Games, CreateViewed(r, g)  PROVE CreatorFirst'
    BY <1>3, <2>4, ContinueEffects
  <2>5. ASSUME NEW c \in Commands, CommandViewed(r, c) \/ Loaded(r, c)  PROVE CreatorFirst'
    BY <1>3, <2>5, ContinueEffects
  <2>. QED  BY <1>6, <2>2, <2>3, <2>4, <2>5 DEF Continue
<1>7. ASSUME NEW r \in Replicas, NEW m \in Messages, RequestFails(r, m)  PROVE CreatorFirst'
  BY <1>3, <1>7, ContinueEffects
<1>8. ASSUME NEW r \in Replicas, Crash(r)  PROVE CreatorFirst'
  <2>1. \A g \in Games : FirstIn(<<>>, g)
    BY DEF FirstIn
  <2>. QED  BY <1>2, <1>8, <2>1, CrashEffects
<1>9. ASSUME pending' = pending  PROVE CreatorFirst'
  BY <1>9 DEF CreatorFirst
<1>. QED  BY <1>5, <1>6, <1>7, <1>8, <1>9 DEF Next, Send, Deliver, vars

\* A command that is acknowledged after it was accepted finds its game created.
LEMMA AckedAfterCreation ==
  ASSUME TypeOK, InHand, RemovedIsSilent, HomeOf, Held, Proper, CreatorFirst,
         NEW c \in Commands, status[c] = "handling", status'[c] = "acked", [Next]_vars
  PROVE  status[Target[c]] \in {"acked", "rejected"}
<1> DEFINE g == Target[c]
<1>1. g \in Games /\ g \in Messages /\ c \in Messages /\ GameOf(c) = g /\ GameOf(g) = g
  BY MessageTypes
<1>2. PICK r \in Replicas : CommandViewed(r, c)
  <2>1. ASSUME NEW m \in Messages, NEW fate, Finish(m, fate)  PROVE m = c /\ fate = "acked"
    BY <1>1, <2>1 DEF Finish, TypeOK
  <2>2. ASSUME NEW r \in Replicas, Begin(r)  PROVE FALSE
    <3>1. \A m \in Messages : ~ Handle(m)
      BY <1>1 DEF Handle, Taken, TypeOK
    <3>2. ASSUME NEW d \in Commands, Refuse(r, d) \/ BeginLate(r, d)  PROVE FALSE
      <4>1. Take(r, d) /\ d \in Messages
        BY <3>2, MessageTypes DEF Refuse, BeginLate
      <4>2. status[d] = "delivered"
        BY <4>1, TakenInbox
      <4>3. d = c
        BY <2>1, <3>2, <4>1 DEF Refuse, BeginLate
      <4>. QED  BY <4>2, <4>3
    <3>. QED  BY <2>2, <3>1, <3>2, MessageTypes DEF Begin, BeginCreate, BeginForeign, BeginCommand
  <2>3. ASSUME NEW r \in Replicas, Continue(r)  PROVE CommandViewed(r, c)
    <3>1. ASSUME status' = status  PROVE FALSE
      BY <3>1
    <3>2. ASSUME NEW h \in Games, CreateSaved(r, h) \/ CreateViewed(r, h)  PROVE FALSE
      <4>1. h # c /\ h \in Messages
        BY EngineAssumption, MessageTypes
      <4>. QED  BY <2>1, <3>1, <3>2, <4>1 DEF CreateSaved, CreateViewed, broker
    <3>3. ASSUME NEW d \in Commands, CommandSaved(r, d) \/ Loaded(r, d)  PROVE FALSE
      <4>1. ~ Loaded(r, d)
        BY <2>1, MessageTypes DEF Loaded, Thrown
      <4>. QED  BY <3>1, <3>3, <4>1 DEF CommandSaved, broker
    <3>4. ASSUME NEW d \in Commands, CommandViewed(r, d)  PROVE d = c
      BY <2>1, <3>4, MessageTypes DEF CommandViewed
    <3>. QED  BY <2>3, <3>2, <3>3, <3>4 DEF Continue
  <2>4. ASSUME NEW r \in Replicas, NEW m \in Messages, RequestFails(r, m)  PROVE FALSE
    BY <2>1, <2>4 DEF RequestFails, Thrown
  <2>5. ASSUME NEW r \in Replicas, Crash(r) \/ Deliver(r)  PROVE FALSE
    BY <1>1, <2>5 DEF Crash, Deliver, DeliveredOnce, TypeOK
  <2>6. ASSUME NEW m \in Messages, Send(m)  PROVE FALSE
    BY <1>1, <2>6 DEF Send, TypeOK
  <2>. QED  BY <2>2, <2>3, <2>4, <2>5, <2>6 DEF Next, vars, broker
<1>3. /\ 1 \in DOMAIN pending[r] /\ pending[r][1].msg = c /\ pending[r][1].kind = "view"
      /\ live[r][g] # None /\ pending[r] \in Seq(Request)
  <2>1. /\ pending[r] # <<>> /\ pending[r][1].msg = c /\ pending[r][1].kind = "view"
        /\ live[r][g] \in Instance
    BY <1>2, ContinueEffects
  <2>. QED  BY <2>1, HeadTypes, NoneAssumption
<1> SUFFICES ASSUME status[g] = "handling" /\ consumer[g] = r  PROVE FALSE
  BY <1>1, <1>3 DEF HomeOf
<1>4. PICK s \in Replicas : \E k \in DOMAIN pending[s] : pending[s][k].msg = g
  BY <1>1 DEF Held
<1>5. s = r
  BY <1>4 DEF InHand
<1>6. PICK k \in DOMAIN pending[r] : pending[r][k].msg = g
  BY <1>4, <1>5
<1>7. k # 1
  BY <1>1, <1>3, <1>6, EngineAssumption
<1>8. pending[r][k].kind \in {"save", "view"}
  <2>1. pending[r][k] \in Request
    BY <1>3
  <2>. QED  BY <1>1, <1>6, <2>1 DEF Proper, ProperRequest, Request
<1>9. k \in Nat \ {0}
  BY <1>3
<1>10. FirstIn(pending[r], g)
  BY <1>1 DEF CreatorFirst
<1>11. k < 1
  <2>1. pending[r][1].kind # "load" /\ GameOf(pending[r][1].msg) = g
    BY <1>1, <1>3
  <2>. QED  BY <1>3, <1>6, <1>7, <1>8, <1>10, <2>1 DEF FirstIn
<1>. QED  BY <1>9, <1>11

-----------------------------------------------------------------------------
(* Events that are published *)

LEMMA ConcatFacts ==
  ASSUME NEW S, NEW p \in Seq(S), NEW q \in Seq(S)
  PROVE  /\ p \o q \in Seq(S) /\ Len(p) \in Nat /\ Len(q) \in Nat
         /\ DOMAIN p = 1 .. Len(p) /\ DOMAIN q = 1 .. Len(q)
         /\ DOMAIN (p \o q) = 1 .. Len(p) + Len(q)
         /\ \A i \in DOMAIN p : (p \o q)[i] = p[i]
         /\ \A i \in DOMAIN q : (p \o q)[Len(p) + i] = q[i]
  OBVIOUS

\* Elements of a concatenation are those of its parts.
LEMMA ConcatElements ==
  ASSUME NEW S, NEW p \in Seq(S), NEW q \in Seq(S)
  PROVE  /\ \A i \in DOMAIN (p \o q) : \/ i \in DOMAIN p /\ (p \o q)[i] = p[i]
                                       \/ \E k \in DOMAIN q : i = Len(p) + k /\ (p \o q)[i] = q[k]
         /\ \A i \in DOMAIN p : i \in DOMAIN (p \o q) /\ (p \o q)[i] = p[i]
         /\ \A k \in DOMAIN q : Len(p) + k \in DOMAIN (p \o q) /\ (p \o q)[Len(p) + k] = q[k]
<1>1. /\ p \o q \in Seq(S) /\ Len(p) \in Nat /\ Len(q) \in Nat
      /\ DOMAIN p = 1 .. Len(p) /\ DOMAIN q = 1 .. Len(q)
      /\ DOMAIN (p \o q) = 1 .. Len(p) + Len(q)
      /\ \A i \in DOMAIN p : (p \o q)[i] = p[i]
      /\ \A i \in DOMAIN q : (p \o q)[Len(p) + i] = q[i]
  BY ConcatFacts
<1>2. ASSUME NEW i \in DOMAIN (p \o q), i \notin DOMAIN p
      PROVE  \E k \in DOMAIN q : i = Len(p) + k /\ (p \o q)[i] = q[k]
  <2>1. i - Len(p) \in DOMAIN q /\ i = Len(p) + (i - Len(p))
    BY <1>1, <1>2
  <2>. QED  BY <1>1, <2>1
<1>3. \A i \in DOMAIN p : i \in DOMAIN (p \o q)
  BY <1>1
<1>4. \A k \in DOMAIN q : Len(p) + k \in DOMAIN (p \o q)
  BY <1>1
<1>. QED  BY <1>1, <1>2, <1>3, <1>4

PlainBuffer(buffer) == \A k \in DOMAIN buffer : buffer[k].type \in {"applied", "game-ended"}

\* What waits in a game to be published are the events of its commands.
Plain == \A r \in Replicas, g \in Games : live[r][g] # None => PlainBuffer(live[r][g].buffer)

LEMMA ExecutedBuffers ==
  ASSUME NEW i \in Instance, NEW c \in Commands
  PROVE  /\ NextSeq(i) \in Nat /\ i.buffer \in Seq(Event)
         /\ Execute(i, c).buffer = Append(i.buffer, GameEvent("applied", c, NextSeq(i)))
         /\ ExecuteAndWin(i, c).buffer
              = Append(Execute(i, c).buffer, GameEvent("game-ended", c, NextSeq(i) + 1))
         /\ GameEvent("applied", c, NextSeq(i)) \in Event
         /\ GameEvent("game-ended", c, NextSeq(i) + 1) \in Event
         /\ Execute(i, c).buffer \in Seq(Event)
<1>1. i.log \in Seq(Commands) /\ i.buffer \in Seq(Event)
  BY DEF Instance
<1>2. NextSeq(i) \in Nat /\ NextSeq(i) + 1 \in Nat
  <2>1. Len(i.log) \in Nat
    BY <1>1
  <2>2. NextSeq(i) = Len(i.log) + 1 \/ NextSeq(i) = Len(i.log) + 2
    BY DEF NextSeq
  <2>. QED  BY <2>1, <2>2
<1>3. Execute(i, c) \in Instance
  BY InstanceTypes
<1>4. Execute(i, c).buffer \in Seq(Event)
  BY <1>3, InstanceTypes
<1>. QED  BY <1>1, <1>2, <1>4, EventTypes DEF Execute, ExecuteAndWin

LEMMA PlainAppend ==
  ASSUME NEW buffer \in Seq(Event), PlainBuffer(buffer), NEW c, NEW n,
         NEW t \in {"applied", "game-ended"}, GameEvent(t, c, n) \in Event
  PROVE  PlainBuffer(Append(buffer, GameEvent(t, c, n)))
<1>1. /\ \A k \in DOMAIN Append(buffer, GameEvent(t, c, n)) : k \in DOMAIN buffer \/ k = Len(buffer) + 1
      /\ \A k \in DOMAIN buffer : Append(buffer, GameEvent(t, c, n))[k] = buffer[k]
      /\ Append(buffer, GameEvent(t, c, n))[Len(buffer) + 1] = GameEvent(t, c, n)
  BY AppendFacts
<1>2. GameEvent(t, c, n).type = t
  BY DEF GameEvent
<1>. QED  BY <1>1, <1>2 DEF PlainBuffer

LEMMA PlainExecuted ==
  ASSUME NEW i \in Instance, NEW c \in Commands, PlainBuffer(i.buffer)
  PROVE  PlainBuffer(Execute(i, c).buffer) /\ PlainBuffer(ExecuteAndWin(i, c).buffer)
<1>1. PlainBuffer(Execute(i, c).buffer)
  BY ExecutedBuffers, PlainAppend
<1>. QED  BY <1>1, ExecutedBuffers, PlainAppend

LEMMA PlainStep ==
  ASSUME TypeOK, RemovedIsSilent, Plain, [Next]_vars
  PROVE  Plain'
<1>1. ASSUME NEW r \in Replicas, NEW g \in Games, Local(r, g),
             live'[r][g] # None => PlainBuffer(live'[r][g].buffer)
      PROVE  Plain'
  BY <1>1 DEF Plain, Local
<1>2. \A i \in Instance : PlainBuffer(Drained(i).buffer)
  BY DEF Drained, PlainBuffer
<1>3. PlainBuffer(Fresh.buffer)
  BY DEF Fresh, PlainBuffer
<1>4. ASSUME live' = live  PROVE Plain'
  BY <1>4 DEF Plain
<1>5. ASSUME NEW r \in Replicas, Begin(r)  PROVE Plain'
  <2>1. ASSUME NEW g \in Games, BeginCreate(r, g)  PROVE Plain'
    BY <1>1, <1>3, <2>1, BeginEffects
  <2>2. ASSUME NEW c \in Commands, BeginForeign(r, c) \/ Refuse(r, c)  PROVE Plain'
    BY <1>4, <2>2, BeginEffects
  <2>3. ASSUME NEW c \in Commands, BeginLate(r, c)  PROVE Plain'
    <3>1. /\ Local(r, Target[c]) /\ live[r][Target[c]] # None
          /\ live'[r][Target[c]] = Execute(live[r][Target[c]], c)
      BY <2>3, BeginEffects
    <3>2. live[r][Target[c]] \in Instance /\ PlainBuffer(live[r][Target[c]].buffer)
      BY <3>1, MessageTypes DEF TypeOK, Plain
    <3>. QED  BY <1>1, <3>1, <3>2, PlainExecuted, MessageTypes
  <2>4. ASSUME NEW c \in Commands, BeginCommand(r, c)  PROVE Plain'
    <3>1. Local(r, Target[c]) /\ \E i \in Instance : live'[r][Target[c]] = Drained(i)
      BY <2>4, CommandEffects
    <3>. QED  BY <1>1, <1>2, <3>1, MessageTypes
  <2>. QED  BY <1>5, <2>1, <2>2, <2>3, <2>4 DEF Begin
<1>6. ASSUME NEW r \in Replicas, Continue(r)  PROVE Plain'
  <2>1. ASSUME NEW g \in Games, CreateSaved(r, g)  PROVE Plain'
    <3>1. Local(r, g) /\ live[r][g] \in Instance /\ live'[r][g] = Drained(live[r][g])
      BY <2>1, ContinueEffects
    <3>. QED  BY <1>1, <1>2, <3>1
  <2>2. ASSUME NEW c \in Commands, CommandViewed(r, c)  PROVE Plain'
    <3>1. Local(r, Target[c]) /\ (live'[r][Target[c]] = None \/ live'[r][Target[c]] = live[r][Target[c]])
      BY <2>2, ContinueEffects
    <3>. QED  BY <1>1, <3>1, MessageTypes DEF Plain
  <2>3. ASSUME live' # live  PROVE Plain'
    BY <1>6, <2>1, <2>2, <2>3 DEF Continue, CreateViewed, CommandSaved, Loaded
  <2>. QED  BY <1>4, <2>3
<1>7. ASSUME NEW r \in Replicas, Crash(r)  PROVE Plain'
  BY <1>7, CrashEffects DEF Plain
<1>. QED  BY <1>4, <1>5, <1>6, <1>7 DEF Next, Send, Deliver, RequestFails, vars

\* The first event "game-started" of a game comes with its view.
LEMMA ViewableStep ==
  ASSUME TypeOK, RemovedIsSilent, Proper, Plain, StartIsViewable, [Next]_vars
  PROVE  StartIsViewable'
<1> DEFINE Starts(es) == \E i \in DOMAIN es : es[i].type = "game-started"
<1>1. \A g \in Games : events[g] \in Seq(Event) /\ (Starts(events[g]) => view[g] # None)
  BY DEF StartIsViewable, TypeOK
<1>2. ASSUME \A g \in Games : /\ Starts(events'[g]) => Starts(events[g]) \/ view'[g] # None
                              /\ view[g] # None => view'[g] # None
      PROVE  StartIsViewable'
  BY <1>1, <1>2 DEF StartIsViewable
<1>3. ASSUME NEW r \in Replicas, NEW g \in Games, Local(r, g), NEW es \in Seq(Event),
             events'[g] = events[g] \o es, Starts(es) => view'[g] # None,
             view[g] # None => view'[g] # None
      PROVE  StartIsViewable'
  <2>1. \A i \in DOMAIN events'[g] : \/ i \in DOMAIN events[g] /\ events'[g][i] = events[g][i]
                                     \/ \E k \in DOMAIN es : events'[g][i] = es[k]
    BY <1>1, <1>3, ConcatElements
  <2>2. Starts(events'[g]) => Starts(events[g]) \/ view'[g] # None
    BY <1>3, <2>1
  <2>. QED  BY <1>2, <1>3, <2>2 DEF Local
<1>4. \A es : PlainBuffer(es) => ~ Starts(es)
  BY DEF PlainBuffer
<1>5. \A s \in Replicas : pending[s] # <<>> /\ pending[s][1].kind = "view" => pending[s][1].value # None
  BY HeadTypes DEF Proper, ProperRequest
<1>6. ASSUME events' = events, view' = view  PROVE StartIsViewable'
  BY <1>6 DEF StartIsViewable
<1>7. ASSUME NEW r \in Replicas, Begin(r)  PROVE StartIsViewable'
  <2>1. ASSUME NEW c \in Commands, Refuse(r, c)  PROVE StartIsViewable'
    <3>1. <<EngineEvent("error", c, None)>> \in Seq(Event) /\ ~ Starts(<<EngineEvent("error", c, None)>>)
      BY EventTypes DEF EngineEvent
    <3>2. /\ Local(r, Target[c]) /\ view' = view
          /\ events'[Target[c]] = events[Target[c]] \o <<EngineEvent("error", c, None)>>
      BY <2>1, BeginEffects
    <3> HIDE DEF Starts
    <3>. QED  BY <1>3, <3>1, <3>2, MessageTypes
  <2>2. ASSUME NEW c \in Commands, BeginCommand(r, c)  PROVE StartIsViewable'
    <3>1. /\ Local(r, Target[c]) /\ view' = view /\ live[r][Target[c]] \in Instance
          /\ \E i \in {Execute(live[r][Target[c]], c), ExecuteAndWin(live[r][Target[c]], c)} :
               i \in Instance /\ events'[Target[c]] = events[Target[c]] \o i.buffer
      BY <2>2, CommandEffects
    <3>2. PlainBuffer(live[r][Target[c]].buffer)
      BY <3>1, MessageTypes, NoneAssumption DEF Plain
    <3>3. \E i \in Instance : events'[Target[c]] = events[Target[c]] \o i.buffer /\ PlainBuffer(i.buffer)
      BY <3>1, <3>2, PlainExecuted
    <3>4. \A i \in Instance : i.buffer \in Seq(Event)
      BY InstanceTypes
    <3> HIDE DEF Starts
    <3>. QED  BY <1>3, <1>4, <3>1, <3>3, <3>4, MessageTypes
  <2>3. \/ events' = events /\ view' = view
        \/ \E c \in Commands : Refuse(r, c) \/ BeginCommand(r, c)
    BY <1>7 DEF Begin, BeginCreate, BeginForeign, BeginLate, Take
  <2>. QED  BY <1>6, <2>1, <2>2, <2>3
<1>8. ASSUME NEW r \in Replicas, Continue(r)  PROVE StartIsViewable'
  <2>1. ASSUME NEW g \in Games, CreateSaved(r, g)  PROVE StartIsViewable'
    <3>1. /\ Local(r, g) /\ view' = view /\ live[r][g] \in Instance
          /\ events'[g] = events[g] \o live[r][g].buffer
      BY <2>1, ContinueEffects
    <3>2. live[r][g].buffer \in Seq(Event) /\ PlainBuffer(live[r][g].buffer)
      BY <3>1, InstanceTypes, NoneAssumption DEF Plain
    <3> HIDE DEF Starts
    <3>. QED  BY <1>3, <1>4, <3>1, <3>2
  <2>2. ASSUME NEW g \in Games, CreateViewed(r, g)  PROVE StartIsViewable'
    <3>1. /\ Local(r, g) /\ view'[g] # None
          /\ events'[g] = events[g] \o <<EngineEvent("game-started", None, pending[r][1].value)>>
      BY <1>5, <2>2, ContinueEffects, ZenonT(40)
    <3>2. pending[r][1].value \in Snapshot \cup {None}
      BY <2>2, HeadTypes DEF CreateViewed, Answered
    <3>3. <<EngineEvent("game-started", None, pending[r][1].value)>> \in Seq(Event)
      BY <3>2, EventTypes
    <3>. QED  BY <1>3, <3>1, <3>3
  <2>3. ASSUME NEW c \in Commands, CommandSaved(r, c) \/ Loaded(r, c)  PROVE StartIsViewable'
    BY <1>6, <2>3, ContinueEffects
  <2>4. ASSUME NEW c \in Commands, CommandViewed(r, c)  PROVE StartIsViewable'
    <3>1. Local(r, Target[c]) /\ view'[Target[c]] # None /\ events' = events
      BY <1>5, <2>4, ContinueEffects, ZenonT(40)
    <3> HIDE DEF Starts
    <3>. QED  BY <1>2, <3>1 DEF Local
  <2>. QED  BY <1>8, <2>1, <2>2, <2>3, <2>4 DEF Continue
<1>9. ASSUME NEW r \in Replicas, Crash(r)  PROVE StartIsViewable'
  <2>1. \A g \in Games : view[g] # None => view'[g] # None
    BY <1>9, CrashEffects DEF Proper, ProperRequest
  <2>. QED  BY <1>2, <1>9, <2>1, CrashEffects
<1>. QED  BY <1>6, <1>7, <1>8, <1>9 DEF Next, Send, Deliver, RequestFails, vars

-----------------------------------------------------------------------------
(* What is stored was announced *)

Said(es, c) == \E i \in DOMAIN es : es[i].type = "applied" /\ es[i].cmd = c

\* Told by the events es or dropped, with the messages in the state st.
LogTold(i, es, st) ==
  /\ \A c \in RangeOf(i.log) : Said(es, c) \/ st[c] = "rejected"
  /\ i.endedBy = None => \A c \in RangeOf(i.log) : Said(es, c)

RequestTold(q, es, st) ==
  /\ q.kind = "save" => \A c \in RangeOf(q.value.log) : Said(es, c)
  /\ q.kind = "view" => \A c \in RangeOf(q.value.log) : Said(es, c) \/ st[c] = "rejected"

\* The commands of a game in memory, and of a value to be written, were
\* announced; a game that ended also has commands that were dropped.
LogsTold ==
  \A r \in Replicas :
    /\ \A g \in Games : live[r][g] # None => LogTold(live[r][g], events[g], status)
    /\ \A i \in DOMAIN pending[r] :
         RequestTold(pending[r][i], events[GameOf(pending[r][i].msg)], status)

\* Events are only ever added.
LEMMA EventsGrow ==
  ASSUME TypeOK, RemovedIsSilent, [Next]_vars, NEW g \in Games
  PROVE  events'[g] = events[g] \/ \E es \in Seq(Event) : events'[g] = events[g] \o es
<1>1. ASSUME NEW r \in Replicas, NEW h \in Games, Local(r, h),
             NEW es \in Seq(Event), events'[h] = events[h] \o es
      PROVE  events'[g] = events[g] \/ \E x \in Seq(Event) : events'[g] = events[g] \o x
  BY <1>1 DEF Local
<1>2. ASSUME NEW r \in Replicas, NEW c \in Commands, Refuse(r, c)
      PROVE  events'[g] = events[g] \/ \E x \in Seq(Event) : events'[g] = events[g] \o x
  <2>1. <<EngineEvent("error", c, None)>> \in Seq(Event)
    BY EventTypes
  <2>2. /\ Local(r, Target[c])
        /\ events'[Target[c]] = events[Target[c]] \o <<EngineEvent("error", c, None)>>
    BY <1>2, BeginEffects
  <2>. QED  BY <1>1, <2>1, <2>2, MessageTypes
<1>3. ASSUME NEW r \in Replicas, NEW c \in Commands, BeginCommand(r, c)
      PROVE  events'[g] = events[g] \/ \E x \in Seq(Event) : events'[g] = events[g] \o x
  <2>1. Local(r, Target[c]) /\ \E i \in Instance : events'[Target[c]] = events[Target[c]] \o i.buffer
    BY <1>3, CommandEffects
  <2>. QED  BY <1>1, <2>1, InstanceTypes, MessageTypes
<1>4. ASSUME NEW r \in Replicas, NEW h \in Games, CreateSaved(r, h)
      PROVE  events'[g] = events[g] \/ \E x \in Seq(Event) : events'[g] = events[g] \o x
  <2>1. Local(r, h) /\ live[r][h] \in Instance /\ events'[h] = events[h] \o live[r][h].buffer
    BY <1>4, ContinueEffects
  <2>. QED  BY <1>1, <2>1, InstanceTypes
<1>5. ASSUME NEW r \in Replicas, NEW h \in Games, CreateViewed(r, h)
      PROVE  events'[g] = events[g] \/ \E x \in Seq(Event) : events'[g] = events[g] \o x
  <2>1. /\ Local(r, h)
        /\ events'[h] = events[h] \o <<EngineEvent("game-started", None, pending[r][1].value)>>
    BY <1>5, ContinueEffects
  <2>2. pending[r][1].value \in Snapshot \cup {None}
    BY <1>5, HeadTypes DEF CreateViewed, Answered
  <2>3. <<EngineEvent("game-started", None, pending[r][1].value)>> \in Seq(Event)
    BY <2>2, EventTypes
  <2>. QED  BY <1>1, <2>1, <2>3
<1>6. \/ events' = events
      \/ \E r \in Replicas : \/ \E c \in Commands : Refuse(r, c) \/ BeginCommand(r, c)
                             \/ \E h \in Games : CreateSaved(r, h) \/ CreateViewed(r, h)
  BY DEF Next, vars, Send, Deliver, Begin, BeginCreate, BeginForeign, BeginLate, Continue, CommandSaved,
         CommandViewed, Loaded, RequestFails, Crash
<1>. QED  BY <1>2, <1>3, <1>4, <1>5, <1>6

\* What was announced or dropped stays so.
LEMMA KnownStays ==
  ASSUME TypeOK, InHand, RemovedIsSilent, [Next]_vars, NEW g \in Games, NEW c
  PROVE  /\ Said(events[g], c) => Said(events'[g], c)
         /\ c \in Messages /\ status[c] = "rejected" => status'[c] = "rejected"
<1>1. Said(events[g], c) => Said(events'[g], c)
  <2>1. events[g] \in Seq(Event)
    BY DEF TypeOK
  <2>2. \A i \in DOMAIN events[g] : i \in DOMAIN events'[g] /\ events'[g][i] = events[g][i]
    BY <2>1, EventsGrow, ConcatElements, SMTT(30)
  <2>. QED  BY <2>2 DEF Said
<1>2. ASSUME c \in Messages, status[c] = "rejected"  PROVE status'[c] = "rejected"
  <2>1. ASSUME NEW r \in Replicas, NEW m \in Messages,
               Begun(r, m) \/ Declined(r, m) \/ Continued(r, m) \/ Finished(r, m)
        PROVE  status'[c] = "rejected"
    <3>1. Declined(r, m) => status[m] = "delivered"
      BY TakenInbox DEF Declined
    <3>2. Finished(r, m) => status[m] = "handling"
      BY ForgottenRequest DEF Finished
    <3>3. Begun(r, m) => status[m] = "delivered"
      BY KindFates
    <3>4. Continued(r, m) => status' = status
      BY DEF Continued, broker
    <3>5. m # c \/ Continued(r, m)
      BY <1>2, <2>1, <3>1, <3>2, <3>3
    <3>6. m # c => status'[c] = status[c]
      BY <1>2, <2>1, KindFates
    <3>. QED  BY <1>2, <3>4, <3>5, <3>6
  <2>2. ASSUME NEW r \in Replicas, Begin(r) \/ Continue(r) \/ \E m \in Messages : RequestFails(r, m)
        PROVE  status'[c] = "rejected"
    BY <2>1, <2>2, ActionKinds, MessageTypes DEF Begin, Continue
  <2>3. ASSUME NEW r \in Replicas, Deliver(r)  PROVE status'[c] = "rejected"
    <3>1. PICK i \in DOMAIN sent : /\ status[sent[i]] = "ready"
                                   /\ status' = [status EXCEPT ![sent[i]] = "delivered"]
      BY <2>3 DEF Deliver, DeliveredOnce, FirstReady
    <3>. QED  BY <1>2, <3>1 DEF TypeOK
  <2>4. ASSUME NEW r \in Replicas, Crash(r)  PROVE status'[c] = "rejected"
    BY <1>2, <2>4 DEF Crash
  <2>5. ASSUME NEW m \in Messages, Send(m)  PROVE status'[c] = "rejected"
    BY <1>2, <2>5 DEF Send, TypeOK
  <2>. QED  BY <1>2, <2>2, <2>3, <2>4, <2>5 DEF Next, vars, broker
<1>. QED  BY <1>1, <1>2

\* Elements of a queue after a change are those from before, or the new one.
LEMMA QueueElements ==
  ASSUME NEW S, NEW queue \in Seq(S)
  PROVE  /\ queue # <<>> => \A i \in DOMAIN Tail(queue) : \E k \in DOMAIN queue : Tail(queue)[i] = queue[k]
         /\ \A q \in S : \A i \in DOMAIN Append(queue, q) :
              Append(queue, q)[i] = q \/ \E k \in DOMAIN queue : Append(queue, q)[i] = queue[k]
         /\ queue # <<>> => \A q \in S : \A i \in DOMAIN Append(Tail(queue), q) :
              Append(Tail(queue), q)[i] = q \/ \E k \in DOMAIN queue : Append(Tail(queue), q)[i] = queue[k]
<1>1. queue # <<>> => Tail(queue) \in Seq(S) /\ \A i \in DOMAIN Tail(queue) : \E k \in DOMAIN queue : Tail(queue)[i] = queue[k]
  <2>1. queue # <<>> => Tail(queue) \in Seq(S) /\ \A i \in DOMAIN Tail(queue) : i + 1 \in DOMAIN queue /\ Tail(queue)[i] = queue[i + 1]
    BY TailFacts
  <2>. QED  BY <2>1
<1>2. ASSUME NEW some \in Seq(S), NEW q \in S, NEW i \in DOMAIN Append(some, q)
      PROVE  Append(some, q)[i] = q \/ \E k \in DOMAIN some : Append(some, q)[i] = some[k]
  <2>1. i \in DOMAIN some \/ i = Len(some) + 1
    BY AppendFacts
  <2>. QED  BY <2>1, AppendFacts
<1>. QED  BY <1>1, <1>2

\* The log after a command is executed.
LEMMA ExecutedLogs ==
  ASSUME NEW i \in Instance, NEW c \in Commands
  PROVE  /\ RangeOf(Execute(i, c).log) = RangeOf(i.log) \cup {c}
         /\ RangeOf(ExecuteAndWin(i, c).log) = RangeOf(i.log) \cup {c}
         /\ RangeOf(i.log) \subseteq Commands
<1>1. i.log \in Seq(Commands)
  BY DEF Instance
<1>2. RangeOf(Append(i.log, c)) = RangeOf(i.log) \cup {c}
  <2> DEFINE longer == Append(i.log, c)
  <2>1. /\ \A k \in DOMAIN longer : k \in DOMAIN i.log \/ k = Len(i.log) + 1
        /\ \A k \in DOMAIN i.log : k \in DOMAIN longer /\ longer[k] = i.log[k]
        /\ Len(i.log) + 1 \in DOMAIN longer /\ longer[Len(i.log) + 1] = c
    BY <1>1, AppendFacts, StillThere
  <2> HIDE DEF longer
  <2>2. RangeOf(longer) = RangeOf(i.log) \cup {c}
    BY <2>1 DEF RangeOf
  <2>. QED  BY <2>2 DEF longer
<1>3. RangeOf(i.log) \subseteq Commands
  BY <1>1 DEF RangeOf
<1>. QED  BY <1>2, <1>3 DEF Execute, ExecuteAndWin

\* A command that is executed is announced with the events of its game.
LEMMA ExecutedIsSaid ==
  ASSUME NEW i \in Instance, NEW c \in Commands, NEW x \in {Execute(i, c), ExecuteAndWin(i, c)}
  PROVE  Said(x.buffer, c)
<1> DEFINE e == GameEvent("applied", c, NextSeq(i))
           b == Execute(i, c).buffer
<1>1. e \in Event /\ i.buffer \in Seq(Event) /\ b = Append(i.buffer, e) /\ b \in Seq(Event)
  BY ExecutedBuffers
<1>2. Len(i.buffer) + 1 \in DOMAIN b /\ b[Len(i.buffer) + 1] = e
  BY <1>1, StillThere
<1>3. e.type = "applied" /\ e.cmd = c
  BY DEF GameEvent
<1>4. /\ Len(i.buffer) + 1 \in DOMAIN ExecuteAndWin(i, c).buffer
      /\ ExecuteAndWin(i, c).buffer[Len(i.buffer) + 1] = e
  BY <1>1, <1>2, ExecutedBuffers, StillThere, SMTT(30)
<1>. QED  BY <1>2, <1>3, <1>4 DEF Said

LEMMA SaidAfter ==
  ASSUME NEW p \in Seq(Event), NEW b \in Seq(Event), NEW c, Said(b, c)
  PROVE  Said(p \o b, c)
<1>1. PICK k \in DOMAIN b : b[k].type = "applied" /\ b[k].cmd = c
  BY DEF Said
<1>2. Len(p) + k \in DOMAIN (p \o b) /\ (p \o b)[Len(p) + k] = b[k]
  BY ConcatElements
<1>. QED  BY <1>1, <1>2 DEF Said

\* What was told of stays so, for logs and values that are not None.
LEMMA ToldStays ==
  ASSUME TypeOK, InHand, RemovedIsSilent, [Next]_vars, NEW g \in Games
  PROVE  /\ \A i \in Instance : LogTold(i, events[g], status) => LogTold(i, events'[g], status')
         /\ \A q \in Request : ProperRequest(q) /\ RequestTold(q, events[g], status)
                                 => RequestTold(q, events'[g], status')
<1>1. \A log \in Seq(Commands) : RangeOf(log) \subseteq Messages
  BY DEF RangeOf, Messages
<1>2. /\ \A c : Said(events[g], c) => Said(events'[g], c)
      /\ \A c \in Messages : status[c] = "rejected" => status'[c] = "rejected"
  BY KnownStays
<1>3. ASSUME NEW i \in Instance, LogTold(i, events[g], status)  PROVE LogTold(i, events'[g], status')
  <2>1. i.log \in Seq(Commands)
    BY DEF Instance
  <2>. QED  BY <1>1, <1>2, <1>3, <2>1 DEF LogTold
<1>4. ASSUME NEW q \in Request, ProperRequest(q), RequestTold(q, events[g], status)
      PROVE  RequestTold(q, events'[g], status')
  <2>1. q.kind \in {"save", "view"} => q.value.log \in Seq(Commands)
    BY <1>4 DEF ProperRequest, Request, Snapshot
  <2>. QED  BY <1>1, <1>2, <1>4, <2>1 DEF RequestTold
<1>. QED  BY <1>3, <1>4

\* One game of a replica and its queue are changed, and what is new is told of.
LEMMA ToldLocally ==
  ASSUME TypeOK, InHand, RemovedIsSilent, Proper, LogsTold, [Next]_vars,
         NEW r \in Replicas, NEW g \in Games, Local(r, g),
         live'[r][g] # None => LogTold(live'[r][g], events'[g], status'),
         \/ pending'[r] = pending[r]
         \/ pending[r] # <<>> /\ pending'[r] = Tail(pending[r])
         \/ \E q \in Request : /\ GameOf(q.msg) = g /\ RequestTold(q, events'[g], status')
                               /\ \/ pending'[r] = Append(pending[r], q)
                                  \/ pending[r] # <<>> /\ pending'[r] = Append(Tail(pending[r]), q)
  PROVE  LogsTold'
<1>1. ASSUME NEW s \in Replicas, NEW i \in DOMAIN pending[s]
      PROVE  RequestTold(pending[s][i], events'[GameOf(pending[s][i].msg)], status')
  <2>1. /\ pending[s][i] \in Request /\ ProperRequest(pending[s][i])
        /\ GameOf(pending[s][i].msg) \in Games
        /\ RequestTold(pending[s][i], events[GameOf(pending[s][i].msg)], status)
    BY RequestMessages, MessageTypes DEF LogsTold, Proper
  <2>. QED  BY <2>1, ToldStays
<1>2. ASSUME NEW s \in Replicas, NEW h \in Games, live'[s][h] # None
      PROVE  LogTold(live'[s][h], events'[h], status')
  <2>1. CASE ~ (s = r /\ h = g)
    <3>1. live'[s][h] = live[s][h]
      BY <2>1 DEF Local
    <3>2. live[s][h] \in Instance /\ LogTold(live[s][h], events[h], status)
      BY <1>2, <3>1 DEF TypeOK, LogsTold
    <3>. QED  BY <3>1, <3>2, ToldStays
  <2>. QED  BY <1>2, <2>1
<1>3. ASSUME NEW i \in DOMAIN pending'[r]
      PROVE  RequestTold(pending'[r][i], events'[GameOf(pending'[r][i].msg)], status')
  <2>1. pending[r] \in Seq(Request)
    BY DEF TypeOK
  <2>2. \/ \E k \in DOMAIN pending[r] : pending'[r][i] = pending[r][k]
        \/ \E q \in Request : GameOf(q.msg) = g /\ RequestTold(q, events'[g], status') /\ pending'[r][i] = q
    <3>1. CASE pending'[r] = pending[r]
      BY <3>1
    <3>2. CASE pending[r] # <<>> /\ pending'[r] = Tail(pending[r])
      BY <2>1, <3>2, QueueElements
    <3>3. ASSUME NEW q \in Request, GameOf(q.msg) = g, RequestTold(q, events'[g], status'),
                 \/ pending'[r] = Append(pending[r], q)
                 \/ pending[r] # <<>> /\ pending'[r] = Append(Tail(pending[r]), q)
          PROVE  (\E k \in DOMAIN pending[r] : pending'[r][i] = pending[r][k]) \/ pending'[r][i] = q
      <4>1. CASE pending'[r] = Append(pending[r], q)
        BY <2>1, <4>1, QueueElements
      <4>2. CASE pending[r] # <<>> /\ pending'[r] = Append(Tail(pending[r]), q)
        BY <2>1, <4>2, QueueElements
      <4>. QED  BY <3>3, <4>1, <4>2
    <3>. QED  BY <3>1, <3>2, <3>3
  <2>. QED  BY <1>1, <2>2
<1>4. ASSUME NEW s \in Replicas, NEW i \in DOMAIN pending'[s]
      PROVE  RequestTold(pending'[s][i], events'[GameOf(pending'[s][i].msg)], status')
  <2>1. CASE s # r
    BY <1>1, <2>1 DEF Local
  <2>. QED  BY <1>3, <2>1
<1>. QED  BY <1>2, <1>4 DEF LogsTold

LEMMA LogsToldStep ==
  ASSUME TypeOK, InHand, RemovedIsSilent, Proper, LogsTold, [Next]_vars
  PROVE  LogsTold'
<1>1. ASSUME NEW r \in Replicas, NEW g \in Games, live[r][g] \in Instance
      PROVE  LogTold(live[r][g], events[g], status) /\ LogTold(live[r][g], events'[g], status')
  <2>1. LogTold(live[r][g], events[g], status)
    BY <1>1, NoneAssumption DEF LogsTold
  <2>. QED  BY <1>1, <2>1, ToldStays
<1>2. ASSUME NEW r \in Replicas, NEW g \in Games, live'[r][g] = live[r][g], live'[r][g] # None
      PROVE  LogTold(live'[r][g], events'[g], status')
  BY <1>1, <1>2 DEF TypeOK
<1>3. ASSUME NEW i \in Instance, NEW m \in Messages, NEW es, NEW st, LogTold(i, es, st)
      PROVE  /\ RequestTold(Req(m, "view", ViewFor(i, m)), es, st)
             /\ LogTold(Drained(i), es, st)
             /\ GameOf(Req(m, "view", ViewFor(i, m)).msg) = GameOf(m)
             /\ Req(m, "view", ViewFor(i, m)) \in Request
  <2>1. Req(m, "view", ViewFor(i, m)) \in Request
    BY InstanceTypes, ProperValues
  <2>. QED  BY <1>3, <2>1 DEF RequestTold, LogTold, Req, ViewFor, Drained
<1>4. ASSUME NEW r \in Replicas, Begin(r)  PROVE LogsTold'
  <2>1. ASSUME NEW g \in Games, BeginCreate(r, g)  PROVE LogsTold'
    <3> DEFINE q == Req(g, "save", SnapshotOf(Fresh))
    <3>1. /\ Local(r, g) /\ live'[r][g] = Fresh /\ pending'[r] = Append(pending[r], q)
      BY <2>1, BeginEffects
    <3>2. RangeOf(Fresh.log) = {} /\ RangeOf(SnapshotOf(Fresh).log) = {}
      BY DEF Fresh, SnapshotOf, RangeOf
    <3>3. LogTold(Fresh, events'[g], status') /\ RequestTold(q, events'[g], status')
      BY <3>2 DEF LogTold, RequestTold, Req
    <3>4. q \in Request /\ GameOf(q.msg) = g
      BY InstanceTypes, ProperValues, MessageTypes DEF Req
    <3>. QED  BY <3>1, <3>3, <3>4, ToldLocally
  <2>2. ASSUME NEW c \in Commands, BeginForeign(r, c)  PROVE LogsTold'
    <3> DEFINE q == Req(c, "load", None)
    <3>1. Local(r, Target[c]) /\ live' = live /\ pending'[r] = Append(pending[r], q)
      BY <2>2, BeginEffects
    <3>2. q \in Request /\ GameOf(q.msg) = Target[c] /\ RequestTold(q, events'[Target[c]], status')
      BY ProperValues, MessageTypes DEF Req, RequestTold
    <3>3. Target[c] \in Games
      BY MessageTypes
    <3>. QED  BY <1>2, <3>1, <3>2, <3>3, ToldLocally
  <2>3. ASSUME NEW c \in Commands, Refuse(r, c)  PROVE LogsTold'
    <3>1. Local(r, Target[c]) /\ live' = live /\ pending' = pending /\ Target[c] \in Games
      BY <2>3, BeginEffects, MessageTypes
    <3>. QED  BY <1>2, <3>1, ToldLocally
  <2>4. ASSUME NEW c \in Commands, BeginLate(r, c)  PROVE LogsTold'
    <3> DEFINE i == live[r][Target[c]]
    <3>1. /\ Local(r, Target[c]) /\ pending' = pending /\ Target[c] \in Games /\ c \in Messages
          /\ i # None /\ i.endedBy # None /\ live'[r][Target[c]] = Execute(i, c)
      BY <2>4, BeginEffects, MessageTypes
    <3>2. i \in Instance
      BY <3>1 DEF TypeOK
    <3>3. LogTold(i, events'[Target[c]], status')
      BY <1>1, <3>1, <3>2
    <3>4. status'[c] = "rejected"
      BY <2>4, <3>1 DEF BeginLate, Finish, Thrown, TypeOK
    <3>5. RangeOf(Execute(i, c).log) = RangeOf(i.log) \cup {c} /\ Execute(i, c).endedBy = i.endedBy
      BY <3>2, ExecutedLogs DEF Execute
    <3> HIDE DEF i
    <3>6. LogTold(Execute(i, c), events'[Target[c]], status')
      BY <3>1, <3>3, <3>4, <3>5 DEF LogTold
    <3>. QED  BY <3>1, <3>6, ToldLocally
  <2>5. ASSUME NEW c \in Commands, BeginCommand(r, c)  PROVE LogsTold'
    <3> DEFINE old == live[r][Target[c]]
               es  == events'[Target[c]]
    <3>1. Local(r, Target[c]) /\ old \in Instance /\ old.endedBy = None /\ Target[c] \in Games
      BY <2>5, CommandEffects, MessageTypes
    <3>2. PICK i \in {Execute(old, c), ExecuteAndWin(old, c)} :
            /\ i \in Instance /\ live'[r][Target[c]] = Drained(i)
            /\ pending'[r] = Append(pending[r], Req(c, "save", SnapshotOf(i)))
            /\ es = events[Target[c]] \o i.buffer
      BY <2>5, CommandEffects
    <3>3. LogTold(old, es, status')
      BY <1>1, <3>1
    <3>4. RangeOf(i.log) = RangeOf(old.log) \cup {c}
      BY <3>1, ExecutedLogs
    <3>5. Said(es, c)
      <4>1. events[Target[c]] \in Seq(Event) /\ i.buffer \in Seq(Event)
        BY <3>1, <3>2, InstanceTypes DEF TypeOK
      <4>3. Said(i.buffer, c)
        BY <3>1, ExecutedIsSaid
      <4>. QED  BY <3>2, <4>1, <4>3, SaidAfter
    <3> HIDE DEF es, old
    <3>6. \A x \in RangeOf(i.log) : Said(es, x)
      BY <3>1, <3>3, <3>4, <3>5 DEF LogTold
    <3> DEFINE q == Req(c, "save", SnapshotOf(i))
    <3>7. LogTold(Drained(i), es, status') /\ RequestTold(q, es, status')
      BY <3>6 DEF LogTold, Drained, RequestTold, Req, SnapshotOf
    <3>8. q \in Request /\ GameOf(q.msg) = Target[c]
      BY <3>2, InstanceTypes, ProperValues, MessageTypes DEF Req
    <3>. QED  BY <3>1, <3>2, <3>7, <3>8, ToldLocally DEF es
  <2>. QED  BY <1>4, <2>1, <2>2, <2>3, <2>4, <2>5 DEF Begin
<1>5. ASSUME NEW r \in Replicas, Continue(r)  PROVE LogsTold'
  <2>1. ASSUME NEW g \in Games, CreateSaved(r, g)  PROVE LogsTold'
    <3>1. /\ Local(r, g) /\ pending[r] # <<>> /\ live[r][g] \in Instance
          /\ live'[r][g] = Drained(live[r][g])
          /\ pending'[r] = Append(Tail(pending[r]), Req(g, "view", ViewFor(live[r][g], g)))
      BY <2>1, ContinueEffects
    <3>2. LogTold(live[r][g], events'[g], status') /\ g \in Messages /\ GameOf(g) = g
      BY <1>1, <3>1, MessageTypes
    <3>. QED  BY <1>3, <3>1, <3>2, ToldLocally
  <2>2. ASSUME NEW c \in Commands, CommandSaved(r, c)  PROVE LogsTold'
    <3>1. /\ Local(r, Target[c]) /\ pending[r] # <<>> /\ live[r][Target[c]] \in Instance /\ live' = live
          /\ pending'[r] = Append(Tail(pending[r]), Req(c, "view", ViewFor(live[r][Target[c]], c)))
      BY <2>2, ContinueEffects
    <3>2. Target[c] \in Games /\ c \in Messages /\ GameOf(c) = Target[c]
      BY MessageTypes
    <3>3. LogTold(live[r][Target[c]], events'[Target[c]], status')
      BY <1>1, <3>1, <3>2
    <3>. QED  BY <1>3, <3>1, <3>2, <3>3, ToldLocally
  <2>3. ASSUME NEW g \in Games, CreateViewed(r, g)  PROVE LogsTold'
    <3>1. Local(r, g) /\ pending[r] # <<>> /\ live' = live /\ pending'[r] = Tail(pending[r])
      BY <2>3, ContinueEffects
    <3>. QED  BY <1>2, <3>1, ToldLocally
  <2>4. ASSUME NEW c \in Commands, CommandViewed(r, c) \/ Loaded(r, c)  PROVE LogsTold'
    <3>1. /\ Local(r, Target[c]) /\ pending[r] # <<>> /\ pending'[r] = Tail(pending[r])
          /\ live'[r][Target[c]] = None \/ live'[r][Target[c]] = live[r][Target[c]]
          /\ Target[c] \in Games
      BY <2>4, ContinueEffects, MessageTypes
    <3>. QED  BY <1>2, <3>1, ToldLocally
  <2>. QED  BY <1>5, <2>1, <2>2, <2>3, <2>4 DEF Continue
<1>6. ASSUME NEW r \in Replicas, NEW m \in Messages, RequestFails(r, m)  PROVE LogsTold'
  <2>1. /\ Local(r, GameOf(m)) /\ pending[r] # <<>> /\ live' = live /\ pending'[r] = Tail(pending[r])
        /\ GameOf(m) \in Games
    BY <1>6, ContinueEffects, MessageTypes
  <2>. QED  BY <1>2, <2>1, ToldLocally
<1>7. ASSUME \A s \in Replicas : /\ pending'[s] = pending[s] \/ pending'[s] = <<>>
                                 /\ \A g \in Games : live'[s][g] = None \/ live'[s][g] = live[s][g]
      PROVE  LogsTold'
  <2>1. ASSUME NEW s \in Replicas, NEW i \in DOMAIN pending'[s]
        PROVE  RequestTold(pending'[s][i], events'[GameOf(pending'[s][i].msg)], status')
    <3>1. pending'[s] = pending[s]
      BY <1>7, <2>1
    <3>2. /\ pending[s][i] \in Request /\ ProperRequest(pending[s][i])
          /\ GameOf(pending[s][i].msg) \in Games
          /\ RequestTold(pending[s][i], events[GameOf(pending[s][i].msg)], status)
      BY <3>1, RequestMessages, MessageTypes DEF LogsTold, Proper
    <3>. QED  BY <3>1, <3>2, ToldStays
  <2>2. \A s \in Replicas, g \in Games : live'[s][g] # None => LogTold(live'[s][g], events'[g], status')
    BY <1>2, <1>7
  <2>. QED  BY <2>1, <2>2 DEF LogsTold
<1>8. ASSUME NEW r \in Replicas, Crash(r)  PROVE LogsTold'
  BY <1>7, <1>8, CrashEffects
<1>9. ASSUME pending' = pending, live' = live  PROVE LogsTold'
  BY <1>7, <1>9
<1>. QED  BY <1>4, <1>5, <1>6, <1>8, <1>9 DEF Next, Send, Deliver, vars

\* Redis holds what a request wrote.
Written(g, kind, value) ==
  \E r \in Replicas : \E k \in DOMAIN pending[r] :
    pending[r][k].kind = kind /\ GameOf(pending[r][k].msg) = g /\ pending[r][k].value = value

LEMMA StoreWrites ==
  ASSUME TypeOK, RemovedIsSilent, [Next]_vars, NEW g \in Games
  PROVE  /\ saved'[g] = saved[g] \/ Written(g, "save", saved'[g])
         /\ view'[g] = view[g] \/ Written(g, "view", view'[g])
<1>1. ASSUME NEW r \in Replicas, pending[r] # <<>>, NEW m \in Messages, pending[r][1].msg = m,
             NEW h \in Games, Local(r, h), GameOf(m) = h,
             \/ saved' = saved
             \/ pending[r][1].kind = "save" /\ saved'[h] = pending[r][1].value,
             \/ view' = view
             \/ pending[r][1].kind = "view" /\ view'[h] = pending[r][1].value
      PROVE  /\ saved'[g] = saved[g] \/ Written(g, "save", saved'[g])
             /\ view'[g] = view[g] \/ Written(g, "view", view'[g])
  <2>1. 1 \in DOMAIN pending[r]
    BY <1>1, HeadTypes
  <2>. QED  BY <1>1, <2>1 DEF Local, Written
<1>2. ASSUME NEW r \in Replicas, Continue(r)
      PROVE  /\ saved'[g] = saved[g] \/ Written(g, "save", saved'[g])
             /\ view'[g] = view[g] \/ Written(g, "view", view'[g])
  <2>1. ASSUME NEW h \in Games, CreateSaved(r, h) \/ CreateViewed(r, h)
        PROVE  /\ saved'[g] = saved[g] \/ Written(g, "save", saved'[g])
               /\ view'[g] = view[g] \/ Written(g, "view", view'[g])
    <3>1. /\ pending[r] # <<>> /\ pending[r][1].msg = h /\ Local(r, h)
          /\ \/ pending[r][1].kind = "save" /\ saved'[h] = pending[r][1].value /\ view' = view
             \/ pending[r][1].kind = "view" /\ view'[h] = pending[r][1].value /\ saved' = saved
      BY <2>1, ContinueEffects
    <3>. QED  BY <1>1, <3>1, MessageTypes
  <2>2. ASSUME NEW c \in Commands, CommandSaved(r, c) \/ CommandViewed(r, c)
        PROVE  /\ saved'[g] = saved[g] \/ Written(g, "save", saved'[g])
               /\ view'[g] = view[g] \/ Written(g, "view", view'[g])
    <3>1. /\ pending[r] # <<>> /\ pending[r][1].msg = c /\ Local(r, Target[c])
          /\ \/ pending[r][1].kind = "save" /\ saved'[Target[c]] = pending[r][1].value /\ view' = view
             \/ pending[r][1].kind = "view" /\ view'[Target[c]] = pending[r][1].value /\ saved' = saved
      BY <2>2, ContinueEffects
    <3>. QED  BY <1>1, <3>1, MessageTypes
  <2>. QED  BY <1>2, <2>1, <2>2 DEF Continue, Loaded
<1>3. ASSUME NEW r \in Replicas, Crash(r)
      PROVE  /\ saved'[g] = saved[g] \/ Written(g, "save", saved'[g])
             /\ view'[g] = view[g] \/ Written(g, "view", view'[g])
  BY <1>3, CrashEffects DEF Written
<1>4. \/ saved' = saved /\ view' = view
      \/ \E r \in Replicas : Continue(r) \/ Crash(r)
  BY ZenonT(40) DEF Next, vars, Send, Deliver, Begin, BeginCreate, BeginForeign, Refuse, BeginCommand, BeginLate,
         Take, RequestFails
<1>. QED  BY <1>2, <1>3, <1>4

LEMMA StoredStep ==
  ASSUME TypeOK, InHand, RemovedIsSilent, Proper, LogsTold, StoredWasAnnounced, [Next]_vars
  PROVE  StoredWasAnnounced'
<1> DEFINE SavedTold(s, es)    == \A c \in RangeOf(s.log) : Said(es, c)
           ViewTold(v, es, st) == \A c \in RangeOf(v.log) : st[c] = "rejected" \/ Said(es, c)
<1>1. /\ \A g \in Games : /\ saved[g] # None => SavedTold(saved[g], events[g])
                          /\ view[g] # None => ViewTold(view[g], events[g], status)
  BY DEF StoredWasAnnounced, Announced, Said
<1>2. \A s \in Snapshot : RangeOf(s.log) \subseteq Messages
  BY DEF RangeOf, Messages, Snapshot
<1>3. ASSUME NEW g \in Games
      PROVE  /\ saved'[g] # None => SavedTold(saved'[g], events'[g])
             /\ view'[g] # None => ViewTold(view'[g], events'[g], status')
  <2>1. /\ \A c : Said(events[g], c) => Said(events'[g], c)
        /\ \A c \in Messages : status[c] = "rejected" => status'[c] = "rejected"
    BY KnownStays
  <2>2. /\ saved[g] # None => SavedTold(saved[g], events'[g])
        /\ view[g] # None => ViewTold(view[g], events'[g], status')
    <3>1. saved[g] \in Snapshot \cup {None} /\ view[g] \in Snapshot \cup {None}
      BY DEF TypeOK
    <3>. QED  BY <1>1, <1>2, <2>1, <3>1
  <2>3. ASSUME NEW kind \in {"save", "view"}, NEW value, Written(g, kind, value)
        PROVE  /\ kind = "save" => SavedTold(value, events'[g])
               /\ kind = "view" => ViewTold(value, events'[g], status')
    <3>1. PICK r \in Replicas : \E k \in DOMAIN pending[r] :
            pending[r][k].kind = kind /\ GameOf(pending[r][k].msg) = g /\ pending[r][k].value = value
      BY <2>3 DEF Written
    <3>2. PICK k \in DOMAIN pending[r] :
            pending[r][k].kind = kind /\ GameOf(pending[r][k].msg) = g /\ pending[r][k].value = value
      BY <3>1
    <3>3. /\ pending[r][k] \in Request /\ ProperRequest(pending[r][k])
          /\ RequestTold(pending[r][k], events[g], status)
      BY <3>2, RequestMessages DEF LogsTold, Proper
    <3>4. RequestTold(pending[r][k], events'[g], status')
      BY <3>3, ToldStays
    <3>. QED  BY <3>2, <3>4 DEF RequestTold
  <2>. QED  BY <2>2, <2>3, StoreWrites
<1>. QED  BY <1>3 DEF StoredWasAnnounced, Announced, Said

-----------------------------------------------------------------------------
(* Events are numbered *)

\* A numbered event has every smaller number before it, and only those.
InOrder(es) ==
  \A i \in DOMAIN es : es[i].seq > 0 =>
    /\ \A v \in 1 .. es[i].seq - 1 : \E j \in 1 .. i - 1 : es[j].seq = v
    /\ \A j \in 1 .. i - 1 : es[j].seq < es[i].seq

Numbered(es, n) ==
  /\ InOrder(es)
  /\ \A v \in 1 .. n : \E j \in DOMAIN es : es[j].seq = v
  /\ \A j \in DOMAIN es : es[j].seq <= n

NumberedFrom(es, n) == \A k \in DOMAIN es : es[k].seq = n + k

\* How many events of a game were published: the next number, less those that
\* wait in its buffer.
Emitted(i) == NextSeq(i) - 1 - Len(i.buffer)

Counted(i, es) == Emitted(i) \in Nat /\ Numbered(es, Emitted(i)) /\ NumberedFrom(i.buffer, Emitted(i))

\* Without a crash the events published are numbered without a gap, and the
\* games in memory go on where they stop.
EventsCounted ==
  crashes = 0 => \A g \in Games :
    /\ InOrder(events[g])
    /\ status[g] \in {"unsent", "ready", "delivered"} => events[g] = <<>>
    /\ \A r \in Replicas : live[r][g] # None => Counted(live[r][g], events[g])

LEMMA SeqTypes == \A es \in Seq(Event) : \A k \in DOMAIN es : es[k].seq \in Nat
<1>1. \A es \in Seq(Event) : \A k \in DOMAIN es : es[k] \in Event
  OBVIOUS
<1>2. \A e \in Event : e.seq \in Nat
  BY DEF Event
<1>. QED  BY <1>1, <1>2

LEMMA NumberedConcat ==
  ASSUME NEW es \in Seq(Event), NEW b \in Seq(Event), NEW n \in Nat, Numbered(es, n), NumberedFrom(b, n)
  PROVE  Numbered(es \o b, n + Len(b))
<1> DEFINE all == es \o b
           p   == Len(es)
<1>1. /\ all \in Seq(Event) /\ p \in Nat /\ Len(b) \in Nat
      /\ DOMAIN es = 1 .. p /\ DOMAIN b = 1 .. Len(b) /\ DOMAIN all = 1 .. p + Len(b)
      /\ \A i \in DOMAIN es : all[i] = es[i]
      /\ \A k \in DOMAIN b : all[p + k] = b[k]
  BY ConcatFacts
<1>2. /\ \A k \in DOMAIN es : es[k].seq \in Nat
      /\ \A k \in DOMAIN all : all[k].seq \in Nat
  BY <1>1, SeqTypes
<1>3. /\ \A i \in 1 .. p : all[i].seq = es[i].seq /\ es[i].seq \in Nat /\ es[i].seq <= n
      /\ \A k \in 1 .. Len(b) : all[p + k].seq = n + k
  BY <1>1, <1>2 DEF Numbered, NumberedFrom
<1>4. \A i \in p + 1 .. p + Len(b) : all[i].seq = n + (i - p)
  <2>1. \A i \in p + 1 .. p + Len(b) : i - p \in 1 .. Len(b) /\ i = p + (i - p)
    BY <1>1
  <2>. QED  BY <1>3, <2>1
<1>5. \A v \in 1 .. n : \E j \in 1 .. p : all[j].seq = v
  BY <1>1, <1>3 DEF Numbered
<1>6. InOrder(es)
  BY DEF Numbered
<1> HIDE DEF all, p
<1>7. \A v \in n + 1 .. n + Len(b) : p + (v - n) \in p + 1 .. p + Len(b) /\ all[p + (v - n)].seq = v
  <2>1. \A v \in n + 1 .. n + Len(b) : v - n \in 1 .. Len(b) /\ n + (v - n) = v
    BY <1>1
  <2>2. \A k \in 1 .. Len(b) : p + k \in p + 1 .. p + Len(b)
    BY <1>1
  <2>. QED  BY <1>3, <2>1, <2>2
<1>8. InOrder(all)
  <2>1. ASSUME NEW i \in DOMAIN all, all[i].seq > 0
        PROVE  /\ \A v \in 1 .. all[i].seq - 1 : \E j \in 1 .. i - 1 : all[j].seq = v
               /\ \A j \in 1 .. i - 1 : all[j].seq < all[i].seq
    <3>1. CASE i \in 1 .. p
      <4>1. all[i].seq = es[i].seq /\ \A j \in 1 .. i - 1 : all[j].seq = es[j].seq
        BY <1>1, <1>3, <3>1
      <4>2. /\ \A v \in 1 .. es[i].seq - 1 : \E j \in 1 .. i - 1 : es[j].seq = v
            /\ \A j \in 1 .. i - 1 : es[j].seq < es[i].seq
        BY <1>1, <1>6, <2>1, <3>1, <4>1 DEF InOrder
      <4>. QED  BY <4>1, <4>2
    <3>2. CASE i \in p + 1 .. p + Len(b)
      <4>1. all[i].seq = n + (i - p) /\ i - p \in 1 .. Len(b)
        BY <1>1, <1>4, <3>2
      <4>2. ASSUME NEW j \in 1 .. i - 1  PROVE all[j].seq < all[i].seq
        <5>1. CASE j \in 1 .. p
          <6>1. all[j].seq \in Nat /\ all[j].seq <= n
            BY <1>3, <5>1
          <6>2. n < n + (i - p) /\ n + (i - p) \in Nat
            BY <1>1, <4>1
          <6>. QED  BY <4>1, <6>1, <6>2
        <5>2. CASE j \in p + 1 .. p + Len(b)
          BY <1>1, <1>4, <4>1, <5>2
        <5>. QED  BY <1>1, <3>2, <5>1, <5>2
      <4>3. ASSUME NEW v \in 1 .. all[i].seq - 1  PROVE \E j \in 1 .. i - 1 : all[j].seq = v
        <5>1. CASE v \in 1 .. n
          <6>1. PICK j \in 1 .. p : all[j].seq = v
            BY <1>5, <5>1
          <6>2. j \in 1 .. i - 1
            BY <1>1, <3>2
          <6>. QED  BY <6>1, <6>2
        <5>2. CASE v \in n + 1 .. n + Len(b)
          <6>1. all[p + (v - n)].seq = v
            BY <1>7, <5>2
          <6>2. p + (v - n) \in 1 .. i - 1
            BY <1>1, <3>2, <4>1, <5>2
          <6>. QED  BY <6>1, <6>2
        <5>. QED  BY <1>1, <4>1, <5>1, <5>2
      <4>. QED  BY <4>2, <4>3
    <3>. QED  BY <1>1, <3>1, <3>2
  <2>. QED  BY <2>1 DEF InOrder
<1>9. \A v \in 1 .. n + Len(b) : \E j \in DOMAIN all : all[j].seq = v
  <2>1. ASSUME NEW v \in 1 .. n + Len(b)  PROVE \E j \in DOMAIN all : all[j].seq = v
    <3>1. CASE v \in 1 .. n
      <4>1. 1 .. p \subseteq DOMAIN all
        BY <1>1
      <4>. QED  BY <1>5, <3>1, <4>1
    <3>2. CASE v \in n + 1 .. n + Len(b)
      <4>1. p + (v - n) \in DOMAIN all
        BY <1>1, <1>7, <3>2
      <4>. QED  BY <1>7, <3>2, <4>1
    <3>. QED  BY <1>1, <3>1, <3>2
  <2>. QED  BY <2>1
<1>10. \A j \in DOMAIN all : all[j].seq <= n + Len(b)
  <2>1. \A j \in DOMAIN all : j \in 1 .. p \/ j \in p + 1 .. p + Len(b)
    BY <1>1
  <2>2. \A j \in 1 .. p : all[j].seq <= n + Len(b)
    BY <1>1, <1>3
  <2>3. \A j \in p + 1 .. p + Len(b) : all[j].seq <= n + Len(b)
    BY <1>1, <1>4
  <2>. QED  BY <2>1, <2>2, <2>3
<1>11. Numbered(all, n + Len(b))
  BY <1>8, <1>9, <1>10 DEF Numbered
<1>. QED  BY <1>11 DEF all

\* An event of the engine itself has no number.
LEMMA NumberedQuiet ==
  ASSUME NEW es \in Seq(Event), NEW e \in Event, e.seq = 0, NEW n \in Nat, Numbered(es, n)
  PROVE  Numbered(es \o <<e>>, n)
<1> DEFINE all == es \o <<e>>
<1>1. <<e>> \in Seq(Event) /\ DOMAIN <<e>> = {1} /\ <<e>>[1] = e
  OBVIOUS
<1>2. /\ Len(es) \in Nat /\ DOMAIN es = 1 .. Len(es)
      /\ \A i \in DOMAIN all : i \in DOMAIN es \/ (i = Len(es) + 1 /\ all[i] = e)
      /\ \A i \in DOMAIN es : i \in DOMAIN all /\ all[i] = es[i]
  BY <1>1, ConcatElements
<1>3. \A k \in DOMAIN es : es[k].seq \in Nat
  BY SeqTypes
<1> HIDE DEF all
<1>4. InOrder(all)
  <2>1. ASSUME NEW i \in DOMAIN all, all[i].seq > 0
        PROVE  /\ \A v \in 1 .. all[i].seq - 1 : \E j \in 1 .. i - 1 : all[j].seq = v
               /\ \A j \in 1 .. i - 1 : all[j].seq < all[i].seq
    <3>1. i \in DOMAIN es /\ all[i] = es[i]
      BY <1>2, <2>1
    <3>2. \A j \in 1 .. i - 1 : all[j] = es[j]
      BY <1>2, <3>1
    <3>3. /\ \A v \in 1 .. es[i].seq - 1 : \E j \in 1 .. i - 1 : es[j].seq = v
          /\ \A j \in 1 .. i - 1 : es[j].seq < es[i].seq
      BY <2>1, <3>1 DEF Numbered, InOrder
    <3>. QED  BY <3>1, <3>2, <3>3
  <2>. QED  BY <2>1 DEF InOrder
<1>5. Numbered(all, n)
  BY <1>2, <1>3, <1>4 DEF Numbered
<1>. QED  BY <1>5 DEF all


LEMMA CountedFresh == Counted(Fresh, <<>>) /\ InOrder(<<>>)
<1>1. Fresh.buffer = <<>> /\ NextSeq(Fresh) = 1 /\ Emitted(Fresh) = 0
  BY DEF Fresh, NextSeq, Emitted
<1>. QED  BY <1>1 DEF Counted, Numbered, NumberedFrom, InOrder

LEMMA NextIsNat ==
  ASSUME NEW i \in Instance
  PROVE  /\ NextSeq(i) \in Nat
         /\ NextSeq(i) = IF i.endedBy = None THEN Len(i.log) + 1 ELSE Len(i.log) + 2
<1>1. i.log \in Seq(Commands)
  BY DEF Instance
<1>2. Len(i.log) \in Nat
  BY <1>1
<1>3. NextSeq(i) = IF i.endedBy = None THEN Len(i.log) + 1 ELSE Len(i.log) + 2
  BY DEF NextSeq
<1>. QED  BY <1>2, <1>3

LEMMA SeqTypesOf ==
  ASSUME NEW i \in Instance
  PROVE  i.log \in Seq(Commands) /\ i.buffer \in Seq(Event) /\ Len(i.log) \in Nat /\ Len(i.buffer) \in Nat
         /\ NextSeq(i) \in Nat /\ Emitted(i) = NextSeq(i) - 1 - Len(i.buffer)
<1>1. i.log \in Seq(Commands) /\ i.buffer \in Seq(Event)
  BY DEF Instance
<1>2. Len(i.log) \in Nat /\ Len(i.buffer) \in Nat
  BY <1>1
<1>3. NextSeq(i) \in Nat
  BY NextIsNat
<1>. QED  BY <1>1, <1>2, <1>3 DEF Emitted

LEMMA CountedDrained ==
  ASSUME NEW i \in Instance, NEW es \in Seq(Event), Counted(i, es)
  PROVE  Counted(Drained(i), es \o i.buffer) /\ InOrder(es \o i.buffer)
<1>1. /\ i.buffer \in Seq(Event) /\ Len(i.buffer) \in Nat /\ NextSeq(i) \in Nat
      /\ Emitted(i) = NextSeq(i) - 1 - Len(i.buffer)
  BY SeqTypesOf
<1>2. Numbered(es \o i.buffer, Emitted(i) + Len(i.buffer))
  BY <1>1, NumberedConcat DEF Counted
<1>3. NextSeq(Drained(i)) = NextSeq(i) /\ Drained(i).buffer = <<>>
  BY DEF NextSeq, Drained
<1>4. Emitted(Drained(i)) = Emitted(i) + Len(i.buffer) /\ Emitted(Drained(i)) \in Nat
  BY <1>1, <1>3 DEF Emitted, Counted
<1>5. NumberedFrom(Drained(i).buffer, Emitted(Drained(i)))
  BY <1>3 DEF NumberedFrom
<1>. QED  BY <1>2, <1>4, <1>5 DEF Counted, Numbered

\* The event that is appended to the buffer has the next number.
LEMMA NumberedMore ==
  ASSUME NEW b \in Seq(Event), NEW n \in Nat, NumberedFrom(b, n),
         NEW e \in Event, e.seq = n + Len(b) + 1
  PROVE  NumberedFrom(Append(b, e), n) /\ Len(Append(b, e)) = Len(b) + 1
<1>1. /\ Len(b) \in Nat /\ \A k \in DOMAIN Append(b, e) : k \in DOMAIN b \/ k = Len(b) + 1
      /\ \A k \in DOMAIN b : Append(b, e)[k] = b[k]
      /\ Append(b, e)[Len(b) + 1] = e
  BY AppendFacts
<1>2. NumberedFrom(Append(b, e), n)
  BY <1>1, SMTT(30) DEF NumberedFrom
<1>. QED  BY <1>2

LEMMA CountedExecuted ==
  ASSUME NEW i \in Instance, NEW c \in Commands, NEW es \in Seq(Event), Counted(i, es)
  PROVE  Counted(Execute(i, c), es) /\ (i.endedBy = None => Counted(ExecuteAndWin(i, c), es))
<1> DEFINE x == Execute(i, c)
           w == ExecuteAndWin(i, c)
           n == Emitted(i)
           a == GameEvent("applied", c, NextSeq(i))
           e == GameEvent("game-ended", c, NextSeq(i) + 1)
<1>1. /\ i.log \in Seq(Commands) /\ i.buffer \in Seq(Event) /\ Len(i.log) \in Nat /\ Len(i.buffer) \in Nat
      /\ NextSeq(i) \in Nat /\ n = NextSeq(i) - 1 - Len(i.buffer)
  BY SeqTypesOf
<1>2. /\ n \in Nat /\ Numbered(es, n) /\ NumberedFrom(i.buffer, n)
  BY DEF Counted
<1>3. /\ x.buffer = Append(i.buffer, a) /\ x.buffer \in Seq(Event) /\ a \in Event
      /\ w.buffer = Append(x.buffer, e) /\ e \in Event
  BY ExecutedBuffers
<1>4. a.seq = n + Len(i.buffer) + 1
  BY <1>1, <1>2 DEF GameEvent
<1>5. NumberedFrom(x.buffer, n) /\ Len(x.buffer) = Len(i.buffer) + 1
  BY <1>1, <1>2, <1>3, <1>4, NumberedMore
<1>6. /\ x.log = Append(i.log, c) /\ x.endedBy = i.endedBy /\ w.log = Append(i.log, c) /\ w.endedBy = c
      /\ Len(x.log) = Len(i.log) + 1 /\ Len(w.log) = Len(i.log) + 1 /\ c # None
  BY <1>1, EngineAssumption DEF Execute, ExecuteAndWin, Messages
<1>0. x \in Instance /\ w \in Instance
  BY InstanceTypes
<1>. HIDE DEF x, w, n, a, e
<1>11. \A y \in {i, x, w} : /\ y.endedBy = None => NextSeq(y) = Len(y.log) + 1
                            /\ y.endedBy # None => NextSeq(y) = Len(y.log) + 2
  BY <1>0, NextIsNat
<1>7. NextSeq(x) = NextSeq(i) + 1
  <2>1. CASE i.endedBy = None
    BY <1>1, <1>6, <1>11, <2>1
  <2>2. CASE i.endedBy # None
    BY <1>1, <1>6, <1>11, <2>2, SMTT(30)
  <2>. QED  BY <2>1, <2>2
<1>8. Emitted(x) = n
  <2>1. Emitted(x) = NextSeq(x) - 1 - Len(x.buffer)
    BY DEF Emitted
  <2>. QED  BY <1>1, <1>5, <1>7, <2>1, SMTT(30)
<1>9. Counted(x, es)
  BY <1>2, <1>5, <1>8 DEF Counted
<1>10. ASSUME i.endedBy = None  PROVE Counted(w, es)
  <2>1. e.seq = n + Len(x.buffer) + 1
    <3>1. e.seq = NextSeq(i) + 1
      BY DEF GameEvent, e
    <3>. QED  BY <1>1, <1>2, <1>5, <3>1
  <2>2. NumberedFrom(w.buffer, n) /\ Len(w.buffer) = Len(x.buffer) + 1
    BY <1>2, <1>3, <1>5, <2>1, NumberedMore
  <2>3. NextSeq(w) = NextSeq(i) + 2
    BY <1>1, <1>6, <1>10, <1>11
  <2>4. Emitted(w) = n
    <3>1. Emitted(w) = NextSeq(w) - 1 - Len(w.buffer)
      BY DEF Emitted
    <3>2. Len(w.buffer) = Len(i.buffer) + 2
      BY <1>1, <1>5, <2>2
    <3>. QED  BY <1>1, <2>3, <3>1, <3>2, SMTT(30)
  <2>. QED  BY <1>2, <2>2, <2>4 DEF Counted
<1>. QED  BY <1>9, <1>10 DEF x, w

LEMMA CountedQuiet ==
  ASSUME NEW i \in Instance, NEW es \in Seq(Event), Counted(i, es), NEW e \in Event, e.seq = 0
  PROVE  Counted(i, es \o <<e>>) /\ InOrder(es \o <<e>>)
<1>1. Numbered(es \o <<e>>, Emitted(i))
  BY NumberedQuiet DEF Counted
<1>. QED  BY <1>1 DEF Counted, Numbered

Early == {"unsent", "ready", "delivered"}

\* Without a crash a message that left the inboxes never comes back.
LEMMA EarlyStays ==
  ASSUME TypeOK, InHand, RemovedIsSilent, [Next]_vars, crashes' = crashes, NEW x \in Messages,
         status'[x] \in Early
  PROVE  status[x] \in Early
<1>1. ASSUME NEW r \in Replicas, NEW m \in Messages,
             Begun(r, m) \/ Declined(r, m) \/ Continued(r, m) \/ Finished(r, m)
      PROVE  status[x] \in Early
  <2>1. CASE x = m
    <3>1. status'[m] \notin {"handling", "acked", "rejected"}
      BY <2>1 DEF Early
    <3>2. Continued(r, m)
      BY <1>1, <3>1, KindFates
    <3>. QED  BY <2>1, <3>2 DEF Continued, broker
  <2>2. CASE x # m
    <3>1. status'[x] = status[x]
      BY <1>1, <2>2, KindFates
    <3>. QED  BY <3>1
  <2>. QED  BY <2>1, <2>2
<1>2. ASSUME NEW r \in Replicas, Begin(r) \/ Continue(r) \/ \E m \in Messages : RequestFails(r, m)
      PROVE  status[x] \in Early
  BY <1>1, <1>2, ActionKinds, MessageTypes DEF Begin, Continue
<1>3. ASSUME NEW r \in Replicas, Deliver(r)  PROVE status[x] \in Early
  <2>1. PICK i \in DOMAIN sent : /\ status[sent[i]] = "ready"
                                 /\ status' = [status EXCEPT ![sent[i]] = "delivered"]
    BY <1>3 DEF Deliver, DeliveredOnce, FirstReady
  <2>. QED  BY <2>1 DEF Early, TypeOK
<1>4. ASSUME NEW m \in Messages, Send(m)  PROVE status[x] \in Early
  BY <1>4 DEF Send, Early, TypeOK
<1>5. ASSUME NEW r \in Replicas, Crash(r)  PROVE FALSE
  BY <1>5 DEF Crash, TypeOK
<1>. QED  BY <1>2, <1>3, <1>4, <1>5 DEF Next, vars, broker

\* One game changes: its events not at all, or it is in memory where it does.
LEMMA CountedLocally ==
  ASSUME TypeOK, InHand, RemovedIsSilent, HomeOf, OneOwner, EventsCounted, [Next]_vars,
         NEW r \in Replicas, NEW g \in Games, Local(r, g),
         \/ /\ events'[g] = events[g]
            /\ live'[r][g] # None =>
                 live'[r][g] = live[r][g] \/ (crashes = 0 => Counted(live'[r][g], events[g]))
         \/ /\ live[r][g] # None
            /\ crashes = 0 => InOrder(events'[g])
            /\ crashes = 0 /\ live'[r][g] # None => Counted(live'[r][g], events'[g])
  PROVE  EventsCounted'
<1> SUFFICES ASSUME crashes = 0, NEW h \in Games
             PROVE  /\ InOrder(events'[h])
                    /\ status'[h] \in {"unsent", "ready", "delivered"} => events'[h] = <<>>
                    /\ \A s \in Replicas : live'[s][h] # None => Counted(live'[s][h], events'[h])
  BY DEF EventsCounted, Local
<1>1. /\ InOrder(events[h])
      /\ status[h] \in Early => events[h] = <<>>
      /\ \A s \in Replicas : live[s][h] # None => Counted(live[s][h], events[h])
  BY DEF EventsCounted, Early
<1>2. status'[h] \in Early => status[h] \in Early
  BY EarlyStays, MessageTypes DEF Local
<1>3. \A s \in Replicas \ {r} : live'[s] = live[s]
  BY DEF Local
<1>4. CASE h # g
  <2>1. events'[h] = events[h] /\ live'[r][h] = live[r][h]
    BY <1>4 DEF Local
  <2>2. \A s \in Replicas : live'[s][h] = live[s][h]
    BY <1>3, <2>1
  <2>. QED  BY <1>1, <1>2, <2>1, <2>2 DEF Early
<1>5. CASE h = g /\ events'[g] = events[g] /\ (live'[r][g] # None =>
             live'[r][g] = live[r][g] \/ Counted(live'[r][g], events[g]))
  <2>1. \A s \in Replicas : live'[s][h] # None => Counted(live'[s][h], events'[h])
    BY <1>1, <1>3, <1>5
  <2>. QED  BY <1>1, <1>2, <1>5, <2>1 DEF Early
<1>6. CASE h = g /\ live[r][g] # None /\ InOrder(events'[g])
           /\ (live'[r][g] # None => Counted(live'[r][g], events'[g]))
  <2>1. \A s \in Replicas \ {r} : live'[s][h] = None
    BY <1>3, <1>6 DEF OneOwner
  <2>2. status[h] \notin Early
    BY <1>6 DEF HomeOf, Early
  <2>. QED  BY <1>2, <1>6, <2>1, <2>2 DEF Early
<1>. QED  BY <1>4, <1>5, <1>6

LEMMA EventsCountedStep ==
  ASSUME TypeOK, InHand, RemovedIsSilent, HomeOf, OneOwner, EventsCounted, [Next]_vars
  PROVE  EventsCounted'
<1>1. \A r \in Replicas, g \in Games : live[r][g] # None =>
        /\ live[r][g] \in Instance /\ events[g] \in Seq(Event)
        /\ crashes = 0 => Counted(live[r][g], events[g])
  BY DEF EventsCounted, TypeOK
<1>2. ASSUME NEW r \in Replicas, Begin(r)  PROVE EventsCounted'
  <2>1. ASSUME NEW g \in Games, BeginCreate(r, g)  PROVE EventsCounted'
    <3>1. Local(r, g) /\ live'[r][g] = Fresh /\ events' = events
      BY <2>1, BeginEffects
    <3>2. status[g] = "delivered"
      BY <2>1, TakenInbox, MessageTypes DEF BeginCreate
    <3>3. crashes = 0 => events[g] = <<>>
      BY <3>2 DEF EventsCounted
    <3>. QED  BY <3>1, <3>3, CountedFresh, CountedLocally
  <2>2. ASSUME NEW c \in Commands, BeginForeign(r, c)  PROVE EventsCounted'
    <3>1. Local(r, Target[c]) /\ live' = live /\ events' = events /\ Target[c] \in Games
      BY <2>2, BeginEffects, MessageTypes
    <3>. QED  BY <3>1, CountedLocally
  <2>3. ASSUME NEW c \in Commands, Refuse(r, c)  PROVE EventsCounted'
    <3> DEFINE e == EngineEvent("error", c, None)
    <3>1. /\ Local(r, Target[c]) /\ live' = live /\ Target[c] \in Games
          /\ events'[Target[c]] = events[Target[c]] \o <<e>>
      BY <2>3, BeginEffects, MessageTypes
    <3>2. live[r][Target[c]] # None
      BY <2>3 DEF Refuse
    <3>3. e \in Event /\ e.seq = 0
      BY EventTypes DEF EngineEvent
    <3> HIDE DEF e
    <3>4. crashes = 0 => /\ Counted(live[r][Target[c]], events'[Target[c]])
                         /\ InOrder(events'[Target[c]])
      BY <1>1, <3>1, <3>2, <3>3, CountedQuiet
    <3>. QED  BY <3>1, <3>2, <3>4, CountedLocally
  <2>4. ASSUME NEW c \in Commands, BeginLate(r, c)  PROVE EventsCounted'
    <3>1. /\ Local(r, Target[c]) /\ live[r][Target[c]] # None /\ events' = events
          /\ live'[r][Target[c]] = Execute(live[r][Target[c]], c) /\ Target[c] \in Games
      BY <2>4, BeginEffects, MessageTypes
    <3>2. crashes = 0 => Counted(live'[r][Target[c]], events[Target[c]])
      BY <1>1, <3>1, CountedExecuted
    <3>. QED  BY <3>1, <3>2, CountedLocally
  <2>5. ASSUME NEW c \in Commands, BeginCommand(r, c)  PROVE EventsCounted'
    <3> DEFINE old == live[r][Target[c]]
               es  == events[Target[c]]
    <3>1. Local(r, Target[c]) /\ old \in Instance /\ old.endedBy = None /\ Target[c] \in Games
      BY <2>5, CommandEffects, MessageTypes
    <3>2. PICK i \in {Execute(old, c), ExecuteAndWin(old, c)} :
            i \in Instance /\ live'[r][Target[c]] = Drained(i) /\ events'[Target[c]] = es \o i.buffer
      BY <2>5, CommandEffects
    <3>3. old # None
      BY <3>1, NoneAssumption
    <3>4. es \in Seq(Event) /\ (crashes = 0 => Counted(old, es))
      BY <1>1, <3>1, <3>3
    <3>5. crashes = 0 => Counted(i, es)
      BY <3>1, <3>4, CountedExecuted
    <3>6. crashes = 0 => Counted(Drained(i), es \o i.buffer) /\ InOrder(es \o i.buffer)
      BY <3>2, <3>4, <3>5, CountedDrained
    <3>. QED  BY <3>1, <3>2, <3>3, <3>6, CountedLocally
  <2>. QED  BY <1>2, <2>1, <2>2, <2>3, <2>4, <2>5 DEF Begin
<1>3. ASSUME NEW r \in Replicas, Continue(r)  PROVE EventsCounted'
  <2>1. ASSUME NEW g \in Games, CreateSaved(r, g)  PROVE EventsCounted'
    <3>1. /\ Local(r, g) /\ live[r][g] \in Instance /\ live'[r][g] = Drained(live[r][g])
          /\ events'[g] = events[g] \o live[r][g].buffer
      BY <2>1, ContinueEffects
    <3>2. live[r][g] # None
      BY <3>1, NoneAssumption
    <3>3. crashes = 0 => Counted(live'[r][g], events'[g]) /\ InOrder(events'[g])
      BY <1>1, <3>1, <3>2, CountedDrained
    <3>. QED  BY <3>1, <3>2, <3>3, CountedLocally
  <2>2. ASSUME NEW g \in Games, CreateViewed(r, g)  PROVE EventsCounted'
    <3> DEFINE e == EngineEvent("game-started", None, pending[r][1].value)
    <3>1. /\ Local(r, g) /\ live[r][g] \in Instance /\ live' = live
          /\ events'[g] = events[g] \o <<e>>
      BY <2>2, ContinueEffects
    <3>2. live[r][g] # None
      BY <3>1, NoneAssumption
    <3>3. e \in Event /\ e.seq = 0
      <4>1. pending[r][1].value \in Snapshot \cup {None}
        BY <2>2, HeadTypes DEF CreateViewed, Answered
      <4>. QED  BY <4>1, EventTypes DEF EngineEvent
    <3> HIDE DEF e
    <3>4. crashes = 0 => Counted(live[r][g], events'[g]) /\ InOrder(events'[g])
      BY <1>1, <3>1, <3>2, <3>3, CountedQuiet
    <3>. QED  BY <3>1, <3>2, <3>4, CountedLocally
  <2>3. ASSUME NEW c \in Commands, CommandSaved(r, c) \/ CommandViewed(r, c) \/ Loaded(r, c)
        PROVE  EventsCounted'
    <3>1. /\ Local(r, Target[c]) /\ events' = events /\ Target[c] \in Games
          /\ live'[r][Target[c]] = None \/ live'[r][Target[c]] = live[r][Target[c]]
      BY <2>3, ContinueEffects, MessageTypes
    <3>. QED  BY <3>1, CountedLocally
  <2>. QED  BY <1>3, <2>1, <2>2, <2>3 DEF Continue
<1>4. ASSUME NEW r \in Replicas, NEW m \in Messages, RequestFails(r, m)  PROVE EventsCounted'
  <2>1. Local(r, GameOf(m)) /\ events' = events /\ live' = live /\ GameOf(m) \in Games
    BY <1>4, ContinueEffects, MessageTypes
  <2>. QED  BY <2>1, CountedLocally
<1>5. ASSUME NEW r \in Replicas, Crash(r)  PROVE EventsCounted'
  <2>1. crashes' # 0
    BY <1>5, CrashEffects DEF TypeOK
  <2>. QED  BY <2>1 DEF EventsCounted
<1>6. ASSUME events' = events, live' = live, crashes' = crashes  PROVE EventsCounted'
  <2>1. \A h \in Games : status'[h] \in Early => status[h] \in Early
    BY <1>6, EarlyStays, MessageTypes
  <2>. QED  BY <1>6, <2>1 DEF EventsCounted, Early
<1>. QED  BY <1>2, <1>3, <1>4, <1>5, <1>6 DEF Next, Send, Deliver, vars

-----------------------------------------------------------------------------
(* Redis catches up *)

Writes(q, g, kind)       == q.kind = kind /\ GameOf(q.msg) = g
NoWrite(queue, g, kind)  == \A j \in DOMAIN queue : ~ Writes(queue[j], g, kind)

\* When the queue is answered the value stored for g is s: it is what the last
\* request of the kind writes or, if there is none, what is stored now.
Reaches(queue, g, kind, s, stored) ==
  \/ NoWrite(queue, g, kind) /\ stored = s
  \/ \E k \in DOMAIN queue :
       /\ Writes(queue[k], g, kind) /\ queue[k].value = s
       /\ \A j \in DOMAIN queue : Writes(queue[j], g, kind) => j <= k

\* The command e that won waits for an answer, and writes its verdict: into
\* the state first, then into the view.
WinnerWaits(queue, e, stored) ==
  \E k \in DOMAIN queue :
    /\ queue[k].msg = e /\ queue[k].kind # "load" /\ queue[k].value.endedBy = e
    /\ queue[k].kind = "view" => stored # None /\ stored.endedBy = e

\* The handlers under way will bring state and view up to the game i in memory.
Fits(queue, g, i, state, shown) ==
  IF i.endedBy = None
  THEN /\ Reaches(queue, g, "save", SnapshotOf(i), state)
       /\ NoWrite(queue, g, "save") => Reaches(queue, g, "view", SnapshotOf(i), shown)
  ELSE WinnerWaits(queue, i.endedBy, state)

UpToDate ==
  failures = 0 => \A g \in Games :
    /\ \A r \in Replicas : live[r][g] # None => Fits(pending[r], g, live[r][g], saved[g], view[g])
    /\ crashes = 0 /\ saved[g] # None /\ (\A r \in Replicas : live[r][g] = None) =>
         view[g] # None /\ view[g].endedBy = saved[g].endedBy

LEMMA ReachesAppended ==
  ASSUME NEW queue \in Seq(Request), NEW q \in Request, NEW g, NEW kind, NEW s
  PROVE  /\ Writes(q, g, kind) /\ q.value = s =>
              /\ ~ NoWrite(Append(queue, q), g, kind)
              /\ \A stored : Reaches(Append(queue, q), g, kind, s, stored)
         /\ ~ Writes(q, g, kind) =>
              /\ NoWrite(Append(queue, q), g, kind) <=> NoWrite(queue, g, kind)
              /\ \A stored : Reaches(queue, g, kind, s, stored)
                               => Reaches(Append(queue, q), g, kind, s, stored)
<1> DEFINE longer == Append(queue, q)
<1>1. /\ Len(queue) \in Nat
      /\ \A i \in DOMAIN longer : i \in Nat /\ (i \in DOMAIN queue \/ i = Len(queue) + 1)
      /\ \A i \in DOMAIN queue : i \in DOMAIN longer /\ longer[i] = queue[i] /\ i < Len(queue) + 1
      /\ Len(queue) + 1 \in DOMAIN longer /\ longer[Len(queue) + 1] = q
  BY AppendFacts
<1> HIDE DEF longer
<1>2. ASSUME Writes(q, g, kind), q.value = s
      PROVE  ~ NoWrite(longer, g, kind) /\ \A stored : Reaches(longer, g, kind, s, stored)
  <2>1. \A j \in DOMAIN longer : j <= Len(queue) + 1
    BY <1>1
  <2>2. \E k \in DOMAIN longer : /\ Writes(longer[k], g, kind) /\ longer[k].value = s
                                 /\ \A j \in DOMAIN longer : Writes(longer[j], g, kind) => j <= k
    BY <1>1, <1>2, <2>1
  <2>. QED  BY <2>2 DEF NoWrite, Reaches
<1>3. ASSUME ~ Writes(q, g, kind)
      PROVE  /\ NoWrite(longer, g, kind) <=> NoWrite(queue, g, kind)
             /\ \A stored : Reaches(queue, g, kind, s, stored) => Reaches(longer, g, kind, s, stored)
  <2>1. NoWrite(longer, g, kind) <=> NoWrite(queue, g, kind)
    BY <1>1, <1>3 DEF NoWrite
  <2>2. ASSUME NEW k \in DOMAIN queue, Writes(queue[k], g, kind), queue[k].value = s,
               \A j \in DOMAIN queue : Writes(queue[j], g, kind) => j <= k
        PROVE  \A stored : Reaches(longer, g, kind, s, stored)
    <3>1. k \in DOMAIN longer /\ longer[k] = queue[k]
      BY <1>1
    <3>2. \A j \in DOMAIN longer : Writes(longer[j], g, kind) => j <= k
      BY <1>1, <1>3, <2>2
    <3>. QED  BY <2>2, <3>1, <3>2 DEF Reaches
  <2>. QED  BY <2>1, <2>2 DEF Reaches
<1>. QED  BY <1>2, <1>3 DEF longer

\* The oldest request is answered: what it writes is stored.
LEMMA ReachesTail ==
  ASSUME NEW queue \in Seq(Request), queue # <<>>, NEW g, NEW kind, NEW s
  PROVE  /\ NoWrite(queue, g, kind) => NoWrite(Tail(queue), g, kind)
         /\ ~ Writes(queue[1], g, kind) =>
              /\ NoWrite(Tail(queue), g, kind) => NoWrite(queue, g, kind)
              /\ \A stored : Reaches(queue, g, kind, s, stored) => Reaches(Tail(queue), g, kind, s, stored)
         /\ Writes(queue[1], g, kind) => \A stored :
              Reaches(queue, g, kind, s, stored) => Reaches(Tail(queue), g, kind, s, queue[1].value)
<1> DEFINE rest == Tail(queue)
<1>1. /\ 1 \in DOMAIN queue
      /\ \A i \in DOMAIN rest : i \in Nat \ {0} /\ i + 1 \in DOMAIN queue /\ rest[i] = queue[i + 1]
      /\ \A i \in DOMAIN queue \ {1} : i \in Nat /\ i - 1 \in DOMAIN rest /\ rest[i - 1] = queue[i]
  BY TailFacts, StillThere
<1> HIDE DEF rest
<1>2. NoWrite(queue, g, kind) => NoWrite(rest, g, kind)
  BY <1>1 DEF NoWrite
<1>3. ASSUME ~ Writes(queue[1], g, kind)
      PROVE  NoWrite(rest, g, kind) => NoWrite(queue, g, kind)
  BY <1>1, <1>3 DEF NoWrite
<1>4. ASSUME NEW k \in DOMAIN queue, k # 1, Writes(queue[k], g, kind), queue[k].value = s,
             \A j \in DOMAIN queue : Writes(queue[j], g, kind) => j <= k
      PROVE  \A stored : Reaches(rest, g, kind, s, stored)
  <2>1. k - 1 \in DOMAIN rest /\ rest[k - 1] = queue[k] /\ k \in Nat
    BY <1>1, <1>4
  <2>2. \A j \in DOMAIN rest : Writes(rest[j], g, kind) => j <= k - 1
    <3>1. \A j \in DOMAIN rest : Writes(rest[j], g, kind) => j + 1 <= k
      BY <1>1, <1>4
    <3>. QED  BY <1>1, <2>1, <3>1
  <2>. QED  BY <1>4, <2>1, <2>2 DEF Reaches
<1>5. ASSUME Writes(queue[1], g, kind), queue[1].value = s,
             \A j \in DOMAIN queue : Writes(queue[j], g, kind) => j <= 1
      PROVE  Reaches(rest, g, kind, s, queue[1].value)
  <2>1. \A j \in DOMAIN rest : j + 1 \in DOMAIN queue /\ ~ (j + 1 <= 1) /\ rest[j] = queue[j + 1]
    BY <1>1
  <2>2. NoWrite(rest, g, kind)
    BY <1>5, <2>1 DEF NoWrite
  <2>. QED  BY <1>5, <2>2 DEF Reaches
<1>6. ASSUME ~ Writes(queue[1], g, kind), NEW stored, Reaches(queue, g, kind, s, stored)
      PROVE  Reaches(rest, g, kind, s, stored)
  BY <1>2, <1>4, <1>6 DEF Reaches
<1>7. ASSUME Writes(queue[1], g, kind), NEW stored, Reaches(queue, g, kind, s, stored)
      PROVE  Reaches(rest, g, kind, s, queue[1].value)
  <2>1. ~ NoWrite(queue, g, kind)
    BY <1>1, <1>7 DEF NoWrite
  <2>2. PICK k \in DOMAIN queue : /\ Writes(queue[k], g, kind) /\ queue[k].value = s
                                  /\ \A j \in DOMAIN queue : Writes(queue[j], g, kind) => j <= k
    BY <1>7, <2>1 DEF Reaches
  <2>. QED  BY <1>4, <1>5, <2>2
<1>. QED  BY <1>2, <1>3, <1>6, <1>7 DEF rest

LEMMA WinnerWaitsOn ==
  ASSUME NEW queue \in Seq(Request), NEW e, NEW stored, WinnerWaits(queue, e, stored)
  PROVE  /\ \A q \in Request : WinnerWaits(Append(queue, q), e, stored)
         /\ queue # <<>> /\ queue[1].msg # e => WinnerWaits(Tail(queue), e, stored)
<1>1. PICK k \in DOMAIN queue :
        /\ queue[k].msg = e /\ queue[k].kind # "load" /\ queue[k].value.endedBy = e
        /\ queue[k].kind = "view" => stored # None /\ stored.endedBy = e
  BY DEF WinnerWaits
<1>2. \A q \in Request : k \in DOMAIN Append(queue, q) /\ Append(queue, q)[k] = queue[k]
  BY StillThere
<1>3. queue # <<>> /\ queue[1].msg # e => k - 1 \in DOMAIN Tail(queue) /\ Tail(queue)[k - 1] = queue[k]
  BY <1>1, StillThere
<1>. QED  BY <1>1, <1>2, <1>3 DEF WinnerWaits

\* Requests of another game make no difference.
LEMMA FitsElsewhere ==
  ASSUME NEW queue \in Seq(Request), NEW h \in Games, NEW i, NEW state, NEW shown,
         i.endedBy # None => i.endedBy \in Commands /\ Target[i.endedBy] = h,
         Fits(queue, h, i, state, shown)
  PROVE  /\ \A q \in Request : GameOf(q.msg) # h => Fits(Append(queue, q), h, i, state, shown)
         /\ queue # <<>> /\ GameOf(queue[1].msg) # h => Fits(Tail(queue), h, i, state, shown)
<1> DEFINE e == i.endedBy
           s == SnapshotOf(i)
<1>1. i.endedBy # None => GameOf(e) = h
  BY MessageTypes
<1>2. \A q : GameOf(q.msg) # h => ~ Writes(q, h, "save") /\ ~ Writes(q, h, "view")
  BY DEF Writes
<1>3. ASSUME NEW q \in Request, GameOf(q.msg) # h  PROVE Fits(Append(queue, q), h, i, state, shown)
  <2>1. CASE e = None
    <3>1. /\ Reaches(queue, h, "save", s, state)
          /\ NoWrite(queue, h, "save") => Reaches(queue, h, "view", s, shown)
      BY <2>1 DEF Fits
    <3>2. ~ Writes(q, h, "save") /\ ~ Writes(q, h, "view")
      BY <1>2, <1>3
    <3> HIDE DEF s
    <3>3. /\ Reaches(Append(queue, q), h, "save", s, state)
          /\ NoWrite(Append(queue, q), h, "save") => Reaches(Append(queue, q), h, "view", s, shown)
      BY <3>1, <3>2, ReachesAppended
    <3>. QED  BY <2>1, <3>3 DEF Fits, s
  <2>2. CASE e # None
    BY <2>2, WinnerWaitsOn DEF Fits
  <2>. QED  BY <2>1, <2>2
<1>4. ASSUME queue # <<>>, GameOf(queue[1].msg) # h  PROVE Fits(Tail(queue), h, i, state, shown)
  <2>1. CASE e = None
    <3>1. /\ Reaches(queue, h, "save", s, state)
          /\ NoWrite(queue, h, "save") => Reaches(queue, h, "view", s, shown)
      BY <2>1 DEF Fits
    <3>2. ~ Writes(queue[1], h, "save") /\ ~ Writes(queue[1], h, "view")
      BY <1>2, <1>4
    <3> HIDE DEF s
    <3>3. /\ Reaches(Tail(queue), h, "save", s, state)
          /\ NoWrite(Tail(queue), h, "save") => Reaches(Tail(queue), h, "view", s, shown)
      BY <1>4, <3>1, <3>2, ReachesTail
    <3>. QED  BY <2>1, <3>3 DEF Fits, s
  <2>2. CASE e # None
    BY <1>1, <1>4, <2>2, WinnerWaitsOn DEF Fits
  <2>. QED  BY <2>1, <2>2
<1>. QED  BY <1>3, <1>4

\* A game under way: a handler saves it, saved it, or stored its view.
LEMMA FitsUnderWay ==
  ASSUME NEW queue \in Seq(Request), NEW g \in Games, NEW i, i.endedBy = None, NEW state, NEW shown,
         NEW m \in Messages, GameOf(m) = g, SnapshotOf(i) \in Snapshot
  PROVE  /\ Fits(Append(queue, Req(m, "save", SnapshotOf(i))), g, i, state, shown)
         /\ Fits(queue, g, i, state, shown) =>
              /\ queue # <<>> /\ queue[1].kind = "save" /\ GameOf(queue[1].msg) = g =>
                   Fits(Append(Tail(queue), Req(m, "view", SnapshotOf(i))), g, i, queue[1].value, shown)
              /\ queue # <<>> /\ queue[1].kind = "view" /\ GameOf(queue[1].msg) = g =>
                   Fits(Tail(queue), g, i, state, queue[1].value)
<1> DEFINE s == SnapshotOf(i)
           save == Req(m, "save", s)
           show == Req(m, "view", s)
<1>1. save \in Request /\ show \in Request
  BY ProperValues
<1>2. /\ Writes(save, g, "save") /\ save.value = s
      /\ Writes(show, g, "view") /\ show.value = s /\ ~ Writes(show, g, "save")
  BY DEF Writes, Req
<1> HIDE DEF save, show, s
<1>3. Fits(Append(queue, save), g, i, state, shown)
  BY <1>1, <1>2, ReachesAppended DEF Fits, s
<1>4. ASSUME Fits(queue, g, i, state, shown), queue # <<>>, queue[1].kind = "save", GameOf(queue[1].msg) = g
      PROVE  Fits(Append(Tail(queue), show), g, i, queue[1].value, shown)
  <2>1. Reaches(queue, g, "save", s, state) /\ Writes(queue[1], g, "save") /\ Tail(queue) \in Seq(Request)
    BY <1>4, TailFacts DEF Fits, s, Writes
  <2>2. Reaches(Tail(queue), g, "save", s, queue[1].value)
    BY <1>4, <2>1, ReachesTail
  <2>3. Reaches(Append(Tail(queue), show), g, "save", s, queue[1].value)
    BY <1>1, <1>2, <2>1, <2>2, ReachesAppended
  <2>4. Reaches(Append(Tail(queue), show), g, "view", s, shown)
    BY <1>1, <1>2, <2>1, ReachesAppended
  <2>. QED  BY <2>3, <2>4 DEF Fits, s
<1>5. ASSUME Fits(queue, g, i, state, shown), queue # <<>>, queue[1].kind = "view", GameOf(queue[1].msg) = g
      PROVE  Fits(Tail(queue), g, i, state, queue[1].value)
  <2>1. /\ Reaches(queue, g, "save", s, state)
        /\ NoWrite(queue, g, "save") => Reaches(queue, g, "view", s, shown)
        /\ Writes(queue[1], g, "view") /\ ~ Writes(queue[1], g, "save")
    BY <1>5 DEF Fits, s, Writes
  <2>2. /\ Reaches(Tail(queue), g, "save", s, state)
        /\ NoWrite(Tail(queue), g, "save") => Reaches(Tail(queue), g, "view", s, queue[1].value)
    BY <1>5, <2>1, ReachesTail
  <2>. QED  BY <2>2 DEF Fits, s
<1>. QED  BY <1>3, <1>4, <1>5 DEF s, save, show

\* A game that was won: the handlers of earlier commands go on, and so does
\* the winner's.
LEMMA WinnerAfterSave ==
  ASSUME NEW queue \in Seq(Request), queue # <<>>, NEW g, NEW e, NEW stored,
         WinnerWaits(queue, e, stored), LastIn(queue, g, e),
         queue[1].kind = "save", GameOf(queue[1].msg) = g, queue[1].value # None,
         \A i, j \in DOMAIN queue : queue[i].msg = queue[j].msg => i = j,
         NEW q \in Request, q.msg = queue[1].msg, q.kind = "view",
         q.msg = e => q.value.endedBy = e
  PROVE  WinnerWaits(Append(Tail(queue), q), e, queue[1].value)
<1>1. PICK k \in DOMAIN queue :
        /\ queue[k].msg = e /\ queue[k].kind # "load" /\ queue[k].value.endedBy = e
        /\ queue[k].kind = "view" => stored # None /\ stored.endedBy = e
  BY DEF WinnerWaits
<1>2. Tail(queue) \in Seq(Request) /\ 1 \in DOMAIN queue
  BY TailFacts
<1>3. CASE k = 1
  <2>1. /\ Len(Tail(queue)) + 1 \in DOMAIN Append(Tail(queue), q)
        /\ Append(Tail(queue), q)[Len(Tail(queue)) + 1] = q
    BY <1>2, StillThere
  <2>2. queue[1].value.endedBy = e /\ q.msg = e /\ q.value.endedBy = e
    BY <1>1, <1>3
  <2>. QED  BY <2>1, <2>2 DEF WinnerWaits
<1>4. CASE k # 1
  <2>1. k - 1 \in DOMAIN Tail(queue) /\ Tail(queue)[k - 1] = queue[k]
    BY <1>1, <1>4, StillThere
  <2>2. k - 1 \in DOMAIN Append(Tail(queue), q) /\ Append(Tail(queue), q)[k - 1] = queue[k]
    BY <1>2, <2>1, StillThere
  <2>3. queue[k].kind # "view"
    BY <1>1, <1>2, <1>4 DEF LastIn
  <2>. QED  BY <1>1, <2>2, <2>3 DEF WinnerWaits
<1>. QED  BY <1>3, <1>4

\* A queue is pushed to, popped, or both, for a game.
Moves(queue, queue2, g) ==
  \/ queue2 = queue
  \/ \E q \in Request : GameOf(q.msg) = g /\ queue2 = Append(queue, q)
  \/ queue # <<>> /\ GameOf(queue[1].msg) = g /\ queue2 = Tail(queue)
  \/ /\ queue # <<>> /\ GameOf(queue[1].msg) = g
     /\ \E q \in Request : GameOf(q.msg) = g /\ queue2 = Append(Tail(queue), q)

\* One game changes on one replica, and is in memory there if it is stored.
LEMMA UpToDateLocally ==
  ASSUME TypeOK, WinnerLast, OneOwner, UpToDate, failures' = 0 => failures = 0,
         NEW r \in Replicas, NEW g \in Games, Local(r, g), Moves(pending[r], pending'[r], g),
         (saved'[g] = saved[g] /\ view'[g] = view[g]) \/ live[r][g] # None,
         failures = 0 /\ live'[r][g] # None => Fits(pending'[r], g, live'[r][g], saved'[g], view'[g]),
         failures = 0 /\ crashes = 0 /\ saved'[g] # None /\ live'[r][g] = None
           /\ (\A s \in Replicas \ {r} : live[s][g] = None) =>
             view'[g] # None /\ view'[g].endedBy = saved'[g].endedBy
  PROVE  UpToDate'
<1> SUFFICES ASSUME failures = 0
             PROVE  \A h \in Games :
                      /\ \A s \in Replicas : live'[s][h] # None =>
                           Fits(pending'[s], h, live'[s][h], saved'[h], view'[h])
                      /\ crashes' = 0 /\ saved'[h] # None /\ (\A s \in Replicas : live'[s][h] = None) =>
                           view'[h] # None /\ view'[h].endedBy = saved'[h].endedBy
  BY DEF UpToDate
<1>1. \A h \in Games :
        /\ \A s \in Replicas : live[s][h] # None => Fits(pending[s], h, live[s][h], saved[h], view[h])
        /\ crashes = 0 /\ saved[h] # None /\ (\A s \in Replicas : live[s][h] = None) =>
             view[h] # None /\ view[h].endedBy = saved[h].endedBy
  BY DEF UpToDate
<1>2. ASSUME NEW s \in Replicas \ {r}
      PROVE  pending'[s] = pending[s] /\ live'[s] = live[s]
  BY DEF Local
<1>3. /\ \A h \in Games \ {g} : live'[r][h] = live[r][h] /\ saved'[h] = saved[h] /\ view'[h] = view[h]
      /\ crashes' = crashes
  BY DEF Local
<1>4. ASSUME NEW h \in Games, NEW s \in Replicas, live'[s][h] # None
      PROVE  Fits(pending'[s], h, live'[s][h], saved'[h], view'[h])
  <2>1. CASE s = r /\ h = g
    BY <1>4, <2>1
  <2>2. CASE s = r /\ h # g
    <3> DEFINE i == live[r][h]
    <3>1. /\ i # None /\ live'[r][h] = i /\ saved'[h] = saved[h] /\ view'[h] = view[h]
          /\ Fits(pending[r], h, i, saved[h], view[h])
      BY <1>1, <1>3, <1>4, <2>2
    <3>2. i.endedBy # None => i.endedBy \in Commands /\ Target[i.endedBy] = h
      <4>1. i \in Instance
        BY <3>1 DEF TypeOK
      <4>2. i.endedBy \in Commands \cup {None}
        BY <4>1 DEF Instance
      <4>. QED  BY <3>1, <4>2 DEF WinnerLast
    <3>3. pending[r] \in Seq(Request)
      BY DEF TypeOK
    <3> HIDE DEF i
    <3>4. \A q \in Request : GameOf(q.msg) = g =>
            Fits(Append(pending[r], q), h, i, saved[h], view[h])
      BY <2>2, <3>1, <3>2, <3>3, FitsElsewhere
    <3>5. ASSUME pending[r] # <<>>, GameOf(pending[r][1].msg) = g
          PROVE  /\ Fits(Tail(pending[r]), h, i, saved[h], view[h])
                 /\ \A q \in Request : GameOf(q.msg) = g =>
                      Fits(Append(Tail(pending[r]), q), h, i, saved[h], view[h])
      <4>1. Fits(Tail(pending[r]), h, i, saved[h], view[h])
        BY <2>2, <3>1, <3>2, <3>3, <3>5, FitsElsewhere
      <4>2. Tail(pending[r]) \in Seq(Request)
        BY <3>3, <3>5, TailFacts
      <4>. QED  BY <2>2, <3>2, <4>1, <4>2, FitsElsewhere
    <3>. QED  BY <2>2, <3>1, <3>4, <3>5 DEF Moves
  <2>3. CASE s # r /\ h = g
    <3>1. live[s][g] # None /\ pending'[s] = pending[s] /\ live'[s] = live[s]
      BY <1>2, <1>4, <2>3
    <3>2. live[r][g] = None
      BY <2>3, <3>1 DEF OneOwner
    <3>. QED  BY <1>1, <2>3, <3>1, <3>2
  <2>4. CASE s # r /\ h # g
    BY <1>1, <1>2, <1>3, <1>4, <2>4
  <2>. QED  BY <2>1, <2>2, <2>3, <2>4
<1>5. ASSUME NEW h \in Games, crashes' = 0, saved'[h] # None, \A s \in Replicas : live'[s][h] = None
      PROVE  view'[h] # None /\ view'[h].endedBy = saved'[h].endedBy
  <2>1. CASE h = g
    <3>1. \A s \in Replicas \ {r} : live[s][g] = None
      BY <1>2, <1>5, <2>1
    <3>. QED  BY <1>3, <1>5, <2>1, <3>1
  <2>2. CASE h # g
    <3>1. \A s \in Replicas : live[s][h] = None
      BY <1>2, <1>3, <1>5, <2>2
    <3>. QED  BY <1>1, <1>3, <1>5, <2>2, <3>1
  <2>. QED  BY <2>1, <2>2
<1>. QED  BY <1>4, <1>5

LEMMA UpToDateInMemory ==
  ASSUME TypeOK, InHand, WinnerLast, Proper, UpToDate, failures = 0,
         NEW r \in Replicas, NEW g \in Games, live[r][g] # None
  PROVE  /\ live[r][g] \in Instance /\ SnapshotOf(live[r][g]) \in Snapshot
         /\ Fits(pending[r], g, live[r][g], saved[g], view[g])
         /\ pending[r] \in Seq(Request)
         /\ \A i, j \in DOMAIN pending[r] : pending[r][i].msg = pending[r][j].msg => i = j
         /\ \A i \in DOMAIN pending[r] : ProperRequest(pending[r][i])
         /\ live[r][g].endedBy # None =>
              /\ live[r][g].endedBy \in Commands /\ live[r][g].endedBy \notin Games
              /\ LastIn(pending[r], g, live[r][g].endedBy)
<1>1. live[r][g] \in Instance
  BY DEF TypeOK
<1>2. live[r][g].endedBy \in Commands \cup {None}
  BY <1>1 DEF Instance
<1>3. live[r][g].endedBy # None =>
              /\ live[r][g].endedBy \in Commands /\ live[r][g].endedBy \notin Games
              /\ LastIn(pending[r], g, live[r][g].endedBy)
  BY <1>2, EngineAssumption DEF WinnerLast
<1>4. \A i, j \in DOMAIN pending[r] : pending[r][i].msg = pending[r][j].msg => i = j
  BY DEF InHand
<1>. QED  BY <1>1, <1>3, <1>4, InstanceTypes DEF UpToDate, TypeOK, Proper

\* What the answer to a save, a view and a load leave of a game in memory.
LEMMA FitsAnswered ==
  ASSUME TypeOK, InHand, WinnerLast, Proper, UpToDate, failures = 0,
         NEW r \in Replicas, NEW g \in Games, live[r][g] # None,
         pending[r] # <<>>, NEW m \in Messages, pending[r][1].msg = m, GameOf(m) = g
  PROVE  /\ pending[r][1].kind = "save" => \A new \in {live[r][g], Drained(live[r][g])} :
              Fits(Append(Tail(pending[r]), Req(m, "view", ViewFor(live[r][g], m))), g, new,
                   pending[r][1].value, view[g])
         /\ pending[r][1].kind = "view" /\ live[r][g].endedBy # m =>
              Fits(Tail(pending[r]), g, live[r][g], saved[g], pending[r][1].value)
         /\ pending[r][1].kind = "view" /\ live[r][g].endedBy = m =>
              /\ saved[g] # None /\ saved[g].endedBy = m
              /\ pending[r][1].value # None /\ pending[r][1].value.endedBy = m
         /\ pending[r][1].kind = "load" => Fits(Tail(pending[r]), g, live[r][g], saved[g], view[g])
<1> DEFINE i == live[r][g]
           queue == pending[r]
           head == queue[1]
           q == Req(m, "view", ViewFor(i, m))
<1>1. /\ i \in Instance /\ SnapshotOf(i) \in Snapshot /\ Fits(queue, g, i, saved[g], view[g])
      /\ queue \in Seq(Request)
      /\ \A j, k \in DOMAIN queue : queue[j].msg = queue[k].msg => j = k
      /\ \A k \in DOMAIN queue : ProperRequest(queue[k])
      /\ i.endedBy # None => i.endedBy \in Commands /\ i.endedBy \notin Games /\ LastIn(queue, g, i.endedBy)
  BY UpToDateInMemory
<1>2. 1 \in DOMAIN queue /\ (head.kind # "load" => head.value # None) /\ m # None
  BY <1>1, TailFacts, EngineAssumption DEF ProperRequest
<1>3. /\ Drained(i).endedBy = i.endedBy /\ SnapshotOf(Drained(i)) = SnapshotOf(i)
      /\ i.endedBy = None => ViewFor(i, m) = SnapshotOf(i)
      /\ ViewFor(i, m) \in Snapshot /\ (i.endedBy = m => ViewFor(i, m).endedBy = m)
  <2>1. Drained(i).endedBy = i.endedBy /\ SnapshotOf(Drained(i)) = SnapshotOf(i)
    BY DEF Drained, SnapshotOf
  <2>2. i.endedBy = None => ViewFor(i, m) = SnapshotOf(i)
    BY <1>2 DEF ViewFor, SnapshotOf
  <2>3. i.endedBy = m => ViewFor(i, m).endedBy = m
    BY DEF ViewFor
  <2>4. ViewFor(i, m) \in Snapshot
    BY <1>1 DEF ViewFor, Instance, Snapshot
  <2>. QED  BY <2>1, <2>2, <2>3, <2>4
<1>4. \A queue2, state, shown : Fits(queue2, g, i, state, shown) => Fits(queue2, g, Drained(i), state, shown)
  BY <1>3 DEF Fits
<1>5. q \in Request /\ q.msg = m /\ q.kind = "view" /\ q.value = ViewFor(i, m)
  BY <1>3, ProperValues DEF Req
<1>6. CASE i.endedBy = None
  <2>1. head.kind = "save" => Fits(Append(Tail(queue), q), g, i, head.value, view[g])
    <3>1. q = Req(m, "view", SnapshotOf(i))
      BY <1>3, <1>6
    <3> HIDE DEF q, i, queue
    <3>. QED  BY <1>1, <1>6, <3>1, FitsUnderWay DEF queue
  <2>2. head.kind = "view" => Fits(Tail(queue), g, i, saved[g], head.value)
    BY <1>1, <1>6, FitsUnderWay
  <2>3. head.kind = "load" => Fits(Tail(queue), g, i, saved[g], view[g])
    <3>1. head.kind = "load" => ~ Writes(head, g, "save") /\ ~ Writes(head, g, "view")
      BY DEF Writes
    <3> DEFINE s == SnapshotOf(i)
    <3>2. /\ Reaches(queue, g, "save", s, saved[g])
          /\ NoWrite(queue, g, "save") => Reaches(queue, g, "view", s, view[g])
      BY <1>1, <1>6 DEF Fits
    <3> HIDE DEF s
    <3>3. head.kind = "load" =>
            /\ Reaches(Tail(queue), g, "save", s, saved[g])
            /\ NoWrite(Tail(queue), g, "save") => Reaches(Tail(queue), g, "view", s, view[g])
      BY <1>1, <3>1, <3>2, ReachesTail
    <3>. QED  BY <1>6, <3>3 DEF Fits, s
  <2>4. i.endedBy # m
    BY <1>2, <1>6
  <2>. QED  BY <1>4, <2>1, <2>2, <2>3, <2>4
<1>7. CASE i.endedBy # None
  <2> DEFINE e == i.endedBy
  <2>1. WinnerWaits(queue, e, saved[g])
    BY <1>1, <1>7 DEF Fits
  <2>2. head.kind = "save" => WinnerWaits(Append(Tail(queue), q), e, head.value)
    <3>1. m = e => q.value.endedBy = e
      BY <1>3, <1>5
    <3> HIDE DEF q, e
    <3>2. LastIn(queue, g, e)
      BY <1>1, <1>7 DEF e
    <3>. QED  BY <1>1, <1>2, <1>5, <2>1, <3>1, <3>2, WinnerAfterSave
  <2>3. PICK k \in DOMAIN queue :
          /\ queue[k].msg = e /\ queue[k].kind # "load" /\ queue[k].value.endedBy = e
          /\ queue[k].kind = "view" => saved[g] # None /\ saved[g].endedBy = e
    BY <2>1 DEF WinnerWaits
  <2>4. m = e => k = 1
    BY <1>1, <1>2, <2>3
  <2>5. m # e => WinnerWaits(Tail(queue), e, saved[g])
    BY <1>1, <2>1, WinnerWaitsOn
  <2>6. head.kind = "view" /\ e = m => /\ saved[g] # None /\ saved[g].endedBy = m
                                       /\ head.value # None /\ head.value.endedBy = m
    BY <1>2, <2>3, <2>4
  <2>7. head.kind = "load" => m # e
    BY <2>3, <2>4
  <2>8. \A queue2, state, shown : WinnerWaits(queue2, e, state) => Fits(queue2, g, i, state, shown)
    BY <1>7 DEF Fits
  <2>. QED  BY <1>4, <2>2, <2>5, <2>6, <2>7, <2>8
<1>. QED  BY <1>6, <1>7

LEMMA UpToDateBegin ==
  ASSUME TypeOK, InHand, WinnerLast, OneOwner, Proper, UpToDate, NEW r \in Replicas, Begin(r)
  PROVE  UpToDate'
<1>1. ASSUME NEW g \in Games, BeginCreate(r, g)  PROVE UpToDate'
  <2> DEFINE q == Req(g, "save", SnapshotOf(Fresh))
  <2>1. /\ Local(r, g) /\ failures' = failures /\ live'[r][g] = Fresh
        /\ pending'[r] = Append(pending[r], q) /\ saved' = saved /\ view' = view
    BY <1>1, BeginEffects
  <2>2. Fresh # None /\ Fresh.endedBy = None /\ SnapshotOf(Fresh) \in Snapshot
    BY NoneAssumption, InstanceTypes DEF Fresh
  <2>3. g \in Messages /\ GameOf(g) = g /\ q \in Request /\ q.msg = g
    BY <2>2, MessageTypes, ProperValues DEF Req
  <2>4. Fits(Append(pending[r], q), g, Fresh, saved[g], view[g])
    BY <2>2, <2>3, FitsUnderWay DEF TypeOK
  <2> HIDE DEF q
  <2>5. Moves(pending[r], pending'[r], g)
    BY <2>1, <2>3 DEF Moves
  <2>. QED  BY <2>1, <2>2, <2>4, <2>5, UpToDateLocally
<1>2. ASSUME NEW c \in Commands, BeginForeign(r, c)  PROVE UpToDate'
  <2> DEFINE g == Target[c]
             q == Req(c, "load", None)
  <2>1. /\ Local(r, g) /\ failures' = failures /\ live' = live /\ live[r][g] = None
        /\ pending'[r] = Append(pending[r], q) /\ saved' = saved /\ view' = view
    BY <1>2, BeginEffects DEF BeginForeign
  <2>2. g \in Games /\ q \in Request /\ GameOf(q.msg) = g
    BY MessageTypes, ProperValues DEF Req
  <2> HIDE DEF q, g
  <2>3. Moves(pending[r], pending'[r], g)
    BY <2>1, <2>2 DEF Moves
  <2>4. failures = 0 /\ crashes = 0 /\ saved'[g] # None /\ live'[r][g] = None
           /\ (\A s \in Replicas \ {r} : live[s][g] = None) =>
             view'[g] # None /\ view'[g].endedBy = saved'[g].endedBy
    BY <2>1, <2>2 DEF UpToDate
  <2>. QED  BY <2>1, <2>2, <2>3, <2>4, UpToDateLocally
<1>3. ASSUME NEW c \in Commands, Refuse(r, c)  PROVE UpToDate'
  <2>1. /\ failures' = failures /\ live' = live /\ pending' = pending /\ saved' = saved /\ view' = view
        /\ crashes' = crashes
    BY <1>3, BeginEffects DEF Local
  <2>. QED  BY <2>1 DEF UpToDate
<1>4. ASSUME NEW c \in Commands, BeginLate(r, c)  PROVE UpToDate'
  <2> DEFINE g == Target[c]
             i == live[r][g]
  <2>1. /\ Local(r, g) /\ failures' = failures /\ i # None /\ i.endedBy # None
        /\ live'[r][g] = Execute(i, c) /\ pending' = pending /\ saved' = saved /\ view' = view
        /\ g \in Games
    BY <1>4, BeginEffects, MessageTypes
  <2>2. Execute(i, c) \in Instance /\ Execute(i, c).endedBy = i.endedBy
    <3>1. i \in Instance
      BY <2>1 DEF TypeOK
    <3>. QED  BY <3>1, InstanceTypes DEF Execute
  <2>3. failures = 0 => Fits(pending[r], g, i, saved[g], view[g])
    BY <2>1 DEF UpToDate
  <2>4. failures = 0 => Fits(pending[r], g, Execute(i, c), saved[g], view[g])
    BY <2>1, <2>2, <2>3 DEF Fits
  <2>5. Execute(i, c) # None
    BY <2>2, NoneAssumption
  <2> HIDE DEF g, i
  <2>. QED  BY <2>1, <2>4, <2>5, UpToDateLocally DEF Moves, i
<1>5. ASSUME NEW c \in Commands, BeginCommand(r, c)  PROVE UpToDate'
  <2> DEFINE g == Target[c]
             old == live[r][g]
  <2>1. /\ Local(r, g) /\ failures' = failures /\ old \in Instance /\ old.endedBy = None
        /\ saved' = saved /\ view' = view
    BY <1>5, CommandEffects
  <2>2. PICK i \in {Execute(old, c), ExecuteAndWin(old, c)} :
          /\ i \in Instance /\ live'[r][g] = Drained(i)
          /\ pending'[r] = Append(pending[r], Req(c, "save", SnapshotOf(i)))
    BY <1>5, CommandEffects
  <2> DEFINE q == Req(c, "save", SnapshotOf(i))
             new == Drained(i)
  <2>3. /\ c \in Messages /\ GameOf(c) = g /\ g \in Games /\ pending[r] \in Seq(Request)
        /\ SnapshotOf(i) \in Snapshot
    BY <2>2, MessageTypes, InstanceTypes DEF TypeOK
  <2>4. q \in Request /\ q.msg = c /\ q.kind = "save" /\ q.value = SnapshotOf(i)
    BY <2>3, ProperValues DEF Req
  <2>5. /\ new.endedBy = i.endedBy /\ SnapshotOf(new) = SnapshotOf(i) /\ new # None
        /\ SnapshotOf(i).endedBy = i.endedBy
    <3>1. new \in Instance
      BY <2>2, InstanceTypes
    <3>. QED  BY <3>1, NoneAssumption DEF Drained, SnapshotOf
  <2>6. i.endedBy = None \/ i.endedBy = c
    <3>1. Execute(old, c).endedBy = None /\ ExecuteAndWin(old, c).endedBy = c
      BY <2>1 DEF Execute, ExecuteAndWin
    <3> HIDE DEF old
    <3>. QED  BY <2>2, <3>1
  <2>7. CASE i.endedBy = None
    <3>1. Fits(Append(pending[r], q), g, new, saved[g], view[g])
      <4>1. q = Req(c, "save", SnapshotOf(new)) /\ new.endedBy = None
        BY <2>5, <2>7
      <4> HIDE DEF q, new, g
      <4>. QED  BY <2>3, <2>5, <4>1, FitsUnderWay
    <3> HIDE DEF q, new, g
    <3>2. Moves(pending[r], pending'[r], g)
      BY <2>2, <2>3, <2>4 DEF Moves, q
    <3>. QED  BY <2>1, <2>2, <2>3, <2>5, <3>1, <3>2, UpToDateLocally DEF q, new, g
  <2>8. CASE i.endedBy = c /\ c # None
    <3>1. WinnerWaits(Append(pending[r], q), c, saved[g])
      <4>1. /\ Len(pending[r]) + 1 \in DOMAIN Append(pending[r], q)
            /\ Append(pending[r], q)[Len(pending[r]) + 1] = q
        BY <2>3, <2>4, StillThere
      <4>2. q.value.endedBy = c /\ q.kind # "load" /\ q.kind # "view"
        BY <2>4, <2>5, <2>8
      <4> HIDE DEF q
      <4>. QED  BY <2>4, <4>1, <4>2 DEF WinnerWaits
    <3>2. Fits(Append(pending[r], q), g, new, saved[g], view[g])
      BY <2>5, <2>8, <3>1 DEF Fits
    <3> HIDE DEF q, new, g
    <3>3. Moves(pending[r], pending'[r], g)
      BY <2>2, <2>3, <2>4 DEF Moves, q
    <3>. QED  BY <2>1, <2>2, <2>3, <2>5, <3>2, <3>3, UpToDateLocally DEF q, new, g
  <2>. QED  BY <2>6, <2>7, <2>8
<1>. QED  BY <1>1, <1>2, <1>3, <1>4, <1>5 DEF Begin

LEMMA UpToDateContinue ==
  ASSUME TypeOK, InHand, RemovedIsSilent, WinnerLast, OneOwner, Proper, UpToDate,
         NEW r \in Replicas, Continue(r)
  PROVE  UpToDate'
<1>1. ASSUME NEW m \in Messages, NEW g \in Games, GameOf(m) = g, live[r][g] \in Instance,
             Local(r, g), failures' = failures,
             pending[r] # <<>>, pending[r][1].msg = m, pending[r][1].kind = "save",
             live'[r][g] \in {live[r][g], Drained(live[r][g])},
             pending'[r] = Append(Tail(pending[r]), Req(m, "view", ViewFor(live[r][g], m))),
             saved'[g] = pending[r][1].value, view' = view
      PROVE  UpToDate'
  <2> DEFINE q == Req(m, "view", ViewFor(live[r][g], m))
  <2>1. live[r][g] # None /\ live'[r][g] # None
    <3>1. Drained(live[r][g]) \in Instance
      BY <1>1, InstanceTypes
    <3>. QED  BY <1>1, <3>1, NoneAssumption
  <2>2. q \in Request /\ q.msg = m
    <3>1. ViewFor(live[r][g], m) \in Snapshot \cup {None}
      BY <1>1 DEF ViewFor, Instance, Snapshot
    <3>. QED  BY <3>1, ProperValues DEF Req
  <2>3. failures = 0 => Fits(pending'[r], g, live'[r][g], saved'[g], view'[g])
    <3>1. failures = 0 => \A new \in {live[r][g], Drained(live[r][g])} :
            Fits(Append(Tail(pending[r]), q), g, new, pending[r][1].value, view[g])
      BY <1>1, <2>1, FitsAnswered
    <3>. QED  BY <1>1, <3>1
  <2> HIDE DEF q
  <2>4. Moves(pending[r], pending'[r], g)
    BY <1>1, <2>2 DEF Moves, q
  <2>. QED  BY <1>1, <2>1, <2>3, <2>4, UpToDateLocally
<1>2. ASSUME NEW m \in Messages, NEW g \in Games, GameOf(m) = g, live[r][g] \in Instance,
             Local(r, g), failures' = failures,
             pending[r] # <<>>, pending[r][1].msg = m, pending[r][1].kind = "view",
             live'[r][g] = IF live[r][g].endedBy = m THEN None ELSE live[r][g],
             pending'[r] = Tail(pending[r]), saved' = saved, view'[g] = pending[r][1].value
      PROVE  UpToDate'
  <2>1. live[r][g] # None
    BY <1>1, <1>2, NoneAssumption
  <2>2. Moves(pending[r], pending'[r], g)
    BY <1>2 DEF Moves
  <2>3. CASE live[r][g].endedBy = m
    <3>1. failures = 0 => view'[g] # None /\ view'[g].endedBy = saved'[g].endedBy
      <4>1. failures = 0 => /\ saved[g] # None /\ saved[g].endedBy = m
                            /\ pending[r][1].value # None /\ pending[r][1].value.endedBy = m
        BY <1>2, <2>1, <2>3, FitsAnswered
      <4>. QED  BY <1>2, <4>1
    <3>2. live'[r][g] = None
      BY <1>2, <2>3
    <3>. QED  BY <1>2, <2>1, <2>2, <3>1, <3>2, UpToDateLocally
  <2>4. CASE live[r][g].endedBy # m
    <3>1. live'[r][g] = live[r][g]
      BY <1>2, <2>4
    <3>2. failures = 0 => Fits(Tail(pending[r]), g, live[r][g], saved[g], pending[r][1].value)
      BY <1>2, <2>1, <2>4, FitsAnswered
    <3>3. failures = 0 => Fits(pending'[r], g, live'[r][g], saved'[g], view'[g])
      BY <1>2, <3>1, <3>2
    <3>. QED  BY <1>2, <2>1, <2>2, <3>1, <3>3, UpToDateLocally
  <2>. QED  BY <2>3, <2>4
<1>3. ASSUME NEW g \in Games, CreateSaved(r, g)  PROVE UpToDate'
  <2>1. /\ Local(r, g) /\ failures' = failures
        /\ pending[r] # <<>> /\ pending[r][1].msg = g /\ pending[r][1].kind = "save"
        /\ live[r][g] \in Instance /\ live'[r][g] = Drained(live[r][g])
        /\ pending'[r] = Append(Tail(pending[r]), Req(g, "view", ViewFor(live[r][g], g)))
        /\ saved'[g] = pending[r][1].value /\ view' = view
    BY <1>3, ContinueEffects
  <2>2. g \in Messages /\ GameOf(g) = g
    BY MessageTypes
  <2>3. live'[r][g] \in {live[r][g], Drained(live[r][g])}
    BY <2>1
  <2>. QED  BY <1>1, <2>1, <2>2, <2>3
<1>4. ASSUME NEW g \in Games, CreateViewed(r, g)  PROVE UpToDate'
  <2>1. /\ Local(r, g) /\ failures' = failures
        /\ pending[r] # <<>> /\ pending[r][1].msg = g /\ pending[r][1].kind = "view"
        /\ live[r][g] \in Instance /\ live' = live
        /\ pending'[r] = Tail(pending[r])
        /\ saved' = saved /\ view'[g] = pending[r][1].value
    BY <1>4, ContinueEffects
  <2>2. g \in Messages /\ GameOf(g) = g
    BY MessageTypes
  <2>3. live[r][g].endedBy # g
    <3>1. live[r][g].endedBy \in Commands \cup {None}
      BY <2>1 DEF Instance
    <3>. QED  BY <3>1, EngineAssumption, MessageTypes
  <2>4. live'[r][g] = IF live[r][g].endedBy = g THEN None ELSE live[r][g]
    BY <2>1, <2>3
  <2>. QED  BY <1>2, <2>1, <2>2, <2>4
<1>5. ASSUME NEW c \in Commands, CommandSaved(r, c)  PROVE UpToDate'
  <2> DEFINE g == Target[c]
  <2>1. /\ Local(r, g) /\ failures' = failures
        /\ pending[r] # <<>> /\ pending[r][1].msg = c /\ pending[r][1].kind = "save"
        /\ live[r][g] \in Instance /\ live' = live
        /\ pending'[r] = Append(Tail(pending[r]), Req(c, "view", ViewFor(live[r][g], c)))
        /\ saved'[g] = pending[r][1].value /\ view' = view
    BY <1>5, ContinueEffects
  <2>2. c \in Messages /\ GameOf(c) = g /\ g \in Games
    BY MessageTypes
  <2>3. live'[r][g] \in {live[r][g], Drained(live[r][g])}
    BY <2>1
  <2> HIDE DEF g
  <2>. QED  BY <1>1, <2>1, <2>2, <2>3
<1>6. ASSUME NEW c \in Commands, CommandViewed(r, c)  PROVE UpToDate'
  <2> DEFINE g == Target[c]
  <2>1. /\ Local(r, g) /\ failures' = failures
        /\ pending[r] # <<>> /\ pending[r][1].msg = c /\ pending[r][1].kind = "view"
        /\ live[r][g] \in Instance
        /\ live'[r][g] = IF live[r][g].endedBy = c THEN None ELSE live[r][g]
        /\ pending'[r] = Tail(pending[r])
        /\ view'[g] = pending[r][1].value /\ saved' = saved
    BY <1>6, ContinueEffects
  <2>2. c \in Messages /\ GameOf(c) = g /\ g \in Games
    BY MessageTypes
  <2> HIDE DEF g
  <2>. QED  BY <1>2, <2>1, <2>2
<1>7. ASSUME NEW c \in Commands, Loaded(r, c)  PROVE UpToDate'
  <2> DEFINE g == Target[c]
  <2>1. /\ Local(r, g) /\ failures' = failures
        /\ pending[r] # <<>> /\ pending[r][1].msg = c /\ pending[r][1].kind = "load"
        /\ pending'[r] = Tail(pending[r]) /\ live' = live /\ saved' = saved /\ view' = view
    BY <1>7, ContinueEffects
  <2>2. c \in Messages /\ GameOf(c) = g /\ g \in Games
    BY MessageTypes
  <2> HIDE DEF g
  <2>3. failures = 0 /\ live'[r][g] # None => Fits(pending'[r], g, live'[r][g], saved'[g], view'[g])
    BY <2>1, <2>2, FitsAnswered
  <2>4. failures = 0 /\ crashes = 0 /\ saved'[g] # None /\ live'[r][g] = None
           /\ (\A s \in Replicas \ {r} : live[s][g] = None) =>
             view'[g] # None /\ view'[g].endedBy = saved'[g].endedBy
    BY <2>1, <2>2 DEF UpToDate
  <2>5. Moves(pending[r], pending'[r], g)
    BY <2>1, <2>2 DEF Moves
  <2>. QED  BY <2>1, <2>2, <2>3, <2>4, <2>5, UpToDateLocally
<1>. QED  BY <1>3, <1>4, <1>5, <1>6, <1>7 DEF Continue

LEMMA UpToDateStep ==
  ASSUME TypeOK, InHand, RemovedIsSilent, WinnerLast, OneOwner, Proper, UpToDate, [Next]_vars
  PROVE  UpToDate'
<1>1. ASSUME NEW r \in Replicas, NEW m \in Messages, RequestFails(r, m)  PROVE UpToDate'
  <2>1. failures' = failures + 1 /\ failures \in 0 .. MaxFailures
    BY <1>1 DEF RequestFails, TypeOK
  <2>2. failures' # 0
    BY <2>1
  <2>. QED  BY <2>2 DEF UpToDate
<1>2. ASSUME NEW r \in Replicas, Crash(r)  PROVE UpToDate'
  <2>1. /\ \A s \in Replicas \ {r} : pending'[s] = pending[s] /\ live'[s] = live[s]
        /\ \A g \in Games : live'[r][g] = None
        /\ crashes' # 0 /\ failures' = failures
    BY <1>2, CrashEffects DEF TypeOK
  <2>2. ASSUME failures = 0, NEW g \in Games, NEW s \in Replicas, live'[s][g] # None
        PROVE  Fits(pending'[s], g, live'[s][g], saved'[g], view'[g])
    <3>1. s # r /\ live'[s] = live[s] /\ pending'[s] = pending[s] /\ live[s][g] # None
      BY <2>1, <2>2
    <3>2. live[r][g] = None
      BY <3>1 DEF OneOwner
    <3>3. \A k \in DOMAIN pending[r] : ~ (GameOf(pending[r][k].msg) = g /\ pending[r][k].kind # "load")
      BY <3>2 DEF RemovedIsSilent
    <3>4. saved'[g] = saved[g] /\ view'[g] = view[g]
      BY <1>2, <3>3, CrashEffects
    <3>. QED  BY <2>2, <3>1, <3>4 DEF UpToDate
  <2>. QED  BY <2>1, <2>2 DEF UpToDate
<1>3. ASSUME pending' = pending, live' = live, saved' = saved, view' = view, crashes' = crashes,
             failures' = failures
      PROVE  UpToDate'
  BY <1>3 DEF UpToDate
<1>. QED  BY <1>1, <1>2, <1>3, UpToDateBegin, UpToDateContinue DEF Next, Send, Deliver, vars

\* Nobody is left to write: what was to be reached is reached.
LEMMA SettledCatchesUp ==
  ASSUME TypeOK, InHand, WinnerLast, OneOwner, Proper, UpToDate
  PROVE  CatchesUp
<1>1. ASSUME NEW g \in Games, failures = 0, Settled(g)
      PROVE  /\ \A r \in Replicas : live[r][g] # None =>
                  saved[g] = SnapshotOf(live[r][g]) /\ view[g] = SnapshotOf(live[r][g])
             /\ crashes = 0 /\ saved[g] # None => view[g].endedBy = saved[g].endedBy
  <2>1. \A r \in Replicas : \A k \in DOMAIN pending[r] : GameOf(pending[r][k].msg) # g
    BY <1>1, RequestMessages DEF Settled, InHand
  <2>2. ASSUME NEW r \in Replicas, live[r][g] # None
        PROVE  /\ saved[g] = SnapshotOf(live[r][g]) /\ view[g] = SnapshotOf(live[r][g])
               /\ live[r][g].endedBy = None
    <3>1. NoWrite(pending[r], g, "save") /\ NoWrite(pending[r], g, "view")
      BY <2>1 DEF NoWrite, Writes
    <3>2. Fits(pending[r], g, live[r][g], saved[g], view[g])
      BY <1>1, <2>2 DEF UpToDate
    <3>3. live[r][g].endedBy = None
      <4>1. SUFFICES ASSUME live[r][g].endedBy # None PROVE FALSE
        OBVIOUS
      <4>2. WinnerWaits(pending[r], live[r][g].endedBy, saved[g])
        BY <3>2, <4>1 DEF Fits
      <4>3. GameOf(live[r][g].endedBy) = g
        BY <1>1, <2>2, <4>1, UpToDateInMemory, MessageTypes DEF WinnerLast
      <4>. QED  BY <2>1, <4>2, <4>3 DEF WinnerWaits
    <3>. QED  BY <3>1, <3>2, <3>3 DEF Fits, Reaches, NoWrite
  <2>3. ASSUME crashes = 0, saved[g] # None  PROVE view[g].endedBy = saved[g].endedBy
    <3>1. CASE \E r \in Replicas : live[r][g] # None
      BY <2>2, <3>1
    <3>2. CASE \A r \in Replicas : live[r][g] = None
      BY <1>1, <2>3, <3>2 DEF UpToDate
    <3>. QED  BY <3>1, <3>2
  <2>. QED  BY <2>2, <2>3
<1>. QED  BY <1>1 DEF CatchesUp

LEMMA InOrderIsGapFree ==
  ASSUME NEW es \in Seq(Event), InOrder(es), NEW i \in DOMAIN es, es[i].seq > 0
  PROVE  { es[j].seq : j \in 1 .. i - 1 } \ {0} = 1 .. es[i].seq - 1
<1>1. \A j \in DOMAIN es : es[j].seq \in Nat
  BY SeqTypes
<1>2. i \in Nat /\ \A j \in 1 .. i - 1 : j \in DOMAIN es
  OBVIOUS
<1>3. ASSUME NEW v \in { es[j].seq : j \in 1 .. i - 1 } \ {0}  PROVE v \in 1 .. es[i].seq - 1
  <2>1. PICK j \in 1 .. i - 1 : v = es[j].seq
    OBVIOUS
  <2>2. v \in Nat /\ v # 0 /\ v < es[i].seq
    BY <1>1, <1>2, <2>1 DEF InOrder
  <2>. QED  BY <1>1, <2>2
<1>4. ASSUME NEW v \in 1 .. es[i].seq - 1  PROVE v \in { es[j].seq : j \in 1 .. i - 1 } \ {0}
  <2>1. \E j \in 1 .. i - 1 : es[j].seq = v
    BY DEF InOrder
  <2>. QED  BY <2>1
<1>. QED  BY <1>3, <1>4

-----------------------------------------------------------------------------
(* Theorems *)

\* The inductive invariant: where the messages are, what the queues of
\* requests hold and in which order, and what follows for Redis and the events.
StoreInv ==
  /\ EngineInv
  /\ Held /\ Proper /\ CreatorFirst /\ Plain
  /\ LogsTold /\ EventsCounted /\ UpToDate
  /\ StartIsViewable /\ StoredWasAnnounced

LEMMA InitStored == Init => StoreInv
<1> SUFFICES ASSUME Init PROVE StoreInv
  OBVIOUS
<1>1. EngineInv
  <2>1. InHand /\ RemovedIsSilent
    BY DEF Init, InHand, RemovedIsSilent
  <2>2. WinnerLast /\ HomeOf /\ OneOwner
    BY DEF Init, WinnerLast, HomeOf, OneOwner
  <2>3. AppliedHere /\ AppliedOnce
    BY DEF Init, AppliedHere, AppliedOnce
  <2>. QED  BY <2>1, <2>2, <2>3, InitTypes DEF EngineInv
<1>2. \A r \in Replicas : pending[r] = <<>> /\ \A g \in Games : live[r][g] = None
  BY DEF Init
<1>3. \A g \in Games : events[g] = <<>> /\ saved[g] = None /\ view[g] = None
  BY DEF Init
<1>4. Held
  BY DEF Init, Held
<1>5. Proper /\ CreatorFirst /\ Plain
  BY <1>2 DEF Proper, CreatorFirst, FirstIn, Plain
<1>6. LogsTold /\ EventsCounted /\ UpToDate
  <2>1. LogsTold
    BY <1>2 DEF LogsTold
  <2>2. EventsCounted
    BY <1>2, <1>3, CountedFresh DEF EventsCounted
  <2>3. UpToDate
    BY <1>2, <1>3 DEF UpToDate
  <2>. QED  BY <2>1, <2>2, <2>3
<1>7. StartIsViewable /\ StoredWasAnnounced
  BY <1>3 DEF StartIsViewable, StoredWasAnnounced
<1>. QED  BY <1>1, <1>4, <1>5, <1>6, <1>7 DEF StoreInv

LEMMA StoreInvHolds == Spec => []StoreInv
<1>1. StoreInv /\ [Next]_vars => StoreInv'
  <2> SUFFICES ASSUME StoreInv, [Next]_vars PROVE StoreInv'
    OBVIOUS
  <2>1. /\ TypeOK /\ InHand /\ RemovedIsSilent /\ WinnerLast /\ HomeOf /\ OneOwner
        /\ AppliedHere /\ AppliedOnce
    BY DEF StoreInv, EngineInv
  <2>2. EngineInv'
    BY <2>1, TypeStep, InHandStep, OrderlyStep, HomeOfStep, OneOwnerStep, AppliedStep DEF EngineInv
  <2>3. Held' /\ Proper' /\ CreatorFirst' /\ Plain'
    BY <2>1, HeldStep, ProperStep, CreatorFirstStep, PlainStep DEF StoreInv
  <2>4. LogsTold' /\ EventsCounted' /\ UpToDate'
    BY <2>1, LogsToldStep, EventsCountedStep, UpToDateStep DEF StoreInv
  <2>5. StartIsViewable' /\ StoredWasAnnounced'
    BY <2>1, ViewableStep, StoredStep DEF StoreInv
  <2>. QED  BY <2>2, <2>3, <2>4, <2>5 DEF StoreInv
<1>. QED  BY <1>1, InitStored, PTL DEF Spec

\* Every message the broker waits for is in exactly one place: none is held by
\* a handler that waits for nothing (consumer.ts:32-45).
THEOREM NoMessageIsLost == Spec => []Custody
<1>1. StoreInv => Custody
  BY DEF StoreInv, EngineInv, Custody, Held
<1>. QED  BY <1>1, StoreInvHolds, PTL

\* A command is not acknowledged as accepted while the message of its game can
\* still be delivered again, and the game be created anew over its saved state
\* (engine.service.ts:49-55 against :113-124).
THEOREM CreationComesFirst == Spec => CreationAckedFirst
<1>1. StoreInv /\ [Next]_vars =>
        [\A c \in Commands : status[c] = "handling" /\ status'[c] = "acked" =>
           status[Target[c]] \in {"acked", "rejected"}]_vars
  BY AckedAfterCreation DEF StoreInv, EngineInv
<1>. QED  BY <1>1, StoreInvHolds, PTL DEF Spec, CreationAckedFirst

\* Whoever hears that a game started finds a view of it in Redis, whatever
\* fails or crashes (engine.service.ts:52-55).
THEOREM StartedMeansViewable == Spec => []StartIsViewable
<1>1. StoreInv => StartIsViewable
  BY DEF StoreInv
<1>. QED  BY <1>1, StoreInvHolds, PTL

\* No command is in the saved state that was not announced, and none in the
\* view but those that were dropped (engine.service.ts:112 before :113, :122).
THEOREM NothingStoredUnannounced == Spec => []StoredWasAnnounced
<1>1. StoreInv => StoredWasAnnounced
  BY DEF StoreInv
<1>. QED  BY <1>1, StoreInvHolds, PTL

\* Without a crash the events of a game are published in the order of their
\* numbers and without a gap, however handlers that fail, are refused or come
\* after the end of the game interleave with it.
THEOREM PublishedInOrder == Spec => []EventsInOrder
<1>1. StoreInv => EventsInOrder
  <2> SUFFICES ASSUME StoreInv, NEW g \in Games, crashes = 0, NEW i \in DOMAIN events[g],
                      events[g][i].seq > 0
               PROVE  { events[g][j].seq : j \in 1 .. i - 1 } \ {0} = 1 .. events[g][i].seq - 1
    BY DEF EventsInOrder
  <2>1. events[g] \in Seq(Event) /\ InOrder(events[g])
    BY DEF StoreInv, EngineInv, TypeOK, EventsCounted
  <2>. QED  BY <2>1, InOrderIsGapFree
<1>. QED  BY <1>1, StoreInvHolds, PTL

\* When the handlers of a game have finished and Redis failed none of them, the
\* saved state and the view are the game in memory, and the view of a game that
\* ended names its winner, in whatever order the handlers were resumed and
\* whichever replicas crashed (engine.service.ts:112-124).
THEOREM RedisCatchesUp == Spec => []CatchesUp
<1>1. StoreInv => CatchesUp
  BY SettledCatchesUp DEF StoreInv, EngineInv
<1>. QED  BY <1>1, StoreInvHolds, PTL

-----------------------------------------------------------------------------
(* What the events tell *)

\* Numbers have a least one.
LEMMA LeastOf ==
  ASSUME NEW N \in SUBSET Nat, N # {}
  PROVE  \E n \in N : \A m \in N : n <= m
<1>1. PICK n \in N : \A m \in N : ~ (<<m, n>> \in OpToRel(<, Nat))
  BY NatLessThanWellFounded, WFMin
<1>2. ASSUME NEW m \in N  PROVE n <= m
  <2>1. m \in Nat /\ n \in Nat
    OBVIOUS
  <2>2. ~ (m < n)
    BY <1>1, <2>1 DEF OpToRel
  <2>. QED  BY <2>1, <2>2
<1>. QED  BY <1>2

\* Two lists of the same numbers agree as far as the first goes.
LEMMA ListsAgree ==
  ASSUME NEW S \in SUBSET Nat, NEW m \in Nat, NEW n \in Nat,
         NEW f \in [1 .. m -> S], NEW h \in [1 .. n -> S], Lists(f, S), Lists(h, S)
  PROVE  \A k \in 1 .. m : k \in 1 .. n /\ f[k] = h[k]
<1> DEFINE Bad == { k \in 1 .. m : ~ (k \in 1 .. n /\ f[k] = h[k]) }
<1> SUFFICES ASSUME Bad # {} PROVE FALSE
  OBVIOUS
<1>0. Bad \in SUBSET Nat
  OBVIOUS
<1>1. PICK k \in Bad : \A j \in Bad : k <= j
  <2> HIDE DEF Bad
  <2>. QED  BY <1>0, LeastOf
<1>2. \A j \in 1 .. m : j < k => j \in 1 .. n /\ f[j] = h[j]
  BY <1>1
<1>3. /\ \A i, j \in 1 .. m : i < j => f[i] < f[j]
      /\ \A i, j \in 1 .. n : i < j => h[i] < h[j]
      /\ \A i \in 1 .. m : f[i] \in S /\ f[i] \in Nat
      /\ \A i \in 1 .. n : h[i] \in S /\ h[i] \in Nat
      /\ \A x \in S : (\E i \in 1 .. m : f[i] = x) /\ (\E i \in 1 .. n : h[i] = x)
  BY DEF Lists
<1>4. k \in 1 .. m /\ ~ (k \in 1 .. n /\ f[k] = h[k])
  OBVIOUS
<1>5. PICK j \in 1 .. n : h[j] = f[k]
  BY <1>3, <1>4
<1> HIDE DEF Bad
<1>6. CASE j < k
  <2>1. j \in 1 .. m
    BY <1>4, <1>6
  <2>2. f[j] = f[k] /\ f[j] < f[k]
    BY <1>2, <1>3, <1>4, <1>5, <1>6, <2>1
  <2>. QED  BY <1>3, <1>4, <2>2
<1>7. CASE j = k
  BY <1>4, <1>5, <1>7
<1>8. CASE j > k
  <2>1. k \in 1 .. n /\ h[k] < f[k] /\ h[k] \in S
    BY <1>3, <1>4, <1>5, <1>8
  <2>2. PICK i \in 1 .. m : f[i] = h[k]
    BY <1>3, <2>1
  <2>3. CASE i < k
    <3>1. i \in 1 .. n /\ f[i] = h[i]
      BY <1>2, <2>3
    <3>2. h[i] < h[k]
      BY <1>3, <2>1, <2>3, <3>1
    <3>. QED  BY <1>3, <2>1, <2>2, <3>1, <3>2
  <2>4. CASE i = k
    BY <1>3, <1>4, <2>1, <2>2, <2>4
  <2>5. CASE k < i
    <3>1. f[k] < f[i]
      BY <1>3, <1>4, <2>5
    <3>. QED  BY <1>3, <1>4, <2>1, <2>2, <3>1
  <2>. QED  BY <1>4, <2>3, <2>4, <2>5
<1>. QED  BY <1>4, <1>6, <1>7, <1>8

\* Numbers have one order.
LEMMA ListsOnce ==
  ASSUME NEW S \in SUBSET Nat, NEW m \in Nat, NEW n \in Nat,
         NEW f \in [1 .. m -> S], NEW h \in [1 .. n -> S], Lists(f, S), Lists(h, S)
  PROVE  f = h
<1>1. /\ \A k \in 1 .. m : k \in 1 .. n /\ f[k] = h[k]
      /\ \A k \in 1 .. n : k \in 1 .. m /\ h[k] = f[k]
  BY ListsAgree
<1>2. m = n
  BY <1>1
<1>. QED  BY <1>1, <1>2

\* A list of S is as long as S is large.
LEMMA ListsAll ==
  ASSUME NEW S \in SUBSET Nat, NEW n \in Nat, NEW f \in [1 .. n -> S], Lists(f, S)
  PROVE  Cardinality(S) = n
<1>1. \A i, j \in 1 .. n : f[i] = f[j] => i = j
  <2> SUFFICES ASSUME NEW i \in 1 .. n, NEW j \in 1 .. n, f[i] = f[j], i < j PROVE FALSE
    OBVIOUS
  <2>1. f[i] < f[j] /\ f[i] \in Nat
    BY DEF Lists
  <2>. QED  BY <2>1
<1>2. \A k \in S : \E i \in 1 .. n : f[i] = k
  BY DEF Lists
<1>3. f \in Bijection(1 .. n, S)
  BY <1>1, <1>2 DEF Bijection, Injection, Surjection, IsInjective
<1>4. ExistsBijection(1 .. n, S)
  BY <1>3 DEF ExistsBijection
<1>. QED  BY <1>4, FS_CountingElements

\* The commands t are those the events es tell of.
Tells(t, es) ==
  \E n \in Nat : \E at \in [1 .. n -> Tellings(es)] :
    Lists(at, Tellings(es)) /\ t = [i \in 1 .. n |-> es[at[i]].cmd]

\* What the events tell is unique: it is what Told chooses.
LEMMA TellsIsTold ==
  ASSUME NEW es \in Seq(Event), NEW t, Tells(t, es)
  PROVE  Told(es) = t
<1> DEFINE S == Tellings(es)
<1>1. S \in SUBSET Nat
  BY DEF Tellings
<1>2. PICK n \in Nat : \E at \in [1 .. n -> S] : Lists(at, S) /\ t = [i \in 1 .. n |-> es[at[i]].cmd]
  BY DEF Tells
<1>3. PICK at \in [1 .. n -> S] : Lists(at, S) /\ t = [i \in 1 .. n |-> es[at[i]].cmd]
  BY <1>2
<1> HIDE DEF S
<1>4. Cardinality(S) = n
  BY <1>1, <1>3, ListsAll
<1>5. \A other \in [1 .. n -> S] : Lists(other, S) => other = at
  BY <1>1, <1>3, ListsOnce
<1>6. Listing(S) = at
  <2>1. Listing(S) = CHOOSE other \in [1 .. n -> S] : Lists(other, S)
    BY <1>4 DEF Listing
  <2>. QED  BY <1>3, <1>5, <2>1
<1>. QED  BY <1>3, <1>4, <1>6 DEF Told, S

LEMMA TellsType ==
  ASSUME NEW es \in Seq(Event), NEW t, Tells(t, es)
  PROVE  t \in Seq(Commands \cup {None})
<1>1. PICK n \in Nat : \E at \in [1 .. n -> Tellings(es)] :
        Lists(at, Tellings(es)) /\ t = [i \in 1 .. n |-> es[at[i]].cmd]
  BY DEF Tells
<1>2. PICK at \in [1 .. n -> Tellings(es)] : t = [i \in 1 .. n |-> es[at[i]].cmd]
  BY <1>1
<1>3. \A i \in 1 .. n : es[at[i]].cmd \in Commands \cup {None}
  <2>1. \A i \in 1 .. n : at[i] \in DOMAIN es
    BY DEF Tellings
  <2>2. \A k \in DOMAIN es : es[k] \in Event
    OBVIOUS
  <2>3. \A e \in Event : e.cmd \in Commands \cup {None}
    BY DEF Event
  <2>. QED  BY <2>1, <2>2, <2>3
<1>. QED  BY <1>2, <1>3

LEMMA TellsNothing ==
  ASSUME NEW es \in Seq(Event), \A i \in DOMAIN es : es[i].type # "applied"
  PROVE  Tells(<<>>, es)
<1> DEFINE at == [i \in 1 .. 0 |-> 1]
<1>1. Tellings(es) = {} /\ 1 .. 0 = {}
  BY DEF Tellings
<1>2. at \in [1 .. 0 -> Tellings(es)] /\ Lists(at, Tellings(es))
  BY <1>1 DEF Lists
<1>3. <<>> = [i \in 1 .. 0 |-> es[at[i]].cmd]
  BY <1>1
<1> HIDE DEF at
<1>4. 0 \in Nat
  OBVIOUS
<1>. QED  BY <1>2, <1>3, <1>4 DEF Tells

LEMMA TellsOne ==
  ASSUME NEW e \in Event, e.type = "applied"
  PROVE  Tells(<<e.cmd>>, <<e>>)
<1> DEFINE at == [i \in 1 .. 1 |-> 1]
<1>1. 1 .. 1 = {1} /\ DOMAIN <<e>> = {1} /\ <<e>>[1] = e /\ 1 \in Nat
  OBVIOUS
<1>2. Tellings(<<e>>) = {1}
  BY <1>1 DEF Tellings
<1>3. at \in [1 .. 1 -> Tellings(<<e>>)] /\ Lists(at, Tellings(<<e>>))
  BY <1>1, <1>2 DEF Lists
<1>4. <<e.cmd>> = [i \in 1 .. 1 |-> <<e>>[at[i]].cmd]
  BY <1>1
<1> HIDE DEF at
<1>. QED  BY <1>1, <1>3, <1>4 DEF Tells

LEMMA ConcatAsFunction ==
  ASSUME NEW S, NEW p \in Seq(S), NEW q \in Seq(S)
  PROVE  p \o q = [i \in 1 .. Len(p) + Len(q) |-> IF i <= Len(p) THEN p[i] ELSE q[i - Len(p)]]
<1>1. /\ p \o q \in Seq(S) /\ Len(p) \in Nat /\ Len(q) \in Nat
      /\ DOMAIN p = 1 .. Len(p) /\ DOMAIN q = 1 .. Len(q)
      /\ DOMAIN (p \o q) = 1 .. Len(p) + Len(q)
      /\ \A i \in DOMAIN p : (p \o q)[i] = p[i]
      /\ \A i \in DOMAIN q : (p \o q)[Len(p) + i] = q[i]
  BY ConcatFacts
<1>2. \A r \in Seq(S) : r = [i \in 1 .. Len(r) |-> r[i]]
  OBVIOUS
<1>3. Len(p \o q) = Len(p) + Len(q)
  OBVIOUS
<1>4. \A i \in 1 .. Len(p) + Len(q) :
        (p \o q)[i] = IF i <= Len(p) THEN p[i] ELSE q[i - Len(p)]
  <2> TAKE i \in 1 .. Len(p) + Len(q)
  <2>1. CASE i <= Len(p)
    BY <1>1, <2>1
  <2>2. CASE ~ (i <= Len(p))
    <3>1. i - Len(p) \in DOMAIN q /\ i = Len(p) + (i - Len(p))
      BY <1>1, <2>2
    <3>. QED  BY <1>1, <2>2, <3>1
  <2>. QED  BY <2>1, <2>2
<1>. QED  BY <1>1, <1>2, <1>3, <1>4

\* What is told by events and further events is told one after the other.
LEMMA TellsConcat ==
  ASSUME NEW es \in Seq(Event), NEW b \in Seq(Event), NEW t, NEW u, Tells(t, es), Tells(u, b)
  PROVE  Tells(t \o u, es \o b)
<1> DEFINE all == es \o b
           len == Len(es)
           S == Tellings(es)
           R == Tellings(b)
           T == Tellings(all)
<1>1. /\ all \in Seq(Event) /\ len \in Nat /\ Len(b) \in Nat
      /\ DOMAIN es = 1 .. len /\ DOMAIN b = 1 .. Len(b) /\ DOMAIN all = 1 .. len + Len(b)
      /\ \A i \in DOMAIN es : all[i] = es[i]
      /\ \A i \in DOMAIN b : all[len + i] = b[i]
  BY ConcatFacts
<1>2. PICK n \in Nat : \E at \in [1 .. n -> S] : Lists(at, S) /\ t = [i \in 1 .. n |-> es[at[i]].cmd]
  BY DEF Tells
<1>3. PICK at \in [1 .. n -> S] : Lists(at, S) /\ t = [i \in 1 .. n |-> es[at[i]].cmd]
  BY <1>2
<1>4. PICK m \in Nat : \E bt \in [1 .. m -> R] : Lists(bt, R) /\ u = [i \in 1 .. m |-> b[bt[i]].cmd]
  BY DEF Tells
<1>5. PICK bt \in [1 .. m -> R] : Lists(bt, R) /\ u = [i \in 1 .. m |-> b[bt[i]].cmd]
  BY <1>4
<1> DEFINE new == [i \in 1 .. n + m |-> IF i <= n THEN at[i] ELSE len + bt[i - n]]
<1>6. /\ \A i \in 1 .. n : at[i] \in S /\ at[i] \in 1 .. len
      /\ \A i \in 1 .. m : bt[i] \in R /\ bt[i] \in 1 .. Len(b)
  BY <1>1 DEF Tellings
<1>7. /\ \A k \in S : k \in T /\ k \in 1 .. len
      /\ \A k \in R : len + k \in T /\ k \in 1 .. Len(b)
      /\ \A k \in T : k \in S \/ \E j \in R : k = len + j
  <2>1. /\ \A k \in S : k \in T /\ k \in 1 .. len
        /\ \A k \in R : len + k \in T /\ k \in 1 .. Len(b)
    <3>1. \A k \in 1 .. Len(b) : len + k \in DOMAIN all
      BY <1>1
    <3>2. \A k \in 1 .. len : k \in DOMAIN all
      BY <1>1
    <3> HIDE DEF all, len
    <3>. QED  BY <1>1, <3>1, <3>2 DEF Tellings
  <2>2. ASSUME NEW k \in T, k \notin S  PROVE \E j \in R : k = len + j
    <3>1. k \in DOMAIN all /\ all[k].type = "applied"
      BY DEF Tellings
    <3>2. k \notin DOMAIN es
      BY <1>1, <2>2, <3>1 DEF Tellings
    <3>3. k - len \in DOMAIN b /\ k = len + (k - len)
      BY <1>1, <3>1, <3>2
    <3> HIDE DEF all, len
    <3>4. k - len \in R
      BY <1>1, <3>1, <3>3 DEF Tellings
    <3>. QED  BY <3>3, <3>4
  <2>. QED  BY <2>1, <2>2
<1> HIDE DEF all, len, S, R, T
<1>8. \A i \in 1 .. n + m : \/ i \in 1 .. n /\ new[i] = at[i]
                            \/ i - n \in 1 .. m /\ ~ (i <= n) /\ new[i] = len + bt[i - n]
  OBVIOUS
<1>9. /\ \A i \in 1 .. n : i \in 1 .. n + m /\ new[i] = at[i]
      /\ \A i \in 1 .. m : n + i \in 1 .. n + m /\ new[n + i] = len + bt[i]
  OBVIOUS
<1>10. DOMAIN new = 1 .. n + m /\ n + m \in Nat /\ DOMAIN at = 1 .. n /\ DOMAIN bt = 1 .. m
  OBVIOUS
<1>11. new \in [1 .. n + m -> T]
  <2>1. \A i \in 1 .. n + m : new[i] \in T
    BY <1>6, <1>7, <1>8
  <2>. QED  BY <2>1
<1>12. Lists(new, T)
  <2> HIDE DEF new
  <2>1. ASSUME NEW i \in 1 .. n + m, NEW j \in 1 .. n + m, i < j  PROVE new[i] < new[j]
    <3>1. CASE j \in 1 .. n
      <4>1. i \in 1 .. n
        BY <2>1, <3>1
      <4>2. at[i] < at[j]
        BY <1>3, <1>10, <2>1, <3>1, <4>1 DEF Lists
      <4>. QED  BY <1>9, <3>1, <4>1, <4>2
    <3>2. CASE j \notin 1 .. n /\ i \in 1 .. n
      <4>1. new[j] = len + bt[j - n] /\ j - n \in 1 .. m /\ new[i] = at[i]
        BY <1>8, <1>9, <3>2
      <4>2. at[i] \in 1 .. len /\ bt[j - n] \in 1 .. Len(b)
        BY <1>6, <3>2, <4>1
      <4>. QED  BY <1>1, <4>1, <4>2
    <3>3. CASE j \notin 1 .. n /\ i \notin 1 .. n
      <4>1. /\ new[j] = len + bt[j - n] /\ j - n \in 1 .. m
            /\ new[i] = len + bt[i - n] /\ i - n \in 1 .. m
        BY <1>8, <3>3
      <4>2. i - n < j - n
        BY <2>1
      <4>3. bt[i - n] < bt[j - n]
        BY <1>5, <1>10, <4>1, <4>2 DEF Lists
      <4>4. bt[i - n] \in 1 .. Len(b) /\ bt[j - n] \in 1 .. Len(b)
        BY <1>6, <4>1
      <4>. QED  BY <1>1, <4>1, <4>3, <4>4
    <3>. QED  BY <3>1, <3>2, <3>3
  <2>2. ASSUME NEW k \in T  PROVE \E i \in 1 .. n + m : new[i] = k
    <3>1. CASE k \in S
      <4>1. PICK i \in 1 .. n : at[i] = k
        BY <1>3, <1>10, <3>1 DEF Lists
      <4>. QED  BY <1>9, <4>1
    <3>2. ASSUME NEW j \in R, k = len + j  PROVE \E i \in 1 .. n + m : new[i] = k
      <4>1. PICK i \in 1 .. m : bt[i] = j
        BY <1>5, <1>10, <3>2 DEF Lists
      <4>2. n + i \in 1 .. n + m /\ new[n + i] = k
        BY <1>9, <3>2, <4>1
      <4>. QED  BY <4>2
    <3>. QED  BY <1>7, <3>1, <3>2
  <2>. QED  BY <1>10, <2>1, <2>2 DEF Lists
<1>13. t \o u = [i \in 1 .. n + m |-> all[new[i]].cmd]
  <2> DEFINE both == [i \in 1 .. n + m |-> all[new[i]].cmd]
  <2>1. t \in Seq(Commands \cup {None}) /\ u \in Seq(Commands \cup {None})
    BY TellsType
  <2>2. Len(t) = n /\ Len(u) = m
    <3>1. DOMAIN t = 1 .. n /\ DOMAIN u = 1 .. m
      BY <1>3, <1>5
    <3>. QED  BY <2>1, <3>1
  <2>3. t \o u = [i \in 1 .. n + m |-> IF i <= n THEN t[i] ELSE u[i - n]]
    <3> DEFINE X == Commands \cup {None}
    <3>1. t \in Seq(X) /\ u \in Seq(X)
      BY <2>1
    <3> HIDE DEF X
    <3>2. t \o u = [i \in 1 .. Len(t) + Len(u) |-> IF i <= Len(t) THEN t[i] ELSE u[i - Len(t)]]
      BY <3>1, ConcatAsFunction
    <3>. QED  BY <2>2, <3>2
  <2>5. ASSUME NEW i \in 1 .. n + m  PROVE (t \o u)[i] = all[new[i]].cmd
    <3>1. CASE i \in 1 .. n
      <4>1. new[i] = at[i] /\ at[i] \in 1 .. len
        BY <1>6, <1>9, <3>1
      <4>2. all[new[i]] = es[at[i]]
        BY <1>1, <4>1
      <4>3. (t \o u)[i] = t[i] /\ t[i] = es[at[i]].cmd
        BY <1>3, <2>3, <3>1
      <4>. QED  BY <4>2, <4>3
    <3>2. CASE i \notin 1 .. n
      <4>1. new[i] = len + bt[i - n] /\ i - n \in 1 .. m /\ ~ (i <= n)
        BY <1>8, <3>2
      <4>2. bt[i - n] \in 1 .. Len(b)
        BY <1>6, <4>1
      <4>3. all[new[i]] = b[bt[i - n]]
        BY <1>1, <4>1, <4>2
      <4>4. (t \o u)[i] = u[i - n] /\ u[i - n] = b[bt[i - n]].cmd
        <5>1. (t \o u)[i] = u[i - n]
          BY <2>3, <4>1
        <5>. QED  BY <1>5, <4>1, <5>1
      <4>. QED  BY <4>3, <4>4
    <3>. QED  BY <3>1, <3>2
  <2>. QED  BY <2>3, <2>5
<1> HIDE DEF new
<1>. QED  BY <1>10, <1>11, <1>12, <1>13 DEF Tells, all, T

-----------------------------------------------------------------------------
(* The views on their way *)

\* The commands s come first in t.
Before(s, t) == Len(s) <= Len(t) /\ \A i \in 1 .. Len(s) : s[i] = t[i]

\* The view that is stored for g, and those that will be, are states of the
\* game i on its way, each before the next.
ViewsLead(queue, g, i, shown) ==
  /\ shown # None => Before(shown.log, i.log)
  /\ \A k \in DOMAIN queue : Writes(queue[k], g, "view") =>
       /\ Before(queue[k].value.log, i.log)
       /\ shown # None => Before(shown.log, queue[k].value.log)
       /\ \A j \in 1 .. k - 1 :
            Writes(queue[j], g, "view") => Before(queue[j].value.log, queue[k].value.log)

\* The oldest request is answered, and stores its view if it has one.
LEMMA ViewsTail ==
  ASSUME NEW queue \in Seq(Request), queue # <<>>, NEW g, NEW i, NEW shown,
         ViewsLead(queue, g, i, shown)
  PROVE  /\ ViewsLead(Tail(queue), g, i, shown)
         /\ Writes(queue[1], g, "view") => ViewsLead(Tail(queue), g, i, queue[1].value)
<1> DEFINE rest == Tail(queue)
           W(q) == Writes(q, g, "view")
<1>1. /\ 1 \in DOMAIN queue
      /\ \A k \in DOMAIN rest : k \in Nat \ {0} /\ k + 1 \in DOMAIN queue /\ rest[k] = queue[k + 1]
  BY TailFacts
<1>2. \A k \in DOMAIN rest : \A j \in 1 .. k - 1 : j \in DOMAIN rest /\ j + 1 \in 1 .. (k + 1) - 1
  <2>1. rest \in Seq(Request)
    BY TailFacts
  <2> HIDE DEF rest
  <2>. QED  BY <2>1
<1>3. \A k \in DOMAIN rest : 1 \in 1 .. (k + 1) - 1
  BY <1>1
<1>4. /\ shown # None => Before(shown.log, i.log)
      /\ \A k \in DOMAIN queue : W(queue[k]) =>
           /\ Before(queue[k].value.log, i.log)
           /\ shown # None => Before(shown.log, queue[k].value.log)
           /\ \A j \in 1 .. k - 1 : W(queue[j]) => Before(queue[j].value.log, queue[k].value.log)
  BY DEF ViewsLead
<1> HIDE DEF rest, W
<1>5. ASSUME NEW k \in DOMAIN rest, W(rest[k])
      PROVE  /\ Before(rest[k].value.log, i.log)
             /\ shown # None => Before(shown.log, rest[k].value.log)
             /\ W(queue[1]) => Before(queue[1].value.log, rest[k].value.log)
             /\ \A j \in 1 .. k - 1 : W(rest[j]) => Before(rest[j].value.log, rest[k].value.log)
  <2>1. k + 1 \in DOMAIN queue /\ rest[k] = queue[k + 1] /\ W(queue[k + 1])
    BY <1>1, <1>5
  <2>2. \A j \in 1 .. k - 1 : rest[j] = queue[j + 1] /\ j + 1 \in 1 .. (k + 1) - 1
    BY <1>1, <1>2
  <2>3. \A j \in 1 .. (k + 1) - 1 : W(queue[j]) => Before(queue[j].value.log, queue[k + 1].value.log)
    BY <1>4, <2>1
  <2>. QED  BY <1>3, <1>4, <2>1, <2>2, <2>3
<1>6. ViewsLead(rest, g, i, shown)
  BY <1>4, <1>5 DEF ViewsLead, W
<1>7. ASSUME W(queue[1])  PROVE ViewsLead(rest, g, i, queue[1].value)
  <2>1. Before(queue[1].value.log, i.log)
    BY <1>1, <1>4, <1>7
  <2>. QED  BY <1>5, <1>7, <2>1 DEF ViewsLead, W
<1>. QED  BY <1>6, <1>7 DEF rest, W

\* A view of the game as it is now is queued last.
LEMMA ViewsAppend ==
  ASSUME NEW queue \in Seq(Request), NEW g, NEW i, i.log \in Seq(Commands), NEW shown,
         ViewsLead(queue, g, i, shown),
         NEW q \in Request, Writes(q, g, "view") => q.value.log = i.log
  PROVE  ViewsLead(Append(queue, q), g, i, shown)
<1> DEFINE all == Append(queue, q)
           W(x) == Writes(x, g, "view")
<1>1. /\ Len(queue) \in Nat /\ DOMAIN queue = 1 .. Len(queue)
      /\ \A k \in DOMAIN all : k \in DOMAIN queue \/ k = Len(queue) + 1
      /\ \A k \in DOMAIN queue : all[k] = queue[k]
      /\ all[Len(queue) + 1] = q
  BY AppendFacts
<1>2. Before(i.log, i.log)
  BY DEF Before
<1>3. /\ shown # None => Before(shown.log, i.log)
      /\ \A k \in DOMAIN queue : W(queue[k]) =>
           /\ Before(queue[k].value.log, i.log)
           /\ shown # None => Before(shown.log, queue[k].value.log)
           /\ \A j \in 1 .. k - 1 : W(queue[j]) => Before(queue[j].value.log, queue[k].value.log)
      /\ W(q) => q.value.log = i.log
  BY DEF ViewsLead
<1> HIDE DEF all, W
<1>4. ASSUME NEW k \in DOMAIN all, W(all[k])
      PROVE  /\ Before(all[k].value.log, i.log)
             /\ shown # None => Before(shown.log, all[k].value.log)
             /\ \A j \in 1 .. k - 1 : W(all[j]) => Before(all[j].value.log, all[k].value.log)
  <2>1. CASE k \in DOMAIN queue
    <3>1. all[k] = queue[k] /\ \A j \in 1 .. k - 1 : all[j] = queue[j]
      BY <1>1, <2>1
    <3>. QED  BY <1>3, <1>4, <2>1, <3>1
  <2>2. CASE k = Len(queue) + 1
    <3>1. all[k] = q /\ \A j \in 1 .. k - 1 : j \in DOMAIN queue /\ all[j] = queue[j]
      BY <1>1, <2>2
    <3>2. q.value.log = i.log
      BY <1>3, <1>4, <3>1
    <3>. QED  BY <1>2, <1>3, <3>1, <3>2
  <2>. QED  BY <1>1, <2>1, <2>2
<1>. QED  BY <1>3, <1>4 DEF ViewsLead, all, W

\* The views lead a game that goes on.
LEMMA ViewsLonger ==
  ASSUME NEW queue, NEW g, NEW i, i.log \in Seq(Commands), NEW shown \in Snapshot \cup {None},
         \A k \in DOMAIN queue : Writes(queue[k], g, "view") => queue[k].value \in Snapshot,
         ViewsLead(queue, g, i, shown),
         NEW c \in Commands, NEW j, j.log = Append(i.log, c)
  PROVE  ViewsLead(queue, g, j, shown)
<1>1. ASSUME NEW s \in Seq(Commands), Before(s, i.log)  PROVE Before(s, j.log)
  <2>1. /\ \A k \in DOMAIN i.log : k \in DOMAIN j.log /\ j.log[k] = i.log[k]
        /\ Len(j.log) = Len(i.log) + 1 /\ DOMAIN i.log = 1 .. Len(i.log)
        /\ Len(i.log) \in Nat /\ Len(s) \in Nat
    BY StillThere
  <2>. QED  BY <1>1, <2>1 DEF Before
<1>2. \A s \in Snapshot : s.log \in Seq(Commands)
  BY DEF Snapshot
<1>. QED  BY <1>1, <1>2 DEF ViewsLead

LEMMA ViewsNone ==
  ASSUME NEW queue, NEW g, NEW i, NoWrite(queue, g, "view")
  PROVE  ViewsLead(queue, g, i, None)
  BY DEF ViewsLead, NoWrite

\* Requests for another game do not matter.
LEMMA ViewsElsewhere ==
  ASSUME NEW queue \in Seq(Request), NEW queue2, NEW g, NEW h, g # h, Moves(queue, queue2, g),
         NEW i, i.log \in Seq(Commands), NEW shown, ViewsLead(queue, h, i, shown)
  PROVE  ViewsLead(queue2, h, i, shown)
<1>1. \A q : GameOf(q.msg) = g => ~ Writes(q, h, "view")
  BY DEF Writes
<1>2. ASSUME NEW q \in Request, GameOf(q.msg) = g  PROVE ViewsLead(Append(queue, q), h, i, shown)
  BY <1>1, <1>2, ViewsAppend
<1>3. ASSUME queue # <<>>
      PROVE  /\ ViewsLead(Tail(queue), h, i, shown)
             /\ \A q \in Request : GameOf(q.msg) = g => ViewsLead(Append(Tail(queue), q), h, i, shown)
  <2>1. Tail(queue) \in Seq(Request) /\ ViewsLead(Tail(queue), h, i, shown)
    BY <1>3, TailFacts, ViewsTail
  <2>. QED  BY <1>1, <2>1, ViewsAppend
<1>. QED  BY <1>2, <1>3 DEF Moves

-----------------------------------------------------------------------------
(* The story of a game: its log, its buffer and its events *)

LEMMA ConcatEnds ==
  ASSUME NEW S, NEW s \in Seq(S), NEW e \in S
  PROVE  Append(s, e) = s \o <<e>> /\ s \o <<>> = s /\ <<>> \o s = s
  OBVIOUS

\* The commands applied to a game are those told of, and those whose events
\* wait in its buffer; nothing waits as long as nobody won.
Story(i, es) ==
  /\ \E t, u : Tells(t, es) /\ Tells(u, i.buffer) /\ i.log = t \o u
  /\ i.endedBy = None => i.buffer = <<>>
  /\ i.endedBy # None => Heard(es, "game-ended")

LEMMA HeardConcat ==
  ASSUME NEW es \in Seq(Event), NEW b \in Seq(Event), NEW type
  PROVE  Heard(es \o b, type) <=> Heard(es, type) \/ Heard(b, type)
<1>1. ASSUME NEW i \in DOMAIN (es \o b), (es \o b)[i].type = type  PROVE Heard(es, type) \/ Heard(b, type)
  <2>1. \/ i \in DOMAIN es /\ (es \o b)[i] = es[i]
        \/ \E k \in DOMAIN b : i = Len(es) + k /\ (es \o b)[i] = b[k]
    BY ConcatElements
  <2>. QED  BY <1>1, <2>1 DEF Heard
<1>2. /\ \A i \in DOMAIN es : i \in DOMAIN (es \o b) /\ (es \o b)[i] = es[i]
      /\ \A k \in DOMAIN b : Len(es) + k \in DOMAIN (es \o b) /\ (es \o b)[Len(es) + k] = b[k]
  BY ConcatElements
<1>. QED  BY <1>1, <1>2 DEF Heard

LEMMA TellsEmpty == Tells(<<>>, <<>>)
<1>1. <<>> \in Seq(Event) /\ DOMAIN <<>> = {}
  OBVIOUS
<1>. QED  BY <1>1, TellsNothing

LEMMA StoryFresh == Story(Fresh, <<>>)
<1>1. <<>> \in Seq(Event) /\ Fresh.buffer = <<>> /\ Fresh.log = <<>> \o <<>> /\ Fresh.endedBy = None
  BY DEF Fresh
<1>2. Tells(<<>>, <<>>)
  BY TellsEmpty
<1>. QED  BY <1>1, <1>2 DEF Story

\* Events that tell of no command.
LEMMA TellsQuiet ==
  ASSUME NEW es \in Seq(Event), NEW b \in Seq(Event), \A k \in DOMAIN b : b[k].type # "applied",
         NEW t, Tells(t, es)
  PROVE  Tells(t, es \o b)
<1>1. Tells(<<>>, b)
  BY TellsNothing
<1>2. t \o <<>> = t
  BY TellsType, ConcatEnds
<1>3. Tells(t \o <<>>, es \o b)
  BY <1>1, TellsConcat
<1>. QED  BY <1>2, <1>3

\* Events of no command are published.
LEMMA StoryQuiet ==
  ASSUME NEW es \in Seq(Event), NEW b \in Seq(Event), \A k \in DOMAIN b : b[k].type # "applied",
         NEW i, Story(i, es)
  PROVE  Story(i, es \o b)
<1>1. PICK t : \E u : Tells(t, es) /\ Tells(u, i.buffer) /\ i.log = t \o u
  BY DEF Story
<1>2. Tells(t, es \o b)
  BY <1>1, TellsQuiet
<1>3. Heard(es, "game-ended") => Heard(es \o b, "game-ended")
  BY HeardConcat
<1>. QED  BY <1>1, <1>2, <1>3 DEF Story

\* The log of a game under way is what was told.
LEMMA StoryTold ==
  ASSUME NEW es \in Seq(Event), NEW i \in Instance, Story(i, es), i.endedBy = None
  PROVE  Tells(i.log, es)
<1>1. PICK t : \E u : Tells(t, es) /\ Tells(u, i.buffer) /\ i.log = t \o u
  BY DEF Story
<1>2. PICK u : Tells(t, es) /\ Tells(u, i.buffer) /\ i.log = t \o u
  BY <1>1
<1>3. i.buffer = <<>> /\ <<>> \in Seq(Event)
  BY DEF Story
<1>4. u = <<>>
  <2>1. Tells(<<>>, <<>>)
    BY TellsEmpty
  <2>. QED  BY <1>2, <1>3, <2>1, TellsIsTold
<1>5. t \o <<>> = t
  BY <1>2, TellsType, ConcatEnds
<1>. QED  BY <1>2, <1>4, <1>5

\* When the buffer is published all is told.
LEMMA StoryDrained ==
  ASSUME NEW es \in Seq(Event), NEW i \in Instance, Story(i, es)
  PROVE  Tells(i.log, es \o i.buffer) /\ Story(Drained(i), es \o i.buffer)
<1>0. i.buffer \in Seq(Event) /\ i.log \in Seq(Commands) /\ es \o i.buffer \in Seq(Event)
  BY SeqTypesOf
<1>1. PICK t : \E u : Tells(t, es) /\ Tells(u, i.buffer) /\ i.log = t \o u
  BY DEF Story
<1>2. Tells(i.log, es \o i.buffer)
  BY <1>0, <1>1, TellsConcat
<1>3. /\ Drained(i).log = i.log /\ Drained(i).endedBy = i.endedBy /\ Drained(i).buffer = <<>>
      /\ <<>> \in Seq(Event) /\ i.log \o <<>> = i.log
  BY <1>0, ConcatEnds DEF Drained
<1>4. Tells(<<>>, <<>>)
  BY TellsEmpty
<1>5. Heard(es, "game-ended") => Heard(es \o i.buffer, "game-ended")
  BY <1>0, HeardConcat
<1>. QED  BY <1>2, <1>3, <1>4, <1>5 DEF Story

\* What is executed waits to be told.
LEMMA ExecutedTells ==
  ASSUME NEW i \in Instance, NEW c \in Commands, NEW u, Tells(u, i.buffer)
  PROVE  /\ Tells(u \o <<c>>, Execute(i, c).buffer) /\ Tells(u \o <<c>>, ExecuteAndWin(i, c).buffer)
         /\ Heard(ExecuteAndWin(i, c).buffer, "game-ended")
<1> DEFINE a == GameEvent("applied", c, NextSeq(i))
           e == GameEvent("game-ended", c, NextSeq(i) + 1)
           b == Execute(i, c).buffer
           d == ExecuteAndWin(i, c).buffer
<1>1. /\ i.buffer \in Seq(Event) /\ b = Append(i.buffer, a) /\ d = Append(b, e)
      /\ a \in Event /\ e \in Event /\ b \in Seq(Event)
  BY ExecutedBuffers
<1>2. a.type = "applied" /\ a.cmd = c /\ e.type = "game-ended"
  BY DEF GameEvent
<1> HIDE DEF a, e, b, d
<1>3. b = i.buffer \o <<a>> /\ d = b \o <<e>> /\ <<a>> \in Seq(Event) /\ <<e>> \in Seq(Event)
  <2>1. b = i.buffer \o <<a>>
    BY <1>1, ConcatEnds
  <2>2. d = b \o <<e>>
    BY <1>1, ConcatEnds
  <2>. QED  BY <1>1, <2>1, <2>2
<1>4. Tells(<<c>>, <<a>>)
  BY <1>1, <1>2, TellsOne
<1>5. Tells(u \o <<c>>, b)
  BY <1>1, <1>3, <1>4, TellsConcat
<1>6. \A k \in DOMAIN <<e>> : <<e>>[k].type # "applied"
  BY <1>2
<1>7. Tells(u \o <<c>>, d)
  BY <1>1, <1>3, <1>5, <1>6, TellsQuiet
<1>8. Heard(<<e>>, "game-ended")
  <2>1. 1 \in DOMAIN <<e>> /\ <<e>>[1] = e
    OBVIOUS
  <2>. QED  BY <1>2, <2>1 DEF Heard
<1>9. Heard(d, "game-ended")
  <2>1. Heard(b \o <<e>>, "game-ended") <=> Heard(b, "game-ended") \/ Heard(<<e>>, "game-ended")
    BY <1>1, <1>3, HeardConcat
  <2>. QED  BY <1>3, <1>8, <2>1
<1>. QED  BY <1>5, <1>7, <1>9 DEF b, d

\* A command after the end waits in the buffer.
LEMMA StoryLate ==
  ASSUME NEW es \in Seq(Event), NEW i \in Instance, Story(i, es), i.endedBy # None, NEW c \in Commands
  PROVE  Story(Execute(i, c), es)
<1>1. PICK t : \E u : Tells(t, es) /\ Tells(u, i.buffer) /\ i.log = t \o u
  BY DEF Story
<1>2. PICK u : Tells(t, es) /\ Tells(u, i.buffer) /\ i.log = t \o u
  BY <1>1
<1>3. Tells(u \o <<c>>, Execute(i, c).buffer)
  BY <1>2, ExecutedTells
<1>4. Execute(i, c).log = Append(i.log, c) /\ Execute(i, c).endedBy = i.endedBy
  BY DEF Execute
<1>5. Append(i.log, c) = t \o (u \o <<c>>)
  <2> DEFINE X == Commands \cup {None}
  <2>1. t \in Seq(X) /\ u \in Seq(X) /\ c \in X
    BY <1>2, TellsType, SeqTypesOf
  <2> HIDE DEF X
  <2>2. Append(t \o u, c) = t \o (u \o <<c>>)
    <3>1. t \o u \in Seq(X) /\ <<c>> \in Seq(X)
      BY <2>1
    <3>2. Append(t \o u, c) = (t \o u) \o <<c>>
      BY <2>1, <3>1, ConcatEnds
    <3>3. (t \o u) \o <<c>> = t \o (u \o <<c>>)
      BY <2>1, <3>1, ConcatAssociative
    <3>. QED  BY <3>2, <3>3
  <2>. QED  BY <1>2, <2>2
<1>. QED  BY <1>2, <1>3, <1>4, <1>5 DEF Story

\* A command is applied, and announced at once.
LEMMA StoryAccepted ==
  ASSUME NEW es \in Seq(Event), NEW i \in Instance, Story(i, es), i.endedBy = None, NEW c \in Commands,
         NEW x \in {Execute(i, c), ExecuteAndWin(i, c)}
  PROVE  /\ Tells(i.log \o <<c>>, es \o x.buffer) /\ x.log = i.log \o <<c>>
         /\ Story(Drained(x), es \o x.buffer)
<1>0. /\ x \in Instance /\ x.buffer \in Seq(Event) /\ i.log \in Seq(Commands) /\ x.log = Append(i.log, c)
      /\ i.log \o <<c>> = x.log /\ es \o x.buffer \in Seq(Event)
  <2>1. x \in Instance
    BY InstanceTypes
  <2>2. x.log = Append(i.log, c)
    BY DEF Execute, ExecuteAndWin
  <2>3. x.buffer \in Seq(Event) /\ i.log \in Seq(Commands)
    BY <2>1, SeqTypesOf
  <2>. QED  BY <2>1, <2>2, <2>3, ConcatEnds
<1>1. Tells(i.log, es)
  BY StoryTold
<1>2. Tells(<<>>, i.buffer) /\ <<>> \o <<c>> = <<c>>
  <2>1. i.buffer = <<>> /\ <<>> \in Seq(Event)
    BY DEF Story
  <2>. QED  BY <2>1, TellsEmpty, ConcatEnds
<1>3. Tells(<<c>>, x.buffer) /\ (x = ExecuteAndWin(i, c) => Heard(x.buffer, "game-ended"))
  BY <1>2, ExecutedTells
<1>4. Tells(x.log, es \o x.buffer)
  <2>1. Tells(i.log \o <<c>>, es \o x.buffer)
    BY <1>0, <1>1, <1>3, TellsConcat
  <2>. QED  BY <1>0, <2>1
<1>5. x.endedBy # None => Heard(es \o x.buffer, "game-ended")
  <2>1. Execute(i, c).endedBy = None
    BY DEF Execute
  <2>. QED  BY <1>0, <1>3, <2>1, HeardConcat
<1>6. /\ Drained(x).log = x.log /\ Drained(x).endedBy = x.endedBy /\ Drained(x).buffer = <<>>
      /\ <<>> \in Seq(Event) /\ x.log \o <<>> = x.log
  BY <1>0, ConcatEnds DEF Drained
<1>7. Tells(<<>>, <<>>)
  BY TellsEmpty
<1>. QED  BY <1>0, <1>4, <1>5, <1>6, <1>7 DEF Story

-----------------------------------------------------------------------------
(* Memory, Redis and the events tell one story *)

\* Without a crash: what is in memory, in Redis and published is one story.
Tales ==
  crashes = 0 => \A r \in Replicas, g \in Games : live[r][g] # None =>
    Story(live[r][g], events[g]) /\ ViewsLead(pending[r], g, live[r][g], view[g])

\* Without a crash there is no view of a game whose message is not handled.
Unshown == crashes = 0 => \A g \in Games : status[g] \in Early => view[g] = None

\* A game starts when its message is acknowledged.
StartsOnce == \A g \in Games : Heard(events[g], "game-started") => status[g] \in {"acked", "rejected"}

LEMMA ViewsSame ==
  ASSUME NEW queue, NEW g, NEW i, NEW shown, ViewsLead(queue, g, i, shown), NEW j, j.log = i.log
  PROVE  ViewsLead(queue, g, j, shown)
  BY DEF ViewsLead

\* A view is stored by handlers of games that were created.
LEMMA UnshownStep ==
  ASSUME TypeOK, InHand, RemovedIsSilent, HomeOf, Unshown, [Next]_vars
  PROVE  Unshown'
<1> SUFFICES ASSUME crashes' = 0, NEW g \in Games, status'[g] \in Early  PROVE view'[g] = None
  BY DEF Unshown
<1>1. crashes = 0 /\ crashes' = crashes
  <2>1. crashes' = crashes \/ (crashes \in Nat /\ crashes' = crashes + 1)
    <3>1. ASSUME NEW r \in Replicas, Crash(r)  PROVE crashes' = crashes + 1
      BY <3>1, CrashEffects
    <3>2. crashes' = crashes \/ \E r \in Replicas : Crash(r)
      BY ZenonT(40) DEF Next, vars, Send, Deliver, Begin, Continue, BeginCreate, BeginForeign, Refuse, BeginCommand,
         BeginLate, Take, CreateSaved, CreateViewed, CommandSaved, CommandViewed, Loaded, Answered, RequestFails
    <3>. QED  BY <3>1, <3>2 DEF TypeOK
  <2>. QED  BY <2>1
<1>2. g \in Messages /\ GameOf(g) = g
  BY MessageTypes
<1>3. status[g] \in Early
  BY <1>1, <1>2, EarlyStays
<1>4. view[g] = None
  BY <1>1, <1>3 DEF Unshown
<1>5. ~ Written(g, "view", view'[g])
  <2>1. \A r \in Replicas : live[r][g] = None
    BY <1>3 DEF HomeOf, Early
  <2>2. \A r \in Replicas : \A k \in DOMAIN pending[r] :
          ~ (pending[r][k].kind = "view" /\ GameOf(pending[r][k].msg) = g)
    BY <2>1 DEF RemovedIsSilent
  <2>. QED  BY <2>2 DEF Written
<1>. QED  BY <1>4, <1>5, StoreWrites

\* A message that is acknowledged or rejected stays so.
LEMMA DoneStays ==
  ASSUME TypeOK, InHand, RemovedIsSilent, [Next]_vars, NEW x \in Messages,
         status[x] \in {"acked", "rejected"}
  PROVE  status'[x] \in {"acked", "rejected"}
<1>1. ASSUME NEW r \in Replicas, NEW m \in Messages,
             Begun(r, m) \/ Declined(r, m) \/ Continued(r, m) \/ Finished(r, m)
      PROVE  status'[x] \in {"acked", "rejected"}
  <2>1. Begun(r, m) => status[m] = "delivered"
    BY KindFates
  <2>2. Continued(r, m) => status' = status
    BY DEF Continued, broker
  <2>3. Declined(r, m) \/ Finished(r, m) => status'[m] \in {"acked", "rejected"}
    BY KindFates
  <2>4. m # x => status'[x] = status[x]
    BY <1>1, KindFates
  <2>. QED  BY <1>1, <2>1, <2>2, <2>3, <2>4
<1>2. ASSUME NEW r \in Replicas, Begin(r) \/ Continue(r) \/ \E m \in Messages : RequestFails(r, m)
      PROVE  status'[x] \in {"acked", "rejected"}
  BY <1>1, <1>2, ActionKinds, MessageTypes DEF Begin, Continue
<1>3. ASSUME NEW r \in Replicas, Deliver(r)  PROVE status'[x] \in {"acked", "rejected"}
  <2>1. PICK i \in DOMAIN sent : /\ status[sent[i]] = "ready"
                                 /\ status' = [status EXCEPT ![sent[i]] = "delivered"]
    BY <1>3 DEF Deliver, DeliveredOnce, FirstReady
  <2>. QED  BY <2>1 DEF TypeOK
<1>4. ASSUME NEW r \in Replicas, Crash(r)  PROVE status'[x] \in {"acked", "rejected"}
  BY <1>4 DEF Crash
<1>5. ASSUME NEW m \in Messages, Send(m)  PROVE status'[x] \in {"acked", "rejected"}
  BY <1>5 DEF Send, TypeOK
<1>. QED  BY <1>2, <1>3, <1>4, <1>5 DEF Next, vars, broker

LEMMA StartsOnceStep ==
  ASSUME TypeOK, InHand, RemovedIsSilent, Plain, StartsOnce, [Next]_vars
  PROVE  StartsOnce'
<1> SUFFICES ASSUME NEW g \in Games, Heard(events'[g], "game-started")
             PROVE  status'[g] \in {"acked", "rejected"}
  BY DEF StartsOnce
<1>1. events[g] \in Seq(Event) /\ g \in Messages
  BY MessageTypes DEF TypeOK
<1>2. CASE Heard(events[g], "game-started")
  BY <1>1, <1>2, DoneStays DEF StartsOnce
<1>3. CASE ~ Heard(events[g], "game-started")
  <2>1. \A b : PlainBuffer(b) => ~ Heard(b, "game-started")
    BY DEF PlainBuffer, Heard
  <2>2. ASSUME NEW b \in Seq(Event), events'[g] = events[g] \o b, ~ Heard(b, "game-started")  PROVE FALSE
    BY <1>1, <1>3, <2>2, HeardConcat
  <2>3. ASSUME events'[g] = events[g]  PROVE FALSE
    BY <1>3, <2>3
  <2>4. ASSUME NEW r \in Replicas, NEW c \in Commands, Refuse(r, c)  PROVE FALSE
    <3>1. <<EngineEvent("error", c, None)>> \in Seq(Event)
          /\ ~ Heard(<<EngineEvent("error", c, None)>>, "game-started")
      BY EventTypes DEF EngineEvent, Heard
    <3>2. /\ Local(r, Target[c])
          /\ events'[Target[c]] = events[Target[c]] \o <<EngineEvent("error", c, None)>>
      BY <2>4, BeginEffects
    <3>. QED  BY <2>2, <2>3, <3>1, <3>2 DEF Local
  <2>5. ASSUME NEW r \in Replicas, NEW c \in Commands, BeginCommand(r, c)  PROVE FALSE
    <3>1. Local(r, Target[c]) /\ live[r][Target[c]] \in Instance
      BY <2>5, CommandEffects
    <3>2. PICK i \in {Execute(live[r][Target[c]], c), ExecuteAndWin(live[r][Target[c]], c)} :
            i \in Instance /\ events'[Target[c]] = events[Target[c]] \o i.buffer
      BY <2>5, CommandEffects
    <3>3. PlainBuffer(live[r][Target[c]].buffer)
      BY <3>1, MessageTypes, NoneAssumption DEF Plain
    <3>4. PlainBuffer(i.buffer) /\ i.buffer \in Seq(Event)
      BY <3>1, <3>2, <3>3, PlainExecuted, SeqTypesOf
    <3>. QED  BY <2>1, <2>2, <2>3, <3>1, <3>2, <3>4 DEF Local
  <2>6. ASSUME NEW r \in Replicas, NEW h \in Games, CreateSaved(r, h)  PROVE FALSE
    <3>1. /\ Local(r, h) /\ live[r][h] \in Instance
          /\ events'[h] = events[h] \o live[r][h].buffer
      BY <2>6, ContinueEffects
    <3>2. PlainBuffer(live[r][h].buffer) /\ live[r][h].buffer \in Seq(Event)
      BY <3>1, SeqTypesOf, NoneAssumption DEF Plain
    <3>. QED  BY <2>1, <2>2, <2>3, <3>1, <3>2 DEF Local
  <2>7. ASSUME NEW r \in Replicas, NEW h \in Games, CreateViewed(r, h)
        PROVE  status'[g] \in {"acked", "rejected"}
    <3>1. Local(r, h) /\ status'[h] = "acked"
      BY <2>7, MessageTypes, ContinueEffects DEF CreateViewed, Finish, TypeOK
    <3>. QED  BY <2>3, <3>1 DEF Local
  <2>8. \/ events' = events
        \/ \E r \in Replicas : \/ \E c \in Commands : Refuse(r, c) \/ BeginCommand(r, c)
                               \/ \E h \in Games : CreateSaved(r, h) \/ CreateViewed(r, h)
    BY ZenonT(40) DEF Next, vars, Send, Deliver, Begin, Continue, BeginCreate, BeginForeign, BeginLate,
       CommandSaved, CommandViewed, Loaded, RequestFails, Crash
  <2>. QED  BY <2>3, <2>4, <2>5, <2>6, <2>7, <2>8
<1>. QED  BY <1>2, <1>3

\* One game changes on one replica, and its story goes on.
LEMMA TalesLocally ==
  ASSUME TypeOK, OneOwner, Tales, crashes = 0,
         NEW r \in Replicas, NEW g \in Games, Local(r, g), Moves(pending[r], pending'[r], g),
         (events'[g] = events[g] /\ view'[g] = view[g]) \/ live[r][g] # None,
         live'[r][g] # None =>
           Story(live'[r][g], events'[g]) /\ ViewsLead(pending'[r], g, live'[r][g], view'[g])
  PROVE  Tales'
<1> SUFFICES ASSUME NEW s \in Replicas, NEW h \in Games, live'[s][h] # None
             PROVE  Story(live'[s][h], events'[h]) /\ ViewsLead(pending'[s], h, live'[s][h], view'[h])
  BY DEF Tales
<1>1. \A t \in Replicas, d \in Games : live[t][d] # None =>
        Story(live[t][d], events[d]) /\ ViewsLead(pending[t], d, live[t][d], view[d])
  BY DEF Tales
<1>2. CASE s = r /\ h = g
  BY <1>2
<1>3. CASE s = r /\ h # g
  <2>1. live'[r][h] = live[r][h] /\ events'[h] = events[h] /\ view'[h] = view[h]
    BY <1>3 DEF Local
  <2>2. live[r][h] \in Instance /\ pending[r] \in Seq(Request)
    BY <1>3, <2>1 DEF TypeOK
  <2>3. Story(live[r][h], events[h]) /\ ViewsLead(pending[r], h, live[r][h], view[h])
    BY <1>1, <1>3, <2>1
  <2>4. live[r][h].log \in Seq(Commands)
    BY <2>2, SeqTypesOf
  <2>5. ViewsLead(pending'[r], h, live[r][h], view[h])
    BY <1>3, <2>2, <2>3, <2>4, ViewsElsewhere
  <2>. QED  BY <1>3, <2>1, <2>3, <2>5
<1>4. CASE s # r /\ h = g
  <2>1. pending'[s] = pending[s] /\ live'[s] = live[s]
    BY <1>4 DEF Local
  <2>2. live[r][g] = None
    BY <1>4, <2>1 DEF OneOwner
  <2>. QED  BY <1>1, <1>4, <2>1, <2>2
<1>5. CASE s # r /\ h # g
  <2>1. /\ pending'[s] = pending[s] /\ live'[s] = live[s]
        /\ events'[h] = events[h] /\ view'[h] = view[h]
    BY <1>5 DEF Local
  <2>. QED  BY <1>1, <2>1
<1>. QED  BY <1>2, <1>3, <1>4, <1>5

\* A game in memory and what is known of it.
LEMMA TaleOf ==
  ASSUME TypeOK, Proper, Tales, crashes = 0, NEW r \in Replicas, NEW g \in Games, live[r][g] # None
  PROVE  /\ live[r][g] \in Instance /\ live[r][g].log \in Seq(Commands)
         /\ Story(live[r][g], events[g]) /\ ViewsLead(pending[r], g, live[r][g], view[g])
         /\ pending[r] \in Seq(Request) /\ events[g] \in Seq(Event) /\ view[g] \in Snapshot \cup {None}
         /\ \A k \in DOMAIN pending[r] : Writes(pending[r][k], g, "view") => pending[r][k].value \in Snapshot
<1>1. live[r][g] \in Instance
  BY DEF TypeOK
<1>2. \A k \in DOMAIN pending[r] : Writes(pending[r][k], g, "view") => pending[r][k].value \in Snapshot
  <2>1. \A k \in DOMAIN pending[r] : pending[r][k] \in Request /\ ProperRequest(pending[r][k])
    BY RequestMessages DEF Proper
  <2>2. \A q \in Request : q.value \in Snapshot \cup {None}
    BY DEF Request
  <2>. QED  BY <2>1, <2>2 DEF ProperRequest, Writes
<1>. QED  BY <1>1, <1>2, SeqTypesOf DEF TypeOK, Tales

\* A handler begins.
LEMMA TalesBegin ==
  ASSUME TypeOK, InHand, HomeOf, OneOwner, RemovedIsSilent, Proper, EventsCounted, Unshown, Tales,
         crashes = 0, NEW r \in Replicas, Begin(r)
  PROVE  Tales'
<1>1. ASSUME NEW g \in Games, BeginCreate(r, g)  PROVE Tales'
  <2> DEFINE q == Req(g, "save", SnapshotOf(Fresh))
  <2>1. /\ Local(r, g) /\ live'[r][g] = Fresh /\ pending'[r] = Append(pending[r], q)
        /\ events' = events /\ view' = view
    BY <1>1, BeginEffects
  <2>2. g \in Messages /\ GameOf(g) = g /\ q \in Request /\ q.msg = g /\ ~ Writes(q, g, "view")
    BY InstanceTypes, MessageTypes, ProperValues DEF Req, Writes
  <2>3. status[g] = "delivered"
    BY <1>1, <2>2, ActionKinds, KindFates
  <2>4. events[g] = <<>> /\ view[g] = None
    BY <2>3 DEF EventsCounted, Unshown, Early
  <2>5. NoWrite(pending[r], g, "view") /\ pending[r] \in Seq(Request)
    <3>1. live[r][g] = None
      BY <2>3 DEF HomeOf
    <3>. QED  BY <3>1 DEF RemovedIsSilent, NoWrite, Writes, TypeOK
  <2> HIDE DEF q
  <2>6. Fresh.log \in Seq(Commands) /\ ViewsLead(pending[r], g, Fresh, None)
    BY <2>5, ViewsNone DEF Fresh
  <2>7. ViewsLead(Append(pending[r], q), g, Fresh, None)
    BY <2>2, <2>5, <2>6, ViewsAppend
  <2>8. Moves(pending[r], pending'[r], g)
    BY <2>1, <2>2 DEF Moves
  <2>9. Story(live'[r][g], events'[g]) /\ ViewsLead(pending'[r], g, live'[r][g], view'[g])
    BY <2>1, <2>4, <2>7, StoryFresh
  <2>. QED  BY <2>1, <2>8, <2>9, TalesLocally
<1>2. ASSUME NEW c \in Commands, BeginForeign(r, c)  PROVE Tales'
  <2> DEFINE g == Target[c]
             q == Req(c, "load", None)
  <2>1. /\ Local(r, g) /\ live' = live /\ live[r][g] = None
        /\ pending'[r] = Append(pending[r], q) /\ view' = view /\ events' = events
    BY <1>2, BeginEffects DEF BeginForeign
  <2>2. g \in Games /\ q \in Request /\ GameOf(q.msg) = g
    BY MessageTypes, ProperValues DEF Req
  <2> HIDE DEF q, g
  <2>3. Moves(pending[r], pending'[r], g)
    BY <2>1, <2>2 DEF Moves
  <2>. QED  BY <2>1, <2>2, <2>3, TalesLocally
<1>3. ASSUME NEW c \in Commands, Refuse(r, c)  PROVE Tales'
  <2> DEFINE g == Target[c]
             es == <<EngineEvent("error", c, None)>>
  <2>1. /\ Local(r, g) /\ live' = live /\ pending' = pending /\ view' = view
        /\ events'[g] = events[g] \o es /\ live[r][g] # None /\ g \in Games
    BY <1>3, BeginEffects, MessageTypes DEF Refuse
  <2>2. es \in Seq(Event) /\ \A k \in DOMAIN es : es[k].type # "applied"
    BY EventTypes DEF EngineEvent
  <2> HIDE DEF g, es
  <2>3. /\ Story(live[r][g], events[g]) /\ ViewsLead(pending[r], g, live[r][g], view[g])
        /\ events[g] \in Seq(Event)
    BY <2>1, TaleOf
  <2>4. Story(live[r][g], events'[g])
    BY <2>1, <2>2, <2>3, StoryQuiet
  <2>5. Moves(pending[r], pending'[r], g)
    BY <2>1 DEF Moves
  <2>. QED  BY <2>1, <2>3, <2>4, <2>5, TalesLocally
<1>4. ASSUME NEW c \in Commands, BeginLate(r, c)  PROVE Tales'
  <2> DEFINE g == Target[c]
             i == live[r][g]
  <2>1. /\ Local(r, g) /\ i # None /\ i.endedBy # None
        /\ live'[r][g] = Execute(i, c) /\ pending' = pending /\ view' = view /\ events' = events
        /\ g \in Games
    BY <1>4, BeginEffects, MessageTypes
  <2>2. /\ i \in Instance /\ i.log \in Seq(Commands)
        /\ Story(i, events[g]) /\ ViewsLead(pending[r], g, i, view[g])
        /\ pending[r] \in Seq(Request) /\ events[g] \in Seq(Event) /\ view[g] \in Snapshot \cup {None}
        /\ \A k \in DOMAIN pending[r] : Writes(pending[r][k], g, "view") => pending[r][k].value \in Snapshot
    BY <2>1, TaleOf
  <2>3. Execute(i, c).log = Append(i.log, c)
    BY DEF Execute
  <2> HIDE DEF g, i
  <2>4. Story(Execute(i, c), events[g])
    BY <2>1, <2>2, StoryLate
  <2>5. ViewsLead(pending[r], g, Execute(i, c), view[g])
    BY <2>2, <2>3, ViewsLonger
  <2>6. Moves(pending[r], pending'[r], g)
    BY <2>1 DEF Moves
  <2>. QED  BY <2>1, <2>4, <2>5, <2>6, TalesLocally DEF i
<1>5. ASSUME NEW c \in Commands, BeginCommand(r, c)  PROVE Tales'
  <2> DEFINE g == Target[c]
             old == live[r][g]
  <2>1. /\ Local(r, g) /\ old \in Instance /\ old.endedBy = None /\ old # None /\ view' = view
        /\ g \in Games /\ c \in Messages /\ GameOf(c) = g
    BY <1>5, CommandEffects, MessageTypes, NoneAssumption
  <2>2. PICK i \in {Execute(old, c), ExecuteAndWin(old, c)} :
          /\ i \in Instance /\ live'[r][g] = Drained(i)
          /\ pending'[r] = Append(pending[r], Req(c, "save", SnapshotOf(i)))
          /\ events'[g] = events[g] \o i.buffer
    BY <1>5, CommandEffects
  <2> DEFINE q == Req(c, "save", SnapshotOf(i))
  <2>3. /\ old.log \in Seq(Commands)
        /\ Story(old, events[g]) /\ ViewsLead(pending[r], g, old, view[g])
        /\ pending[r] \in Seq(Request) /\ events[g] \in Seq(Event) /\ view[g] \in Snapshot \cup {None}
        /\ \A k \in DOMAIN pending[r] : Writes(pending[r][k], g, "view") => pending[r][k].value \in Snapshot
    BY <2>1, TaleOf
  <2>4. q \in Request /\ q.msg = c /\ ~ Writes(q, g, "view")
    BY <2>1, <2>2, InstanceTypes, ProperValues DEF Req, Writes
  <2>5. Execute(old, c).log = Append(old.log, c) /\ ExecuteAndWin(old, c).log = Append(old.log, c)
    BY DEF Execute, ExecuteAndWin
  <2> HIDE DEF g, old, q
  <2>6. Story(Drained(i), events[g] \o i.buffer)
    BY <2>1, <2>3, StoryAccepted
  <2>7. Drained(i).log = Append(old.log, c) /\ Drained(i).log \in Seq(Commands)
    <3>1. Drained(i).log = i.log /\ i.log = Append(old.log, c)
      BY <2>5 DEF Drained
    <3>. QED  BY <2>2, <3>1, SeqTypesOf
  <2>8. ViewsLead(pending[r], g, Drained(i), view[g])
    BY <2>3, <2>7, ViewsLonger
  <2>9. ViewsLead(Append(pending[r], q), g, Drained(i), view[g])
    BY <2>3, <2>4, <2>7, <2>8, ViewsAppend
  <2>10. Moves(pending[r], pending'[r], g)
    BY <2>1, <2>2, <2>4 DEF Moves, q
  <2>11. Story(live'[r][g], events'[g]) /\ ViewsLead(pending'[r], g, live'[r][g], view'[g])
    BY <2>1, <2>2, <2>6, <2>9 DEF q
  <2>. QED  BY <2>1, <2>10, <2>11, TalesLocally DEF old
<1>. QED  BY <1>1, <1>2, <1>3, <1>4, <1>5 DEF Begin

\* A handler goes on or fails.
LEMMA TalesContinue ==
  ASSUME TypeOK, InHand, OneOwner, RemovedIsSilent, Proper, Tales, crashes = 0,
         NEW r \in Replicas, Continue(r) \/ \E m \in Messages : RequestFails(r, m)
  PROVE  Tales'
<1>1. ASSUME NEW m \in Messages, NEW g \in Games, GameOf(m) = g, live[r][g] \in Instance,
             Local(r, g), pending[r] # <<>>, pending[r][1].msg = m,
             pending'[r] = Append(Tail(pending[r]), Req(m, "view", ViewFor(live[r][g], m))),
             view' = view, NEW new \in Instance, new.log = live[r][g].log, live'[r][g] = new,
             Story(new, events'[g])
      PROVE  Tales'
  <2> DEFINE q == Req(m, "view", ViewFor(live[r][g], m))
             i == live[r][g]
  <2>1. i # None /\ new.log \in Seq(Commands)
    BY <1>1, NoneAssumption, SeqTypesOf
  <2>2. q \in Request /\ q.msg = m /\ q.value.log = new.log
    <3>1. ViewFor(live[r][g], m) \in Snapshot \cup {None}
      BY <1>1 DEF ViewFor, Instance, Snapshot
    <3>. QED  BY <1>1, <3>1, ProperValues DEF Req, ViewFor
  <2>3. pending[r] \in Seq(Request) /\ ViewsLead(pending[r], g, i, view[g])
    BY <2>1, TaleOf
  <2> HIDE DEF q, i
  <2>4. Tail(pending[r]) \in Seq(Request) /\ ViewsLead(Tail(pending[r]), g, i, view[g])
    BY <1>1, <2>3, ViewsTail, TailFacts
  <2>5. ViewsLead(Tail(pending[r]), g, new, view[g])
    BY <1>1, <2>4, ViewsSame DEF i
  <2>6. ViewsLead(Append(Tail(pending[r]), q), g, new, view[g])
    BY <2>1, <2>2, <2>4, <2>5, ViewsAppend
  <2>7. Moves(pending[r], pending'[r], g)
    BY <1>1, <2>2 DEF Moves, q
  <2>8. live[r][g] # None /\ ViewsLead(pending'[r], g, live'[r][g], view'[g])
    BY <1>1, <2>1, <2>6 DEF q, i
  <2>. QED  BY <1>1, <2>7, <2>8, TalesLocally
<1>2. ASSUME NEW m \in Messages, NEW g \in Games, GameOf(m) = g,
             Local(r, g), pending[r] # <<>>, pending[r][1].msg = m,
             pending'[r] = Tail(pending[r]),
             \/ view'[g] = view[g]
             \/ live[r][g] # None /\ pending[r][1].kind = "view" /\ view'[g] = pending[r][1].value,
             live'[r][g] = live[r][g] \/ (live[r][g] # None /\ live'[r][g] = None),
             live[r][g] # None => Story(live[r][g], events'[g]),
             events'[g] = events[g] \/ live[r][g] # None
      PROVE  Tales'
  <2>1. Moves(pending[r], pending'[r], g)
    BY <1>2 DEF Moves
  <2>2. ASSUME live'[r][g] # None  PROVE ViewsLead(pending'[r], g, live'[r][g], view'[g])
    <3>1. live[r][g] # None /\ live'[r][g] = live[r][g]
      BY <1>2, <2>2
    <3>2. pending[r] \in Seq(Request) /\ ViewsLead(pending[r], g, live[r][g], view[g])
      BY <3>1, TaleOf
    <3>3. pending[r][1].kind = "view" => Writes(pending[r][1], g, "view")
      BY <1>2 DEF Writes
    <3>. QED  BY <1>2, <3>1, <3>2, <3>3, ViewsTail
  <2>3. live'[r][g] # None => Story(live'[r][g], events'[g])
    BY <1>2
  <2>4. (events'[g] = events[g] /\ view'[g] = view[g]) \/ live[r][g] # None
    BY <1>2
  <2>. QED  BY <1>2, <2>1, <2>2, <2>3, <2>4, TalesLocally
<1>3. ASSUME NEW g \in Games, CreateSaved(r, g)  PROVE Tales'
  <2>1. /\ Local(r, g)
        /\ pending[r] # <<>> /\ pending[r][1].msg = g
        /\ live[r][g] \in Instance /\ live'[r][g] = Drained(live[r][g])
        /\ pending'[r] = Append(Tail(pending[r]), Req(g, "view", ViewFor(live[r][g], g)))
        /\ view' = view /\ events'[g] = events[g] \o live[r][g].buffer
    BY <1>3, ContinueEffects
  <2>2. g \in Messages /\ GameOf(g) = g
    BY MessageTypes
  <2>3. Drained(live[r][g]) \in Instance /\ Drained(live[r][g]).log = live[r][g].log
    BY <2>1, InstanceTypes DEF Drained
  <2>4. Story(live[r][g], events[g]) /\ events[g] \in Seq(Event)
    BY <2>1, TaleOf, NoneAssumption
  <2>5. Story(Drained(live[r][g]), events'[g])
    BY <2>1, <2>4, StoryDrained
  <2>. QED  BY <1>1, <2>1, <2>2, <2>3, <2>5
<1>4. ASSUME NEW g \in Games, CreateViewed(r, g)  PROVE Tales'
  <2> DEFINE es == <<EngineEvent("game-started", None, pending[r][1].value)>>
  <2>1. /\ Local(r, g)
        /\ pending[r] # <<>> /\ pending[r][1].msg = g /\ pending[r][1].kind = "view"
        /\ live[r][g] \in Instance /\ live' = live
        /\ pending'[r] = Tail(pending[r]) /\ view'[g] = pending[r][1].value
        /\ events'[g] = events[g] \o es
    BY <1>4, ContinueEffects
  <2>2. g \in Messages /\ GameOf(g) = g /\ live[r][g] # None
    BY <2>1, MessageTypes, NoneAssumption
  <2>3. es \in Seq(Event) /\ \A k \in DOMAIN es : es[k].type # "applied"
    <3>1. pending[r][1] \in Request
      BY <2>1, HeadTypes
    <3>2. pending[r][1].value \in Snapshot \cup {None}
      BY <3>1 DEF Request
    <3>3. EngineEvent("game-started", None, pending[r][1].value) \in Event
      BY <3>2 DEF EngineEvent, Event
    <3>. QED  BY <3>3 DEF EngineEvent
  <2> HIDE DEF es
  <2>4. Story(live[r][g], events[g]) /\ events[g] \in Seq(Event)
    BY <2>2, TaleOf
  <2>5. Story(live[r][g], events'[g])
    BY <2>1, <2>3, <2>4, StoryQuiet
  <2>. QED  BY <1>2, <2>1, <2>2, <2>5
<1>5. ASSUME NEW c \in Commands, CommandSaved(r, c)  PROVE Tales'
  <2> DEFINE g == Target[c]
  <2>1. /\ Local(r, g)
        /\ pending[r] # <<>> /\ pending[r][1].msg = c
        /\ live[r][g] \in Instance /\ live' = live
        /\ pending'[r] = Append(Tail(pending[r]), Req(c, "view", ViewFor(live[r][g], c)))
        /\ view' = view /\ events' = events
    BY <1>5, ContinueEffects
  <2>2. c \in Messages /\ GameOf(c) = g /\ g \in Games
    BY MessageTypes
  <2> HIDE DEF g
  <2>3. Story(live[r][g], events[g])
    BY <2>1, <2>2, TaleOf, NoneAssumption
  <2>. QED  BY <1>1, <2>1, <2>2, <2>3
<1>6. ASSUME NEW c \in Commands, CommandViewed(r, c)  PROVE Tales'
  <2> DEFINE g == Target[c]
  <2>1. /\ Local(r, g)
        /\ pending[r] # <<>> /\ pending[r][1].msg = c /\ pending[r][1].kind = "view"
        /\ live[r][g] \in Instance
        /\ live'[r][g] = None \/ live'[r][g] = live[r][g]
        /\ pending'[r] = Tail(pending[r])
        /\ view'[g] = pending[r][1].value /\ events' = events
    BY <1>6, ContinueEffects
  <2>2. c \in Messages /\ GameOf(c) = g /\ g \in Games
    BY MessageTypes
  <2> HIDE DEF g
  <2>3. live[r][g] # None /\ Story(live[r][g], events[g])
    BY <2>1, <2>2, TaleOf, NoneAssumption
  <2>. QED  BY <1>2, <2>1, <2>2, <2>3
<1>7. ASSUME NEW m \in Messages, NEW g \in Games, GameOf(m) = g,
             Local(r, g), pending[r] # <<>>, pending[r][1].msg = m, pending'[r] = Tail(pending[r]),
             live' = live, view' = view, events' = events
      PROVE  Tales'
  <2>1. live[r][g] # None => Story(live[r][g], events[g])
    BY TaleOf
  <2>. QED  BY <1>2, <1>7, <2>1
<1>8. ASSUME NEW c \in Commands, Loaded(r, c)  PROVE Tales'
  <2>1. /\ Local(r, Target[c]) /\ pending[r] # <<>> /\ pending[r][1].msg = c
        /\ pending'[r] = Tail(pending[r]) /\ live' = live /\ view' = view /\ events' = events
    BY <1>8, ContinueEffects
  <2>. QED  BY <1>7, <2>1, MessageTypes
<1>9. ASSUME NEW m \in Messages, RequestFails(r, m)  PROVE Tales'
  <2>1. /\ Local(r, GameOf(m)) /\ pending[r] # <<>> /\ pending[r][1].msg = m
        /\ pending'[r] = Tail(pending[r]) /\ live' = live /\ view' = view /\ events' = events
    BY <1>9, ContinueEffects
  <2>. QED  BY <1>7, <2>1, MessageTypes
<1>. QED  BY <1>3, <1>4, <1>5, <1>6, <1>8, <1>9 DEF Continue

LEMMA TalesStep ==
  ASSUME TypeOK, InHand, HomeOf, OneOwner, RemovedIsSilent, Proper, EventsCounted, Unshown, Tales, [Next]_vars
  PROVE  Tales'
<1>1. CASE crashes' # 0
  BY <1>1 DEF Tales
<1>2. ASSUME pending' = pending, live' = live, view' = view, events' = events, crashes' = crashes
      PROVE  Tales'
  BY <1>2 DEF Tales
<1>3. ASSUME NEW r \in Replicas, Crash(r)  PROVE crashes' # 0
  BY <1>3, CrashEffects DEF TypeOK
<1>4. ASSUME NEW r \in Replicas, Begin(r) \/ Continue(r) \/ \E m \in Messages : RequestFails(r, m)
      PROVE  crashes' = crashes
  BY <1>4, ZenonT(40) DEF Begin, Continue, BeginCreate, BeginForeign, Refuse, BeginCommand,
     BeginLate, Take, CreateSaved, CreateViewed, CommandSaved, CommandViewed, Loaded, Answered, RequestFails
<1>. QED  BY <1>1, <1>2, <1>3, <1>4, TalesBegin, TalesContinue DEF Next, Send, Deliver, vars

-----------------------------------------------------------------------------
(* The steps of GameLog *)

LEMMA HeardOrNot == \A es, type : Heard(es, type) \in BOOLEAN
  BY DEF Heard

\* A step that stutters.
LEMMA PromiseKept ==
  ASSUME NEW g \in Games, Told(events'[g]) = Told(events[g]),
         \A type \in {"game-ended", "game-started"} : Heard(events'[g], type) <=> Heard(events[g], type),
         view'[g] = view[g], crashes' = crashes
  PROVE  UNCHANGED Promise(g)!log
<1>1. \A type \in {"game-ended", "game-started"} : Heard(events'[g], type) = Heard(events[g], type)
  BY HeardOrNot
<1>. QED  BY <1>1 DEF Promise!log

\* After a crash nothing is promised.
LEMMA PromiseBroken ==
  ASSUME NEW g \in Games, crashes' > 0
  PROVE  Promise(g)!LogNext
  BY DEF Promise!LogNext, Promise!Fault

LEMMA RestOfConcat ==
  ASSUME NEW S, NEW t \in Seq(S), NEW u \in Seq(S), u # <<>>
  PROVE  SubSeq(t \o u, Len(t) + 1, Len(t \o u)) = u
<1>1. /\ Len(t) \in Nat /\ Len(u) \in Nat /\ Len(u) > 0 /\ t \o u \in Seq(S)
      /\ Len(t \o u) = Len(t) + Len(u) /\ DOMAIN (t \o u) = 1 .. Len(t) + Len(u)
  BY ConcatFacts
<1>2. SubSeq(t \o u, Len(t) + 1, Len(t) + Len(u)) = SubSeq(u, 1, Len(u))
  <2>1. Len(t) + 1 \in Len(t) + 1 .. Len(t) + Len(u) /\ Len(t) + Len(u) \in Len(t) + 1 .. Len(t) + Len(u)
    BY <1>1
  <2>2. SubSeq(t \o u, Len(t) + 1, Len(t) + Len(u)) = SubSeq(u, Len(t) + 1 - Len(t), Len(t) + Len(u) - Len(t))
    BY <2>1, SubSeqOfConcat2
  <2>3. Len(t) + 1 - Len(t) = 1 /\ Len(t) + Len(u) - Len(t) = Len(u)
    BY <1>1
  <2>. QED  BY <2>2, <2>3
<1>3. SubSeq(u, 1, Len(u)) = u
  BY SubSeqFull
<1>. QED  BY <1>1, <1>2, <1>3

\* Commands are announced.
LEMMA PromiseTell ==
  ASSUME NEW g \in Games, events[g] \in Seq(Event), events'[g] \in Seq(Event),
         NEW S, NEW t \in Seq(S), NEW u \in Seq(S), u # <<>>,
         Tells(t, events[g]), Tells(t \o u, events'[g]),
         \A i, j \in DOMAIN (t \o u) : (t \o u)[i] = (t \o u)[j] => i = j,
         NEW ends \in BOOLEAN,
         Heard(events'[g], "game-ended") <=> Heard(events[g], "game-ended") \/ ends,
         Heard(events'[g], "game-started") <=> Heard(events[g], "game-started"),
         view'[g] = view[g], view[g] # None => Before(view[g].log, t \o u), crashes' = crashes
  PROVE  Promise(g)!LogNext
<1>1. Told(events[g]) = t /\ Told(events'[g]) = t \o u
  BY TellsIsTold
<1>2. SubSeq(t \o u, Len(t) + 1, Len(t \o u)) = u
  BY RestOfConcat
<1> DEFINE all == t \o u
<1>3. Promise(g)!Once(all)
  BY DEF Promise!Once
<1>4. view[g] # None => Promise(g)!Fits(view[g].log, all, Heard(events[g], "game-ended"))
  BY DEF Promise!Fits, Promise!Leads, Before
<1>5. (IF view[g] = None THEN None ELSE view[g].log) # None => view[g] # None
  OBVIOUS
<1>6. Promise(g)!Tell(u, ends)
  <2>1. /\ Heard(events'[g], "game-ended") = (Heard(events[g], "game-ended") \/ ends)
        /\ Heard(events'[g], "game-started") = Heard(events[g], "game-started")
    BY HeardOrNot
  <2>. QED  BY <1>1, <1>3, <1>4, <1>5, <2>1 DEF Promise!Tell
<1>. QED  BY <1>1, <1>2, <1>6 DEF Promise!LogNext

\* A view of the game that comes after the one that is stored.
LEMMA PromiseKeep ==
  ASSUME NEW g \in Games, events[g] \in Seq(Event), NEW v \in Snapshot, view'[g] = v,
         view[g] # None => Before(view[g].log, v.log),
         NEW S, NEW t \in Seq(S), NEW u \in Seq(S), Tells(t, events[g]), Before(v.log, t \o u),
         u # <<>> => Heard(events[g], "game-ended")
  PROVE  Promise(g)!Keep(v.log) /\ v.log # None /\ (IF view'[g] = None THEN None ELSE view'[g].log) = v.log
<1>1. Told(events[g]) = t
  BY TellsIsTold
<1>2. v # None /\ v.log # None /\ v.log \in Seq(Commands)
  BY NoneAssumption DEF Snapshot
<1>3. Promise(g)!Fits(v.log, t, Heard(events[g], "game-ended"))
  <2>1. CASE u = <<>>
    <3>1. t \o u = t
      BY <2>1, ConcatEnds
    <3>. QED  BY <3>1 DEF Promise!Fits, Promise!Leads, Before
  <2>2. CASE u # <<>>
    <3>1. /\ Len(v.log) \in Nat /\ Len(t) \in Nat /\ DOMAIN t = 1 .. Len(t)
          /\ \A i \in 1 .. Len(t) : (t \o u)[i] = t[i]
          /\ \A i \in 1 .. Len(v.log) : v.log[i] = (t \o u)[i]
      BY <1>2, ConcatFacts DEF Before
    <3>2. CASE Len(v.log) <= Len(t)
      BY <3>1, <3>2 DEF Promise!Fits, Promise!Leads
    <3>3. CASE Len(t) <= Len(v.log)
      BY <2>2, <3>1, <3>3 DEF Promise!Fits, Promise!Leads
    <3>. QED  BY <3>1, <3>2, <3>3
  <2>. QED  BY <2>1, <2>2
<1>4. view[g] # None => Promise(g)!Leads(view[g].log, v.log)
  BY DEF Promise!Leads, Before
<1>5. (IF view[g] = None THEN None ELSE view[g].log) # None => view[g] # None
  OBVIOUS
<1>6. (IF view'[g] = None THEN None ELSE view'[g].log) = v.log
  BY <1>2
<1>. QED  BY <1>1, <1>2, <1>3, <1>4, <1>5, <1>6 DEF Promise!Keep

\* A view is stored, and the start is announced or not.
LEMMA PromiseStore ==
  ASSUME NEW g \in Games, NEW v, Promise(g)!Keep(v), v # None,
         (IF view'[g] = None THEN None ELSE view'[g].log) = v,
         Told(events'[g]) = Told(events[g]), crashes' = crashes,
         Heard(events'[g], "game-ended") <=> Heard(events[g], "game-ended"),
         \/ Heard(events'[g], "game-started") <=> Heard(events[g], "game-started")
         \/ ~ Heard(events[g], "game-started") /\ Heard(events'[g], "game-started")
  PROVE  Promise(g)!LogNext
<1>0. (IF view[g] = None THEN None ELSE view[g].log)' = v
  OBVIOUS
<1>1. Heard(events'[g], "game-ended") = Heard(events[g], "game-ended")
  BY HeardOrNot
<1>2. CASE Heard(events'[g], "game-started") <=> Heard(events[g], "game-started")
  <2>1. Heard(events'[g], "game-started") = Heard(events[g], "game-started")
    BY <1>2, HeardOrNot
  <2>2. Promise(g)!Store(v)
    BY <1>1, <2>1 DEF Promise!Store
  <2>. QED  BY <1>0, <2>2 DEF Promise!LogNext, Promise!Store, Promise!Keep
<1>3. CASE ~ Heard(events[g], "game-started") /\ Heard(events'[g], "game-started")
  <2>1. Heard(events'[g], "game-started") = TRUE
    BY <1>3, HeardOrNot
  <2>2. Promise(g)!Start(v)
    BY <1>1, <1>3, <2>1 DEF Promise!Start
  <2>. QED  BY <1>0, <2>2 DEF Promise!LogNext, Promise!Start, Promise!Keep
<1>. QED  BY <1>2, <1>3

\* handleCommand announces the command it applied.
LEMMA PromiseAccept ==
  ASSUME TypeOK, TypeOK', AppliedOnce', Proper, Tales, crashes = 0,
         NEW r \in Replicas, NEW c \in Commands, BeginCommand(r, c)
  PROVE  Promise(Target[c])!LogNext
<1> DEFINE g == Target[c]
           old == live[r][g]
<1>1. /\ Local(r, g) /\ old \in Instance /\ old.endedBy = None /\ old # None /\ view' = view /\ g \in Games
  BY CommandEffects, MessageTypes, NoneAssumption
<1>2. PICK i \in {Execute(old, c), ExecuteAndWin(old, c)} :
        /\ i \in Instance /\ live'[r][g] = Drained(i) /\ events'[g] = events[g] \o i.buffer
  BY CommandEffects
<1>3. /\ old.log \in Seq(Commands) /\ Story(old, events[g])
      /\ ViewsLead(pending[r], g, old, view[g]) /\ events[g] \in Seq(Event) /\ view[g] \in Snapshot \cup {None}
      /\ events'[g] \in Seq(Event)
  BY <1>1, TaleOf DEF TypeOK
<1> HIDE DEF g, old
<1>4. /\ Tells(old.log, events[g]) /\ Tells(old.log \o <<c>>, events'[g])
      /\ i.log = old.log \o <<c>> /\ <<c>> \in Seq(Commands) /\ <<c>> # <<>>
  <2>1. Tells(old.log, events[g])
    BY <1>1, <1>3, StoryTold
  <2>2. Tells(old.log \o <<c>>, events[g] \o i.buffer) /\ i.log = old.log \o <<c>>
    BY <1>1, <1>3, StoryAccepted
  <2>3. <<c>> \in Seq(Commands) /\ <<c>> # <<>>
    OBVIOUS
  <2>. QED  BY <1>2, <2>1, <2>2, <2>3
<1>5. \A j, k \in DOMAIN (old.log \o <<c>>) : (old.log \o <<c>>)[j] = (old.log \o <<c>>)[k] => j = k
  <2>1. Drained(i) # None /\ Drained(i).log = old.log \o <<c>>
    BY <1>2, <1>4, InstanceTypes, NoneAssumption DEF Drained
  <2>. QED  BY <1>1, <1>2, <2>1 DEF AppliedOnce
<1>6. ~ Heard(i.buffer, "game-started")
  <2>1. old.buffer = <<>>
    BY <1>1, <1>3 DEF Story
  <2>2. PlainBuffer(old.buffer)
    BY <2>1 DEF PlainBuffer
  <2>3. PlainBuffer(i.buffer)
    BY <1>1, <2>2, PlainExecuted
  <2>. QED  BY <2>3 DEF PlainBuffer, Heard
<1>7. \A type : Heard(events'[g], type) <=> Heard(events[g], type) \/ Heard(i.buffer, type)
  BY <1>2, <1>3, SeqTypesOf, HeardConcat
<1>8. view[g] # None => Before(view[g].log, old.log \o <<c>>)
  <2>1. ASSUME view[g] # None  PROVE Before(view[g].log, old.log \o <<c>>)
    <3>1. Before(view[g].log, old.log) /\ view[g].log \in Seq(Commands)
      BY <1>3, <2>1 DEF ViewsLead, Snapshot
    <3>2. /\ Len(view[g].log) \in Nat /\ Len(old.log) \in Nat /\ DOMAIN old.log = 1 .. Len(old.log)
          /\ Len(old.log \o <<c>>) = Len(old.log) + 1
          /\ \A k \in DOMAIN old.log : (old.log \o <<c>>)[k] = old.log[k]
      BY <1>3, <1>4, <3>1, ConcatFacts
    <3>. QED  BY <3>1, <3>2 DEF Before
  <2>. QED  BY <2>1
<1>9. Heard(i.buffer, "game-ended") \in BOOLEAN
  BY HeardOrNot
<1>10. view'[g] = view[g] /\ crashes' = crashes
  BY <1>1 DEF Local
<1>11. Promise(g)!LogNext
  BY <1>1, <1>3, <1>4, <1>5, <1>6, <1>7, <1>8, <1>9, <1>10, PromiseTell
<1>. QED  BY <1>11 DEF g

\* createGame flushes what late commands of a game that was won left behind.
LEMMA PromiseFlush ==
  ASSUME TypeOK, TypeOK', AppliedOnce', RemovedIsSilent, Proper, Plain, Tales, crashes = 0,
         NEW r \in Replicas, NEW g \in Games, CreateSaved(r, g)
  PROVE  Promise(g)!LogNext \/ UNCHANGED Promise(g)!log
<1> DEFINE i == live[r][g]
<1>1. /\ Local(r, g) /\ i \in Instance /\ i # None /\ live'[r][g] = Drained(i) /\ view' = view
      /\ events'[g] = events[g] \o i.buffer
  <2>1. /\ Local(r, g) /\ i \in Instance /\ live'[r][g] = Drained(i) /\ view' = view
        /\ events'[g] = events[g] \o i.buffer
    BY ContinueEffects
  <2> HIDE DEF i
  <2>. QED  BY <2>1, NoneAssumption
<1>2. /\ i.log \in Seq(Commands) /\ Story(i, events[g])
      /\ ViewsLead(pending[r], g, i, view[g]) /\ events[g] \in Seq(Event)
      /\ events'[g] \in Seq(Event) /\ i.buffer \in Seq(Event) /\ PlainBuffer(i.buffer)
  BY <1>1, TaleOf, SeqTypesOf DEF TypeOK, Plain
<1> HIDE DEF i
<1>3. PICK t : \E u : Tells(t, events[g]) /\ Tells(u, i.buffer) /\ i.log = t \o u
  BY <1>2 DEF Story
<1>4. PICK u : Tells(t, events[g]) /\ Tells(u, i.buffer) /\ i.log = t \o u
  BY <1>3
<1>5. Tells(t \o u, events'[g])
  BY <1>1, <1>2, <1>4, StoryDrained
<1>6. t \in Seq(Commands \cup {None}) /\ u \in Seq(Commands \cup {None})
  BY <1>2, <1>4, TellsType
<1>7. /\ Heard(events'[g], "game-started") <=> Heard(events[g], "game-started")
      /\ Heard(events'[g], "game-ended") <=> Heard(events[g], "game-ended")
  <2>1. \A type : Heard(events'[g], type) <=> Heard(events[g], type) \/ Heard(i.buffer, type)
    BY <1>1, <1>2, HeardConcat
  <2>2. ~ Heard(i.buffer, "game-started")
    BY <1>2 DEF PlainBuffer, Heard
  <2>3. i.endedBy = None => ~ Heard(i.buffer, "game-ended")
    <3>1. i.endedBy = None => i.buffer = <<>>
      BY <1>2 DEF Story
    <3>. QED  BY <3>1 DEF Heard
  <2>4. i.endedBy # None => Heard(events[g], "game-ended")
    BY <1>2 DEF Story
  <2>. QED  BY <2>1, <2>2, <2>3, <2>4
<1>8. view'[g] = view[g] /\ crashes' = crashes
  BY <1>1 DEF Local
<1>9. CASE u = <<>>
  <2>1. t \o u = t
    BY <1>6, <1>9, ConcatEnds
  <2>2. Told(events'[g]) = Told(events[g])
    BY <1>2, <1>4, <1>5, <2>1, TellsIsTold
  <2>3. \A type \in {"game-ended", "game-started"} : Heard(events'[g], type) <=> Heard(events[g], type)
    BY <1>7
  <2>. QED  BY <1>8, <2>2, <2>3, PromiseKept
<1>10. CASE u # <<>>
  <2>1. \A j, k \in DOMAIN (t \o u) : (t \o u)[j] = (t \o u)[k] => j = k
    <3>1. Drained(i) # None /\ Drained(i).log = t \o u
      BY <1>1, <1>4, InstanceTypes, NoneAssumption DEF Drained
    <3>. QED  BY <1>1, <3>1 DEF AppliedOnce
  <2>2. view[g] # None => Before(view[g].log, t \o u)
    BY <1>2, <1>4 DEF ViewsLead
  <2>3. Heard(events'[g], "game-ended") <=> Heard(events[g], "game-ended") \/ FALSE
    BY <1>7
  <2>. QED  BY <1>2, <1>4, <1>5, <1>6, <1>7, <1>8, <1>10, <2>1, <2>2, <2>3, PromiseTell
<1>. QED  BY <1>9, <1>10

\* A handler stores the view.
LEMMA PromiseShow ==
  ASSUME TypeOK, Proper, Tales, crashes = 0,
         NEW r \in Replicas, NEW g \in Games, live[r][g] # None,
         pending[r] # <<>>, Writes(pending[r][1], g, "view"), view'[g] = pending[r][1].value, crashes' = crashes,
         Told(events'[g]) = Told(events[g]),
         Heard(events'[g], "game-ended") <=> Heard(events[g], "game-ended"),
         \/ Heard(events'[g], "game-started") <=> Heard(events[g], "game-started")
         \/ ~ Heard(events[g], "game-started") /\ Heard(events'[g], "game-started")
  PROVE  Promise(g)!LogNext
<1> DEFINE i == live[r][g]
           v == pending[r][1].value
<1>1. /\ i.log \in Seq(Commands) /\ Story(i, events[g])
      /\ ViewsLead(pending[r], g, i, view[g]) /\ events[g] \in Seq(Event) /\ pending[r] \in Seq(Request)
      /\ \A k \in DOMAIN pending[r] : Writes(pending[r][k], g, "view") => pending[r][k].value \in Snapshot
  BY TaleOf
<1>2. 1 \in DOMAIN pending[r]
  BY <1>1, HeadTypes
<1>3. v \in Snapshot /\ Before(v.log, i.log) /\ (view[g] # None => Before(view[g].log, v.log))
  BY <1>1, <1>2 DEF ViewsLead
<1> HIDE DEF i, v
<1>4. PICK t : \E u : Tells(t, events[g]) /\ Tells(u, i.buffer) /\ i.log = t \o u
  BY <1>1 DEF Story
<1>5. PICK u : Tells(t, events[g]) /\ Tells(u, i.buffer) /\ i.log = t \o u
  BY <1>4
<1>6. i.buffer \in Seq(Event)
  BY SeqTypesOf DEF TypeOK, i
<1>7. t \in Seq(Commands \cup {None}) /\ u \in Seq(Commands \cup {None})
  BY <1>1, <1>5, <1>6, TellsType
<1>8. u # <<>> => Heard(events[g], "game-ended")
  <2>1. ASSUME i.endedBy = None  PROVE u = <<>>
    <3>1. i.buffer = <<>>
      BY <1>1, <2>1 DEF Story
    <3>. QED  BY <1>5, <1>6, <3>1, TellsEmpty, TellsIsTold
  <2>. QED  BY <1>1, <2>1 DEF Story
<1>9. view'[g] = v /\ Before(v.log, t \o u)
  BY <1>3, <1>5 DEF v
<1>10. Promise(g)!Keep(v.log) /\ v.log # None /\ (IF view'[g] = None THEN None ELSE view'[g].log) = v.log
  BY <1>1, <1>3, <1>5, <1>7, <1>8, <1>9, PromiseKeep
<1>. QED  BY <1>10, PromiseStore

\* Events that tell of no command leave what was told.
LEMMA PromiseQuiet ==
  ASSUME TypeOK, Proper, Tales, crashes = 0, NEW r \in Replicas, NEW g \in Games, live[r][g] # None,
         NEW b \in Seq(Event), \A k \in DOMAIN b : b[k].type \notin {"applied", "game-ended"},
         events'[g] = events[g] \o b
  PROVE  /\ Told(events'[g]) = Told(events[g])
         /\ Heard(events'[g], "game-ended") <=> Heard(events[g], "game-ended")
         /\ Heard(events'[g], "game-started") <=> Heard(events[g], "game-started") \/ Heard(b, "game-started")
<1> DEFINE i == live[r][g]
<1>1. Story(i, events[g]) /\ events[g] \in Seq(Event)
  BY TaleOf
<1> HIDE DEF i
<1>2. PICK t : \E u : Tells(t, events[g]) /\ Tells(u, i.buffer) /\ i.log = t \o u
  BY <1>1 DEF Story
<1>3. events'[g] \in Seq(Event)
  BY <1>1, ConcatFacts
<1>4. Tells(t, events'[g])
  BY <1>1, <1>2, TellsQuiet
<1>5. Told(events'[g]) = t /\ Told(events[g]) = t
  BY <1>1, <1>2, <1>3, <1>4, TellsIsTold
<1>6. ~ Heard(b, "game-ended")
  BY DEF Heard
<1>7. \A type : Heard(events'[g], type) <=> Heard(events[g], type) \/ Heard(b, type)
  BY <1>1, HeardConcat
<1>. QED  BY <1>5, <1>6, <1>7

\* No command of the game is told of and its view stays.
LEMMA PromiseIdle ==
  ASSUME NEW g \in Games, events'[g] = events[g], view'[g] = view[g], crashes' = crashes
  PROVE  UNCHANGED Promise(g)!log
  BY PromiseKept

\* A step of one game is none of another.
LEMMA PromiseElsewhere ==
  ASSUME NEW r \in Replicas, NEW h \in Games, Local(r, h), NEW g \in Games, g # h
  PROVE  UNCHANGED Promise(g)!log
<1>1. events'[g] = events[g] /\ view'[g] = view[g] /\ crashes' = crashes
  BY DEF Local
<1>. QED  BY <1>1, PromiseIdle

LEMMA PromiseBegin ==
  ASSUME TypeOK, TypeOK', AppliedOnce', Proper, Tales, crashes = 0,
         NEW r \in Replicas, Begin(r), NEW g \in Games
  PROVE  Promise(g)!LogNext \/ UNCHANGED Promise(g)!log
<1>1. ASSUME NEW h \in Games, BeginCreate(r, h)  PROVE UNCHANGED Promise(g)!log
  <2>1. events' = events /\ view' = view /\ crashes' = crashes
    BY <1>1, BeginEffects DEF Local
  <2>. QED  BY <2>1, PromiseIdle
<1>2. ASSUME NEW c \in Commands, BeginForeign(r, c) \/ BeginLate(r, c)  PROVE UNCHANGED Promise(g)!log
  <2>1. events' = events /\ view' = view /\ crashes' = crashes
    BY <1>2, BeginEffects DEF Local
  <2>. QED  BY <2>1, PromiseIdle
<1>3. ASSUME NEW c \in Commands, Refuse(r, c)  PROVE UNCHANGED Promise(g)!log
  <2> DEFINE h == Target[c]
             es == <<EngineEvent("error", c, None)>>
  <2>1. /\ Local(r, h) /\ view' = view /\ crashes' = crashes
        /\ events'[h] = events[h] \o es /\ live[r][h] # None /\ h \in Games
    BY <1>3, BeginEffects, MessageTypes DEF Refuse, Local
  <2>2. /\ es \in Seq(Event) /\ \A k \in DOMAIN es : es[k].type \notin {"applied", "game-ended"}
        /\ ~ Heard(es, "game-started")
    BY EventTypes DEF EngineEvent, Heard
  <2> HIDE DEF h, es
  <2>3. CASE g = h
    <3>1. /\ Told(events'[g]) = Told(events[g])
          /\ Heard(events'[g], "game-ended") <=> Heard(events[g], "game-ended")
          /\ Heard(events'[g], "game-started") <=> Heard(events[g], "game-started") \/ Heard(es, "game-started")
      BY <2>1, <2>2, <2>3, PromiseQuiet
    <3>. QED  BY <2>1, <2>2, <3>1, PromiseKept
  <2>. QED  BY <2>1, <2>3, PromiseElsewhere
<1>4. ASSUME NEW c \in Commands, BeginCommand(r, c)  PROVE Promise(g)!LogNext \/ UNCHANGED Promise(g)!log
  <2>1. Local(r, Target[c]) /\ Target[c] \in Games
    BY <1>4, CommandEffects, MessageTypes
  <2>2. CASE g = Target[c]
    <3>1. Promise(Target[c])!LogNext
      BY <1>4, PromiseAccept
    <3>. QED  BY <2>2, <3>1
  <2>. QED  BY <2>1, <2>2, PromiseElsewhere
<1>. QED  BY <1>1, <1>2, <1>3, <1>4 DEF Begin

LEMMA PromiseContinue ==
  ASSUME TypeOK, TypeOK', InHand, AppliedOnce', RemovedIsSilent, Proper, Plain, Tales, StartsOnce, crashes = 0,
         NEW r \in Replicas, Continue(r), NEW g \in Games
  PROVE  Promise(g)!LogNext \/ UNCHANGED Promise(g)!log
<1>1. ASSUME NEW h \in Games, CreateSaved(r, h)  PROVE Promise(g)!LogNext \/ UNCHANGED Promise(g)!log
  <2>1. Local(r, h)
    BY <1>1, ContinueEffects
  <2>2. CASE g = h
    BY <1>1, <2>2, PromiseFlush
  <2>. QED  BY <2>1, <2>2, PromiseElsewhere
<1>2. ASSUME NEW h \in Games, CreateViewed(r, h)  PROVE Promise(g)!LogNext \/ UNCHANGED Promise(g)!log
  <2> DEFINE es == <<EngineEvent("game-started", None, pending[r][1].value)>>
  <2>1. /\ Local(r, h) /\ crashes' = crashes
        /\ pending[r] # <<>> /\ pending[r][1].msg = h /\ pending[r][1].kind = "view"
        /\ live[r][h] # None /\ view'[h] = pending[r][1].value
        /\ events'[h] = events[h] \o es
    <3>1. /\ Local(r, h)
          /\ pending[r] # <<>> /\ pending[r][1].msg = h /\ pending[r][1].kind = "view"
          /\ live[r][h] \in Instance /\ view'[h] = pending[r][1].value
          /\ events'[h] = events[h] \o es
      BY <1>2, ContinueEffects
    <3>. QED  BY <3>1, NoneAssumption DEF Local
  <2>2. /\ es \in Seq(Event) /\ \A k \in DOMAIN es : es[k].type \notin {"applied", "game-ended"}
        /\ Heard(es, "game-started")
    <3>1. pending[r][1] \in Request
      BY <2>1, HeadTypes
    <3>2. pending[r][1].value \in Snapshot \cup {None}
      BY <3>1 DEF Request
    <3>3. EngineEvent("game-started", None, pending[r][1].value) \in Event
      BY <3>2 DEF EngineEvent, Event
    <3>4. 1 \in DOMAIN es
      OBVIOUS
    <3>. QED  BY <3>3, <3>4 DEF EngineEvent, Heard
  <2> HIDE DEF es
  <2>3. CASE g = h
    <3>1. /\ Told(events'[h]) = Told(events[h])
          /\ Heard(events'[h], "game-ended") <=> Heard(events[h], "game-ended")
          /\ Heard(events'[h], "game-started") <=> Heard(events[h], "game-started") \/ Heard(es, "game-started")
      BY <2>1, <2>2, PromiseQuiet
    <3>2. ~ Heard(events[h], "game-started")
      <4>1. status[h] = "handling"
        BY <2>1, HeadTypes DEF InHand
      <4>. QED  BY <4>1 DEF StartsOnce
    <3>3. Writes(pending[r][1], h, "view")
      BY <2>1, MessageTypes DEF Writes
    <3>4. Promise(h)!LogNext
      BY <2>1, <2>2, <3>1, <3>2, <3>3, PromiseShow
    <3>. QED  BY <2>3, <3>4
  <2>. QED  BY <2>1, <2>3, PromiseElsewhere
<1>3. ASSUME NEW c \in Commands, CommandSaved(r, c) \/ Loaded(r, c)  PROVE UNCHANGED Promise(g)!log
  <2>1. events' = events /\ view' = view /\ crashes' = crashes
    BY <1>3, ContinueEffects DEF Local
  <2>. QED  BY <2>1, PromiseIdle
<1>4. ASSUME NEW c \in Commands, CommandViewed(r, c)  PROVE Promise(g)!LogNext \/ UNCHANGED Promise(g)!log
  <2> DEFINE h == Target[c]
  <2>1. /\ Local(r, h) /\ crashes' = crashes /\ h \in Games
        /\ pending[r] # <<>> /\ Writes(pending[r][1], h, "view")
        /\ live[r][h] # None /\ view'[h] = pending[r][1].value /\ events' = events
    <3>1. /\ Local(r, h)
          /\ pending[r] # <<>> /\ pending[r][1].msg = c /\ pending[r][1].kind = "view"
          /\ live[r][h] \in Instance /\ view'[h] = pending[r][1].value /\ events' = events
      BY <1>4, ContinueEffects
    <3>2. h \in Games /\ GameOf(c) = h
      BY MessageTypes
    <3>. QED  BY <3>1, <3>2, NoneAssumption DEF Local, Writes
  <2> HIDE DEF h
  <2>2. CASE g = h
    <3>1. Promise(h)!LogNext
      BY <2>1, PromiseShow
    <3>. QED  BY <2>2, <3>1
  <2>. QED  BY <2>1, <2>2, PromiseElsewhere
<1>. QED  BY <1>1, <1>2, <1>3, <1>4 DEF Continue

\* Every step of the engine is one of GameLog, or a stutter.
LEMMA PromiseStep ==
  ASSUME TypeOK, TypeOK', InHand, AppliedOnce', RemovedIsSilent, Proper, Plain, Tales, StartsOnce,
         [Next]_vars, NEW g \in Games
  PROVE  Promise(g)!LogNext \/ UNCHANGED Promise(g)!log
<1>1. CASE crashes' > 0
  BY <1>1, PromiseBroken
<1>2. CASE ~ crashes' > 0
  <2>1. ASSUME NEW r \in Replicas, Crash(r)  PROVE FALSE
    BY <1>2, <2>1, CrashEffects DEF TypeOK
  <2>2. ASSUME events' = events, view' = view, crashes' = crashes  PROVE UNCHANGED Promise(g)!log
    BY <2>2, PromiseIdle
  <2>3. ASSUME NEW r \in Replicas, Begin(r) \/ Continue(r)  PROVE crashes' = crashes
    BY <2>3, ZenonT(40) DEF Begin, Continue, BeginCreate, BeginForeign, Refuse, BeginCommand,
       BeginLate, Take, CreateSaved, CreateViewed, CommandSaved, CommandViewed, Loaded, Answered
  <2>4. ASSUME NEW r \in Replicas, Begin(r) \/ Continue(r)
        PROVE  Promise(g)!LogNext \/ UNCHANGED Promise(g)!log
    <3>1. crashes = 0
      BY <1>2, <2>3, <2>4 DEF TypeOK
    <3>. QED  BY <2>4, <3>1, PromiseBegin, PromiseContinue
  <2>5. \/ \E r \in Replicas : Begin(r) \/ Continue(r) \/ Crash(r)
        \/ events' = events /\ view' = view /\ crashes' = crashes
    BY DEF Next, vars, Send, Deliver, RequestFails
  <2>. QED  BY <2>1, <2>2, <2>4, <2>5
<1>. QED  BY <1>1, <1>2

-----------------------------------------------------------------------------
(* The refinement *)

\* The inductive invariant under which the engine keeps its promise.
PromiseInv == StoreInv /\ Tales /\ Unshown /\ StartsOnce

LEMMA PromiseInvHolds == Spec => []PromiseInv
<1>1. ASSUME Init  PROVE PromiseInv
  <2>1. Tales /\ Unshown
    BY <1>1 DEF Init, Tales, Unshown
  <2>2. StartsOnce
    BY <1>1 DEF Init, StartsOnce, Heard
  <2>. QED  BY <1>1, <2>1, <2>2, InitStored DEF PromiseInv
<1>2. ASSUME PromiseInv, StoreInv', [Next]_vars  PROVE PromiseInv'
  <2>1. /\ TypeOK /\ InHand /\ RemovedIsSilent /\ HomeOf /\ OneOwner /\ Proper /\ Plain /\ EventsCounted
        /\ Tales /\ Unshown /\ StartsOnce
    BY <1>2 DEF PromiseInv, StoreInv, EngineInv
  <2>2. Tales' /\ Unshown' /\ StartsOnce'
    BY <1>2, <2>1, TalesStep, UnshownStep, StartsOnceStep
  <2>. QED  BY <1>2, <2>2 DEF PromiseInv
<1>. QED  BY <1>1, <1>2, StoreInvHolds, PTL DEF Spec

LEMMA PromiseBegins ==
  ASSUME Init, NEW g \in Games
  PROVE  Promise(g)!LogInit
<1>1. events[g] = <<>> /\ view[g] = None /\ crashes = 0 /\ <<>> \in Seq(Event)
  BY DEF Init
<1>2. Told(<<>>) = <<>>
  BY <1>1, TellsEmpty, TellsIsTold
<1>3. \A type : Heard(<<>>, type) = FALSE
  BY DEF Heard
<1>4. (crashes > 0) = FALSE
  BY <1>1
<1>. QED  BY <1>1, <1>2, <1>3, <1>4 DEF Promise!LogInit

\* As long as no replica dies the engine implements GameLog for every game,
\* whatever fails and however the handlers interleave: a command is announced
\* once and in the order in which it was applied, the stored view only goes
\* forward, through states of the game that were announced unless the game is
\* over, and there is a view when the start is announced
\* (engine.service.ts:49-65, 112-128).
THEOREM EngineKeepsItsPromise == Spec => KeepsItsPromise
<1>1. Init => \A g \in Games : Promise(g)!LogInit
  BY PromiseBegins
<1>2. PromiseInv /\ PromiseInv' /\ [Next]_vars =>
        [\A g \in Games : Promise(g)!LogNext \/ UNCHANGED Promise(g)!log]_vars
  <2> SUFFICES ASSUME PromiseInv, PromiseInv', [Next]_vars
               PROVE  \A g \in Games : Promise(g)!LogNext \/ UNCHANGED Promise(g)!log
    OBVIOUS
  <2>1. /\ TypeOK /\ InHand /\ RemovedIsSilent /\ Proper /\ Plain /\ Tales /\ StartsOnce
        /\ TypeOK' /\ AppliedOnce'
    BY DEF PromiseInv, StoreInv, EngineInv
  <2>. QED  BY <2>1, PromiseStep
<1>. QED  BY <1>1, <1>2, PromiseInvHolds, PTL DEF Spec, KeepsItsPromise
=============================================================================
