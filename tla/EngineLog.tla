----------------------------- MODULE EngineLog -----------------------------
(***************************************************************************)
(* The engine keeps the promises of GameLog for every game.                *)
(***************************************************************************)
EXTENDS Engine

\* Where the events es tell of a command.
Tellings(es) == { i \in DOMAIN es : es[i].type = "applied" }

\* The numbers of S in ascending order.
Lists(at, S) ==
  /\ \A i, j \in DOMAIN at : i < j => at[i] < at[j]
  /\ \A k \in S : \E i \in DOMAIN at : at[i] = k

Listing(S) == CHOOSE at \in [1 .. Cardinality(S) -> S] : Lists(at, S)

\* The commands the events es tell of, in order.
Told(es) ==
  LET at == Listing(Tellings(es)) IN [i \in 1 .. Cardinality(Tellings(es)) |-> es[at[i]].cmd]

Heard(es, type) == \E i \in DOMAIN es : es[i].type = type

Promise(g) == INSTANCE GameLog WITH
  told    <- Told(events[g]),
  over    <- Heard(events[g], "game-ended"),
  stored  <- IF view[g] = None THEN None ELSE view[g].log,
  started <- Heard(events[g], "game-started"),
  faulty  <- crashes > 0

\* Through every interleaving of handlers and answers of Redis, the engine
\* refines GameLog: commands are announced once and in the order in which they
\* were applied, and the stored view follows them without ever going back,
\* whatever request fails (engine.service.ts:49-65, 112-128).
KeepsItsPromise ==
  /\ \A g \in Games : Promise(g)!LogInit
  /\ [][\A g \in Games : Promise(g)!LogNext \/ UNCHANGED Promise(g)!log]_vars
=============================================================================
