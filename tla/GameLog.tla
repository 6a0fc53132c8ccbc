------------------------------ MODULE GameLog ------------------------------
(***************************************************************************)
(* What the game engine promises the clients of one game, as long as no    *)
(* replica dies, whatever else fails: commands are announced in the order  *)
(* they were applied in, each once; the view that is stored is one of the  *)
(* states on the way, and never goes back; it has no command that was not  *)
(* announced as long as the game is not over; and there is a view when the *)
(* start is announced, which it is at most once.                           *)
(***************************************************************************)
EXTENDS Sequences, Naturals

CONSTANTS Commands, None

VARIABLES
  told,       \* the commands whose events were published, in order
  over,       \* the end of the game was announced
  stored,     \* the commands in the stored view, None if there is no view yet
  started,    \* the start of the game was announced
  faulty      \* a replica died

log == <<told, over, stored, started, faulty>>

\* The commands s come first in t.
Leads(s, t) == Len(s) <= Len(t) /\ \A i \in 1 .. Len(s) : s[i] = t[i]

LogInit ==
  /\ told = <<>> /\ over = FALSE
  /\ stored = None
  /\ started = FALSE /\ faulty = FALSE

Once(t) == \A i, j \in DOMAIN t : t[i] = t[j] => i = j

\* Behind the end, commands may have been applied that nobody was told of;
\* they may yet be announced.
Fits(v, t, ended) == Leads(v, t) \/ (ended /\ Leads(t, v))

Tell(cs, ends) ==
  /\ cs # <<>> /\ told' = told \o cs /\ Once(told')
  /\ over' = (over \/ ends)
  /\ stored # None => Fits(stored, told', over)
  /\ UNCHANGED <<stored, started, faulty>>

Keep(v) ==
  /\ Fits(v, told, over)
  /\ stored # None => Leads(stored, v)
  /\ stored' = v

Store(v) == Keep(v) /\ UNCHANGED <<told, over, started, faulty>>

\* The first view may be stored in the same step.
Start(v) ==
  /\ ~ started /\ started' = TRUE
  /\ Keep(v)
  /\ UNCHANGED <<told, over, faulty>>

\* No promise is made from here on.
Fault == faulty'

LogNext ==
  \/ \E ends \in BOOLEAN : Tell(SubSeq(told', Len(told) + 1, Len(told')), ends)
  \/ stored' # None /\ (Store(stored') \/ Start(stored'))
  \/ Fault

LogSpec == LogInit /\ [][LogNext]_log
=============================================================================
