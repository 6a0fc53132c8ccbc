---------------------------- MODULE LobbyClient ----------------------------
(***************************************************************************)
(* Browsers on the lobby: the store (store/lobby.ts), the page             *)
(* (LobbyPage.tsx) and the requests between them and the service.          *)
(*                                                                         *)
(* A request is sent, handled and answered in three steps, and requests of *)
(* one browser overtake each other.  A browser has at most one poll and    *)
(* MaxClicks other requests under way.  Users outside Browsers stand for   *)
(* browsers that do anything the service allows: the properties are about  *)
(* one browser and the service.                                            *)
(***************************************************************************)
EXTENDS Lobby

CONSTANTS
  None,
  Browsers,     \* users whose browser is modelled
  FormSizes,    \* maxPlayers that CreateRoomForm offers, 2 to 4
  MaxClicks, MaxGames, MaxFailures   \* bounds

ASSUME ClientAssumption ==
  /\ Browsers \subseteq Users
  /\ FormSizes \subseteq Sizes
  /\ MaxClicks \in Nat /\ MaxGames \in Nat /\ MaxFailures \in Nat

VARIABLES
  current,      \* user -> the room shown, in the store, or None
  place,        \* user -> "lobby", or the number of the game it was sent to
  clicks,       \* user -> requests of buttons under way
  poll,         \* user -> the poll under way, or None
  loading,      \* user -> RoomDetailPanel.loading
  left,         \* user -> rooms it left; for properties only
  failures      \* requests lost, and restarts, so far

browser == <<current, place, clicks, poll, loading, left>>
vars    == <<server, browser, failures>>

-----------------------------------------------------------------------------
(* Copies of rooms *)

\* What the panel of user u makes of RoomEntity.toDetail.
Detail(u, r, room) ==
  [room |-> r, game |-> room.game,
   isHost |-> room.host = u, isMember |-> u \in room.members, isReady |-> u \in room.ready,
   allReady |-> Cardinality(room.members) >= 2 /\ room.ready = room.members]

\* The panel is there while the page is and the store has a room.
PanelShown(u) == place[u] = 0 /\ current[u] # None

\* Mutant: a game that is starting is not looked for.
DestinationNever(u, d) == place[u]

\* A panel that shows a game that is starting sends its user there.
Destination(u, d) == IF place[u] = 0 /\ d # None THEN d.game ELSE place[u]

\* Requests of a panel that is gone: their answers find no flag to reset.
Orphaned(cs) == [i \in DOMAIN cs |-> [cs[i] EXCEPT !.mine = FALSE]]

\* The store gets another room or none, and the page follows.
Show(u, d, to, busy, cs) ==
  LET gone == d = None \/ to # 0
  IN  /\ current' = [current EXCEPT ![u] = d]
      /\ place' = [place EXCEPT ![u] = to]
      /\ loading' = [loading EXCEPT ![u] = busy /\ ~ gone]
      /\ clicks' = [clicks EXCEPT ![u] = IF gone THEN Orphaned(cs) ELSE cs]

-----------------------------------------------------------------------------
(* Requests of buttons *)

PanelOps == {"ready", "start", "leave", "close"}

Send(u, op, r, arg) ==
  /\ Len(clicks[u]) < MaxClicks
  /\ clicks' = [clicks EXCEPT ![u] =
                  Append(@, [op |-> op, room |-> r, arg |-> arg, mine |-> op \in PanelOps,
                             status |-> "sent", detail |-> None])]
  /\ loading' = [loading EXCEPT ![u] = @ \/ op \in PanelOps]
  /\ UNCHANGED <<server, current, place, poll, left, failures>>

\* The buttons of the panel, by the copy it shows.
ClickPanel(u) ==
  /\ PanelShown(u) /\ ~ loading[u]
  /\ LET d == current[u]
     IN  \/ d.isMember /\ Send(u, "ready", d.room, ~ d.isReady)
         \/ d.isHost /\ d.allReady /\ Send(u, "start", d.room, TRUE)
         \/ ~ d.isHost /\ d.isMember /\ Send(u, "leave", d.room, TRUE)
         \/ d.isHost /\ Send(u, "close", d.room, TRUE)

\* The form and the list of rooms.  A list may be as old as one likes, so
\* any room that was ever open may be in it.
ClickLobby(u) ==
  /\ place[u] = 0
  /\ \/ \E r \in RoomIds \ opened, size \in FormSizes : Send(u, "create", r, size)
     \/ \E r \in opened : Send(u, "join", r, TRUE)

May(u, q) ==
  CASE q.op = "create" -> q.room \notin opened
    [] q.op = "join"   -> MayJoin(u, q.room)
    [] q.op = "ready"  -> MaySetReady(u, q.room)
    [] q.op = "start"  -> MayStart(u, q.room) /\ Len(announced) < MaxGames
    [] q.op = "leave"  -> MayLeave(u, q.room)
    [] q.op = "close"  -> MayClose(u, q.room)

Do(u, q) ==
  \/ q.op = "create" /\ CreateRoom(u, q.room, q.arg)
  \/ q.op = "join"   /\ JoinRoom(u, q.room)
  \/ q.op = "ready"  /\ SetReady(u, q.room, q.arg)
  \/ q.op = "start"  /\ StartGame(u, q.room)
  \/ q.op = "leave"  /\ LeaveRoom(u, q.room)
  \/ q.op = "close"  /\ CloseRoom(u, q.room)

\* The service handles a request and answers with the room, or refuses.
Serve(u, i) ==
  LET q == clicks[u][i]
  IN  /\ q.status = "sent"
      /\ \/ /\ May(u, q) /\ Do(u, q)
            /\ clicks' = [clicks EXCEPT
                 ![u][i].status = "done",
                 ![u][i].detail = IF q.op \in {"leave", "close"} THEN None
                                          ELSE Detail(u, q.room, rooms'[q.room])]
            /\ left' = [left EXCEPT ![u] = IF q.op = "leave" THEN @ \cup {q.room} ELSE @]
         \/ /\ ~ May(u, q) /\ UNCHANGED server
            /\ clicks' = [clicks EXCEPT ![u][i].status = "refused"] /\ UNCHANGED left
      /\ UNCHANGED <<current, place, poll, loading, failures>>

\* A request or its answer is lost; the browser sees an error either way.
Lose(u, i) ==
  /\ failures < MaxFailures /\ failures' = failures + 1
  /\ clicks[u][i].status \in {"sent", "done"}
  /\ clicks' = [clicks EXCEPT ![u][i].status = "refused", ![u][i].detail = None]
  /\ UNCHANGED <<server, current, place, poll, loading, left>>

Removed(s, i) == SubSeq(s, 1, i - 1) \o SubSeq(s, i + 1, Len(s))

\* The store's and the button's reaction to an answer.  Leaving and closing
\* leave the flag set when they succeed; starting goes to the game from
\* wherever the user is by then.
React(u, i) ==
  LET q    == clicks[u][i]
      rest == Removed(clicks[u], i)
      idle == loading[u] /\ ~ q.mine
  IN  /\ \/ /\ q.status = "refused"
            /\ Show(u, current[u], place[u], idle, rest)
         \/ /\ q.status = "done" /\ q.op \in {"create", "join", "ready"}
            /\ Show(u, q.detail, Destination(u, q.detail), idle, rest)
         \/ /\ q.status = "done" /\ q.op = "start"
            /\ Show(u, q.detail, q.detail.game, idle, rest)
         \/ /\ q.status = "done" /\ q.op \in {"leave", "close"}
            /\ Show(u, IF current[u] # None /\ current[u].room = q.room THEN None ELSE current[u],
                    place[u], loading[u], rest)
      /\ UNCHANGED <<server, poll, left, failures>>

-----------------------------------------------------------------------------
(* Polls *)

\* The interval of the panel.
SendPoll(u) ==
  /\ PanelShown(u) /\ poll[u] = None
  /\ poll' = [poll EXCEPT ![u] = [room |-> current[u].room, status |-> "sent", detail |-> None]]
  /\ UNCHANGED <<server, current, place, clicks, loading, left, failures>>

ServePoll(u) ==
  /\ poll[u] # None /\ poll[u].status = "sent"
  /\ poll' = [poll EXCEPT
       ![u].status = IF Exists(poll[u].room) THEN "done" ELSE "not found",
       ![u].detail = IF Exists(poll[u].room)
                  THEN Detail(u, poll[u].room, rooms[poll[u].room]) ELSE None]
  /\ UNCHANGED <<server, current, place, clicks, loading, left, failures>>

\* refreshCurrent shows what the answer says, whatever is shown by then.
ReactToPoll(u) ==
  /\ poll[u] # None /\ poll[u].status # "sent"
  /\ LET d == poll[u].detail
     IN  Show(u, d, Destination(u, d), loading[u], clicks[u])
  /\ poll' = [poll EXCEPT ![u] = None]
  /\ UNCHANGED <<server, left, failures>>

LosePoll(u) ==
  /\ failures < MaxFailures /\ failures' = failures + 1
  /\ poll[u] # None
  /\ poll' = [poll EXCEPT ![u] = None]
  /\ UNCHANGED <<server, current, place, clicks, loading, left>>

-----------------------------------------------------------------------------
(* Moving about *)

LeaveView(u) ==
  /\ PanelShown(u)
  /\ Show(u, None, place[u], FALSE, clicks[u])
  /\ UNCHANGED <<server, poll, left, failures>>

\* The link on the page of a game.  The store still has the room.
BackToLobby(u) ==
  /\ place[u] # 0
  /\ place' = [place EXCEPT ![u] = IF current[u] = None THEN 0 ELSE current[u].game]
  /\ UNCHANGED <<server, current, clicks, poll, loading, left, failures>>

\* Memory is lost, the address is not.
Reload(u) ==
  /\ current' = [current EXCEPT ![u] = None]
  /\ clicks' = [clicks EXCEPT ![u] = <<>>]
  /\ poll' = [poll EXCEPT ![u] = None]
  /\ loading' = [loading EXCEPT ![u] = FALSE]
  /\ UNCHANGED <<server, place, left, failures>>

-----------------------------------------------------------------------------
ClientInit ==
  /\ Init
  /\ current = [u \in Browsers |-> None]
  /\ place = [u \in Browsers |-> 0]
  /\ clicks = [u \in Browsers |-> <<>>]
  /\ poll = [u \in Browsers |-> None]
  /\ loading = [u \in Browsers |-> FALSE]
  /\ left = [u \in Browsers |-> {}]
  /\ failures = 0

\* The other users.
Others ==
  /\ \E u \in Users \ Browsers, r \in RoomIds : Request(u, r)
  /\ Len(announced') <= MaxGames
  /\ UNCHANGED <<browser, failures>>

Timer == Purge /\ UNCHANGED <<browser, failures>>

Crash ==
  /\ failures < MaxFailures /\ failures' = failures + 1
  /\ Restart
  /\ UNCHANGED browser

UserStep(u) ==
  \/ ClickPanel(u) \/ ClickLobby(u)
  \/ \E i \in DOMAIN clicks[u] : Serve(u, i) \/ Lose(u, i) \/ React(u, i)
  \/ SendPoll(u) \/ ServePoll(u) \/ ReactToPoll(u) \/ LosePoll(u)
  \/ LeaveView(u) \/ BackToLobby(u) \/ Reload(u)

ClientNext == (\E u \in Browsers : UserStep(u)) \/ Others \/ Timer \/ Crash

ClientSpec == ClientInit /\ [][ClientNext]_vars

\* Timers fire and requests are handled and answered; users need not act.
FairSpec ==
  /\ ClientSpec
  /\ WF_vars(Timer)
  /\ \A u \in Browsers :
       WF_vars(SendPoll(u)) /\ WF_vars(ServePoll(u)) /\ WF_vars(ReactToPoll(u))

-----------------------------------------------------------------------------
(* Properties *)

\* A browser is only sent to games whose roster it is on, unless it left the
\* room before: a late answer to a poll brings a room back that was left,
\* and its next game is then entered as a stranger (store/lobby.ts:40,
\* LobbyPage.tsx:207, lobby.service.ts:66).
StrangersHadLeft ==
  \A u \in Browsers : place[u] # 0 /\ u \notin announced[place[u]].players =>
    announced[place[u]].room \in left[u]

\* No open room is there for ever, however busy and in whatever order its
\* members come and go (lobby.service.ts:124-141).
OpenRoomsEnd ==
  \A r \in RoomIds :
    (Exists(r) /\ Open(rooms[r])) ~> ~ (Exists(r) /\ Open(rooms[r]))

\* A page that shows a room whose game was announced moves on: to the game,
\* or away from a room that is gone, whatever answers are late or lost and
\* whatever its user clicks (LobbyPage.tsx:207-214, store/lobby.ts:35-49).
ShownStartsAreFollowed ==
  \A u \in Browsers, r \in RoomIds :
    (PanelShown(u) /\ current[u].room = r /\ Exists(r) /\ ~ Open(rooms[r]))
      ~> ~ (PanelShown(u) /\ current[u].room = r)
=============================================================================
