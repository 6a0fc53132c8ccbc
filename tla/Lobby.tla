------------------------------- MODULE Lobby -------------------------------
(***************************************************************************)
(* The lobby service: rooms in memory, the requests of its REST interface  *)
(* and the timer that closes abandoned rooms.  A request is handled in one *)
(* piece; who may send it, and when, is left to LobbyClient.               *)
(*                                                                         *)
(* Rooms and games are numbered in the order of their random ids; the      *)
(* order of the members, which gives the seats, is left out.               *)
(***************************************************************************)
EXTENDS Integers, Sequences, FiniteSets

CONSTANTS
  Users,
  RoomIds,
  Sizes,        \* maxPlayers of requests: any number, none of them refused
  MaxPlayers,   \* most players a game takes, 4 in either scenario
  SoloTTL,      \* lives of rooms in periods of the timer, 3 and 30
  RoomTTL

ASSUME LobbyAssumption ==
  /\ IsFiniteSet(Users)
  /\ Sizes \subseteq Int /\ MaxPlayers \in Nat
  /\ SoloTTL \in Nat /\ RoomTTL \in Nat /\ SoloTTL <= RoomTTL

VARIABLES
  rooms,        \* LobbyService.rooms, a map from the ids of the rooms there are
  opened,       \* ids ever given to a room
  announced     \* game-starting events; a game is its place in the list

server == <<rooms, opened, announced>>

\* game is the last one announced, 0 as long as the room is open.
Room == [host : Users, size : Sizes, members : SUBSET Users, ready : SUBSET Users,
         game : Nat, age : 0 .. RoomTTL + 1]

Start == [room : RoomIds, host : Users, size : Sizes, players : SUBSET Users]

Exists(r) == r \in DOMAIN rooms

TypeOK ==
  /\ rooms \in [DOMAIN rooms -> Room]
  /\ \A r \in DOMAIN rooms : rooms[r].ready \subseteq rooms[r].members
  /\ DOMAIN rooms \subseteq opened /\ opened \subseteq RoomIds
  /\ announced \in Seq(Start)

-----------------------------------------------------------------------------
(* Requests *)

Open(room) == room.game = 0

\* Map.set for a new key, and Map.delete.
With(r, room) == [x \in DOMAIN rooms \cup {r} |-> IF x = r THEN room ELSE rooms[x]]
Dropping(S)   == [x \in DOMAIN rooms \ S |-> rooms[x]]

\* The size is stored as it comes.  With one below 2 nobody can join; a missing
\* one never counts as reached, like one above the number of users.
CreateRoom(u, r, size) ==
  /\ r \notin opened
  /\ opened' = opened \cup {r}
  /\ rooms' = With(r, [host |-> u, size |-> size, members |-> {u}, ready |-> {},
                       game |-> 0, age |-> 0])
  /\ UNCHANGED announced

\* Mutant: a room that is starting takes more players.
MayJoinLate(u, r) == Exists(r) /\ Cardinality(rooms[r].members) < rooms[r].size

\* A full room refuses its own members, too.
MayJoin(u, r) ==
  /\ Exists(r) /\ Open(rooms[r])
  /\ Cardinality(rooms[r].members) < rooms[r].size

JoinRoom(u, r) ==
  /\ MayJoin(u, r)
  /\ rooms' = [rooms EXCEPT ![r].members = @ \cup {u}]
  /\ UNCHANGED <<opened, announced>>

\* Mutant: there is no check that the player is in the room.
MaySetReadyAnybody(u, r) == Exists(r)

MaySetReady(u, r) == Exists(r) /\ u \in rooms[r].members

SetReady(u, r, ready) ==
  /\ MaySetReady(u, r)
  /\ rooms' = [rooms EXCEPT ![r].ready = IF ready THEN @ \cup {u} ELSE @ \ {u}]
  /\ UNCHANGED <<opened, announced>>

\* The status is not looked at: a room can start more than once.
MayStart(u, r) ==
  /\ Exists(r) /\ rooms[r].host = u
  /\ Cardinality(rooms[r].members) >= 2
  /\ rooms[r].ready = rooms[r].members

StartGame(u, r) ==
  /\ MayStart(u, r)
  /\ rooms' = [rooms EXCEPT ![r].game = Len(announced) + 1]
  /\ announced' = Append(announced, [room |-> r, host |-> u, size |-> rooms[r].size,
                                     players |-> rooms[r].members])
  /\ UNCHANGED opened

\* Mutant: the host may leave.
MayLeaveHostToo(u, r) == Exists(r)

\* The player need not be in the room.
MayLeave(u, r) == Exists(r) /\ rooms[r].host # u

LeaveRoom(u, r) ==
  /\ MayLeave(u, r)
  /\ LET rest == rooms[r].members \ {u}
     IN  rooms' = IF Cardinality(rest) <= 1 THEN Dropping({r})
                  ELSE [rooms EXCEPT ![r].members = rest, ![r].ready = @ \ {u}]
  /\ UNCHANGED <<opened, announced>>

MayClose(u, r) == Exists(r) /\ rooms[r].host = u

CloseRoom(u, r) ==
  /\ MayClose(u, r)
  /\ rooms' = Dropping({r})
  /\ UNCHANGED <<opened, announced>>

-----------------------------------------------------------------------------
(* Time *)

\* Mutant: only rooms with guests get old.
ExpiredSoloKept(room) == Open(room) /\ Cardinality(room.members) > 1 /\ room.age >= RoomTTL

\* A room that was there at k earlier runs of the timer is k to k + 1 periods
\* old.  Only open rooms expire, however busy they are.
Expired(room) ==
  /\ Open(room)
  /\ room.age >= (IF Cardinality(room.members) <= 1 THEN SoloTTL ELSE RoomTTL)

\* The timer, once in a period.  The age of a room that is starting plays no
\* part any more.
Purge ==
  /\ LET kept == { r \in DOMAIN rooms : ~ Expired(rooms[r]) }
     IN  rooms' = [r \in kept |->
                    [rooms[r] EXCEPT !.age =
                       IF Open(rooms[r]) /\ @ <= RoomTTL THEN @ + 1 ELSE @]]
  /\ UNCHANGED <<opened, announced>>

\* Rooms are kept in memory only.
Restart ==
  /\ rooms' = Dropping(DOMAIN rooms)
  /\ UNCHANGED <<opened, announced>>

-----------------------------------------------------------------------------
Init ==
  /\ rooms = [r \in {} |-> <<>>]
  /\ opened = {}
  /\ announced = <<>>

Request(u, r) ==
  \/ \E size \in Sizes : CreateRoom(u, r, size)
  \/ JoinRoom(u, r)
  \/ \E ready \in BOOLEAN : SetReady(u, r, ready)
  \/ StartGame(u, r)
  \/ LeaveRoom(u, r)
  \/ CloseRoom(u, r)

Next == (\E u \in Users, r \in RoomIds : Request(u, r)) \/ Purge \/ Restart

Spec == Init /\ [][Next]_server

-----------------------------------------------------------------------------
(* Properties *)

\* createGameState throws for any other number of players.
EngineTakes(players) == Cardinality(players) \in 2 .. MaxPlayers

\* A game is announced with its host and a number of players the engine takes,
\* but for rooms that were opened for more.
GamesFit ==
  \A i \in 1 .. Len(announced) :
    LET s == announced[i]
    IN  /\ s.host \in s.players /\ Cardinality(s.players) >= 2
        /\ EngineTakes(s.players) \/ s.size > MaxPlayers

\* The game of a room was announced for this room, and nobody came in since:
\* what a browser reads as a start is a start of its own room.
RoomsKnowTheirGame ==
  \A r \in DOMAIN rooms : ~ Open(rooms[r]) =>
    /\ rooms[r].game \in 1 .. Len(announced)
    /\ announced[rooms[r].game].room = r
    /\ rooms[r].members \subseteq announced[rooms[r].game].players

\* Games are announced with rosters that fit, and a room that is starting
\* holds nobody but players of its game, through any order of joining,
\* leaving, starting twice, expiring and restarts (lobby.service.ts:60-113
\* with setup/game-setup.ts:26).  The size of a room is not checked, so one
\* opened for more players than a game takes is the exception.
RostersFit == GamesFit /\ RoomsKnowTheirGame
=============================================================================
