---------------------------- MODULE LobbyProofs ----------------------------
(***************************************************************************)
(* Proofs about the lobby: of the service for any requests, and of a       *)
(* browser among any other users.                                          *)
(***************************************************************************)
EXTENDS LobbyClient, FiniteSetTheorems, SequenceTheorems, TLAPS

-----------------------------------------------------------------------------
(* The service *)

\* Members are counted.
LEMMA CountType ==
  ASSUME NEW S \in SUBSET Users
  PROVE  IsFiniteSet(S) /\ Cardinality(S) \in Nat
BY LobbyAssumption, FS_Subset, FS_CardinalityType

\* A room put into the map.
LEMMA WithType ==
  ASSUME TypeOK, NEW r \in RoomIds, NEW room \in Room, room.ready \subseteq room.members
  PROVE  /\ With(r, room) \in [DOMAIN With(r, room) -> Room]
         /\ DOMAIN With(r, room) = DOMAIN rooms \cup {r}
         /\ \A x \in DOMAIN With(r, room) :
              With(r, room)[x].ready \subseteq With(r, room)[x].members
         /\ With(r, room)[r] = room
         /\ \A x \in DOMAIN rooms \ {r} : With(r, room)[x] = rooms[x]
BY DEF TypeOK, With

LEMMA CreateRoomType ==
  ASSUME TypeOK, NEW u \in Users, NEW r \in RoomIds, NEW size \in Sizes, CreateRoom(u, r, size)
  PROVE  TypeOK'
<1> DEFINE new == [host |-> u, size |-> size, members |-> {u}, ready |-> {}, game |-> 0, age |-> 0]
<1>1. new \in Room /\ new.ready \subseteq new.members
  BY LobbyAssumption DEF Room
<1>2. rooms' = With(r, new)
  BY DEF CreateRoom
<1> HIDE DEF new
<1>3. /\ rooms' \in [DOMAIN rooms' -> Room] /\ DOMAIN rooms' = DOMAIN rooms \cup {r}
      /\ \A x \in DOMAIN rooms' : rooms'[x].ready \subseteq rooms'[x].members
  BY <1>1, <1>2, WithType
<1>4. opened' = opened \cup {r} /\ announced' = announced
  BY DEF CreateRoom
<1> QED BY <1>3, <1>4 DEF TypeOK

LEMMA RoomChangeType ==
  ASSUME TypeOK, NEW r \in DOMAIN rooms, NEW room \in Room, room.ready \subseteq room.members,
         rooms' = [rooms EXCEPT ![r] = room],
         opened' = opened, announced' \in Seq(Start)
  PROVE  TypeOK'
BY DEF TypeOK

LEMMA JoinRoomType ==
  ASSUME TypeOK, NEW u \in Users, NEW r \in RoomIds, JoinRoom(u, r)
  PROVE  TypeOK'
<1> DEFINE room == [rooms[r] EXCEPT !.members = @ \cup {u}]
<1>1. r \in DOMAIN rooms
  BY DEF JoinRoom, MayJoin, Exists
<1>2. rooms[r] \in Room /\ rooms[r].ready \subseteq rooms[r].members
  BY <1>1 DEF TypeOK
<1>3. room \in Room /\ room.ready \subseteq room.members
  BY <1>2 DEF Room
<1>4. rooms' = [rooms EXCEPT ![r] = room]
  BY <1>1 DEF JoinRoom
<1> QED BY <1>1, <1>3, <1>4, RoomChangeType DEF JoinRoom, TypeOK

LEMMA SetReadyType ==
  ASSUME TypeOK, NEW u \in Users, NEW r \in RoomIds, NEW ready \in BOOLEAN, SetReady(u, r, ready)
  PROVE  TypeOK'
<1> DEFINE new  == IF ready THEN rooms[r].ready \cup {u} ELSE rooms[r].ready \ {u}
           room == [rooms[r] EXCEPT !.ready = new]
<1>1. r \in DOMAIN rooms /\ u \in rooms[r].members
  BY DEF SetReady, MaySetReady, Exists
<1>2. rooms[r] \in Room /\ rooms[r].ready \subseteq rooms[r].members
  BY <1>1 DEF TypeOK
<1>3. new \subseteq rooms[r].members
  BY <1>1, <1>2
<1>4. rooms' = [rooms EXCEPT ![r] = room]
  BY <1>1 DEF SetReady
<1> HIDE DEF new
<1>5. room \in Room /\ room.ready \subseteq room.members
  BY <1>2, <1>3 DEF Room
<1> QED BY <1>1, <1>4, <1>5, RoomChangeType DEF SetReady, TypeOK

LEMMA StartGameType ==
  ASSUME TypeOK, NEW u \in Users, NEW r \in RoomIds, StartGame(u, r)
  PROVE  TypeOK'
<1> DEFINE room == [rooms[r] EXCEPT !.game = Len(announced) + 1]
           start == [room |-> r, host |-> u, size |-> rooms[r].size, players |-> rooms[r].members]
<1>1. r \in DOMAIN rooms
  BY DEF StartGame, MayStart, Exists
<1>2. rooms[r] \in Room /\ rooms[r].ready \subseteq rooms[r].members
  BY <1>1 DEF TypeOK
<1>3. room \in Room /\ room.ready \subseteq room.members
  <2>1. Len(announced) + 1 \in Nat
    BY DEF TypeOK
  <2> QED BY <1>2, <2>1 DEF Room
<1>4. start \in Start
  BY <1>2 DEF Room, Start
<1>5. announced' = Append(announced, start) /\ opened' = opened /\ rooms' = [rooms EXCEPT ![r] = room]
  BY <1>1 DEF StartGame
<1> HIDE DEF room, start
<1>6. announced' \in Seq(Start)
  BY <1>4, <1>5 DEF TypeOK
<1> QED BY <1>1, <1>3, <1>5, <1>6, RoomChangeType

\* Rooms taken out of the map.
LEMMA DroppingType ==
  ASSUME TypeOK, NEW S, rooms' = Dropping(S), UNCHANGED <<opened, announced>>
  PROVE  TypeOK' /\ DOMAIN rooms' = DOMAIN rooms \ S
         /\ \A r \in DOMAIN rooms' : rooms'[r] = rooms[r]
BY DEF TypeOK, Dropping

LEMMA LeaveRoomType ==
  ASSUME TypeOK, NEW u \in Users, NEW r \in RoomIds, LeaveRoom(u, r)
  PROVE  TypeOK'
<1> DEFINE room == [rooms[r] EXCEPT !.members = @ \ {u}, !.ready = @ \ {u}]
<1>1. r \in DOMAIN rooms
  BY DEF LeaveRoom, MayLeave, Exists
<1>2. rooms[r] \in Room /\ rooms[r].ready \subseteq rooms[r].members
  BY <1>1 DEF TypeOK
<1>3. room \in Room /\ room.ready \subseteq room.members
  BY <1>2 DEF Room
<1>4. CASE rooms' = Dropping({r})
  BY <1>4, DroppingType DEF LeaveRoom
<1>5. CASE rooms' = [rooms EXCEPT ![r] = room]
  BY <1>1, <1>3, <1>5, RoomChangeType DEF LeaveRoom, TypeOK
<1>6. rooms' = Dropping({r}) \/ rooms' = [rooms EXCEPT ![r] = room]
  BY <1>1 DEF LeaveRoom
<1> QED BY <1>4, <1>5, <1>6

LEMMA PurgeType ==
  ASSUME TypeOK, Purge
  PROVE  /\ TypeOK' /\ DOMAIN rooms' \subseteq DOMAIN rooms
         /\ \A r \in DOMAIN rooms' :
              /\ rooms'[r].host = rooms[r].host /\ rooms'[r].size = rooms[r].size
              /\ rooms'[r].members = rooms[r].members /\ rooms'[r].game = rooms[r].game
<1> DEFINE kept == { r \in DOMAIN rooms : ~ Expired(rooms[r]) }
           Older(room) == [room EXCEPT !.age = IF Open(room) /\ @ <= RoomTTL THEN @ + 1 ELSE @]
<1>1. \A room \in Room : /\ Older(room) \in Room
                         /\ Older(room).host = room.host /\ Older(room).size = room.size
                         /\ Older(room).members = room.members /\ Older(room).ready = room.ready
                         /\ Older(room).game = room.game
  BY LobbyAssumption DEF Room
<1>2. rooms' = [r \in kept |-> Older(rooms[r])] /\ UNCHANGED <<opened, announced>>
  BY DEF Purge
<1>3. \A r \in kept : rooms[r] \in Room /\ rooms[r].ready \subseteq rooms[r].members
  BY DEF TypeOK
<1> HIDE DEF Older
<1>4. DOMAIN rooms' = kept /\ kept \subseteq DOMAIN rooms
  BY <1>2
<1>5. \A r \in kept : rooms'[r] = Older(rooms[r])
  BY <1>2
<1>6. rooms' \in [DOMAIN rooms' -> Room]
  BY <1>1, <1>2, <1>3
<1> QED BY <1>1, <1>2, <1>3, <1>4, <1>5, <1>6 DEF TypeOK

LEMMA InitType == Init => TypeOK
BY DEF Init, TypeOK

LEMMA NextType == TypeOK /\ [Next]_server => TypeOK'
<1> SUFFICES ASSUME TypeOK, [Next]_server
             PROVE  TypeOK'
  OBVIOUS
<1>1. ASSUME NEW u \in Users, NEW r \in RoomIds, Request(u, r)
      PROVE  TypeOK'
  <2>1. ASSUME NEW size \in Sizes, CreateRoom(u, r, size) PROVE TypeOK'
    BY <2>1, CreateRoomType
  <2>2. CASE JoinRoom(u, r)
    BY <2>2, JoinRoomType
  <2>3. ASSUME NEW ready \in BOOLEAN, SetReady(u, r, ready) PROVE TypeOK'
    BY <2>3, SetReadyType
  <2>4. CASE StartGame(u, r)
    BY <2>4, StartGameType
  <2>5. CASE LeaveRoom(u, r)
    BY <2>5, LeaveRoomType
  <2>6. CASE CloseRoom(u, r)
    BY <2>6, DroppingType DEF CloseRoom
  <2> QED BY <1>1, <2>1, <2>2, <2>3, <2>4, <2>5, <2>6 DEF Request
<1>2. CASE Purge
  BY <1>2, PurgeType
<1>3. CASE Restart
  BY <1>3, DroppingType DEF Restart
<1>4. CASE UNCHANGED server
  BY <1>4 DEF server, TypeOK
<1> QED BY <1>1, <1>2, <1>3, <1>4 DEF Next

\* The service keeps its types under any requests.
THEOREM TypeCorrect == Spec => []TypeOK
BY InitType, NextType, PTL DEF Spec

-----------------------------------------------------------------------------
(* Rosters *)

\* A room holds its host and, when there is anybody else, no more than it has
\* places for.
RoomFits(room) ==
  /\ room.host \in room.members
  /\ Cardinality(room.members) = 1 \/ Cardinality(room.members) <= room.size

GameFits(s) ==
  /\ s.host \in s.players
  /\ Cardinality(s.players) >= 2 /\ Cardinality(s.players) <= s.size

PlacesHold ==
  /\ \A r \in DOMAIN rooms : RoomFits(rooms[r])
  /\ \A i \in 1 .. Len(announced) : GameFits(announced[i])

LobbyInv == TypeOK /\ PlacesHold /\ RoomsKnowTheirGame

\* Games announced before stay as they are.
LEMMA SameGames ==
  ASSUME LobbyInv, announced' = announced,
         \A r \in DOMAIN rooms' :
           /\ RoomFits(rooms'[r])
           /\ ~ Open(rooms'[r]) => /\ r \in DOMAIN rooms /\ rooms'[r].game = rooms[r].game
                                  /\ rooms'[r].members \subseteq rooms[r].members
  PROVE  PlacesHold' /\ RoomsKnowTheirGame'
<1>1. \A i \in 1 .. Len(announced)' : GameFits(announced'[i])
  BY DEF LobbyInv, PlacesHold
<1>2. PlacesHold'
  BY <1>1 DEF PlacesHold
<1> QED BY <1>2 DEF LobbyInv, RoomsKnowTheirGame, Open

LEMMA CreateRoomRosters ==
  ASSUME LobbyInv, NEW u \in Users, NEW r \in RoomIds, NEW size \in Sizes, CreateRoom(u, r, size)
  PROVE  PlacesHold' /\ RoomsKnowTheirGame'
<1> DEFINE new == [host |-> u, size |-> size, members |-> {u}, ready |-> {}, game |-> 0, age |-> 0]
<1>1. Cardinality({u}) = 1
  BY FS_Singleton
<1>2. RoomFits(new) /\ Open(new)
  BY <1>1, LobbyAssumption DEF RoomFits, Open
<1>3. rooms' = With(r, new) /\ announced' = announced
  BY DEF CreateRoom
<1> HIDE DEF new
<1>4. /\ DOMAIN rooms' = DOMAIN rooms \cup {r} /\ rooms'[r] = new
      /\ \A x \in DOMAIN rooms \ {r} : rooms'[x] = rooms[x]
  BY <1>3 DEF With
<1>5. \A x \in DOMAIN rooms : RoomFits(rooms[x])
  BY DEF LobbyInv, PlacesHold
<1> QED BY <1>2, <1>3, <1>4, <1>5, SameGames

LEMMA JoinRoomRosters ==
  ASSUME LobbyInv, NEW u \in Users, NEW r \in RoomIds, JoinRoom(u, r)
  PROVE  PlacesHold' /\ RoomsKnowTheirGame'
<1>1. r \in DOMAIN rooms /\ rooms[r] \in Room /\ Open(rooms[r])
      /\ Cardinality(rooms[r].members) < rooms[r].size
  BY DEF JoinRoom, MayJoin, Exists, LobbyInv, TypeOK
<1>2. rooms[r].members \in SUBSET Users /\ rooms[r].size \in Int
  BY <1>1, LobbyAssumption DEF Room
<1>3. Cardinality(rooms[r].members \cup {u}) <= rooms[r].size
  <2>1. IsFiniteSet(rooms[r].members) /\ Cardinality(rooms[r].members) \in Nat
    BY <1>2, CountType
  <2>2. Cardinality(rooms[r].members \cup {u}) \in
          {Cardinality(rooms[r].members), Cardinality(rooms[r].members) + 1}
    BY <2>1, FS_AddElement
  <2> QED BY <1>1, <1>2, <2>1, <2>2
<1>4. /\ DOMAIN rooms' = DOMAIN rooms /\ announced' = announced
      /\ rooms'[r] = [rooms[r] EXCEPT !.members = @ \cup {u}]
      /\ \A x \in DOMAIN rooms \ {r} : rooms'[x] = rooms[x]
  BY <1>1 DEF JoinRoom
<1>5. \A x \in DOMAIN rooms : RoomFits(rooms[x])
  BY DEF LobbyInv, PlacesHold
<1>6. RoomFits(rooms'[r]) /\ Open(rooms'[r])
  BY <1>1, <1>3, <1>4, <1>5 DEF RoomFits, Open, Room
<1> QED BY <1>4, <1>5, <1>6, SameGames

LEMMA SetReadyRosters ==
  ASSUME LobbyInv, NEW u \in Users, NEW r \in RoomIds, NEW ready \in BOOLEAN,
         SetReady(u, r, ready)
  PROVE  PlacesHold' /\ RoomsKnowTheirGame'
<1>1. r \in DOMAIN rooms /\ rooms[r] \in Room
  BY DEF SetReady, MaySetReady, Exists, LobbyInv, TypeOK
<1>2. /\ DOMAIN rooms' = DOMAIN rooms /\ announced' = announced
      /\ rooms'[r].host = rooms[r].host /\ rooms'[r].size = rooms[r].size
      /\ rooms'[r].members = rooms[r].members /\ rooms'[r].game = rooms[r].game
      /\ \A x \in DOMAIN rooms \ {r} : rooms'[x] = rooms[x]
  BY <1>1 DEF SetReady, Room
<1>3. \A x \in DOMAIN rooms : RoomFits(rooms[x])
  BY DEF LobbyInv, PlacesHold
<1> QED BY <1>1, <1>2, <1>3, SameGames DEF RoomFits

LEMMA StartGameRosters ==
  ASSUME LobbyInv, NEW u \in Users, NEW r \in RoomIds, StartGame(u, r)
  PROVE  PlacesHold' /\ RoomsKnowTheirGame'
<1> DEFINE start == [room |-> r, host |-> u, size |-> rooms[r].size, players |-> rooms[r].members]
           n == Len(announced)
<1>1. r \in DOMAIN rooms /\ rooms[r] \in Room /\ rooms[r].host = u
      /\ Cardinality(rooms[r].members) >= 2
  BY DEF StartGame, MayStart, Exists, LobbyInv, TypeOK
<1>2. \A x \in DOMAIN rooms : RoomFits(rooms[x])
  BY DEF LobbyInv, PlacesHold
<1>3. \A i \in 1 .. n : GameFits(announced[i])
  BY DEF LobbyInv, PlacesHold
<1>4. GameFits(start) /\ start.room = r /\ start.players = rooms[r].members
  BY <1>1, <1>2 DEF GameFits, RoomFits
<1>5. announced' = Append(announced, start) /\ announced \in Seq(Start)
  BY DEF StartGame, LobbyInv, TypeOK
<1> HIDE DEF start
<1>6. n \in Nat /\ Len(announced') = n + 1 /\ announced'[n + 1] = start
      /\ \A i \in 1 .. n : announced'[i] = announced[i]
  BY <1>5
<1>7. \A i \in 1 .. Len(announced') : GameFits(announced'[i])
  BY <1>3, <1>4, <1>6
<1>8. /\ DOMAIN rooms' = DOMAIN rooms
      /\ rooms'[r] = [rooms[r] EXCEPT !.game = n + 1]
      /\ \A x \in DOMAIN rooms \ {r} : rooms'[x] = rooms[x]
  BY <1>1 DEF StartGame
<1>9. /\ rooms'[r].game = n + 1 /\ rooms'[r].members = rooms[r].members
      /\ rooms'[r].host = rooms[r].host /\ rooms'[r].size = rooms[r].size
  BY <1>1, <1>8 DEF Room
<1>10. \A x \in DOMAIN rooms' : RoomFits(rooms'[x])
  BY <1>2, <1>8, <1>9 DEF RoomFits
<1>11. PlacesHold'
  BY <1>7, <1>10 DEF PlacesHold
<1>12. ASSUME NEW x \in DOMAIN rooms', ~ Open(rooms'[x])
       PROVE  /\ rooms'[x].game \in 1 .. Len(announced')
              /\ announced'[rooms'[x].game].room = x
              /\ rooms'[x].members \subseteq announced'[rooms'[x].game].players
  <2>1. CASE x = r
    BY <1>4, <1>6, <1>9, <2>1
  <2>2. CASE x # r
    BY <1>6, <1>8, <1>12, <2>2 DEF LobbyInv, RoomsKnowTheirGame
  <2> QED BY <2>1, <2>2
<1> QED BY <1>11, <1>12 DEF RoomsKnowTheirGame, Open

LEMMA DroppingRosters ==
  ASSUME LobbyInv, NEW S, rooms' = Dropping(S), UNCHANGED <<opened, announced>>
  PROVE  PlacesHold' /\ RoomsKnowTheirGame'
<1>1. DOMAIN rooms' \subseteq DOMAIN rooms /\ \A r \in DOMAIN rooms' : rooms'[r] = rooms[r]
  BY DroppingType DEF LobbyInv
<1>2. \A x \in DOMAIN rooms : RoomFits(rooms[x])
  BY DEF LobbyInv, PlacesHold
<1> QED BY <1>1, <1>2, SameGames

LEMMA LeaveRoomRosters ==
  ASSUME LobbyInv, NEW u \in Users, NEW r \in RoomIds, LeaveRoom(u, r)
  PROVE  PlacesHold' /\ RoomsKnowTheirGame'
<1> DEFINE rest == rooms[r].members \ {u}
<1>1. r \in DOMAIN rooms /\ rooms[r] \in Room /\ rooms[r].host # u
  BY DEF LeaveRoom, MayLeave, Exists, LobbyInv, TypeOK
<1>2. \A x \in DOMAIN rooms : RoomFits(rooms[x])
  BY DEF LobbyInv, PlacesHold
<1>3. CASE Cardinality(rest) <= 1
  BY <1>3, DroppingRosters DEF LeaveRoom
<1>4. CASE ~ (Cardinality(rest) <= 1) /\ rooms' = [rooms EXCEPT ![r].members = rest, ![r].ready = @ \ {u}]
  <2>1. /\ DOMAIN rooms' = DOMAIN rooms /\ announced' = announced
        /\ rooms'[r].host = rooms[r].host /\ rooms'[r].size = rooms[r].size
        /\ rooms'[r].members = rest /\ rooms'[r].game = rooms[r].game
        /\ \A x \in DOMAIN rooms \ {r} : rooms'[x] = rooms[x]
    BY <1>1, <1>4 DEF LeaveRoom, Room
  <2>2. rooms[r].members \in SUBSET Users /\ rest \in SUBSET rooms[r].members
        /\ rooms[r].size \in Int
    BY <1>1, LobbyAssumption DEF Room
  <2>3. Cardinality(rest) <= Cardinality(rooms[r].members)
        /\ Cardinality(rest) \in Nat /\ Cardinality(rooms[r].members) \in Nat
    BY <2>2, CountType, FS_Subset
  <2>4. RoomFits(rooms'[r])
    <3>1. Cardinality(rest) <= rooms[r].size
      BY <1>1, <1>2, <1>4, <2>2, <2>3 DEF RoomFits
    <3> QED BY <1>1, <1>2, <2>1, <3>1 DEF RoomFits
  <2> QED BY <1>2, <2>1, <2>4, SameGames
<1> QED BY <1>1, <1>3, <1>4 DEF LeaveRoom

LEMMA LobbyInvNext == LobbyInv /\ [Next]_server => LobbyInv'
<1> SUFFICES ASSUME LobbyInv, [Next]_server
             PROVE  PlacesHold' /\ RoomsKnowTheirGame'
  BY NextType DEF LobbyInv
<1>1. ASSUME NEW u \in Users, NEW r \in RoomIds, Request(u, r)
      PROVE  PlacesHold' /\ RoomsKnowTheirGame'
  <2>1. ASSUME NEW size \in Sizes, CreateRoom(u, r, size)
        PROVE  PlacesHold' /\ RoomsKnowTheirGame'
    BY <2>1, CreateRoomRosters
  <2>2. CASE JoinRoom(u, r)
    BY <2>2, JoinRoomRosters
  <2>3. ASSUME NEW ready \in BOOLEAN, SetReady(u, r, ready)
        PROVE  PlacesHold' /\ RoomsKnowTheirGame'
    BY <2>3, SetReadyRosters
  <2>4. CASE StartGame(u, r)
    BY <2>4, StartGameRosters
  <2>5. CASE LeaveRoom(u, r)
    BY <2>5, LeaveRoomRosters
  <2>6. CASE CloseRoom(u, r)
    BY <2>6, DroppingRosters DEF CloseRoom
  <2> QED BY <1>1, <2>1, <2>2, <2>3, <2>4, <2>5, <2>6 DEF Request
<1>2. CASE Purge
  <2>1. \A x \in DOMAIN rooms : RoomFits(rooms[x])
    BY DEF LobbyInv, PlacesHold
  <2>2. /\ DOMAIN rooms' \subseteq DOMAIN rooms /\ announced' = announced
        /\ \A r \in DOMAIN rooms' :
              /\ rooms'[r].host = rooms[r].host /\ rooms'[r].size = rooms[r].size
              /\ rooms'[r].members = rooms[r].members /\ rooms'[r].game = rooms[r].game
    BY <1>2, PurgeType DEF LobbyInv, Purge
  <2> QED BY <2>1, <2>2, SameGames DEF RoomFits
<1>3. CASE Restart
  BY <1>3, DroppingRosters DEF Restart
<1>4. CASE UNCHANGED server
  BY <1>4 DEF server, LobbyInv, PlacesHold, RoomsKnowTheirGame, Open
<1> QED BY <1>1, <1>2, <1>3, <1>4 DEF Next

LEMMA LobbyInvInit == Init => LobbyInv
BY InitType DEF Init, LobbyInv, PlacesHold, RoomsKnowTheirGame

\* What the counts say of the engine.
LEMMA FitForEngine ==
  ASSUME LobbyInv, NEW i \in 1 .. Len(announced)
  PROVE  EngineTakes(announced[i].players) \/ announced[i].size > MaxPlayers
<1>1. announced[i] \in Start /\ GameFits(announced[i])
  BY DEF LobbyInv, TypeOK, PlacesHold
<1>2. announced[i].size \in Int /\ Cardinality(announced[i].players) \in Nat
  BY <1>1, LobbyAssumption, CountType DEF Start
<1> QED BY <1>1, <1>2, LobbyAssumption DEF GameFits, EngineTakes

\* Every game is announced with its host and as many players as the engine
\* takes, but for rooms opened for more, and a room that is starting holds
\* players of its game only (lobby.service.ts:60-113), for any number of users
\* and rooms, any sizes and any requests.
THEOREM RostersAreFit == Spec => []RostersFit
<1>1. ASSUME LobbyInv PROVE RostersFit
  <2>1. \A i \in 1 .. Len(announced) : GameFits(announced[i])
    BY <1>1 DEF LobbyInv, PlacesHold
  <2>2. GamesFit
    BY <1>1, <2>1, FitForEngine DEF GamesFit, GameFits
  <2> QED BY <1>1, <2>2 DEF LobbyInv, RostersFit
<1> QED BY <1>1, LobbyInvInit, LobbyInvNext, PTL DEF Spec

-----------------------------------------------------------------------------
(* Browsers *)

Ops      == PanelOps \cup {"create", "join"}
Details  == {None} \cup [room : RoomIds, game : Nat, isHost : BOOLEAN, isMember : BOOLEAN,
                        isReady : BOOLEAN, allReady : BOOLEAN]
Click    == [op : Ops, room : RoomIds, arg : Sizes \cup BOOLEAN, mine : BOOLEAN,
             status : {"sent", "done", "refused"}, detail : Details]
Poll     == [room : RoomIds, status : {"sent", "done", "not found"}, detail : Details]

ClientTypeOK ==
  /\ current \in [Browsers -> Details]
  /\ place \in [Browsers -> Nat]
  /\ clicks \in [Browsers -> Seq(Click)]
  /\ poll \in [Browsers -> {None} \cup Poll]
  /\ loading \in [Browsers -> BOOLEAN]
  /\ left \in [Browsers -> SUBSET RoomIds]

\* User u may be sent to game g: it is on the roster, or left the room.
Entitled(u, g) ==
  \/ g = 0
  \/ /\ g \in 1 .. Len(announced)
     /\ u \in announced[g].players \/ announced[g].room \in left[u]

\* User u was let into room r at some time.
Knows(u, r) == r \in opened /\ (Exists(r) => u \in rooms[r].members \/ r \in left[u])

Sound(u, d) == Knows(u, d.room) /\ Entitled(u, d.game)

ClickSound(u, q) ==
  /\ q.op = "create" => q.arg \in Sizes
  /\ q.op = "ready" => q.arg \in BOOLEAN
  /\ q.status = "done" /\ q.op \notin {"leave", "close"} => Sound(u, q.detail)

PollSound(u, p) ==
  /\ Knows(u, p.room)
  /\ IF p.status = "done" THEN Sound(u, p.detail) ELSE p.detail = None

\* All that a browser holds of rooms is of rooms it was let into.
Grounded(u) ==
  /\ Entitled(u, place[u])
  /\ current[u] # None => Sound(u, current[u])
  /\ \A i \in DOMAIN clicks[u] : ClickSound(u, clicks[u][i])
  /\ poll[u] # None => PollSound(u, poll[u])

ClientInv == LobbyInv /\ ClientTypeOK /\ \A u \in Browsers : Grounded(u)

\* Nothing that user u was let into is taken from it, unless it leaves.
Grows(u) ==
  /\ opened \subseteq opened' /\ left[u] \subseteq left'[u]
  /\ Len(announced) <= Len(announced')
  /\ \A i \in 1 .. Len(announced) : announced'[i] = announced[i]
  /\ \A r \in opened \cap DOMAIN rooms' :
       /\ r \in DOMAIN rooms
       /\ u \in rooms[r].members => u \in rooms'[r].members \/ r \in left'[u]

LEMMA GrowsKeeps ==
  ASSUME LobbyInv, LobbyInv', NEW u, Grows(u)
  PROVE  /\ \A r : Knows(u, r) => Knows(u, r)'
         /\ \A g : Entitled(u, g) => Entitled(u, g)'
         /\ \A d : Sound(u, d) => Sound(u, d)'
         /\ \A q : ClickSound(u, q) => ClickSound(u, q)'
         /\ \A p : PollSound(u, p) => PollSound(u, p)'
<1>1. ASSUME NEW r, Knows(u, r) PROVE Knows(u, r)'
  BY <1>1 DEF Knows, Grows, Exists
<1>2. Len(announced) \in Nat /\ Len(announced') \in Nat
  BY DEF LobbyInv, TypeOK
<1>3. ASSUME NEW g, Entitled(u, g) PROVE Entitled(u, g)'
  BY <1>2, <1>3 DEF Entitled, Grows
<1>4. \A d : Sound(u, d) => Sound(u, d)'
  BY <1>1, <1>3 DEF Sound
<1> QED BY <1>1, <1>3, <1>4 DEF ClickSound, PollSound

LEMMA LeaveKeepsRooms ==
  ASSUME LobbyInv, NEW v \in Users, NEW r \in RoomIds, LeaveRoom(v, r)
  PROVE  /\ opened' = opened /\ announced' = announced
         /\ \A x \in DOMAIN rooms' :
              /\ x \in DOMAIN rooms /\ rooms[x].members \subseteq rooms'[x].members \cup {v}
              /\ x # r => rooms'[x] = rooms[x]
<1>1. r \in DOMAIN rooms /\ rooms[r] \in Room
  BY DEF LeaveRoom, MayLeave, Exists, LobbyInv, TypeOK
<1>2. CASE rooms' = Dropping({r})
  <2>1. UNCHANGED <<opened, announced>>
    BY DEF LeaveRoom
  <2>2. DOMAIN rooms' = DOMAIN rooms \ {r} /\ \A x \in DOMAIN rooms' : rooms'[x] = rooms[x]
    BY <1>2, <2>1, DroppingType DEF LobbyInv
  <2> QED BY <2>1, <2>2
<1>3. CASE rooms' = [rooms EXCEPT ![r].members = @ \ {v}, ![r].ready = @ \ {v}]
  <2>1. /\ DOMAIN rooms' = DOMAIN rooms
        /\ rooms'[r].members = rooms[r].members \ {v}
        /\ \A x \in DOMAIN rooms \ {r} : rooms'[x] = rooms[x]
    BY <1>1, <1>3 DEF Room
  <2>2. UNCHANGED <<opened, announced>>
    BY DEF LeaveRoom
  <2> QED BY <2>1, <2>2
<1> QED BY <1>1, <1>2, <1>3 DEF LeaveRoom

\* Requests other than leaving take nobody out of a room that stays.
Keeping(v, r) ==
  \/ \E size \in Sizes : CreateRoom(v, r, size)
  \/ JoinRoom(v, r)
  \/ \E ready \in BOOLEAN : SetReady(v, r, ready)
  \/ StartGame(v, r)
  \/ CloseRoom(v, r)

LEMMA OthersKeepRooms ==
  ASSUME LobbyInv, NEW v \in Users, NEW r \in RoomIds, Keeping(v, r)
  PROVE  /\ opened \subseteq opened'
         /\ Len(announced) <= Len(announced')
         /\ \A i \in 1 .. Len(announced) : announced'[i] = announced[i]
         /\ \A x \in opened \cap DOMAIN rooms' :
              x \in DOMAIN rooms /\ rooms[x].members \subseteq rooms'[x].members
<1> DEFINE Kept == \A x \in opened \cap DOMAIN rooms' :
                     x \in DOMAIN rooms /\ rooms[x].members \subseteq rooms'[x].members
<1>1. Len(announced) \in Nat /\ announced \in Seq(Start)
      /\ \A x \in DOMAIN rooms : rooms[x] \in Room
  BY DEF LobbyInv, TypeOK
<1>2. ASSUME NEW size \in Sizes, CreateRoom(v, r, size)
      PROVE  opened \subseteq opened' /\ announced' = announced /\ Kept
  BY <1>2 DEF CreateRoom, With
<1>3. CASE JoinRoom(v, r)
  <2>1. r \in DOMAIN rooms
    BY <1>3 DEF JoinRoom, MayJoin, Exists
  <2> QED BY <1>1, <1>3, <2>1 DEF JoinRoom, Room
<1>4. ASSUME NEW ready \in BOOLEAN, SetReady(v, r, ready)
      PROVE  opened' = opened /\ announced' = announced /\ Kept
  <2>1. r \in DOMAIN rooms
    BY <1>4 DEF SetReady, MaySetReady, Exists
  <2>2. \A x \in DOMAIN rooms : rooms'[x].members = rooms[x].members
    BY <1>1, <1>4, <2>1 DEF SetReady, Room
  <2> QED BY <1>4, <2>2 DEF SetReady
<1>5. CASE StartGame(v, r)
  <2>1. r \in DOMAIN rooms
    BY <1>5 DEF StartGame, MayStart, Exists
  <2>2. \A x \in DOMAIN rooms : rooms'[x].members = rooms[x].members
    BY <1>1, <1>5, <2>1 DEF StartGame, Room
  <2>3. Kept /\ opened' = opened
    BY <1>5, <2>2 DEF StartGame
  <2>4. PICK s : announced' = Append(announced, s)
    BY <1>5 DEF StartGame
  <2>5. Len(announced') = Len(announced) + 1
        /\ \A i \in 1 .. Len(announced) : announced'[i] = announced[i]
    BY <1>1, <2>4
  <2> QED BY <1>1, <2>3, <2>5
<1>6. CASE CloseRoom(v, r)
  <2>1. UNCHANGED <<opened, announced>> /\ rooms' = Dropping({r})
    BY <1>6 DEF CloseRoom
  <2>2. DOMAIN rooms' = DOMAIN rooms \ {r} /\ \A x \in DOMAIN rooms' : rooms'[x] = rooms[x]
    BY <2>1, DroppingType DEF LobbyInv
  <2>3. Kept
    BY <2>2
  <2>4. opened' = opened /\ announced' = announced
    BY <2>1
  <2> HIDE DEF Kept
  <2> QED BY <1>1, <2>3, <2>4 DEF Kept
<1> QED BY <1>1, <1>2, <1>3, <1>4, <1>5, <1>6 DEF Keeping

LEMMA OtherUsersGrow ==
  ASSUME LobbyInv, NEW u \in Browsers, NEW v \in Users \ {u}, NEW r \in RoomIds,
         Request(v, r), left' = left
  PROVE  Grows(u)
<1>1. CASE LeaveRoom(v, r)
  BY <1>1, LeaveKeepsRooms DEF Grows, LobbyInv, TypeOK
<1>2. CASE Keeping(v, r)
  BY <1>2, OthersKeepRooms DEF Grows
<1> QED BY <1>1, <1>2 DEF Request, Keeping

LEMMA IdleGrows ==
  ASSUME LobbyInv, NEW u \in Browsers, UNCHANGED <<opened, announced>>, left[u] \subseteq left'[u],
         \A r \in DOMAIN rooms' : r \in DOMAIN rooms /\ rooms'[r].members = rooms[r].members
  PROVE  Grows(u)
BY DEF Grows, LobbyInv, TypeOK

\* The store gets another room or none.
LEMMA ShowEffect ==
  ASSUME ClientTypeOK, NEW u \in Browsers, NEW d \in Details, NEW to \in Nat,
         NEW busy \in BOOLEAN, NEW cs \in Seq(Click), Show(u, d, to, busy, cs)
  PROVE  /\ current' \in [Browsers -> Details] /\ place' \in [Browsers -> Nat]
         /\ clicks' \in [Browsers -> Seq(Click)] /\ loading' \in [Browsers -> BOOLEAN]
         /\ current'[u] = d /\ place'[u] = to
         /\ DOMAIN clicks'[u] = DOMAIN cs
         /\ \A i \in DOMAIN cs :
              /\ clicks'[u][i].op = cs[i].op /\ clicks'[u][i].arg = cs[i].arg
              /\ clicks'[u][i].status = cs[i].status /\ clicks'[u][i].detail = cs[i].detail
         /\ \A w \in Browsers \ {u} : /\ current'[w] = current[w] /\ place'[w] = place[w]
                                      /\ clicks'[w] = clicks[w]
<1> DEFINE gone == d = None \/ to # 0
           new  == IF gone THEN Orphaned(cs) ELSE cs
<1>1. /\ Orphaned(cs) \in Seq(Click) /\ DOMAIN Orphaned(cs) = DOMAIN cs
      /\ \A i \in DOMAIN cs :
           /\ Orphaned(cs)[i].op = cs[i].op /\ Orphaned(cs)[i].arg = cs[i].arg
           /\ Orphaned(cs)[i].status = cs[i].status /\ Orphaned(cs)[i].detail = cs[i].detail
  <2>1. DOMAIN cs = 1 .. Len(cs) /\ Len(cs) \in Nat
    OBVIOUS
  <2>2. \A i \in DOMAIN cs : /\ cs[i] \in Click
                            /\ [cs[i] EXCEPT !.mine = FALSE] \in Click
    <3>1. \A i \in DOMAIN cs : cs[i] \in Click
      BY <2>1
    <3>2. \A q \in Click : [q EXCEPT !.mine = FALSE] \in Click
      BY DEF Click
    <3> QED BY <3>1, <3>2
  <2>3. \A i \in DOMAIN cs : Orphaned(cs)[i] = [cs[i] EXCEPT !.mine = FALSE]
    BY DEF Orphaned
  <2>4. Orphaned(cs) \in [1 .. Len(cs) -> Click]
    BY <2>1, <2>2 DEF Orphaned
  <2>5. Orphaned(cs) \in Seq(Click)
    BY <2>1, <2>4
  <2> QED BY <2>2, <2>3, <2>5 DEF Orphaned, Click
<1>2. new \in Seq(Click) /\ DOMAIN new = DOMAIN cs
      /\ \A i \in DOMAIN cs : /\ new[i].op = cs[i].op /\ new[i].arg = cs[i].arg
                              /\ new[i].status = cs[i].status /\ new[i].detail = cs[i].detail
  BY <1>1
<1>3. /\ current' = [current EXCEPT ![u] = d] /\ place' = [place EXCEPT ![u] = to]
      /\ loading' = [loading EXCEPT ![u] = busy /\ ~ gone]
      /\ clicks' = [clicks EXCEPT ![u] = new]
  BY DEF Show
<1> HIDE DEF new, gone
<1>4. loading' \in [Browsers -> BOOLEAN]
  <2>1. (busy /\ ~ gone) \in BOOLEAN
    OBVIOUS
  <2> QED BY <1>3, <2>1, Zenon DEF ClientTypeOK
<1> QED BY <1>2, <1>3, <1>4 DEF ClientTypeOK

LEMMA RemovedType ==
  ASSUME NEW S, NEW s \in Seq(S), NEW i \in 1 .. Len(s)
  PROVE  /\ Removed(s, i) \in Seq(S)
         /\ \A j \in DOMAIN Removed(s, i) : \E k \in DOMAIN s : Removed(s, i)[j] = s[k]
<1> DEFINE a == SubSeq(s, 1, i - 1)
           b == SubSeq(s, i + 1, Len(s))
<1>1. a \in Seq(S) /\ Len(a) = i - 1 /\ \A j \in 1 .. i - 1 : a[j] = s[j]
  BY SubSeqProperties
<1>2. b \in Seq(S) /\ Len(b) = Len(s) - i /\ \A j \in 1 .. Len(s) - i : b[j] = s[i + j]
  BY SubSeqProperties
<1> HIDE DEF a, b
<1>3. /\ a \o b \in Seq(S) /\ Len(a \o b) = Len(a) + Len(b)
      /\ \A j \in 1 .. Len(a) + Len(b) :
           (a \o b)[j] = IF j <= Len(a) THEN a[j] ELSE b[j - Len(a)]
  BY <1>1, <1>2, ConcatProperties
<1>4. ASSUME NEW j \in 1 .. Len(a) + Len(b)
      PROVE  \E k \in 1 .. Len(s) : (a \o b)[j] = s[k]
  <2>1. CASE j <= i - 1
    BY <1>1, <1>3, <2>1
  <2>2. CASE j > i - 1
    <3>1. j - (i - 1) \in 1 .. Len(s) - i /\ j + 1 \in 1 .. Len(s)
      BY <1>1, <1>2, <2>2
    <3>2. (a \o b)[j] = b[j - (i - 1)]
      BY <1>1, <1>3, <2>2
    <3>3. b[j - (i - 1)] = s[i + (j - (i - 1))]
      BY <1>2, <3>1
    <3>4. i + (j - (i - 1)) = j + 1
      BY <1>1, <1>2
    <3> QED BY <3>1, <3>2, <3>3, <3>4
  <2> QED BY <1>1, <1>2, <2>1, <2>2
<1>5. Removed(s, i) = a \o b
  BY DEF Removed, a, b
<1>6. DOMAIN (a \o b) = 1 .. Len(a) + Len(b) /\ DOMAIN s = 1 .. Len(s)
  BY <1>3
<1> QED BY <1>3, <1>4, <1>5, <1>6

\* What the service tells of a room to a user that was let in.
LEMMA DetailSound ==
  ASSUME LobbyInv, NEW u \in Users, NEW r \in DOMAIN rooms, Knows(u, r)
  PROVE  /\ Detail(u, r, rooms[r]) \in Details
         /\ Sound(u, Detail(u, r, rooms[r]))
<1>1. rooms[r] \in Room /\ r \in RoomIds
  BY DEF LobbyInv, TypeOK
<1>2. /\ Detail(u, r, rooms[r]) \in Details
      /\ Detail(u, r, rooms[r]).room = r /\ Detail(u, r, rooms[r]).game = rooms[r].game
  BY <1>1 DEF Detail, Details, Room
<1>3. Entitled(u, rooms[r].game)
  BY DEF LobbyInv, RoomsKnowTheirGame, Entitled, Knows, Exists, Open
<1> QED BY <1>2, <1>3 DEF Sound

LEMMA DetailSoundNext ==
  ASSUME LobbyInv', NEW u \in Users, NEW r \in DOMAIN rooms', u \in rooms'[r].members
  PROVE  /\ Detail(u, r, rooms'[r]) \in Details
         /\ \A d : d = Detail(u, r, rooms'[r]) => Sound(u, d)'
<1>1. rooms'[r] \in Room /\ r \in RoomIds /\ r \in opened'
  BY DEF LobbyInv, TypeOK
<1>2. /\ Detail(u, r, rooms'[r]) \in Details
      /\ Detail(u, r, rooms'[r]).room = r /\ Detail(u, r, rooms'[r]).game = rooms'[r].game
  BY <1>1 DEF Detail, Details, Room
<1>3. Entitled(u, rooms[r].game)'
  BY DEF LobbyInv, RoomsKnowTheirGame, Entitled, Open
<1>4. Knows(u, r)'
  BY <1>1 DEF Knows
<1> QED BY <1>2, <1>3, <1>4 DEF Sound

\* A request changes its status and its answer.
Updated(u, i, st, d) == [clicks EXCEPT ![u][i].status = st, ![u][i].detail = d]

LEMMA ClickUpdate ==
  ASSUME ClientTypeOK, NEW u \in Browsers, NEW i \in DOMAIN clicks[u],
         NEW st \in {"sent", "done", "refused"}, NEW d \in Details,
         clicks' = Updated(u, i, st, d)
  PROVE  /\ clicks' \in [Browsers -> Seq(Click)]
         /\ DOMAIN clicks'[u] = DOMAIN clicks[u]
         /\ clicks'[u][i].op = clicks[u][i].op /\ clicks'[u][i].arg = clicks[u][i].arg
         /\ clicks'[u][i].status = st /\ clicks'[u][i].detail = d
         /\ \A j \in DOMAIN clicks[u] \ {i} : clicks'[u][j] = clicks[u][j]
         /\ \A w \in Browsers \ {u} : clicks'[w] = clicks[w]
<1> DEFINE q   == clicks[u][i]
           new == [q EXCEPT !.status = st, !.detail = d]
           cs  == [clicks[u] EXCEPT ![i] = new]
<1>1. clicks[u] \in Seq(Click) /\ i \in 1 .. Len(clicks[u]) /\ q \in Click
  BY DEF ClientTypeOK
<1>2. new \in Click /\ new.op = q.op /\ new.arg = q.arg /\ new.status = st /\ new.detail = d
  BY <1>1 DEF Click
<1>3. clicks' = [clicks EXCEPT ![u] = cs]
  BY <1>1 DEF ClientTypeOK, Click, Updated
<1> HIDE DEF new
<1>4. cs \in Seq(Click) /\ DOMAIN cs = DOMAIN clicks[u] /\ cs[i] = new
      /\ \A j \in DOMAIN clicks[u] \ {i} : cs[j] = clicks[u][j]
  BY <1>1, <1>2, ExceptSeq
<1> HIDE DEF cs
<1>5. clicks'[u] = cs /\ \A w \in Browsers \ {u} : clicks'[w] = clicks[w]
  BY <1>3 DEF ClientTypeOK
<1> QED BY <1>2, <1>3, <1>4, <1>5 DEF ClientTypeOK

\* A user that is not concerned by a step.
LEMMA OthersGrounded ==
  ASSUME LobbyInv, LobbyInv', NEW w \in Browsers, Grows(w), Grounded(w),
         current'[w] = current[w], place'[w] = place[w],
         clicks'[w] = clicks[w], poll'[w] = poll[w]
  PROVE  Grounded(w)'
BY GrowsKeeps DEF Grounded

\* Steps of a browser on its own.
LEMMA OwnGrows ==
  ASSUME LobbyInv, UNCHANGED <<server, left>>
  PROVE  LobbyInv' /\ \A w \in Browsers : Grows(w)
<1>1. LobbyInv'
  BY LobbyInvNext DEF server
<1> QED BY <1>1, IdleGrows DEF server

ClientSafe == ClientTypeOK /\ \A w \in Browsers : Grounded(w)

LEMMA SendSafe ==
  ASSUME ClientInv, NEW u \in Browsers, NEW op \in Ops, NEW r \in RoomIds,
         NEW arg \in Sizes \cup BOOLEAN,
         op = "create" => arg \in Sizes, op = "ready" => arg \in BOOLEAN,
         Send(u, op, r, arg)
  PROVE  ClientSafe'
<1> DEFINE q == [op |-> op, room |-> r, arg |-> arg, mine |-> op \in PanelOps,
                 status |-> "sent", detail |-> None]
<1>1. q \in Click /\ ClickSound(u, q)'
  BY DEF Click, Details, ClickSound
<1>2. clicks' = [clicks EXCEPT ![u] = Append(@, q)]
      /\ UNCHANGED <<server, left>> /\ UNCHANGED <<current, place, poll>>
  BY DEF Send
<1>3. loading' \in [Browsers -> BOOLEAN]
  <2>1. loading' = [loading EXCEPT ![u] = loading[u] \/ op \in PanelOps]
    BY DEF Send
  <2>2. (loading[u] \/ op \in PanelOps) \in BOOLEAN
    OBVIOUS
  <2> QED BY <2>1, <2>2, Zenon DEF ClientInv, ClientTypeOK
<1> HIDE DEF q
<1>4. clicks[u] \in Seq(Click)
  BY DEF ClientInv, ClientTypeOK
<1>5. Append(clicks[u], q) \in Seq(Click)
      /\ \A i \in DOMAIN Append(clicks[u], q) :
           \/ Append(clicks[u], q)[i] = q
           \/ (i \in DOMAIN clicks[u] /\ Append(clicks[u], q)[i] = clicks[u][i])
  BY <1>1, <1>4
<1>6. clicks' \in [Browsers -> Seq(Click)] /\ clicks'[u] = Append(clicks[u], q)
      /\ \A w \in Browsers \ {u} : clicks'[w] = clicks[w]
  BY <1>2, <1>5 DEF ClientInv, ClientTypeOK
<1>7. ClientTypeOK'
  BY <1>2, <1>3, <1>6 DEF ClientInv, ClientTypeOK
<1>8. LobbyInv /\ LobbyInv' /\ \A w \in Browsers : Grows(w) /\ Grounded(w)
  BY <1>2, OwnGrows DEF ClientInv
<1>9. Grounded(u)'
  BY <1>1, <1>2, <1>5, <1>6, <1>8, GrowsKeeps DEF Grounded
<1>10. \A w \in Browsers \ {u} : Grounded(w)'
  BY <1>2, <1>6, <1>8, OthersGrounded
<1> QED BY <1>7, <1>9, <1>10 DEF ClientSafe

LEMMA ShowSafe ==
  ASSUME ClientInv, NEW u \in Browsers, NEW d \in Details, NEW to \in Nat,
         NEW busy \in BOOLEAN, NEW cs \in Seq(Click), Show(u, d, to, busy, cs),
         UNCHANGED <<server, left>>,
         poll' \in [Browsers -> {None} \cup Poll],
         \A w \in Browsers : poll'[w] = poll[w] \/ poll'[w] = None,
         Entitled(u, to), d # None => Sound(u, d),
         \A i \in DOMAIN cs : ClickSound(u, cs[i])
  PROVE  ClientSafe'
<1>1. ClientTypeOK
  BY DEF ClientInv
<1>2. /\ current' \in [Browsers -> Details] /\ place' \in [Browsers -> Nat]
      /\ clicks' \in [Browsers -> Seq(Click)] /\ loading' \in [Browsers -> BOOLEAN]
      /\ current'[u] = d /\ place'[u] = to /\ DOMAIN clicks'[u] = DOMAIN cs
      /\ \A i \in DOMAIN cs :
           /\ clicks'[u][i].op = cs[i].op /\ clicks'[u][i].arg = cs[i].arg
           /\ clicks'[u][i].status = cs[i].status /\ clicks'[u][i].detail = cs[i].detail
      /\ \A w \in Browsers \ {u} : /\ current'[w] = current[w] /\ place'[w] = place[w]
                                   /\ clicks'[w] = clicks[w]
  BY <1>1, ShowEffect
<1>3. ClientTypeOK'
  BY <1>1, <1>2 DEF ClientTypeOK
<1>4. LobbyInv /\ LobbyInv' /\ \A w \in Browsers : Grows(w) /\ Grounded(w)
  BY OwnGrows DEF ClientInv
<1>5. \A i \in DOMAIN cs : ClickSound(u, clicks'[u][i])
  BY <1>2 DEF ClickSound
<1>6. Grounded(u)'
  BY <1>2, <1>4, <1>5, GrowsKeeps DEF Grounded
<1>7. ASSUME NEW w \in Browsers \ {u} PROVE Grounded(w)'
  BY <1>2, <1>4, GrowsKeeps DEF Grounded
<1> QED BY <1>3, <1>6, <1>7 DEF ClientSafe

LEMMA ReactSafe ==
  ASSUME ClientInv, NEW u \in Browsers, NEW i \in DOMAIN clicks[u], React(u, i)
  PROVE  ClientSafe'
<1> DEFINE q    == clicks[u][i]
           rest == Removed(clicks[u], i)
           idle == loading[u] /\ ~ q.mine
<1>1. clicks[u] \in Seq(Click) /\ i \in 1 .. Len(clicks[u]) /\ q \in Click /\ ClickSound(u, q)
      /\ current[u] \in Details /\ place[u] \in Nat /\ Entitled(u, place[u])
      /\ loading[u] \in BOOLEAN /\ (current[u] # None => Sound(u, current[u]))
  BY DEF ClientInv, ClientTypeOK, Grounded
<1>2. rest \in Seq(Click) /\ \A j \in DOMAIN rest : \E k \in DOMAIN clicks[u] : rest[j] = clicks[u][k]
  BY <1>1, RemovedType
<1>3. \A j \in DOMAIN rest : ClickSound(u, rest[j])
  BY <1>2 DEF ClientInv, Grounded
<1>4. UNCHANGED <<server, left>> /\ poll' = poll
  BY DEF React
<1>5. poll' \in [Browsers -> {None} \cup Poll]
  BY <1>4 DEF ClientInv, ClientTypeOK
<1>6. q.detail \in Details /\ None \in Details /\ idle \in BOOLEAN
  BY <1>1 DEF Click, Details
<1>7. Entitled(u, 0) /\ \A g : Entitled(u, g) => g \in Nat
  BY DEF Entitled, ClientInv, LobbyInv, TypeOK
<1> HIDE DEF rest, idle
<1>8. CASE q.status = "refused"
  <2>1. Show(u, current[u], place[u], idle, rest)
    BY <1>8 DEF React, rest, idle
  <2> QED BY <1>1, <1>2, <1>3, <1>4, <1>5, <1>6, <2>1, ShowSafe
<1>9. CASE q.status = "done" /\ q.op \in {"create", "join", "ready"}
  <2>1. Show(u, q.detail, Destination(u, q.detail), idle, rest)
    BY <1>9 DEF React, rest, idle
  <2>2. Sound(u, q.detail)
    BY <1>1, <1>9 DEF ClickSound
  <2>3. Entitled(u, Destination(u, q.detail)) /\ Destination(u, q.detail) \in Nat
    BY <1>1, <1>7, <2>2 DEF Destination, Sound
  <2> QED BY <1>2, <1>3, <1>4, <1>5, <1>6, <2>1, <2>2, <2>3, ShowSafe
<1>10. CASE q.status = "done" /\ q.op = "start"
  <2>1. Show(u, q.detail, q.detail.game, idle, rest)
    BY <1>10 DEF React, rest, idle
  <2>2. Sound(u, q.detail)
    BY <1>1, <1>10 DEF ClickSound
  <2>3. Entitled(u, q.detail.game) /\ q.detail.game \in Nat
    BY <1>7, <2>2 DEF Sound
  <2> QED BY <1>2, <1>3, <1>4, <1>5, <1>6, <2>1, <2>2, <2>3, ShowSafe
<1>11. CASE q.status = "done" /\ q.op \in {"leave", "close"}
  <2> DEFINE d == IF current[u] # None /\ current[u].room = q.room THEN None ELSE current[u]
  <2>1. Show(u, d, place[u], loading[u], rest)
    BY <1>11 DEF React, rest
  <2>2. d \in Details /\ (d # None => Sound(u, d))
    BY <1>1, <1>6
  <2> HIDE DEF d
  <2> QED BY <1>1, <1>2, <1>3, <1>4, <1>5, <2>1, <2>2, ShowSafe
<1> QED BY <1>8, <1>9, <1>10, <1>11 DEF React

LEMMA ReactToPollSafe ==
  ASSUME ClientInv, NEW u \in Browsers, ReactToPoll(u)
  PROVE  ClientSafe'
<1> DEFINE d == poll[u].detail
<1>1. poll[u] \in Poll /\ PollSound(u, poll[u]) /\ clicks[u] \in Seq(Click)
      /\ loading[u] \in BOOLEAN /\ place[u] \in Nat /\ Entitled(u, place[u])
  BY DEF ReactToPoll, ClientInv, ClientTypeOK, Grounded
<1>2. d \in Details /\ (d # None => Sound(u, d))
  BY <1>1 DEF Poll, PollSound
<1>3. Entitled(u, Destination(u, d)) /\ Destination(u, d) \in Nat
  <2>1. \A g : Entitled(u, g) => g \in Nat
    BY DEF Entitled, ClientInv, LobbyInv, TypeOK
  <2> QED BY <1>1, <1>2, <2>1 DEF Destination, Sound
<1>4. Show(u, d, Destination(u, d), loading[u], clicks[u]) /\ UNCHANGED <<server, left>>
  BY DEF ReactToPoll
<1>5. poll' = [poll EXCEPT ![u] = None]
  BY DEF ReactToPoll
<1>6. poll' \in [Browsers -> {None} \cup Poll]
      /\ \A w \in Browsers : poll'[w] = poll[w] \/ poll'[w] = None
  BY <1>5 DEF ClientInv, ClientTypeOK
<1>7. \A i \in DOMAIN clicks[u] : ClickSound(u, clicks[u][i])
  BY DEF ClientInv, Grounded
<1> HIDE DEF d
<1> QED BY <1>1, <1>2, <1>3, <1>4, <1>6, <1>7, ShowSafe

LEMMA LeaveViewSafe ==
  ASSUME ClientInv, NEW u \in Browsers, LeaveView(u)
  PROVE  ClientSafe'
<1>1. Show(u, None, place[u], FALSE, clicks[u]) /\ UNCHANGED <<server, left>> /\ poll' = poll
  BY DEF LeaveView
<1>2. None \in Details /\ place[u] \in Nat /\ clicks[u] \in Seq(Click)
      /\ poll \in [Browsers -> {None} \cup Poll]
  BY DEF ClientInv, ClientTypeOK, Details
<1>3. Entitled(u, place[u]) /\ \A i \in DOMAIN clicks[u] : ClickSound(u, clicks[u][i])
  BY DEF ClientInv, Grounded
<1> QED BY <1>1, <1>2, <1>3, ShowSafe

LEMMA ClickSafe ==
  ASSUME ClientInv, NEW u \in Browsers, ClickPanel(u) \/ ClickLobby(u)
  PROVE  ClientSafe'
<1>1. CASE ClickPanel(u)
  <2> DEFINE d == current[u]
  <2>1. d \in Details /\ d # None
    BY <1>1 DEF ClickPanel, PanelShown, ClientInv, ClientTypeOK
  <2>2. d.room \in RoomIds /\ (~ d.isReady) \in BOOLEAN
    BY <2>1 DEF Details
  <2>3. \/ Send(u, "ready", d.room, ~ d.isReady)
        \/ \E op \in {"start", "leave", "close"} : Send(u, op, d.room, TRUE)
    BY <1>1 DEF ClickPanel
  <2> HIDE DEF d
  <2>4. CASE Send(u, "ready", d.room, ~ d.isReady)
    BY <2>2, <2>4, SendSafe DEF Ops, PanelOps
  <2>5. ASSUME NEW op \in {"start", "leave", "close"}, Send(u, op, d.room, TRUE)
        PROVE  ClientSafe'
    BY <2>2, <2>5, SendSafe DEF Ops, PanelOps
  <2> QED BY <2>3, <2>4, <2>5
<1>2. CASE ClickLobby(u)
  <2>1. ASSUME NEW r \in RoomIds \ opened, NEW size \in FormSizes, Send(u, "create", r, size)
        PROVE  ClientSafe'
    BY <2>1, ClientAssumption, SendSafe DEF Ops
  <2>2. ASSUME NEW r \in opened, Send(u, "join", r, TRUE)
        PROVE  ClientSafe'
    <3>1. r \in RoomIds
      BY DEF ClientInv, LobbyInv, TypeOK
    <3> QED BY <2>2, <3>1, SendSafe DEF Ops
  <2> QED BY <1>2, <2>1, <2>2 DEF ClickLobby
<1> QED BY <1>1, <1>2

LEMMA LoseSafe ==
  ASSUME ClientInv, NEW u \in Browsers, NEW i \in DOMAIN clicks[u], Lose(u, i)
  PROVE  ClientSafe'
<1>1. clicks' = [clicks EXCEPT ![u][i].status = "refused", ![u][i].detail = None]
      /\ UNCHANGED <<server, left>> /\ UNCHANGED <<current, place, poll, loading>>
  BY DEF Lose
<1>2. None \in Details /\ clicks' = Updated(u, i, "refused", None)
  BY <1>1 DEF Details, Updated
<1>3. /\ clicks' \in [Browsers -> Seq(Click)] /\ DOMAIN clicks'[u] = DOMAIN clicks[u]
      /\ clicks'[u][i].op = clicks[u][i].op /\ clicks'[u][i].arg = clicks[u][i].arg
      /\ clicks'[u][i].status = "refused"
      /\ \A j \in DOMAIN clicks[u] \ {i} : clicks'[u][j] = clicks[u][j]
      /\ \A w \in Browsers \ {u} : clicks'[w] = clicks[w]
  BY <1>2, ClickUpdate DEF ClientInv
<1>4. ClientTypeOK'
  BY <1>1, <1>3 DEF ClientInv, ClientTypeOK
<1>5. LobbyInv /\ LobbyInv' /\ \A w \in Browsers : Grows(w) /\ Grounded(w)
  BY <1>1, OwnGrows DEF ClientInv
<1>6. \A j \in DOMAIN clicks'[u] : ClickSound(u, clicks'[u][j])
  <2>1. ClickSound(u, clicks'[u][i])
    BY <1>3, <1>5 DEF ClickSound, Grounded
  <2> QED BY <1>3, <1>5, <2>1 DEF Grounded
<1>7. Grounded(u)'
  BY <1>1, <1>5, <1>6, GrowsKeeps DEF Grounded
<1>8. \A w \in Browsers \ {u} : Grounded(w)'
  BY <1>1, <1>3, <1>5, OthersGrounded
<1> QED BY <1>4, <1>7, <1>8 DEF ClientSafe

\* Steps that only change the poll of a user, or its page, or forget.
LEMMA OwnSafe ==
  ASSUME ClientInv, ClientTypeOK', UNCHANGED <<server, left>>,
         \A w \in Browsers :
           /\ Entitled(w, place'[w])
           /\ current'[w] # None => Sound(w, current'[w])
           /\ clicks'[w] = clicks[w] \/ clicks'[w] = <<>>
           /\ poll'[w] # None => PollSound(w, poll'[w])
  PROVE  ClientSafe'
<1>1. LobbyInv /\ LobbyInv' /\ \A w \in Browsers : Grows(w) /\ Grounded(w)
  BY OwnGrows DEF ClientInv
<1>2. ASSUME NEW w \in Browsers PROVE Grounded(w)'
  <2>1. \A i \in DOMAIN clicks'[w] : ClickSound(w, clicks'[w][i])
    BY <1>1 DEF Grounded
  <2> QED BY <1>1, <2>1, GrowsKeeps DEF Grounded
<1> QED BY <1>2 DEF ClientSafe

LEMMA PollSafe ==
  ASSUME ClientInv, NEW u \in Browsers, SendPoll(u) \/ ServePoll(u) \/ LosePoll(u)
  PROVE  ClientSafe'
<1>1. UNCHANGED <<server, left>> /\ UNCHANGED <<current, place, clicks, loading>>
  BY DEF SendPoll, ServePoll, LosePoll
<1>2. \A w \in Browsers : Grounded(w)
  BY DEF ClientInv
<1>3. ASSUME NEW p \in {None} \cup Poll, poll' = [poll EXCEPT ![u] = p],
             p # None => PollSound(u, p)
      PROVE  ClientSafe'
  <2>1. poll' \in [Browsers -> {None} \cup Poll] /\ poll'[u] = p
        /\ \A w \in Browsers \ {u} : poll'[w] = poll[w]
    BY <1>3 DEF ClientInv, ClientTypeOK
  <2>2. ClientTypeOK'
    BY <1>1, <2>1 DEF ClientInv, ClientTypeOK
  <2>3. \A w \in Browsers : poll'[w] # None => PollSound(w, poll'[w])
    BY <1>2, <1>3, <2>1 DEF Grounded
  <2> QED BY <1>1, <1>2, <2>2, <2>3, OwnSafe DEF Grounded
<1>4. CASE SendPoll(u)
  <2> DEFINE p == [room |-> current[u].room, status |-> "sent", detail |-> None]
  <2>1. current[u] \in Details /\ current[u] # None /\ Sound(u, current[u])
    BY <1>2, <1>4 DEF SendPoll, PanelShown, ClientInv, ClientTypeOK, Grounded
  <2>2. p \in Poll /\ PollSound(u, p)
    BY <2>1 DEF Details, Poll, PollSound, Sound
  <2>3. poll' = [poll EXCEPT ![u] = p]
    BY <1>4 DEF SendPoll
  <2> HIDE DEF p
  <2> QED BY <1>3, <2>2, <2>3
<1>5. CASE ServePoll(u)
  <2> DEFINE r == poll[u].room
             p == [poll[u] EXCEPT !.status = IF Exists(r) THEN "done" ELSE "not found",
                                  !.detail = IF Exists(r) THEN Detail(u, r, rooms[r]) ELSE None]
  <2>1. poll[u] \in Poll /\ PollSound(u, poll[u])
    BY <1>2, <1>5 DEF ServePoll, ClientInv, ClientTypeOK, Grounded
  <2>2. Knows(u, r) /\ u \in Users
    BY <2>1, ClientAssumption DEF PollSound
  <2>3. Exists(r) => Detail(u, r, rooms[r]) \in Details /\ Sound(u, Detail(u, r, rooms[r]))
    BY <2>2, DetailSound DEF ClientInv, Exists
  <2>4. p \in Poll /\ PollSound(u, p)
    BY <2>1, <2>2, <2>3 DEF Poll, PollSound, Details
  <2>5. poll' = [poll EXCEPT ![u] = p]
    BY <1>5, <2>1 DEF ServePoll, ClientInv, ClientTypeOK, Poll
  <2> HIDE DEF p
  <2> QED BY <1>3, <2>4, <2>5
<1>6. CASE LosePoll(u)
  BY <1>3, <1>6 DEF LosePoll
<1> QED BY <1>4, <1>5, <1>6

LEMMA MoveSafe ==
  ASSUME ClientInv, NEW u \in Browsers, BackToLobby(u) \/ Reload(u)
  PROVE  ClientSafe'
<1>1. \A w \in Browsers : Grounded(w)
  BY DEF ClientInv
<1>2. CASE BackToLobby(u)
  <2> DEFINE to == IF current[u] = None THEN 0 ELSE current[u].game
  <2>1. Entitled(u, to) /\ to \in Nat
    BY <1>1 DEF Entitled, Grounded, Sound, ClientInv, LobbyInv, TypeOK
  <2>2. place' = [place EXCEPT ![u] = to] /\ UNCHANGED <<server, left>>
        /\ UNCHANGED <<current, clicks, poll, loading>>
    BY <1>2 DEF BackToLobby
  <2> HIDE DEF to
  <2>3. ClientTypeOK' /\ place'[u] = to /\ \A w \in Browsers \ {u} : place'[w] = place[w]
    BY <2>1, <2>2 DEF ClientInv, ClientTypeOK
  <2> QED BY <1>1, <2>1, <2>2, <2>3, OwnSafe DEF Grounded
<1>3. CASE Reload(u)
  <2>1. /\ current' = [current EXCEPT ![u] = None] /\ clicks' = [clicks EXCEPT ![u] = <<>>]
        /\ poll' = [poll EXCEPT ![u] = None] /\ loading' = [loading EXCEPT ![u] = FALSE]
        /\ UNCHANGED <<server, left>> /\ place' = place
    BY <1>3 DEF Reload
  <2>2. None \in Details
    BY DEF Details
  <2>3. ClientTypeOK'
    BY <2>1, <2>2 DEF ClientInv, ClientTypeOK
  <2> QED BY <1>1, <2>1, <2>3, OwnSafe DEF Grounded, ClientInv, ClientTypeOK
<1> QED BY <1>2, <1>3

\* A request that got user u into a room leaves it there.
LEMMA RequestPutsIn ==
  ASSUME LobbyInv, LobbyInv', NEW u \in Users, NEW r \in RoomIds,
         \/ \E size \in Sizes : CreateRoom(u, r, size)
         \/ JoinRoom(u, r)
         \/ \E ready \in BOOLEAN : SetReady(u, r, ready)
         \/ StartGame(u, r)
  PROVE  r \in DOMAIN rooms' /\ u \in rooms'[r].members
<1>1. \A x \in DOMAIN rooms : rooms[x] \in Room
  BY DEF LobbyInv, TypeOK
<1>2. ASSUME NEW size \in Sizes, CreateRoom(u, r, size)
      PROVE  r \in DOMAIN rooms' /\ u \in rooms'[r].members
  BY <1>2 DEF CreateRoom, With
<1>3. CASE JoinRoom(u, r)
  BY <1>1, <1>3 DEF JoinRoom, MayJoin, Exists, Room
<1>4. ASSUME NEW ready \in BOOLEAN, SetReady(u, r, ready)
      PROVE  r \in DOMAIN rooms' /\ u \in rooms'[r].members
  BY <1>1, <1>4 DEF SetReady, MaySetReady, Exists, Room
<1>5. CASE StartGame(u, r)
  <2>1. r \in DOMAIN rooms /\ rooms[r].host = u /\ u \in rooms[r].members
    BY <1>5 DEF StartGame, MayStart, Exists, LobbyInv, PlacesHold, RoomFits
  <2> QED BY <1>1, <1>5, <2>1 DEF StartGame, Room
<1> QED BY <1>2, <1>3, <1>4, <1>5

LEMMA ServeSafe ==
  ASSUME ClientInv, LobbyInv', NEW u \in Browsers, NEW i \in DOMAIN clicks[u], Serve(u, i)
  PROVE  ClientSafe'
<1> DEFINE q == clicks[u][i]
<1>1. q \in Click /\ ClickSound(u, q) /\ q.room \in RoomIds /\ u \in Users
  <2>1. clicks[u] \in Seq(Click)
    BY DEF ClientInv, ClientTypeOK
  <2>2. q \in Click
    BY <2>1
  <2>3. ClickSound(u, q)
    BY DEF ClientInv, Grounded
  <2> QED BY <2>2, <2>3, ClientAssumption DEF Click
<1>2. q.status = "sent" /\ UNCHANGED <<current, place, poll, loading>>
  BY DEF Serve
<1>3. LobbyInv /\ ClientTypeOK /\ \A w \in Browsers : Grounded(w)
  BY DEF ClientInv
<1>4. ASSUME clicks' \in [Browsers -> Seq(Click)], DOMAIN clicks'[u] = DOMAIN clicks[u],
             clicks'[u][i].op = q.op, clicks'[u][i].arg = q.arg,
             \A j \in DOMAIN clicks[u] \ {i} : clicks'[u][j] = clicks[u][j],
             \A w \in Browsers \ {u} : clicks'[w] = clicks[w],
             left' \in [Browsers -> SUBSET RoomIds], \A w \in Browsers : Grows(w),
             clicks'[u][i].status = "done" /\ q.op \notin {"leave", "close"} =>
               Sound(u, clicks[u][i].detail)'
      PROVE  ClientSafe'
  <2>1. ClientTypeOK'
    BY <1>2, <1>3, <1>4 DEF ClientTypeOK
  <2>2. ClickSound(u, clicks[u][i])'
    BY <1>1, <1>4 DEF ClickSound
  <2>3. \A j \in DOMAIN clicks[u] \ {i} : ClickSound(u, clicks[u][j])'
    <3>1. \A j \in DOMAIN clicks[u] : ClickSound(u, clicks[u][j])
      BY <1>3 DEF Grounded
    <3>2. \A x : ClickSound(u, x) => ClickSound(u, x)'
      BY <1>3, <1>4, GrowsKeeps
    <3> QED BY <1>4, <3>1, <3>2
  <2>4. Grounded(u)'
    BY <1>2, <1>3, <1>4, <2>2, <2>3, GrowsKeeps DEF Grounded
  <2>5. \A w \in Browsers \ {u} : Grounded(w)'
    BY <1>2, <1>3, <1>4, OthersGrounded
  <2> QED BY <2>1, <2>4, <2>5 DEF ClientSafe
<1>5. CASE May(u, q) /\ Do(u, q)
  <2> DEFINE d == IF q.op \in {"leave", "close"} THEN None ELSE Detail(u, q.room, rooms'[q.room])
  <2>1. clicks' = [clicks EXCEPT ![u][i].status = "done", ![u][i].detail = d]
        /\ left' = [left EXCEPT ![u] = IF q.op = "leave" THEN @ \cup {q.room} ELSE @]
    BY <1>5 DEF Serve
  <2>2. left' \in [Browsers -> SUBSET RoomIds]
        /\ left'[u] = left[u] \cup (IF q.op = "leave" THEN {q.room} ELSE {})
        /\ \A w \in Browsers \ {u} : left'[w] = left[w]
    BY <1>1, <1>3, <2>1 DEF ClientTypeOK
  <2>3. \/ q.op = "leave" /\ LeaveRoom(u, q.room)
        \/ q.op = "close" /\ CloseRoom(u, q.room)
        \/ /\ q.op \notin {"leave", "close"}
           /\ \/ \E size \in Sizes : CreateRoom(u, q.room, size)
              \/ JoinRoom(u, q.room)
              \/ \E ready \in BOOLEAN : SetReady(u, q.room, ready)
              \/ StartGame(u, q.room)
    BY <1>1, <1>5 DEF Do, ClickSound
  <2>4. \A w \in Browsers : Grows(w)
    <3>1. CASE q.op = "leave" /\ LeaveRoom(u, q.room)
      BY <1>1, <1>3, <2>2, <3>1, LeaveKeepsRooms DEF Grows, LobbyInv, TypeOK
    <3>2. CASE q.op # "leave" /\ Keeping(u, q.room)
      BY <1>1, <1>3, <2>2, <3>2, OthersKeepRooms DEF Grows
    <3> QED BY <2>3, <3>1, <3>2 DEF Keeping
  <2>5. q.op \notin {"leave", "close"} =>
          q.room \in DOMAIN rooms' /\ u \in rooms'[q.room].members
    BY <1>1, <1>3, <2>3, RequestPutsIn
  <2>6. d \in Details /\ \A x : q.op \notin {"leave", "close"} /\ x = d => Sound(u, x)'
    BY <1>1, <2>5, DetailSoundNext DEF Details
  <2> HIDE DEF d
  <2>7. /\ clicks' \in [Browsers -> Seq(Click)] /\ DOMAIN clicks'[u] = DOMAIN clicks[u]
        /\ clicks'[u][i].op = q.op /\ clicks'[u][i].arg = q.arg
        /\ clicks'[u][i].detail = d
        /\ \A j \in DOMAIN clicks[u] \ {i} : clicks'[u][j] = clicks[u][j]
        /\ \A w \in Browsers \ {u} : clicks'[w] = clicks[w]
    <3>1. clicks' = Updated(u, i, "done", d)
      BY <2>1 DEF Updated
    <3> QED BY <1>3, <2>6, <3>1, ClickUpdate
  <2>8. q.op \notin {"leave", "close"} => Sound(u, clicks[u][i].detail)'
    BY <2>6, <2>7 DEF Sound
  <2> QED BY <1>4, <2>2, <2>4, <2>7, <2>8
<1>6. CASE ~ May(u, q) /\ UNCHANGED server /\ UNCHANGED left
           /\ clicks' = [clicks EXCEPT ![u][i].status = "refused"]
  <2> DEFINE new == [q EXCEPT !.status = "refused"]
             cs  == [clicks[u] EXCEPT ![i] = new]
  <2>1. clicks[u] \in Seq(Click) /\ i \in 1 .. Len(clicks[u])
    BY <1>3 DEF ClientTypeOK
  <2>2. new \in Click /\ new.op = q.op /\ new.arg = q.arg /\ new.status = "refused"
    BY <1>1 DEF Click
  <2>3. clicks' = [clicks EXCEPT ![u] = cs]
    BY <1>6
  <2> HIDE DEF new
  <2>4. cs \in Seq(Click) /\ DOMAIN cs = DOMAIN clicks[u] /\ cs[i] = new
        /\ \A j \in DOMAIN clicks[u] \ {i} : cs[j] = clicks[u][j]
    BY <2>1, <2>2, ExceptSeq
  <2> HIDE DEF cs
  <2>5. /\ clicks' \in [Browsers -> Seq(Click)] /\ clicks'[u] = cs
        /\ \A w \in Browsers \ {u} : clicks'[w] = clicks[w]
    BY <1>3, <2>3, <2>4 DEF ClientTypeOK
  <2>6. left' \in [Browsers -> SUBSET RoomIds] /\ \A w \in Browsers : Grows(w)
    BY <1>3, <1>6, OwnGrows DEF ClientTypeOK
  <2> QED BY <1>4, <2>2, <2>4, <2>5, <2>6
<1> QED BY <1>5, <1>6 DEF Serve

-----------------------------------------------------------------------------
(* The composition *)

\* What a browser and the others do to the service are steps of the service.
LEMMA ClientStepServes ==
  ASSUME ClientTypeOK, \A u \in Browsers : Grounded(u), [ClientNext]_vars
  PROVE  [Next]_server
<1>1. ASSUME NEW u \in Browsers, UserStep(u)
      PROVE  [Next]_server
  <2>1. CASE \E i \in DOMAIN clicks[u] : Serve(u, i)
    <3>1. PICK i \in DOMAIN clicks[u] : Serve(u, i)
      BY <2>1
    <3> DEFINE q == clicks[u][i]
    <3>2. clicks[u] \in Seq(Click)
      BY DEF ClientTypeOK
    <3>3. q \in Click /\ ClickSound(u, q) /\ u \in Users
      BY <3>2, ClientAssumption DEF Grounded
    <3>4. Do(u, q) \/ UNCHANGED server
      BY <3>1 DEF Serve
    <3>5. q.room \in RoomIds /\ (Do(u, q) => Request(u, q.room))
      BY <3>3 DEF Do, Request, Click, ClickSound
    <3> QED BY <3>3, <3>4, <3>5 DEF Next
  <2>2. CASE ~ \E i \in DOMAIN clicks[u] : Serve(u, i)
    <3>1. UNCHANGED server
      BY <1>1, <2>2 DEF UserStep, ClickPanel, ClickLobby, Send, Lose, React, SendPoll,
            ServePoll, ReactToPoll, LosePoll, LeaveView, BackToLobby, Reload
    <3> QED BY <3>1
  <2> QED BY <2>1, <2>2
<1>2. CASE Others
  BY <1>2 DEF Others, Next
<1>3. CASE Timer
  BY <1>3 DEF Timer, Next
<1>4. CASE Crash
  BY <1>4 DEF Crash, Next
<1>5. CASE UNCHANGED vars
  BY <1>5 DEF vars, server
<1> QED BY <1>1, <1>2, <1>3, <1>4, <1>5 DEF ClientNext

LEMMA UserStepSafe ==
  ASSUME ClientInv, LobbyInv', NEW u \in Browsers, UserStep(u)
  PROVE  ClientSafe'
<1>1. CASE ClickPanel(u) \/ ClickLobby(u)
  BY <1>1, ClickSafe
<1>2. ASSUME NEW i \in DOMAIN clicks[u], Serve(u, i) \/ Lose(u, i) \/ React(u, i)
      PROVE  ClientSafe'
  BY <1>2, ServeSafe, LoseSafe, ReactSafe
<1>3. CASE SendPoll(u) \/ ServePoll(u) \/ LosePoll(u)
  BY <1>3, PollSafe
<1>4. CASE ReactToPoll(u)
  BY <1>4, ReactToPollSafe
<1>5. CASE LeaveView(u)
  BY <1>5, LeaveViewSafe
<1>6. CASE BackToLobby(u) \/ Reload(u)
  BY <1>6, MoveSafe
<1> QED BY <1>1, <1>2, <1>3, <1>4, <1>5, <1>6 DEF UserStep

\* A step of the world around the browsers.
LEMMA OutsideSafe ==
  ASSUME ClientInv, LobbyInv', UNCHANGED browser, \A w \in Browsers : Grows(w)
  PROVE  ClientSafe'
<1>1. UNCHANGED <<current, place, clicks, poll, loading, left>>
  BY DEF browser
<1>2. ClientTypeOK'
  BY <1>1 DEF ClientInv, ClientTypeOK
<1> QED BY <1>1, <1>2, OthersGrounded DEF ClientInv, ClientSafe

LEMMA ClientInvNext == ClientInv /\ [ClientNext]_vars => ClientInv'
<1> SUFFICES ASSUME ClientInv, [ClientNext]_vars
             PROVE  ClientSafe' /\ LobbyInv'
  BY DEF ClientInv, ClientSafe
<1>1. LobbyInv /\ LobbyInv'
  BY ClientStepServes, LobbyInvNext DEF ClientInv
<1>2. ASSUME NEW u \in Browsers, UserStep(u) PROVE ClientSafe'
  BY <1>1, <1>2, UserStepSafe
<1>3. CASE Others
  <2>1. PICK v \in Users \ Browsers, r \in RoomIds : Request(v, r)
    BY <1>3 DEF Others
  <2>2. UNCHANGED browser /\ left' = left
    BY <1>3 DEF Others, browser
  <2>3. \A w \in Browsers : Grows(w)
    BY <1>1, <2>1, <2>2, OtherUsersGrow
  <2> QED BY <1>1, <2>2, <2>3, OutsideSafe
<1>4. CASE Timer
  <2>1. UNCHANGED browser /\ left' = left /\ UNCHANGED <<opened, announced>>
    BY <1>4 DEF Timer, browser, Purge
  <2>2. \A r \in DOMAIN rooms' : r \in DOMAIN rooms /\ rooms'[r].members = rooms[r].members
    BY <1>1, <1>4, PurgeType DEF Timer, LobbyInv
  <2>3. \A w \in Browsers : Grows(w)
    BY <1>1, <2>1, <2>2, IdleGrows
  <2> QED BY <1>1, <2>1, <2>3, OutsideSafe
<1>5. CASE Crash
  <2>1. UNCHANGED browser /\ left' = left /\ UNCHANGED <<opened, announced>>
    BY <1>5 DEF Crash, browser, Restart
  <2>2. DOMAIN rooms' = {}
    BY <1>5 DEF Crash, Restart, Dropping
  <2>3. \A w \in Browsers : Grows(w)
    BY <1>1, <2>1, <2>2, IdleGrows
  <2> QED BY <1>1, <2>1, <2>3, OutsideSafe
<1>6. CASE UNCHANGED vars
  <2>1. UNCHANGED browser /\ UNCHANGED <<server, left>>
    BY <1>6 DEF vars, browser
  <2> QED BY <1>1, <2>1, OwnGrows, OutsideSafe
<1> QED BY <1>1, <1>2, <1>3, <1>4, <1>5, <1>6 DEF ClientNext

LEMMA ClientInvInit == ClientInit => ClientInv
<1> SUFFICES ASSUME ClientInit PROVE ClientInv
  OBVIOUS
<1>1. LobbyInv
  BY LobbyInvInit DEF ClientInit
<1>2. ClientTypeOK
  BY DEF ClientInit, ClientTypeOK, Details
<1>3. \A u \in Browsers : Grounded(u)
  BY DEF ClientInit, Grounded, Entitled
<1> QED BY <1>1, <1>2, <1>3 DEF ClientInv

\* The lobby with its browsers implements the service: whatever is clicked,
\* late or lost, rooms change by requests, by the timer, or by a restart.
THEOREM BrowsersUseTheService == ClientSpec => Spec
<1>1. ClientInv /\ [ClientNext]_vars => [Next]_server
  BY ClientStepServes DEF ClientInv
<1>2. ClientInit => Init
  BY DEF ClientInit
<1> QED BY <1>1, <1>2, ClientInvInit, ClientInvNext, PTL DEF ClientSpec, Spec

\* A browser enters games of others only from a room that it has left
\* (store/lobby.ts:40, LobbyPage.tsx:207), for any number of users, rooms and
\* games, any requests under way, and any losses and restarts.
THEOREM StrangersOnlyByLeaving == ClientSpec => []StrangersHadLeft
<1>1. ClientInv => StrangersHadLeft
  BY DEF ClientInv, Grounded, Entitled, StrangersHadLeft
<1> QED BY <1>1, ClientInvInit, ClientInvNext, PTL DEF ClientSpec
=============================================================================
