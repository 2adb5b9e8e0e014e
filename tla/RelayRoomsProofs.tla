---- MODULE RelayRoomsProofs ----
(***************************************************************************)
(* What RelayRooms keeps for any number of users, rooms, connections and   *)
(* timers: every variable has its type, the generation guard works, and a  *)
(* username has one session.                                               *)
(***************************************************************************)
EXTENDS RelayRooms, SequenceTheorems, TLAPS

----------------------------------------------------------------------------
(* The roster operators keep a room a room.                                 *)

LEMMA WithPlayerType ==
  ASSUME NEW rm \in Room, NEW p \in PlayerIds
  PROVE  WithPlayer(rm, p) \in Room
<1>1. Append(rm.seats, p) \in Seq(PlayerIds)
  BY DEF Room
<1> QED BY <1>1 DEF WithPlayer, Room

LEMMA WithObserverType ==
  ASSUME NEW rm \in Room, NEW p \in PlayerIds
  PROVE  WithObserver(rm, p) \in Room
BY DEF WithObserver, Room

LEMMA WithUpType ==
  ASSUME NEW rm \in Room, NEW p \in PlayerIds, NEW isUp
  PROVE  WithUp(rm, p, isUp) \in Room
BY DEF WithUp, Room

(* RemoveAt at an index of the sequence gives a sequence over the same set. *)
LEMMA RemoveAtType ==
  ASSUME NEW S, NEW s \in Seq(S), NEW i \in DOMAIN s
  PROVE  RemoveAt(s, i) \in Seq(S)
<1>1. i \in 1..Len(s) /\ Len(s) \in Nat
  OBVIOUS
<1>2. SubSeq(s, 1, i - 1) \in Seq(S)
  BY <1>1
<1>3. SubSeq(s, i + 1, Len(s)) \in Seq(S)
  BY <1>1
<1> QED BY <1>2, <1>3 DEF RemoveAt

LEMMA SeatIndexType ==
  ASSUME NEW rm \in Room, NEW p \in Seated(rm)
  PROVE  SeatIndex(rm, p) \in DOMAIN rm.seats
BY DEF Seated, SeatIndex, Range

LEMMA WithoutPlayerType ==
  ASSUME NEW rm \in Room, NEW p \in Seated(rm)
  PROVE  WithoutPlayer(rm, p) \in Room
<1> DEFINE left == RemoveAt(rm.seats, SeatIndex(rm, p))
<1>1. left \in Seq(PlayerIds)
  BY SeatIndexType, RemoveAtType DEF Room
<1>2. left # << >> => Head(left) \in PlayerIds
  BY <1>1
<1> HIDE DEF left
<1>3. [rm EXCEPT !.seats = left, !.up = @ \ {p},
               !.host = IF @ = p /\ left # << >> THEN Head(left) ELSE @] \in Room
  BY <1>1, <1>2 DEF Room
<1> QED BY <1>3 DEF WithoutPlayer, left

LEMMA WithoutParticipantType ==
  ASSUME NEW rm \in Room, NEW p \in PlayerIds
  PROVE  WithoutParticipant(rm, p) \in Room
<1>1. CASE p \in Seated(rm)
  BY <1>1, WithoutPlayerType DEF WithoutParticipant
<1>2. CASE p \notin Seated(rm)
  BY <1>2 DEF WithoutParticipant, Room
<1> QED BY <1>1, <1>2

LEMMA RekeyedType ==
  ASSUME NEW rm \in Room, NEW old, NEW new \in PlayerIds
  PROVE  Rekeyed(rm, old, new) \in Room
<1>1. [rm EXCEPT !.seats[SeatIndex(rm, old)] = new,
               !.up = (@ \ {old}) \cup {new}] \in Room
  <2>1. [rm.seats EXCEPT ![SeatIndex(rm, old)] = new] \in Seq(PlayerIds)
    <3> DEFINE i == SeatIndex(rm, old)
    <3>1. rm.seats \in Seq(PlayerIds)
      BY DEF Room
    <3> HIDE DEF i
    <3>2. CASE i \in DOMAIN rm.seats
      BY <3>1, <3>2, ExceptSeq DEF i
    <3>3. CASE i \notin DOMAIN rm.seats
      <4>1. [rm.seats EXCEPT ![i] = new] = rm.seats
        BY <3>1, <3>3
      <4> QED BY <3>1, <4>1 DEF i
    <3> QED BY <3>2, <3>3
  <2> QED BY <2>1 DEF Room
<1> QED BY <1>1 DEF Rekeyed

LEMMA HandedToType ==
  ASSUME NEW rm \in Room, NEW p \in PlayerIds
  PROVE  HandedTo(rm, p) \in Room
<1> DEFINE claimed == [rm EXCEPT !.host = p]
<1>1. claimed \in Room
  BY DEF Room
<1>2. \A old : Rekeyed(claimed, old, p) \in Room
  BY <1>1, RekeyedType
<1>3. [claimed EXCEPT !.watchers = (@ \ {rm.host}) \cup {p},
                     !.up = (@ \ {rm.host}) \cup {p}] \in Room
  BY <1>1 DEF Room
<1> HIDE DEF claimed
<1> QED BY <1>1, <1>2, <1>3 DEF HandedTo, claimed

LEMMA LobbyRoomType == ASSUME NEW rm \in Room PROVE LobbyRoom(rm) \in Room
<1>1. << >> \in Seq(PlayerIds)
  OBVIOUS
<1>2. rm.up \cap rm.watchers \in SUBSET PlayerIds
  BY DEF Room
<1> QED BY <1>1, <1>2 DEF LobbyRoom, Room

LEMMA VacantRoomType == VacantRoom \in Room
BY DEF VacantRoom, Room

LEMMA NameOfType == ASSUME NEW p \in PlayerIds PROVE NameOf(p) \in Users
BY DEF PlayerIds, NameOf

LEMMA FreshIdsType ==
  ASSUME NEW u \in Users, NEW given, NEW p \in FreshIds(u, given)
  PROVE  p \in PlayerIds /\ p \notin players /\ NameOf(p) = u
BY DEF FreshIds, PlayerIds, Referenced, NameOf

----------------------------------------------------------------------------
(* The inductive invariant.  The guard is only inductive together with      *)
(* FreshGeneration: a session is created at generation 0, so an id without  *)
(* a session must not remember an older one.                                *)

FreshGeneration == \A p \in PlayerIds \ players : generation[p] = 0

SessionInv ==
  /\ players \subseteq PlayerIds
  /\ connected \subseteq players
  /\ generation \in [PlayerIds -> 0..MaxGeneration]
  /\ roomOf \in [PlayerIds -> RoomIds \cup {None}]
  /\ sockets \subseteq players \X (0..MaxGeneration)
  /\ FreshGeneration
  /\ ConnectedIffSocket

RoomTypes == rooms \subseteq RoomIds /\ room \in [RoomIds -> Room]

TimerTypes == timers \subseteq Timer

SnapshotTypes ==
  snapshot \in [Users -> [room : RoomIds \cup {None}, order : Seq(Users)]]

IInv ==
  SessionInv /\ RoomTypes /\ TimerTypes /\ SnapshotTypes /\ OneSessionPerName

LEMMA IInvImplies == IInv => TypeOK /\ ConnectedIffSocket /\ OneSessionPerName
BY DEF IInv, SessionInv, RoomTypes, TimerTypes, SnapshotTypes, TypeOK

----------------------------------------------------------------------------
(* What the shared effects preserve.                                        *)

(* Sessions only lets sessions go: the survivors stay as connected as they  *)
(* were, and the connection tasks of the others go with them.               *)
LEMMA SessionsKeep ==
  ASSUME SessionInv,
         NEW survivors \in SUBSET players, NEW live \in SUBSET connected,
         NEW location,
         \A p \in survivors : location[p] \in RoomIds \cup {None},
         \A p \in survivors : p \in connected => p \in live,
         Sessions(survivors, live, location, sockets)
  PROVE  SessionInv' /\ players' \subseteq players
<1> USE DEF Sessions
<1>1. /\ players' \subseteq PlayerIds
      /\ connected' \subseteq players'
      /\ players' \subseteq players
  BY DEF SessionInv
<1>2. generation' \in [PlayerIds -> 0..MaxGeneration]
  BY BoundsAssumption DEF SessionInv
<1>3. roomOf' \in [PlayerIds -> RoomIds \cup {None}]
  OBVIOUS
<1>4. sockets' \subseteq players' \X (0..MaxGeneration)
  BY DEF SessionInv
<1>5. FreshGeneration'
  BY DEF FreshGeneration
<1>6. ConnectedIffSocket'
  <2> SUFFICES ASSUME NEW p \in players'
               PROVE  p \in connected' <=> <<p, generation'[p]>> \in sockets'
    BY DEF ConnectedIffSocket
  <2>1. p \in survivors /\ p \in PlayerIds /\ generation'[p] = generation[p]
    BY <1>1
  <2>2. p \in connected' <=> p \in connected
    BY <2>1
  <2>3. <<p, generation'[p]>> \in sockets' <=> <<p, generation[p]>> \in sockets
    BY <2>1
  <2> QED BY <2>1, <2>2, <2>3 DEF SessionInv, ConnectedIffSocket
<1> QED BY <1>1, <1>2, <1>3, <1>4, <1>5, <1>6 DEF SessionInv

LEMMA DropKeeps ==
  ASSUME SessionInv, NEW p, Sessions(players \ {p}, connected, roomOf, sockets)
  PROVE  SessionInv' /\ players' \subseteq players
<1>1. \A q \in players \ {p} : roomOf[q] \in RoomIds \cup {None}
  BY DEF SessionInv
<1>2. players \ {p} \in SUBSET players /\ connected \in SUBSET connected
  OBVIOUS
<1> QED BY <1>1, <1>2, SessionsKeep

LEMMA RemoveRoomKeeps ==
  ASSUME SessionInv, RoomTypes, NEW r \in RoomIds,
         NEW live \in SUBSET connected, NEW others,
         connected \subseteq live \cup others,
         RemoveRoom(r, live, others, sockets)
  PROVE  SessionInv' /\ RoomTypes' /\ players' \subseteq players
<1> DEFINE released == {p \in players : roomOf[p] = r} \cup others
           location == Evacuated(released)
<1>1. Sessions(players \ (released \ live), live, location, sockets)
  BY DEF RemoveRoom, Survivors
<1>2. \A p \in players : location[p] \in RoomIds \cup {None}
  BY DEF SessionInv, Evacuated
<1>3. \A p \in players \ (released \ live) : p \in connected => p \in live
  OBVIOUS
<1>4. RoomTypes'
  BY VacantRoomType DEF RemoveRoom, RoomTypes
<1> HIDE DEF released, location
<1>5. SessionInv' /\ players' \subseteq players
  BY <1>1, <1>2, <1>3, SessionsKeep
<1> QED BY <1>4, <1>5

LEMMA ToldKeeps ==
  ASSUME SnapshotTypes, NEW informed, Told(informed)
  PROVE  SnapshotTypes'
<1>1. << >> \in Seq(Users)
  OBVIOUS
<1>2. \A u \in Users :
        [snapshot[u] EXCEPT !.order = << >>]
          \in [room : RoomIds \cup {None}, order : Seq(Users)]
  BY <1>1 DEF SnapshotTypes
<1> QED BY <1>2 DEF Told, SnapshotTypes

LEMMA ResetToLobbyKeeps ==
  ASSUME SessionInv, RoomTypes, SnapshotTypes, NEW r \in RoomIds, ResetToLobby(r)
  PROVE  SessionInv' /\ RoomTypes' /\ SnapshotTypes' /\ players' \subseteq players
<1> DEFINE cleared == Seated(room[r])
           location == Evacuated(cleared)
<1>1. Sessions(players \ (cleared \ connected), connected, location, sockets)
  BY DEF ResetToLobby, Survivors
<1>2. \A p \in players : location[p] \in RoomIds \cup {None}
  BY DEF SessionInv, Evacuated
<1>3. RoomTypes'
  BY LobbyRoomType DEF ResetToLobby, RoomTypes
<1>4. SnapshotTypes'
  BY ToldKeeps DEF ResetToLobby
<1> HIDE DEF cleared, location
<1>5. SessionInv' /\ players' \subseteq players
  BY <1>1, <1>2, SessionsKeep
<1> QED BY <1>3, <1>4, <1>5

LEMMA SleepingKeeps ==
  ASSUME NEW set \in SUBSET Timer, Sleeping(set)
  PROVE  TimerTypes'
BY DEF Sleeping, TimerTypes

LEMMA FewerSessions ==
  ASSUME OneSessionPerName, players' \subseteq players
  PROVE  OneSessionPerName'
BY DEF OneSessionPerName

(* A handler that touches neither sessions nor connections but roomOf.      *)
LEMMA MoveKeeps ==
  ASSUME SessionInv, UNCHANGED <<players, connected, generation, sockets>>,
         roomOf' \in [PlayerIds -> RoomIds \cup {None}]
  PROVE  SessionInv' /\ players' \subseteq players
BY DEF SessionInv, FreshGeneration, ConnectedIffSocket

----------------------------------------------------------------------------
(* Authentication.                                                          *)

LEMMA NewSessionKeeps ==
  ASSUME IInv, NEW u \in Users, NewSession(u)
  PROVE  IInv'
<1> PICK p \in FreshIds(u, {}) :
      Sessions(players \cup {p}, connected \cup {p}, roomOf, sockets \cup {<<p, 0>>})
  BY DEF NewSession
<1>1. p \in PlayerIds /\ p \notin players /\ NameOf(p) = u
  BY FreshIdsType
<1>2. generation[p] = 0 /\ generation' \in [PlayerIds -> 0..MaxGeneration]
  BY <1>1, BoundsAssumption DEF IInv, SessionInv, FreshGeneration, Sessions
<1>3. SessionInv'
  <2>1. \A q \in players : generation'[q] = generation[q]
    BY DEF Sessions, IInv, SessionInv
  <2>2. generation'[p] = 0
    BY <1>1, <1>2 DEF Sessions
  <2>3. FreshGeneration'
    BY DEF Sessions, FreshGeneration
  <2>4. ConnectedIffSocket'
    <3> SUFFICES ASSUME NEW q \in players'
                 PROVE  q \in connected' <=> <<q, generation'[q]>> \in sockets'
      BY DEF ConnectedIffSocket
    <3>1. CASE q = p
      BY <3>1, <2>2 DEF Sessions
    <3>2. CASE q # p
      BY <3>2, <2>1 DEF Sessions, IInv, SessionInv, ConnectedIffSocket
    <3> QED BY <3>1, <3>2
  <2>5. /\ players' \subseteq PlayerIds /\ connected' \subseteq players'
        /\ roomOf' \in [PlayerIds -> RoomIds \cup {None}]
    BY <1>1 DEF Sessions, IInv, SessionInv
  <2>6. sockets' \subseteq players' \X (0..MaxGeneration)
    BY <1>1, BoundsAssumption DEF Sessions, IInv, SessionInv
  <2> QED BY <1>2, <2>3, <2>4, <2>5, <2>6 DEF SessionInv
<1>4. OneSessionPerName'
  BY <1>1 DEF NewSession, SessionsOf, Sessions, OneSessionPerName, IInv
<1> QED
  BY <1>3, <1>4 DEF NewSession, IInv, RoomTypes, TimerTypes, SnapshotTypes

LEMMA ReclaimKeeps ==
  ASSUME IInv, NEW p \in PlayerIds, Reclaim(p)
  PROVE  IInv'
<1>1. /\ p \in players /\ players' = players /\ roomOf' = roomOf
      /\ connected' = connected \cup {p}
      /\ generation' = [generation EXCEPT ![p] = @ + 1]
      /\ sockets' = sockets \cup {<<p, generation[p] + 1>>}
      /\ generation[p] < MaxGeneration
  BY DEF Reclaim
<1>2. generation[p] \in 0..MaxGeneration /\ generation[p] + 1 \in 0..MaxGeneration
  BY <1>1, BoundsAssumption DEF IInv, SessionInv
<1>3. SessionInv'
  <2>1. generation' \in [PlayerIds -> 0..MaxGeneration] /\ FreshGeneration'
    BY <1>1, <1>2 DEF IInv, SessionInv, FreshGeneration
  <2>2. sockets' \subseteq players' \X (0..MaxGeneration)
    BY <1>1, <1>2 DEF IInv, SessionInv
  <2>3. ConnectedIffSocket'
    BY <1>1, <1>2 DEF IInv, SessionInv, ConnectedIffSocket
  <2> QED BY <1>1, <2>1, <2>2, <2>3 DEF IInv, SessionInv
<1>4. RoomTypes'
  <2>1. CASE roomOf[p] \in rooms
    BY <2>1, WithUpType DEF Reclaim, IInv, RoomTypes
  <2>2. CASE roomOf[p] \notin rooms
    BY <2>2 DEF Reclaim, IInv, RoomTypes
  <2> QED BY <2>1, <2>2
<1> QED
  BY <1>1, <1>3, <1>4, FewerSessions DEF Reclaim, IInv, TimerTypes, SnapshotTypes

----------------------------------------------------------------------------
(* Lobby commands.                                                          *)

LEMMA CreateRoomKeeps ==
  ASSUME IInv, NEW p \in PlayerIds, NEW r \in RoomIds, CreateRoom(p, r)
  PROVE  IInv'
<1>1. SessionInv' /\ players' \subseteq players
  BY MoveKeeps DEF CreateRoom, IInv, SessionInv
<1>2. RoomTypes'
  <2>1. << >> \in Seq(PlayerIds) /\ <<p>> \in Seq(PlayerIds)
    OBVIOUS
  <2> DEFINE hosted == NameOf(p) \in Nodes
  <2>2. NewRoom(p, hosted, FALSE, IF hosted THEN << >> ELSE <<p>>) \in Room
    <3>1. CASE hosted
      BY <3>1, <2>1 DEF NewRoom, Room
    <3>2. CASE ~hosted
      BY <3>2, <2>1 DEF NewRoom, Room
    <3> QED BY <3>1, <3>2
  <2> QED BY <2>2 DEF CreateRoom, IInv, RoomTypes
<1>3. SnapshotTypes'
  <2>1. << >> \in Seq(Users)
    OBVIOUS
  <2> QED BY <2>1 DEF CreateRoom, IInv, SnapshotTypes
<1> QED
  BY <1>1, <1>2, <1>3, FewerSessions DEF CreateRoom, IInv, TimerTypes

LEMMA JoinLobbyKeeps ==
  ASSUME IInv, NEW p \in PlayerIds, NEW r \in RoomIds, JoinLobby(p, r)
  PROVE  IInv'
<1>1. SessionInv' /\ players' \subseteq players
  BY MoveKeeps DEF JoinLobby, IInv, SessionInv
<1>2. RoomTypes'
  BY WithPlayerType DEF JoinLobby, IInv, RoomTypes
<1> QED
  BY <1>1, <1>2, FewerSessions DEF JoinLobby, IInv, TimerTypes, SnapshotTypes

LEMMA ObserveKeeps ==
  ASSUME IInv, NEW p \in PlayerIds, NEW r \in RoomIds, Observe(p, r)
  PROVE  IInv'
<1>1. SessionInv' /\ players' \subseteq players
  BY MoveKeeps DEF Observe, IInv, SessionInv
<1>2. RoomTypes'
  BY WithObserverType DEF Observe, IInv, RoomTypes
<1> QED
  BY <1>1, <1>2, FewerSessions DEF Observe, IInv, TimerTypes, SnapshotTypes

LEMMA RejoinKeeps ==
  ASSUME IInv, NEW p \in PlayerIds, NEW r \in RoomIds, Rejoin(p, r)
  PROVE  IInv'
<1>1. SessionInv' /\ players' \subseteq players
  BY MoveKeeps DEF Rejoin, IInv, SessionInv
<1>2. RoomTypes'
  <2>1. PICK old : room' = [room EXCEPT ![r] = Rekeyed(@, old, p)]
    BY DEF Rejoin
  <2> QED BY <2>1, RekeyedType DEF Rejoin, IInv, RoomTypes
<1>3. TimerTypes'
  BY SleepingKeeps DEF Rejoin, IInv, TimerTypes
<1> QED
  BY <1>1, <1>2, <1>3, FewerSessions DEF Rejoin, IInv, SnapshotTypes

LEMMA LeaveRoomKeeps ==
  ASSUME IInv, NEW p \in PlayerIds, LeaveRoom(p)
  PROVE  IInv'
<1> DEFINE r == roomOf[p]
           left == WithoutParticipant(room[r], p)
<1>1. r \in RoomIds /\ r \in rooms
  BY DEF LeaveRoom, IInv, RoomTypes
<1>2. SessionInv' /\ RoomTypes' /\ players' \subseteq players
  <2>1. CASE left.up = {}
    <3>1. RemoveRoom(r, connected, {}, sockets)
      BY <2>1 DEF LeaveRoom
    <3> HIDE DEF r
    <3> QED BY <3>1, <1>1, RemoveRoomKeeps DEF IInv
  <2>2. CASE left.up # {}
    <3>1. /\ room' = [room EXCEPT ![r] = left] /\ rooms' = rooms
          /\ roomOf' = [roomOf EXCEPT ![p] = None]
          /\ UNCHANGED <<players, connected, generation, sockets>>
      BY <2>2 DEF LeaveRoom
    <3>2. left \in Room
      BY <1>1, WithoutParticipantType DEF IInv, RoomTypes
    <3>3. RoomTypes'
      BY <3>1, <3>2 DEF IInv, RoomTypes
    <3>4. SessionInv' /\ players' \subseteq players
      BY <3>1, MoveKeeps DEF IInv, SessionInv
    <3> QED BY <3>3, <3>4
  <2> QED BY <2>1, <2>2
<1>3. TimerTypes' /\ SnapshotTypes'
  BY SleepingKeeps, ToldKeeps DEF LeaveRoom, IInv, TimerTypes
<1> QED BY <1>2, <1>3, FewerSessions DEF IInv

LEMMA StartGameKeeps ==
  ASSUME IInv, NEW p \in PlayerIds, StartGame(p)
  PROVE  IInv'
<1> DEFINE r == roomOf[p]
           rm == room[r]
           names == SeatOrder(rm)
<1>1. r \in RoomIds /\ r \in rooms /\ rm \in Room
  BY DEF StartGame, IInv, RoomTypes
<1>2. RoomTypes'
  <2>1. room' = [room EXCEPT ![r].inGame = TRUE] /\ rooms' = rooms
    BY DEF StartGame, roomVars
  <2>2. [rm EXCEPT !.inGame = TRUE] \in Room
    BY <1>1 DEF Room
  <2>3. room' = [room EXCEPT ![r] = [rm EXCEPT !.inGame = TRUE]]
    BY <2>1
  <2> HIDE DEF r, rm
  <2> QED BY <2>1, <2>2, <2>3 DEF IInv, RoomTypes
<1>3. names \in Seq(Users)
  <2>1. rm.seats \in Seq(PlayerIds)
    BY <1>1 DEF Room
  <2> HIDE DEF rm
  <2> QED BY <2>1, NameOfType, IsASeq DEF SeatOrder
<1>4. SnapshotTypes'
  <2>1. CASE rm.host \in rm.up /\ snapshot[NameOf(rm.host)].room = r
    <3>1. snapshot' = [snapshot EXCEPT ![NameOf(rm.host)].order = names]
      BY <2>1 DEF StartGame
    <3>2. NameOf(rm.host) \in Users
      BY <1>1, <2>1, NameOfType DEF Room
    <3> HIDE DEF names, rm
    <3> QED BY <1>3, <3>1, <3>2 DEF IInv, SnapshotTypes
  <2>2. CASE ~(rm.host \in rm.up /\ snapshot[NameOf(rm.host)].room = r)
    BY <2>2 DEF StartGame, IInv, SnapshotTypes
  <2> QED BY <2>1, <2>2
<1>5. SessionInv' /\ players' \subseteq players
  BY MoveKeeps DEF StartGame, sessionVars, IInv, SessionInv
<1> QED BY <1>2, <1>4, <1>5, FewerSessions DEF StartGame, IInv, TimerTypes

LEMMA EndGameKeeps ==
  ASSUME IInv, NEW p \in PlayerIds, EndGame(p)
  PROVE  IInv'
<1>1. roomOf[p] \in RoomIds /\ ResetToLobby(roomOf[p])
  BY DEF EndGame, IInv, RoomTypes
<1>2. SessionInv' /\ RoomTypes' /\ SnapshotTypes' /\ players' \subseteq players
  BY <1>1, ResetToLobbyKeeps DEF IInv
<1> QED
  BY <1>2, SleepingKeeps, FewerSessions DEF EndGame, IInv, TimerTypes

LEMMA ResumeLiveKeeps ==
  ASSUME IInv, NEW p \in PlayerIds, NEW r \in RoomIds, ResumeLive(p, r)
  PROVE  IInv'
<1> DEFINE gone == IF room[r].host = p THEN {} ELSE {room[r].host}
           location == [roomOf EXCEPT ![p] = r]
<1>1. SessionInv' /\ players' \subseteq players
  <2>1. Sessions(players \ gone, connected, location, sockets)
    BY DEF ResumeLive
  <2>2. /\ \A q \in players \ gone : location[q] \in RoomIds \cup {None}
        /\ players \ gone \in SUBSET players
    BY DEF IInv, SessionInv
  <2> HIDE DEF gone, location
  <2> QED BY <2>1, <2>2, SessionsKeep DEF IInv
<1>2. RoomTypes'
  BY HandedToType DEF ResumeLive, IInv, RoomTypes
<1>3. SnapshotTypes'
  <2>1. NameOf(p) \in Users /\ << >> \in Seq(Users)
    BY NameOfType
  <2>2. CASE room[r].inGame
    BY <2>2 DEF ResumeLive, IInv, SnapshotTypes
  <2>3. CASE ~room[r].inGame
    BY <2>1, <2>3 DEF ResumeLive, IInv, SnapshotTypes
  <2> QED BY <2>2, <2>3
<1> QED
  BY <1>1, <1>2, <1>3, SleepingKeeps, FewerSessions
  DEF ResumeLive, IInv, TimerTypes

(* The seats of a rebuilt room: the claimant's are its own, the others are  *)
(* held by ids of the remembered names that no session has.                 *)
LEMMA RebuiltSeatsAre ==
  ASSUME NEW p \in PlayerIds, NEW order \in Seq(Users),
         NEW seats \in RebuiltSeats(p, order)
  PROVE  /\ seats \in Seq(PlayerIds) /\ DOMAIN seats = DOMAIN order
         /\ \A i \in DOMAIN order :
              IF order[i] = NameOf(p) /\ NameOf(p) \notin Nodes
              THEN seats[i] = p
              ELSE NameOf(seats[i]) = order[i] /\ seats[i] \notin players
<1>1. /\ seats \in [DOMAIN order -> PlayerIds]
      /\ \A i \in DOMAIN order :
           IF order[i] = NameOf(p) /\ NameOf(p) \notin Nodes
           THEN seats[i] = p
           ELSE seats[i] \in FreshIds(order[i], {seats[j] : j \in 1..(i - 1)})
  BY DEF RebuiltSeats
<1>2. DOMAIN order = 1..Len(order) /\ Len(order) \in Nat
  OBVIOUS
<1>3. seats \in Seq(PlayerIds)
  BY <1>1, <1>2
<1>4. ASSUME NEW i \in DOMAIN order,
             ~(order[i] = NameOf(p) /\ NameOf(p) \notin Nodes)
      PROVE  NameOf(seats[i]) = order[i] /\ seats[i] \notin players
  <2>1. /\ order[i] \in Users
        /\ seats[i] \in FreshIds(order[i], {seats[j] : j \in 1..(i - 1)})
    BY <1>1, <1>4
  <2> QED BY <2>1, FreshIdsType
<1> QED BY <1>1, <1>3, <1>4

LEMMA ResumeLostKeeps ==
  ASSUME IInv, NEW p \in PlayerIds, NEW r \in RoomIds, ResumeLost(p, r)
  PROVE  IInv'
<1> DEFINE order == snapshot[NameOf(p)].order
           hosted == NameOf(p) \in Nodes
<1>1. order \in Seq(Users)
  BY NameOfType DEF IInv, SnapshotTypes
<1>2. PICK seats \in RebuiltSeats(p, order) :
        /\ rooms' = rooms \cup {r}
        /\ room' = [room EXCEPT ![r] = NewRoom(p, hosted, TRUE, seats)]
        /\ timers' = timers \cup {Grace("seat", r, q, 0) : q \in Range(seats) \ {p}}
  BY DEF ResumeLost
<1>3. seats \in Seq(PlayerIds)
  <2> HIDE DEF order
  <2> QED BY <1>1, RebuiltSeatsAre
<1>4. RoomTypes'
  <2> HIDE DEF order
  <2>1. NewRoom(p, hosted, TRUE, seats) \in Room
    <3>1. CASE hosted
      BY <3>1, <1>3 DEF NewRoom, Room
    <3>2. CASE ~hosted
      BY <3>2, <1>3 DEF NewRoom, Room
    <3> QED BY <3>1, <3>2
  <2> HIDE DEF hosted
  <2> QED BY <1>2, <2>1 DEF IInv, RoomTypes
<1>5. TimerTypes'
  <2>1. \A q \in Range(seats) : q \in PlayerIds
    BY <1>3 DEF Range
  <2>2. \A q \in Range(seats) \ {p} : Grace("seat", r, q, 0) \in Timer
    BY <2>1, BoundsAssumption DEF Grace, Timer, TimerKinds
  <2> QED BY <1>2, <2>2 DEF IInv, TimerTypes
<1>6. SessionInv' /\ players' \subseteq players
  BY MoveKeeps DEF ResumeLost, IInv, SessionInv
<1> QED
  BY <1>4, <1>5, <1>6, FewerSessions DEF ResumeLost, IInv, SnapshotTypes

----------------------------------------------------------------------------
(* Disconnects.                                                             *)

LEMMA DisconnectKeeps ==
  ASSUME IInv, NEW p, NEW g, Disconnect(p, g)
  PROVE  IInv'
<1>1. <<p, g>> \in sockets
  BY DEF Disconnect, DisconnectIgnored, DisconnectRoomless, DisconnectInGame,
         DisconnectLobby
<1>2. p \in PlayerIds /\ p \in players /\ g \in 0..MaxGeneration
  BY <1>1 DEF IInv, SessionInv
<1>3. CASE DisconnectIgnored(p, g)
  <2>1. SessionInv' /\ players' \subseteq players
    BY <1>2, <1>3
    DEF DisconnectIgnored, Current, sessionVars, IInv, SessionInv,
        FreshGeneration, ConnectedIffSocket
  <2> QED
    BY <1>3, <2>1, FewerSessions
    DEF DisconnectIgnored, roomVars, IInv, RoomTypes, TimerTypes, SnapshotTypes
<1>4. CASE DisconnectRoomless(p, g)
  <2>2. SessionInv' /\ players' \subseteq players
    BY <1>4, DropKeeps DEF DisconnectRoomless, IInv
  <2> QED
    BY <1>4, <2>2, SleepingKeeps, FewerSessions
    DEF DisconnectRoomless, roomVars, IInv, RoomTypes, TimerTypes, SnapshotTypes
<1>5. CASE DisconnectInGame(p, g)
  <2> DEFINE r == roomOf[p]
  <2>1. r \in rooms /\ r \in RoomIds /\ generation[p] = g
    BY <1>5 DEF DisconnectInGame, Current, IInv, RoomTypes
  <2>2. SessionInv' /\ players' \subseteq players
    BY <1>2, <1>5
    DEF DisconnectInGame, Current, IInv, SessionInv, FreshGeneration,
        ConnectedIffSocket
  <2>3. RoomTypes'
    BY <1>2, <1>5, <2>1, WithUpType DEF DisconnectInGame, IInv, RoomTypes
  <2>4. TimerTypes'
    <3>1. \A k \in GraceKinds(room[r], p) : Grace(k, r, p, g) \in Timer
      BY <1>2, <2>1 DEF GraceKinds, Grace, Timer, TimerKinds
    <3> QED BY <1>5, <3>1 DEF DisconnectInGame, IInv, TimerTypes
  <2> QED
    BY <1>5, <2>2, <2>3, <2>4, FewerSessions
    DEF DisconnectInGame, IInv, SnapshotTypes
<1>6. CASE DisconnectLobby(p, g)
  <2> DEFINE r == roomOf[p]
             left == WithoutParticipant(room[r], p)
  <2>1. r \in rooms /\ r \in RoomIds
    BY <1>6 DEF DisconnectLobby, IInv, RoomTypes
  <2>2. SessionInv' /\ RoomTypes' /\ players' \subseteq players
    <3>1. CASE RemoveRoom(r, connected \ {p}, {p}, sockets)
      <4> HIDE DEF r
      <4> QED BY <3>1, <2>1, RemoveRoomKeeps DEF IInv
    <3>2. CASE /\ room' = [room EXCEPT ![r] = left]
               /\ Sessions(players \ {p}, connected, roomOf, sockets)
               /\ rooms' = rooms
      <4>1. left \in Room
        BY <1>2, <2>1, WithoutParticipantType DEF IInv, RoomTypes
      <4>3. SessionInv' /\ players' \subseteq players
        BY <3>2, DropKeeps DEF IInv
      <4> HIDE DEF left
      <4> QED BY <3>2, <4>1, <4>3 DEF IInv, RoomTypes
    <3> QED BY <1>6, <3>1, <3>2 DEF DisconnectLobby
  <2> QED
    BY <1>6, <2>2, SleepingKeeps, FewerSessions
    DEF DisconnectLobby, IInv, TimerTypes, SnapshotTypes
<1> QED BY <1>3, <1>4, <1>5, <1>6 DEF Disconnect

----------------------------------------------------------------------------
(* Timers and the sweep.                                                    *)

LEMMA TimerExpiresKeeps ==
  ASSUME IInv, NEW t \in timers, TimerExpires(t)
  PROVE  IInv'
<1>1. /\ t \in Timer /\ t.room \in RoomIds /\ t.player \in PlayerIds
      /\ timers \ {t} \in SUBSET Timer
  BY DEF IInv, TimerTypes, Timer
<1>2. CASE HostNeverResumed(t)
  <2>1. SessionInv' /\ RoomTypes' /\ players' \subseteq players
    BY <1>1, <1>2, RemoveRoomKeeps DEF HostNeverResumed, IInv
  <2> QED
    BY <1>1, <1>2, <2>1, ToldKeeps, SleepingKeeps, FewerSessions
    DEF HostNeverResumed, IInv
<1>3. CASE PeerHostLost(t)
  BY <1>1, <1>3, ResetToLobbyKeeps, SleepingKeeps, FewerSessions
  DEF PeerHostLost, IInv
<1>4. CASE ForfeitSeat(t)
  <2>2. SessionInv' /\ players' \subseteq players
    BY <1>4, DropKeeps DEF ForfeitSeat, IInv
  <2>3. RoomTypes'
    <3>1. WithoutPlayer(room[t.room], t.player) \in Room
      BY <1>1, <1>4, WithoutPlayerType
      DEF ForfeitSeat, SeatStillGone, IInv, RoomTypes
    <3> QED BY <1>4, <3>1 DEF ForfeitSeat, IInv, RoomTypes
  <2> QED
    BY <1>1, <1>4, <2>2, <2>3, SleepingKeeps, FewerSessions
    DEF ForfeitSeat, IInv, SnapshotTypes
<1>5. CASE TimerDisarmed(t)
  <2>1. SessionInv' /\ players' \subseteq players
    BY <1>5, MoveKeeps DEF TimerDisarmed, sessionVars, IInv, SessionInv
  <2> QED
    BY <1>5, <2>1, FewerSessions
    DEF TimerDisarmed, roomVars, IInv, RoomTypes, TimerTypes, SnapshotTypes
<1> QED BY <1>2, <1>3, <1>4, <1>5 DEF TimerExpires

LEMMA SweepKeeps ==
  ASSUME IInv, NEW r \in RoomIds, Sweep(r)
  PROVE  IInv'
<1>1. CASE SweepKeep(r)
  <2>1. RoomTypes'
    <3>1. \A i \in BOOLEAN : [room[r] EXCEPT !.idle = i] \in Room
      BY DEF IInv, RoomTypes, Room
    <3>2. Humanless(room[r]) \in BOOLEAN
      BY DEF Humanless, HasConnectedHuman, IInv, RoomTypes, Room
    <3>3. room' = [room EXCEPT ![r] =
                     [room[r] EXCEPT !.idle = Humanless(room[r])]]
      BY <1>1 DEF SweepKeep
    <3> QED BY <1>1, <3>1, <3>2, <3>3 DEF SweepKeep, IInv, RoomTypes
  <2>2. SessionInv' /\ players' \subseteq players
    BY <1>1, MoveKeeps DEF SweepKeep, sessionVars, IInv, SessionInv
  <2> QED
    BY <1>1, <2>1, <2>2, FewerSessions
    DEF SweepKeep, IInv, TimerTypes, SnapshotTypes
<1>2. CASE SweepEmptyLobby(r)
  BY <1>2, RemoveRoomKeeps, SleepingKeeps, FewerSessions
  DEF SweepEmptyLobby, IInv, TimerTypes, SnapshotTypes
<1>3. CASE SweepHumanless(r)
  <2>1. CASE ResetToLobby(r)
    BY <1>3, <2>1, ResetToLobbyKeeps, SleepingKeeps, FewerSessions
    DEF SweepHumanless, IInv, TimerTypes
  <2>2. CASE /\ RemoveRoom(r, connected, Seated(room[r]), sockets)
             /\ Told(room[r].up)
    BY <1>3, <2>2, RemoveRoomKeeps, ToldKeeps, SleepingKeeps, FewerSessions
    DEF SweepHumanless, IInv, TimerTypes
  <2> QED BY <1>3, <2>1, <2>2 DEF SweepHumanless
<1> QED BY <1>1, <1>2, <1>3 DEF Sweep

----------------------------------------------------------------------------
(* Restarts.                                                                *)

LEMMA ForgetKeeps ==
  ASSUME IInv, NEW u \in Users, Forget(u)
  PROVE  IInv'
<1>1. SessionInv' /\ players' \subseteq players
  BY MoveKeeps DEF Forget, sessionVars, IInv, SessionInv
<1>2. SnapshotTypes'
  <2>1. << >> \in Seq(Users)
    OBVIOUS
  <2> QED BY <2>1 DEF Forget, NoGame, IInv, SnapshotTypes
<1> QED
  BY <1>1, <1>2, FewerSessions
  DEF Forget, roomVars, IInv, RoomTypes, TimerTypes

LEMMA RelayRestartKeeps == ASSUME IInv, RelayRestart PROVE IInv'
<1>1. SessionInv' /\ players' \subseteq players
  BY BoundsAssumption
  DEF RelayRestart, Sessions, IInv, SessionInv, FreshGeneration, ConnectedIffSocket
<1>2. RoomTypes' /\ TimerTypes' /\ SnapshotTypes'
  BY VacantRoomType
  DEF RelayRestart, IInv, RoomTypes, TimerTypes, SnapshotTypes
<1> QED BY <1>1, <1>2, FewerSessions DEF IInv

----------------------------------------------------------------------------
(* The theorems.                                                            *)

LEMMA InitIInv == Init => IInv
<1> SUFFICES ASSUME Init PROVE IInv
  OBVIOUS
<1>1. SessionInv
  BY BoundsAssumption DEF Init, SessionInv, FreshGeneration, ConnectedIffSocket
<1>2. RoomTypes /\ TimerTypes
  BY VacantRoomType DEF Init, RoomTypes, TimerTypes
<1>3. SnapshotTypes
  <2>1. << >> \in Seq(Users)
    OBVIOUS
  <2> QED BY <2>1 DEF Init, NoGame, SnapshotTypes
<1> QED BY <1>1, <1>2, <1>3 DEF Init, IInv, OneSessionPerName

LEMMA StepIInv == IInv /\ [Next]_vars => IInv'
<1> SUFFICES ASSUME IInv, [Next]_vars PROVE IInv'
  OBVIOUS
<1>1. ASSUME NEW u \in Users, NewSession(u) \/ Forget(u) PROVE IInv'
  BY <1>1, NewSessionKeeps, ForgetKeeps
<1>2. ASSUME NEW p \in PlayerIds, Reclaim(p) \/ Command(p) PROVE IInv'
  BY <1>2, ReclaimKeeps, CreateRoomKeeps, JoinLobbyKeeps, ObserveKeeps,
     RejoinKeeps, LeaveRoomKeeps, StartGameKeeps, EndGameKeeps,
     ResumeLiveKeeps, ResumeLostKeeps
  DEF Command
<1>3. ASSUME NEW s \in sockets, Disconnect(s[1], s[2]) PROVE IInv'
  BY <1>3, DisconnectKeeps
<1>4. ASSUME NEW t \in timers, TimerExpires(t) PROVE IInv'
  BY <1>4, TimerExpiresKeeps
<1>5. ASSUME NEW r \in RoomIds, Sweep(r) PROVE IInv'
  BY <1>5, SweepKeeps
<1>6. CASE RelayRestart
  BY <1>6, RelayRestartKeeps
<1>7. CASE UNCHANGED vars
  BY <1>7
  DEF vars, IInv, SessionInv, FreshGeneration, ConnectedIffSocket, RoomTypes,
      TimerTypes, SnapshotTypes, OneSessionPerName
<1> QED BY <1>1, <1>2, <1>3, <1>4, <1>5, <1>6, <1>7 DEF Next

(* The invariant all three theorems below are read off.                     *)
THEOREM Invariance == Spec => []IInv
<1>1. IInv /\ [Next]_vars => IInv'
  BY StepIInv
<1> QED BY InitIInv, <1>1, PTL DEF Spec

(* Every variable of the relay keeps its type, whatever users connect,      *)
(* reclaim, play, resume and disappear, in whatever order timers expire.    *)
THEOREM TypeCorrect == Spec => []TypeOK
BY Invariance, IInvImplies, PTL

(* mark_disconnected's generation check: a session is connected exactly     *)
(* while the connection that claimed it last is being read; the late        *)
(* cleanup of an evicted connection never takes it down.                    *)
THEOREM GenerationGuard == Spec => []ConnectedIffSocket
BY Invariance, IInvImplies, PTL

(* A username never has two sessions, so that session_by_username and the   *)
(* identity that owns the session are unambiguous.                          *)
THEOREM OneSession == Spec => []OneSessionPerName
BY Invariance, IInvImplies, PTL
====
