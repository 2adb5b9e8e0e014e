---- MODULE RosterProofs ----
(***************************************************************************)
(* What RelayRooms keeps of rosters and sessions for any number of users,  *)
(* rooms, connections and timers.  In rooms of any kind: a session's room  *)
(* lists it, teardown leaves no ghost, and a connected seat is not taken.  *)
(* Where all rooms are hosted: rosters, sessions and grace timers agree.   *)
(* On a relay of both kinds: a node keeps its slot in the room it hosts,   *)
(* and the game there ends for a cause.                                    *)
(***************************************************************************)
EXTENDS RelayRoomsProofs, FiniteSetTheorems, WellFoundedInduction

----------------------------------------------------------------------------
(* What the roster operators do to seats, watchers and the connected.       *)

(* A set of naturals has a smallest one.                                   *)
LEMMA SmallestNat ==
  ASSUME NEW S \in SUBSET Nat, S # {}
  PROVE  \E i \in S : \A j \in S : i <= j
<1> DEFINE below == StrictSubsetOrdering(Nat)
           initials == {1..i : i \in S}
<1>1. \A i \in S : 1..i \in FiniteSubsetsOf(Nat)
  BY FS_Interval DEF FiniteSubsetsOf
<1>2. IsWellFoundedOn(below, FiniteSubsetsOf(Nat))
  BY FS_StrictSubsetOrderingWellFounded
<1>3. \A i, j \in S : j < i => <<1..j, 1..i>> \in below
  <2> SUFFICES ASSUME NEW i \in S, NEW j \in S, j < i
               PROVE  <<1..j, 1..i>> \in below
    OBVIOUS
  <2>1. 1..j \subseteq 1..i /\ i \in 1..i /\ i \notin 1..j
    OBVIOUS
  <2>2. 1..j \in SUBSET Nat /\ 1..i \in SUBSET Nat /\ 1..j # 1..i
    BY <2>1
  <2> QED BY <2>1, <2>2 DEF StrictSubsetOrdering
<1>4. initials \subseteq FiniteSubsetsOf(Nat) /\ initials # {}
  BY <1>1
<1> HIDE DEF below
<1>5. \E x \in initials : \A y \in initials : <<y, x>> \notin below
  <2> HIDE DEF initials
  <2> QED BY <1>2, <1>4, WFMin
<1>6. \E i \in S : \A j \in S : <<1..j, 1..i>> \notin below
  BY <1>5
<1> PICK i \in S : \A j \in S : <<1..j, 1..i>> \notin below
  BY <1>6
<1>7. \A j \in S : ~(j < i)
  BY <1>3
<1> QED BY <1>7

(* Removing one seat moves the later ones up.                               *)
LEMMA RemoveAtIs ==
  ASSUME NEW S, NEW s \in Seq(S), NEW i \in 1..Len(s)
  PROVE  /\ RemoveAt(s, i) \in Seq(S)
         /\ Len(RemoveAt(s, i)) = Len(s) - 1
         /\ \A j \in 1..Len(s) - 1 :
              RemoveAt(s, i)[j] = IF j < i THEN s[j] ELSE s[j + 1]
<1> DEFINE front == SubSeq(s, 1, i - 1)
           back == SubSeq(s, i + 1, Len(s))
           n == Len(s)
<1>1. n \in Nat /\ i \in Nat /\ 1 <= i /\ i <= n
  BY LenProperties
<1>2. /\ front \in Seq(S) /\ Len(front) = i - 1
      /\ \A j \in 1..i - 1 : front[j] = s[j]
  BY <1>1
<1>3. /\ back \in Seq(S) /\ Len(back) = n - i
      /\ \A j \in 1..n - i : back[j] = s[i + j]
  BY <1>1
<1>4. RemoveAt(s, i) = front \o back
  BY DEF RemoveAt
<1> HIDE DEF front, back
<1>5. /\ front \o back \in Seq(S)
      /\ Len(front \o back) = (i - 1) + (n - i)
      /\ \A j \in 1..(i - 1) + (n - i) :
           (front \o back)[j] = IF j <= i - 1 THEN front[j] ELSE back[j - (i - 1)]
  <2>1. front \o back \in Seq(S) /\ Len(front \o back) = Len(front) + Len(back)
    BY <1>2, <1>3, ConcatProperties
  <2>2. \A j \in 1..Len(front) + Len(back) :
          (front \o back)[j] = IF j <= Len(front) THEN front[j] ELSE back[j - Len(front)]
    BY <1>2, <1>3, ConcatProperties
  <2> QED BY <1>2, <1>3, <2>1, <2>2
<1> HIDE DEF n
<1>6. (i - 1) + (n - i) = n - 1
  BY <1>1
<1>7. ASSUME NEW j \in 1..n - 1
      PROVE  RemoveAt(s, i)[j] = IF j < i THEN s[j] ELSE s[j + 1]
  <2>1. CASE j < i
    <3>1. j \in 1..i - 1 /\ j <= i - 1
      BY <1>1, <2>1
    <3>2. (front \o back)[j] = front[j]
      BY <1>5, <1>6, <3>1
    <3> QED BY <1>2, <1>4, <2>1, <3>1, <3>2
  <2>2. CASE ~(j < i)
    <3>1. j - (i - 1) \in 1..n - i /\ ~(j <= i - 1) /\ i + (j - (i - 1)) = j + 1
      BY <1>1, <2>2
    <3>2. (front \o back)[j] = back[j - (i - 1)]
      BY <1>5, <1>6, <3>1
    <3>3. back[j - (i - 1)] = s[j + 1]
      BY <1>3, <3>1
    <3> QED BY <1>4, <2>2, <3>2, <3>3
  <2> QED BY <2>1, <2>2
<1> QED BY <1>4, <1>5, <1>6, <1>7 DEF n

LEMMA SeatIndexIs ==
  ASSUME NEW rm \in Room, NEW p \in Seated(rm)
  PROVE  /\ SeatIndex(rm, p) \in 1..Len(rm.seats)
         /\ rm.seats[SeatIndex(rm, p)] = p
         /\ rm.seats \in Seq(PlayerIds) /\ Len(rm.seats) \in Nat
<1>1. rm.seats \in Seq(PlayerIds)
  BY DEF Room
<1>2. \E i \in DOMAIN rm.seats : rm.seats[i] = p
  BY DEF Seated, Range
<1> QED BY <1>1, <1>2 DEF SeatIndex

LEMMA WithPlayerIs ==
  ASSUME NEW rm \in Room, NEW p \in PlayerIds
  PROVE  /\ Seated(WithPlayer(rm, p)) = Seated(rm) \cup {p}
         /\ WithPlayer(rm, p).watchers = rm.watchers
         /\ WithPlayer(rm, p).up = rm.up \cup {p}
         /\ WithPlayer(rm, p).host = rm.host
         /\ WithPlayer(rm, p).hosted = rm.hosted
         /\ WithPlayer(rm, p).inGame = rm.inGame
<1>1. rm.seats \in Seq(PlayerIds)
  BY DEF Room
<1>2. /\ WithPlayer(rm, p).seats = Append(rm.seats, p)
      /\ WithPlayer(rm, p).watchers = rm.watchers
      /\ WithPlayer(rm, p).up = rm.up \cup {p}
      /\ WithPlayer(rm, p).host = rm.host
      /\ WithPlayer(rm, p).hosted = rm.hosted
      /\ WithPlayer(rm, p).inGame = rm.inGame
  BY DEF WithPlayer, Room
<1>3. Range(Append(rm.seats, p)) = Range(rm.seats) \cup {p}
  <2> DEFINE s == rm.seats
  <2>1. /\ Append(s, p) \in Seq(PlayerIds) /\ Len(Append(s, p)) = Len(s) + 1
        /\ Len(s) \in Nat /\ DOMAIN Append(s, p) = 1..Len(s) + 1
        /\ DOMAIN s = 1..Len(s)
        /\ \A i \in 1..Len(s) : Append(s, p)[i] = s[i]
        /\ Append(s, p)[Len(s) + 1] = p
    BY <1>1
  <2> HIDE DEF s
  <2>2. 1..Len(s) + 1 = 1..Len(s) \cup {Len(s) + 1}
    BY <2>1
  <2>3. Range(Append(s, p)) = Range(s) \cup {p}
    BY <2>1, <2>2 DEF Range
  <2> QED BY <2>3 DEF s
<1> QED BY <1>2, <1>3 DEF Seated

LEMMA WithObserverIs ==
  ASSUME NEW rm \in Room, NEW p \in PlayerIds
  PROVE  /\ WithObserver(rm, p).seats = rm.seats
         /\ WithObserver(rm, p).watchers = rm.watchers \cup {p}
         /\ WithObserver(rm, p).up = rm.up \cup {p}
         /\ WithObserver(rm, p).host = rm.host
         /\ WithObserver(rm, p).hosted = rm.hosted
         /\ WithObserver(rm, p).inGame = rm.inGame
BY DEF WithObserver, Room

LEMMA WithUpIs ==
  ASSUME NEW rm \in Room, NEW p \in Members(rm)
  PROVE  /\ WithUp(rm, p, TRUE).seats = rm.seats
         /\ WithUp(rm, p, TRUE).watchers = rm.watchers
         /\ WithUp(rm, p, TRUE).up = rm.up \cup {p}
         /\ WithUp(rm, p, TRUE).host = rm.host
         /\ WithUp(rm, p, TRUE).hosted = rm.hosted
         /\ WithUp(rm, p, TRUE).inGame = rm.inGame
BY DEF WithUp, Room

LEMMA WithDownIs ==
  ASSUME NEW rm \in Room, NEW p \in Members(rm)
  PROVE  /\ WithUp(rm, p, FALSE).seats = rm.seats
         /\ WithUp(rm, p, FALSE).watchers = rm.watchers
         /\ WithUp(rm, p, FALSE).up = rm.up \ {p}
         /\ WithUp(rm, p, FALSE).host = rm.host
         /\ WithUp(rm, p, FALSE).hosted = rm.hosted
         /\ WithUp(rm, p, FALSE).inGame = rm.inGame
BY DEF WithUp, Room

(* No seat but the one that goes is lost.                                   *)
LEMMA WithoutPlayerIs ==
  ASSUME NEW rm \in Room, NEW p \in Seated(rm)
  PROVE  /\ WithoutPlayer(rm, p).seats = RemoveAt(rm.seats, SeatIndex(rm, p))
         /\ Seated(rm) \ {p} \subseteq Seated(WithoutPlayer(rm, p))
         /\ Seated(WithoutPlayer(rm, p)) \subseteq Seated(rm)
         /\ WithoutPlayer(rm, p).watchers = rm.watchers
         /\ WithoutPlayer(rm, p).up = rm.up \ {p}
         /\ rm.host # p => WithoutPlayer(rm, p).host = rm.host
         /\ WithoutPlayer(rm, p).hosted = rm.hosted
         /\ WithoutPlayer(rm, p).inGame = rm.inGame
<1> DEFINE k == SeatIndex(rm, p)
           s == rm.seats
           left == RemoveAt(s, k)
<1>1. k \in 1..Len(s) /\ s[k] = p /\ s \in Seq(PlayerIds) /\ Len(s) \in Nat
  BY SeatIndexIs
<1>2. /\ left \in Seq(PlayerIds) /\ Len(left) = Len(s) - 1
      /\ \A j \in 1..Len(s) - 1 : left[j] = IF j < k THEN s[j] ELSE s[j + 1]
  BY <1>1, RemoveAtIs
<1>3. /\ WithoutPlayer(rm, p).seats = left
      /\ WithoutPlayer(rm, p).watchers = rm.watchers
      /\ WithoutPlayer(rm, p).up = rm.up \ {p}
      /\ rm.host # p => WithoutPlayer(rm, p).host = rm.host
      /\ WithoutPlayer(rm, p).hosted = rm.hosted
      /\ WithoutPlayer(rm, p).inGame = rm.inGame
  <2> HIDE DEF left
  <2> QED BY DEF WithoutPlayer, Room, left, k, s
<1> HIDE DEF k, left, s
<1>4. DOMAIN left = 1..Len(s) - 1 /\ DOMAIN s = 1..Len(s)
  BY <1>1, <1>2
<1>5. ASSUME NEW q \in Range(s), q # p PROVE q \in Range(left)
  <2>1. PICK i \in 1..Len(s) : s[i] = q
    BY <1>4 DEF Range
  <2>2. i # k
    BY <1>1, <1>5, <2>1
  <2>3. CASE i < k
    BY <1>1, <1>2, <1>4, <2>1, <2>3 DEF Range
  <2>4. CASE i > k
    <3>1. i - 1 \in 1..Len(s) - 1 /\ ~(i - 1 < k) /\ (i - 1) + 1 = i
      BY <1>1, <2>1, <2>4
    <3>2. left[i - 1] = q
      BY <1>2, <2>1, <3>1
    <3> QED BY <1>4, <3>1, <3>2 DEF Range
  <2> QED BY <1>1, <2>1, <2>2, <2>3, <2>4
<1>6. ASSUME NEW q \in Range(left) PROVE q \in Range(s)
  <2>1. PICK j \in 1..Len(s) - 1 : left[j] = q
    BY <1>4 DEF Range
  <2>2. j \in 1..Len(s) /\ j + 1 \in 1..Len(s)
    BY <1>1
  <2>3. q = s[j] \/ q = s[j + 1]
    BY <1>2, <2>1
  <2> QED BY <1>4, <2>2, <2>3 DEF Range
<1> QED BY <1>3, <1>5, <1>6 DEF Seated, s, left, k

(* The seat's new holder replaces the old one.                              *)
LEMMA RekeyedIs ==
  ASSUME NEW rm \in Room, NEW old \in Seated(rm), NEW new \in PlayerIds
  PROVE  /\ Rekeyed(rm, old, new).seats = [rm.seats EXCEPT ![SeatIndex(rm, old)] = new]
         /\ (Seated(rm) \ {old}) \cup {new} \subseteq Seated(Rekeyed(rm, old, new))
         /\ Seated(Rekeyed(rm, old, new)) \subseteq Seated(rm) \cup {new}
         /\ Rekeyed(rm, old, new).watchers = rm.watchers
         /\ Rekeyed(rm, old, new).up = (rm.up \ {old}) \cup {new}
         /\ Rekeyed(rm, old, new).host = rm.host
         /\ Rekeyed(rm, old, new).hosted = rm.hosted
         /\ Rekeyed(rm, old, new).inGame = rm.inGame
<1> DEFINE k == SeatIndex(rm, old)
           s == rm.seats
           kept == [s EXCEPT ![k] = new]
<1>1. k \in 1..Len(s) /\ s[k] = old /\ s \in Seq(PlayerIds) /\ Len(s) \in Nat
  BY SeatIndexIs
<1>2. DOMAIN s = 1..Len(s) /\ DOMAIN kept = 1..Len(s)
      /\ kept[k] = new /\ \A i \in 1..Len(s) : i # k => kept[i] = s[i]
  BY <1>1
<1>3. /\ Rekeyed(rm, old, new).seats = kept
      /\ Rekeyed(rm, old, new).watchers = rm.watchers
      /\ Rekeyed(rm, old, new).up = (rm.up \ {old}) \cup {new}
      /\ Rekeyed(rm, old, new).host = rm.host
      /\ Rekeyed(rm, old, new).hosted = rm.hosted
      /\ Rekeyed(rm, old, new).inGame = rm.inGame
  BY DEF Rekeyed, Room
<1> HIDE DEF k, s, kept
<1>4. /\ (Range(s) \ {old}) \cup {new} \subseteq Range(kept)
      /\ Range(kept) \subseteq Range(s) \cup {new}
  BY <1>1, <1>2 DEF Range
<1> QED BY <1>3, <1>4 DEF Seated, s, kept, k

----------------------------------------------------------------------------
(* A session's room lists it.  Every handler changes one room r, and of the *)
(* sessions only those in r, those in none, and a new one.                  *)

Lists(rm) == Members(rm) \cup {rm.host}

LEMMA ListedStep ==
  ASSUME SessionListed, NEW r,
         \A q \in rooms \ {r} : q \in rooms' /\ room'[q] = room[q],
         \A p \in players' :
           \/ roomOf'[p] = None
           \/ p \in players /\ roomOf'[p] = roomOf[p] /\ roomOf[p] # r
           \/ roomOf'[p] = r /\ r \in rooms' /\ p \in Lists(room'[r])
  PROVE  SessionListed'
BY DEF SessionListed, Lists

(* The same for a handler that changes no roster.                           *)
LEMMA ListedSame ==
  ASSUME SessionListed, UNCHANGED <<rooms, room>>,
         \A p \in players' :
           roomOf'[p] = None \/ (p \in players /\ roomOf'[p] = roomOf[p])
  PROVE  SessionListed'
BY DEF SessionListed

(* Teardown leaves nobody in the room, and touches nobody elsewhere.        *)
LEMMA RemoveRoomLeaves ==
  ASSUME IInv, NEW r \in RoomIds, NEW live, NEW others, NEW tasks,
         RemoveRoom(r, live, others, tasks)
  PROVE  /\ rooms' = rooms \ {r}
         /\ \A q \in RoomIds \ {r} : room'[q] = room[q]
         /\ players' \subseteq players
         /\ connected' = live \cap players'
         /\ \A p \in players' :
              \/ roomOf'[p] = None /\ p \in live
              \/ roomOf'[p] = roomOf[p] /\ roomOf[p] # r /\ p \notin others
         /\ \A p \in players \ others : roomOf[p] # r =>
              p \in players' /\ roomOf'[p] = roomOf[p]
<1> DEFINE released == {p \in players : roomOf[p] = r} \cup others
           location == Evacuated(released)
<1>1. /\ rooms' = rooms \ {r}
      /\ room' = [room EXCEPT ![r] = VacantRoom]
      /\ Sessions(players \ (released \ live), live, location, tasks)
  BY DEF RemoveRoom, Survivors
<1>2. players \ (released \ live) \in SUBSET PlayerIds /\ players \subseteq PlayerIds
  BY DEF IInv, SessionInv
<1>3. \A p \in PlayerIds : location[p] = IF p \in released THEN None ELSE roomOf[p]
  BY DEF Evacuated
<1>4. \A p \in players : p \in released <=> roomOf[p] = r \/ p \in others
  OBVIOUS
<1> HIDE DEF released, location
<1>5. /\ players' = players \ (released \ live)
      /\ connected' = live \cap players'
      /\ \A p \in players' : roomOf'[p] = location[p]
  BY <1>1, <1>2 DEF Sessions
<1>6. \A q \in RoomIds \ {r} : room'[q] = room[q]
  BY <1>1 DEF IInv, RoomTypes
<1> QED BY <1>1, <1>2, <1>3, <1>4, <1>5, <1>6

(* The reset lets the seated go and nobody else.                            *)
LEMMA ResetLeaves ==
  ASSUME IInv, NEW r \in RoomIds, ResetToLobby(r)
  PROVE  /\ rooms' = rooms
         /\ room' = [room EXCEPT ![r] = LobbyRoom(@)]
         /\ players' \subseteq players
         /\ connected' = connected \cap players'
         /\ \A p \in players' :
              \/ roomOf'[p] = None /\ p \in connected
              \/ roomOf'[p] = roomOf[p] /\ p \notin Seated(room[r])
         /\ \A p \in players \ Seated(room[r]) :
              p \in players' /\ roomOf'[p] = roomOf[p]
<1> DEFINE cleared == Seated(room[r])
           location == Evacuated(cleared)
<1>1. /\ rooms' = rooms
      /\ room' = [room EXCEPT ![r] = LobbyRoom(@)]
      /\ Sessions(players \ (cleared \ connected), connected, location, sockets)
  BY DEF ResetToLobby, Survivors
<1>2. players \ (cleared \ connected) \in SUBSET PlayerIds /\ players \subseteq PlayerIds
  BY DEF IInv, SessionInv
<1>3. \A p \in PlayerIds : location[p] = IF p \in cleared THEN None ELSE roomOf[p]
  BY DEF Evacuated
<1> HIDE DEF cleared, location
<1>4. /\ players' = players \ (cleared \ connected)
      /\ connected' = connected \cap players'
      /\ \A p \in players' : roomOf'[p] = location[p]
  BY <1>1, <1>2 DEF Sessions
<1> QED BY <1>1, <1>2, <1>3, <1>4 DEF cleared

LEMMA DropLeaves ==
  ASSUME IInv, NEW gone, NEW location, Sessions(players \ gone, connected, location, sockets)
  PROVE  /\ players' = players \ gone
         /\ connected' = connected \cap players'
         /\ \A p \in players' : roomOf'[p] = location[p]
<1>1. players \ gone \in SUBSET PlayerIds
  BY DEF IInv, SessionInv
<1> QED BY <1>1 DEF Sessions

LEMMA RemoveRoomListed ==
  ASSUME IInv, SessionListed, NEW r \in RoomIds, NEW live, NEW others, NEW tasks,
         RemoveRoom(r, live, others, tasks)
  PROVE  SessionListed'
<1>1. /\ rooms' = rooms \ {r}
      /\ \A q \in RoomIds \ {r} : room'[q] = room[q]
      /\ players' \subseteq players
      /\ \A p \in players' :
           roomOf'[p] = None \/ (roomOf'[p] = roomOf[p] /\ roomOf[p] # r)
  BY RemoveRoomLeaves
<1>2. \A q \in rooms \ {r} : q \in rooms' /\ room'[q] = room[q]
  BY <1>1 DEF IInv, RoomTypes
<1> QED BY <1>1, <1>2, ListedStep

LEMMA LobbyRoomIs ==
  ASSUME NEW rm \in Room
  PROVE  /\ LobbyRoom(rm).seats = << >> /\ Seated(LobbyRoom(rm)) = {}
         /\ LobbyRoom(rm).watchers = rm.watchers
         /\ LobbyRoom(rm).up = rm.up \cap rm.watchers
         /\ LobbyRoom(rm).host = rm.host
         /\ LobbyRoom(rm).hosted = rm.hosted
         /\ LobbyRoom(rm).inGame = FALSE
BY DEF LobbyRoom, Room, Seated, Range

LEMMA ResetListed ==
  ASSUME IInv, SessionListed, NEW r \in rooms, ResetToLobby(r)
  PROVE  SessionListed'
<1>1. r \in RoomIds /\ room[r] \in Room
  BY DEF IInv, RoomTypes
<1>2. /\ rooms' = rooms
      /\ room' = [room EXCEPT ![r] = LobbyRoom(@)]
      /\ players' \subseteq players
      /\ \A p \in players' :
           \/ roomOf'[p] = None
           \/ roomOf'[p] = roomOf[p] /\ p \notin Seated(room[r])
  BY <1>1, ResetLeaves
<1>3. /\ \A q \in rooms \ {r} : q \in rooms' /\ room'[q] = room[q]
      /\ room'[r] = LobbyRoom(room[r])
  BY <1>1, <1>2 DEF IInv, RoomTypes
<1>4. Lists(room[r]) \ Seated(room[r]) \subseteq Lists(room'[r])
  BY <1>1, <1>3, LobbyRoomIs DEF Lists, Members
<1>5. \A p \in players : roomOf[p] = r => p \in Lists(room[r])
  BY <1>1, NoneAssumption DEF SessionListed, Lists
<1> QED BY <1>2, <1>3, <1>4, <1>5, ListedStep

(* A handler that changes roster r and moves no session but p's.            *)
LEMMA ListedMove ==
  ASSUME IInv, SessionListed, NEW r \in RoomIds, NEW p \in players,
         rooms' = rooms \/ rooms' = rooms \cup {r},
         \A q \in rooms \ {r} : room'[q] = room[q],
         players' \subseteq players,
         \A q \in players' \ {p} : roomOf'[q] = roomOf[q],
         p \in players' =>
           \/ roomOf'[p] = None
           \/ roomOf'[p] = r /\ r \in rooms' /\ p \in Lists(room'[r]),
         r \in rooms =>
           \A q \in players' \ {p} : q \in Lists(room[r]) => q \in Lists(room'[r])
  PROVE  SessionListed'
<1>1. \A q \in players : roomOf[q] = r => r \in rooms /\ q \in Lists(room[r])
  BY NoneAssumption DEF SessionListed, Lists
<1>2. \A q \in players' \ {p} :
        roomOf[q] = r => roomOf'[q] = r /\ r \in rooms' /\ q \in Lists(room'[r])
  BY <1>1
<1> QED BY <1>2, ListedStep

LEMMA CommandFacts ==
  ASSUME IInv, NEW p \in PlayerIds, CanCommand(p)
  PROVE  p \in players /\ (~LateCommands => p \in connected)
<1>1. p \in players
  BY DEF CanCommand
<1>2. ASSUME ~LateCommands PROVE p \in connected
  <2>1. PICK s \in sockets : s[1] = p /\ s[2] = generation[p]
    BY <1>2 DEF CanCommand
  <2>2. s = <<p, generation[p]>>
    BY <2>1 DEF IInv, SessionInv
  <2> QED BY <1>1, <2>1, <2>2 DEF IInv, SessionInv, ConnectedIffSocket
<1> QED BY <1>1, <1>2

LEMMA CreateRoomListed ==
  ASSUME IInv, SessionListed, NEW p \in PlayerIds, NEW r \in RoomIds, CreateRoom(p, r)
  PROVE  SessionListed'
<1> DEFINE new == NewRoom(p, NameOf(p) \in Nodes, FALSE,
                          IF NameOf(p) \in Nodes THEN << >> ELSE <<p>>)
<1>1. /\ p \in players /\ players' = players /\ rooms' = rooms \cup {r}
      /\ room' = [room EXCEPT ![r] = new] /\ roomOf' = [roomOf EXCEPT ![p] = r]
      /\ r \notin rooms
  BY CommandFacts DEF CreateRoom
<1>2. new.host = p
  BY DEF NewRoom
<1> HIDE DEF new
<1>3. room'[r] = new /\ roomOf'[p] = r /\ \A q \in rooms \ {r} : room'[q] = room[q]
  BY <1>1 DEF IInv, RoomTypes, SessionInv
<1>4. p \in Lists(room'[r])
  BY <1>2, <1>3 DEF Lists
<1>5. \A q \in players' \ {p} : roomOf'[q] = roomOf[q]
  BY <1>1 DEF IInv, SessionInv
<1> QED BY <1>1, <1>3, <1>4, <1>5, ListedMove

LEMMA EnterListed ==
  ASSUME IInv, SessionListed, NEW p \in PlayerIds, NEW r \in RoomIds,
         JoinLobby(p, r) \/ Observe(p, r)
  PROVE  SessionListed'
<1> DEFINE rm == room[r]
           new == IF JoinLobby(p, r) THEN WithPlayer(rm, p) ELSE WithObserver(rm, p)
<1>1. /\ p \in players /\ players' = players /\ rooms' = rooms
      /\ room' = [room EXCEPT ![r] = new] /\ roomOf' = [roomOf EXCEPT ![p] = r]
      /\ r \in rooms /\ rm \in Room
  BY CommandFacts DEF JoinLobby, Observe, IInv, RoomTypes
<1>2. Members(rm) \cup {p} \subseteq Members(new) /\ new.host = rm.host
  <2>1. CASE JoinLobby(p, r)
    BY <1>1, <2>1, WithPlayerIs DEF Members
  <2>2. CASE ~JoinLobby(p, r)
    BY <1>1, <2>2, WithObserverIs DEF Members, Seated
  <2> QED BY <2>1, <2>2
<1> HIDE DEF new
<1>3. room'[r] = new /\ roomOf'[p] = r /\ \A q \in rooms \ {r} : room'[q] = room[q]
  BY <1>1 DEF IInv, RoomTypes, SessionInv
<1>4. Lists(rm) \cup {p} \subseteq Lists(room'[r])
  BY <1>2, <1>3 DEF Lists
<1>5. \A q \in players' \ {p} : roomOf'[q] = roomOf[q]
  BY <1>1 DEF IInv, SessionInv
<1> HIDE DEF rm
<1> QED BY <1>1, <1>3, <1>4, <1>5, ListedMove DEF rm

(* A seat is re-keyed from an id of the same name, which has no session of  *)
(* its own: a name has one.                                                 *)
LEMMA RekeyedLists ==
  ASSUME IInv, NEW rm \in Room, NEW old \in Seated(rm), NEW p \in players,
         NameOf(old) = NameOf(p)
  PROVE  /\ p \in Lists(Rekeyed(rm, old, p))
         /\ \A q \in players : q \in Lists(rm) => q \in Lists(Rekeyed(rm, old, p))
<1>1. p \in PlayerIds
  BY DEF IInv, SessionInv
<1>2. old \in players => old = p
  BY DEF IInv, OneSessionPerName
<1> QED BY <1>1, <1>2, RekeyedIs DEF Lists, Members

LEMMA RejoinListed ==
  ASSUME IInv, SessionListed, NEW p \in PlayerIds, NEW r \in RoomIds, Rejoin(p, r)
  PROVE  SessionListed'
<1>1. /\ p \in players /\ players' = players /\ rooms' = rooms
      /\ roomOf' = [roomOf EXCEPT ![p] = r]
      /\ r \in rooms /\ room[r] \in Room
  BY CommandFacts DEF Rejoin, IInv, RoomTypes
<1>2. PICK i \in DOMAIN room[r].seats :
        /\ NameOf(room[r].seats[i]) = NameOf(p)
        /\ room' = [room EXCEPT ![r] = Rekeyed(@, room[r].seats[i], p)]
  BY DEF Rejoin
<1> DEFINE old == room[r].seats[i]
<1>3. old \in Seated(room[r])
  BY DEF Seated, Range
<1> HIDE DEF old
<1>4. room'[r] = Rekeyed(room[r], old, p) /\ roomOf'[p] = r
      /\ \A q \in rooms \ {r} : room'[q] = room[q]
  BY <1>1, <1>2 DEF IInv, RoomTypes, SessionInv, old
<1>5. /\ p \in Lists(room'[r])
      /\ \A q \in players : q \in Lists(room[r]) => q \in Lists(room'[r])
  BY <1>1, <1>2, <1>3, <1>4, RekeyedLists DEF old
<1>6. \A q \in players' \ {p} : roomOf'[q] = roomOf[q]
  BY <1>1 DEF IInv, SessionInv
<1> QED BY <1>1, <1>4, <1>5, <1>6, ListedMove

LEMMA WithoutLists ==
  ASSUME NEW rm \in Room, NEW p, NEW q \in Lists(rm), q # p
  PROVE  q \in Lists(WithoutParticipant(rm, p))
<1>1. CASE p \in Seated(rm)
  <2>1. WithoutParticipant(rm, p) = WithoutPlayer(rm, p)
    BY <1>1 DEF WithoutParticipant
  <2>2. CASE rm.host = p
    BY <1>1, <2>1, <2>2, WithoutPlayerIs DEF Lists, Members
  <2>3. CASE rm.host # p
    BY <1>1, <2>1, <2>3, WithoutPlayerIs DEF Lists, Members
  <2> QED BY <2>2, <2>3
<1>2. CASE p \notin Seated(rm)
  <2>1. /\ WithoutParticipant(rm, p).seats = rm.seats
        /\ WithoutParticipant(rm, p).watchers = rm.watchers \ {p}
        /\ WithoutParticipant(rm, p).host = rm.host
    BY <1>2 DEF WithoutParticipant, Room
  <2> QED BY <2>1 DEF Lists, Members, Seated
<1> QED BY <1>1, <1>2

LEMMA LeaveRoomListed ==
  ASSUME IInv, SessionListed, NEW p \in PlayerIds, LeaveRoom(p)
  PROVE  SessionListed'
<1> DEFINE r == roomOf[p]
           left == WithoutParticipant(room[r], p)
<1>1. r \in rooms /\ r \in RoomIds /\ room[r] \in Room /\ p \in players
  BY CommandFacts DEF LeaveRoom, IInv, RoomTypes
<1>2. CASE left.up = {}
  <2>1. RemoveRoom(r, connected, {}, sockets)
    BY <1>2 DEF LeaveRoom
  <2> HIDE DEF r
  <2> QED BY <1>1, <2>1, RemoveRoomListed
<1>3. CASE left.up # {}
  <2>1. /\ room' = [room EXCEPT ![r] = left] /\ rooms' = rooms
        /\ roomOf' = [roomOf EXCEPT ![p] = None] /\ players' = players
    BY <1>3 DEF LeaveRoom
  <2>2. \A q \in Lists(room[r]) : q # p => q \in Lists(left)
    BY <1>1, WithoutLists
  <2> HIDE DEF left, r
  <2>3. /\ room'[r] = left /\ roomOf'[p] = None
        /\ \A q \in rooms \ {r} : room'[q] = room[q]
        /\ \A q \in players' \ {p} : roomOf'[q] = roomOf[q]
    BY <1>1, <2>1 DEF IInv, RoomTypes, SessionInv
  <2> QED BY <1>1, <2>1, <2>2, <2>3, ListedMove
<1> QED BY <1>2, <1>3

(* The node that claims a hosted room takes the old host's observer slot.   *)
LEMMA HandedHosted ==
  ASSUME NEW rm \in Room, rm.hosted, NEW p \in PlayerIds
  PROVE  /\ HandedTo(rm, p).host = p /\ HandedTo(rm, p).hosted = rm.hosted
         /\ HandedTo(rm, p).seats = rm.seats
         /\ HandedTo(rm, p).watchers = (rm.watchers \ {rm.host}) \cup {p}
         /\ HandedTo(rm, p).up = (rm.up \ {rm.host}) \cup {p}
         /\ HandedTo(rm, p).inGame = rm.inGame
<1>1. HandedTo(rm, p) = [[rm EXCEPT !.host = p] EXCEPT
                           !.watchers = (@ \ {rm.host}) \cup {p},
                           !.up = (@ \ {rm.host}) \cup {p}]
  BY DEF HandedTo
<1> QED BY <1>1 DEF Room

(* Who claims a peer room takes a seat of its name, if there is one.        *)
LEMMA HandedPeer ==
  ASSUME NEW rm \in Room, ~rm.hosted, NEW p \in PlayerIds
  PROVE  LET claimed == [rm EXCEPT !.host = p] IN
         \/ HandedTo(rm, p) = claimed
         \/ \E slot \in Seated(claimed) :
              NameOf(slot) = NameOf(p) /\ HandedTo(rm, p) = Rekeyed(claimed, slot, p)
<1> DEFINE claimed == [rm EXCEPT !.host = p]
           mine == {i \in DOMAIN rm.seats : NameOf(rm.seats[i]) = NameOf(p)}
           slot == rm.seats[CHOOSE i \in mine : \A j \in mine : i <= j]
<1>1. claimed.seats = rm.seats
  BY DEF Room
<1>2. CASE mine = {}
  BY <1>2 DEF HandedTo
<1>3. CASE mine # {}
  <2>1. HandedTo(rm, p) = Rekeyed(claimed, slot, p)
    BY <1>3 DEF HandedTo
  <2>2. mine \in SUBSET Nat
    BY DEF Room
  <2>3. \E i \in mine : \A j \in mine : i <= j
    <3> HIDE DEF mine
    <3> QED BY <1>3, <2>2, SmallestNat
  <2>4. \E i \in mine : slot = rm.seats[i]
    BY <2>3
  <2> HIDE DEF slot
  <2>5. slot \in Seated(claimed) /\ NameOf(slot) = NameOf(p)
    BY <1>1, <2>4 DEF Seated, Range
  <2> QED BY <2>1, <2>5
<1> QED BY <1>2, <1>3

(* The claimant takes the host's place, or the first seat of its name, and  *)
(* the old host's session goes.                                             *)
LEMMA HandedLists ==
  ASSUME IInv, NEW rm \in Room, NEW p \in players
  PROVE  /\ p \in Lists(HandedTo(rm, p))
         /\ \A q \in players \ {rm.host} :
              q \in Lists(rm) => q \in Lists(HandedTo(rm, p))
<1> DEFINE claimed == [rm EXCEPT !.host = p]
<1>1. /\ claimed \in Room /\ claimed.host = p /\ claimed.seats = rm.seats
      /\ claimed.watchers = rm.watchers /\ p \in PlayerIds
  BY DEF Room, IInv, SessionInv
<1>2. \A q \in players \ {rm.host} : q \in Lists(rm) => q \in Lists(claimed)
  BY <1>1 DEF Lists, Members, Seated
<1>3. CASE rm.hosted
  BY <1>1, <1>3, HandedHosted DEF Lists, Members, Seated
<1>4. CASE ~rm.hosted
  <2>1. \/ HandedTo(rm, p) = claimed
        \/ \E slot \in Seated(claimed) :
             NameOf(slot) = NameOf(p) /\ HandedTo(rm, p) = Rekeyed(claimed, slot, p)
    BY <1>1, <1>4, HandedPeer
  <2> HIDE DEF claimed
  <2>2. CASE HandedTo(rm, p) = claimed
    BY <1>1, <1>2, <2>2 DEF Lists
  <2>3. ASSUME NEW slot \in Seated(claimed), NameOf(slot) = NameOf(p),
               HandedTo(rm, p) = Rekeyed(claimed, slot, p)
        PROVE  /\ p \in Lists(HandedTo(rm, p))
               /\ \A q \in players \ {rm.host} :
                    q \in Lists(rm) => q \in Lists(HandedTo(rm, p))
    BY <1>1, <1>2, <2>3, RekeyedLists
  <2> QED BY <2>1, <2>2, <2>3
<1> QED BY <1>3, <1>4

LEMMA ResumeLiveListed ==
  ASSUME IInv, SessionListed, NEW p \in PlayerIds, NEW r \in RoomIds, ResumeLive(p, r)
  PROVE  SessionListed'
<1> DEFINE gone == IF room[r].host = p THEN {} ELSE {room[r].host}
           location == [roomOf EXCEPT ![p] = r]
           new == HandedTo(room[r], p)
<1>1. /\ p \in players /\ rooms' = rooms /\ r \in rooms /\ room[r] \in Room
      /\ room' = [room EXCEPT ![r] = new]
      /\ Sessions(players \ gone, connected, location, sockets)
  BY CommandFacts DEF ResumeLive, MayResume, IInv, RoomTypes
<1>2. p \notin gone /\ \A q \in players \ gone : q = p \/ q # room[r].host
  OBVIOUS
<1>3. location[p] = r /\ \A q \in players \ {p} : location[q] = roomOf[q]
  BY <1>1 DEF IInv, SessionInv
<1>4. p \in Lists(new) /\ \A q \in players \ {room[r].host} :
        q \in Lists(room[r]) => q \in Lists(new)
  BY <1>1, HandedLists
<1> HIDE DEF gone, location, new
<1>5. /\ players' = players \ gone
      /\ \A q \in players' : roomOf'[q] = location[q]
  BY <1>1, DropLeaves
<1>6. room'[r] = new /\ \A q \in rooms \ {r} : room'[q] = room[q]
  BY <1>1 DEF IInv, RoomTypes
<1>7. \A q \in players' \ {p} : roomOf'[q] = roomOf[q]
  BY <1>3, <1>5
<1>8. \A q \in players' \ {p} : q \in Lists(room[r]) => q \in Lists(room'[r])
  BY <1>2, <1>4, <1>5, <1>6
<1>9. p \in players' /\ roomOf'[p] = r /\ players' \subseteq players
  BY <1>1, <1>2, <1>3, <1>5
<1> QED BY <1>1, <1>4, <1>6, <1>7, <1>8, <1>9, ListedMove

LEMMA ResumeLostListed ==
  ASSUME IInv, SessionListed, NEW p \in PlayerIds, NEW r \in RoomIds, ResumeLost(p, r)
  PROVE  SessionListed'
<1>1. PICK seats : room' = [room EXCEPT ![r] =
                              NewRoom(p, NameOf(p) \in Nodes, TRUE, seats)]
  BY DEF ResumeLost
<1>2. /\ p \in players /\ players' = players /\ rooms' = rooms \cup {r}
      /\ roomOf' = [roomOf EXCEPT ![p] = r] /\ r \notin rooms
  BY CommandFacts DEF ResumeLost, MayResume
<1>3. NewRoom(p, NameOf(p) \in Nodes, TRUE, seats).host = p
  BY DEF NewRoom
<1>4. room'[r].host = p /\ roomOf'[p] = r /\ \A q \in rooms \ {r} : room'[q] = room[q]
  BY <1>1, <1>2, <1>3 DEF IInv, RoomTypes, SessionInv
<1>5. p \in Lists(room'[r])
  BY <1>4 DEF Lists
<1>6. \A q \in players' \ {p} : roomOf'[q] = roomOf[q]
  BY <1>2 DEF IInv, SessionInv
<1> QED BY <1>2, <1>4, <1>5, <1>6, ListedMove

LEMMA StartGameListed ==
  ASSUME IInv, SessionListed, NEW p \in PlayerIds, StartGame(p)
  PROVE  SessionListed'
<1> DEFINE r == roomOf[p]
<1>1. /\ rooms' = rooms /\ players' = players /\ roomOf' = roomOf
      /\ room' = [room EXCEPT ![r].inGame = TRUE]
  BY DEF StartGame, sessionVars
<1>2. \A q \in rooms : Lists(room'[q]) = Lists(room[q])
  <2>1. \A q \in rooms : /\ room'[q].seats = room[q].seats
                         /\ room'[q].watchers = room[q].watchers
                         /\ room'[q].host = room[q].host
    BY <1>1 DEF IInv, RoomTypes, Room
  <2> QED BY <2>1 DEF Lists, Members, Seated
<1> QED BY <1>1, <1>2 DEF SessionListed, Lists

----------------------------------------------------------------------------

LEMMA DisconnectListed ==
  ASSUME IInv, SessionListed, NEW p, NEW g, Disconnect(p, g)
  PROVE  SessionListed'
<1>1. CASE DisconnectIgnored(p, g)
  BY <1>1, ListedSame DEF DisconnectIgnored, sessionVars, roomVars
<1>2. CASE DisconnectRoomless(p, g)
  <2>1. /\ players' = players \ {p}
        /\ \A q \in players' : roomOf'[q] = roomOf[q]
        /\ UNCHANGED <<rooms, room>>
    BY <1>2, DropLeaves DEF DisconnectRoomless, roomVars
  <2> QED BY <2>1, ListedSame
<1>3. CASE DisconnectInGame(p, g)
  <2> DEFINE r == roomOf[p]
  <2>1. /\ players' = players /\ roomOf' = roomOf /\ rooms' = rooms
        /\ room' = [room EXCEPT ![r] = WithUp(@, p, FALSE)]
        /\ r \in rooms /\ r \in RoomIds /\ room[r] \in Room
    BY <1>3 DEF DisconnectInGame, IInv, RoomTypes
  <2>2. /\ WithUp(room[r], p, FALSE).seats = room[r].seats
        /\ WithUp(room[r], p, FALSE).watchers = room[r].watchers
        /\ WithUp(room[r], p, FALSE).host = room[r].host
    BY <2>1 DEF WithUp, Room
  <2> HIDE DEF r
  <2>3. \A q \in rooms : Lists(room'[q]) = Lists(room[q])
    BY <2>1, <2>2 DEF Lists, Members, Seated, IInv, RoomTypes
  <2> QED BY <2>1, <2>3 DEF SessionListed, Lists
<1>4. CASE DisconnectLobby(p, g)
  <2> DEFINE r == roomOf[p]
             left == WithoutParticipant(room[r], p)
  <2>1. r \in rooms /\ r \in RoomIds /\ room[r] \in Room /\ p \in players
    BY <1>4 DEF DisconnectLobby, Current, IInv, RoomTypes
  <2>2. CASE RemoveRoom(r, connected \ {p}, {p}, sockets)
    <3> HIDE DEF r
    <3> QED BY <2>1, <2>2, RemoveRoomListed
  <2>3. CASE /\ room' = [room EXCEPT ![r] = left]
             /\ Sessions(players \ {p}, connected, roomOf, sockets)
             /\ rooms' = rooms
    <3>1. /\ players' = players \ {p}
          /\ \A q \in players' : roomOf'[q] = roomOf[q]
      BY <2>3, DropLeaves
    <3>2. \A q \in Lists(room[r]) : q # p => q \in Lists(left)
      BY <2>1, WithoutLists
    <3> HIDE DEF r, left
    <3>3. room'[r] = left /\ \A q \in rooms \ {r} : room'[q] = room[q]
      BY <2>1, <2>3 DEF IInv, RoomTypes
    <3> QED BY <2>1, <2>3, <3>1, <3>2, <3>3, ListedMove
  <2> QED BY <1>4, <2>2, <2>3 DEF DisconnectLobby
<1> QED BY <1>1, <1>2, <1>3, <1>4 DEF Disconnect

LEMMA ForfeitListed ==
  ASSUME IInv, SessionListed, NEW t \in timers, ForfeitSeat(t)
  PROVE  SessionListed'
<1> DEFINE r == t.room
           p == t.player
           left == WithoutPlayer(room[r], p)
<1>1. /\ r \in rooms /\ r \in RoomIds /\ room[r] \in Room /\ p \in Seated(room[r])
      /\ rooms' = rooms /\ room' = [room EXCEPT ![r] = left]
      /\ Sessions(players \ {p}, connected, roomOf, sockets)
  BY DEF ForfeitSeat, SeatStillGone, IInv, RoomTypes
<1>2. /\ players' = players \ {p}
      /\ \A q \in players' : roomOf'[q] = roomOf[q]
  BY <1>1, DropLeaves
<1>3. \A q \in Lists(room[r]) : q # p => q \in Lists(left)
  BY <1>1, WithoutLists DEF WithoutParticipant
<1> HIDE DEF left
<1>4. room'[r] = left /\ \A q \in rooms \ {r} : room'[q] = room[q]
  BY <1>1 DEF IInv, RoomTypes
<1> HIDE DEF r, p
<1>5. \A q \in players' :
        \/ q \in players /\ roomOf'[q] = roomOf[q] /\ roomOf[q] # r
        \/ roomOf'[q] = r /\ r \in rooms' /\ q \in Lists(room'[r])
  BY <1>1, <1>2, <1>3, <1>4, NoneAssumption DEF SessionListed, Lists
<1> QED BY <1>1, <1>4, <1>5, ListedStep

LEMMA TimerListed ==
  ASSUME IInv, SessionListed, NEW t \in timers, TimerExpires(t)
  PROVE  SessionListed'
<1>1. t.room \in RoomIds
  BY DEF IInv, TimerTypes, Timer
<1>2. CASE HostNeverResumed(t)
  BY <1>1, <1>2, RemoveRoomListed DEF HostNeverResumed
<1>3. CASE PeerHostLost(t)
  BY <1>3, ResetListed DEF PeerHostLost, HostStillGone
<1>4. CASE ForfeitSeat(t)
  BY <1>4, ForfeitListed
<1>5. CASE TimerDisarmed(t)
  BY <1>5, ListedSame DEF TimerDisarmed, sessionVars, roomVars
<1> QED BY <1>2, <1>3, <1>4, <1>5 DEF TimerExpires

LEMMA SweepListed ==
  ASSUME IInv, SessionListed, NEW r \in RoomIds, Sweep(r)
  PROVE  SessionListed'
<1>1. CASE SweepKeep(r)
  <2>1. /\ rooms' = rooms /\ players' = players /\ roomOf' = roomOf
        /\ room' = [room EXCEPT ![r].idle = Humanless(room[r])]
    BY <1>1 DEF SweepKeep, sessionVars
  <2>2. \A q \in rooms : Lists(room'[q]) = Lists(room[q])
    <3>1. \A q \in rooms : /\ room'[q].seats = room[q].seats
                           /\ room'[q].watchers = room[q].watchers
                           /\ room'[q].host = room[q].host
      BY <2>1 DEF IInv, RoomTypes, Room
    <3> QED BY <3>1 DEF Lists, Members, Seated
  <2> QED BY <2>1, <2>2 DEF SessionListed, Lists
<1>2. CASE SweepEmptyLobby(r)
  BY <1>2, RemoveRoomListed DEF SweepEmptyLobby
<1>3. CASE SweepHumanless(r)
  BY <1>3, ResetListed, RemoveRoomListed DEF SweepHumanless
<1> QED BY <1>1, <1>2, <1>3 DEF Sweep

(* An id without a session is in no room.                                   *)
Unplaced == \A p \in PlayerIds \ players : roomOf[p] = None

LEMMA StepUnplaced == IInv /\ Unplaced /\ [Next]_vars => Unplaced'
<1> SUFFICES ASSUME IInv, Unplaced, [Next]_vars PROVE Unplaced'
  OBVIOUS
<1>1. ASSUME NEW survivors, NEW live, NEW location, NEW tasks,
             Sessions(survivors, live, location, tasks)
      PROVE  Unplaced'
  BY <1>1 DEF Sessions, Unplaced
<1>2. ASSUME NEW p \in players, NEW r,
             players' = players, roomOf' = [roomOf EXCEPT ![p] = r]
      PROVE  Unplaced'
  BY <1>2 DEF IInv, SessionInv, Unplaced
<1>3. ASSUME players' = players, roomOf' = roomOf PROVE Unplaced'
  BY <1>3 DEF Unplaced
<1>4. ASSUME NEW u \in Users, NewSession(u) \/ Forget(u) PROVE Unplaced'
  BY <1>1, <1>3, <1>4 DEF NewSession, Forget, sessionVars
<1>5. ASSUME NEW p \in PlayerIds, Reclaim(p) PROVE Unplaced'
  BY <1>3, <1>5 DEF Reclaim
<1>6. ASSUME NEW p \in PlayerIds, Command(p) PROVE Unplaced'
  <2>1. p \in players
    BY <1>6, CommandFacts
    DEF Command, LeaveRoom, StartGame, EndGame, CreateRoom, JoinLobby, Observe,
        Rejoin, ResumeLive, ResumeLost, MayResume
  <2>2. CASE LeaveRoom(p)
    BY <1>1, <1>2, <2>1, <2>2 DEF LeaveRoom, RemoveRoom
  <2>3. CASE StartGame(p) \/ EndGame(p)
    BY <1>1, <1>3, <2>3 DEF StartGame, sessionVars, EndGame, ResetToLobby
  <2>4. ASSUME NEW r \in RoomIds,
               \/ CreateRoom(p, r) \/ JoinLobby(p, r) \/ Observe(p, r)
               \/ Rejoin(p, r) \/ ResumeLost(p, r)
        PROVE  Unplaced'
    BY <1>2, <2>1, <2>4 DEF CreateRoom, JoinLobby, Observe, Rejoin, ResumeLost
  <2>5. ASSUME NEW r \in RoomIds, ResumeLive(p, r) PROVE Unplaced'
    BY <1>1, <2>5 DEF ResumeLive
  <2> QED BY <1>6, <2>2, <2>3, <2>4, <2>5 DEF Command
<1>7. ASSUME NEW s \in sockets, Disconnect(s[1], s[2]) PROVE Unplaced'
  <2>1. CASE DisconnectIgnored(s[1], s[2]) \/ DisconnectInGame(s[1], s[2])
    BY <1>3, <2>1 DEF DisconnectIgnored, DisconnectInGame, sessionVars
  <2>2. CASE DisconnectRoomless(s[1], s[2])
    BY <1>1, <2>2 DEF DisconnectRoomless
  <2>3. CASE DisconnectLobby(s[1], s[2])
    BY <1>1, <2>3 DEF DisconnectLobby, RemoveRoom
  <2> QED BY <1>7, <2>1, <2>2, <2>3 DEF Disconnect
<1>8. ASSUME NEW t \in timers, TimerExpires(t) PROVE Unplaced'
  <2>1. CASE HostNeverResumed(t)
    BY <1>1, <2>1 DEF HostNeverResumed, RemoveRoom
  <2>2. CASE PeerHostLost(t)
    BY <1>1, <2>2 DEF PeerHostLost, ResetToLobby
  <2>3. CASE ForfeitSeat(t) \/ TimerDisarmed(t)
    BY <1>1, <1>3, <2>3 DEF ForfeitSeat, TimerDisarmed, sessionVars
  <2> QED BY <1>8, <2>1, <2>2, <2>3 DEF TimerExpires
<1>9. ASSUME NEW r \in RoomIds, Sweep(r) PROVE Unplaced'
  <2>1. CASE SweepKeep(r)
    BY <1>3, <2>1 DEF SweepKeep, sessionVars
  <2>2. CASE SweepEmptyLobby(r)
    BY <1>1, <2>2 DEF SweepEmptyLobby, RemoveRoom
  <2>3. CASE SweepHumanless(r)
    BY <1>1, <2>3 DEF SweepHumanless, RemoveRoom, ResetToLobby
  <2> QED BY <1>9, <2>1, <2>2, <2>3 DEF Sweep
<1>10. CASE RelayRestart
  BY <1>1, <1>10 DEF RelayRestart
<1>11. CASE UNCHANGED vars
  BY <1>3, <1>11 DEF vars
<1> QED BY <1>4, <1>5, <1>6, <1>7, <1>8, <1>9, <1>10, <1>11 DEF Next

LEMMA AuthListed ==
  ASSUME IInv, SessionListed, Unplaced,
         \/ \E u \in Users : NewSession(u) \/ Forget(u)
         \/ \E p \in PlayerIds : Reclaim(p)
         \/ RelayRestart
  PROVE  SessionListed'
<1>1. ASSUME NEW u \in Users, NewSession(u) PROVE SessionListed'
  <2> PICK p \in FreshIds(u, {}) :
        Sessions(players \cup {p}, connected \cup {p}, roomOf, sockets \cup {<<p, 0>>})
    BY <1>1 DEF NewSession
  <2>1. p \in PlayerIds /\ p \notin players
    BY FreshIdsType
  <2>2. /\ players' = players \cup {p}
        /\ \A q \in players' : roomOf'[q] = roomOf[q]
    BY <2>1 DEF Sessions, IInv, SessionInv
  <2>3. roomOf[p] = None
    BY <2>1 DEF Unplaced
  <2> QED BY <1>1, <2>2, <2>3, ListedSame DEF NewSession
<1>2. ASSUME NEW u \in Users, Forget(u) PROVE SessionListed'
  BY <1>2, ListedSame DEF Forget, sessionVars, roomVars
<1>3. ASSUME NEW p \in PlayerIds, Reclaim(p) PROVE SessionListed'
  <2>1. \A q \in RoomIds : /\ WithUp(room[q], p, TRUE).seats = room[q].seats
                           /\ WithUp(room[q], p, TRUE).watchers = room[q].watchers
                           /\ WithUp(room[q], p, TRUE).host = room[q].host
    BY DEF WithUp, IInv, RoomTypes, Room
  <2>2. \A q \in rooms : /\ room'[q].seats = room[q].seats
                         /\ room'[q].watchers = room[q].watchers
                         /\ room'[q].host = room[q].host
    BY <1>3, <2>1 DEF Reclaim, IInv, RoomTypes
  <2>3. \A q \in rooms : Lists(room'[q]) = Lists(room[q])
    BY <2>2 DEF Lists, Members, Seated
  <2> QED BY <1>3, <2>3 DEF Reclaim, SessionListed, Lists
<1>4. CASE RelayRestart
  BY <1>4 DEF RelayRestart, Sessions, SessionListed
<1> QED BY <1>1, <1>2, <1>3, <1>4

LEMMA StepListed ==
  IInv /\ SessionListed /\ Unplaced /\ [Next]_vars => SessionListed'
<1> SUFFICES ASSUME IInv, SessionListed, Unplaced, [Next]_vars PROVE SessionListed'
  OBVIOUS
<1>1. ASSUME NEW p \in PlayerIds, Command(p) PROVE SessionListed'
  BY <1>1, CreateRoomListed, EnterListed, RejoinListed, LeaveRoomListed,
     StartGameListed, ResetListed, ResumeLiveListed, ResumeLostListed
  DEF Command, EndGame
<1>2. CASE UNCHANGED vars
  BY <1>2 DEF vars, SessionListed
<1> QED
  BY <1>1, <1>2, AuthListed, DisconnectListed, TimerListed, SweepListed DEF Next

(* SessionListed: whatever rooms are created, torn down, taken over, reset  *)
(* and rebuilt, and whatever a replaced connection still sends, the room a  *)
(* session is in exists and has it on its roster or as its host (cleanup.rs *)
(* and lobby.rs keep the two maps in step).                                 *)
THEOREM SessionsAreListed == Spec => []SessionListed
<1>1. Init => SessionListed /\ Unplaced
  BY DEF Init, SessionListed, Unplaced
<1>2. /\ IInv /\ Unplaced /\ [Next]_vars => Unplaced'
      /\ IInv /\ SessionListed /\ Unplaced /\ [Next]_vars => SessionListed'
  BY StepUnplaced, StepListed
<1> QED BY <1>1, <1>2, Invariance, PTL DEF Spec

----------------------------------------------------------------------------
(* No ghosts: a disconnected session is in a room.                          *)

LEMMA RemoveRoomNoOrphan ==
  ASSUME IInv, NoOrphanSession, NEW r \in RoomIds, NEW live, NEW others, NEW tasks,
         connected \subseteq live \cup others,
         RemoveRoom(r, live, others, tasks)
  PROVE  NoOrphanSession'
<1>1. /\ rooms' = rooms \ {r} /\ players' \subseteq players
      /\ connected' = live \cap players'
      /\ \A p \in players' :
           \/ roomOf'[p] = None /\ p \in live
           \/ roomOf'[p] = roomOf[p] /\ roomOf[p] # r /\ p \notin others
  BY RemoveRoomLeaves
<1> QED BY <1>1 DEF NoOrphanSession

LEMMA ResetNoOrphan ==
  ASSUME IInv, NoOrphanSession, NEW r \in RoomIds, ResetToLobby(r)
  PROVE  NoOrphanSession'
<1>1. /\ rooms' = rooms /\ players' \subseteq players
      /\ connected' = connected \cap players'
      /\ \A p \in players' :
           \/ roomOf'[p] = None /\ p \in connected
           \/ roomOf'[p] = roomOf[p]
  BY ResetLeaves
<1> QED BY <1>1 DEF NoOrphanSession

LEMMA DropNoOrphan ==
  ASSUME IInv, NoOrphanSession, NEW gone, NEW location, UNCHANGED rooms,
         Sessions(players \ gone, connected, location, sockets),
         \A p \in players \ connected : location[p] = roomOf[p]
  PROVE  NoOrphanSession'
<1>1. /\ players' = players \ gone
      /\ connected' = connected \cap players'
      /\ \A p \in players' : roomOf'[p] = location[p]
  BY DropLeaves
<1> QED BY <1>1 DEF NoOrphanSession

(* Without commands of replaced connections only a connected session moves. *)
LEMMA CommandNoOrphan ==
  ASSUME IInv, NoOrphanSession, ~LateCommands, NEW p \in PlayerIds, Command(p)
  PROVE  NoOrphanSession'
<1>1. p \in connected
  BY CommandFacts
  DEF Command, LeaveRoom, StartGame, EndGame, CreateRoom, JoinLobby, Observe,
      Rejoin, ResumeLive, ResumeLost, MayResume
<1>2. ASSUME NEW r, players' = players, connected' = connected,
             roomOf' = [roomOf EXCEPT ![p] = r], rooms \subseteq rooms'
      PROVE  NoOrphanSession'
  BY <1>1, <1>2 DEF IInv, SessionInv, NoOrphanSession
<1>3. CASE LeaveRoom(p)
  <2> DEFINE r == roomOf[p]
  <2>1. r \in RoomIds
    BY <1>3 DEF LeaveRoom, IInv, RoomTypes
  <2>2. CASE RemoveRoom(r, connected, {}, sockets)
    <3> HIDE DEF r
    <3> QED BY <2>1, <2>2, RemoveRoomNoOrphan
  <2>3. CASE ~RemoveRoom(r, connected, {}, sockets)
    BY <1>2, <1>3, <2>3 DEF LeaveRoom
  <2> QED BY <2>2, <2>3
<1>4. CASE StartGame(p)
  BY <1>4 DEF StartGame, sessionVars, NoOrphanSession
<1>5. CASE EndGame(p)
  <2>1. roomOf[p] \in RoomIds
    BY <1>5 DEF EndGame, IInv, RoomTypes
  <2> QED BY <1>5, <2>1, ResetNoOrphan DEF EndGame
<1>6. ASSUME NEW r \in RoomIds,
             \/ CreateRoom(p, r) \/ JoinLobby(p, r) \/ Observe(p, r)
             \/ Rejoin(p, r) \/ ResumeLost(p, r)
      PROVE  NoOrphanSession'
  BY <1>2, <1>6 DEF CreateRoom, JoinLobby, Observe, Rejoin, ResumeLost
<1>7. ASSUME NEW r \in RoomIds, ResumeLive(p, r) PROVE NoOrphanSession'
  <2> DEFINE location == [roomOf EXCEPT ![p] = r]
             gone == IF room[r].host = p THEN {} ELSE {room[r].host}
  <2>1. /\ Sessions(players \ gone, connected, location, sockets)
        /\ UNCHANGED rooms
    BY <1>7 DEF ResumeLive
  <2>2. \A q \in players \ connected : location[q] = roomOf[q]
    BY <1>1 DEF IInv, SessionInv
  <2> HIDE DEF location, gone
  <2> QED BY <2>1, <2>2, DropNoOrphan
<1> QED BY <1>3, <1>4, <1>5, <1>6, <1>7 DEF Command

LEMMA StepNoOrphan ==
  ASSUME ~LateCommands, IInv, NoOrphanSession, [Next]_vars
  PROVE  NoOrphanSession'
<1>1. ASSUME NEW u \in Users, NewSession(u) PROVE NoOrphanSession'
  <2> PICK p \in FreshIds(u, {}) :
        Sessions(players \cup {p}, connected \cup {p}, roomOf, sockets \cup {<<p, 0>>})
    BY <1>1 DEF NewSession
  <2>1. p \in PlayerIds
    BY FreshIdsType
  <2>2. /\ players' = players \cup {p} /\ rooms' = rooms
        /\ connected' = connected \cup {p}
        /\ \A q \in players' : roomOf'[q] = roomOf[q]
    BY <1>1, <2>1 DEF NewSession, Sessions, IInv, SessionInv
  <2> QED BY <2>2 DEF NoOrphanSession
<1>2. ASSUME NEW u \in Users, Forget(u) PROVE NoOrphanSession'
  BY <1>2 DEF Forget, sessionVars, roomVars, NoOrphanSession
<1>3. ASSUME NEW p \in PlayerIds, Reclaim(p) PROVE NoOrphanSession'
  BY <1>3 DEF Reclaim, NoOrphanSession
<1>4. ASSUME NEW p, NEW g, Disconnect(p, g) PROVE NoOrphanSession'
  <2>1. CASE DisconnectIgnored(p, g)
    BY <2>1 DEF DisconnectIgnored, sessionVars, roomVars, NoOrphanSession
  <2>2. CASE DisconnectRoomless(p, g)
    BY <2>2, DropNoOrphan DEF DisconnectRoomless, roomVars
  <2>3. CASE DisconnectInGame(p, g)
    BY <2>3 DEF DisconnectInGame, NoOrphanSession
  <2>4. CASE DisconnectLobby(p, g)
    <3> DEFINE r == roomOf[p]
    <3>1. r \in RoomIds
      BY <2>4 DEF DisconnectLobby, IInv, RoomTypes
    <3>2. CASE RemoveRoom(r, connected \ {p}, {p}, sockets)
      <4> HIDE DEF r
      <4>1. connected \subseteq (connected \ {p}) \cup {p}
        OBVIOUS
      <4> QED BY <3>1, <3>2, <4>1, RemoveRoomNoOrphan
    <3>3. CASE Sessions(players \ {p}, connected, roomOf, sockets) /\ rooms' = rooms
      BY <3>3, DropNoOrphan
    <3> QED BY <2>4, <3>2, <3>3 DEF DisconnectLobby
  <2> QED BY <1>4, <2>1, <2>2, <2>3, <2>4 DEF Disconnect
<1>5. ASSUME NEW t \in timers, TimerExpires(t) PROVE NoOrphanSession'
  <2>1. t.room \in RoomIds
    BY DEF IInv, TimerTypes, Timer
  <2>2. CASE HostNeverResumed(t)
    BY <2>1, <2>2, RemoveRoomNoOrphan DEF HostNeverResumed
  <2>3. CASE PeerHostLost(t)
    BY <2>1, <2>3, ResetNoOrphan DEF PeerHostLost
  <2>4. CASE ForfeitSeat(t)
    BY <2>4, DropNoOrphan DEF ForfeitSeat
  <2>5. CASE TimerDisarmed(t)
    BY <2>5 DEF TimerDisarmed, sessionVars, roomVars, NoOrphanSession
  <2> QED BY <1>5, <2>2, <2>3, <2>4, <2>5 DEF TimerExpires
<1>6. ASSUME NEW r \in RoomIds, Sweep(r) PROVE NoOrphanSession'
  <2>1. CASE SweepKeep(r)
    BY <2>1 DEF SweepKeep, sessionVars, NoOrphanSession
  <2>2. CASE SweepEmptyLobby(r)
    BY <2>2, RemoveRoomNoOrphan DEF SweepEmptyLobby
  <2>3. CASE SweepHumanless(r)
    BY <2>3, RemoveRoomNoOrphan, ResetNoOrphan DEF SweepHumanless
  <2> QED BY <1>6, <2>1, <2>2, <2>3 DEF Sweep
<1>7. CASE RelayRestart
  BY <1>7 DEF RelayRestart, Sessions, NoOrphanSession
<1>8. CASE UNCHANGED vars
  BY <1>8 DEF vars, NoOrphanSession
<1> QED
  BY <1>1, <1>2, <1>3, <1>4, <1>5, <1>6, <1>7, <1>8, CommandNoOrphan DEF Next

(* NoOrphanSession: teardown, reset, forfeit and takeover (cleanup.rs:485,  *)
(* 502; lobby.rs:709) leave no disconnected session outside of a room, in   *)
(* rooms of any kind, as long as a replaced connection sends no commands.   *)
THEOREM NoGhosts ==
  ASSUME ~LateCommands
  PROVE  Spec => []NoOrphanSession
<1>1. Init => NoOrphanSession
  BY DEF Init, NoOrphanSession
<1>2. IInv /\ NoOrphanSession /\ [Next]_vars => NoOrphanSession'
  BY StepNoOrphan
<1> QED BY <1>1, <1>2, Invariance, PTL DEF Spec

----------------------------------------------------------------------------
(* The seats of a running game, in rooms of any kind and with commands of   *)
(* replaced connections.  A seat goes to a session of the same name, and a  *)
(* name has one session: its old holder is that session, or is gone.        *)

(* The seats the game of room r loses are not those of connected players,   *)
(* except of one who leaves.                                                *)
SeatsKept(r) ==
  r \in rooms' /\ room[r].inGame /\ room'[r].inGame =>
    \A p \in Seated(room[r]) \ Seated(room'[r]) :
      p \in connected => p \in connected' /\ roomOf'[p] = None

LEMMA RoomsTyped ==
  ASSUME IInv, NEW r \in rooms
  PROVE  /\ r \in RoomIds /\ room[r] \in Room
         /\ players \subseteq PlayerIds /\ connected \subseteq players
BY DEF IInv, RoomTypes, SessionInv

(* Any other room than the one a handler works on keeps its seats.          *)
LEMMA OtherSeats ==
  ASSUME IInv, NEW r, \A q \in RoomIds \ {r} : room'[q] = room[q]
  PROVE  \A q \in rooms \ {r} : SeatsKept(q)
BY DEF SeatsKept, Seated, IInv, RoomTypes

LEMMA AllSeats ==
  ASSUME UNCHANGED room
  PROVE  \A q \in rooms : SeatsKept(q)
BY DEF SeatsKept, Seated

LEMMA SeatsWritten ==
  ASSUME IInv, NEW r \in RoomIds, NEW after, room' = [room EXCEPT ![r] = after],
         room[r].inGame /\ after.inGame =>
           \A p \in Seated(room[r]) \ Seated(after) :
             p \in connected => p \in connected' /\ roomOf'[p] = None
  PROVE  \A q \in rooms : SeatsKept(q)
<1>1. room'[r] = after /\ \A q \in RoomIds \ {r} : room'[q] = room[q]
  BY DEF IInv, RoomTypes
<1>2. SeatsKept(r)
  BY <1>1 DEF SeatsKept
<1> QED BY <1>1, <1>2, OtherSeats

(* The room goes, and its game with it.                                     *)
LEMMA SeatsRemoved ==
  ASSUME IInv, NEW r \in RoomIds, NEW live, NEW others, NEW tasks,
         RemoveRoom(r, live, others, tasks)
  PROVE  \A q \in rooms : SeatsKept(q)
<1>1. /\ rooms' = rooms \ {r}
      /\ \A q \in RoomIds \ {r} : room'[q] = room[q]
  BY RemoveRoomLeaves
<1> QED BY <1>1, OtherSeats DEF SeatsKept

LEMMA SeatsReset ==
  ASSUME IInv, NEW r \in rooms, ResetToLobby(r)
  PROVE  \A q \in rooms : SeatsKept(q)
<1>1. room' = [room EXCEPT ![r] = LobbyRoom(room[r])]
  BY DEF ResetToLobby
<1> QED BY <1>1, RoomsTyped, LobbyRoomIs, SeatsWritten

(* A seat that goes to a session of its holder's name.                      *)
LEMMA RekeyedSeats ==
  ASSUME IInv, NEW rm \in Room, NEW old \in Seated(rm), NEW p \in players,
         NameOf(old) = NameOf(p)
  PROVE  \A q \in Seated(rm) \ Seated(Rekeyed(rm, old, p)) : q \notin connected
<1>1. p \in PlayerIds /\ (old \in connected => old = p)
  BY DEF IInv, SessionInv, OneSessionPerName
<1> QED BY <1>1, RekeyedIs

LEMMA RejoinSeats ==
  ASSUME IInv, NEW p \in PlayerIds, NEW r \in RoomIds, Rejoin(p, r)
  PROVE  \A q \in rooms : SeatsKept(q)
<1>1. p \in players /\ r \in rooms
  BY DEF Rejoin, CanCommand
<1>2. PICK i \in DOMAIN room[r].seats :
        /\ NameOf(room[r].seats[i]) = NameOf(p)
        /\ room' = [room EXCEPT ![r] = Rekeyed(@, room[r].seats[i], p)]
  BY DEF Rejoin
<1>3. room[r] \in Room /\ room[r].seats[i] \in Seated(room[r])
  BY <1>1, RoomsTyped DEF Seated, Range
<1>4. \A q \in Seated(room[r]) \ Seated(Rekeyed(room[r], room[r].seats[i], p)) :
        q \notin connected
  BY <1>1, <1>2, <1>3, RekeyedSeats
<1> QED BY <1>2, <1>4, SeatsWritten

LEMMA HandedSeats ==
  ASSUME IInv, NEW rm \in Room, NEW p \in players
  PROVE  \A q \in Seated(rm) \ Seated(HandedTo(rm, p)) : q \notin connected
<1> DEFINE claimed == [rm EXCEPT !.host = p]
<1>1. claimed \in Room /\ claimed.seats = rm.seats /\ p \in PlayerIds
  BY DEF Room, IInv, SessionInv
<1>2. CASE rm.hosted
  BY <1>1, <1>2, HandedHosted DEF Seated
<1>3. CASE ~rm.hosted
  <2>1. \/ HandedTo(rm, p) = claimed
        \/ \E slot \in Seated(claimed) :
             NameOf(slot) = NameOf(p) /\ HandedTo(rm, p) = Rekeyed(claimed, slot, p)
    BY <1>1, <1>3, HandedPeer
  <2>2. Seated(claimed) = Seated(rm)
    BY <1>1 DEF Seated
  <2> HIDE DEF claimed
  <2>3. CASE HandedTo(rm, p) = claimed
    BY <2>2, <2>3
  <2>4. ASSUME NEW slot \in Seated(claimed), NameOf(slot) = NameOf(p),
               HandedTo(rm, p) = Rekeyed(claimed, slot, p)
        PROVE  \A q \in Seated(rm) \ Seated(HandedTo(rm, p)) : q \notin connected
    BY <1>1, <2>2, <2>4, RekeyedSeats
  <2> QED BY <2>1, <2>3, <2>4
<1> QED BY <1>2, <1>3

LEMMA LeaveRoomSeats ==
  ASSUME IInv, NEW p \in PlayerIds, LeaveRoom(p)
  PROVE  \A q \in rooms : SeatsKept(q)
<1> DEFINE r == roomOf[p]
           left == WithoutParticipant(room[r], p)
<1>1. r \in rooms /\ r \in RoomIds /\ room[r] \in Room
  BY RoomsTyped DEF LeaveRoom
<1>2. CASE left.up = {}
  <2>1. RemoveRoom(r, connected, {}, sockets)
    BY <1>2 DEF LeaveRoom
  <2> HIDE DEF r
  <2> QED BY <1>1, <2>1, SeatsRemoved
<1>3. CASE left.up # {}
  <2>1. /\ room' = [room EXCEPT ![r] = left]
        /\ roomOf' = [roomOf EXCEPT ![p] = None] /\ connected' = connected
    BY <1>3 DEF LeaveRoom
  <2>2. \A q \in Seated(room[r]) \ Seated(left) : q = p
    <3>1. CASE p \in Seated(room[r])
      BY <1>1, <3>1, WithoutPlayerIs DEF WithoutParticipant
    <3>2. CASE p \notin Seated(room[r])
      <4>1. left.seats = room[r].seats
        BY <1>1, <3>2 DEF WithoutParticipant, Room
      <4> QED BY <4>1 DEF Seated
    <3> QED BY <3>1, <3>2
  <2>3. roomOf'[p] = None
    BY <2>1 DEF IInv, SessionInv
  <2> HIDE DEF left, r
  <2> QED BY <1>1, <2>1, <2>2, <2>3, SeatsWritten
<1> QED BY <1>2, <1>3

LEMMA CommandSeats ==
  ASSUME IInv, NEW p \in PlayerIds, Command(p)
  PROVE  \A q \in rooms : SeatsKept(q)
<1>1. CASE StartGame(p)
  <2>1. /\ roomOf[p] \in rooms /\ ~room[roomOf[p]].inGame
        /\ room' = [room EXCEPT ![roomOf[p]].inGame = TRUE]
    BY <1>1 DEF StartGame
  <2> QED BY <2>1, RoomsTyped, SeatsWritten
<1>2. CASE EndGame(p)
  BY <1>2, SeatsReset DEF EndGame
<1>3. ASSUME NEW r \in RoomIds, CreateRoom(p, r) \/ ResumeLost(p, r)
      PROVE  \A q \in rooms : SeatsKept(q)
  <2>1. r \notin rooms /\ \E after : room' = [room EXCEPT ![r] = after]
    BY <1>3 DEF CreateRoom, ResumeLost
  <2>2. \A q \in RoomIds \ {r} : room'[q] = room[q]
    BY <2>1 DEF IInv, RoomTypes
  <2> QED BY <2>1, <2>2, OtherSeats
<1>4. ASSUME NEW r \in RoomIds, JoinLobby(p, r) \/ Observe(p, r)
      PROVE  \A q \in rooms : SeatsKept(q)
  <2>1. ~room[r].inGame /\ \E after : room' = [room EXCEPT ![r] = after]
    BY <1>4 DEF JoinLobby, Observe
  <2> QED BY <2>1, SeatsWritten
<1>5. ASSUME NEW r \in RoomIds, ResumeLive(p, r)
      PROVE  \A q \in rooms : SeatsKept(q)
  <2>1. /\ p \in players /\ r \in rooms
        /\ room' = [room EXCEPT ![r] = HandedTo(room[r], p)]
    BY <1>5 DEF ResumeLive, MayResume, CanCommand
  <2> QED BY <2>1, RoomsTyped, HandedSeats, SeatsWritten
<1> QED BY <1>1, <1>2, <1>3, <1>4, <1>5, LeaveRoomSeats, RejoinSeats DEF Command

(* A changed slot is no change of seats.                                    *)
LEMMA SlotSeats ==
  ASSUME IInv, NEW r \in RoomIds, NEW after, room' = [room EXCEPT ![r] = after],
         after.seats = room[r].seats
  PROVE  \A q \in rooms : SeatsKept(q)
BY SeatsWritten DEF Seated

LEMMA WithUpSeats ==
  ASSUME NEW rm \in Room, NEW p, NEW isUp
  PROVE  WithUp(rm, p, isUp).seats = rm.seats
BY DEF WithUp, Room

LEMMA DisconnectSeats ==
  ASSUME IInv, NEW p, NEW g, Disconnect(p, g)
  PROVE  \A q \in rooms : SeatsKept(q)
<1> DEFINE r == roomOf[p]
<1>1. CASE DisconnectIgnored(p, g) \/ DisconnectRoomless(p, g)
  BY <1>1, AllSeats DEF DisconnectIgnored, DisconnectRoomless, roomVars
<1>2. CASE DisconnectInGame(p, g)
  <2>1. r \in rooms /\ room' = [room EXCEPT ![r] = WithUp(room[r], p, FALSE)]
    BY <1>2 DEF DisconnectInGame
  <2> HIDE DEF r
  <2> QED BY <2>1, RoomsTyped, WithUpSeats, SlotSeats
<1>3. CASE DisconnectLobby(p, g)
  <2>1. /\ r \in rooms /\ ~room[r].inGame
        /\ \/ RemoveRoom(r, connected \ {p}, {p}, sockets)
           \/ room' = [room EXCEPT ![r] = WithoutParticipant(room[r], p)]
    BY <1>3 DEF DisconnectLobby
  <2> HIDE DEF r
  <2> QED BY <2>1, RoomsTyped, SeatsRemoved, SeatsWritten
<1> QED BY <1>1, <1>2, <1>3 DEF Disconnect

LEMMA TimerSeats ==
  ASSUME IInv, NEW t \in timers, TimerExpires(t)
  PROVE  \A q \in rooms : SeatsKept(q)
<1>1. CASE HostNeverResumed(t)
  <2>1. t.room \in rooms /\ RemoveRoom(t.room, connected, {}, sockets)
    BY <1>1 DEF HostNeverResumed, HostStillGone
  <2> QED BY <2>1, RoomsTyped, SeatsRemoved
<1>2. CASE PeerHostLost(t)
  BY <1>2, SeatsReset DEF PeerHostLost, HostStillGone
<1>3. CASE ForfeitSeat(t)
  <2>1. /\ t.room \in rooms /\ t.player \in Seated(room[t.room])
        /\ t.player \notin connected
        /\ room' = [room EXCEPT ![t.room] = WithoutPlayer(room[t.room], t.player)]
    BY <1>3 DEF ForfeitSeat, SeatStillGone
  <2>2. Seated(room[t.room]) \ {t.player}
          \subseteq Seated(WithoutPlayer(room[t.room], t.player))
    BY <2>1, RoomsTyped, WithoutPlayerIs
  <2> QED BY <2>1, <2>2, RoomsTyped, SeatsWritten
<1>4. CASE TimerDisarmed(t)
  BY <1>4, AllSeats DEF TimerDisarmed, roomVars
<1> QED BY <1>1, <1>2, <1>3, <1>4 DEF TimerExpires

LEMMA SweepSeats ==
  ASSUME IInv, NEW r \in RoomIds, Sweep(r)
  PROVE  \A q \in rooms : SeatsKept(q)
<1>1. CASE SweepKeep(r)
  <2>1. /\ r \in rooms
        /\ room' = [room EXCEPT ![r] = [room[r] EXCEPT !.idle = Humanless(room[r])]]
    BY <1>1 DEF SweepKeep
  <2>2. [room[r] EXCEPT !.idle = Humanless(room[r])].seats = room[r].seats
    BY <2>1, RoomsTyped DEF Room
  <2> QED BY <2>1, <2>2, SlotSeats
<1>2. CASE SweepEmptyLobby(r)
  BY <1>2, SeatsRemoved DEF SweepEmptyLobby
<1>3. CASE SweepHumanless(r)
  BY <1>3, SeatsReset, SeatsRemoved DEF SweepHumanless
<1> QED BY <1>1, <1>2, <1>3 DEF Sweep

LEMMA ReclaimSeats ==
  ASSUME IInv, NEW p \in PlayerIds, Reclaim(p)
  PROVE  \A q \in rooms : SeatsKept(q)
<1>1. room' = IF roomOf[p] \in rooms
              THEN [room EXCEPT ![roomOf[p]] = WithUp(room[roomOf[p]], p, TRUE)]
              ELSE room
  BY DEF Reclaim
<1> QED BY <1>1, RoomsTyped, WithUpSeats, SlotSeats, AllSeats

LEMMA StepSeats ==
  ASSUME IInv, [Next]_vars
  PROVE  \A q \in rooms : SeatsKept(q)
<1>1. ASSUME NEW u \in Users, NewSession(u) \/ Forget(u)
      PROVE  \A q \in rooms : SeatsKept(q)
  BY <1>1, AllSeats DEF NewSession, Forget, roomVars
<1>2. CASE RelayRestart
  BY <1>2 DEF RelayRestart, SeatsKept
<1>3. CASE UNCHANGED vars
  BY <1>3, AllSeats DEF vars
<1>4. ASSUME NEW p \in PlayerIds, Reclaim(p) \/ Command(p)
      PROVE  \A q \in rooms : SeatsKept(q)
  BY <1>4, ReclaimSeats, CommandSeats
<1>5. ASSUME NEW s \in sockets, Disconnect(s[1], s[2])
      PROVE  \A q \in rooms : SeatsKept(q)
  BY <1>5, DisconnectSeats
<1>6. ASSUME NEW t \in timers, TimerExpires(t)
      PROVE  \A q \in rooms : SeatsKept(q)
  BY <1>6, TimerSeats
<1>7. ASSUME NEW r \in RoomIds, Sweep(r)
      PROVE  \A q \in rooms : SeatsKept(q)
  BY <1>7, SweepSeats
<1> QED BY <1>1, <1>2, <1>3, <1>4, <1>5, <1>6, <1>7 DEF Next

(* LiveSeatKept: no timer, rejoin, takeover or sweep takes the seat of a    *)
(* connected player out of a running game; only leaving does, in rooms of   *)
(* any kind and with commands of replaced connections (cleanup.rs:375,      *)
(* lobby.rs:320).                                                           *)
THEOREM ConnectedSeatsStay == Spec => LiveSeatKept
<1>1. IInv /\ [Next]_vars =>
        [\A r \in rooms : r \in rooms' /\ room[r].inGame /\ room'[r].inGame =>
           \A p \in Seated(room[r]) \ Seated(room'[r]) :
             p \in connected => p \in connected' /\ roomOf'[p] = None]_vars
  BY StepSeats DEF SeatsKept
<1> QED BY <1>1, Invariance, PTL DEF Spec, LiveSeatKept

----------------------------------------------------------------------------
(* Hosted rooms.  Only nodes create rooms and no person is a node; commands *)
(* of replaced connections do not come in.                                  *)

HostedOnly == Founders \subseteq Nodes /\ Humans \cap Nodes = {} /\ ~LateCommands

DistinctNames(seats) ==
  \A i, j \in DOMAIN seats : NameOf(seats[i]) = NameOf(seats[j]) => i = j

(* What every handler keeps of one room: its host, a node, is the only node *)
(* that watches; no node sits; nobody both sits and watches; names differ;  *)
(* and nobody is missed in a lobby.                                         *)
Shaped(rm) ==
  /\ rm.hosted
  /\ rm.host \in rm.watchers /\ NameOf(rm.host) \in Nodes
  /\ \A q \in rm.watchers : NameOf(q) \in Nodes => q = rm.host
  /\ \A q \in Seated(rm) : NameOf(q) \notin Nodes
  /\ Seated(rm) \cap rm.watchers = {}
  /\ DistinctNames(rm.seats)
  /\ ~rm.inGame => rm.host \in rm.up /\ Seated(rm) \subseteq rm.up

(* The slots of room r agree with the sessions: ps those there are, cn the  *)
(* connected ones, loc the room each is in.                                 *)
Backed(r, rm, ps, cn, loc) ==
  \A p \in Members(rm) : (p \in rm.up <=> p \in cn) /\ (p \in ps => loc[p] = r)

(* Everybody the game of room r misses has a timer of the right kind.       *)
Watched(r, rm, ts) ==
  rm.inGame =>
    /\ \A p \in Seated(rm) \ rm.up :
         \E t \in ts : t.kind = "seat" /\ t.room = r /\ t.player = p
    /\ rm.host \notin rm.up =>
         \E t \in ts : t.kind = "host" /\ t.room = r /\ t.player = rm.host

Rosters ==
  \A r \in rooms :
    /\ Shaped(room[r])
    /\ Backed(r, room[r], players, connected, roomOf)
    /\ Watched(r, room[r], timers)

NoPeerTimer == \A t \in timers : t.kind # "peer"

(* What a client remembers of a room: only nodes remember one, and the      *)
(* order of its game names each player once.                                *)
Remembered(u, game) ==
  /\ game.room # None => u \in Nodes
  /\ \A i, j \in DOMAIN game.order : game.order[i] = game.order[j] => i = j
  /\ \A i \in DOMAIN game.order : game.order[i] \notin Nodes

Memories == \A u \in Users : Remembered(u, snapshot[u])

RosterInv ==
  /\ IInv /\ SessionListed /\ Unplaced
  /\ Rosters /\ NoPeerTimer /\ Memories

----------------------------------------------------------------------------
(* What the operators keep of a room's shape.                               *)

LEMMA RoomSeats ==
  ASSUME NEW rm \in Room
  PROVE  /\ rm.seats \in Seq(PlayerIds) /\ Len(rm.seats) \in Nat
         /\ DOMAIN rm.seats = 1..Len(rm.seats)
         /\ \A i \in 1..Len(rm.seats) : rm.seats[i] \in Seated(rm)
BY DEF Room, Seated, Range

LEMMA ShapedWithPlayer ==
  ASSUME NEW rm \in Room, Shaped(rm), NEW p \in PlayerIds,
         NameOf(p) \notin Nodes, p \notin rm.watchers,
         \A q \in Seated(rm) : NameOf(q) # NameOf(p)
  PROVE  Shaped(WithPlayer(rm, p))
<1> DEFINE s == rm.seats
           a == Append(s, p)
<1>1. WithPlayer(rm, p).seats = a
  BY DEF WithPlayer, Room
<1>2. DistinctNames(a)
  <2>1. /\ s \in Seq(PlayerIds) /\ Len(s) \in Nat /\ DOMAIN s = 1..Len(s)
        /\ \A i \in 1..Len(s) : NameOf(s[i]) # NameOf(p)
    BY RoomSeats
  <2>2. /\ DOMAIN a = 1..Len(s) + 1 /\ a[Len(s) + 1] = p
        /\ \A i \in 1..Len(s) : a[i] = s[i]
    BY <2>1
  <2>3. \A i, j \in 1..Len(s) : NameOf(s[i]) = NameOf(s[j]) => i = j
    BY <2>1 DEF Shaped, DistinctNames
  <2> HIDE DEF a, s
  <2> SUFFICES ASSUME NEW i \in 1..Len(s) + 1, NEW j \in 1..Len(s) + 1,
                      NameOf(a[i]) = NameOf(a[j])
               PROVE  i = j
    BY <2>2 DEF DistinctNames
  <2>4. (i \in 1..Len(s) \/ i = Len(s) + 1) /\ (j \in 1..Len(s) \/ j = Len(s) + 1)
    BY <2>1
  <2> QED BY <2>1, <2>2, <2>3, <2>4
<1> HIDE DEF a
<1> QED BY <1>1, <1>2, WithPlayerIs DEF Shaped

LEMMA ShapedWithObserver ==
  ASSUME NEW rm \in Room, Shaped(rm), NEW p \in PlayerIds,
         NameOf(p) \notin Nodes, p \notin Seated(rm)
  PROVE  Shaped(WithObserver(rm, p))
BY WithObserverIs DEF Shaped, Seated

LEMMA ShapedWithUp ==
  ASSUME NEW rm \in Room, Shaped(rm), NEW p \in Members(rm)
  PROVE  /\ Shaped(WithUp(rm, p, TRUE))
         /\ rm.inGame => Shaped(WithUp(rm, p, FALSE))
<1>1. ASSUME NEW after \in Room, after.seats = rm.seats,
             after.watchers = rm.watchers, after.host = rm.host,
             after.hosted = rm.hosted, after.inGame = rm.inGame,
             rm.inGame \/ rm.up \subseteq after.up
      PROVE  Shaped(after)
  <2>1. Seated(after) = Seated(rm)
    BY <1>1 DEF Seated
  <2> QED BY <1>1, <2>1 DEF Shaped
<1>2. \A isUp : WithUp(rm, p, isUp) \in Room
  BY WithUpType DEF Members, Seated, Range, Room
<1> QED BY <1>1, <1>2, WithUpIs, WithDownIs

LEMMA ShapedWithoutPlayer ==
  ASSUME NEW rm \in Room, Shaped(rm), NEW p \in Seated(rm)
  PROVE  Shaped(WithoutPlayer(rm, p)) /\ Seated(WithoutPlayer(rm, p)) = Seated(rm) \ {p}
<1> DEFINE k == SeatIndex(rm, p)
           s == rm.seats
           left == RemoveAt(s, k)
<1>1. /\ k \in 1..Len(s) /\ s[k] = p /\ s \in Seq(PlayerIds) /\ Len(s) \in Nat
  BY SeatIndexIs
<1>2. /\ left \in Seq(PlayerIds) /\ Len(left) = Len(s) - 1
      /\ \A j \in 1..Len(s) - 1 : left[j] = IF j < k THEN s[j] ELSE s[j + 1]
  BY <1>1, RemoveAtIs
<1>3. \A i, j \in 1..Len(s) : NameOf(s[i]) = NameOf(s[j]) => i = j
  BY RoomSeats DEF Shaped, DistinctNames
<1>4. WithoutPlayer(rm, p).seats = left
  BY WithoutPlayerIs
<1>5. DOMAIN left = 1..Len(s) - 1
  BY <1>1, <1>2
<1> HIDE DEF k, s, left
<1>6. ASSUME NEW j \in 1..Len(s) - 1
      PROVE  \E i \in 1..Len(s) : left[j] = s[i] /\ i # k /\ (i = j \/ i = j + 1)
                                  /\ (i = j <=> j < k)
  <2>1. j \in 1..Len(s) /\ j + 1 \in 1..Len(s)
    BY <1>1
  <2>2. CASE j < k
    BY <1>1, <1>2, <2>1, <2>2
  <2>3. CASE ~(j < k)
    <3>1. j + 1 # k /\ j + 1 # j
      BY <1>1, <2>3
    <3> QED BY <1>2, <2>1, <2>3, <3>1
  <2> QED BY <2>2, <2>3
<1>7. DistinctNames(left)
  <2> SUFFICES ASSUME NEW i \in 1..Len(s) - 1, NEW j \in 1..Len(s) - 1,
                      NameOf(left[i]) = NameOf(left[j])
               PROVE  i = j
    BY <1>5 DEF DistinctNames
  <2>1. PICK x \in 1..Len(s) : left[i] = s[x] /\ (x = i \/ x = i + 1) /\ (x = i <=> i < k)
    BY <1>6
  <2>2. PICK y \in 1..Len(s) : left[j] = s[y] /\ (y = j \/ y = j + 1) /\ (y = j <=> j < k)
    BY <1>6
  <2>3. x = y
    BY <1>3, <2>1, <2>2
  <2> QED BY <1>1, <2>1, <2>2, <2>3
<1>8. p \notin Range(left)
  <2> SUFFICES ASSUME NEW j \in 1..Len(s) - 1, left[j] = p PROVE FALSE
    BY <1>5 DEF Range
  <2>1. PICK i \in 1..Len(s) : left[j] = s[i] /\ i # k
    BY <1>6
  <2> QED BY <1>1, <1>3, <2>1
<1>9. Seated(WithoutPlayer(rm, p)) = Seated(rm) \ {p}
  BY <1>4, <1>8, WithoutPlayerIs DEF Seated
<1>10. rm.host # p
  BY DEF Shaped
<1> QED BY <1>4, <1>7, <1>9, <1>10, WithoutPlayerIs DEF Shaped

LEMMA ShapedRekeyed ==
  ASSUME NEW rm \in Room, Shaped(rm), NEW old \in Seated(rm), NEW p \in PlayerIds,
         NameOf(old) = NameOf(p), p \notin rm.watchers, rm.inGame
  PROVE  /\ Shaped(Rekeyed(rm, old, p))
         /\ Seated(Rekeyed(rm, old, p)) = (Seated(rm) \ {old}) \cup {p}
<1> DEFINE k == SeatIndex(rm, old)
           s == rm.seats
           kept == [s EXCEPT ![k] = p]
<1>1. /\ k \in 1..Len(s) /\ s[k] = old /\ s \in Seq(PlayerIds) /\ Len(s) \in Nat
      /\ DOMAIN s = 1..Len(s)
  BY SeatIndexIs, RoomSeats
<1>2. Rekeyed(rm, old, p).seats = kept
  BY RekeyedIs
<1>3. /\ DOMAIN kept = 1..Len(s) /\ kept[k] = p
      /\ \A i \in 1..Len(s) : i # k => kept[i] = s[i]
  BY <1>1
<1>4. \A i, j \in 1..Len(s) : NameOf(s[i]) = NameOf(s[j]) => i = j
  BY <1>1 DEF Shaped, DistinctNames
<1> HIDE DEF k, s, kept
<1>5. \A i \in 1..Len(s) : NameOf(kept[i]) = NameOf(s[i])
  BY <1>1, <1>3
<1>6. DistinctNames(kept)
  BY <1>3, <1>4, <1>5 DEF DistinctNames
<1>7. old # p => old \notin Range(kept)
  BY <1>1, <1>3, <1>4 DEF Range
<1> DEFINE after == Rekeyed(rm, old, p)
<1>8. /\ (Seated(rm) \ {old}) \cup {p} \subseteq Seated(after)
      /\ Seated(after) \subseteq Seated(rm) \cup {p}
      /\ after.watchers = rm.watchers /\ after.host = rm.host
      /\ after.hosted = rm.hosted /\ after.inGame = rm.inGame
  <2>1. (Seated(rm) \ {old}) \cup {p} \subseteq Seated(after)
    BY RekeyedIs
  <2>2. Seated(after) \subseteq Seated(rm) \cup {p}
    BY RekeyedIs
  <2>3. /\ after.watchers = rm.watchers /\ after.host = rm.host
        /\ after.hosted = rm.hosted /\ after.inGame = rm.inGame
    BY DEF Rekeyed, Room
  <2> QED BY <2>1, <2>2, <2>3
<1> HIDE DEF after
<1>9. old # p => old \notin Seated(after)
  BY <1>2, <1>7 DEF Seated, after
<1>10. Seated(after) = (Seated(rm) \ {old}) \cup {p}
  BY <1>8, <1>9
<1>11. Shaped(after)
  BY <1>2, <1>6, <1>8, <1>10 DEF Shaped, after
<1> QED BY <1>10, <1>11 DEF after

LEMMA HandedIs ==
  ASSUME NEW rm \in Room, Shaped(rm), NEW p \in PlayerIds, NameOf(p) \in Nodes
  PROVE  /\ Shaped(HandedTo(rm, p))
         /\ HandedTo(rm, p).host = p
         /\ HandedTo(rm, p).seats = rm.seats
         /\ HandedTo(rm, p).watchers = (rm.watchers \ {rm.host}) \cup {p}
         /\ HandedTo(rm, p).up = (rm.up \ {rm.host}) \cup {p}
         /\ HandedTo(rm, p).inGame = rm.inGame
<1>1. rm.hosted
  BY DEF Shaped
<1>2. /\ HandedTo(rm, p).host = p
      /\ HandedTo(rm, p).hosted = rm.hosted
      /\ HandedTo(rm, p).seats = rm.seats
      /\ HandedTo(rm, p).watchers = (rm.watchers \ {rm.host}) \cup {p}
      /\ HandedTo(rm, p).up = (rm.up \ {rm.host}) \cup {p}
      /\ HandedTo(rm, p).inGame = rm.inGame
  BY <1>1, HandedHosted
<1> QED BY <1>2 DEF Shaped, Seated

LEMMA ShapedLobby ==
  ASSUME NEW rm \in Room, Shaped(rm), rm.host \in rm.up
  PROVE  Shaped(LobbyRoom(rm))
<1>1. DistinctNames(LobbyRoom(rm).seats)
  <2>1. LobbyRoom(rm).seats = << >>
    BY LobbyRoomIs
  <2>2. \A i \in DOMAIN << >> : FALSE
    OBVIOUS
  <2> QED BY <2>1, <2>2 DEF DistinctNames
<1> QED BY <1>1, LobbyRoomIs DEF Shaped

LEMMA ShapedWithout ==
  ASSUME NEW rm \in Room, Shaped(rm), NEW p \in Members(rm), p # rm.host
  PROVE  LET left == WithoutParticipant(rm, p) IN
         /\ Shaped(left)
         /\ Members(left) = Members(rm) \ {p}
         /\ Seated(left) = Seated(rm) \ {p}
         /\ left.up = rm.up \ {p}
         /\ left.host = rm.host
         /\ left.inGame = rm.inGame
<1> DEFINE left == WithoutParticipant(rm, p)
<1>1. CASE p \in Seated(rm)
  <2>1. left = WithoutPlayer(rm, p)
    BY <1>1 DEF WithoutParticipant
  <2>2. Shaped(left) /\ Seated(left) = Seated(rm) \ {p}
    BY <1>1, <2>1, ShapedWithoutPlayer
  <2>3. /\ left.watchers = rm.watchers /\ left.up = rm.up \ {p}
        /\ left.host = rm.host /\ left.inGame = rm.inGame
    BY <1>1, <2>1, WithoutPlayerIs
  <2> HIDE DEF left
  <2>4. p \notin rm.watchers
    BY <1>1 DEF Shaped
  <2>5. Members(left) = Members(rm) \ {p}
    BY <2>2, <2>3, <2>4 DEF Members
  <2> QED BY <2>2, <2>3, <2>5 DEF left
<1>2. CASE p \notin Seated(rm)
  <2>1. /\ left.seats = rm.seats /\ left.watchers = rm.watchers \ {p}
        /\ left.up = rm.up \ {p} /\ left.host = rm.host
        /\ left.hosted = rm.hosted /\ left.inGame = rm.inGame
    BY <1>2 DEF WithoutParticipant, Room
  <2> HIDE DEF left
  <2>2. Seated(left) = Seated(rm)
    BY <2>1 DEF Seated
  <2>3. Shaped(left)
    BY <1>2, <2>1, <2>2 DEF Shaped
  <2>4. Members(left) = Members(rm) \ {p}
    BY <1>2, <2>1, <2>2 DEF Members
  <2> QED BY <1>2, <2>1, <2>2, <2>3, <2>4 DEF left
<1> QED BY <1>1, <1>2

----------------------------------------------------------------------------
(* A handler works on one room r.  The rooms besides it, the sessions in    *)
(* them and their timers stay as they are.                                  *)

RoomsStay(r) == \A q \in rooms' \ {r} : q \in rooms /\ room'[q] = room[q]

SessionsStay(r) ==
  /\ \A p \in players : roomOf[p] \notin {None, r} =>
       /\ p \in players' /\ roomOf'[p] = roomOf[p]
       /\ p \in connected' <=> p \in connected
  /\ \A p \in players' \ players : ~Referenced(p)

TimersStay(r) ==
  \A t \in timers :
    /\ t.room # r /\ t.room \in rooms'
    /\ t.player \in Seated(room'[t.room]) \cup {room'[t.room].host}
    => t \in timers'

LEMMA RosterStep ==
  ASSUME RosterInv, IInv', NEW r, RoomsStay(r), SessionsStay(r), TimersStay(r),
         r \in rooms' =>
           /\ Shaped(room'[r])
           /\ Backed(r, room'[r], players', connected', roomOf')
           /\ Watched(r, room'[r], timers')
  PROVE  Rosters'
<1> SUFFICES ASSUME NEW q \in rooms', q # r
             PROVE  /\ Shaped(room'[q])
                    /\ Backed(q, room'[q], players', connected', roomOf')
                    /\ Watched(q, room'[q], timers')
  BY DEF Rosters
<1>1. /\ q \in rooms /\ room'[q] = room[q] /\ q # None /\ Shaped(room[q])
      /\ Backed(q, room[q], players, connected, roomOf)
      /\ Watched(q, room[q], timers)
  BY NoneAssumption DEF RoomsStay, RosterInv, Rosters, IInv, RoomTypes
<1>2. connected \subseteq players /\ connected' \subseteq players'
  BY DEF RosterInv, IInv, SessionInv
<1>3. \A p \in Members(room[q]) : p \notin players => p \notin players'
  BY <1>1 DEF SessionsStay, Referenced
<1>4. \A p \in Members(room[q]) : p \in players =>
        p \in players' /\ roomOf'[p] = q /\ (p \in connected' <=> p \in connected)
  BY <1>1 DEF SessionsStay, Backed
<1>5. Backed(q, room[q], players', connected', roomOf')
  BY <1>1, <1>2, <1>3, <1>4 DEF Backed
<1>6. Watched(q, room[q], timers')
  <2>1. \A t \in timers :
          t.room = q /\ t.player \in Seated(room[q]) \cup {room[q].host} => t \in timers'
    BY <1>1 DEF TimersStay
  <2> QED BY <1>1, <2>1 DEF Watched
<1> QED BY <1>1, <1>5, <1>6

LEMMA SleepingStay ==
  ASSUME NEW r, NEW set, Sleeping(set), \A t \in timers \ set : t.room = r
  PROVE  TimersStay(r)
BY DEF Sleeping, TimersStay

LEMMA SleepingOwn ==
  ASSUME NEW r, r \in rooms', NEW set, Sleeping(set)
  PROVE  \A t \in set : /\ t.room = r
                        /\ t.player \in Seated(room'[r]) \cup {room'[r].host}
                        => t \in timers'
BY DEF Sleeping

(* Whoever is missed now was missed before, and the timer is still there.   *)
LEMMA WatchedKept ==
  ASSUME NEW r, NEW rm, NEW after, Watched(r, rm, timers),
         after.inGame => rm.inGame,
         Seated(after) \ after.up \subseteq Seated(rm) \ rm.up,
         after.host \in after.up \/ (after.host = rm.host /\ rm.host \notin rm.up),
         \A t \in timers :
           /\ t.room = r
           /\ \/ t.kind = "seat" /\ t.player \in Seated(after) \ after.up
              \/ t.kind = "host" /\ t.player = after.host
           => t \in timers'
  PROVE  Watched(r, after, timers')
BY DEF Watched

LEMMA RoomFacts ==
  ASSUME RosterInv, NEW r \in rooms
  PROVE  /\ r \in RoomIds /\ r # None /\ room[r] \in Room
         /\ Shaped(room[r])
         /\ Backed(r, room[r], players, connected, roomOf)
         /\ Watched(r, room[r], timers)
         /\ Members(room[r]) \subseteq PlayerIds
         /\ room[r].host \in Members(room[r])
         /\ \A p \in players : p \in Members(room[r]) <=> roomOf[p] = r
<1>1. /\ r \in RoomIds /\ r # None /\ room[r] \in Room
      /\ Shaped(room[r])
      /\ Backed(r, room[r], players, connected, roomOf)
      /\ Watched(r, room[r], timers)
  BY NoneAssumption DEF RosterInv, Rosters, IInv, RoomTypes
<1>2. Members(room[r]) \subseteq PlayerIds
  BY <1>1 DEF Members, Seated, Range, Room
<1>3. room[r].host \in Members(room[r])
  BY <1>1 DEF Shaped, Members
<1>4. \A p \in players : p \in Members(room[r]) <=> roomOf[p] = r
  BY <1>1, <1>3 DEF Backed, RosterInv, SessionListed
<1> QED BY <1>1, <1>2, <1>3, <1>4

----------------------------------------------------------------------------
(* Teardown and reset.                                                      *)

LEMMA RemoveRoomRosters ==
  ASSUME RosterInv, IInv', NEW r \in RoomIds, NEW live, NEW others, NEW tasks,
         \A p \in players \cap others : roomOf[p] = r,
         \A p \in players \ others : p \in live <=> p \in connected,
         RemoveRoom(r, live, others, tasks), TimersStay(r)
  PROVE  Rosters'
<1>1. IInv
  BY DEF RosterInv
<1>2. /\ rooms' = rooms \ {r}
      /\ \A q \in RoomIds \ {r} : room'[q] = room[q]
      /\ players' \subseteq players
      /\ connected' = live \cap players'
      /\ \A p \in players \ others : roomOf[p] # r =>
           p \in players' /\ roomOf'[p] = roomOf[p]
  BY <1>1, RemoveRoomLeaves
<1>3. RoomsStay(r)
  BY <1>1, <1>2 DEF RoomsStay, IInv, RoomTypes
<1>4. SessionsStay(r)
  BY <1>2 DEF SessionsStay
<1> QED BY <1>2, <1>3, <1>4, RosterStep

LEMMA ResetRosters ==
  ASSUME RosterInv, IInv', NEW r \in rooms, ResetToLobby(r), TimersStay(r),
         room[r].host \in room[r].up
  PROVE  Rosters'
<1>1. IInv
  BY DEF RosterInv
<1>2. /\ r \in RoomIds /\ r # None /\ room[r] \in Room
      /\ Shaped(room[r])
      /\ Backed(r, room[r], players, connected, roomOf)
      /\ \A p \in players : p \in Members(room[r]) <=> roomOf[p] = r
  BY RoomFacts
<1>3. /\ rooms' = rooms
      /\ room' = [room EXCEPT ![r] = LobbyRoom(@)]
      /\ players' \subseteq players
      /\ connected' = connected \cap players'
      /\ \A p \in players \ Seated(room[r]) : p \in players' /\ roomOf'[p] = roomOf[p]
  BY <1>1, <1>2, ResetLeaves
<1>4. room'[r] = LobbyRoom(room[r]) /\ \A q \in rooms \ {r} : room'[q] = room[q]
  BY <1>1, <1>3 DEF IInv, RoomTypes
<1>5. RoomsStay(r)
  BY <1>3, <1>4 DEF RoomsStay
<1>6. SessionsStay(r)
  BY <1>2, <1>3 DEF SessionsStay, Members
<1>7. Shaped(room'[r])
  BY <1>2, <1>4, ShapedLobby
<1>8. Backed(r, room'[r], players', connected', roomOf')
  <2>1. /\ Members(room'[r]) = room[r].watchers
        /\ room'[r].up = room[r].up \cap room[r].watchers
    BY <1>2, <1>4, LobbyRoomIs DEF Members
  <2>2. \A p \in room[r].watchers : p \notin Seated(room[r]) /\ p \in Members(room[r])
    BY <1>2 DEF Shaped, Members
  <2>3. connected \subseteq players
    BY <1>1 DEF IInv, SessionInv
  <2> QED BY <1>2, <1>3, <2>1, <2>2, <2>3 DEF Backed
<1>9. Watched(r, room'[r], timers')
  BY <1>2, <1>4, LobbyRoomIs DEF Watched
<1> QED BY <1>5, <1>6, <1>7, <1>8, <1>9, RosterStep

----------------------------------------------------------------------------
(* Commands: one connected session p acts on room r.                        *)

LEMMA Commander ==
  ASSUME RosterInv, HostedOnly, NEW p \in PlayerIds, CanCommand(p)
  PROVE  /\ IInv /\ p \in players /\ p \in connected
         /\ connected \subseteq players /\ players \subseteq PlayerIds
<1>1. IInv
  BY DEF RosterInv
<1>2. p \in players /\ p \in connected
  BY <1>1, CommandFacts DEF HostedOnly
<1> QED BY <1>1, <1>2 DEF IInv, SessionInv

LEMMA Moved ==
  ASSUME IInv, NEW p \in players, NEW r
  PROVE  /\ [roomOf EXCEPT ![p] = r][p] = r
         /\ \A q \in players \ {p} : [roomOf EXCEPT ![p] = r][q] = roomOf[q]
BY DEF IInv, SessionInv

LEMMA CreateRoomRosters ==
  ASSUME RosterInv, IInv', HostedOnly, NEW p \in PlayerIds, NEW r \in RoomIds,
         CreateRoom(p, r)
  PROVE  Rosters'
<1>1. /\ IInv /\ p \in players /\ p \in connected
  BY Commander DEF CreateRoom
<1>0. /\ [roomOf EXCEPT ![p] = r][p] = r
      /\ \A q \in players \ {p} : [roomOf EXCEPT ![p] = r][q] = roomOf[q]
  BY <1>1, Moved
<1>2. NameOf(p) \in Nodes
  BY DEF CreateRoom, HostedOnly
<1> DEFINE after == NewRoom(p, TRUE, FALSE, << >>)
<1>3. /\ rooms' = rooms \cup {r} /\ r \notin rooms
      /\ room' = [room EXCEPT ![r] = after]
      /\ roomOf' = [roomOf EXCEPT ![p] = r] /\ roomOf[p] = None
      /\ UNCHANGED <<players, connected, timers>>
  BY <1>2 DEF CreateRoom
<1>4. /\ after.host = p /\ after.hosted /\ ~after.inGame /\ after.watchers = {p}
      /\ after.up = {p} /\ Seated(after) = {} /\ DistinctNames(after.seats)
  <2>1. \A i \in DOMAIN << >> : FALSE
    OBVIOUS
  <2>2. after.seats = << >>
    BY DEF NewRoom
  <2> QED BY <2>1, <2>2 DEF NewRoom, Seated, Range, DistinctNames
<1> HIDE DEF after
<1>5. room'[r] = after /\ RoomsStay(r)
  BY <1>1, <1>3 DEF IInv, RoomTypes, RoomsStay
<1>6. SessionsStay(r) /\ TimersStay(r)
  BY <1>0, <1>1, <1>3 DEF SessionsStay, TimersStay
<1>7. Shaped(after) /\ Backed(r, after, players', connected', roomOf')
      /\ Watched(r, after, timers')
  BY <1>0, <1>1, <1>2, <1>3, <1>4 DEF Shaped, Backed, Watched, Members
<1> QED BY <1>5, <1>6, <1>7, RosterStep

LEMMA EnterRosters ==
  ASSUME RosterInv, IInv', HostedOnly, NEW p \in PlayerIds, NEW r \in RoomIds,
         JoinLobby(p, r) \/ Observe(p, r)
  PROVE  Rosters'
<1> DEFINE rm == room[r]
           after == IF JoinLobby(p, r) THEN WithPlayer(rm, p) ELSE WithObserver(rm, p)
<1>1. /\ IInv /\ p \in players /\ p \in connected /\ connected \subseteq players
  BY Commander DEF JoinLobby, Observe
<1>0. /\ [roomOf EXCEPT ![p] = r][p] = r
      /\ \A q \in players \ {p} : [roomOf EXCEPT ![p] = r][q] = roomOf[q]
  BY <1>1, Moved
<1>2. /\ rooms' = rooms /\ r \in rooms
      /\ room' = [room EXCEPT ![r] = after]
      /\ roomOf' = [roomOf EXCEPT ![p] = r] /\ roomOf[p] = None
      /\ UNCHANGED <<players, connected, timers>>
      /\ ~rm.inGame /\ NameOf(p) \notin Nodes
  BY DEF JoinLobby, Observe, HostedOnly
<1>3. /\ rm \in Room /\ r # None /\ Shaped(rm)
      /\ Backed(r, rm, players, connected, roomOf)
      /\ p \notin Members(rm)
  BY <1>1, <1>2, RoomFacts
<1>4. \A q \in Seated(rm) : NameOf(q) # NameOf(p)
  <2>1. \A q \in Seated(rm) : q \in players /\ q # p
    BY <1>1, <1>2, <1>3 DEF Shaped, Backed, Members
  <2> QED BY <1>1, <2>1 DEF IInv, OneSessionPerName
<1>5. /\ Shaped(after) /\ Members(after) = Members(rm) \cup {p}
      /\ after.up = rm.up \cup {p} /\ ~after.inGame
  <2>1. CASE JoinLobby(p, r)
    <3>1. after = WithPlayer(rm, p)
      BY <2>1
    <3> QED BY <1>2, <1>3, <1>4, <3>1, ShapedWithPlayer, WithPlayerIs DEF Members
  <2>2. CASE ~JoinLobby(p, r)
    <3>1. after = WithObserver(rm, p)
      BY <2>2
    <3> QED BY <1>2, <1>3, <3>1, ShapedWithObserver, WithObserverIs
            DEF Members, Seated
  <2> QED BY <2>1, <2>2
<1> HIDE DEF after
<1>6. room'[r] = after /\ RoomsStay(r)
  BY <1>1, <1>2 DEF IInv, RoomTypes, RoomsStay
<1>7. SessionsStay(r) /\ TimersStay(r)
  BY <1>0, <1>1, <1>2 DEF SessionsStay, TimersStay
<1> HIDE DEF rm
<1>8. Backed(r, after, players', connected', roomOf')
  BY <1>0, <1>1, <1>2, <1>3, <1>5 DEF Backed
<1>9. Watched(r, after, timers')
  BY <1>5 DEF Watched
<1> QED BY <1>5, <1>6, <1>7, <1>8, <1>9, RosterStep

LEMMA RejoinRosters ==
  ASSUME RosterInv, IInv', HostedOnly, NEW p \in PlayerIds, NEW r \in RoomIds,
         Rejoin(p, r)
  PROVE  Rosters'
<1> DEFINE rm == room[r]
<1>1. /\ IInv /\ p \in players /\ p \in connected /\ connected \subseteq players
  BY Commander DEF Rejoin
<1>0. /\ [roomOf EXCEPT ![p] = r][p] = r
      /\ \A q \in players \ {p} : [roomOf EXCEPT ![p] = r][q] = roomOf[q]
  BY <1>1, Moved
<1>2. PICK i \in DOMAIN rm.seats :
        /\ NameOf(rm.seats[i]) = NameOf(p) /\ rm.seats[i] \notin rm.up
        /\ room' = [room EXCEPT ![r] = Rekeyed(@, rm.seats[i], p)]
  BY DEF Rejoin
<1> DEFINE old == rm.seats[i]
           after == Rekeyed(rm, old, p)
<1>3. /\ rooms' = rooms /\ r \in rooms
      /\ roomOf' = [roomOf EXCEPT ![p] = r] /\ roomOf[p] = None
      /\ UNCHANGED <<players, connected>> /\ Sleeping(timers)
      /\ rm.inGame /\ NameOf(p) \notin Nodes
  BY DEF Rejoin
<1>4. /\ rm \in Room /\ r # None /\ Shaped(rm)
      /\ Backed(r, rm, players, connected, roomOf) /\ Watched(r, rm, timers)
      /\ p \notin Members(rm)
  BY <1>1, <1>3, RoomFacts
<1>5. old \in Seated(rm) /\ p \notin rm.watchers /\ p # old
  BY <1>4 DEF Seated, Range, Members
<1>6. /\ Shaped(after) /\ Seated(after) = (Seated(rm) \ {old}) \cup {p}
      /\ after.watchers = rm.watchers /\ after.up = (rm.up \ {old}) \cup {p}
      /\ after.host = rm.host /\ after.inGame = rm.inGame
  <2>1. Shaped(after) /\ Seated(after) = (Seated(rm) \ {old}) \cup {p}
    BY <1>2, <1>3, <1>4, <1>5, ShapedRekeyed
  <2>2. /\ after.watchers = rm.watchers /\ after.up = (rm.up \ {old}) \cup {p}
        /\ after.host = rm.host /\ after.inGame = rm.inGame
    BY <1>4 DEF Rekeyed, Room
  <2> QED BY <2>1, <2>2
<1>7. room'[r] = after /\ RoomsStay(r)
  BY <1>1, <1>2, <1>3 DEF IInv, RoomTypes, RoomsStay
<1> HIDE DEF old, after
<1>8. SessionsStay(r)
  BY <1>0, <1>1, <1>3 DEF SessionsStay
<1>9. TimersStay(r)
  BY <1>3, SleepingStay
<1>10. Members(after) = (Members(rm) \ {old}) \cup {p}
  <2>1. old \notin rm.watchers
    BY <1>4, <1>5 DEF Shaped
  <2> QED BY <1>6, <2>1 DEF Members
<1> HIDE DEF rm
<1>11. Backed(r, after, players', connected', roomOf')
  BY <1>0, <1>1, <1>3, <1>4, <1>6, <1>10 DEF Backed
<1>12. \A t \in timers : t.room = r /\ t.player \in Seated(after) \cup {after.host}
                         => t \in timers'
  BY <1>3, <1>7, SleepingOwn
<1>13. Watched(r, after, timers')
  <2>1. after.host \in after.up \/ rm.host \notin rm.up
    BY <1>4, <1>5, <1>6 DEF Shaped
  <2>2. Seated(after) \ after.up \subseteq Seated(rm) \ rm.up
    BY <1>6
  <2> QED BY <1>3, <1>4, <1>6, <1>12, <2>1, <2>2, WatchedKept
<1> QED BY <1>6, <1>7, <1>8, <1>9, <1>11, <1>13, RosterStep

LEMMA LeaveRoomRosters ==
  ASSUME RosterInv, IInv', HostedOnly, NEW p \in PlayerIds, LeaveRoom(p)
  PROVE  Rosters'
<1> DEFINE r == roomOf[p]
           rm == room[r]
           after == WithoutParticipant(rm, p)
<1>1. /\ IInv /\ p \in players /\ p \in connected /\ connected \subseteq players
  BY Commander DEF LeaveRoom
<1>0. /\ [roomOf EXCEPT ![p] = None][p] = None
      /\ \A q \in players \ {p} : [roomOf EXCEPT ![p] = None][q] = roomOf[q]
  BY <1>1, Moved
<1>2. r \in rooms /\ Sleeping(timers) /\ NameOf(p) \notin Nodes
  BY DEF LeaveRoom
<1>3. /\ r \in RoomIds /\ rm \in Room /\ r # None /\ Shaped(rm)
      /\ Backed(r, rm, players, connected, roomOf) /\ Watched(r, rm, timers)
      /\ p \in Members(rm)
  BY <1>1, <1>2, RoomFacts
<1>4. p # rm.host
  BY <1>2, <1>3 DEF Shaped
<1>5. TimersStay(r)
  BY <1>2, SleepingStay
<1>6. CASE after.up = {}
  <2>1. RemoveRoom(r, connected, {}, sockets)
    BY <1>6 DEF LeaveRoom
  <2> HIDE DEF r
  <2> QED BY <1>3, <1>5, <2>1, RemoveRoomRosters
<1>7. CASE after.up # {}
  <2>1. /\ room' = [room EXCEPT ![r] = after] /\ rooms' = rooms
        /\ roomOf' = [roomOf EXCEPT ![p] = None]
        /\ UNCHANGED <<players, connected>>
    BY <1>7 DEF LeaveRoom
  <2>2. /\ Shaped(after) /\ Members(after) = Members(rm) \ {p}
        /\ Seated(after) = Seated(rm) \ {p} /\ after.up = rm.up \ {p}
        /\ after.host = rm.host /\ after.inGame = rm.inGame
    BY <1>3, <1>4, ShapedWithout
  <2> HIDE DEF after
  <2>3. room'[r] = after /\ RoomsStay(r)
    BY <1>1, <1>3, <2>1 DEF IInv, RoomTypes, RoomsStay
  <2>4. SessionsStay(r)
    BY <1>0, <1>1, <2>1 DEF SessionsStay
  <2> HIDE DEF rm, r
  <2>5. Backed(r, after, players', connected', roomOf')
    BY <1>0, <1>1, <1>3, <2>1, <2>2 DEF Backed
  <2>6. \A t \in timers : t.room = r /\ t.player \in Seated(after) \cup {after.host}
                          => t \in timers'
    BY <1>2, <2>1, <2>3, SleepingOwn
  <2>7. Watched(r, after, timers')
    <3>1. after.host \in after.up \/ rm.host \notin rm.up
      BY <1>4, <2>2
    <3> QED BY <1>3, <2>2, <2>6, <3>1, WatchedKept
  <2> QED BY <1>5, <2>2, <2>3, <2>4, <2>5, <2>7, RosterStep
<1> QED BY <1>6, <1>7

LEMMA StartGameRosters ==
  ASSUME RosterInv, IInv', HostedOnly, NEW p \in PlayerIds, StartGame(p)
  PROVE  Rosters'
<1> DEFINE r == roomOf[p]
           rm == room[r]
           after == [rm EXCEPT !.inGame = TRUE]
<1>1. /\ r \in rooms /\ ~rm.inGame /\ rooms' = rooms
      /\ room' = [room EXCEPT ![r] = after]
      /\ UNCHANGED <<players, connected, roomOf, timers>>
  BY DEF StartGame, sessionVars
<1>2. /\ r \in RoomIds /\ rm \in Room /\ Shaped(rm)
      /\ Backed(r, rm, players, connected, roomOf)
  BY <1>1, RoomFacts
<1>3. /\ after.seats = rm.seats /\ after.watchers = rm.watchers
      /\ after.up = rm.up /\ after.host = rm.host /\ after.hosted = rm.hosted
      /\ after.inGame
  BY <1>2 DEF Room
<1> HIDE DEF after
<1>4. Seated(after) = Seated(rm) /\ Members(after) = Members(rm)
  BY <1>3 DEF Seated, Members
<1>5. /\ Shaped(after) /\ Backed(r, after, players', connected', roomOf')
      /\ Watched(r, after, timers')
  <2>1. Shaped(after)
    BY <1>2, <1>3, <1>4 DEF Shaped
  <2>2. rm.host \in rm.up /\ Seated(rm) \subseteq rm.up
    BY <1>1, <1>2 DEF Shaped
  <2> QED BY <1>1, <1>2, <1>3, <1>4, <2>1, <2>2 DEF Backed, Watched
<1>6. room'[r] = after /\ RoomsStay(r)
  BY <1>1 DEF RosterInv, IInv, RoomTypes, RoomsStay
<1>7. SessionsStay(r) /\ TimersStay(r)
  BY <1>1 DEF SessionsStay, TimersStay
<1> HIDE DEF r
<1> QED BY <1>5, <1>6, <1>7, RosterStep

LEMMA EndGameRosters ==
  ASSUME RosterInv, IInv', HostedOnly, NEW p \in PlayerIds, EndGame(p)
  PROVE  Rosters'
<1> DEFINE r == roomOf[p]
<1>1. p \in players /\ p \in connected
  BY Commander DEF EndGame
<1>2. r \in rooms /\ room[r].host = p /\ ResetToLobby(r) /\ Sleeping(timers)
  BY DEF EndGame
<1>3. room[r].host \in room[r].up
  BY <1>1, <1>2, RoomFacts DEF Backed
<1>4. TimersStay(r)
  BY <1>2, SleepingStay
<1> HIDE DEF r
<1> QED BY <1>2, <1>3, <1>4, ResetRosters

LEMMA ResumeLiveRosters ==
  ASSUME RosterInv, IInv', HostedOnly, NEW p \in PlayerIds, NEW r \in RoomIds,
         ResumeLive(p, r)
  PROVE  Rosters'
<1> DEFINE rm == room[r]
           h == rm.host
           gone == IF h = p THEN {} ELSE {h}
           location == [roomOf EXCEPT ![p] = r]
           after == HandedTo(rm, p)
<1>1. /\ IInv /\ p \in players /\ p \in connected /\ connected \subseteq players
  BY Commander DEF ResumeLive, MayResume
<1>2. location[p] = r /\ \A q \in players \ {p} : location[q] = roomOf[q]
  BY <1>1, Moved
<1>3. /\ r \in rooms /\ rooms' = rooms /\ room' = [room EXCEPT ![r] = after]
      /\ Sessions(players \ gone, connected, location, sockets)
      /\ roomOf[p] \in {None, r} /\ Sleeping(timers)
  BY DEF ResumeLive, MayResume
<1>4. NameOf(p) \in Nodes
  <2>1. snapshot[NameOf(p)].room = r
    BY DEF ResumeLive, MayResume
  <2> QED BY <2>1, NameOfType, NoneAssumption DEF RosterInv, Memories, Remembered
<1>5. /\ rm \in Room /\ r # None /\ Shaped(rm)
      /\ Backed(r, rm, players, connected, roomOf) /\ Watched(r, rm, timers)
      /\ \A q \in players : q \in Members(rm) <=> roomOf[q] = r
      /\ h \in Members(rm)
  BY <1>3, RoomFacts
<1>6. /\ Shaped(after) /\ after.host = p /\ after.seats = rm.seats
      /\ after.watchers = (rm.watchers \ {h}) \cup {p}
      /\ after.up = (rm.up \ {h}) \cup {p} /\ after.inGame = rm.inGame
  BY <1>4, <1>5, HandedIs
<1>7. \A q \in Seated(rm) : q # p /\ q # h
  BY <1>4, <1>5 DEF Shaped
<1>8. p \notin gone /\ \A q \in players \ gone : q = p \/ q # h
  OBVIOUS
<1>9. \A q \in gone : q = h
  OBVIOUS
<1> HIDE DEF after, location, gone
<1>10. /\ players' = players \ gone /\ connected' = connected \cap players'
       /\ \A q \in players' : roomOf'[q] = location[q]
  BY <1>1, <1>3, DropLeaves
<1>11. room'[r] = after /\ RoomsStay(r)
  BY <1>1, <1>3 DEF IInv, RoomTypes, RoomsStay
<1>12. SessionsStay(r)
  BY <1>2, <1>3, <1>5, <1>9, <1>10 DEF SessionsStay
<1>13. TimersStay(r)
  BY <1>3, SleepingStay
<1>14. Seated(after) = Seated(rm)
  BY <1>6 DEF Seated
<1>15. Backed(r, after, players', connected', roomOf')
  <2> SUFFICES ASSUME NEW q \in Members(after)
               PROVE  /\ q \in after.up <=> q \in connected'
                      /\ q \in players' => roomOf'[q] = r
    BY DEF Backed
  <2>1. CASE q = p
    BY <1>1, <1>2, <1>6, <1>8, <1>10, <2>1
  <2>2. CASE q # p
    <3>1. q \in Members(rm) /\ q # h
      BY <1>6, <1>7, <1>14, <2>2 DEF Members
    <3>2. (q \in rm.up <=> q \in connected) /\ (q \in players => roomOf[q] = r)
      BY <1>5, <3>1 DEF Backed
    <3>3. (q \in after.up <=> q \in rm.up) /\ (q \in connected' <=> q \in connected)
      BY <1>1, <1>6, <1>9, <1>10, <2>2, <3>1
    <3> QED BY <1>2, <1>10, <2>2, <3>2, <3>3
  <2> QED BY <2>1, <2>2
<1>16. \A t \in timers : t.room = r /\ t.player \in Seated(after) \cup {after.host}
                         => t \in timers'
  BY <1>3, <1>11, SleepingOwn
<1>17. Watched(r, after, timers')
  <2>1. Seated(after) \ after.up \subseteq Seated(rm) \ rm.up
    BY <1>6, <1>7, <1>14
  <2> HIDE DEF rm, h
  <2> QED BY <1>5, <1>6, <1>16, <2>1, WatchedKept
<1> QED BY <1>6, <1>11, <1>12, <1>13, <1>15, <1>17, RosterStep

(* The rebuilt room seats ids nobody has: names differ as they did in the   *)
(* remembered order.                                                        *)
LEMMA ResumeLostRosters ==
  ASSUME RosterInv, IInv', HostedOnly, NEW p \in PlayerIds, NEW r \in RoomIds,
         ResumeLost(p, r)
  PROVE  Rosters'
<1> DEFINE order == snapshot[NameOf(p)].order
<1>1. /\ IInv /\ p \in players /\ p \in connected /\ connected \subseteq players
  BY Commander DEF ResumeLost, MayResume
<1>2. [roomOf EXCEPT ![p] = r][p] = r
      /\ \A q \in players \ {p} : [roomOf EXCEPT ![p] = r][q] = roomOf[q]
  BY <1>1, Moved
<1>3. NameOf(p) \in Nodes /\ NameOf(p) \in Users
  <2>1. snapshot[NameOf(p)].room = r
    BY DEF ResumeLost, MayResume
  <2> QED BY <2>1, NameOfType, NoneAssumption DEF RosterInv, Memories, Remembered
<1>4. /\ order \in Seq(Users)
      /\ \A i, j \in DOMAIN order : order[i] = order[j] => i = j
      /\ \A i \in DOMAIN order : order[i] \notin Nodes
  BY <1>1, <1>3 DEF RosterInv, Memories, Remembered, IInv, SnapshotTypes
<1>5. /\ rooms' = rooms \cup {r} /\ r \notin rooms
      /\ roomOf' = [roomOf EXCEPT ![p] = r] /\ roomOf[p] \in {None, r}
      /\ UNCHANGED <<players, connected>>
  BY DEF ResumeLost, MayResume
<1>6. PICK seats \in RebuiltSeats(p, order) :
        /\ room' = [room EXCEPT ![r] = NewRoom(p, NameOf(p) \in Nodes, TRUE, seats)]
        /\ timers' = timers \cup {Grace("seat", r, q, 0) : q \in Range(seats) \ {p}}
  BY DEF ResumeLost
<1> DEFINE after == NewRoom(p, TRUE, TRUE, seats)
<1>7. room' = [room EXCEPT ![r] = after]
  <2>1. (NameOf(p) \in Nodes) = TRUE
    BY <1>3
  <2> QED BY <1>6, <2>1
<1> HIDE DEF order
<1>8. /\ DOMAIN seats = DOMAIN order
      /\ \A i \in DOMAIN order :
           IF order[i] = NameOf(p) /\ NameOf(p) \notin Nodes
           THEN seats[i] = p
           ELSE NameOf(seats[i]) = order[i] /\ seats[i] \notin players
  BY <1>4, <1>6, RebuiltSeatsAre
<1>9. \A i \in DOMAIN seats : /\ NameOf(seats[i]) = order[i]
                              /\ seats[i] \notin players
  BY <1>3, <1>8
<1>10. /\ after.host = p /\ after.hosted = TRUE /\ after.inGame = TRUE
       /\ after.watchers = {p} /\ after.up = {p} /\ after.seats = seats
  BY DEF NewRoom
<1> HIDE DEF after
<1>11. \A q \in Seated(after) : q \notin players /\ q # p /\ NameOf(q) \notin Nodes
  BY <1>1, <1>4, <1>8, <1>9, <1>10 DEF Seated, Range
<1>12. Shaped(after)
  <2>1. DistinctNames(seats)
    BY <1>4, <1>8, <1>9 DEF DistinctNames
  <2> QED BY <1>3, <1>10, <1>11, <2>1 DEF Shaped
<1>13. room'[r] = after /\ RoomsStay(r)
  BY <1>1, <1>5, <1>7 DEF IInv, RoomTypes, RoomsStay
<1>14. SessionsStay(r) /\ TimersStay(r)
  BY <1>2, <1>5, <1>6 DEF SessionsStay, TimersStay
<1>15. Backed(r, after, players', connected', roomOf')
  BY <1>1, <1>2, <1>5, <1>10, <1>11 DEF Backed, Members
<1>16. Watched(r, after, timers')
  <2> SUFFICES ASSUME NEW q \in Seated(after)
               PROVE  \E t \in timers' : t.kind = "seat" /\ t.room = r /\ t.player = q
    BY <1>10 DEF Watched
  <2>1. q \in Range(seats) \ {p}
    BY <1>10, <1>11 DEF Seated
  <2>2. Grace("seat", r, q, 0) \in timers'
    BY <1>6, <2>1
  <2> QED BY <2>2 DEF Grace
<1> QED BY <1>12, <1>13, <1>14, <1>15, <1>16, RosterStep

----------------------------------------------------------------------------
(* Disconnects.                                                             *)

(* A handler that changes no roster and no timer but those that are void.   *)
LEMMA SameRosters ==
  ASSUME RosterInv, IInv', UNCHANGED <<rooms, room>>,
         SessionsStay(None), TimersStay(None)
  PROVE  Rosters'
<1>1. RoomsStay(None) /\ None \notin rooms'
  BY NoneAssumption DEF RoomsStay, RosterInv, IInv, RoomTypes
<1> QED BY <1>1, RosterStep

LEMMA DisconnectInGameRosters ==
  ASSUME RosterInv, IInv', NEW p, NEW g, DisconnectInGame(p, g)
  PROVE  Rosters'
<1> DEFINE r == roomOf[p]
           rm == room[r]
           after == WithUp(rm, p, FALSE)
<1>1. /\ IInv /\ p \in players /\ connected \subseteq players
  BY DEF DisconnectInGame, Current, RosterInv, IInv, SessionInv
<1>2. /\ r \in rooms /\ rm.inGame /\ rooms' = rooms
      /\ room' = [room EXCEPT ![r] = after]
      /\ connected' = connected \ {p}
      /\ timers' = timers \cup {Grace(k, r, p, g) : k \in GraceKinds(rm, p)}
      /\ UNCHANGED <<players, roomOf>>
  BY DEF DisconnectInGame
<1>3. /\ r \in RoomIds /\ rm \in Room /\ Shaped(rm) /\ p \in Members(rm)
      /\ Backed(r, rm, players, connected, roomOf) /\ Watched(r, rm, timers)
  BY <1>1, <1>2, RoomFacts
<1>4. /\ after.seats = rm.seats /\ after.watchers = rm.watchers
      /\ after.up = rm.up \ {p} /\ after.host = rm.host
      /\ after.inGame = rm.inGame
  BY <1>3, WithDownIs
<1>5. Shaped(after)
  BY <1>2, <1>3, ShapedWithUp
<1> HIDE DEF after
<1>6. Seated(after) = Seated(rm) /\ Members(after) = Members(rm)
  BY <1>4 DEF Seated, Members
<1>7. room'[r] = after /\ RoomsStay(r)
  BY <1>1, <1>2 DEF IInv, RoomTypes, RoomsStay
<1>8. SessionsStay(r) /\ TimersStay(r)
  BY <1>2 DEF SessionsStay, TimersStay
<1>9. Backed(r, after, players', connected', roomOf')
  BY <1>2, <1>3, <1>4, <1>6 DEF Backed
<1>10. Watched(r, after, timers')
  <2>1. ASSUME NEW q \in Seated(rm), q \notin rm.up \ {p}
        PROVE  \E t \in timers' : t.kind = "seat" /\ t.room = r /\ t.player = q
    <3>1. CASE q = p
      <4>1. p # rm.host
        BY <1>3, <2>1, <3>1 DEF Shaped
      <4>2. "seat" \in GraceKinds(rm, p)
        BY <2>1, <3>1, <4>1 DEF GraceKinds
      <4>3. Grace("seat", r, p, g) \in timers'
        BY <1>2, <4>2
      <4> QED BY <3>1, <4>3 DEF Grace
    <3>2. CASE q # p
      BY <1>2, <1>3, <2>1, <3>2 DEF Watched
    <3> QED BY <3>1, <3>2
  <2>2. ASSUME rm.host \notin rm.up \ {p}
        PROVE  \E t \in timers' : t.kind = "host" /\ t.room = r /\ t.player = rm.host
    <3>1. CASE rm.host = p
      <4>1. p \notin Seated(rm)
        BY <1>3, <3>1 DEF Shaped
      <4>2. "host" \in GraceKinds(rm, p)
        BY <3>1, <4>1 DEF GraceKinds
      <4>3. Grace("host", r, p, g) \in timers'
        BY <1>2, <4>2
      <4> QED BY <3>1, <4>3 DEF Grace
    <3>2. CASE rm.host # p
      BY <1>2, <1>3, <2>2, <3>2 DEF Watched
    <3> QED BY <3>1, <3>2
  <2> QED BY <1>4, <1>6, <2>1, <2>2 DEF Watched
<1> HIDE DEF r
<1> QED BY <1>5, <1>7, <1>8, <1>9, <1>10, RosterStep

LEMMA DisconnectLobbyRosters ==
  ASSUME RosterInv, IInv', NEW p, NEW g, DisconnectLobby(p, g)
  PROVE  Rosters'
<1> DEFINE r == roomOf[p]
           rm == room[r]
           after == WithoutParticipant(rm, p)
<1>1. /\ IInv /\ p \in players /\ connected \subseteq players
      /\ r \in rooms /\ ~rm.inGame /\ Sleeping(timers)
  BY DEF DisconnectLobby, Current, RosterInv, IInv, SessionInv
<1>2. /\ r \in RoomIds /\ rm \in Room /\ Shaped(rm) /\ p \in Members(rm)
      /\ Backed(r, rm, players, connected, roomOf)
  BY <1>1, RoomFacts
<1>3. TimersStay(r)
  BY <1>1, SleepingStay
<1>4. CASE RemoveRoom(r, connected \ {p}, {p}, sockets)
  <2>1. \A q \in players \ {p} : q \in connected \ {p} <=> q \in connected
    OBVIOUS
  <2>2. \A q \in players \cap {p} : roomOf[q] = r
    OBVIOUS
  <2> HIDE DEF r
  <2> QED BY <1>2, <1>3, <1>4, <2>1, <2>2, RemoveRoomRosters
<1>5. CASE ~RemoveRoom(r, connected \ {p}, {p}, sockets)
  <2>1. /\ ~(rm.host = p /\ p \notin Seated(rm))
        /\ room' = [room EXCEPT ![r] = after] /\ rooms' = rooms
        /\ Sessions(players \ {p}, connected, roomOf, sockets)
    BY <1>5 DEF DisconnectLobby
  <2>2. p # rm.host
    BY <1>2, <2>1 DEF Shaped
  <2>3. /\ Shaped(after) /\ Members(after) = Members(rm) \ {p}
        /\ after.up = rm.up \ {p} /\ after.inGame = rm.inGame
    BY <1>2, <2>2, ShapedWithout
  <2> HIDE DEF after
  <2>4. room'[r] = after /\ RoomsStay(r)
    BY <1>1, <2>1 DEF IInv, RoomTypes, RoomsStay
  <2>5. /\ players' = players \ {p} /\ connected' = connected \cap players'
        /\ \A q \in players' : roomOf'[q] = roomOf[q]
    BY <1>1, <2>1, DropLeaves
  <2>6. SessionsStay(r)
    BY <2>5 DEF SessionsStay
  <2> HIDE DEF rm, r
  <2>7. Backed(r, after, players', connected', roomOf')
    BY <1>1, <1>2, <2>3, <2>5 DEF Backed
  <2>8. Watched(r, after, timers')
    BY <1>1, <2>3 DEF Watched
  <2> QED BY <1>3, <2>3, <2>4, <2>6, <2>7, <2>8, RosterStep
<1> QED BY <1>4, <1>5

LEMMA DisconnectRosters ==
  ASSUME RosterInv, IInv', NEW p, NEW g, Disconnect(p, g)
  PROVE  Rosters'
<1>1. CASE DisconnectIgnored(p, g)
  BY <1>1, SameRosters
  DEF DisconnectIgnored, sessionVars, roomVars, SessionsStay, TimersStay
<1>2. CASE DisconnectRoomless(p, g)
  <2>1. /\ p \in players /\ roomOf[p] \notin rooms /\ UNCHANGED <<rooms, room>>
        /\ Sessions(players \ {p}, connected, roomOf, sockets) /\ Sleeping(timers)
    BY <1>2 DEF DisconnectRoomless, Current, roomVars
  <2>2. roomOf[p] = None
    BY <2>1 DEF RosterInv, SessionListed
  <2>3. /\ players' = players \ {p} /\ connected' = connected \cap players'
        /\ \A q \in players' : roomOf'[q] = roomOf[q]
    BY <2>1, DropLeaves DEF RosterInv
  <2>4. SessionsStay(None)
    BY <2>2, <2>3 DEF SessionsStay
  <2>5. TimersStay(None)
    BY <2>1, SleepingStay
  <2> QED BY <2>1, <2>4, <2>5, SameRosters
<1> QED
  BY <1>1, <1>2, DisconnectInGameRosters, DisconnectLobbyRosters DEF Disconnect

----------------------------------------------------------------------------
(* Timers and the sweep.                                                    *)

LEMMA ForfeitRosters ==
  ASSUME RosterInv, IInv', NEW t \in timers, ForfeitSeat(t)
  PROVE  Rosters'
<1> DEFINE r == t.room
           p == t.player
           rm == room[r]
           after == WithoutPlayer(rm, p)
<1>1. /\ IInv /\ t.kind = "seat" /\ r \in rooms /\ rm.inGame
      /\ p \in Seated(rm) /\ p \notin connected
      /\ rooms' = rooms /\ room' = [room EXCEPT ![r] = after]
      /\ Sessions(players \ {p}, connected, roomOf, sockets)
      /\ Sleeping(timers \ {t})
  BY DEF ForfeitSeat, SeatStillGone, RosterInv
<1>2. /\ r \in RoomIds /\ rm \in Room /\ Shaped(rm)
      /\ Backed(r, rm, players, connected, roomOf) /\ Watched(r, rm, timers)
      /\ p \in Members(rm)
  BY <1>1, RoomFacts DEF Members
<1>3. p # rm.host
  BY <1>1, <1>2 DEF Shaped
<1>4. /\ Shaped(after) /\ Members(after) = Members(rm) \ {p}
      /\ Seated(after) = Seated(rm) \ {p} /\ after.up = rm.up \ {p}
      /\ after.host = rm.host /\ after.inGame = rm.inGame
  <2>1. after = WithoutParticipant(rm, p)
    BY <1>1 DEF WithoutParticipant
  <2> HIDE DEF after
  <2> QED BY <1>2, <1>3, <2>1, ShapedWithout
<1> HIDE DEF after
<1>5. room'[r] = after /\ RoomsStay(r)
  BY <1>1 DEF IInv, RoomTypes, RoomsStay
<1>6. /\ players' = players \ {p} /\ connected' = connected \cap players'
      /\ \A q \in players' : roomOf'[q] = roomOf[q]
  BY <1>1, DropLeaves
<1>7. p \in players => roomOf[p] = r
  BY <1>2 DEF Backed
<1>8. SessionsStay(r)
  BY <1>6, <1>7 DEF SessionsStay
<1>9. TimersStay(r)
  <2>1. \A x \in timers \ (timers \ {t}) : x.room = r
    OBVIOUS
  <2> HIDE DEF r
  <2> QED BY <1>1, <2>1, SleepingStay
<1>10. Backed(r, after, players', connected', roomOf')
  <2>1. connected \subseteq players
    BY <1>1 DEF IInv, SessionInv
  <2> QED BY <1>2, <1>4, <1>6, <2>1 DEF Backed
<1>11. \A x \in timers \ {t} :
         x.room = r /\ x.player \in Seated(after) \cup {after.host} => x \in timers'
  <2> HIDE DEF r
  <2> QED BY <1>1, <1>5, SleepingOwn
<1>12. Watched(r, after, timers')
  <2>1. \A x \in timers :
          /\ x.room = r
          /\ \/ x.kind = "seat" /\ x.player \in Seated(after) \ after.up
             \/ x.kind = "host" /\ x.player = after.host
          => x \in timers'
    BY <1>1, <1>4, <1>11
  <2>2. Seated(after) \ after.up \subseteq Seated(rm) \ rm.up
    BY <1>4
  <2>3. after.host \in after.up \/ (after.host = rm.host /\ rm.host \notin rm.up)
    BY <1>3, <1>4
  <2> HIDE DEF rm, r
  <2> QED BY <1>2, <1>4, <2>1, <2>2, <2>3, WatchedKept
<1> HIDE DEF r, p
<1> QED BY <1>4, <1>5, <1>8, <1>9, <1>10, <1>12, RosterStep

(* A timer that finds its player back, or its room gone, was not needed.    *)
LEMMA DisarmedRosters ==
  ASSUME RosterInv, NEW t \in timers, TimerDisarmed(t)
  PROVE  Rosters'
<1>1. /\ timers' = timers \ {t}
      /\ UNCHANGED <<players, connected, roomOf, rooms, room>>
      /\ IF t.kind = "seat" THEN ~SeatStillGone(t) ELSE ~HostStillGone(t)
  BY DEF TimerDisarmed, sessionVars, roomVars
<1> SUFFICES ASSUME NEW r \in rooms PROVE Watched(r, room[r], timers')
  BY <1>1 DEF RosterInv, Rosters
<1> DEFINE rm == room[r]
<1>2. /\ Shaped(rm) /\ Backed(r, rm, players, connected, roomOf)
      /\ Watched(r, rm, timers) /\ rm.host \in Members(rm)
  BY RoomFacts
<1>3. \A p \in Members(rm) : p \notin rm.up => p \notin connected
  BY <1>2 DEF Backed
<1>4. ASSUME rm.inGame, t.room = r, t.kind = "seat", t.player \in Seated(rm) \ rm.up
      PROVE  FALSE
  BY <1>1, <1>3, <1>4 DEF SeatStillGone, Members
<1>5. ASSUME rm.inGame, t.room = r, t.kind = "host", t.player = rm.host,
             rm.host \notin rm.up
      PROVE  FALSE
  BY <1>1, <1>2, <1>3, <1>5 DEF HostStillGone
<1> QED BY <1>1, <1>2, <1>4, <1>5 DEF Watched

LEMMA TimerRosters ==
  ASSUME RosterInv, IInv', NEW t \in timers, TimerExpires(t)
  PROVE  Rosters'
<1>1. t.room \in RoomIds
  BY DEF RosterInv, IInv, TimerTypes, Timer
<1>2. CASE HostNeverResumed(t)
  <2> DEFINE r == t.room
  <2>1. RemoveRoom(r, connected, {}, sockets) /\ Sleeping(timers \ {t})
    BY <1>2 DEF HostNeverResumed
  <2>2. \A x \in timers \ (timers \ {t}) : x.room = r
    OBVIOUS
  <2> HIDE DEF r
  <2>3. TimersStay(r)
    BY <2>1, <2>2, SleepingStay
  <2> QED BY <1>1, <2>1, <2>3, RemoveRoomRosters DEF r
<1>3. ~PeerHostLost(t)
  BY DEF PeerHostLost, RosterInv, NoPeerTimer
<1> QED
  BY <1>2, <1>3, ForfeitRosters, DisarmedRosters DEF TimerExpires

LEMMA SweepRosters ==
  ASSUME RosterInv, IInv', NEW r \in RoomIds, Sweep(r)
  PROVE  Rosters'
<1> DEFINE rm == room[r]
<1>1. r \in rooms
  BY DEF Sweep, SweepKeep, SweepEmptyLobby, SweepHumanless, Humanless
<1>2. /\ rm \in Room /\ Shaped(rm) /\ Members(rm) \subseteq PlayerIds
      /\ Backed(r, rm, players, connected, roomOf) /\ Watched(r, rm, timers)
      /\ \A p \in players : p \in Members(rm) <=> roomOf[p] = r
  BY <1>1, RoomFacts
<1>3. CASE SweepKeep(r)
  <2> DEFINE after == [rm EXCEPT !.idle = Humanless(rm)]
  <2>1. /\ rooms' = rooms /\ room' = [room EXCEPT ![r] = after]
        /\ UNCHANGED <<players, connected, roomOf, timers>>
    BY <1>3 DEF SweepKeep, sessionVars
  <2>2. /\ after.seats = rm.seats /\ after.watchers = rm.watchers
        /\ after.up = rm.up /\ after.host = rm.host /\ after.hosted = rm.hosted
        /\ after.inGame = rm.inGame
    BY <1>2 DEF Room
  <2> HIDE DEF after
  <2>3. Seated(after) = Seated(rm) /\ Members(after) = Members(rm)
    BY <2>2 DEF Seated, Members
  <2>4. Shaped(after)
    BY <1>2, <2>2, <2>3 DEF Shaped
  <2>5. Backed(r, after, players', connected', roomOf') /\ Watched(r, after, timers')
    BY <1>2, <2>1, <2>2, <2>3 DEF Backed, Watched
  <2>6. room'[r] = after /\ RoomsStay(r) /\ SessionsStay(r) /\ TimersStay(r)
    BY <2>1 DEF RoomsStay, SessionsStay, TimersStay, RosterInv, IInv, RoomTypes
  <2> QED BY <2>4, <2>5, <2>6, RosterStep
<1>4. CASE SweepEmptyLobby(r)
  <2>1. TimersStay(r) /\ RemoveRoom(r, connected, {}, sockets)
    BY <1>4, SleepingStay DEF SweepEmptyLobby
  <2> QED BY <2>1, RemoveRoomRosters
<1>5. CASE SweepHumanless(r)
  <2>1. TimersStay(r)
    BY <1>5, SleepingStay DEF SweepHumanless
  <2>2. CASE LobbyRoom(rm).up # {}
    <3>1. PICK q \in rm.up : q \in rm.watchers
      BY <1>2, <2>2, LobbyRoomIs
    <3>2. q = rm.host
      BY <1>5, <3>1 DEF SweepHumanless, Humanless, HasConnectedHuman
    <3> QED BY <1>1, <1>5, <2>1, <2>2, <3>1, <3>2, ResetRosters DEF SweepHumanless
  <2>3. CASE LobbyRoom(rm).up = {}
    <3>1. RemoveRoom(r, connected, Seated(rm), sockets)
      BY <1>5, <2>3 DEF SweepHumanless
    <3>2. \A p \in players \cap Seated(rm) : roomOf[p] = r
      BY <1>2 DEF Members
    <3> HIDE DEF rm
    <3> QED BY <2>1, <3>1, <3>2, RemoveRoomRosters
  <2> QED BY <2>2, <2>3
<1> QED BY <1>3, <1>4, <1>5 DEF Sweep

----------------------------------------------------------------------------
(* Authentication and restarts.                                             *)

LEMMA NewSessionRosters ==
  ASSUME RosterInv, IInv', NEW u \in Users, NewSession(u)
  PROVE  Rosters'
<1> PICK p \in FreshIds(u, {}) :
      Sessions(players \cup {p}, connected \cup {p}, roomOf, sockets \cup {<<p, 0>>})
  BY DEF NewSession
<1>1. p \in PlayerIds /\ p \notin players /\ ~Referenced(p)
  <2>1. ~Referenced(p)
    BY DEF FreshIds
  <2> QED BY <2>1, FreshIdsType
<1>2. /\ players' = players \cup {p} /\ connected' = connected \cup {p}
      /\ \A q \in players : roomOf'[q] = roomOf[q]
  BY <1>1 DEF Sessions, RosterInv, IInv, SessionInv
<1>3. SessionsStay(None)
  BY <1>1, <1>2 DEF SessionsStay
<1>4. TimersStay(None) /\ UNCHANGED <<rooms, room>>
  BY DEF NewSession, TimersStay
<1> QED BY <1>3, <1>4, SameRosters

LEMMA ReclaimRosters ==
  ASSUME RosterInv, IInv', NEW p \in PlayerIds, Reclaim(p)
  PROVE  Rosters'
<1> DEFINE r == roomOf[p]
           rm == room[r]
           after == WithUp(rm, p, TRUE)
<1>1. /\ IInv /\ p \in players /\ connected' = connected \cup {p}
      /\ UNCHANGED <<players, roomOf, rooms, timers>>
  BY DEF Reclaim, RosterInv
<1>2. CASE r \notin rooms
  <2>1. r = None
    BY <1>1, <1>2 DEF RosterInv, SessionListed
  <2>2. UNCHANGED <<rooms, room>>
    BY <1>2 DEF Reclaim
  <2>3. SessionsStay(None) /\ TimersStay(None)
    BY <1>1, <2>1 DEF SessionsStay, TimersStay
  <2> QED BY <2>2, <2>3, SameRosters
<1>3. CASE r \in rooms
  <2>1. room' = [room EXCEPT ![r] = after]
    BY <1>3 DEF Reclaim
  <2>2. /\ r \in RoomIds /\ rm \in Room /\ Shaped(rm) /\ p \in Members(rm)
        /\ Backed(r, rm, players, connected, roomOf) /\ Watched(r, rm, timers)
    BY <1>1, <1>3, RoomFacts
  <2>3. /\ after.seats = rm.seats /\ after.watchers = rm.watchers
        /\ after.up = rm.up \cup {p} /\ after.host = rm.host
        /\ after.inGame = rm.inGame
    BY <2>2, WithUpIs
  <2>4. Shaped(after)
    BY <2>2, ShapedWithUp
  <2> HIDE DEF after
  <2>5. Seated(after) = Seated(rm) /\ Members(after) = Members(rm)
    BY <2>3 DEF Seated, Members
  <2>6. room'[r] = after /\ RoomsStay(r)
    BY <1>1, <1>3, <2>1 DEF IInv, RoomTypes, RoomsStay
  <2>7. SessionsStay(r) /\ TimersStay(r)
    BY <1>1 DEF SessionsStay, TimersStay
  <2> HIDE DEF r, rm
  <2>8. Backed(r, after, players', connected', roomOf')
    BY <1>1, <2>2, <2>3, <2>5 DEF Backed
  <2>9. Watched(r, after, timers')
    BY <1>1, <2>2, <2>3, <2>5 DEF Watched
  <2> QED BY <2>4, <2>6, <2>7, <2>8, <2>9, RosterStep
<1> QED BY <1>2, <1>3

----------------------------------------------------------------------------
(* Timers are never for a peer host, and memories stay those of nodes.      *)

LEMMA StepNoPeer ==
  ASSUME RosterInv, [Next]_vars
  PROVE  NoPeerTimer'
<1>1. ASSUME timers' \subseteq timers PROVE NoPeerTimer'
  BY <1>1 DEF RosterInv, NoPeerTimer
<1>2. ASSUME NEW set, Sleeping(set), set \subseteq timers PROVE NoPeerTimer'
  BY <1>1, <1>2 DEF Sleeping
<1>3. ASSUME NEW u \in Users, NewSession(u) \/ Forget(u) PROVE NoPeerTimer'
  BY <1>1, <1>3 DEF NewSession, Forget
<1>4. ASSUME NEW p \in PlayerIds, Reclaim(p) PROVE NoPeerTimer'
  BY <1>1, <1>4 DEF Reclaim
<1>5. ASSUME NEW p \in PlayerIds, Command(p) PROVE NoPeerTimer'
  <2>1. CASE LeaveRoom(p) \/ StartGame(p) \/ EndGame(p)
    BY <1>1, <1>2, <2>1 DEF LeaveRoom, StartGame, EndGame
  <2>2. ASSUME NEW r \in RoomIds,
               \/ CreateRoom(p, r) \/ JoinLobby(p, r) \/ Observe(p, r)
               \/ Rejoin(p, r) \/ ResumeLive(p, r)
        PROVE  NoPeerTimer'
    BY <1>1, <1>2, <2>2 DEF CreateRoom, JoinLobby, Observe, Rejoin, ResumeLive
  <2>3. ASSUME NEW r \in RoomIds, ResumeLost(p, r) PROVE NoPeerTimer'
    <3>1. PICK absent : timers' = timers \cup {Grace("seat", r, q, 0) : q \in absent}
      BY <2>3 DEF ResumeLost
    <3> QED BY <3>1 DEF Grace, RosterInv, NoPeerTimer
  <2> QED BY <1>5, <2>1, <2>2, <2>3 DEF Command
<1>6. ASSUME NEW p, NEW g, Disconnect(p, g) PROVE NoPeerTimer'
  <2>1. CASE DisconnectInGame(p, g)
    <3> DEFINE r == roomOf[p]
    <3>1. room[r].hosted
      BY <2>1, RoomFacts DEF DisconnectInGame, Shaped
    <3>2. "peer" \notin GraceKinds(room[r], p)
      BY <3>1 DEF GraceKinds
    <3>3. timers' = timers \cup {Grace(k, r, p, g) : k \in GraceKinds(room[r], p)}
      BY <2>1 DEF DisconnectInGame
    <3> HIDE DEF r
    <3> QED BY <3>2, <3>3 DEF Grace, RosterInv, NoPeerTimer
  <2>2. CASE ~DisconnectInGame(p, g)
    BY <1>1, <1>2, <1>6, <2>2
    DEF Disconnect, DisconnectIgnored, DisconnectRoomless, DisconnectLobby
  <2> QED BY <2>1, <2>2
<1>7. ASSUME NEW t \in timers, TimerExpires(t) PROVE NoPeerTimer'
  <2>1. timers \ {t} \subseteq timers
    OBVIOUS
  <2> QED
    BY <1>1, <1>2, <1>7, <2>1
    DEF TimerExpires, HostNeverResumed, PeerHostLost, ForfeitSeat, TimerDisarmed
<1>8. ASSUME NEW r \in RoomIds, Sweep(r) PROVE NoPeerTimer'
  BY <1>1, <1>2, <1>8 DEF Sweep, SweepKeep, SweepEmptyLobby, SweepHumanless
<1>9. CASE RelayRestart
  BY <1>9 DEF RelayRestart, NoPeerTimer
<1>10. CASE UNCHANGED vars
  BY <1>1, <1>10 DEF vars
<1> QED BY <1>3, <1>4, <1>5, <1>6, <1>7, <1>8, <1>9, <1>10 DEF Next

LEMMA BlankMemory ==
  ASSUME NEW u, NEW game, game.order = << >>, game.room # None => u \in Nodes
  PROVE  Remembered(u, game)
<1>1. \A i \in DOMAIN << >> : FALSE
  OBVIOUS
<1> QED BY <1>1 DEF Remembered

LEMMA ToldMemories ==
  ASSUME RosterInv, NEW informed, Told(informed)
  PROVE  Memories'
<1> SUFFICES ASSUME NEW u \in Users PROVE Remembered(u, snapshot'[u])
  BY DEF Memories
<1>1. /\ snapshot[u] \in [room : RoomIds \cup {None}, order : Seq(Users)]
      /\ Remembered(u, snapshot[u])
  BY DEF RosterInv, IInv, SnapshotTypes, Memories
<1>2. /\ [snapshot[u] EXCEPT !.order = << >>].order = << >>
      /\ [snapshot[u] EXCEPT !.order = << >>].room = snapshot[u].room
  BY <1>1
<1>3. Remembered(u, [snapshot[u] EXCEPT !.order = << >>])
  BY <1>1, <1>2, BlankMemory DEF Remembered
<1>4. snapshot'[u] \in {snapshot[u], [snapshot[u] EXCEPT !.order = << >>]}
  BY DEF Told
<1> QED BY <1>1, <1>3, <1>4

LEMMA StartGameMemories ==
  ASSUME RosterInv, NEW p \in PlayerIds, StartGame(p)
  PROVE  Memories'
<1> DEFINE r == roomOf[p]
           rm == room[r]
           h == NameOf(rm.host)
           names == SeatOrder(rm)
<1>1. r \in rooms /\ (\/ snapshot' = snapshot
                      \/ snapshot' = [snapshot EXCEPT ![h].order = names])
  BY DEF StartGame
<1>2. rm \in Room /\ Shaped(rm)
  BY <1>1, RoomFacts
<1>3. /\ \A i, j \in DOMAIN names : names[i] = names[j] => i = j
      /\ \A i \in DOMAIN names : names[i] \notin Nodes
  BY <1>2, RoomSeats DEF SeatOrder, Shaped, DistinctNames
<1> SUFFICES ASSUME NEW u \in Users PROVE Remembered(u, snapshot'[u])
  BY DEF Memories
<1>4. /\ snapshot[u] \in [room : RoomIds \cup {None}, order : Seq(Users)]
      /\ Remembered(u, snapshot[u]) /\ snapshot \in [Users -> [room : RoomIds \cup {None}, order : Seq(Users)]]
  BY DEF RosterInv, IInv, SnapshotTypes, Memories
<1> HIDE DEF names, h
<1>5. snapshot'[u] = snapshot[u] \/ (/\ snapshot'[u].order = names
                                     /\ snapshot'[u].room = snapshot[u].room)
  BY <1>1, <1>4
<1> QED BY <1>3, <1>4, <1>5 DEF Remembered

LEMMA StepMemories ==
  ASSUME RosterInv, HostedOnly, [Next]_vars
  PROVE  Memories'
<1>1. ASSUME snapshot' = snapshot PROVE Memories'
  BY <1>1 DEF RosterInv, Memories
<1>2. ASSUME NEW u \in Users, NewSession(u) \/ Forget(u) PROVE Memories'
  <2>1. CASE NewSession(u)
    BY <1>1, <2>1 DEF NewSession
  <2>2. CASE Forget(u)
    <3>1. Remembered(u, NoGame)
      BY BlankMemory DEF NoGame
    <3>2. snapshot' = [snapshot EXCEPT ![u] = NoGame]
      BY <2>2 DEF Forget
    <3> HIDE DEF NoGame
    <3> QED BY <3>1, <3>2 DEF RosterInv, IInv, SnapshotTypes, Memories
  <2> QED BY <1>2, <2>1, <2>2
<1>3. ASSUME NEW p \in PlayerIds, Command(p) PROVE Memories'
  <2>0. NameOf(p) \in Users
    BY NameOfType
  <2>1. CASE LeaveRoom(p)
    BY <2>1, ToldMemories DEF LeaveRoom
  <2>2. CASE EndGame(p)
    BY <2>2, ToldMemories DEF EndGame, ResetToLobby
  <2>3. ASSUME NEW r \in RoomIds,
               JoinLobby(p, r) \/ Observe(p, r) \/ Rejoin(p, r) \/ ResumeLost(p, r)
        PROVE  Memories'
    BY <1>1, <2>3 DEF JoinLobby, Observe, Rejoin, ResumeLost
  <2>4. ASSUME NEW r \in RoomIds, CreateRoom(p, r) PROVE Memories'
    <3> DEFINE game == [room |-> r, order |-> << >>]
    <3>1. /\ snapshot' = [snapshot EXCEPT ![NameOf(p)] = game]
          /\ NameOf(p) \in Nodes
      BY <2>4 DEF CreateRoom, HostedOnly
    <3>2. Remembered(NameOf(p), game)
      BY <3>1, BlankMemory
    <3> HIDE DEF game
    <3> QED BY <2>0, <3>1, <3>2 DEF RosterInv, IInv, SnapshotTypes, Memories
  <2>5. ASSUME NEW r \in RoomIds, ResumeLive(p, r) PROVE Memories'
    <3> DEFINE u == NameOf(p)
               game == [snapshot[u] EXCEPT !.order = << >>]
    <3>1. /\ snapshot[u] \in [room : RoomIds \cup {None}, order : Seq(Users)]
          /\ Remembered(u, snapshot[u])
      BY <2>0 DEF RosterInv, IInv, SnapshotTypes, Memories
    <3>2. game.order = << >> /\ game.room = snapshot[u].room
      BY <3>1
    <3>3. snapshot' = snapshot \/ snapshot' = [snapshot EXCEPT ![u] = game]
      BY <2>5 DEF ResumeLive
    <3> HIDE DEF game
    <3>4. Remembered(u, game)
      BY <3>1, <3>2, BlankMemory DEF Remembered
    <3> QED BY <1>1, <2>0, <3>3, <3>4 DEF RosterInv, IInv, SnapshotTypes, Memories
  <2> QED BY <1>3, <2>1, <2>2, <2>3, <2>4, <2>5, StartGameMemories DEF Command
<1>4. ASSUME NEW p, NEW g, Disconnect(p, g) PROVE Memories'
  BY <1>1, <1>4
  DEF Disconnect, DisconnectIgnored, DisconnectRoomless, DisconnectInGame,
      DisconnectLobby
<1>5. ASSUME NEW t \in timers, TimerExpires(t) PROVE Memories'
  BY <1>1, <1>5, ToldMemories
  DEF TimerExpires, HostNeverResumed, PeerHostLost, ResetToLobby, ForfeitSeat,
      TimerDisarmed
<1>6. ASSUME NEW r \in RoomIds, Sweep(r) PROVE Memories'
  BY <1>1, <1>6, ToldMemories
  DEF Sweep, SweepKeep, SweepEmptyLobby, SweepHumanless, ResetToLobby
<1>7. CASE (\E p \in PlayerIds : Reclaim(p)) \/ RelayRestart \/ UNCHANGED vars
  BY <1>1, <1>7 DEF Reclaim, RelayRestart, vars
<1> QED BY <1>2, <1>3, <1>4, <1>5, <1>6, <1>7 DEF Next

----------------------------------------------------------------------------
(* The theorems about hosted rooms.                                         *)

LEMMA InitRosters == Init => RosterInv
<1> SUFFICES ASSUME Init PROVE RosterInv
  OBVIOUS
<1>1. Memories
  BY BlankMemory DEF Init, NoGame, Memories
<1> QED
  BY <1>1, InitIInv
  DEF Init, RosterInv, SessionListed, Unplaced, Rosters, NoPeerTimer

LEMMA StepRosters ==
  ASSUME HostedOnly, RosterInv, [Next]_vars
  PROVE  RosterInv'
<1>1. IInv' /\ SessionListed' /\ Unplaced'
  BY StepIInv, StepListed, StepUnplaced DEF RosterInv
<1>2. ASSUME NEW p \in PlayerIds, Command(p) PROVE Rosters'
  BY <1>1, <1>2, LeaveRoomRosters, StartGameRosters, EndGameRosters,
     CreateRoomRosters, EnterRosters, RejoinRosters, ResumeLiveRosters,
     ResumeLostRosters
  DEF Command
<1>3. ASSUME NEW u \in Users, NewSession(u) \/ Forget(u) PROVE Rosters'
  <2>1. CASE NewSession(u)
    BY <1>1, <2>1, NewSessionRosters
  <2>2. CASE Forget(u)
    BY <2>2 DEF Forget, sessionVars, roomVars, RosterInv, Rosters
  <2> QED BY <1>3, <2>1, <2>2
<1>4. ASSUME RelayRestart PROVE Rosters'
  BY <1>4 DEF RelayRestart, Rosters
<1>5. ASSUME UNCHANGED vars PROVE Rosters'
  BY <1>5 DEF vars, RosterInv, Rosters
<1>6. ASSUME NEW p \in PlayerIds, Reclaim(p) PROVE Rosters'
  BY <1>1, <1>6, ReclaimRosters
<1>7. ASSUME NEW s \in sockets, Disconnect(s[1], s[2]) PROVE Rosters'
  BY <1>1, <1>7, DisconnectRosters
<1>8. ASSUME NEW t \in timers, TimerExpires(t) PROVE Rosters'
  BY <1>1, <1>8, TimerRosters
<1>9. ASSUME NEW r \in RoomIds, Sweep(r) PROVE Rosters'
  BY <1>1, <1>9, SweepRosters
<1>10. Rosters'
  BY <1>2, <1>3, <1>4, <1>5, <1>6, <1>7, <1>8, <1>9 DEF Next
<1>11. NoPeerTimer' /\ Memories'
  BY StepNoPeer, StepMemories
<1> QED BY <1>1, <1>10, <1>11 DEF RosterInv

(* In hosted rooms rosters, sessions, timers and memories stay in step; the *)
(* theorems below are read off this invariant.                              *)
THEOREM HostedRosters ==
  ASSUME HostedOnly
  PROVE  Spec => []RosterInv
<1>1. RosterInv /\ [Next]_vars => RosterInv'
  BY StepRosters
<1> QED BY <1>1, InitRosters, PTL DEF Spec

(* SeatBacked: a slot shows connected exactly the connected sessions that   *)
(* are in the room, although slot and session are written by eight handlers *)
(* one after the other (room.rs:236).                                       *)
THEOREM SlotsAgree ==
  ASSUME HostedOnly
  PROVE  Spec => []SeatBacked
<1>1. RosterInv => SeatBacked
  BY DEF RosterInv, IInv, SessionInv, Rosters, Backed, SeatBacked
<1> QED BY <1>1, HostedRosters, PTL

(* SeatNamesDistinct: joins, rejoins by name and rebuilt rooms never seat   *)
(* one name twice (lobby.rs:320).                                           *)
THEOREM OneSeatPerName ==
  ASSUME HostedOnly
  PROVE  Spec => []SeatNamesDistinct
<1>1. RosterInv => SeatNamesDistinct
  BY DEF RosterInv, Rosters, Shaped, DistinctNames, SeatNamesDistinct
<1> QED BY <1>1, HostedRosters, PTL

(* DownSeatHasTimer: each disconnected seat of a running game has a timer   *)
(* that will give it up, those of a rebuilt room included (cleanup.rs:375,  *)
(* lobby.rs:184).                                                           *)
THEOREM DownSeatsAreTimed ==
  ASSUME HostedOnly
  PROVE  Spec => []DownSeatHasTimer
<1>1. RosterInv => DownSeatHasTimer
  BY DEF RosterInv, Rosters, Watched, DownSeatHasTimer
<1> QED BY <1>1, HostedRosters, PTL

----------------------------------------------------------------------------
(* Nodes on a relay that serves rooms of any kind: no person is a node, and *)
(* commands of replaced connections do not come in.                         *)

Apart == Humans \cap Nodes = {} /\ ~LateCommands

(* A room is hosted if its host is a node.  Nodes do not sit, and watch     *)
(* only the room they host; nobody's host is missed in a lobby.             *)
Anchored(rm) ==
  /\ rm.host \in PlayerIds
  /\ rm.hosted <=> NameOf(rm.host) \in Nodes
  /\ \A q \in Seated(rm) : NameOf(q) \notin Nodes
  /\ \A q \in rm.watchers : NameOf(q) \in Nodes => rm.hosted /\ q = rm.host
  /\ rm.hosted => rm.host \in rm.watchers
  /\ rm.hosted /\ ~rm.inGame => rm.host \in rm.up

(* A node's slot agrees with its session: cn the connected ones, ps those   *)
(* there are, loc the room each is in.                                      *)
HostBacked(r, rm, ps, cn, loc) ==
  rm.hosted => /\ rm.host \in rm.up <=> rm.host \in cn
               /\ rm.host \in ps => loc[rm.host] = r

HostWatched(r, rm, ts) ==
  rm.hosted /\ rm.inGame /\ rm.host \notin rm.up =>
    \E t \in ts : t.kind = "host" /\ t.room = r /\ t.player = rm.host

Hosts ==
  \A r \in rooms :
    /\ Anchored(room[r])
    /\ HostBacked(r, room[r], players, connected, roomOf)
    /\ HostWatched(r, room[r], timers)

(* One client remembers a room, a node a hosted one and a person another.   *)
Owners ==
  /\ \A u, v \in Users : snapshot[u].room = snapshot[v].room => snapshot[u].room = None \/ u = v
  /\ \A u \in Users : snapshot[u].room \in rooms =>
       (room[snapshot[u].room].hosted <=> u \in Nodes)
  /\ \A u \in Users : \A i \in DOMAIN snapshot[u].order : snapshot[u].order[i] \notin Nodes

(* The timers of peer hosts are for other rooms than nodes host.            *)
PeersApart ==
  \A t \in timers : t.kind = "peer" =>
    /\ t.room \in rooms => ~room[t.room].hosted
    /\ \A u \in Users \cap Nodes : snapshot[u].room # t.room

NodeInv == IInv /\ SessionListed /\ Unplaced /\ Hosts /\ Owners /\ PeersApart

----------------------------------------------------------------------------
(* A handler works on one room r.  The nodes that host other rooms, and     *)
(* their timers, stay as they are.                                          *)

NodesStay(r) ==
  /\ \A p \in players : NameOf(p) \in Nodes /\ roomOf[p] \notin {None, r} =>
       /\ p \in players' /\ roomOf'[p] = roomOf[p]
       /\ p \in connected' <=> p \in connected
  /\ \A p \in players' \ players : ~Referenced(p)

HostTimersStay(r) ==
  \A t \in timers :
    /\ t.kind = "host" /\ t.room # r /\ t.room \in rooms'
    /\ t.player = room'[t.room].host
    => t \in timers'

KindsStay == \A q \in rooms \cap rooms' : room'[q].hosted = room[q].hosted

LEMMA NodeRoom ==
  ASSUME NodeInv, NEW r \in rooms
  PROVE  /\ IInv /\ r \in RoomIds /\ r # None /\ room[r] \in Room
         /\ Anchored(room[r])
         /\ HostBacked(r, room[r], players, connected, roomOf)
         /\ HostWatched(r, room[r], timers)
         /\ Seated(room[r]) \subseteq PlayerIds
         /\ connected \subseteq players /\ players \subseteq PlayerIds
<1>1. IInv /\ r \in RoomIds /\ r # None /\ room[r] \in Room
  BY NoneAssumption DEF NodeInv, IInv, RoomTypes
<1>2. Seated(room[r]) \subseteq PlayerIds
  BY <1>1 DEF Seated, Range, Room
<1> QED BY <1>1, <1>2 DEF NodeInv, Hosts, IInv, SessionInv

(* A node is in no room but the one it hosts.                               *)
LEMMA NodeHosts ==
  ASSUME NodeInv, NEW p \in players, NameOf(p) \in Nodes, roomOf[p] # None
  PROVE  /\ roomOf[p] \in rooms /\ room[roomOf[p]].hosted
         /\ room[roomOf[p]].host = p
<1>1. /\ roomOf[p] \in rooms
      /\ p \in Members(room[roomOf[p]]) \cup {room[roomOf[p]].host}
  BY DEF NodeInv, SessionListed
<1>2. Anchored(room[roomOf[p]])
  BY <1>1, NodeRoom
<1> QED BY <1>1, <1>2 DEF Anchored, Members

LEMMA HostsStep ==
  ASSUME NodeInv, IInv', NEW r, RoomsStay(r), NodesStay(r), HostTimersStay(r),
         r \in rooms' =>
           /\ Anchored(room'[r])
           /\ HostBacked(r, room'[r], players', connected', roomOf')
           /\ HostWatched(r, room'[r], timers')
           /\ r \in rooms => room'[r].hosted = room[r].hosted
  PROVE  Hosts' /\ KindsStay
<1>0. KindsStay
  BY DEF RoomsStay, KindsStay
<1> SUFFICES ASSUME NEW q \in rooms', q # r
             PROVE  /\ Anchored(room'[q])
                    /\ HostBacked(q, room'[q], players', connected', roomOf')
                    /\ HostWatched(q, room'[q], timers')
  BY <1>0 DEF Hosts
<1> DEFINE rm == room[q]
<1>1. q \in rooms /\ room'[q] = rm
  BY DEF RoomsStay
<1>2. /\ q # None /\ Anchored(rm)
      /\ HostBacked(q, rm, players, connected, roomOf)
      /\ HostWatched(q, rm, timers)
      /\ connected \subseteq players
  BY <1>1, NodeRoom
<1>3. connected' \subseteq players'
  BY DEF IInv, SessionInv
<1>4. ASSUME rm.hosted PROVE HostBacked(q, rm, players', connected', roomOf')
  <2> DEFINE h == rm.host
  <2>1. NameOf(h) \in Nodes
    BY <1>2, <1>4 DEF Anchored
  <2>2. h \notin players => h \notin players'
    BY <1>1 DEF NodesStay, Referenced
  <2>3. h \in players =>
          h \in players' /\ roomOf'[h] = q /\ (h \in connected' <=> h \in connected)
    BY <1>2, <1>4, <2>1 DEF NodesStay, HostBacked
  <2> QED BY <1>2, <1>3, <2>2, <2>3 DEF HostBacked
<1>5. HostWatched(q, rm, timers')
  BY <1>1, <1>2 DEF HostWatched, HostTimersStay
<1> QED BY <1>1, <1>2, <1>4, <1>5 DEF HostBacked

(* What a handler does to a room without touching a node that hosts it:     *)
(* people come and go, and one of them may be made host of a peer room.     *)
Keeps(rm, after) ==
  /\ after.hosted = rm.hosted
  /\ after.host = rm.host \/ (~rm.hosted /\ after.host \in Seated(rm))
  /\ \A q \in Seated(after) \ Seated(rm) : NameOf(q) \notin Nodes
  /\ \A q \in after.watchers \ rm.watchers : NameOf(q) \notin Nodes
  /\ rm.hosted =>
       /\ rm.host \in rm.watchers => rm.host \in after.watchers
       /\ rm.host \in after.up <=> rm.host \in rm.up
       /\ rm.inGame /\ ~after.inGame => rm.host \in rm.up

LEMMA KeptAnchored ==
  ASSUME NEW rm \in Room, Anchored(rm), NEW after, Keeps(rm, after)
  PROVE  Anchored(after)
<1>1. Seated(rm) \subseteq PlayerIds
  BY DEF Seated, Range, Room
<1> QED BY <1>1 DEF Anchored, Keeps

LEMMA KeptStep ==
  ASSUME NodeInv, IInv', NEW r \in rooms, NEW after, rooms' = rooms,
         room' = [room EXCEPT ![r] = after], Keeps(room[r], after),
         NodesStay(None), HostTimersStay(None)
  PROVE  Hosts' /\ KindsStay
<1> DEFINE rm == room[r]
<1>1. /\ r # None /\ r \in RoomIds /\ rm \in Room /\ Anchored(rm)
      /\ HostBacked(r, rm, players, connected, roomOf)
      /\ HostWatched(r, rm, timers) /\ connected \subseteq players
  BY NodeRoom
<1>2. room'[r] = after /\ \A q \in rooms \ {r} : room'[q] = room[q]
  BY <1>1 DEF NodeInv, IInv, RoomTypes
<1>3. RoomsStay(r) /\ NodesStay(r)
  BY <1>2 DEF RoomsStay, NodesStay
<1>9. HostTimersStay(r)
  <2>1. \A t \in timers : t.room \in rooms' => t.room # None
    BY NoneAssumption DEF NodeInv, IInv, RoomTypes
  <2> QED BY <2>1 DEF HostTimersStay
<1>4. Anchored(after)
  BY <1>1, KeptAnchored
<1>5. ASSUME rm.hosted
      PROVE  /\ HostBacked(r, after, players', connected', roomOf')
             /\ HostWatched(r, after, timers')
  <2> DEFINE h == rm.host
  <2>1. NameOf(h) \in Nodes /\ after.host = h /\ (h \in after.up <=> h \in rm.up)
    BY <1>1, <1>5 DEF Anchored, Keeps
  <2>2. h \notin players => h \notin players'
    BY DEF NodesStay, Referenced
  <2>3. h \in players =>
          h \in players' /\ roomOf'[h] = r /\ (h \in connected' <=> h \in connected)
    BY <1>1, <1>5, <2>1 DEF NodesStay, HostBacked
  <2>4. connected' \subseteq players'
    BY DEF IInv, SessionInv
  <2>5. HostBacked(r, after, players', connected', roomOf')
    BY <1>1, <1>5, <2>1, <2>2, <2>3, <2>4 DEF HostBacked
  <2>6. HostWatched(r, after, timers')
    <3>1. rm.inGame \/ h \in rm.up
      BY <1>1, <1>5 DEF Anchored
    <3> QED BY <1>1, <1>2, <1>5, <2>1, <3>1 DEF HostWatched, HostTimersStay
  <2> QED BY <2>5, <2>6
<1>6. after.hosted = rm.hosted
  BY DEF Keeps
<1>7. HostBacked(r, after, players', connected', roomOf') /\ HostWatched(r, after, timers')
  BY <1>5, <1>6 DEF HostBacked, HostWatched
<1> HIDE DEF rm
<1> QED BY <1>2, <1>3, <1>9, <1>4, <1>6, <1>7, HostsStep DEF rm

(* No room changes.                                                         *)
LEMMA UnchangedStep ==
  ASSUME NodeInv, IInv', UNCHANGED <<rooms, room>>, NodesStay(None), HostTimersStay(None)
  PROVE  Hosts' /\ KindsStay
<1>1. RoomsStay(None) /\ None \notin rooms'
  BY NoneAssumption DEF RoomsStay, NodeInv, IInv, RoomTypes
<1> QED BY <1>1, HostsStep

(* Sessions and timers of a step that leaves all nodes alone.               *)
LEMMA SleepingHosts ==
  ASSUME NEW r, NEW set, Sleeping(set),
         \A t \in timers \ set : t.kind # "host" \/ t.room = r
  PROVE  HostTimersStay(r)
BY DEF Sleeping, HostTimersStay

(* Teardown and reset.                                                      *)
LEMMA RemoveRoomHosts ==
  ASSUME NodeInv, IInv', NEW r \in rooms, NEW live, NEW others, NEW tasks,
         RemoveRoom(r, live, others, tasks), HostTimersStay(r),
         \A p \in players : NameOf(p) \in Nodes /\ roomOf[p] # r =>
           p \notin others /\ (p \in live <=> p \in connected)
  PROVE  Hosts' /\ KindsStay
<1>1. r \in RoomIds /\ IInv
  BY NodeRoom
<1>2. /\ rooms' = rooms \ {r}
      /\ \A q \in RoomIds \ {r} : room'[q] = room[q]
      /\ players' \subseteq players
      /\ connected' = live \cap players'
      /\ \A p \in players \ others : roomOf[p] # r =>
           p \in players' /\ roomOf'[p] = roomOf[p]
  BY <1>1, RemoveRoomLeaves
<1>3. RoomsStay(r) /\ r \notin rooms'
  BY <1>1, <1>2 DEF RoomsStay, IInv, RoomTypes
<1>4. NodesStay(r)
  BY <1>2 DEF NodesStay
<1> QED BY <1>3, <1>4, HostsStep

(* A reset that finds the node of a hosted room there.                      *)
LEMMA ResetHosts ==
  ASSUME NodeInv, IInv', NEW r \in rooms, ResetToLobby(r),
         room[r].hosted => room[r].host \in room[r].up, HostTimersStay(None)
  PROVE  Hosts' /\ KindsStay
<1> DEFINE rm == room[r]
<1>1. /\ IInv /\ r \in RoomIds /\ rm \in Room /\ Anchored(rm)
      /\ connected \subseteq players
  BY NodeRoom
<1>2. /\ rooms' = rooms
      /\ room' = [room EXCEPT ![r] = LobbyRoom(room[r])]
      /\ players' \subseteq players
      /\ connected' = connected \cap players'
      /\ \A p \in players \ Seated(rm) :
           p \in players' /\ roomOf'[p] = roomOf[p]
  BY <1>1, ResetLeaves
<1>3. Keeps(rm, LobbyRoom(rm))
  BY <1>1, LobbyRoomIs DEF Keeps, Anchored
<1>4. \A p \in players : NameOf(p) \in Nodes => p \notin Seated(rm)
  BY <1>1 DEF Anchored
<1>5. NodesStay(None)
  BY <1>2, <1>4 DEF NodesStay
<1> QED BY <1>2, <1>3, <1>5, KeptStep

----------------------------------------------------------------------------
(* Commands.                                                                *)

LEMMA CreateRoomHosts ==
  ASSUME NodeInv, IInv', Apart, NEW p \in PlayerIds, NEW r \in RoomIds, CreateRoom(p, r)
  PROVE  Hosts' /\ KindsStay
<1> DEFINE hosted == NameOf(p) \in Nodes
           after == NewRoom(p, hosted, FALSE, IF hosted THEN << >> ELSE <<p>>)
<1>1. /\ IInv /\ p \in players /\ p \in connected
  BY CommandFacts DEF NodeInv, Apart, CreateRoom
<1>2. /\ [roomOf EXCEPT ![p] = r][p] = r
      /\ \A q \in players \ {p} : [roomOf EXCEPT ![p] = r][q] = roomOf[q]
  BY <1>1, Moved
<1>3. /\ rooms' = rooms \cup {r} /\ r \notin rooms
      /\ room' = [room EXCEPT ![r] = after]
      /\ roomOf' = [roomOf EXCEPT ![p] = r] /\ roomOf[p] = None
      /\ UNCHANGED <<players, connected, timers>>
  BY DEF CreateRoom
<1>4. /\ after.host = p /\ after.hosted = hosted /\ ~after.inGame
      /\ after.watchers = (IF hosted THEN {p} ELSE {})
      /\ after.up = {p} /\ Seated(after) \subseteq (IF hosted THEN {} ELSE {p})
  BY DEF NewRoom, Seated, Range
<1>5. hosted \in BOOLEAN
  OBVIOUS
<1> HIDE DEF after
<1>6. room'[r] = after /\ RoomsStay(r)
  BY <1>1, <1>3 DEF IInv, RoomTypes, RoomsStay
<1>7. NodesStay(r) /\ HostTimersStay(r)
  BY <1>1, <1>2, <1>3 DEF NodesStay, HostTimersStay
<1>8. Anchored(after)
  BY <1>4 DEF Anchored
<1>9. HostBacked(r, after, players', connected', roomOf')
  BY <1>1, <1>2, <1>3, <1>4 DEF HostBacked
<1>10. HostWatched(r, after, timers')
  BY <1>4 DEF HostWatched
<1> QED BY <1>3, <1>6, <1>7, <1>8, <1>9, <1>10, HostsStep

LEMMA EnterHosts ==
  ASSUME NodeInv, IInv', Apart, NEW p \in PlayerIds, NEW r \in RoomIds,
         JoinLobby(p, r) \/ Observe(p, r)
  PROVE  Hosts' /\ KindsStay
<1> DEFINE rm == room[r]
           after == IF JoinLobby(p, r) THEN WithPlayer(rm, p) ELSE WithObserver(rm, p)
<1>1. /\ IInv /\ p \in players
  BY CommandFacts DEF NodeInv, JoinLobby, Observe
<1>2. \A q \in players \ {p} : [roomOf EXCEPT ![p] = r][q] = roomOf[q]
  BY <1>1, Moved
<1>3. /\ rooms' = rooms /\ r \in rooms
      /\ room' = [room EXCEPT ![r] = after]
      /\ roomOf' = [roomOf EXCEPT ![p] = r]
      /\ UNCHANGED <<players, connected, timers>>
      /\ ~rm.inGame /\ NameOf(p) \notin Nodes
  BY DEF JoinLobby, Observe, Apart
<1>4. rm \in Room /\ Anchored(rm)
  BY <1>3, NodeRoom
<1>5. Keeps(rm, after)
  <2>1. CASE JoinLobby(p, r)
    <3>1. after = WithPlayer(rm, p)
      BY <2>1
    <3> QED BY <1>3, <1>4, <3>1, WithPlayerIs DEF Keeps, Anchored
  <2>2. CASE ~JoinLobby(p, r)
    <3>1. after = WithObserver(rm, p)
      BY <2>2
    <3> QED BY <1>3, <1>4, <3>1, WithObserverIs DEF Keeps, Anchored, Seated
  <2> QED BY <2>1, <2>2
<1> HIDE DEF after
<1>6. NodesStay(None) /\ HostTimersStay(None)
  BY <1>2, <1>3 DEF NodesStay, HostTimersStay
<1> QED BY <1>3, <1>5, <1>6, KeptStep

LEMMA RejoinHosts ==
  ASSUME NodeInv, IInv', NEW p \in PlayerIds, NEW r \in RoomIds, Rejoin(p, r)
  PROVE  Hosts' /\ KindsStay
<1> DEFINE rm == room[r]
<1>1. /\ IInv /\ p \in players
  BY CommandFacts DEF NodeInv, Rejoin
<1>2. \A q \in players \ {p} : [roomOf EXCEPT ![p] = r][q] = roomOf[q]
  BY <1>1, Moved
<1>3. /\ rooms' = rooms /\ r \in rooms /\ NameOf(p) \notin Nodes
      /\ roomOf' = [roomOf EXCEPT ![p] = r]
      /\ UNCHANGED <<players, connected>> /\ Sleeping(timers)
  BY DEF Rejoin
<1>4. PICK i \in DOMAIN rm.seats :
        /\ NameOf(rm.seats[i]) = NameOf(p)
        /\ room' = [room EXCEPT ![r] = Rekeyed(rm, rm.seats[i], p)]
  BY DEF Rejoin
<1> DEFINE old == rm.seats[i]
           after == Rekeyed(rm, old, p)
<1>5. rm \in Room /\ Anchored(rm) /\ old \in Seated(rm)
  BY <1>3, NodeRoom DEF Seated, Range
<1>6. NameOf(old) = NameOf(p) /\ room' = [room EXCEPT ![r] = after]
  BY <1>4
<1> HIDE DEF old
<1>7. Keeps(rm, after)
  <2>1. /\ Seated(after) \subseteq Seated(rm) \cup {p}
        /\ after.watchers = rm.watchers /\ after.up = (rm.up \ {old}) \cup {p}
        /\ after.host = rm.host /\ after.hosted = rm.hosted
        /\ after.inGame = rm.inGame
    <3> HIDE DEF rm
    <3> QED BY <1>5, RekeyedIs
  <2> HIDE DEF after
  <2> QED BY <1>3, <1>5, <1>6, <2>1 DEF Keeps, Anchored
<1>8. NodesStay(None) /\ HostTimersStay(None)
  BY <1>2, <1>3, SleepingHosts DEF NodesStay
<1> HIDE DEF after
<1> QED BY <1>3, <1>6, <1>7, <1>8, KeptStep

(* Somebody other than a node goes; a player who hosted is succeeded by the *)
(* first of the seats.                                                      *)
LEMMA WithoutKeeps ==
  ASSUME NEW rm \in Room, Anchored(rm), NEW p \in PlayerIds, NameOf(p) \notin Nodes
  PROVE  Keeps(rm, WithoutParticipant(rm, p))
<1> DEFINE after == WithoutParticipant(rm, p)
<1>1. CASE p \in Seated(rm)
  <2> DEFINE left == RemoveAt(rm.seats, SeatIndex(rm, p))
  <2>1. /\ after = WithoutPlayer(rm, p)
        /\ after.seats = left
        /\ Seated(after) \subseteq Seated(rm)
        /\ after.watchers = rm.watchers /\ after.up = rm.up \ {p}
        /\ rm.host # p => after.host = rm.host
        /\ after.hosted = rm.hosted /\ after.inGame = rm.inGame
    BY <1>1, WithoutPlayerIs DEF WithoutParticipant
  <2>2. after.host = rm.host \/ after.host \in Seated(rm)
    <3>1. SeatIndex(rm, p) \in 1..Len(rm.seats) /\ rm.seats \in Seq(PlayerIds)
      BY <1>1, SeatIndexIs
    <3>2. left \in Seq(PlayerIds)
      BY <3>1, RemoveAtIs
    <3>3. after.host = (IF rm.host = p /\ left # << >> THEN Head(left) ELSE rm.host)
      <4> HIDE DEF left
      <4> QED BY <2>1 DEF WithoutPlayer, Room, left
    <3> HIDE DEF left, after
    <3>4. left # << >> => Head(left) \in Range(left)
      BY <3>2 DEF Range
    <3> QED BY <2>1, <3>3, <3>4 DEF Seated
  <2>3. rm.hosted => rm.host # p
    BY DEF Anchored
  <2> HIDE DEF left, after
  <2> QED BY <2>1, <2>2, <2>3 DEF Keeps, Anchored, after
<1>2. CASE p \notin Seated(rm)
  <2>1. /\ after.seats = rm.seats /\ after.watchers = rm.watchers \ {p}
        /\ after.up = rm.up \ {p} /\ after.host = rm.host
        /\ after.hosted = rm.hosted /\ after.inGame = rm.inGame
    BY <1>2 DEF WithoutParticipant, Room
  <2> HIDE DEF after
  <2> QED BY <2>1 DEF Keeps, Anchored, Seated, after
<1> QED BY <1>1, <1>2

LEMMA LeaveRoomHosts ==
  ASSUME NodeInv, IInv', NEW p \in PlayerIds, LeaveRoom(p)
  PROVE  Hosts' /\ KindsStay
<1> DEFINE r == roomOf[p]
           after == WithoutParticipant(room[r], p)
<1>1. /\ IInv /\ p \in players /\ r \in rooms /\ NameOf(p) \notin Nodes
      /\ Sleeping(timers)
  BY CommandFacts DEF NodeInv, LeaveRoom
<1>2. room[r] \in Room /\ Anchored(room[r])
  BY <1>1, NodeRoom
<1>3. HostTimersStay(r) /\ HostTimersStay(None)
  BY <1>1, SleepingHosts
<1>4. CASE after.up = {}
  <2>1. RemoveRoom(r, connected, {}, sockets)
    BY <1>4 DEF LeaveRoom
  <2> HIDE DEF r
  <2> QED BY <1>1, <1>3, <2>1, RemoveRoomHosts
<1>5. CASE after.up # {}
  <2>1. /\ room' = [room EXCEPT ![r] = after] /\ rooms' = rooms
        /\ roomOf' = [roomOf EXCEPT ![p] = None]
        /\ UNCHANGED <<players, connected>>
    BY <1>5 DEF LeaveRoom
  <2>2. \A q \in players \ {p} : roomOf'[q] = roomOf[q]
    BY <1>1, <2>1, Moved
  <2>3. NodesStay(None)
    BY <1>1, <2>1, <2>2 DEF NodesStay
  <2>4. Keeps(room[r], after)
    BY <1>1, <1>2, WithoutKeeps
  <2> HIDE DEF after, r
  <2> QED BY <1>1, <1>3, <2>1, <2>3, <2>4, KeptStep
<1> QED BY <1>4, <1>5

LEMMA StartGameHosts ==
  ASSUME NodeInv, IInv', NEW p \in PlayerIds, StartGame(p)
  PROVE  Hosts' /\ KindsStay
<1> DEFINE r == roomOf[p]
           rm == room[r]
           after == [rm EXCEPT !.inGame = TRUE]
<1>1. /\ r \in rooms /\ rooms' = rooms
      /\ room' = [room EXCEPT ![r] = after]
      /\ UNCHANGED <<players, connected, roomOf, timers>>
  BY DEF StartGame, sessionVars
<1>2. rm \in Room /\ Anchored(rm)
  BY <1>1, NodeRoom
<1>3. /\ after.host = rm.host /\ after.hosted = rm.hosted /\ after.inGame
      /\ after.seats = rm.seats /\ after.watchers = rm.watchers /\ after.up = rm.up
  BY <1>2 DEF Room
<1> HIDE DEF after
<1>4. Keeps(rm, after)
  BY <1>2, <1>3 DEF Keeps, Seated
<1>5. NodesStay(None) /\ HostTimersStay(None)
  BY <1>1 DEF NodesStay, HostTimersStay
<1> HIDE DEF r
<1> QED BY <1>1, <1>4, <1>5, KeptStep

LEMMA EndGameHosts ==
  ASSUME NodeInv, IInv', Apart, NEW p \in PlayerIds, EndGame(p)
  PROVE  Hosts' /\ KindsStay
<1> DEFINE r == roomOf[p]
<1>1. /\ IInv /\ p \in players /\ p \in connected
  BY CommandFacts DEF NodeInv, Apart, EndGame
<1>2. /\ r \in rooms /\ room[r].host = p
      /\ ResetToLobby(r) /\ Sleeping(timers)
  BY DEF EndGame
<1>3. HostTimersStay(None)
  BY <1>2, SleepingHosts
<1>4. room[r].hosted => room[r].host \in room[r].up
  BY <1>1, <1>2, NodeRoom DEF HostBacked
<1> HIDE DEF r
<1> QED BY <1>2, <1>3, <1>4, ResetHosts

----------------------------------------------------------------------------
(* Resumes.                                                                 *)

(* A client resumes a room of its kind.                                     *)
LEMMA ResumeKind ==
  ASSUME NodeInv, NEW p \in PlayerIds, NEW r \in rooms, MayResume(p, r)
  PROVE  room[r].hosted <=> NameOf(p) \in Nodes
BY NameOfType DEF NodeInv, Owners, MayResume

LEMMA HandedOther ==
  ASSUME NEW rm \in Room, ~rm.hosted, NEW p \in PlayerIds
  PROVE  /\ HandedTo(rm, p).host = p /\ HandedTo(rm, p).hosted = rm.hosted
         /\ Seated(HandedTo(rm, p)) \subseteq Seated(rm) \cup {p}
         /\ HandedTo(rm, p).watchers = rm.watchers
<1> DEFINE claimed == [rm EXCEPT !.host = p]
<1>1. /\ claimed \in Room /\ claimed.host = p /\ claimed.hosted = rm.hosted
      /\ claimed.seats = rm.seats /\ claimed.watchers = rm.watchers
  BY DEF Room
<1>2. Seated(claimed) = Seated(rm)
  BY <1>1 DEF Seated
<1>3. \/ HandedTo(rm, p) = claimed
      \/ \E slot \in Seated(claimed) :
           NameOf(slot) = NameOf(p) /\ HandedTo(rm, p) = Rekeyed(claimed, slot, p)
  BY HandedPeer
<1> HIDE DEF claimed
<1>4. CASE HandedTo(rm, p) = claimed
  BY <1>1, <1>2, <1>4
<1>5. ASSUME NEW slot \in Seated(claimed), HandedTo(rm, p) = Rekeyed(claimed, slot, p)
      PROVE  /\ HandedTo(rm, p).host = p /\ HandedTo(rm, p).hosted = rm.hosted
             /\ Seated(HandedTo(rm, p)) \subseteq Seated(rm) \cup {p}
             /\ HandedTo(rm, p).watchers = rm.watchers
  <2>1. /\ Rekeyed(claimed, slot, p).host = claimed.host
        /\ Rekeyed(claimed, slot, p).hosted = claimed.hosted
        /\ Seated(Rekeyed(claimed, slot, p)) \subseteq Seated(claimed) \cup {p}
        /\ Rekeyed(claimed, slot, p).watchers = claimed.watchers
    BY <1>1, RekeyedIs
  <2> QED BY <1>1, <1>2, <1>5, <2>1
<1> QED BY <1>3, <1>4, <1>5

LEMMA ResumeLiveHosts ==
  ASSUME NodeInv, IInv', Apart, NEW p \in PlayerIds, NEW r \in RoomIds, ResumeLive(p, r)
  PROVE  Hosts' /\ KindsStay
<1> DEFINE rm == room[r]
           h == rm.host
           gone == IF h = p THEN {} ELSE {h}
           location == [roomOf EXCEPT ![p] = r]
           after == HandedTo(rm, p)
<1>1. /\ IInv /\ p \in players /\ p \in connected
  BY CommandFacts DEF NodeInv, Apart, ResumeLive, MayResume
<1>2. location[p] = r /\ \A q \in players \ {p} : location[q] = roomOf[q]
  BY <1>1, Moved
<1>3. /\ r \in rooms /\ rooms' = rooms /\ room' = [room EXCEPT ![r] = after]
      /\ Sessions(players \ gone, connected, location, sockets)
      /\ roomOf[p] \in {None, r} /\ Sleeping(timers) /\ MayResume(p, r)
  BY DEF ResumeLive, MayResume
<1>4. /\ rm \in Room /\ Anchored(rm) /\ r # None
      /\ HostBacked(r, rm, players, connected, roomOf)
      /\ connected \subseteq players
  BY <1>3, NodeRoom
<1>5. rm.hosted <=> NameOf(p) \in Nodes
  BY <1>3, ResumeKind
<1>6. p \notin gone /\ \A q \in gone : q = h
  OBVIOUS
<1> HIDE DEF location, gone, after
<1>7. /\ players' = players \ gone /\ connected' = connected \cap players'
      /\ \A q \in players' : roomOf'[q] = location[q]
  BY <1>1, <1>3, DropLeaves
<1>8. room'[r] = after /\ RoomsStay(r)
  BY <1>1, <1>3 DEF IInv, RoomTypes, RoomsStay
<1>9. h \in players /\ NameOf(h) \in Nodes => roomOf[h] = r
  BY <1>4 DEF Anchored, HostBacked
<1>10. NodesStay(r)
  BY <1>2, <1>3, <1>6, <1>7, <1>9 DEF NodesStay
<1>11. HostTimersStay(r)
  BY <1>3, SleepingHosts
<1>12. Anchored(after) /\ after.hosted = rm.hosted /\ after.host = p
       /\ (after.hosted => p \in after.up)
  <2>1. CASE rm.hosted
    <3>1. /\ after.host = p /\ after.hosted = rm.hosted /\ after.seats = rm.seats
          /\ after.watchers = (rm.watchers \ {h}) \cup {p}
          /\ after.up = (rm.up \ {h}) \cup {p}
      BY <1>4, <2>1, HandedHosted DEF after
    <3>2. Seated(after) = Seated(rm)
      BY <3>1 DEF Seated
    <3> QED BY <1>4, <1>5, <2>1, <3>1, <3>2 DEF Anchored
  <2>2. CASE ~rm.hosted
    <3>1. /\ after.host = p /\ after.hosted = rm.hosted
          /\ Seated(after) \subseteq Seated(rm) \cup {p}
          /\ after.watchers = rm.watchers
      BY <1>4, <2>2, HandedOther DEF after
    <3> QED BY <1>4, <1>5, <2>2, <3>1 DEF Anchored
  <2> QED BY <2>1, <2>2
<1>13. HostBacked(r, after, players', connected', roomOf')
  BY <1>1, <1>2, <1>6, <1>7, <1>12 DEF HostBacked
<1>14. HostWatched(r, after, timers')
  BY <1>12 DEF HostWatched
<1> QED BY <1>8, <1>10, <1>11, <1>12, <1>13, <1>14, HostsStep

LEMMA ResumeLostHosts ==
  ASSUME NodeInv, IInv', Apart, NEW p \in PlayerIds, NEW r \in RoomIds, ResumeLost(p, r)
  PROVE  Hosts' /\ KindsStay
<1> DEFINE order == snapshot[NameOf(p)].order
           hosted == NameOf(p) \in Nodes
<1>1. /\ IInv /\ p \in players /\ p \in connected
  BY CommandFacts DEF NodeInv, Apart, ResumeLost, MayResume
<1>2. [roomOf EXCEPT ![p] = r][p] = r
      /\ \A q \in players \ {p} : [roomOf EXCEPT ![p] = r][q] = roomOf[q]
  BY <1>1, Moved
<1>3. NameOf(p) \in Users
  BY NameOfType
<1>4. order \in Seq(Users) /\ \A i \in DOMAIN order : order[i] \in Users \ Nodes
  <2>1. order \in Seq(Users)
    BY <1>1, <1>3 DEF IInv, SnapshotTypes
  <2>2. \A i \in DOMAIN order : order[i] \notin Nodes
    BY <1>3 DEF NodeInv, Owners
  <2> HIDE DEF order
  <2> QED BY <2>1, <2>2
<1> PICK seats \in RebuiltSeats(p, order) :
      room' = [room EXCEPT ![r] = NewRoom(p, hosted, TRUE, seats)]
  BY DEF ResumeLost
<1> DEFINE after == NewRoom(p, hosted, TRUE, seats)
<1>5. /\ rooms' = rooms \cup {r} /\ r \notin rooms
      /\ room' = [room EXCEPT ![r] = after]
      /\ timers \subseteq timers'
      /\ roomOf' = [roomOf EXCEPT ![p] = r] /\ roomOf[p] \in {None, r}
      /\ UNCHANGED <<players, connected>>
  BY DEF ResumeLost, MayResume
<1> HIDE DEF order
<1>6. /\ DOMAIN seats = DOMAIN order
      /\ \A i \in DOMAIN order :
           IF order[i] = NameOf(p) /\ NameOf(p) \notin Nodes
           THEN seats[i] = p
           ELSE NameOf(seats[i]) = order[i] /\ seats[i] \notin players
  BY <1>4, RebuiltSeatsAre
<1>7. \A i \in DOMAIN seats : NameOf(seats[i]) \notin Nodes
  BY <1>4, <1>6
<1>8. /\ after.host = p /\ (after.hosted <=> hosted) /\ after.inGame = TRUE
      /\ after.watchers = (IF hosted THEN {p} ELSE {}) /\ after.up = {p}
      /\ after.seats = seats
  BY DEF NewRoom
<1> HIDE DEF after
<1>10. \A q \in Seated(after) : NameOf(q) \notin Nodes
  BY <1>7, <1>8 DEF Seated, Range
<1>11. Anchored(after)
  <2>1. after.watchers \subseteq {p} /\ (hosted => after.watchers = {p})
    BY <1>8
  <2> QED BY <1>8, <1>10, <2>1 DEF Anchored
<1>12. room'[r] = after /\ RoomsStay(r)
  BY <1>1, <1>5 DEF IInv, RoomTypes, RoomsStay
<1>13. NodesStay(r) /\ HostTimersStay(r)
  BY <1>1, <1>2, <1>5 DEF NodesStay, HostTimersStay
<1>14. HostBacked(r, after, players', connected', roomOf')
  BY <1>1, <1>2, <1>5, <1>8 DEF HostBacked
<1>15. HostWatched(r, after, timers')
  BY <1>8 DEF HostWatched
<1> QED BY <1>5, <1>11, <1>12, <1>13, <1>14, <1>15, HostsStep

----------------------------------------------------------------------------
(* Sessions come and go.                                                    *)

LEMMA NewSessionHosts ==
  ASSUME NodeInv, IInv', NEW u \in Users, NewSession(u)
  PROVE  Hosts' /\ KindsStay
<1>1. PICK p \in FreshIds(u, {}) :
        Sessions(players \cup {p}, connected \cup {p}, roomOf, sockets \cup {<<p, 0>>})
  BY DEF NewSession
<1>2. UNCHANGED <<rooms, room, timers>>
  BY DEF NewSession
<1>3. IInv /\ p \in PlayerIds /\ ~Referenced(p) /\ connected \subseteq players
      /\ players \subseteq PlayerIds
  BY FreshIdsType DEF FreshIds, NodeInv, IInv, SessionInv
<1>4. /\ players' = players \cup {p}
      /\ connected' = (connected \cup {p}) \cap players'
      /\ \A q \in players : roomOf'[q] = roomOf[q]
  BY <1>1, <1>3 DEF Sessions
<1>5. p \notin players
  BY <1>3 DEF Referenced
<1>6. NodesStay(None) /\ HostTimersStay(None)
  BY <1>2, <1>3, <1>4, <1>5 DEF NodesStay, HostTimersStay
<1> QED BY <1>2, <1>6, UnchangedStep

LEMMA ReclaimHosts ==
  ASSUME NodeInv, IInv', NEW p \in PlayerIds, Reclaim(p)
  PROVE  Hosts' /\ KindsStay
<1> DEFINE r == roomOf[p]
           rm == room[r]
           after == WithUp(rm, p, TRUE)
<1>1. /\ p \in players /\ connected' = connected \cup {p}
      /\ room' = (IF r \in rooms THEN [room EXCEPT ![r] = after] ELSE room)
      /\ UNCHANGED <<players, roomOf, rooms, timers>>
  BY DEF Reclaim
<1>2. HostTimersStay(None) /\ HostTimersStay(r)
  BY <1>1 DEF HostTimersStay
<1>3. NameOf(p) \in Nodes => roomOf[p] = None \/ (r \in rooms /\ rm.hosted /\ rm.host = p)
  BY <1>1, NodeHosts
<1>4. CASE r \notin rooms
  <2>1. NodesStay(None)
    BY <1>1, <1>3, <1>4 DEF NodesStay
  <2> QED BY <1>1, <1>2, <1>4, <2>1, UnchangedStep
<1>5. CASE r \in rooms
  <2>1. /\ rm \in Room /\ Anchored(rm) /\ IInv /\ r \in RoomIds
        /\ HostBacked(r, rm, players, connected, roomOf) /\ r # None
    BY <1>5, NodeRoom
  <2>2. /\ after.seats = rm.seats /\ after.watchers = rm.watchers
        /\ after.host = rm.host /\ after.hosted = rm.hosted
        /\ after.inGame = rm.inGame
        /\ after.up = (IF p \in Members(rm) THEN rm.up \cup {p} ELSE rm.up)
    BY <2>1 DEF WithUp, Room
  <2>3. room' = [room EXCEPT ![r] = after]
    BY <1>1, <1>5
  <2> HIDE DEF after
  <2>4. Seated(after) = Seated(rm)
    BY <2>2 DEF Seated
  <2>5. CASE NameOf(p) \notin Nodes
    <3>1. Keeps(rm, after)
      BY <2>1, <2>2, <2>4, <2>5 DEF Keeps, Anchored
    <3>2. NodesStay(None)
      BY <1>1, <2>5 DEF NodesStay
    <3> HIDE DEF rm, r
    <3> QED BY <1>1, <1>2, <1>5, <2>3, <3>1, <3>2, KeptStep DEF rm
  <2>6. CASE NameOf(p) \in Nodes
    <3>1. rm.hosted /\ rm.host = p
      BY <1>3, <2>1, <2>6
    <3>2. p \in Members(rm)
      BY <2>1, <3>1 DEF Anchored, Members
    <3>3. Anchored(after) /\ after.host = p /\ p \in after.up
      BY <2>1, <2>2, <2>4, <3>1, <3>2 DEF Anchored
    <3>4. room'[r] = after /\ RoomsStay(r)
      BY <1>1, <2>1, <2>3 DEF IInv, RoomTypes, RoomsStay
    <3>5. NodesStay(r)
      BY <1>1 DEF NodesStay
    <3>6. HostBacked(r, after, players', connected', roomOf')
          /\ HostWatched(r, after, timers')
      BY <1>1, <3>3 DEF HostBacked, HostWatched
    <3> HIDE DEF rm, r
    <3> QED BY <1>2, <2>2, <3>3, <3>4, <3>5, <3>6, HostsStep DEF rm
  <2> QED BY <2>5, <2>6
<1> QED BY <1>4, <1>5

LEMMA DisconnectInGameHosts ==
  ASSUME NodeInv, IInv', NEW p, NEW g, DisconnectInGame(p, g)
  PROVE  Hosts' /\ KindsStay
<1> DEFINE r == roomOf[p]
           rm == room[r]
           after == WithUp(rm, p, FALSE)
<1>1. /\ p \in players /\ connected' = connected \ {p} /\ r \in rooms
      /\ room' = [room EXCEPT ![r] = after] /\ rm.inGame
      /\ timers' = timers \cup {Grace(k, r, p, g) : k \in GraceKinds(rm, p)}
      /\ UNCHANGED <<players, roomOf, rooms>>
  BY DEF DisconnectInGame, Current
<1>2. HostTimersStay(None) /\ HostTimersStay(r)
  BY <1>1 DEF HostTimersStay
<1>3. /\ rm \in Room /\ Anchored(rm) /\ IInv /\ r \in RoomIds
      /\ HostBacked(r, rm, players, connected, roomOf) /\ r # None
  BY <1>1, NodeRoom
<1>4. /\ after.seats = rm.seats /\ after.watchers = rm.watchers
      /\ after.host = rm.host /\ after.hosted = rm.hosted
      /\ after.inGame = rm.inGame
      /\ after.up = (IF p \in Members(rm) THEN rm.up \ {p} ELSE rm.up)
  BY <1>3 DEF WithUp, Room
<1> HIDE DEF after
<1>5. Seated(after) = Seated(rm)
  BY <1>4 DEF Seated
<1>6. CASE NameOf(p) \notin Nodes
  <2>1. Keeps(rm, after)
    BY <1>3, <1>4, <1>5, <1>6 DEF Keeps, Anchored
  <2>2. NodesStay(None)
    BY <1>1, <1>6 DEF NodesStay
  <2> HIDE DEF rm, r
  <2> QED BY <1>1, <1>2, <2>1, <2>2, KeptStep DEF rm
<1>7. CASE NameOf(p) \in Nodes
  <2>1. rm.hosted /\ rm.host = p
    BY <1>1, <1>3, <1>7, NodeHosts
  <2>2. p \in Members(rm) /\ p \notin Seated(rm)
    BY <1>3, <1>7, <2>1 DEF Anchored, Members
  <2>3. Anchored(after) /\ after.host = p /\ p \notin after.up
    BY <1>1, <1>3, <1>4, <1>5, <2>1, <2>2 DEF Anchored
  <2>4. room'[r] = after /\ RoomsStay(r)
    BY <1>1, <1>3 DEF IInv, RoomTypes, RoomsStay
  <2>5. NodesStay(r)
    BY <1>1 DEF NodesStay
  <2>6. HostBacked(r, after, players', connected', roomOf')
    BY <1>1, <2>3 DEF HostBacked
  <2>7. HostWatched(r, after, timers')
    <3>1. GraceKinds(rm, p) = {"host"}
      BY <2>1, <2>2 DEF GraceKinds
    <3>2. Grace("host", r, p, g) \in timers'
      BY <1>1, <3>1
    <3> QED BY <2>3, <3>2 DEF HostWatched, Grace
  <2> HIDE DEF rm, r
  <2> QED BY <1>2, <1>4, <2>3, <2>4, <2>5, <2>6, <2>7, HostsStep DEF rm
<1> QED BY <1>6, <1>7

LEMMA DisconnectLobbyHosts ==
  ASSUME NodeInv, IInv', NEW p, NEW g, DisconnectLobby(p, g)
  PROVE  Hosts' /\ KindsStay
<1> DEFINE r == roomOf[p]
           rm == room[r]
           after == WithoutParticipant(rm, p)
           ends == (rm.host = p /\ p \notin Seated(rm)) \/ Members(after) = {}
<1>1. /\ p \in players /\ r \in rooms /\ Sleeping(timers)
      /\ IF ends THEN RemoveRoom(r, connected \ {p}, {p}, sockets)
         ELSE /\ room' = [room EXCEPT ![r] = after] /\ rooms' = rooms
              /\ Sessions(players \ {p}, connected, roomOf, sockets)
  BY DEF DisconnectLobby, Current
<1>2. HostTimersStay(None) /\ HostTimersStay(r)
  BY <1>1, SleepingHosts
<1>3. rm \in Room /\ Anchored(rm) /\ IInv /\ players \subseteq PlayerIds /\ r # None
  BY <1>1, NodeRoom
<1>4. CASE ends
  <2>1. RemoveRoom(r, connected \ {p}, {p}, sockets)
    BY <1>1, <1>4
  <2>2. \A q \in players : NameOf(q) \in Nodes /\ roomOf[q] # r =>
          q \notin {p} /\ (q \in connected \ {p} <=> q \in connected)
    OBVIOUS
  <2> HIDE DEF r
  <2> QED BY <1>1, <1>2, <2>1, <2>2, RemoveRoomHosts
<1>5. CASE ~ends
  <2>1. NameOf(p) \notin Nodes
    <3> SUFFICES ASSUME NameOf(p) \in Nodes PROVE FALSE
      OBVIOUS
    <3>1. rm.host = p
      BY <1>1, <1>3, NodeHosts
    <3> QED BY <1>3, <1>5, <3>1 DEF Anchored
  <2>2. /\ room' = [room EXCEPT ![r] = after] /\ rooms' = rooms
        /\ Sessions(players \ {p}, connected, roomOf, sockets)
    BY <1>1, <1>5
  <2>3. /\ players' = players \ {p} /\ connected' = connected \cap players'
        /\ \A q \in players' : roomOf'[q] = roomOf[q]
    BY <1>3, <2>2, DropLeaves
  <2>4. NodesStay(None)
    BY <2>1, <2>3 DEF NodesStay
  <2>5. Keeps(rm, after)
    BY <1>1, <1>3, <2>1, WithoutKeeps
  <2> HIDE DEF after, ends, r
  <2> QED BY <1>1, <1>2, <2>2, <2>4, <2>5, KeptStep
<1> QED BY <1>4, <1>5

LEMMA DisconnectHosts ==
  ASSUME NodeInv, IInv', NEW p, NEW g, Disconnect(p, g)
  PROVE  Hosts' /\ KindsStay
<1>1. CASE DisconnectIgnored(p, g)
  <2>1. UNCHANGED <<players, connected, roomOf, rooms, room, timers>>
    BY <1>1 DEF DisconnectIgnored, sessionVars, roomVars
  <2>2. NodesStay(None) /\ HostTimersStay(None)
    BY <2>1 DEF NodesStay, HostTimersStay
  <2> QED BY <2>1, <2>2, UnchangedStep
<1>2. CASE DisconnectRoomless(p, g)
  <2>1. /\ p \in players /\ roomOf[p] \notin rooms /\ Sleeping(timers)
        /\ Sessions(players \ {p}, connected, roomOf, sockets)
        /\ UNCHANGED <<rooms, room>>
    BY <1>2 DEF DisconnectRoomless, Current, roomVars
  <2>2. /\ players' = players \ {p} /\ connected' = connected \cap players'
        /\ \A q \in players' : roomOf'[q] = roomOf[q]
    BY <2>1, DropLeaves DEF NodeInv
  <2>3. NameOf(p) \in Nodes => roomOf[p] = None
    BY <2>1, NodeHosts
  <2>4. NodesStay(None) /\ HostTimersStay(None)
    BY <2>1, <2>2, <2>3, SleepingHosts DEF NodesStay
  <2> QED BY <2>1, <2>4, UnchangedStep
<1> QED BY <1>1, <1>2, DisconnectInGameHosts, DisconnectLobbyHosts DEF Disconnect

----------------------------------------------------------------------------
(* Timers and sweeps.                                                       *)

LEMMA ForfeitHosts ==
  ASSUME NodeInv, IInv', NEW t \in timers, ForfeitSeat(t)
  PROVE  Hosts' /\ KindsStay
<1> DEFINE r == t.room
           p == t.player
           after == WithoutPlayer(room[r], p)
<1>1. /\ t.kind = "seat" /\ r \in rooms /\ p \in Seated(room[r]) /\ rooms' = rooms
      /\ room' = [room EXCEPT ![r] = after]
      /\ Sessions(players \ {p}, connected, roomOf, sockets)
      /\ Sleeping(timers \ {t})
  BY DEF ForfeitSeat, SeatStillGone
<1>2. /\ room[r] \in Room /\ Anchored(room[r]) /\ IInv
      /\ Seated(room[r]) \subseteq PlayerIds
  BY <1>1, NodeRoom
<1>3. p \in PlayerIds /\ NameOf(p) \notin Nodes
  BY <1>1, <1>2 DEF Anchored
<1>4. after = WithoutParticipant(room[r], p)
  BY <1>1 DEF WithoutParticipant
<1>5. Keeps(room[r], after)
  BY <1>2, <1>3, <1>4, WithoutKeeps
<1> HIDE DEF after, r, p
<1>6. /\ players' = players \ {p} /\ connected' = connected \cap players'
      /\ \A q \in players' : roomOf'[q] = roomOf[q]
  BY <1>1, <1>2, DropLeaves
<1>7. NodesStay(None)
  BY <1>3, <1>6 DEF NodesStay
<1>8. HostTimersStay(None)
  BY <1>1, SleepingHosts
<1> QED BY <1>1, <1>5, <1>7, <1>8, KeptStep

(* A host timer that is disarmed finds its node back, or was not its host's.*)
LEMMA DisarmedHosts ==
  ASSUME NodeInv, NEW t \in timers, TimerDisarmed(t)
  PROVE  Hosts' /\ KindsStay
<1>1. /\ timers' = timers \ {t}
      /\ UNCHANGED <<players, connected, roomOf, rooms, room>>
      /\ t.kind # "seat" => ~HostStillGone(t)
  BY DEF TimerDisarmed, sessionVars, roomVars
<1>2. KindsStay
  BY <1>1 DEF KindsStay
<1> SUFFICES ASSUME NEW r \in rooms PROVE HostWatched(r, room[r], timers')
  BY <1>1, <1>2 DEF NodeInv, Hosts
<1> DEFINE rm == room[r]
<1>3. HostBacked(r, rm, players, connected, roomOf) /\ HostWatched(r, rm, timers)
  BY NodeRoom
<1>4. ASSUME rm.hosted, rm.inGame, t.room = r, t.kind = "host", t.player = rm.host,
             rm.host \notin rm.up
      PROVE  FALSE
  BY <1>1, <1>3, <1>4 DEF HostStillGone, HostBacked
<1> QED BY <1>1, <1>3, <1>4 DEF HostWatched

LEMMA TimerHosts ==
  ASSUME NodeInv, IInv', NEW t \in timers, TimerExpires(t)
  PROVE  Hosts' /\ KindsStay
<1>1. CASE HostNeverResumed(t)
  <2> DEFINE r == t.room
  <2>1. r \in rooms /\ RemoveRoom(r, connected, {}, sockets) /\ Sleeping(timers \ {t})
    BY <1>1 DEF HostNeverResumed, HostStillGone
  <2>2. \A x \in timers \ (timers \ {t}) : x.kind # "host" \/ x.room = r
    OBVIOUS
  <2> HIDE DEF r
  <2>3. HostTimersStay(r)
    BY <2>1, <2>2, SleepingHosts
  <2> QED BY <2>1, <2>3, RemoveRoomHosts
<1>2. CASE PeerHostLost(t)
  <2>1. /\ t.kind = "peer" /\ t.room \in rooms /\ ResetToLobby(t.room)
        /\ Sleeping(timers \ {t})
    BY <1>2 DEF PeerHostLost, HostStillGone
  <2>2. ~room[t.room].hosted
    BY <2>1 DEF NodeInv, PeersApart
  <2>3. HostTimersStay(None)
    BY <2>1, SleepingHosts
  <2> QED BY <2>1, <2>2, <2>3, ResetHosts
<1> QED BY <1>1, <1>2, ForfeitHosts, DisarmedHosts DEF TimerExpires

LEMMA SweepHosts ==
  ASSUME NodeInv, IInv', NEW r \in RoomIds, Sweep(r)
  PROVE  Hosts' /\ KindsStay
<1> DEFINE rm == room[r]
<1>1. r \in rooms
  BY DEF Sweep, SweepKeep, SweepEmptyLobby, SweepHumanless, Humanless
<1>2. rm \in Room /\ Anchored(rm)
  BY <1>1, NodeRoom
<1>3. CASE SweepKeep(r)
  <2> DEFINE after == [rm EXCEPT !.idle = Humanless(rm)]
  <2>1. /\ room' = [room EXCEPT ![r] = after] /\ rooms' = rooms
        /\ UNCHANGED <<players, connected, roomOf, timers>>
    BY <1>3 DEF SweepKeep, sessionVars
  <2>2. /\ after.host = rm.host /\ after.hosted = rm.hosted
        /\ after.inGame = rm.inGame /\ after.seats = rm.seats
        /\ after.watchers = rm.watchers /\ after.up = rm.up
    BY <1>2 DEF Room
  <2> HIDE DEF after
  <2>3. Keeps(rm, after)
    BY <2>2 DEF Keeps, Seated
  <2>4. NodesStay(None) /\ HostTimersStay(None)
    BY <2>1 DEF NodesStay, HostTimersStay
  <2> QED BY <1>1, <2>1, <2>3, <2>4, KeptStep
<1>4. CASE SweepEmptyLobby(r)
  <2>1. RemoveRoom(r, connected, {}, sockets) /\ Sleeping(timers)
    BY <1>4 DEF SweepEmptyLobby
  <2>2. HostTimersStay(r)
    BY <2>1, SleepingHosts
  <2> QED BY <1>1, <2>1, <2>2, RemoveRoomHosts
<1>5. CASE SweepHumanless(r)
  <2>1. /\ Sleeping(timers) /\ ~HasConnectedHuman(rm)
        /\ IF LobbyRoom(rm).up # {} THEN ResetToLobby(r)
           ELSE RemoveRoom(r, connected, Seated(rm), sockets)
    BY <1>5 DEF SweepHumanless, Humanless
  <2>2. HostTimersStay(None) /\ HostTimersStay(r)
    BY <2>1, SleepingHosts
  <2>3. CASE LobbyRoom(rm).up # {}
    <3>1. PICK q \in rm.watchers : q \in rm.up
      BY <1>2, <2>3, LobbyRoomIs
    <3>2. rm.hosted /\ q = rm.host
      BY <2>1, <3>1 DEF HasConnectedHuman
    <3> QED BY <1>1, <2>1, <2>2, <2>3, <3>1, <3>2, ResetHosts
  <2>4. CASE LobbyRoom(rm).up = {}
    <3>1. RemoveRoom(r, connected, Seated(rm), sockets)
      BY <2>1, <2>4
    <3>2. \A p \in players : NameOf(p) \in Nodes => p \notin Seated(rm)
      BY <1>2 DEF Anchored
    <3> QED BY <1>1, <2>2, <3>1, <3>2, RemoveRoomHosts
  <2> QED BY <2>3, <2>4
<1> QED BY <1>3, <1>4, <1>5 DEF Sweep

----------------------------------------------------------------------------
(* Who remembers which room.                                                *)

OrdersOfPlayers(order) == \A i \in DOMAIN order : order[i] \notin Nodes

(* A handler that gives no client a room, and no node's room a peer timer.  *)
LEMMA OwnersStep ==
  ASSUME NodeInv, KindsStay, rooms' \subseteq rooms,
         \A u \in Users :
           /\ snapshot'[u].room = snapshot[u].room
           /\ \/ snapshot'[u].order = snapshot[u].order
              \/ OrdersOfPlayers(snapshot'[u].order),
         \A t \in timers' : t.kind = "peer" =>
           t \in timers \/ (t.room \in rooms /\ ~room[t.room].hosted)
  PROVE  Owners' /\ PeersApart'
<1>1. Owners'
  <2>1. \A u \in Users : snapshot'[u].room \in rooms' =>
          (room'[snapshot'[u].room].hosted <=> u \in Nodes)
    BY DEF KindsStay, NodeInv, Owners
  <2>2. \A u \in Users : OrdersOfPlayers(snapshot'[u].order)
    BY DEF OrdersOfPlayers, NodeInv, Owners
  <2> QED BY <2>1, <2>2 DEF NodeInv, Owners, OrdersOfPlayers
<1>2. PeersApart'
  <2> SUFFICES ASSUME NEW t \in timers', t.kind = "peer"
               PROVE  /\ t.room \in rooms' => ~room'[t.room].hosted
                      /\ \A u \in Users \cap Nodes : snapshot'[u].room # t.room
    BY DEF PeersApart
  <2>1. CASE t \in timers
    BY <2>1 DEF NodeInv, PeersApart, KindsStay
  <2>2. CASE t.room \in rooms /\ ~room[t.room].hosted
    BY <2>2 DEF NodeInv, Owners, KindsStay
  <2> QED BY <2>1, <2>2
<1> QED BY <1>1, <1>2

LEMMA SameOwners ==
  ASSUME NodeInv, KindsStay, rooms' \subseteq rooms, snapshot' = snapshot,
         timers' \subseteq timers
  PROVE  Owners' /\ PeersApart'
BY OwnersStep

LEMMA BlankOrder == OrdersOfPlayers(<< >>)
BY DEF OrdersOfPlayers

LEMMA ToldOwners ==
  ASSUME NodeInv, KindsStay, rooms' \subseteq rooms, NEW informed, Told(informed),
         timers' \subseteq timers
  PROVE  Owners' /\ PeersApart'
<1>1. \A u \in Users :
        /\ snapshot'[u].room = snapshot[u].room
        /\ \/ snapshot'[u].order = snapshot[u].order
           \/ OrdersOfPlayers(snapshot'[u].order)
  <2> TAKE u \in Users
  <2>1. snapshot[u] \in [room : RoomIds \cup {None}, order : Seq(Users)]
    BY DEF NodeInv, IInv, SnapshotTypes
  <2>2. /\ [snapshot[u] EXCEPT !.order = << >>].order = << >>
        /\ [snapshot[u] EXCEPT !.order = << >>].room = snapshot[u].room
    BY <2>1
  <2>3. snapshot'[u] \in {snapshot[u], [snapshot[u] EXCEPT !.order = << >>]}
    BY DEF Told
  <2> QED BY <2>2, <2>3, BlankOrder
<1> QED BY <1>1, OwnersStep

LEMMA StartGameOwners ==
  ASSUME NodeInv, KindsStay, NEW p \in PlayerIds, StartGame(p)
  PROVE  Owners' /\ PeersApart'
<1> DEFINE r == roomOf[p]
           rm == room[r]
           h == NameOf(rm.host)
           names == SeatOrder(rm)
<1>1. /\ r \in rooms /\ rooms' = rooms /\ timers' = timers
      /\ (\/ snapshot' = snapshot
          \/ snapshot' = [snapshot EXCEPT ![h].order = names])
  BY DEF StartGame
<1>2. rm \in Room /\ Anchored(rm)
  BY <1>1, NodeRoom
<1>3. OrdersOfPlayers(names)
  BY <1>2, RoomSeats DEF SeatOrder, Anchored, OrdersOfPlayers
<1> HIDE DEF names, h
<1>4. \A u \in Users :
        /\ snapshot'[u].room = snapshot[u].room
        /\ \/ snapshot'[u].order = snapshot[u].order
           \/ OrdersOfPlayers(snapshot'[u].order)
  <2> TAKE u \in Users
  <2>1. /\ snapshot[u] \in [room : RoomIds \cup {None}, order : Seq(Users)]
        /\ snapshot \in [Users -> [room : RoomIds \cup {None}, order : Seq(Users)]]
    BY DEF NodeInv, IInv, SnapshotTypes
  <2>2. snapshot'[u] = snapshot[u] \/ (/\ snapshot'[u].order = names
                                       /\ snapshot'[u].room = snapshot[u].room)
    BY <1>1, <2>1
  <2> QED BY <1>3, <2>2
<1> QED BY <1>1, <1>4, OwnersStep

LEMMA CreateRoomOwners ==
  ASSUME NodeInv, KindsStay, NEW p \in PlayerIds, NEW r \in RoomIds, CreateRoom(p, r)
  PROVE  Owners' /\ PeersApart'
<1> DEFINE me == NameOf(p)
           game == [room |-> r, order |-> << >>]
           after == NewRoom(p, me \in Nodes, FALSE,
                            IF me \in Nodes THEN << >> ELSE <<p>>)
<1>1. /\ rooms' = rooms \cup {r} /\ r \notin rooms /\ timers' = timers
      /\ \A t \in timers : t.room # r
      /\ \A u \in Users \ {me} : snapshot[u].room # r
      /\ snapshot' = [snapshot EXCEPT ![me] = game]
      /\ room' = [room EXCEPT ![r] = after]
  BY DEF CreateRoom
<1>2. me \in Users /\ r # None /\ IInv
  BY NameOfType, NoneAssumption DEF NodeInv
<1>3. after.hosted <=> me \in Nodes
  BY DEF NewRoom
<1>4. game.room = r /\ game.order = << >>
  OBVIOUS
<1> HIDE DEF game, after, me
<1>5. /\ snapshot'[me] = game
      /\ \A u \in Users \ {me} : snapshot'[u] = snapshot[u]
  BY <1>1, <1>2 DEF IInv, SnapshotTypes
<1>6. room'[r] = after /\ \A q \in rooms : room'[q].hosted = room[q].hosted
  BY <1>1, <1>2 DEF IInv, RoomTypes, KindsStay
<1>7. Owners'
  <2>1. \A u, v \in Users : snapshot'[u].room = snapshot'[v].room =>
          snapshot'[u].room = None \/ u = v
    BY <1>1, <1>4, <1>5 DEF NodeInv, Owners
  <2>2. \A u \in Users : snapshot'[u].room \in rooms' =>
          (room'[snapshot'[u].room].hosted <=> u \in Nodes)
    BY <1>1, <1>3, <1>4, <1>5, <1>6 DEF NodeInv, Owners
  <2>3. \A u \in Users : OrdersOfPlayers(snapshot'[u].order)
    BY <1>4, <1>5, BlankOrder DEF OrdersOfPlayers, NodeInv, Owners
  <2> QED BY <2>1, <2>2, <2>3 DEF Owners, OrdersOfPlayers
<1>8. PeersApart'
  BY <1>1, <1>4, <1>5, <1>6 DEF NodeInv, PeersApart
<1> QED BY <1>7, <1>8

LEMMA ResumeLiveOwners ==
  ASSUME NodeInv, KindsStay, NEW p \in PlayerIds, NEW r \in RoomIds, ResumeLive(p, r)
  PROVE  Owners' /\ PeersApart'
<1> DEFINE me == NameOf(p)
           game == [snapshot[me] EXCEPT !.order = << >>]
<1>1. /\ rooms' = rooms /\ timers' \subseteq timers
      /\ snapshot' = snapshot \/ snapshot' = [snapshot EXCEPT ![me] = game]
  BY DEF ResumeLive, Sleeping
<1>2. me \in Users
  BY NameOfType
<1>3. /\ snapshot[me] \in [room : RoomIds \cup {None}, order : Seq(Users)]
      /\ snapshot \in [Users -> [room : RoomIds \cup {None}, order : Seq(Users)]]
  BY <1>2 DEF NodeInv, IInv, SnapshotTypes
<1>4. game.order = << >> /\ game.room = snapshot[me].room
  BY <1>3
<1> HIDE DEF game, me
<1>5. \A u \in Users :
        \/ snapshot'[u] = snapshot[u]
        \/ u = me /\ snapshot'[u] = game
  BY <1>1, <1>3
<1>6. \A u \in Users :
        /\ snapshot'[u].room = snapshot[u].room
        /\ \/ snapshot'[u].order = snapshot[u].order
           \/ OrdersOfPlayers(snapshot'[u].order)
  BY <1>4, <1>5, BlankOrder
<1> QED BY <1>1, <1>6, OwnersStep

LEMMA ResumeLostOwners ==
  ASSUME NodeInv, KindsStay, NEW p \in PlayerIds, NEW r \in RoomIds, ResumeLost(p, r)
  PROVE  Owners' /\ PeersApart'
<1> DEFINE me == NameOf(p)
<1>1. /\ rooms' = rooms \cup {r} /\ r \notin rooms /\ snapshot' = snapshot
      /\ snapshot[me].room = r
      /\ \E after : room' = [room EXCEPT ![r] = after] /\ (after.hosted <=> me \in Nodes)
      /\ \A t \in timers' : t \in timers \/ t.kind = "seat"
  <2>1. rooms' = rooms \cup {r} /\ r \notin rooms /\ snapshot' = snapshot
        /\ snapshot[me].room = r
    BY DEF ResumeLost, MayResume
  <2>2. \E seats :
          room' = [room EXCEPT ![r] = NewRoom(p, me \in Nodes, TRUE, seats)]
    BY DEF ResumeLost
  <2>3. \A seats : NewRoom(p, me \in Nodes, TRUE, seats).hosted <=> me \in Nodes
    BY DEF NewRoom
  <2>4. \E absent : timers' = timers \cup {Grace("seat", r, q, 0) : q \in absent}
    BY DEF ResumeLost
  <2>5. \A t \in timers' : t \in timers \/ t.kind = "seat"
    BY <2>4 DEF Grace
  <2> QED BY <2>1, <2>2, <2>3, <2>5
<1>2. me \in Users /\ r # None /\ IInv
  BY NameOfType, NoneAssumption DEF NodeInv
<1>3. PICK after : room' = [room EXCEPT ![r] = after] /\ (after.hosted <=> me \in Nodes)
  BY <1>1
<1> HIDE DEF me
<1>4. room'[r] = after /\ \A q \in rooms : room'[q].hosted = room[q].hosted
  BY <1>1, <1>2, <1>3 DEF IInv, RoomTypes, KindsStay
<1>5. Owners'
  <2>1. \A u \in Users : snapshot[u].room \in rooms' =>
          (room'[snapshot[u].room].hosted <=> u \in Nodes)
    BY <1>1, <1>2, <1>3, <1>4 DEF NodeInv, Owners
  <2> QED BY <1>1, <2>1 DEF NodeInv, Owners
<1>6. PeersApart'
  <2> SUFFICES ASSUME NEW t \in timers', t.kind = "peer"
               PROVE  /\ t.room \in rooms' => ~room'[t.room].hosted
                      /\ \A u \in Users \cap Nodes : snapshot'[u].room # t.room
    BY DEF PeersApart
  <2>1. t \in timers
    BY <1>1
  <2>2. /\ t.room \in rooms => ~room[t.room].hosted
        /\ \A u \in Users \cap Nodes : snapshot[u].room # t.room
    BY <2>1 DEF NodeInv, PeersApart
  <2>3. t.room = r => ~(me \in Nodes)
    BY <1>1, <1>2, <2>2
  <2> QED BY <1>1, <1>3, <1>4, <2>2, <2>3
<1> QED BY <1>5, <1>6

LEMMA DisconnectOwners ==
  ASSUME NodeInv, KindsStay, NEW p, NEW g, Disconnect(p, g)
  PROVE  Owners' /\ PeersApart'
<1> DEFINE r == roomOf[p]
<1>1. snapshot' = snapshot
  BY DEF Disconnect, DisconnectIgnored, DisconnectRoomless, DisconnectInGame,
         DisconnectLobby
<1>2. CASE DisconnectInGame(p, g)
  <2>1. /\ rooms' = rooms /\ r \in rooms
        /\ timers' = timers \cup {Grace(k, r, p, g) : k \in GraceKinds(room[r], p)}
    BY <1>2 DEF DisconnectInGame
  <2>2. \A k \in GraceKinds(room[r], p) : k = "peer" => ~room[r].hosted
    BY DEF GraceKinds
  <2>3. \A t \in timers' : t.kind = "peer" =>
          t \in timers \/ (t.room \in rooms /\ ~room[t.room].hosted)
    BY <2>1, <2>2 DEF Grace
  <2> QED BY <1>1, <2>1, <2>3, OwnersStep
<1>3. CASE ~DisconnectInGame(p, g)
  <2>1. rooms' \subseteq rooms /\ timers' \subseteq timers
    BY <1>3 DEF Disconnect, DisconnectIgnored, DisconnectRoomless,
                DisconnectLobby, RemoveRoom, Sleeping, roomVars
  <2> QED BY <1>1, <2>1, SameOwners
<1> QED BY <1>2, <1>3

LEMMA CommandOwners ==
  ASSUME NodeInv, KindsStay, NEW p \in PlayerIds, Command(p)
  PROVE  Owners' /\ PeersApart'
<1>1. CASE LeaveRoom(p)
  <2>1. rooms' \subseteq rooms /\ Told({p}) /\ timers' \subseteq timers
    BY <1>1 DEF LeaveRoom, RemoveRoom, Sleeping
  <2> QED BY <2>1, ToldOwners
<1>2. CASE EndGame(p)
  <2>1. rooms' = rooms /\ timers' \subseteq timers
        /\ \E informed : Told(informed)
    BY <1>2 DEF EndGame, ResetToLobby, Sleeping
  <2> QED BY <2>1, ToldOwners
<1>3. ASSUME NEW r \in RoomIds, JoinLobby(p, r) \/ Observe(p, r) \/ Rejoin(p, r)
      PROVE  Owners' /\ PeersApart'
  BY <1>3, SameOwners DEF JoinLobby, Observe, Rejoin, Sleeping
<1> QED BY <1>1, <1>2, <1>3, StartGameOwners, CreateRoomOwners, ResumeLiveOwners,
           ResumeLostOwners
        DEF Command

LEMMA TimerOwners ==
  ASSUME NodeInv, KindsStay, NEW t \in timers, TimerExpires(t)
  PROVE  Owners' /\ PeersApart'
<1>1. rooms' \subseteq rooms /\ timers' \subseteq timers
  BY DEF TimerExpires, HostNeverResumed, PeerHostLost, ForfeitSeat, TimerDisarmed,
         RemoveRoom, ResetToLobby, Sleeping, roomVars
<1>2. snapshot' = snapshot \/ \E informed : Told(informed)
  BY DEF TimerExpires, HostNeverResumed, PeerHostLost, ForfeitSeat, TimerDisarmed,
         ResetToLobby
<1> QED BY <1>1, <1>2, SameOwners, ToldOwners

LEMMA SweepOwners ==
  ASSUME NodeInv, KindsStay, NEW r \in RoomIds, Sweep(r)
  PROVE  Owners' /\ PeersApart'
<1>1. rooms' \subseteq rooms /\ timers' \subseteq timers
  BY DEF Sweep, SweepKeep, SweepEmptyLobby, SweepHumanless, RemoveRoom,
         ResetToLobby, Sleeping
<1>2. snapshot' = snapshot \/ \E informed : Told(informed)
  BY DEF Sweep, SweepKeep, SweepEmptyLobby, SweepHumanless, ResetToLobby
<1> QED BY <1>1, <1>2, SameOwners, ToldOwners

LEMMA ForgetOwners ==
  ASSUME NodeInv, NEW u \in Users, Forget(u)
  PROVE  Owners' /\ PeersApart'
<1>1. /\ snapshot' = [snapshot EXCEPT ![u] = NoGame]
      /\ UNCHANGED <<rooms, room, timers>>
  BY DEF Forget, roomVars
<1>2. NoGame.room = None /\ NoGame.order = << >>
  BY DEF NoGame
<1>3. None \notin rooms /\ \A t \in timers : t.room # None
  BY NoneAssumption DEF NodeInv, IInv, RoomTypes, TimerTypes, Timer
<1> HIDE DEF NoGame
<1>4. /\ snapshot'[u] = NoGame
      /\ \A v \in Users \ {u} : snapshot'[v] = snapshot[v]
  BY <1>1 DEF NodeInv, IInv, SnapshotTypes
<1>5. Owners'
  <2>1. \A v \in Users : OrdersOfPlayers(snapshot'[v].order)
    BY <1>2, <1>4, BlankOrder DEF OrdersOfPlayers, NodeInv, Owners
  <2> QED BY <1>1, <1>2, <1>3, <1>4, <2>1 DEF NodeInv, Owners, OrdersOfPlayers
<1>6. PeersApart'
  BY <1>1, <1>2, <1>3, <1>4 DEF NodeInv, PeersApart
<1> QED BY <1>5, <1>6

LEMMA CommandHosts ==
  ASSUME NodeInv, IInv', Apart, NEW p \in PlayerIds, Command(p)
  PROVE  Hosts' /\ KindsStay
BY LeaveRoomHosts, StartGameHosts, EndGameHosts, CreateRoomHosts, EnterHosts,
   RejoinHosts, ResumeLiveHosts, ResumeLostHosts
DEF Command

LEMMA InitNodes == Init => NodeInv
BY NoneAssumption, InitIInv
DEF Init, NodeInv, SessionListed, Unplaced, Hosts, Owners, PeersApart, NoGame

LEMMA StepNodes ==
  ASSUME Apart, NodeInv, [Next]_vars
  PROVE  NodeInv'
<1>1. IInv' /\ SessionListed' /\ Unplaced'
  BY StepIInv, StepListed, StepUnplaced DEF NodeInv
<1>2. ASSUME NEW u \in Users, NewSession(u) PROVE NodeInv'
  <2>1. Hosts' /\ KindsStay
    BY <1>1, <1>2, NewSessionHosts
  <2>2. rooms' = rooms /\ snapshot' = snapshot /\ timers' = timers
    BY <1>2 DEF NewSession
  <2> QED BY <1>1, <2>1, <2>2, SameOwners DEF NodeInv
<1>3. ASSUME NEW u \in Users, Forget(u) PROVE NodeInv'
  <2>1. UNCHANGED <<players, connected, roomOf, rooms, room, timers>>
    BY <1>3 DEF Forget, sessionVars, roomVars
  <2>2. Hosts'
    BY <2>1 DEF NodeInv, Hosts
  <2> QED BY <1>1, <1>3, <2>2, ForgetOwners DEF NodeInv
<1>4. ASSUME NEW p \in PlayerIds, Reclaim(p) PROVE NodeInv'
  <2>1. Hosts' /\ KindsStay
    BY <1>1, <1>4, ReclaimHosts
  <2>2. rooms' = rooms /\ snapshot' = snapshot /\ timers' = timers
    BY <1>4 DEF Reclaim
  <2> QED BY <1>1, <2>1, <2>2, SameOwners DEF NodeInv
<1>5. ASSUME NEW p \in PlayerIds, Command(p) PROVE NodeInv'
  BY <1>1, <1>5, CommandHosts, CommandOwners DEF NodeInv
<1>6. ASSUME NEW s \in sockets, Disconnect(s[1], s[2]) PROVE NodeInv'
  BY <1>1, <1>6, DisconnectHosts, DisconnectOwners DEF NodeInv
<1>7. ASSUME NEW t \in timers, TimerExpires(t) PROVE NodeInv'
  BY <1>1, <1>7, TimerHosts, TimerOwners DEF NodeInv
<1>8. ASSUME NEW r \in RoomIds, Sweep(r) PROVE NodeInv'
  BY <1>1, <1>8, SweepHosts, SweepOwners DEF NodeInv
<1>9. CASE RelayRestart
  <2>1. rooms' = {} /\ timers' = {} /\ snapshot' = snapshot
    BY <1>9 DEF RelayRestart
  <2>2. Hosts' /\ PeersApart' /\ KindsStay
    BY <2>1 DEF Hosts, PeersApart, KindsStay
  <2> QED BY <1>1, <2>1, <2>2, SameOwners DEF NodeInv
<1>10. CASE UNCHANGED vars
  BY <1>1, <1>10 DEF vars, NodeInv, Hosts, Owners, PeersApart
<1> QED BY <1>2, <1>3, <1>4, <1>5, <1>6, <1>7, <1>8, <1>9, <1>10 DEF Next

(* On a relay of rooms of any kind, the nodes and the rooms they host stay  *)
(* in step; the theorems below are read off this invariant.                 *)
THEOREM NodesKept ==
  ASSUME Apart
  PROVE  Spec => []NodeInv
<1>1. NodeInv /\ [Next]_vars => NodeInv'
  BY StepNodes
<1> QED BY <1>1, InitNodes, PTL DEF Spec

(* HostWatches: a hosted room's node keeps its observer slot through every  *)
(* takeover, alone of all nodes, and while it is away in a game a timer     *)
(* runs, whatever other rooms the relay serves (cleanup.rs:137).            *)
THEOREM NodesWatch ==
  ASSUME Apart
  PROVE  Spec => []HostWatches
<1>1. NodeInv => HostWatches
  BY DEF NodeInv, Hosts, Anchored, HostWatched, HostWatches
<1> QED BY <1>1, NodesKept, PTL

----------------------------------------------------------------------------
(* What ends the running game of a hosted room.                             *)

Cause(r) ==
  \/ ~HasConnectedHuman(room[r])
  \/ room[r].host \notin room[r].up
  \/ EndGame(room[r].host)
  \/ RelayRestart

GameKept(r) ==
  room[r].hosted /\ room[r].inGame /\ (r \notin rooms' \/ ~room'[r].inGame) => Cause(r)

(* A handler that works on room r ends no game but that of r.               *)
LEMMA GameOver ==
  ASSUME NodeInv, NEW r \in rooms, rooms \ {r} \subseteq rooms',
         \A q \in RoomIds \ {r} : room'[q] = room[q],
         room[r].hosted /\ room[r].inGame => Cause(r)
  PROVE  \A q \in rooms : GameKept(q)
BY DEF GameKept, NodeInv, IInv, RoomTypes

LEMMA GameWritten ==
  ASSUME NodeInv, NEW r \in RoomIds, NEW after, rooms \subseteq rooms',
         room' = [room EXCEPT ![r] = after],
         r \in rooms /\ room[r].inGame => after.inGame
  PROVE  \A q \in rooms : GameKept(q)
BY DEF GameKept, NodeInv, IInv, RoomTypes

LEMMA GamesSame ==
  ASSUME UNCHANGED <<rooms, room>>
  PROVE  \A q \in rooms : GameKept(q)
BY DEF GameKept

LEMMA GameRemoved ==
  ASSUME NodeInv, NEW r \in rooms, NEW live, NEW others, NEW tasks,
         RemoveRoom(r, live, others, tasks),
         room[r].hosted /\ room[r].inGame => Cause(r)
  PROVE  \A q \in rooms : GameKept(q)
<1>1. /\ rooms' = rooms \ {r}
      /\ \A q \in RoomIds \ {r} : room'[q] = room[q]
  BY NodeRoom, RemoveRoomLeaves
<1> QED BY <1>1, GameOver

LEMMA GameReset ==
  ASSUME NodeInv, NEW r \in rooms, ResetToLobby(r),
         room[r].hosted /\ room[r].inGame => Cause(r)
  PROVE  \A q \in rooms : GameKept(q)
<1>1. rooms' = rooms /\ room' = [room EXCEPT ![r] = LobbyRoom(room[r])]
  BY DEF ResetToLobby
<1>2. \A q \in RoomIds \ {r} : room'[q] = room[q]
  BY <1>1 DEF NodeInv, IInv, RoomTypes
<1> QED BY <1>1, <1>2, GameOver

LEMMA WithUpGame ==
  ASSUME NEW rm \in Room, NEW p, NEW isUp
  PROVE  WithUp(rm, p, isUp).inGame = rm.inGame
BY DEF WithUp, Room

LEMMA CommandGames ==
  ASSUME NodeInv, NEW p \in PlayerIds, Command(p)
  PROVE  \A q \in rooms : GameKept(q)
<1>1. CASE LeaveRoom(p)
  <2> DEFINE r == roomOf[p]
             after == WithoutParticipant(room[r], p)
  <2>1. /\ r \in rooms /\ NameOf(p) \notin Nodes
        /\ IF after.up = {} THEN RemoveRoom(r, connected, {}, sockets)
           ELSE room' = [room EXCEPT ![r] = after] /\ rooms' = rooms
    BY <1>1 DEF LeaveRoom
  <2>2. r \in RoomIds /\ room[r] \in Room /\ Anchored(room[r])
    BY <2>1, NodeRoom
  <2>3. Keeps(room[r], after)
    BY <2>2, <2>1, WithoutKeeps
  <2>4. after.inGame = room[r].inGame
    BY <2>2, WithoutPlayerIs DEF WithoutParticipant, Room
  <2>5. after.up = {} /\ room[r].hosted => Cause(r)
    BY <2>3 DEF Keeps, Cause
  <2> HIDE DEF after, r
  <2> QED BY <2>1, <2>2, <2>4, <2>5, GameRemoved, GameWritten
<1>7. CASE EndGame(p)
  <2>1. /\ roomOf[p] \in rooms /\ room[roomOf[p]].host = p
        /\ ResetToLobby(roomOf[p])
    BY <1>7 DEF EndGame
  <2>2. Cause(roomOf[p])
    BY <1>7, <2>1 DEF Cause
  <2> QED BY <2>1, <2>2, GameReset
<1>2. CASE StartGame(p)
  <2>1. /\ roomOf[p] \in rooms /\ ~room[roomOf[p]].inGame /\ rooms' = rooms
        /\ room' = [room EXCEPT ![roomOf[p]].inGame = TRUE]
    BY <1>2 DEF StartGame
  <2> QED BY <2>1, NodeRoom, GameWritten
<1>3. ASSUME NEW r \in RoomIds, CreateRoom(p, r) \/ ResumeLost(p, r)
      PROVE  \A q \in rooms : GameKept(q)
  <2>1. /\ r \notin rooms /\ rooms \subseteq rooms'
        /\ \E after : room' = [room EXCEPT ![r] = after]
    BY <1>3 DEF CreateRoom, ResumeLost
  <2> QED BY <2>1, GameWritten
<1>4. ASSUME NEW r \in RoomIds, JoinLobby(p, r) \/ Observe(p, r)
      PROVE  \A q \in rooms : GameKept(q)
  <2>1. /\ ~room[r].inGame /\ rooms' = rooms
        /\ \E after : room' = [room EXCEPT ![r] = after]
    BY <1>4 DEF JoinLobby, Observe
  <2> QED BY <2>1, GameWritten
<1>5. ASSUME NEW r \in RoomIds, Rejoin(p, r)
      PROVE  \A q \in rooms : GameKept(q)
  <2>1. /\ r \in rooms /\ rooms' = rooms
        /\ \E old : room' = [room EXCEPT ![r] = Rekeyed(room[r], old, p)]
    BY <1>5 DEF Rejoin
  <2>2. \A old : Rekeyed(room[r], old, p).inGame = room[r].inGame
    BY <2>1, NodeRoom DEF Rekeyed, Room
  <2> QED BY <2>1, <2>2, GameWritten
<1>6. ASSUME NEW r \in RoomIds, ResumeLive(p, r)
      PROVE  \A q \in rooms : GameKept(q)
  <2>1. /\ r \in rooms /\ rooms' = rooms
        /\ room' = [room EXCEPT ![r] = HandedTo(room[r], p)]
    BY <1>6 DEF ResumeLive
  <2>2. \A q \in RoomIds \ {r} : room'[q] = room[q]
    BY <2>1 DEF NodeInv, IInv, RoomTypes
  <2>3. CASE room[r].hosted
    BY <2>1, <2>3, NodeRoom, HandedHosted, GameWritten
  <2>4. CASE ~room[r].hosted
    BY <2>1, <2>2, <2>4, GameOver
  <2> QED BY <2>3, <2>4
<1> QED BY <1>1, <1>2, <1>3, <1>4, <1>5, <1>6, <1>7 DEF Command

LEMMA ReclaimGames ==
  ASSUME NodeInv, NEW p \in PlayerIds, Reclaim(p)
  PROVE  \A q \in rooms : GameKept(q)
<1>1. /\ rooms' = rooms
      /\ room' = IF roomOf[p] \in rooms
                 THEN [room EXCEPT ![roomOf[p]] = WithUp(room[roomOf[p]], p, TRUE)]
                 ELSE room
  BY DEF Reclaim
<1> QED BY <1>1, NodeRoom, WithUpGame, GameWritten, GamesSame

LEMMA DisconnectGames ==
  ASSUME NodeInv, NEW p, NEW g, Disconnect(p, g)
  PROVE  \A q \in rooms : GameKept(q)
<1> DEFINE r == roomOf[p]
<1>1. CASE DisconnectIgnored(p, g) \/ DisconnectRoomless(p, g)
  BY <1>1, GamesSame DEF DisconnectIgnored, DisconnectRoomless, roomVars
<1>2. CASE DisconnectInGame(p, g)
  <2>1. /\ r \in rooms /\ rooms' = rooms
        /\ room' = [room EXCEPT ![r] = WithUp(room[r], p, FALSE)]
    BY <1>2 DEF DisconnectInGame
  <2> HIDE DEF r
  <2> QED BY <2>1, NodeRoom, WithUpGame, GameWritten
<1>3. CASE DisconnectLobby(p, g)
  <2>1. /\ r \in rooms /\ ~room[r].inGame
        /\ \/ RemoveRoom(r, connected \ {p}, {p}, sockets)
           \/ /\ rooms' = rooms
              /\ room' = [room EXCEPT ![r] = WithoutParticipant(room[r], p)]
    BY <1>3 DEF DisconnectLobby
  <2> HIDE DEF r
  <2> QED BY <2>1, NodeRoom, GameRemoved, GameWritten
<1> QED BY <1>1, <1>2, <1>3 DEF Disconnect

LEMMA TimerGames ==
  ASSUME NodeInv, NEW t \in timers, TimerExpires(t)
  PROVE  \A q \in rooms : GameKept(q)
<1> DEFINE r == t.room
<1>1. CASE HostNeverResumed(t)
  <2>1. /\ r \in rooms /\ room[r].host = t.player /\ t.player \notin connected
        /\ RemoveRoom(r, connected, {}, sockets)
    BY <1>1 DEF HostNeverResumed, HostStillGone
  <2>2. room[r].hosted => Cause(r)
    BY <2>1, NodeRoom DEF HostBacked, Cause
  <2> HIDE DEF r
  <2> QED BY <2>1, <2>2, GameRemoved
<1>2. CASE PeerHostLost(t)
  <2>1. t.kind = "peer" /\ r \in rooms /\ ResetToLobby(r)
    BY <1>2 DEF PeerHostLost, HostStillGone
  <2>2. ~room[r].hosted
    BY <2>1 DEF NodeInv, PeersApart
  <2> HIDE DEF r
  <2> QED BY <2>1, <2>2, GameReset
<1>3. CASE ForfeitSeat(t)
  <2>1. /\ r \in rooms /\ t.player \in Seated(room[r]) /\ rooms' = rooms
        /\ room' = [room EXCEPT ![r] = WithoutPlayer(room[r], t.player)]
    BY <1>3 DEF ForfeitSeat, SeatStillGone
  <2>2. WithoutPlayer(room[r], t.player).inGame = room[r].inGame
    BY <2>1, NodeRoom, WithoutPlayerIs
  <2> HIDE DEF r
  <2> QED BY <2>1, <2>2, NodeRoom, GameWritten
<1>4. CASE TimerDisarmed(t)
  BY <1>4, GamesSame DEF TimerDisarmed, roomVars
<1> QED BY <1>1, <1>2, <1>3, <1>4 DEF TimerExpires

LEMMA SweepGames ==
  ASSUME NodeInv, NEW r \in RoomIds, Sweep(r)
  PROVE  \A q \in rooms : GameKept(q)
<1>1. CASE SweepKeep(r)
  <2>1. /\ r \in rooms /\ rooms' = rooms
        /\ room' = [room EXCEPT ![r] = [room[r] EXCEPT !.idle = Humanless(room[r])]]
    BY <1>1 DEF SweepKeep
  <2>2. [room[r] EXCEPT !.idle = Humanless(room[r])].inGame = room[r].inGame
    BY <2>1, NodeRoom DEF Room
  <2> QED BY <2>1, <2>2, GameWritten
<1>2. CASE SweepEmptyLobby(r)
  <2>1. /\ r \in rooms /\ ~room[r].inGame /\ RemoveRoom(r, connected, {}, sockets)
    BY <1>2 DEF SweepEmptyLobby
  <2> QED BY <2>1, GameRemoved
<1>3. CASE SweepHumanless(r)
  <2>1. /\ r \in rooms /\ ~HasConnectedHuman(room[r])
        /\ ResetToLobby(r) \/ RemoveRoom(r, connected, Seated(room[r]), sockets)
    BY <1>3 DEF SweepHumanless, Humanless
  <2>2. Cause(r)
    BY <2>1 DEF Cause
  <2> QED BY <2>1, <2>2, GameReset, GameRemoved
<1> QED BY <1>1, <1>2, <1>3 DEF Sweep

LEMMA StepGames ==
  ASSUME NodeInv, [Next]_vars
  PROVE  \A q \in rooms : GameKept(q)
<1>1. ASSUME NEW u \in Users, NewSession(u) \/ Forget(u)
      PROVE  \A q \in rooms : GameKept(q)
  BY <1>1, GamesSame DEF NewSession, Forget, roomVars
<1>2. CASE RelayRestart
  BY <1>2 DEF GameKept, Cause
<1>3. CASE UNCHANGED vars
  BY <1>3, GamesSame DEF vars
<1>4. ASSUME NEW p \in PlayerIds, Reclaim(p) \/ Command(p)
      PROVE  \A q \in rooms : GameKept(q)
  BY <1>4, ReclaimGames, CommandGames
<1>5. ASSUME NEW s \in sockets, Disconnect(s[1], s[2])
      PROVE  \A q \in rooms : GameKept(q)
  BY <1>5, DisconnectGames
<1>6. ASSUME NEW t \in timers, TimerExpires(t)
      PROVE  \A q \in rooms : GameKept(q)
  BY <1>6, TimerGames
<1>7. ASSUME NEW r \in RoomIds, Sweep(r)
      PROVE  \A q \in rooms : GameKept(q)
  BY <1>7, SweepGames
<1> QED BY <1>1, <1>2, <1>3, <1>4, <1>5, <1>6, <1>7 DEF Next

(* GameEndsForCause: on a relay of rooms of any kind, the running game of a *)
(* hosted room stops because nobody human is connected, its node is away or *)
(* ended it, or the relay restarted; no player who leaves, peer host's      *)
(* timer or sweep ends it (cleanup.rs:61, cleanup.rs:137).                  *)
THEOREM NoGameCutShort ==
  ASSUME Apart
  PROVE  Spec => GameEndsForCause
<1>1. NodeInv /\ [Next]_vars =>
        [\A r \in rooms :
           /\ room[r].hosted /\ room[r].inGame
           /\ r \notin rooms' \/ ~room'[r].inGame
           => \/ ~HasConnectedHuman(room[r])
              \/ room[r].host \notin room[r].up
              \/ EndGame(room[r].host)
              \/ RelayRestart]_vars
  BY StepGames DEF GameKept, Cause
<1> QED BY <1>1, NodesKept, PTL DEF Spec, GameEndsForCause
====
