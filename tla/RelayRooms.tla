---- MODULE RelayRooms ----
(***************************************************************************)
(* Sessions, rooms and reconnect timers of the relay                       *)
(* (manabrew-rs/crates/manabrew-server).  Every websocket command, every   *)
(* disconnect, every timer expiry and every sweep of a room is one action; *)
(* SessionHandover looks inside the two handlers whose lock gaps matter.   *)
(***************************************************************************)
EXTENDS Naturals, FiniteSets, Sequences, SequencesExt

CONSTANTS
  Humans,         \* usernames of people, whose clients prove an identity
  Bots,           \* usernames of bot clients: they join with as_bot = true
  Nodes,          \* usernames of self-hosted nodes: they create hosted rooms
  Founders,       \* the users who create rooms
  RoomIds,
  None,
  LateCommands,   \* whether a replaced connection still has commands in flight
  IdsOf,          \* bound: how many player ids of a username are in use at a time
  MaxGeneration,  \* bound: reclaims of one session
  MaxSockets,     \* bound: connection tasks at a time, evicted ones included
  MaxPlayers,     \* Room.max_players
  MaxTimers       \* bound: pending grace timers

Users == Humans \cup Bots \cup Nodes
PlayerIds == UNION {{u} \X (1..IdsOf[u]) : u \in Users}
NameOf(p) == p[1]

ASSUME BoundsAssumption ==
  /\ IdsOf \in [Users -> Nat] /\ MaxGeneration \in Nat /\ MaxSockets \in Nat
  /\ MaxPlayers \in Nat /\ MaxTimers \in Nat
ASSUME UsersAssumption == Founders \subseteq Humans \cup Nodes /\ LateCommands \in BOOLEAN
ASSUME NoneAssumption == None \notin RoomIds /\ None \notin PlayerIds

VARIABLES
  players,      \* keys of ServerState.players
  connected,    \* the sessions with ConnectedPlayer.connected
  generation,   \* ConnectedPlayer.generation
  roomOf,       \* ConnectedPlayer.room_id
  sockets,      \* connection tasks still in their read loop: <<id, generation>>
  rooms,        \* keys of ServerState.rooms
  room,         \* ServerState.rooms
  timers,       \* the sleeping grace timers
  snapshot      \* the room whose resume_token a client holds, and the seat order
                \* of the game it runs there

sessionVars == <<players, connected, generation, roomOf>>
roomVars == <<rooms, room>>
vars == <<players, connected, generation, roomOf, sockets, rooms, room, timers,
          snapshot>>

Room == [host : PlayerIds \cup {None}, hosted : BOOLEAN, inGame : BOOLEAN,
         seats : Seq(PlayerIds), watchers : SUBSET PlayerIds,
         up : SUBSET PlayerIds,
         idle : BOOLEAN]   \* whether humanless_since is set

VacantRoom == [host |-> None, hosted |-> FALSE, inGame |-> FALSE,
               seats |-> << >>, watchers |-> {}, up |-> {}, idle |-> FALSE]

(* A timer task captures the room and the player id.  gen is history: the    *)
(* generation whose disconnect armed it.  All sleep equally long, but they   *)
(* may expire in any order here.                                             *)
TimerKinds == {"host", "peer", "seat"}
Timer == [kind : TimerKinds, room : RoomIds, player : PlayerIds, gen : 0..MaxGeneration]

NoGame == [room |-> None, order |-> << >>]

Init ==
  /\ players = {} /\ connected = {} /\ sockets = {}
  /\ generation = [p \in PlayerIds |-> 0]
  /\ roomOf = [p \in PlayerIds |-> None]
  /\ rooms = {}
  /\ room = [r \in RoomIds |-> VacantRoom]
  /\ timers = {}
  /\ snapshot = [u \in Users |-> NoGame]

----------------------------------------------------------------------------
(* Room: what the roster says.                                              *)

Seated(rm) == Range(rm.seats)
Members(rm) == Seated(rm) \cup rm.watchers
IsBot(p) == NameOf(p) \in Bots

Controller(rm) ==
  LET people == SelectSeq(rm.seats, LAMBDA p : ~IsBot(p))
  IN IF people # << >> THEN Head(people)
     ELSE IF rm.seats # << >> THEN Head(rm.seats) ELSE None

HasConnectedHuman(rm) ==
  \/ \E p \in Seated(rm) : p \in rm.up /\ ~IsBot(p)
  \/ \E p \in rm.watchers : p \in rm.up /\ ~(rm.hosted /\ p = rm.host)

(* Broken: set_connected only looks for a seat.                             *)
WithUpSeatsOnly(rm, p, isUp) ==
  IF p \notin Seated(rm) THEN rm
  ELSE [rm EXCEPT !.up = IF isUp THEN @ \cup {p} ELSE @ \ {p}]

WithUp(rm, p, isUp) ==
  IF p \notin Members(rm) THEN rm
  ELSE [rm EXCEPT !.up = IF isUp THEN @ \cup {p} ELSE @ \ {p}]

(* Room::new: a node hosts from an observer slot, a player from its seat.   *)
NewRoom(p, hosted, inGame, seats) ==
  [host |-> p, hosted |-> hosted, inGame |-> inGame, seats |-> seats,
   watchers |-> IF hosted THEN {p} ELSE {}, up |-> {p}, idle |-> FALSE]

WithPlayer(rm, p) ==
  [rm EXCEPT !.seats = Append(@, p), !.up = @ \cup {p}]

WithObserver(rm, p) ==
  [rm EXCEPT !.watchers = @ \cup {p}, !.up = @ \cup {p}]

SeatIndex(rm, p) == CHOOSE i \in DOMAIN rm.seats : rm.seats[i] = p

(* remove_player promotes the first remaining seat when the host leaves.    *)
WithoutPlayer(rm, p) ==
  LET left == RemoveAt(rm.seats, SeatIndex(rm, p))
  IN [rm EXCEPT !.seats = left, !.up = @ \ {p},
                !.host = IF @ = p /\ left # << >> THEN Head(left) ELSE @]

WithoutParticipant(rm, p) ==
  IF p \in Seated(rm) THEN WithoutPlayer(rm, p)
  ELSE [rm EXCEPT !.watchers = @ \ {p}, !.up = @ \ {p}]

(* Broken: a rejoin takes a further seat.                                   *)
RekeyedAsNewSeat(rm, old, new) == WithPlayer(rm, new)

Rekeyed(rm, old, new) ==
  [rm EXCEPT !.seats[SeatIndex(rm, old)] = new, !.up = (@ \ {old}) \cup {new}]

----------------------------------------------------------------------------
(* Effects shared by the handlers.                                          *)

(* ServerState.players after a handler: the surviving ids, the connected    *)
(* ones among them, and the room each is in.  tasks are the connections     *)
(* still being read; one whose session is gone can change nothing any more  *)
(* and is dropped.                                                          *)
Sessions(survivors, live, location, tasks) ==
  /\ players' = survivors
  /\ sockets' = {s \in tasks : s[1] \in survivors}
  /\ connected' = live \cap survivors
  /\ roomOf' = [p \in PlayerIds |-> IF p \in survivors THEN location[p] ELSE None]
  /\ generation' = [p \in PlayerIds |-> IF p \in survivors THEN generation[p] ELSE 0]

(* Broken: nobody's session is removed; nobody's room is cleared.           *)
SurvivorsAll(released, live) == players
EvacuatedNobody(released) == roomOf

(* The rule teardown and reset share: of the sessions let go of, the        *)
(* disconnected ones are removed and the others are in no room any more.    *)
Survivors(released, live) == players \ (released \ live)

Evacuated(released) ==
  [p \in PlayerIds |-> IF p \in released THEN None ELSE roomOf[p]]

(* remove_room_and_clear_sessions: sessions that were already disconnected  *)
(* go with the room, connected ones return to the lobby.  live is the set   *)
(* of connected sessions at that point of the caller, others the sessions   *)
(* it has already let go of besides those in the room.                      *)
RemoveRoom(r, live, others, tasks) ==
  LET released == {p \in players : roomOf[p] = r} \cup others
  IN /\ rooms' = rooms \ {r}
     /\ room' = [room EXCEPT ![r] = VacantRoom]
     /\ Sessions(Survivors(released, live), live, Evacuated(released), tasks)

(* A hosting client that learns its game is over no longer resumes it.      *)
Told(informed) ==
  snapshot' = [u \in Users |->
                IF \E p \in informed : NameOf(p) = u
                THEN [snapshot[u] EXCEPT !.order = << >>] ELSE snapshot[u]]

LobbyRoom(rm) ==
  [rm EXCEPT !.inGame = FALSE, !.seats = << >>, !.up = @ \cap rm.watchers]

(* reset_room_to_lobby: every seat is cleared, observers stay.              *)
ResetToLobby(r) ==
  LET cleared == Seated(room[r])
  IN /\ rooms' = rooms
     /\ room' = [room EXCEPT ![r] = LobbyRoom(@)]
     /\ Sessions(Survivors(cleared, connected), connected, Evacuated(cleared),
                 sockets)
     /\ Told(room[r].up)

Grace(kind, r, p, g) == [kind |-> kind, room |-> r, player |-> p, gen |-> g]

(* The timers left after a handler.  One whose player has neither a session *)
(* nor a place in the room any more can do nothing when it expires, and is  *)
(* left out.                                                                *)
Sleeping(set) ==
  timers' = {t \in set :
    \/ t.player \in players'
    \/ /\ t.room \in rooms'
       /\ t.player \in Seated(room'[t.room]) \cup {room'[t.room].host}}

----------------------------------------------------------------------------
(* Authentication.                                                          *)

Referenced(p) ==
  \/ p \in players
  \/ \E r \in rooms : p = room[r].host \/ p \in Members(room[r])
  \/ \E t \in timers : t.player = p

(* A uuid never issued before: an id that nothing refers to and that is not *)
(* among those given in the same step.  Taking the lowest one only avoids   *)
(* states that differ in the choice.                                        *)
FreshIds(u, given) ==
  {p \in {u} \X (1..IdsOf[u]) :
     /\ ~Referenced(p) /\ p \notin given
     /\ \A k \in 1..(p[2] - 1) : Referenced(<<u, k>>) \/ <<u, k>> \in given}

HasSocketSlot == Cardinality(sockets) < MaxSockets

(* Broken: only a connected session counts as the user's.                   *)
SessionsOfConnected(u) == {p \in connected : NameOf(p) = u}

SessionsOf(u) == {p \in players : NameOf(p) = u}

NewSession(u) ==
  /\ SessionsOf(u) = {} /\ HasSocketSlot
  /\ \E p \in FreshIds(u, {}) :
       /\ Sessions(players \cup {p}, connected \cup {p}, roomOf,
                   sockets \cup {<<p, 0>>})
  /\ UNCHANGED <<rooms, room, timers, snapshot>>

(* session_by_username prefers a disconnected session.  A connected one is  *)
(* reclaimed by a client that proves it owns it, which evicts the old       *)
(* socket, and by anyone once its writer has stopped, just before its read  *)
(* loop ends: either way the old connection goes on for a while.            *)
Reclaim(p) ==
  /\ p \in players
  /\ p \in connected => SessionsOf(NameOf(p)) \subseteq connected
  /\ generation[p] < MaxGeneration /\ HasSocketSlot
  /\ connected' = connected \cup {p}
  /\ generation' = [generation EXCEPT ![p] = @ + 1]
  /\ sockets' = sockets \cup {<<p, generation[p] + 1>>}
  /\ room' = IF roomOf[p] \in rooms
             THEN [room EXCEPT ![roomOf[p]] = WithUp(@, p, TRUE)]
             ELSE room
  /\ UNCHANGED <<players, roomOf, rooms, timers, snapshot>>

----------------------------------------------------------------------------
(* Lobby commands.  The relay handles a command from any connection of the  *)
(* session whose task is still reading; a replaced one has been told to     *)
(* close, and LateCommands says whether its frames still come in.           *)

CanCommand(p) ==
  /\ p \in players
  /\ \E s \in sockets : s[1] = p /\ (LateCommands \/ s[2] = generation[p])

CreateRoom(p, r) ==
  /\ CanCommand(p) /\ NameOf(p) \in Founders
  /\ roomOf[p] = None
  /\ r \notin rooms /\ \A t \in timers : t.room # r
  /\ \A q \in players : roomOf[q] # r
  /\ \A u \in Users \ {NameOf(p)} : snapshot[u].room # r
  /\ rooms' = rooms \cup {r}
  /\ LET hosted == NameOf(p) \in Nodes
     IN room' = [room EXCEPT ![r] =
          NewRoom(p, hosted, FALSE, IF hosted THEN << >> ELSE <<p>>)]
  /\ roomOf' = [roomOf EXCEPT ![p] = r]
  /\ snapshot' = [snapshot EXCEPT ![NameOf(p)] = [room |-> r, order |-> << >>]]
  /\ UNCHANGED <<players, connected, generation, sockets, timers>>

JoinLobby(p, r) ==
  /\ CanCommand(p) /\ NameOf(p) \notin Nodes
  /\ roomOf[p] = None
  /\ r \in rooms /\ ~room[r].inGame
  /\ Len(room[r].seats) < MaxPlayers
  /\ p \notin Seated(room[r])
  /\ room' = [room EXCEPT ![r] = WithPlayer(@, p)]
  /\ roomOf' = [roomOf EXCEPT ![p] = r]
  /\ UNCHANGED <<players, connected, generation, sockets, rooms, timers, snapshot>>

Observe(p, r) ==
  /\ CanCommand(p) /\ NameOf(p) \in Humans
  /\ roomOf[p] = None
  /\ r \in rooms /\ ~room[r].inGame
  /\ p \notin Members(room[r])
  /\ room' = [room EXCEPT ![r] = WithObserver(@, p)]
  /\ roomOf' = [roomOf EXCEPT ![p] = r]
  /\ UNCHANGED <<players, connected, generation, sockets, rooms, timers, snapshot>>

(* A running game lets a username retake the first disconnected seat of     *)
(* that name; the seat is re-keyed to the new player id.                    *)
Rejoin(p, r) ==
  /\ CanCommand(p) /\ NameOf(p) \notin Nodes
  /\ roomOf[p] = None
  /\ r \in rooms /\ room[r].inGame
  /\ \E i \in DOMAIN room[r].seats :
       LET old == room[r].seats[i]
           free(q) == NameOf(q) = NameOf(p) /\ q \notin room[r].up
       IN /\ free(old) /\ \A j \in 1..(i - 1) : ~free(room[r].seats[j])
          /\ room' = [room EXCEPT ![r] = Rekeyed(@, old, p)]
  /\ roomOf' = [roomOf EXCEPT ![p] = r]
  /\ UNCHANGED <<players, connected, generation, sockets, rooms, snapshot>>
  /\ Sleeping(timers)

LeaveRoom(p) ==
  LET r == roomOf[p]
      left == WithoutParticipant(room[r], p)
  IN /\ CanCommand(p) /\ NameOf(p) \notin Nodes
     /\ r \in rooms
     /\ IF left.up = {}
        THEN RemoveRoom(r, connected, {}, sockets)
        ELSE /\ room' = [room EXCEPT ![r] = left]
             /\ roomOf' = [roomOf EXCEPT ![p] = None]
             /\ UNCHANGED <<players, connected, generation, sockets, rooms>>
     /\ Told({p})
     /\ Sleeping(timers)

(* Broken: the order is kept by player id.                                  *)
SeatOrderById(rm) == rm.seats

(* What the host's client keeps of a game it starts: usernames, since ids   *)
(* do not outlive the relay.                                                *)
SeatOrder(rm) == [i \in DOMAIN rm.seats |-> NameOf(rm.seats[i])]

StartGame(p) ==
  LET r == roomOf[p]
      rm == room[r]
  IN /\ CanCommand(p)
     /\ r \in rooms
     /\ p = Controller(rm) /\ ~rm.inGame /\ Len(rm.seats) >= 2
     /\ room' = [room EXCEPT ![r].inGame = TRUE]
     /\ snapshot' = IF rm.host \in rm.up /\ snapshot[NameOf(rm.host)].room = r
                    THEN [snapshot EXCEPT ![NameOf(rm.host)].order = SeatOrder(rm)]
                    ELSE snapshot
     /\ UNCHANGED <<sessionVars, sockets, rooms, timers>>

EndGame(p) ==
  /\ CanCommand(p)
  /\ roomOf[p] \in rooms
  /\ room[roomOf[p]].host = p /\ room[roomOf[p]].inGame
  /\ ResetToLobby(roomOf[p])
  /\ Sleeping(timers)

(* A node re-claims its room on every reconnect; a browser only does when   *)
(* the relay gave it a new session.                                         *)
MayResume(p, r) ==
  /\ CanCommand(p)
  /\ snapshot[NameOf(p)].room = r /\ snapshot[NameOf(p)].order # << >>
  /\ roomOf[p] = None \/ (roomOf[p] = r /\ NameOf(p) \in Nodes)

(* The claimant's place in its room: the old host's observer slot in a      *)
(* hosted room, the first seat of the claimant's name in a peer room.       *)
HandedTo(rm, p) ==
  LET claimed == [rm EXCEPT !.host = p]
      mine == {i \in DOMAIN rm.seats : NameOf(rm.seats[i]) = NameOf(p)}
      slot == rm.seats[CHOOSE i \in mine : \A j \in mine : i <= j]
  IN IF rm.hosted
     THEN [claimed EXCEPT !.watchers = (@ \ {rm.host}) \cup {p},
                          !.up = (@ \ {rm.host}) \cup {p}]
     ELSE IF mine # {} THEN Rekeyed(claimed, slot, p) ELSE claimed

(* The room is still there: the claimant becomes its host and takes over    *)
(* the old host's place, whose session is dropped, connected or not.        *)
ResumeLive(p, r) ==
  LET rm == room[r]
      gone == IF rm.host = p THEN {} ELSE {rm.host}
  IN /\ MayResume(p, r)
     /\ r \in rooms
     /\ room' = [room EXCEPT ![r] = HandedTo(@, p)]
     /\ Sessions(players \ gone, connected, [roomOf EXCEPT ![p] = r], sockets)
     /\ snapshot' = IF rm.inGame THEN snapshot
                    ELSE [snapshot EXCEPT ![NameOf(p)].order = << >>]
     /\ UNCHANGED rooms
     /\ Sleeping(timers)

(* A peer host finds its own seats; the others get a pending id each.       *)
RebuiltSeats(p, order) ==
  {seats \in [DOMAIN order -> PlayerIds] : \A i \in DOMAIN order :
     IF order[i] = NameOf(p) /\ NameOf(p) \notin Nodes
     THEN seats[i] = p
     ELSE seats[i] \in FreshIds(order[i], {seats[j] : j \in 1..(i - 1)})}

(* The room is gone (the relay restarted, or gave the room up): it is       *)
(* rebuilt from what the claimant remembers, each seat whose player is not  *)
(* there with a forfeit timer.                                              *)
ResumeLost(p, r) ==
  /\ MayResume(p, r)
  /\ r \notin rooms
  /\ \E seats \in RebuiltSeats(p, snapshot[NameOf(p)].order) :
       LET absent == Range(seats) \ {p}
       IN /\ Cardinality(timers) + Cardinality(absent) <= MaxTimers
          /\ rooms' = rooms \cup {r}
          /\ room' = [room EXCEPT ![r] =
                        NewRoom(p, NameOf(p) \in Nodes, TRUE, seats)]
          /\ timers' = timers \cup {Grace("seat", r, q, 0) : q \in absent}
  /\ roomOf' = [roomOf EXCEPT ![p] = r]
  /\ UNCHANGED <<players, connected, generation, sockets, snapshot>>

----------------------------------------------------------------------------
(* A connection task ends: mark_disconnected.                               *)

(* Broken: the generation is not compared.                                  *)
CurrentAnyGeneration(p, g) == p \in players

Current(p, g) == p \in players /\ generation[p] = g

(* The session was reclaimed by a newer connection.                         *)
DisconnectIgnored(p, g) ==
  /\ <<p, g>> \in sockets /\ ~Current(p, g)
  /\ sockets' = sockets \ {<<p, g>>}
  /\ UNCHANGED <<sessionVars, roomVars, timers, snapshot>>

DisconnectRoomless(p, g) ==
  /\ <<p, g>> \in sockets /\ Current(p, g)
  /\ roomOf[p] \notin rooms
  /\ Sessions(players \ {p}, connected, roomOf, sockets)
  /\ UNCHANGED <<roomVars, snapshot>>
  /\ Sleeping(timers)

(* Broken: no timer for an ordinary seat; none for a node.                  *)
GraceKindsNoSeat(rm, p) ==
  IF rm.host # p THEN {} ELSE IF p \in Seated(rm) THEN {"peer"} ELSE {"host"}
GraceKindsNoHost(rm, p) == IF p \in Seated(rm) THEN {"seat"} ELSE {}

(* In a game the seat and the session are kept and a grace timer is armed:  *)
(* one for a host without a seat, one for the seat that holds the engine,   *)
(* one for any other seat, none for an observer.                            *)
GraceKinds(rm, p) ==
  IF rm.host = p /\ p \notin Seated(rm) THEN {"host"}
  ELSE IF rm.host = p /\ ~rm.hosted THEN {"peer"}
  ELSE IF p \in Seated(rm) THEN {"seat"} ELSE {}

DisconnectInGame(p, g) ==
  LET r == roomOf[p]
  IN /\ <<p, g>> \in sockets /\ Current(p, g)
     /\ r \in rooms /\ room[r].inGame
     /\ sockets' = sockets \ {<<p, g>>}
     /\ connected' = connected \ {p}
     /\ room' = [room EXCEPT ![r] = WithUp(@, p, FALSE)]
     /\ timers' = timers \cup {Grace(k, r, p, g) : k \in GraceKinds(room[r], p)}
     /\ Cardinality(timers') <= MaxTimers
     /\ UNCHANGED <<players, generation, roomOf, rooms, snapshot>>

(* In a lobby room a disconnect is a leave, and ends the room when it was   *)
(* its host without a seat.                                                 *)
DisconnectLobby(p, g) ==
  LET r == roomOf[p]
      left == WithoutParticipant(room[r], p)
  IN /\ <<p, g>> \in sockets /\ Current(p, g)
     /\ r \in rooms /\ ~room[r].inGame
     /\ IF (room[r].host = p /\ p \notin Seated(room[r])) \/ Members(left) = {}
        THEN RemoveRoom(r, connected \ {p}, {p}, sockets)
        ELSE /\ room' = [room EXCEPT ![r] = left]
             /\ Sessions(players \ {p}, connected, roomOf, sockets)
             /\ rooms' = rooms
     /\ UNCHANGED snapshot
     /\ Sleeping(timers)

----------------------------------------------------------------------------
(* A grace timer t expires.                                                 *)

(* Broken: the timers do not look whether the player is back.               *)
HostStillHosts(t) ==
  /\ t.room \in rooms /\ room[t.room].inGame
  /\ room[t.room].host = t.player

SeatStillTaken(t) ==
  /\ t.room \in rooms /\ room[t.room].inGame
  /\ t.player \in Seated(room[t.room])

HostStillGone(t) ==
  /\ t.room \in rooms /\ room[t.room].inGame
  /\ room[t.room].host = t.player /\ t.player \notin connected

SeatStillGone(t) ==
  /\ t.room \in rooms /\ room[t.room].inGame
  /\ t.player \in Seated(room[t.room]) /\ t.player \notin connected

HostNeverResumed(t) ==
  /\ t.kind = "host" /\ HostStillGone(t)
  /\ RemoveRoom(t.room, connected, {}, sockets)
  /\ Told(room[t.room].up)
  /\ Sleeping(timers \ {t})

PeerHostLost(t) ==
  /\ t.kind = "peer" /\ HostStillGone(t)
  /\ ResetToLobby(t.room)
  /\ Sleeping(timers \ {t})

ForfeitSeat(t) ==
  /\ t.kind = "seat" /\ SeatStillGone(t)
  /\ room' = [room EXCEPT ![t.room] = WithoutPlayer(@, t.player)]
  /\ Sessions(players \ {t.player}, connected, roomOf, sockets)
  /\ UNCHANGED <<rooms, snapshot>>
  /\ Sleeping(timers \ {t})

TimerDisarmed(t) ==
  /\ IF t.kind = "seat" THEN ~SeatStillGone(t) ELSE ~HostStillGone(t)
  /\ timers' = timers \ {t}
  /\ UNCHANGED <<sessionVars, sockets, roomVars, snapshot>>

TimerExpires(t) ==
  HostNeverResumed(t) \/ PeerHostLost(t) \/ ForfeitSeat(t) \/ TimerDisarmed(t)

----------------------------------------------------------------------------
(* The periodic sweep, on one room.                                         *)

(* Broken: a node or a bot counts as company.                               *)
HumanlessNobodyUp(rm) == rm.inGame /\ rm.up = {}

Humanless(rm) == rm.inGame /\ ~HasConnectedHuman(rm)

SweepKeep(r) ==
  /\ r \in rooms
  /\ ~room[r].inGame => room[r].up # {}
  /\ room[r].idle # Humanless(room[r])
  /\ room' = [room EXCEPT ![r].idle = Humanless(room[r])]
  /\ UNCHANGED <<sessionVars, sockets, rooms, timers, snapshot>>

(* Broken: only the room of a node is swept from its lobby.                 *)
SweepHosted(r) ==
  /\ r \in rooms /\ ~room[r].inGame /\ room[r].up = {} /\ room[r].hosted
  /\ RemoveRoom(r, connected, {}, sockets)
  /\ UNCHANGED snapshot
  /\ Sleeping(timers)

SweepEmptyLobby(r) ==
  /\ r \in rooms /\ ~room[r].inGame /\ room[r].up = {}
  /\ RemoveRoom(r, connected, {}, sockets)
  /\ UNCHANGED snapshot
  /\ Sleeping(timers)

(* Humanless for longer than the grace: abort the game, then drop the room  *)
(* too if the reset leaves it with nobody connected.                        *)
SweepHumanless(r) ==
  /\ r \in rooms /\ Humanless(room[r]) /\ room[r].idle
  /\ IF LobbyRoom(room[r]).up # {} THEN ResetToLobby(r)
     ELSE /\ RemoveRoom(r, connected, Seated(room[r]), sockets)
          /\ Told(room[r].up)
  /\ Sleeping(timers)

Sweep(r) == SweepKeep(r) \/ SweepEmptyLobby(r) \/ SweepHumanless(r)

----------------------------------------------------------------------------
(* A hosting client reloads or crashes, and loses token and game.           *)
Forget(u) ==
  /\ snapshot[u] # NoGame
  /\ \A s \in sockets : NameOf(s[1]) # u
  /\ snapshot' = [snapshot EXCEPT ![u] = NoGame]
  /\ UNCHANGED <<sessionVars, sockets, roomVars, timers>>

(* The relay process restarts with nothing; clients keep what they know.    *)
RelayRestart ==
  /\ players # {} \/ rooms # {}
  /\ Sessions({}, {}, roomOf, {})
  /\ rooms' = {}
  /\ room' = [r \in RoomIds |-> VacantRoom]
  /\ timers' = {}
  /\ snapshot' = snapshot

Command(p) ==
  \/ LeaveRoom(p) \/ StartGame(p) \/ EndGame(p)
  \/ \E r \in RoomIds :
       \/ CreateRoom(p, r) \/ JoinLobby(p, r) \/ Observe(p, r) \/ Rejoin(p, r)
       \/ ResumeLive(p, r) \/ ResumeLost(p, r)

Disconnect(p, g) ==
  \/ DisconnectIgnored(p, g) \/ DisconnectRoomless(p, g)
  \/ DisconnectInGame(p, g) \/ DisconnectLobby(p, g)

Next ==
  \/ \E u \in Users : NewSession(u) \/ Forget(u)
  \/ \E p \in PlayerIds : Reclaim(p) \/ Command(p)
  \/ \E s \in sockets : Disconnect(s[1], s[2])
  \/ \E t \in timers : TimerExpires(t)
  \/ \E r \in RoomIds : Sweep(r)
  \/ RelayRestart

Spec == Init /\ [][Next]_vars

----------------------------------------------------------------------------

(* Every variable has its type (ServerState, Room, RoomSlot).               *)
TypeOK ==
  /\ players \subseteq PlayerIds
  /\ connected \subseteq players
  /\ generation \in [PlayerIds -> 0..MaxGeneration]
  /\ roomOf \in [PlayerIds -> RoomIds \cup {None}]
  /\ sockets \subseteq players \X (0..MaxGeneration)
  /\ rooms \subseteq RoomIds
  /\ room \in [RoomIds -> Room]
  /\ timers \subseteq Timer
  /\ snapshot \in [Users -> [room : RoomIds \cup {None}, order : Seq(Users)]]

(* The generation guard: whatever reclaims, evictions and late cleanups of  *)
(* old connections there are, a session is marked connected exactly while   *)
(* the connection that claimed it last is being read.                       *)
ConnectedIffSocket ==
  \A p \in players : p \in connected <=> <<p, generation[p]>> \in sockets

(* A username has one session, across reclaims, room removals, host         *)
(* takeovers and relay restarts: session_by_username is unambiguous.        *)
OneSessionPerName ==
  \A p, q \in players : NameOf(p) = NameOf(q) => p = q

(* What a room shows as connected is a connected session that is in that    *)
(* room, and a connected member is shown so.  Slots and sessions are kept   *)
(* in two maps that every handler updates one after the other.              *)
SeatBacked ==
  \A r \in rooms : \A p \in Members(room[r]) :
    p \in room[r].up <=> p \in connected /\ roomOf[p] = r

(* A session's room exists and lists it, or names it as its host.           *)
SessionListed ==
  \A p \in players : roomOf[p] # None =>
    /\ roomOf[p] \in rooms
    /\ p \in Members(room[roomOf[p]]) \cup {room[roomOf[p]].host}

(* A disconnected session is kept only for the sake of a room that is still *)
(* there: teardown leaves no ghost behind.                                  *)
NoOrphanSession == \A p \in players \ connected : roomOf[p] \in rooms

(* In a running game no two seats carry the same name: a rejoin is by name. *)
SeatNamesDistinct ==
  \A r \in rooms : \A i, j \in DOMAIN room[r].seats :
    NameOf(room[r].seats[i]) = NameOf(room[r].seats[j]) => i = j

(* Every disconnected seat of a running game has a grace timer that will    *)
(* give it up, pending-rejoin seats of a resurrected room included.         *)
DownSeatHasTimer ==
  \A r \in rooms : room[r].inGame =>
    \A p \in Seated(room[r]) \ room[r].up :
      \E t \in timers : t.room = r /\ t.player = p

(* A hosted room has its node as one of its observers, and no other node's  *)
(* or former session of it; while the node is away in a game, a timer runs. *)
HostWatches ==
  \A r \in rooms : room[r].hosted =>
    /\ {p \in room[r].watchers : NameOf(p) \in Nodes} = {room[r].host}
    /\ room[r].inGame /\ room[r].host \notin room[r].up =>
         \E t \in timers : t.kind = "host" /\ t.room = r /\ t.player = room[r].host

(* While a game goes on, a seat whose session is connected is only lost by  *)
(* leaving: no timer, rejoin, resume or sweep takes it away.                *)
LiveSeatKept ==
  [][\A r \in rooms : r \in rooms' /\ room[r].inGame /\ room'[r].inGame =>
       \A p \in Seated(room[r]) \ Seated(room'[r]) :
         p \in connected => p \in connected' /\ roomOf'[p] = None]_vars

(* The running game of a hosted room only stops because no human is         *)
(* connected, its node is away or ended it, or the relay restarted; nobody  *)
(* else who leaves, no timer of another room or host, and no sweep ends it. *)
GameEndsForCause ==
  [][\A r \in rooms :
       /\ room[r].hosted /\ room[r].inGame
       /\ r \notin rooms' \/ ~room'[r].inGame
       => \/ ~HasConnectedHuman(room[r])
          \/ room[r].host \notin room[r].up
          \/ EndGame(room[r].host)
          \/ RelayRestart]_vars

----------------------------------------------------------------------------
(* The runtime fires every sleeping timer, and the sweep loop never stops;  *)
(* nothing obliges a client to do anything.                                 *)
FairSpec ==
  /\ Spec
  /\ \A p \in PlayerIds : WF_vars(\E t \in timers : t.player = p /\ TimerExpires(t))
  /\ \A r \in RoomIds : WF_vars(Sweep(r))

(* A disconnected seat of a running game does not stay so for ever: its     *)
(* player returns, the seat is forfeited, or the game ends.                 *)
DownSeatResolved ==
  \A r \in RoomIds : \A p \in PlayerIds :
    []<>~(r \in rooms /\ room[r].inGame /\ p \in Seated(room[r]) \ room[r].up)

(* A game that no human watches or plays does not run for ever.             *)
HumanlessGameEnds ==
  \A r \in RoomIds :
    []<>~(r \in rooms /\ room[r].inGame /\ ~HasConnectedHuman(room[r]))

(* A room nobody is connected to does not stay for ever.                    *)
DeadRoomRemoved == \A r \in RoomIds : []<>~(r \in rooms /\ room[r].up = {})
====
