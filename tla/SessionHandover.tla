---- MODULE SessionHandover ----
(***************************************************************************)
(* One username, several connections: how the relay hands a session over.  *)
(* RelayRooms takes authenticate, mark_disconnected and a forfeit timer as *)
(* one step each.  They run on a multi-threaded runtime and take the locks *)
(* of ServerState.players and ServerState.rooms one after the other; here  *)
(* every lock is a step.                                                   *)
(*                                                                         *)
(* The user proves the identity of its session, so that authentication     *)
(* always succeeds.  Its first session sits in no room, in a lobby room or *)
(* in a running game; the room has other players, who keep it alive and    *)
(* one of whom is its host.  They may start a game and end it; once that   *)
(* has cost the user its seat, what is played next in the room is left     *)
(* out, as the user would have to join the room again.                     *)
(***************************************************************************)
EXTENDS Naturals

CONSTANT Tasks   \* the user's connections; a session's id is the task that made it

VARIABLES
  players,      \* keys of ServerState.players
  connected,    \* the sessions with ConnectedPlayer.connected
  generation,   \* ConnectedPlayer.generation
  inRoom,       \* the sessions with a ConnectedPlayer.room_id
  seats,        \* the session ids that have a slot in the room
  up,           \* the slots with RoomSlot.connected
  inGame,       \* Room.status is InGame
  task,         \* what each connection, then the timer it armed, is about to do
  reset         \* what reset_room_to_lobby is about to do with each session

sessionVars == <<players, connected, generation, inRoom>>
gameVars == <<inGame, reset>>
roomVars == <<seats, up, gameVars>>
vars == <<players, connected, generation, inRoom, seats, up, inGame, task, reset>>

(* The session a task took up, at which generation, and whether that        *)
(* session was in the room when it was looked up.                           *)
Serving == {"insert", "reclaim", "seat", "reading"}
Leaving == {"status", "hide", "leave", "unroom", "remove"}
Timing == {"asleep", "checked", "forfeit"}
Resetting == {"no", "look", "unroom", "remove", "done"}
Task == [at : {"new", "done"} \cup Serving \cup Leaving \cup Timing,
         id : Tasks, gen : Nat, room : BOOLEAN]

At(c, place) == task[c].at = place
Goto(c, place) == task' = [task EXCEPT ![c].at = place]
Id(c) == task[c].id

Init ==
  \E first \in Tasks, seated, playing \in BOOLEAN :
    /\ players = {first} /\ connected = {first}
    /\ generation = [p \in Tasks |-> 0]
    /\ inRoom = IF seated THEN {first} ELSE {}
    /\ seats = inRoom /\ up = inRoom
    /\ inGame = playing
    /\ task = [c \in Tasks |->
                [at |-> IF c = first THEN "reading" ELSE "new",
                 id |-> c, gen |-> 0, room |-> FALSE]]
    /\ reset = [p \in Tasks |-> "no"]

----------------------------------------------------------------------------
(* authenticate                                                             *)

(* session_by_username: a disconnected session if there is one.             *)
Preferred == IF players \ connected # {} THEN players \ connected ELSE players

LookUp(c) ==
  /\ At(c, "new")
  /\ IF players = {} THEN Goto(c, "insert")
     ELSE \E p \in Preferred :
            task' = [task EXCEPT ![c] =
              [at |-> "reclaim", id |-> p, gen |-> generation[p] + 1,
               room |-> p \in inRoom]]
  /\ UNCHANGED <<sessionVars, roomVars>>

Insert(c) ==
  /\ At(c, "insert")
  /\ players' = players \cup {c} /\ connected' = connected \cup {c}
  /\ generation' = [generation EXCEPT ![c] = 0]
  /\ Goto(c, "reading")
  /\ UNCHANGED <<inRoom, roomVars>>

(* Broken: the session counts its own reclaims.                             *)
ReclaimCounting(c) ==
  /\ At(c, "reclaim")
  /\ IF Id(c) \in players
     THEN /\ connected' = connected \cup {Id(c)}
          /\ generation' = [generation EXCEPT ![Id(c)] = @ + 1]
     ELSE UNCHANGED <<connected, generation>>
  /\ Goto(c, IF task[c].room THEN "seat" ELSE "reading")
  /\ UNCHANGED <<players, inRoom, roomVars>>

(* reclaim_session answers "reconnected" whether or not the session is      *)
(* still there.                                                             *)
Reclaim(c) ==
  /\ At(c, "reclaim")
  /\ IF Id(c) \in players
     THEN /\ connected' = connected \cup {Id(c)}
          /\ generation' = [generation EXCEPT ![Id(c)] = task[c].gen]
     ELSE UNCHANGED <<connected, generation>>
  /\ Goto(c, IF task[c].room THEN "seat" ELSE "reading")
  /\ UNCHANGED <<players, inRoom, roomVars>>

(* Broken: a slot is made for whoever reconnects.                           *)
ShowSeatAnyway(c) ==
  /\ At(c, "seat")
  /\ up' = up \cup {Id(c)}
  /\ Goto(c, "reading")
  /\ UNCHANGED <<sessionVars, seats, gameVars>>

ShowSeat(c) ==
  /\ At(c, "seat")
  /\ up' = up \cup ({Id(c)} \cap seats)
  /\ Goto(c, "reading")
  /\ UNCHANGED <<sessionVars, seats, gameVars>>

----------------------------------------------------------------------------
(* The read loop ends: mark_disconnected                                    *)

Mark(c) ==
  /\ At(c, "reading")
  /\ IF Id(c) \in players /\ generation[Id(c)] = task[c].gen
     THEN /\ connected' = connected \ {Id(c)}
          /\ Goto(c, IF Id(c) \in inRoom THEN "status" ELSE "remove")
     ELSE UNCHANGED connected /\ Goto(c, "done")
  /\ UNCHANGED <<players, generation, inRoom, roomVars>>

ReadStatus(c) ==
  /\ At(c, "status")
  /\ Goto(c, IF inGame THEN "hide" ELSE "leave")
  /\ UNCHANGED <<sessionVars, roomVars>>

(* Broken: the seat's timer is never armed.                                 *)
HideSeatForGood(c) ==
  /\ At(c, "hide")
  /\ up' = up \ {Id(c)}
  /\ Goto(c, "done")
  /\ UNCHANGED <<sessionVars, seats, gameVars>>

(* In a game the session stays; schedule_seat_forfeit arms a timer.         *)
HideSeat(c) ==
  /\ At(c, "hide")
  /\ up' = up \ {Id(c)}
  /\ Goto(c, IF Id(c) \in seats THEN "asleep" ELSE "done")
  /\ UNCHANGED <<sessionVars, seats, gameVars>>

(* Broken: the slot is left behind.                                         *)
LeaveSeatDown(c) ==
  /\ At(c, "leave")
  /\ up' = up \ {Id(c)}
  /\ Goto(c, "unroom")
  /\ UNCHANGED <<sessionVars, seats, gameVars>>

LeaveSeat(c) ==
  /\ At(c, "leave")
  /\ seats' = seats \ {Id(c)} /\ up' = up \ {Id(c)}
  /\ Goto(c, "unroom")
  /\ UNCHANGED <<sessionVars, gameVars>>

Unroom(c) ==
  /\ At(c, "unroom")
  /\ inRoom' = inRoom \ {Id(c)}
  /\ Goto(c, "remove")
  /\ UNCHANGED <<players, connected, generation, roomVars>>

(* players.remove, whatever has become of the session since.                *)
Remove(c) ==
  /\ At(c, "remove")
  /\ players' = players \ {Id(c)} /\ connected' = connected \ {Id(c)}
  /\ inRoom' = inRoom \ {Id(c)}
  /\ generation' = [generation EXCEPT ![Id(c)] = 0]
  /\ Goto(c, "done")
  /\ UNCHANGED roomVars

Cleanup(c) ==
  \/ Mark(c) \/ ReadStatus(c) \/ HideSeat(c) \/ LeaveSeat(c) \/ Unroom(c)
  \/ Remove(c)

----------------------------------------------------------------------------
(* The forfeit timer that the disconnect of c armed                         *)

Wake(c) ==
  /\ At(c, "asleep")
  /\ Goto(c, IF Id(c) \in connected THEN "done" ELSE "checked")
  /\ UNCHANGED <<sessionVars, roomVars>>

CheckSeat(c) ==
  /\ At(c, "checked")
  /\ Goto(c, IF inGame /\ Id(c) \in seats THEN "forfeit" ELSE "done")
  /\ UNCHANGED <<sessionVars, roomVars>>

Forfeit(c) ==
  /\ At(c, "forfeit")
  /\ seats' = seats \ {Id(c)} /\ up' = up \ {Id(c)}
  /\ Goto(c, IF Id(c) \in seats THEN "remove" ELSE "done")
  /\ UNCHANGED <<sessionVars, gameVars>>

----------------------------------------------------------------------------
(* The other players' games                                                 *)

StartGame ==
  /\ ~inGame
  /\ \A p \in Tasks : reset[p] = "no"
  /\ inGame' = TRUE
  /\ UNCHANGED <<sessionVars, seats, up, task, reset>>

(* reset_room_to_lobby, under the lock of the room: every seat is cleared.  *)
EndGame ==
  /\ inGame
  /\ inGame' = FALSE
  /\ seats' = {} /\ up' = {}
  /\ reset' = [p \in Tasks |-> IF p \in seats THEN "look" ELSE reset[p]]
  /\ UNCHANGED <<sessionVars, task>>

(* Then the session of each seat is looked at, and dealt with in a second    *)
(* step: one that is down is removed, one that is up is in no room.         *)
ResetLook(p) ==
  /\ reset[p] = "look"
  /\ reset' = [reset EXCEPT ![p] = IF p \notin players THEN "done"
                                 ELSE IF p \in connected THEN "unroom"
                                 ELSE "remove"]
  /\ UNCHANGED <<sessionVars, seats, up, inGame, task>>

ResetRemove(p) ==
  /\ reset[p] = "remove"
  /\ players' = players \ {p} /\ connected' = connected \ {p}
  /\ inRoom' = inRoom \ {p}
  /\ generation' = [generation EXCEPT ![p] = 0]
  /\ reset' = [reset EXCEPT ![p] = "done"]
  /\ UNCHANGED <<seats, up, inGame, task>>

ResetUnroom(p) ==
  /\ reset[p] = "unroom"
  /\ inRoom' = inRoom \ {p}
  /\ reset' = [reset EXCEPT ![p] = "done"]
  /\ UNCHANGED <<players, connected, generation, seats, up, inGame, task>>

Reset(p) == ResetLook(p) \/ ResetRemove(p) \/ ResetUnroom(p)

Authenticate(c) == Insert(c) \/ Reclaim(c) \/ ShowSeat(c)
Expire(c) == Wake(c) \/ CheckSeat(c) \/ Forfeit(c)

Next ==
  \/ \E c \in Tasks :
       LookUp(c) \/ Authenticate(c) \/ Cleanup(c) \/ Expire(c) \/ Reset(c)
  \/ StartGame \/ EndGame

Spec == Init /\ [][Next]_vars

(* A handler that has begun is finished and a timer that is armed expires;  *)
(* nobody has to connect, and no connection has to end.                     *)
FairSpec ==
  /\ Spec
  /\ \A c \in Tasks :
       /\ WF_vars(Authenticate(c) \/ (Cleanup(c) /\ ~At(c, "reading")) \/ Expire(c))
       /\ WF_vars(Reset(c))

----------------------------------------------------------------------------
TypeOK ==
  /\ players \subseteq Tasks
  /\ connected \subseteq players
  /\ generation \in [Tasks -> Nat]
  /\ inRoom \subseteq players
  /\ seats \subseteq Tasks
  /\ up \subseteq seats
  /\ inGame \in BOOLEAN
  /\ task \in [Tasks -> Task]
  /\ reset \in [Tasks -> Resetting]

Claims(c, p) ==
  task[c].at \in {"seat", "reading"} /\ Id(c) = p /\ task[c].gen = generation[p]

(* A session the relay shows as connected has a connection whose end will   *)
(* take it down, whatever reclaims raced: no session is connected for ever. *)
ConnectedIsClaimed == \A p \in connected : \E c \in Tasks : Claims(c, p)

(* A seat is never left to an id without a session in the room.             *)
SeatHasSession == seats \subseteq inRoom

(* Once the user has no connection left, its sessions and seats go.         *)
GoneForGood ==
  []<>(\/ \E c \in Tasks : task[c].at \in Serving
       \/ players = {} /\ seats = {})

(* What the documentation says: once a newer connection reads the session,  *)
(* the cleanup of an older one leaves session and seat alone.               *)
Superseded(c) ==
  \E d \in Tasks : At(d, "reading") /\ Id(d) = Id(c) /\ task[d].gen > task[c].gen

CleanupSparesSuccessor ==
  [][\A c \in Tasks : Cleanup(c) /\ Superseded(c) =>
       UNCHANGED <<players, connected, seats, up>>]_vars
====
