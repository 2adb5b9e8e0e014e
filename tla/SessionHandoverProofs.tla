---- MODULE SessionHandoverProofs ----
(***************************************************************************)
(* However many connections of a user race, lock by lock: no session is    *)
(* connected without a connection whose end takes it down, and no seat is  *)
(* left to an id without a session.                                        *)
(***************************************************************************)
EXTENDS SessionHandover, TLAPS

(* A task that makes a session makes it under its own id, at generation 0.  *)
MakesOwnSession ==
  \A c \in Tasks : task[c].at \in {"new", "insert"} => Id(c) = c /\ task[c].gen = 0

(* A session is only taken out of its room, or removed, once its id has no  *)
(* seat: what SeatHasSession needs of the two steps that shrink inRoom.     *)
SeatGoesFirst ==
  /\ \A c \in Tasks : task[c].at \in {"unroom", "remove"} => Id(c) \notin seats
  /\ \A p \in Tasks : reset[p] # "no" => p \notin seats

IInv ==
  TypeOK /\ ConnectedIsClaimed /\ SeatHasSession /\ MakesOwnSession /\ SeatGoesFirst

(* The places a step goes to are places.                                    *)
LEMMA GotoType ==
  ASSUME TypeOK, NEW c \in Tasks, NEW place,
         place \in {"new", "done"} \cup Serving \cup Leaving \cup Timing,
         Goto(c, place)
  PROVE  /\ task' \in [Tasks -> Task]
         /\ task'[c].at = place /\ task'[c].id = task[c].id
         /\ task'[c].gen = task[c].gen
         /\ \A d \in Tasks \ {c} : task'[d] = task[d]
<1>1. task[c] \in Task
  BY DEF TypeOK
<1>2. [task[c] EXCEPT !.at = place] \in Task
  BY <1>1 DEF Task
<1>3. task' = [task EXCEPT ![c] = [task[c] EXCEPT !.at = place]]
  BY DEF Goto
<1> QED BY <1>1, <1>2, <1>3 DEF TypeOK, Task

LEMMA InitIInv == Init => IInv
<1> SUFFICES ASSUME Init PROVE IInv
  OBVIOUS
<1> PICK first \in Tasks, seated \in BOOLEAN, playing \in BOOLEAN :
      /\ players = {first} /\ connected = {first}
      /\ generation = [p \in Tasks |-> 0]
      /\ inRoom = IF seated THEN {first} ELSE {}
      /\ seats = inRoom /\ up = inRoom
      /\ inGame = playing
      /\ task = [c \in Tasks |->
                  [at |-> IF c = first THEN "reading" ELSE "new",
                   id |-> c, gen |-> 0, room |-> FALSE]]
      /\ reset = [p \in Tasks |-> "no"]
  BY DEF Init
<1>1. TypeOK
  BY DEF TypeOK, Task, Serving, Resetting
<1>2. ConnectedIsClaimed
  BY DEF ConnectedIsClaimed, Claims, Id
<1>3. SeatHasSession /\ MakesOwnSession /\ SeatGoesFirst
  BY DEF SeatHasSession, MakesOwnSession, SeatGoesFirst, Id
<1> QED BY <1>1, <1>2, <1>3 DEF IInv

LEMMA LookUpKeeps ==
  ASSUME IInv, NEW c \in Tasks, LookUp(c)
  PROVE  IInv'
<1> USE DEF IInv, gameVars
<1>1. /\ At(c, "new")
      /\ UNCHANGED <<players, connected, generation, inRoom, seats, up, gameVars>>
  BY DEF LookUp, sessionVars, roomVars
<1>2. CASE Goto(c, "insert")
  <2>1. /\ task' \in [Tasks -> Task]
        /\ task'[c].at = "insert" /\ task'[c].id = task[c].id
        /\ task'[c].gen = task[c].gen
        /\ \A d \in Tasks \ {c} : task'[d] = task[d]
    BY <1>2, GotoType DEF Serving
  <2> QED
    BY <1>1, <2>1
    DEF At, TypeOK, ConnectedIsClaimed, Claims, Id, SeatHasSession,
        MakesOwnSession, SeatGoesFirst
<1>3. CASE \E p \in Preferred :
             task' = [task EXCEPT ![c] =
               [at |-> "reclaim", id |-> p, gen |-> generation[p] + 1,
                room |-> p \in inRoom]]
  <2> PICK p \in Preferred :
        task' = [task EXCEPT ![c] =
          [at |-> "reclaim", id |-> p, gen |-> generation[p] + 1,
           room |-> p \in inRoom]]
    BY <1>3
  <2>1. p \in Tasks /\ generation[p] + 1 \in Nat
    BY DEF Preferred, TypeOK
  <2>2. /\ task'[c].at = "reclaim"
        /\ \A d \in Tasks \ {c} : task'[d] = task[d]
    BY DEF TypeOK
  <2>3. task' \in [Tasks -> Task]
    BY <2>1 DEF TypeOK, Task, Serving
  <2> QED
    BY <1>1, <2>2, <2>3
    DEF At, TypeOK, ConnectedIsClaimed, Claims, Id, SeatHasSession,
        MakesOwnSession, SeatGoesFirst
<1> QED BY <1>2, <1>3 DEF LookUp

LEMMA AuthenticateKeeps ==
  ASSUME IInv, NEW c \in Tasks, Authenticate(c)
  PROVE  IInv'
<1> USE DEF IInv, gameVars
<1>1. CASE Insert(c)
  <2>1. At(c, "insert") /\ Goto(c, "reading")
    BY <1>1 DEF Insert
  <2>2. /\ task' \in [Tasks -> Task]
        /\ task'[c].at = "reading" /\ task'[c].id = task[c].id
        /\ task'[c].gen = task[c].gen
        /\ \A d \in Tasks \ {c} : task'[d] = task[d]
    BY <2>1, GotoType DEF Serving
  <2>3. TypeOK'
    BY <1>1, <2>2 DEF Insert, roomVars, TypeOK
  <2>4. ConnectedIsClaimed'
    <3> SUFFICES ASSUME NEW p \in connected'
                 PROVE  \E d \in Tasks : Claims(d, p)'
      BY DEF ConnectedIsClaimed
    <3>1. CASE p = c
      BY <1>1, <2>1, <2>2, <3>1
      DEF Insert, At, Claims, Id, MakesOwnSession, TypeOK
    <3>2. CASE p # c
      <4>1. PICK d \in Tasks : Claims(d, p)
        BY <1>1, <3>2 DEF Insert, ConnectedIsClaimed
      <4>2. d # c
        BY <2>1, <4>1 DEF At, Claims
      <4> QED
        BY <1>1, <2>2, <3>2, <4>1, <4>2 DEF Insert, Claims, Id, TypeOK
    <3> QED BY <3>1, <3>2
  <2>5. SeatHasSession' /\ MakesOwnSession' /\ SeatGoesFirst'
    BY <1>1, <2>2
    DEF Insert, roomVars, SeatHasSession, MakesOwnSession, SeatGoesFirst, Id
  <2> QED BY <2>3, <2>4, <2>5
<1>2. CASE Reclaim(c)
  <2> DEFINE next == IF task[c].room THEN "seat" ELSE "reading"
  <2>1. At(c, "reclaim") /\ Goto(c, next) /\ next \in {"seat", "reading"}
    BY <1>2 DEF Reclaim
  <2>2. /\ task' \in [Tasks -> Task]
        /\ task'[c].at = next /\ task'[c].id = task[c].id
        /\ task'[c].gen = task[c].gen
        /\ \A d \in Tasks \ {c} : task'[d] = task[d]
    BY <2>1, GotoType DEF Serving
  <2> HIDE DEF next
  <2>3. Id(c) \in Tasks /\ task[c].gen \in Nat
    BY DEF TypeOK, Task, Id
  <2>4. TypeOK'
    BY <1>2, <2>2, <2>3 DEF Reclaim, roomVars, TypeOK
  <2>5. ConnectedIsClaimed'
    <3> SUFFICES ASSUME NEW p \in connected'
                 PROVE  \E d \in Tasks : Claims(d, p)'
      BY DEF ConnectedIsClaimed
    <3>1. CASE p = Id(c) /\ Id(c) \in players
      BY <1>2, <2>1, <2>2, <2>3, <3>1 DEF Reclaim, Claims, Id, TypeOK
    <3>2. CASE ~(p = Id(c) /\ Id(c) \in players)
      <4>1. p \in connected /\ generation'[p] = generation[p]
        BY <1>2, <3>2 DEF Reclaim, TypeOK
      <4>2. PICK d \in Tasks : Claims(d, p)
        BY <4>1 DEF ConnectedIsClaimed
      <4>3. d # c
        BY <2>1, <4>2 DEF At, Claims
      <4> QED BY <2>2, <4>1, <4>2, <4>3 DEF Claims, Id
    <3> QED BY <3>1, <3>2
  <2>6. SeatHasSession' /\ MakesOwnSession' /\ SeatGoesFirst'
    BY <1>2, <2>1, <2>2
    DEF Reclaim, roomVars, SeatHasSession, MakesOwnSession, SeatGoesFirst, Id
  <2> QED BY <2>4, <2>5, <2>6
<1>3. CASE ShowSeat(c)
  <2>1. At(c, "seat") /\ Goto(c, "reading")
    BY <1>3 DEF ShowSeat
  <2>2. /\ task' \in [Tasks -> Task]
        /\ task'[c].at = "reading" /\ task'[c].id = task[c].id
        /\ task'[c].gen = task[c].gen
        /\ \A d \in Tasks \ {c} : task'[d] = task[d]
    BY <2>1, GotoType DEF Serving
  <2>3. /\ UNCHANGED <<players, connected, generation, inRoom, seats, gameVars>>
        /\ up' \subseteq seats'
    BY <1>3 DEF ShowSeat, sessionVars, TypeOK
  <2>4. ConnectedIsClaimed'
    BY <2>1, <2>2, <2>3 DEF ConnectedIsClaimed, Claims, Id, At
  <2> QED
    BY <2>2, <2>3, <2>4
    DEF TypeOK, SeatHasSession, MakesOwnSession, SeatGoesFirst, Id
<1> QED BY <1>1, <1>2, <1>3 DEF Authenticate

(* A task past its read loop claims nothing: what it does to task leaves    *)
(* every claim as it was.                                                   *)
LEMMA ClaimsOfOthers ==
  ASSUME IInv, NEW c \in Tasks, task[c].at \notin {"seat", "reading"},
         \A d \in Tasks \ {c} : task'[d] = task[d],
         NEW p, p \in connected, generation'[p] = generation[p]
  PROVE  \E d \in Tasks : Claims(d, p)'
<1>1. PICK d \in Tasks : Claims(d, p)
  BY DEF IInv, ConnectedIsClaimed
<1>2. d # c
  BY <1>1 DEF Claims
<1> QED BY <1>1, <1>2 DEF Claims, Id

LEMMA CleanupKeeps ==
  ASSUME IInv, NEW c \in Tasks, Cleanup(c)
  PROVE  IInv'
<1> USE DEF IInv, gameVars
<1>1. CASE Mark(c)
  <2>1. PICK next \in {"status", "remove", "done"} :
          /\ Goto(c, next)
          /\ next = "remove" => Id(c) \notin inRoom
    BY <1>1 DEF Mark
  <2>2. /\ task' \in [Tasks -> Task]
        /\ task'[c].at = next /\ task'[c].id = task[c].id
        /\ task'[c].gen = task[c].gen
        /\ \A d \in Tasks \ {c} : task'[d] = task[d]
    BY <2>1, GotoType DEF Leaving
  <2>3. /\ UNCHANGED <<players, generation, inRoom, seats, up, gameVars>>
        /\ connected' \subseteq connected
        /\ Id(c) \in connected' => generation[Id(c)] # task[c].gen
    BY <1>1 DEF Mark, roomVars, TypeOK
  <2>4. ConnectedIsClaimed'
    <3> SUFFICES ASSUME NEW p \in connected'
                 PROVE  \E d \in Tasks : Claims(d, p)'
      BY DEF ConnectedIsClaimed
    <3>1. PICK d \in Tasks : Claims(d, p)
      BY <2>3 DEF ConnectedIsClaimed
    <3>2. d # c
      BY <2>3, <3>1 DEF Claims
    <3> QED BY <2>2, <2>3, <3>1, <3>2 DEF Claims, Id
  <2>5. SeatHasSession' /\ MakesOwnSession'
    BY <2>2, <2>3 DEF SeatHasSession, MakesOwnSession, Id
  <2>6. SeatGoesFirst'
    BY <2>1, <2>2, <2>3 DEF SeatGoesFirst, SeatHasSession, Id
  <2>7. TypeOK'
    BY <2>2, <2>3 DEF TypeOK
  <2> QED BY <2>4, <2>5, <2>6, <2>7
<1>2. CASE ReadStatus(c)
  <2>1. PICK next \in {"hide", "leave"} : Goto(c, next)
    BY <1>2 DEF ReadStatus
  <2>2. /\ task' \in [Tasks -> Task] /\ task'[c].at = next
        /\ \A d \in Tasks \ {c} : task'[d] = task[d]
    BY <2>1, GotoType DEF Leaving
  <2>3. /\ At(c, "status")
        /\ UNCHANGED <<players, connected, generation, inRoom, seats, up, gameVars>>
    BY <1>2 DEF ReadStatus, sessionVars, roomVars
  <2>4. ConnectedIsClaimed'
    BY <2>2, <2>3, ClaimsOfOthers DEF At, ConnectedIsClaimed
  <2> QED
    BY <2>2, <2>3, <2>4
    DEF TypeOK, SeatHasSession, MakesOwnSession, SeatGoesFirst, Id
<1>3. CASE HideSeat(c)
  <2>1. PICK next \in {"asleep", "done"} : Goto(c, next)
    BY <1>3 DEF HideSeat
  <2>2. /\ task' \in [Tasks -> Task] /\ task'[c].at = next
        /\ \A d \in Tasks \ {c} : task'[d] = task[d]
    BY <2>1, GotoType DEF Timing
  <2>3. /\ At(c, "hide") /\ up' \subseteq up
        /\ UNCHANGED <<players, connected, generation, inRoom, seats, gameVars>>
    BY <1>3 DEF HideSeat, sessionVars
  <2>4. ConnectedIsClaimed'
    BY <2>2, <2>3, ClaimsOfOthers DEF At, ConnectedIsClaimed
  <2> QED
    BY <2>2, <2>3, <2>4
    DEF TypeOK, SeatHasSession, MakesOwnSession, SeatGoesFirst, Id
<1>4. CASE LeaveSeat(c)
  <2>1. At(c, "leave") /\ Goto(c, "unroom")
    BY <1>4 DEF LeaveSeat
  <2>2. /\ task' \in [Tasks -> Task]
        /\ task'[c].at = "unroom" /\ task'[c].id = task[c].id
        /\ \A d \in Tasks \ {c} : task'[d] = task[d]
    BY <2>1, GotoType DEF Leaving
  <2>3. /\ seats' = seats \ {Id(c)} /\ up' = up \ {Id(c)}
        /\ UNCHANGED <<players, connected, generation, inRoom, gameVars>>
    BY <1>4 DEF LeaveSeat, sessionVars
  <2>4. ConnectedIsClaimed'
    BY <2>1, <2>2, <2>3, ClaimsOfOthers DEF At, ConnectedIsClaimed
  <2> QED
    BY <2>2, <2>3, <2>4
    DEF TypeOK, SeatHasSession, MakesOwnSession, SeatGoesFirst, Id
<1>5. CASE Unroom(c)
  <2>1. At(c, "unroom") /\ Goto(c, "remove")
    BY <1>5 DEF Unroom
  <2>2. /\ task' \in [Tasks -> Task]
        /\ task'[c].at = "remove" /\ task'[c].id = task[c].id
        /\ \A d \in Tasks \ {c} : task'[d] = task[d]
    BY <2>1, GotoType DEF Leaving
  <2>3. /\ inRoom' = inRoom \ {Id(c)}
        /\ UNCHANGED <<players, connected, generation, seats, up, gameVars>>
    BY <1>5 DEF Unroom, roomVars
  <2>4. ConnectedIsClaimed'
    BY <2>1, <2>2, <2>3, ClaimsOfOthers DEF At, ConnectedIsClaimed
  <2>5. Id(c) \notin seats
    BY <2>1 DEF At, SeatGoesFirst
  <2> QED
    BY <2>2, <2>3, <2>4, <2>5
    DEF TypeOK, SeatHasSession, MakesOwnSession, SeatGoesFirst, Id
<1>6. CASE Remove(c)
  <2>1. At(c, "remove") /\ Goto(c, "done")
    BY <1>6 DEF Remove
  <2>2. /\ task' \in [Tasks -> Task] /\ task'[c].at = "done"
        /\ \A d \in Tasks \ {c} : task'[d] = task[d]
    BY <2>1, GotoType
  <2>3. /\ players' = players \ {Id(c)} /\ connected' = connected \ {Id(c)}
        /\ inRoom' = inRoom \ {Id(c)}
        /\ generation' = [generation EXCEPT ![Id(c)] = 0]
        /\ UNCHANGED <<seats, up, gameVars>>
    BY <1>6 DEF Remove, roomVars
  <2>4. ConnectedIsClaimed'
    <3> SUFFICES ASSUME NEW p \in connected'
                 PROVE  \E d \in Tasks : Claims(d, p)'
      BY DEF ConnectedIsClaimed
    <3>1. p \in connected /\ generation'[p] = generation[p]
      BY <2>3 DEF TypeOK
    <3> QED BY <2>1, <2>2, <3>1, ClaimsOfOthers DEF At
  <2>5. Id(c) \notin seats
    BY <2>1 DEF At, SeatGoesFirst
  <2>6. TypeOK'
    BY <2>2, <2>3 DEF TypeOK
  <2> QED
    BY <2>2, <2>3, <2>4, <2>5, <2>6
    DEF SeatHasSession, MakesOwnSession, SeatGoesFirst, Id
<1> QED BY <1>1, <1>2, <1>3, <1>4, <1>5, <1>6 DEF Cleanup

LEMMA ExpireKeeps ==
  ASSUME IInv, NEW c \in Tasks, Expire(c)
  PROVE  IInv'
<1> USE DEF IInv, gameVars
<1>1. CASE Wake(c) \/ CheckSeat(c)
  <2>1. PICK next \in {"checked", "forfeit", "done"} : Goto(c, next)
    BY <1>1 DEF Wake, CheckSeat
  <2>2. /\ task' \in [Tasks -> Task] /\ task'[c].at = next
        /\ \A d \in Tasks \ {c} : task'[d] = task[d]
    BY <2>1, GotoType DEF Timing
  <2>3. /\ task[c].at \in {"asleep", "checked"}
        /\ UNCHANGED <<players, connected, generation, inRoom, seats, up, gameVars>>
    BY <1>1 DEF Wake, CheckSeat, At, sessionVars, roomVars
  <2>4. ConnectedIsClaimed'
    BY <2>2, <2>3, ClaimsOfOthers DEF ConnectedIsClaimed
  <2> QED
    BY <2>2, <2>3, <2>4
    DEF TypeOK, SeatHasSession, MakesOwnSession, SeatGoesFirst, Id
<1>2. CASE Forfeit(c)
  <2>1. At(c, "forfeit") /\ \E next \in {"remove", "done"} : Goto(c, next)
    BY <1>2 DEF Forfeit
  <2>2. PICK next \in {"remove", "done"} : Goto(c, next)
    BY <2>1
  <2>3. /\ task' \in [Tasks -> Task]
        /\ task'[c].at = next /\ task'[c].id = task[c].id
        /\ \A d \in Tasks \ {c} : task'[d] = task[d]
    BY <2>2, GotoType DEF Leaving
  <2>4. /\ seats' = seats \ {Id(c)} /\ up' = up \ {Id(c)}
        /\ UNCHANGED <<players, connected, generation, inRoom, gameVars>>
    BY <1>2 DEF Forfeit, sessionVars
  <2>5. ConnectedIsClaimed'
    BY <2>1, <2>3, <2>4, ClaimsOfOthers DEF At, ConnectedIsClaimed
  <2> QED
    BY <2>3, <2>4, <2>5
    DEF TypeOK, SeatHasSession, MakesOwnSession, SeatGoesFirst, Id
<1> QED BY <1>1, <1>2 DEF Expire

(* The end of a game clears the seats first, and then the sessions.         *)
LEMMA GameEndsKeeps ==
  ASSUME IInv, EndGame \/ \E p \in Tasks : Reset(p)
  PROVE  IInv'
<1> USE DEF IInv
<1>1. CASE EndGame
  <2>1. /\ seats' = {} /\ up' = {} /\ inGame' = FALSE
        /\ UNCHANGED <<players, connected, generation, inRoom, task>>
        /\ reset' = [p \in Tasks |-> IF p \in seats THEN "look" ELSE reset[p]]
    BY <1>1 DEF EndGame, sessionVars
  <2>2. reset' \in [Tasks -> Resetting]
    BY <2>1 DEF TypeOK, Resetting
  <2> QED
    BY <2>1, <2>2
    DEF TypeOK, ConnectedIsClaimed, Claims, Id, SeatHasSession, MakesOwnSession,
        SeatGoesFirst
<1>2. ASSUME NEW p \in Tasks, Reset(p) PROVE IInv'
  <2>1. /\ reset[p] # "no" /\ UNCHANGED <<seats, up, inGame, task>>
        /\ \E place \in {"unroom", "remove", "done"} : reset' = [reset EXCEPT ![p] = place]
    BY <1>2 DEF Reset, ResetLook, ResetRemove, ResetUnroom
  <2>2. p \notin seats
    BY <2>1 DEF SeatGoesFirst
  <2>3. /\ reset' \in [Tasks -> Resetting]
        /\ \A q \in Tasks : reset'[q] # "no" => reset[q] # "no"
    BY <2>1 DEF TypeOK, Resetting
  <2>4. /\ players' \subseteq players /\ connected' \subseteq connected \cap players'
        /\ inRoom' \subseteq inRoom \cap players' /\ inRoom \ {p} \subseteq inRoom'
        /\ generation' \in [Tasks -> Nat]
        /\ \A q \in connected' : generation'[q] = generation[q]
    BY <1>2 DEF Reset, ResetLook, ResetRemove, ResetUnroom, sessionVars, TypeOK
  <2>5. TypeOK'
    BY <2>1, <2>3, <2>4 DEF TypeOK
  <2>6. ConnectedIsClaimed'
    BY <2>1, <2>4 DEF ConnectedIsClaimed, Claims, Id
  <2>7. SeatHasSession' /\ MakesOwnSession' /\ SeatGoesFirst'
    BY <2>1, <2>2, <2>3, <2>4 DEF SeatHasSession, MakesOwnSession, SeatGoesFirst, Id
  <2> QED BY <2>5, <2>6, <2>7
<1> QED BY <1>1, <1>2

LEMMA StepIInv == IInv /\ [Next]_vars => IInv'
<1> SUFFICES ASSUME IInv, [Next]_vars PROVE IInv'
  OBVIOUS
<1>1. ASSUME NEW c \in Tasks,
             LookUp(c) \/ Authenticate(c) \/ Cleanup(c) \/ Expire(c)
      PROVE  IInv'
  BY <1>1, LookUpKeeps, AuthenticateKeeps, CleanupKeeps, ExpireKeeps
<1>2. CASE StartGame
  BY <1>2
  DEF StartGame, sessionVars, IInv, TypeOK, ConnectedIsClaimed, Claims, Id,
      SeatHasSession, MakesOwnSession, SeatGoesFirst
<1>3. CASE EndGame \/ \E p \in Tasks : Reset(p)
  BY <1>3, GameEndsKeeps
<1>4. CASE UNCHANGED vars
  BY <1>4
  DEF vars, IInv, TypeOK, ConnectedIsClaimed, Claims, Id, SeatHasSession,
      MakesOwnSession, SeatGoesFirst
<1> QED BY <1>1, <1>2, <1>3, <1>4 DEF Next

(* The invariant the theorems below are read off.                           *)
THEOREM Invariance == Spec => []IInv
<1>1. IInv /\ [Next]_vars => IInv'
  BY StepIInv
<1> QED BY InitIInv, <1>1, PTL DEF Spec

(* A session shown as connected has a connection that claims it at its      *)
(* current generation and will take it down when it ends, even when several *)
(* reclaims read the same generation, or write an older one back.           *)
THEOREM NoLeak == Spec => []ConnectedIsClaimed
<1>1. IInv => ConnectedIsClaimed
  BY DEF IInv
<1> QED BY Invariance, <1>1, PTL

(* Whatever the order in which cleanups and timers drop seat and session,   *)
(* a seat always belongs to a session that is in the room.                  *)
THEOREM SeatsBacked == Spec => []SeatHasSession
<1>1. IInv => SeatHasSession
  BY DEF IInv
<1> QED BY Invariance, <1>1, PTL

(* Sessions, seats and connections keep their types; in particular a seat   *)
(* is only shown connected while it exists.                                 *)
THEOREM HandoverTypes == Spec => []TypeOK
<1>1. IInv => TypeOK
  BY DEF IInv
<1> QED BY Invariance, <1>1, PTL
====
