--------------------------- MODULE TurnLoopProofs ---------------------------
(* For any number of players, any seating, any effects and any bounds: the loop
  asks a player only once everyone who lost has left, nothing of a turn crosses
  its cleanup, and a priority round ends only after everyone still in the game
  has passed.                                                              *)
EXTENDS TurnLoop, SubsequenceProofs, FunctionTheorems

Fields ==
  {"turn", "active", "order", "alive", "here", "doomed", "over", "stack",
   "waiting", "extra", "skips", "endTurn", "bars"}

(* What a game needs in order to be resumed from a checkpoint.              *)
Sound(g) == DOMAIN g = Fields /\ g.alive \subseteq g.here /\ g.here \subseteq Players

(* Everyone who lost has left.                                              *)
Seen(g) == g.doomed \cap g.alive = {} /\ g.here = g.alive

Noticed == Seen(game)

(* A checkpoint is taken between two turns.                                 *)
Resumable(g) == Sound(g) /\ Seen(g) /\ g.waiting = <<>> /\ g.stack = <<>>

CheckpointsSound == \E kept : checkpoints \in Seq(kept) /\ \A g \in kept : Resumable(g)

(* Between two rounds everyone who lost has left and no trigger waits; between
  two windows the stack is empty as well.  A cleanup that is repeated in a game
  that is over promises nothing, and never reaches the next turn.          *)
IInv ==
  /\ Sound(game)
  /\ CheckpointsSound
  /\ at \in {"run", "step", "ask", "round"} => Noticed /\ game.waiting = <<>>
  /\ at = "ask" => Cardinality(game.alive) >= 2
  /\ at \in {"run", "step"} => game.stack = <<>>
  /\ at = "run" => ~game.endTurn
  /\ at = "cleanup" /\ ~game.over => Resumable(game)

LEMMA InitIInv == Init => IInv
<1> SUFFICES ASSUME Init PROVE IInv
  OBVIOUS
<1>1. Sound(game)
  BY DEF Init, NewGame, Sound, Fields
<1>2. CheckpointsSound
  <2>1. checkpoints \in Seq({})
    BY DEF Init
  <2> QED BY <2>1 DEF CheckpointsSound
<1>3. Noticed /\ game.waiting = <<>> /\ game.stack = <<>> /\ ~game.endTurn
  BY DEF Init, NewGame, Noticed, Seen
<1>4. at = "run"
  BY DEF Init
<1> QED BY <1>1, <1>2, <1>3, <1>4 DEF IInv

(* The loop between two turns.                                              *)
LEMMA RotatedKeeps ==
  ASSUME NEW g, Sound(g)
  PROVE  /\ Sound(Rotated(g))
         /\ Rotated(g).alive = g.alive /\ Rotated(g).here = g.here
         /\ Rotated(g).doomed = g.doomed /\ Rotated(g).stack = g.stack
         /\ Rotated(g).waiting = g.waiting /\ Rotated(g).endTurn = g.endTurn
<1> DEFINE next == Around(g.active, 1)
<1>1. Rotated(g) = [g EXCEPT !.active = next, !.turn = @ + 1]
  BY DEF Rotated
<1> HIDE DEF next
<1> QED BY <1>1 DEF Sound, Fields

LEMMA AdvancedKeeps ==
  ASSUME NEW g, Sound(g)
  PROVE  /\ Sound(Advanced(g))
         /\ Advanced(g).alive = g.alive /\ Advanced(g).here = g.here
         /\ Advanced(g).doomed = g.doomed /\ Advanced(g).stack = g.stack
         /\ Advanced(g).waiting = g.waiting
<1>1. CASE g.extra = <<>>
  BY <1>1, RotatedKeeps DEF Advanced
<1>2. CASE g.extra # <<>>
  <2>1. Advanced(g) = [g EXCEPT !.active = Head(g.extra), !.extra = Tail(@), !.turn = @ + 1]
    BY <1>2 DEF Advanced
  <2> QED BY <2>1 DEF Sound, Fields
<1> QED BY <1>1, <1>2

LEMMA AppendStaysSeq ==
  ASSUME NEW S, NEW s \in Seq(S), NEW e \in S
  PROVE  Append(s, e) \in Seq(S) /\ Tail(Append(s, e)) \in Seq(S)
<1> DEFINE longer == Append(s, e)
<1>1. longer \in Seq(S) /\ longer # <<>>
  BY AppendProperties
<1> HIDE DEF longer
<1>2. Tail(longer) \in Seq(S)
  BY <1>1
<1> QED BY <1>1, <1>2 DEF longer

LEMMA BetweenTurnsKeeps ==
  ASSUME IInv, Returns \/ Aborts \/ SkipTurn \/ BeginTurn
  PROVE  IInv'
<1>1. CASE Returns
  BY <1>1 DEF Returns, RunEnds, IInv, CheckpointsSound, Sound
<1>2. CASE Aborts
  <2>1. Sound(game')
    BY <1>2 DEF Aborts, IInv, Sound, Fields
  <2>2. game'.over /\ at' \in {"cleanup", "done"} /\ checkpoints' = checkpoints
    BY <1>2 DEF Aborts, RunEnds, RoundBreaksOff, IInv, Sound, Fields
  <2> QED BY <2>1, <2>2 DEF IInv, CheckpointsSound
<1>3. CASE SkipTurn
  <2>1. at = "run" /\ at' = "run" /\ checkpoints' = checkpoints
    BY <1>3 DEF SkipTurn
  <2> DEFINE fewer == [Rotated(game).skips EXCEPT ![game.active] = @ - 1]
  <2>2. game' = [Rotated(game) EXCEPT !.skips = fewer]
    BY <1>3 DEF SkipTurn
  <2> HIDE DEF fewer
  <2>3. /\ Sound(game') /\ game'.alive = game.alive /\ game'.here = game.here
        /\ game'.doomed = game.doomed /\ game'.stack = game.stack
        /\ game'.waiting = game.waiting /\ game'.endTurn = game.endTurn
    BY <2>2, RotatedKeeps DEF IInv, Sound, Fields
  <2> QED BY <2>1, <2>3 DEF IInv, CheckpointsSound, Noticed, Seen
<1>4. CASE BeginTurn
  <2>1. at = "run" /\ at' \in {"run", "step"} /\ game' = game
    BY <1>4 DEF BeginTurn
  <2>2. CheckpointsSound'
    <3> PICK kept : checkpoints \in Seq(kept) /\ \A g \in kept : Resumable(g)
      BY DEF IInv, CheckpointsSound
    <3>0. Resumable(game)
      BY <2>1 DEF IInv, Resumable, Noticed
    <3>1. checkpoints \in Seq(kept \cup {game})
      OBVIOUS
    <3>2. checkpoints' \in Seq(kept \cup {game})
      BY <1>4, <3>1, AppendStaysSeq DEF BeginTurn
    <3> QED BY <3>0, <3>2 DEF CheckpointsSound
  <2> QED BY <2>1, <2>2 DEF IInv, Noticed, Seen, Sound
<1> QED BY <1>1, <1>2, <1>3, <1>4

(* The steps of a turn: a window opens, or the step has none.               *)
LEMMA OpenRoundKeeps ==
  ASSUME IInv, OpenRound, Sound(game'), UNCHANGED checkpoints
  PROVE  IInv'
BY DEF IInv, OpenRound, CheckpointsSound

LEMMA StepsKeep ==
  ASSUME IInv,
         \/ JumpToCleanup \/ PlayQuietStep \/ PlayStep \/ Cleanup
         \/ CleanupOver \/ RestoreInCombat
  PROVE  IInv'
<1>1. CASE JumpToCleanup
  <2>1. Sound(game') /\ Noticed' /\ game'.waiting = <<>> /\ game'.stack = <<>>
    BY <1>1 DEF JumpToCleanup, IInv, Sound, Fields, Noticed, Seen
  <2>2. at' = "step" /\ checkpoints' = checkpoints
    BY <1>1 DEF JumpToCleanup
  <2> QED BY <2>1, <2>2 DEF IInv, CheckpointsSound
<1>2. CASE PlayQuietStep
  <2>1. at = "step" /\ at' = "step" /\ game' = game /\ checkpoints' = checkpoints
    BY <1>2 DEF PlayQuietStep
  <2> QED BY <2>1 DEF IInv, CheckpointsSound, Noticed, Seen, Sound
<1>3. CASE PlayStep
  <2>1. OpenRound /\ checkpoints' = checkpoints
    BY <1>3 DEF PlayStep
  <2>2. \E hit, more : game' = [game EXCEPT !.doomed = hit, !.waiting = more]
    BY <1>3 DEF PlayStep
  <2>3. Sound(game')
    BY <2>2 DEF IInv, Sound, Fields
  <2> QED BY <2>1, <2>3, OpenRoundKeeps
<1>4. CASE Cleanup
  <2> PICK t \in Triggers(game) :
        LET g == [game EXCEPT !.waiting = @ \o t]
        IN IF RepeatsCleanup(g)
             THEN game' = g /\ OpenRound
             ELSE /\ game' = [Advanced(g) EXCEPT !.endTurn = FALSE]
                  /\ at' = "run"
    BY <1>4 DEF Cleanup
  <2> DEFINE more == game.waiting \o t
             g == [game EXCEPT !.waiting = more]
  <2>1. /\ RepeatsCleanup(g) => game' = g /\ OpenRound
        /\ ~RepeatsCleanup(g) => /\ game' = [Advanced(g) EXCEPT !.endTurn = FALSE]
                                /\ at' = "run"
    OBVIOUS
  <2>2. Noticed /\ checkpoints' = checkpoints
    BY <1>4 DEF Cleanup, IInv, Resumable, Noticed
  <2> HIDE DEF more
  <2>3. /\ Sound(g) /\ g.alive = game.alive /\ g.here = game.here
        /\ g.doomed = game.doomed /\ g.stack = game.stack
    BY DEF IInv, Sound, Fields
  <2>4. CASE RepeatsCleanup(g)
    BY <2>1, <2>2, <2>3, <2>4, OpenRoundKeeps
  <2>5. CASE ~RepeatsCleanup(g)
    <3>1. g.stack = <<>> /\ g.waiting = <<>>
      BY <2>5 DEF RepeatsCleanup
    <3> HIDE DEF g
    <3>2. /\ Sound(game') /\ game'.alive = g.alive /\ game'.here = g.here
          /\ game'.doomed = g.doomed /\ game'.stack = g.stack
          /\ game'.waiting = g.waiting /\ game'.endTurn = FALSE
      BY <2>1, <2>3, <2>5, AdvancedKeeps DEF Sound, Fields
    <3> QED BY <2>1, <2>2, <2>3, <2>5, <3>1, <3>2 DEF IInv, CheckpointsSound, Noticed, Seen
  <2> QED BY <2>4, <2>5
<1>5. CASE CleanupOver
  <2>1. /\ game.over /\ at' \in {"cleanup", "done"} /\ checkpoints' = checkpoints
        /\ \E more : \/ game' = [game EXCEPT !.waiting = more]
                     \/ game' = [game EXCEPT !.waiting = more, !.endTurn = FALSE]
    BY <1>5 DEF CleanupOver, RunEnds
  <2>2. Sound(game') /\ game'.over
    BY <2>1 DEF IInv, Sound, Fields
  <2> QED BY <2>1, <2>2 DEF IInv, CheckpointsSound
<1>6. CASE RestoreInCombat
  <2>1. /\ at' = "step" /\ checkpoints' = checkpoints
        /\ \E i \in DOMAIN checkpoints : game' = checkpoints[i]
    BY <1>6 DEF RestoreInCombat
  <2>2. Resumable(game')
    BY <2>1 DEF IInv, CheckpointsSound
  <2> QED BY <2>1, <2>2 DEF IInv, CheckpointsSound, Resumable, Noticed
<1> QED BY <1>1, <1>2, <1>3, <1>4, <1>5, <1>6

(* Whoever lost leaves before anybody is asked.                             *)
LEMMA SettleKeeps ==
  ASSUME IInv, Settle
  PROVE  IInv'
<1> DEFINE g == WithoutLosers
           rest == Subsequence(game.stack,
                     {i \in DOMAIN game.stack : game.stack[i].by \notin Losers})
           ended == Cardinality(game.alive \ Losers) <= 1
           barring == game.bars \ Losers
<1>1. g = [game EXCEPT !.alive = @ \ Losers, !.here = @ \ Losers, !.doomed = {},
                       !.stack = rest, !.bars = barring, !.over = ended]
  BY DEF WithoutLosers
<1> HIDE DEF rest, ended, barring
<1>2. /\ Sound(g) /\ g.doomed = {}
      /\ g.alive = game.alive \ Losers /\ g.here = game.here \ Losers
      /\ g.over = ended
  BY <1>1 DEF IInv, Sound, Fields
<1>3. g.here = g.alive
  BY <1>2 DEF Losers, IInv, Sound
<1>4. checkpoints' = checkpoints
  BY DEF Settle
<1> HIDE DEF g
<1>5. CASE g.over
  <2>1. game' = g /\ at' \in {"cleanup", "done"}
    BY <1>5 DEF Settle, RoundBreaksOff, RunEnds, g
  <2> QED BY <1>2, <1>4, <1>5, <2>1 DEF IInv, CheckpointsSound
<1>6. CASE ~g.over
  <2>1. at' = "ask" /\ \E pushed : game' = [g EXCEPT !.stack = pushed, !.waiting = <<>>]
    BY <1>6 DEF Settle, g
  <2>2. /\ Sound(game') /\ game'.alive = g.alive /\ game'.here = g.here
        /\ game'.doomed = {} /\ game'.waiting = <<>>
    BY <1>2, <2>1 DEF Sound, Fields
  <2>3. Cardinality(g.alive) >= 2
    <3>1. IsFiniteSet(g.alive)
      BY <1>2, TurnLoopAssumption, FS_Subset DEF Sound
    <3>2. Cardinality(g.alive) \in Nat
      BY <3>1, FS_CardinalityType
    <3>3. ~(Cardinality(g.alive) <= 1)
      BY <1>2, <1>6, Zenon DEF ended
    <3> QED BY <3>2, <3>3
  <2> QED BY <1>3, <1>4, <2>1, <2>2, <2>3 DEF IInv, CheckpointsSound, Noticed, Seen
<1> QED BY <1>5, <1>6

(* What a player answers.                                                   *)
LEMMA AnswerKeeps ==
  ASSUME IInv, Answer
  PROVE  IInv'
<1>1. CASE Pass
  <2>1. /\ at = "ask" /\ at' \in {"round", "settle"}
        /\ game' = game /\ checkpoints' = checkpoints
    BY <1>1 DEF Pass
  <2> QED BY <2>1 DEF IInv, CheckpointsSound, Noticed, Seen
<1>2. CASE Play
  <2>1. /\ at' = "settle" /\ checkpoints' = checkpoints
        /\ \E more : game' = [game EXCEPT !.stack = more]
    BY <1>2 DEF Play
  <2>2. Sound(game')
    BY <2>1 DEF IInv, Sound, Fields
  <2> QED BY <2>1, <2>2 DEF IInv, CheckpointsSound
<1>3. CASE PlayFails
  BY <1>3 DEF PlayFails, IInv, CheckpointsSound
<1>4. CASE Concede
  <2>1. /\ at' = "settle" /\ checkpoints' = checkpoints
        /\ game' = [game EXCEPT !.alive = @ \ {holder}]
    BY <1>4 DEF Concede
  <2>2. Sound(game')
    BY <2>1 DEF IInv, Sound, Fields
  <2> QED BY <2>1, <2>2 DEF IInv, CheckpointsSound
<1>5. CASE Restore
  <2>1. /\ at' = "settle" /\ checkpoints' = checkpoints
        /\ \E i \in DOMAIN checkpoints : game' = checkpoints[i]
    BY <1>5 DEF Restore
  <2>2. Sound(game')
    BY <2>1 DEF IInv, CheckpointsSound, Resumable
  <2> QED BY <2>1, <2>2 DEF IInv, CheckpointsSound
<1> QED BY <1>1, <1>2, <1>3, <1>4, <1>5 DEF Answer

(* Everyone passed.                                                         *)
LEMMA EffectKeeps ==
  ASSUME NEW g, NEW o, Sound(g)
  PROVE  Sound(Effect(g, o))
BY DEF Effect, Sound, Fields

LEMMA RoundEndsKeeps ==
  ASSUME IInv, CloseWindow \/ Resolve
  PROVE  IInv'
<1>1. CASE CloseWindow
  <2>1. /\ at = "round" /\ at' \in {"step", "cleanup"} /\ game.stack = <<>>
        /\ game' = game /\ checkpoints' = checkpoints
    BY <1>1 DEF CloseWindow
  <2> QED BY <2>1 DEF IInv, CheckpointsSound, Resumable, Noticed, Seen, Sound
<1>2. CASE Resolve
  <2> DEFINE popped == [game EXCEPT !.stack = Front(@)]
             played == Effect(popped, Last(game.stack))
  <2>1. OpenRound /\ checkpoints' = checkpoints
    BY <1>2 DEF Resolve
  <2>2. \E more : game' = [played EXCEPT !.waiting = more]
    BY <1>2 DEF Resolve
  <2>3. Sound(popped)
    BY DEF IInv, Sound, Fields
  <2>4. Sound(played)
    BY <2>3, EffectKeeps
  <2> HIDE DEF played
  <2>5. Sound(game')
    BY <2>2, <2>4 DEF Sound, Fields
  <2> QED BY <2>1, <2>5, OpenRoundKeeps
<1> QED BY <1>1, <1>2

LEMMA StepIInv == IInv /\ [Next]_vars => IInv'
<1> SUFFICES ASSUME IInv, [Next]_vars PROVE IInv'
  OBVIOUS
<1>1. CASE Engine
  BY <1>1, BetweenTurnsKeeps, StepsKeep, SettleKeeps, RoundEndsKeeps DEF Engine
<1>2. CASE Answer
  BY <1>2, AnswerKeeps
<1>3. CASE Aborts
  BY <1>3, BetweenTurnsKeeps
<1>4. CASE RestoreInCombat
  BY <1>4, StepsKeep
<1>5. CASE UNCHANGED vars
  BY <1>5 DEF vars, IInv, CheckpointsSound, Resumable, Sound, Noticed, Seen
<1> QED BY <1>1, <1>2, <1>3, <1>4, <1>5 DEF Next

LEMMA Invariance == Spec => []IInv
BY InitIInv, StepIInv, PTL DEF Spec

(* Whatever is cast, conceded or restored, a player is asked only in a game that
  goes on and that everyone who lost has left (AskedWhenSettled).          *)
THEOREM AsksAreSettled == Spec => []AskedWhenSettled
<1>1. IInv => AskedWhenSettled
  BY DEF IInv, AskedWhenSettled, Noticed, Seen
<1> QED BY <1>1, Invariance, PTL

(* No spell, trigger, request to end the turn or loss crosses a cleanup
  (TurnStartsClean).                                                       *)
THEOREM TurnsAreSeparate == Spec => []TurnStartsClean
<1>1. IInv => TurnStartsClean
  BY DEF IInv, TurnStartsClean, Noticed, Seen
<1> QED BY <1>1, Invariance, PTL

-----------------------------------------------------------------------------
(* Priority rounds: priority_round counts passes and compares their number with
  all seats, those of losers included; that this is enough rests on where the
  passes lie.                                                              *)

N == Cardinality(Players)

(* Everyone has exactly one place.                                          *)
Seating(o) ==
  /\ o \in Seq(Players) /\ Len(o) = N
  /\ \A p \in Players : \E i \in 1..N : o[i] = p
  /\ \A i, j \in 1..N : o[i] = o[j] => i = j

Table(g) == Seating(g.order) /\ g.active \in Players /\ g.extra \in Seq(Players)

TablesKept == \E kept : checkpoints \in Seq(kept) /\ \A g \in kept : Table(g)

(* Who sits j places before p; p sits N places before p.                    *)
Back(p, j) ==
  game.order[IF Place(p) > j THEN Place(p) - j ELSE Place(p) - j + N]

(* The passes since the last deed make an arc that ends before the holder, and is
  at least as long as their number: whoever lives in it has passed.         *)
Covered(d) ==
  \A j \in 1..N : j <= d /\ Back(holder, j) \in game.alive => Back(holder, j) \in passes

Arc == \E d \in Nat : d >= passed /\ Covered(d)

RInv ==
  /\ Table(game)
  /\ TablesKept
  /\ holder \in Players
  /\ passed \in Nat
  /\ at \in {"settle", "ask"} => Arc /\ passed < N
  /\ at = "round" => game.alive \subseteq passes

LEMMA SizeOfTable == N \in Nat /\ N >= 2
BY TurnLoopAssumption, FS_CardinalityType DEF N

LEMMA OrderSeats == Seating(Order)
<1>1. Order \in Seq(Players) /\ Len(Order) = N /\ ToSet(Order) = Players
  BY TurnLoopAssumption DEF N
<1>2. Order \in [1..N -> Players] /\ DOMAIN Order = 1..N
  BY <1>1
<1>3. \A p \in Players : \E i \in 1..N : Order[i] = p
  BY <1>1, <1>2 DEF ToSet
<1>4. Order \in Surjection(1..N, Players)
  BY <1>2, <1>3 DEF Surjection
<1>5. IsFiniteSet(1..N) /\ Cardinality(1..N) = Cardinality(Players)
  BY SizeOfTable, FS_Interval DEF N
<1>6. Order \in Injection(1..N, Players)
  BY <1>4, <1>5, FS_SurjSameCardinalityImpliesInj
<1>7. \A i, j \in 1..N : Order[i] = Order[j] => i = j
  BY <1>6 DEF Injection, IsInjective
<1> QED BY <1>1, <1>3, <1>7 DEF Seating

LEMMA ReverseSeats ==
  ASSUME NEW o, Seating(o)
  PROVE  Seating(Reverse(o))
<1> DEFINE r == Reverse(o)
<1>1. r = [i \in 1..N |-> o[(N - i) + 1]]
  BY DEF Reverse, Seating
<1>2. \A i \in 1..N : (N - i) + 1 \in 1..N /\ (N - ((N - i) + 1)) + 1 = i
  BY SizeOfTable
<1>3. r \in Seq(Players) /\ Len(r) = N
  BY <1>1, <1>2, SizeOfTable DEF Seating
<1>4. \A i \in 1..N : r[i] = o[(N - i) + 1]
  BY <1>1
<1> HIDE DEF r
<1>5. \A p \in Players : \E i \in 1..N : r[i] = p
  <2> TAKE p \in Players
  <2> PICK i \in 1..N : o[i] = p
    BY DEF Seating
  <2> DEFINE k == (N - i) + 1
  <2>1. k \in 1..N /\ (N - k) + 1 = i
    BY <1>2
  <2> HIDE DEF k
  <2>2. r[k] = p
    BY <1>4, <2>1
  <2> QED BY <2>1, <2>2
<1>6. \A i, j \in 1..N : r[i] = r[j] => i = j
  <2> TAKE i, j \in 1..N
  <2> HAVE r[i] = r[j]
  <2>1. (N - i) + 1 = (N - j) + 1
    BY <1>2, <1>4 DEF Seating
  <2> QED BY <2>1, SizeOfTable
<1>7. Seating(r)
  BY <1>3, <1>5, <1>6 DEF Seating
<1> QED BY <1>7 DEF r

-----------------------------------------------------------------------------
(* Places around the table                                                   *)

LEMMA PlaceOf ==
  ASSUME Seating(game.order), NEW p \in Players
  PROVE  /\ Place(p) \in 1..N
         /\ game.order[Place(p)] = p
         /\ \A i \in 1..N : game.order[i] = p => i = Place(p)
<1>1. DOMAIN game.order = 1..N
  BY DEF Seating
<1>2. \E i \in 1..N : game.order[i] = p
  BY DEF Seating
<1>3. Place(p) \in 1..N /\ game.order[Place(p)] = p
  BY <1>1, <1>2 DEF Place
<1> QED BY <1>3 DEF Seating

LEMMA OnceAround ==
  ASSUME NEW n \in Nat, n > 0, NEW x \in 0..(n + n - 1)
  PROVE  x % n = IF x < n THEN x ELSE x - n
OBVIOUS

LEMMA AroundIs ==
  ASSUME Seating(game.order), NEW p \in Players, NEW i \in 1..(N - 1)
  PROVE  /\ Around(p, i) = game.order[IF Place(p) + i <= N THEN Place(p) + i
                                                         ELSE Place(p) + i - N]
         /\ Around(p, i) \in Players
<1> DEFINE q == Place(p)
           x == q + i - 1
           y == x % N
<1>1. q \in 1..N
  BY PlaceOf
<1>2. Around(p, i) = game.order[y + 1]
  BY DEF Around, Seating
<1> HIDE DEF q
<1>3. x \in 0..(N + N - 1)
  BY <1>1, SizeOfTable
<1>4. y = IF x < N THEN x ELSE x - N
  BY <1>3, OnceAround, SizeOfTable
<1> HIDE DEF y
<1>5. y + 1 = IF q + i <= N THEN q + i ELSE q + i - N
  BY <1>1, <1>4, SizeOfTable
<1>6. y + 1 \in 1..N
  BY <1>1, <1>5, SizeOfTable
<1> QED BY <1>2, <1>5, <1>6 DEF Seating, q

(* The next living player, counted in places; nobody between lives.          *)
LEMMA NextIs ==
  ASSUME Seating(game.order), NEW p \in Players
  PROVE  \E i \in 1..N :
            /\ NextPlayer(p) \in Players
            /\ i < N => NextPlayer(p) = Around(p, i)
            /\ i = N => NextPlayer(p) = p
            /\ \A j \in 1..(N - 1) : j < i => Around(p, j) \notin game.alive
<1> DEFINE living == {i \in 1..(N - 1) : Around(p, i) \in game.alive}
           first == CHOOSE i \in living : \A j \in living : i <= j
<1>1. NextPlayer(p) = IF living = {} THEN p ELSE Around(p, first)
  BY DEF NextPlayer, Seating
<1>2. CASE living = {}
  <2>1. N \in 1..N
    BY SizeOfTable
  <2> QED BY <1>1, <1>2, <2>1
<1>3. CASE living # {}
  <2>1. \E i \in living : \A j \in living : i <= j
    <3>1. living \subseteq Nat /\ living # {}
      BY <1>3, SizeOfTable
    <3> HIDE DEF living
    <3> QED BY <3>1, SmallestNat
  <2>2. first \in living /\ \A j \in living : first <= j
    <3> HIDE DEF living
    <3> QED BY <2>1
  <2> HIDE DEF first
  <2>3. first \in 1..(N - 1) /\ first \in 1..N /\ first < N
    BY <2>2, SizeOfTable
  <2>4. NextPlayer(p) = Around(p, first) /\ NextPlayer(p) \in Players
    BY <1>1, <1>3, <2>3, AroundIs
  <2>5. \A j \in 1..(N - 1) : j < first => Around(p, j) \notin game.alive
    BY <2>2, <2>3, SizeOfTable
  <2> QED BY <2>3, <2>4, <2>5, SizeOfTable
<1> QED BY <1>2, <1>3

(* Seen from the next holder, the places behind are those behind the last one,
  the last one, and those between.                                          *)
LEMMA BackFrom ==
  ASSUME Seating(game.order), NEW p \in Players, NEW i \in 1..(N - 1), NEW j \in 1..N
  PROVE  Back(Around(p, i), j) = IF j < i THEN Around(p, i - j)
                                 ELSE IF j = i THEN p ELSE Back(p, j - i)
<1> DEFINE h == Around(p, i)
<1>1. /\ Place(p) \in 1..N /\ game.order[Place(p)] = p
  BY PlaceOf
<1>2. Place(h) = IF Place(p) + i <= N THEN Place(p) + i ELSE Place(p) + i - N
  <2> DEFINE z == IF Place(p) + i <= N THEN Place(p) + i ELSE Place(p) + i - N
  <2>1. h = game.order[z] /\ h \in Players
    BY AroundIs
  <2>2. z \in 1..N
    BY <1>1, SizeOfTable
  <2> HIDE DEF h, z
  <2>3. z = Place(h)
    BY <2>1, <2>2, PlaceOf
  <2> QED BY <2>3 DEF z
<1>3. Back(h, j) = game.order[IF Place(h) > j THEN Place(h) - j ELSE Place(h) - j + N]
  BY DEF Back
<1>4. CASE j < i
  <2>1. i - j \in 1..(N - 1)
    BY <1>4, SizeOfTable
  <2>2. Around(p, i - j) = game.order[IF Place(p) + (i - j) <= N THEN Place(p) + (i - j)
                                                           ELSE Place(p) + (i - j) - N]
    BY <2>1, AroundIs
  <2> HIDE DEF h
  <2>3. (IF Place(h) > j THEN Place(h) - j ELSE Place(h) - j + N)
          = (IF Place(p) + (i - j) <= N THEN Place(p) + (i - j)
                                   ELSE Place(p) + (i - j) - N)
    BY <1>1, <1>2, <1>4, SizeOfTable
  <2> QED BY <1>3, <1>4, <2>2, <2>3 DEF h
<1>5. CASE j = i
  <2> HIDE DEF h
  <2>1. (IF Place(h) > j THEN Place(h) - j ELSE Place(h) - j + N) = Place(p)
    BY <1>1, <1>2, <1>5, SizeOfTable
  <2> QED BY <1>1, <1>3, <1>5, <2>1 DEF h
<1>6. CASE j > i
  <2>1. Back(p, j - i) = game.order[IF Place(p) > j - i THEN Place(p) - (j - i)
                                                     ELSE Place(p) - (j - i) + N]
    BY DEF Back
  <2> HIDE DEF h
  <2>2. (IF Place(h) > j THEN Place(h) - j ELSE Place(h) - j + N)
          = (IF Place(p) > j - i THEN Place(p) - (j - i)
                                ELSE Place(p) - (j - i) + N)
    BY <1>1, <1>2, <1>6, SizeOfTable
  <2> QED BY <1>3, <1>6, <2>1, <2>2 DEF h
<1> QED BY <1>4, <1>5, <1>6

(* Whoever sits at the table sits behind the holder, N places at most.       *)
LEMMA AllBehind ==
  ASSUME Seating(game.order), NEW h \in Players, NEW p \in Players
  PROVE  \E j \in 1..N : Back(h, j) = p
<1> DEFINE a == Place(h) b == Place(p)
           j == IF a > b THEN a - b ELSE a - b + N
<1>1. a \in 1..N /\ b \in 1..N /\ game.order[b] = p
  BY PlaceOf
<1>2. Back(h, j) = game.order[IF a > j THEN a - j ELSE a - j + N]
  BY DEF Back
<1> HIDE DEF a, b
<1>3. j \in 1..N
  BY <1>1, SizeOfTable
<1>4. (IF a > j THEN a - j ELSE a - j + N) = b
  BY <1>1, SizeOfTable
<1> QED BY <1>1, <1>2, <1>3, <1>4

(* A player passes, and the arc grows by the places to the next holder.      *)
LEMMA PassExtends ==
  ASSUME Seating(game.order), holder \in Players, passed \in Nat, Arc, Pass
  PROVE  Arc'
<1>1. /\ passed' = passed + 1 /\ passes' = passes \cup {holder}
      /\ holder' = NextPlayer(holder) /\ game' = game
  BY DEF Pass
<1> PICK d \in Nat : d >= passed /\ Covered(d)
  BY DEF Arc
<1> PICK i \in 1..N :
      /\ i < N => NextPlayer(holder) = Around(holder, i)
      /\ i = N => NextPlayer(holder) = holder
      /\ \A j \in 1..(N - 1) : j < i => Around(holder, j) \notin game.alive
  BY NextIs
<1>2. d + i \in Nat /\ d + i >= passed'
  BY <1>1, SizeOfTable
<1>3. ASSUME NEW j \in 1..N, j <= d + i, Back(holder', j) \in game.alive
      PROVE  Back(holder', j) \in passes'
  <2>1. CASE i < N
    <3>1. i \in 1..(N - 1) /\ holder' = Around(holder, i)
      BY <1>1, <2>1, SizeOfTable
    <3>2. Back(holder', j) = IF j < i THEN Around(holder, i - j)
                             ELSE IF j = i THEN holder ELSE Back(holder, j - i)
      BY <3>1, BackFrom
    <3>3. CASE j < i
      <4>1. i - j \in 1..(N - 1) /\ i - j < i
        BY <3>3, SizeOfTable
      <4> QED BY <1>3, <3>2, <3>3, <4>1
    <3>4. CASE j = i
      BY <1>1, <3>2, <3>4
    <3>5. CASE j > i
      <4>1. j - i \in 1..N /\ j - i <= d
        BY <1>3, <3>5, SizeOfTable
      <4> QED BY <1>1, <1>3, <3>2, <3>5, <4>1 DEF Covered
    <3> QED BY <3>3, <3>4, <3>5
  <2>2. CASE i = N
    <3>1. holder' = holder
      BY <1>1, <2>2
    <3>2. CASE j < N
      <4>1. N - j \in 1..(N - 1) /\ N - j < i
        BY <2>2, <3>2, SizeOfTable
      <4>2. Back(holder, j) = Around(holder, N - j)
        <5>1. Place(holder) \in 1..N
          BY PlaceOf
        <5>2. Around(holder, N - j) =
                game.order[IF Place(holder) + (N - j) <= N THEN Place(holder) + (N - j)
                                                     ELSE Place(holder) + (N - j) - N]
          BY <4>1, AroundIs
        <5>3. (IF Place(holder) + (N - j) <= N THEN Place(holder) + (N - j)
                                         ELSE Place(holder) + (N - j) - N)
                = (IF Place(holder) > j THEN Place(holder) - j ELSE Place(holder) - j + N)
          BY <5>1, SizeOfTable
        <5> QED BY <5>2, <5>3 DEF Back
      <4> QED BY <1>3, <3>1, <4>1, <4>2
    <3>3. CASE j = N
      <4>1. Place(holder) \in 1..N /\ game.order[Place(holder)] = holder
        BY PlaceOf
      <4>2. (IF Place(holder) > N THEN Place(holder) - N ELSE Place(holder) - N + N)
              = Place(holder)
        BY <4>1, SizeOfTable
      <4>3. Back(holder, N) = holder
        BY <4>1, <4>2 DEF Back
      <4> QED BY <1>1, <3>1, <3>3, <4>3
    <3> QED BY <3>2, <3>3, SizeOfTable
  <2> QED BY <2>1, <2>2, SizeOfTable
<1>4. \A j : Back(holder, j)' = Back(holder', j)
  BY <1>1 DEF Back, Place
<1>5. Covered(d + i)'
  BY <1>1, <1>3, <1>4 DEF Covered
<1> QED BY <1>2, <1>5 DEF Arc

(* A round that begins, or begins again, has an empty arc.                  *)
LEMMA ArcStarts ==
  ASSUME passed' = 0
  PROVE  Arc'
<1>1. Covered(0)'
  BY SizeOfTable DEF Covered
<1> QED BY <1>1 DEF Arc

(* Players who leave shorten no arc.                                        *)
LEMMA ArcKept ==
  ASSUME Arc, UNCHANGED <<holder, passed, passes>>,
         game'.order = game.order, game'.alive \subseteq game.alive
  PROVE  Arc'
<1> PICK d \in Nat : d >= passed /\ Covered(d)
  BY DEF Arc
<1>1. \A j : Back(holder, j)' = Back(holder, j)
  BY DEF Back, Place
<1>2. Covered(d)'
  BY <1>1 DEF Covered
<1> QED BY <1>2 DEF Arc

(* When there were as many passes as seats, the arc is the whole table.     *)
LEMMA FullArc ==
  ASSUME Seating(game.order), game' = game, holder' \in Players, Arc',
         passed' \in Nat, passed' >= N
  PROVE  \A p \in Players : p \in game.alive => p \in passes'
<1> PICK d \in Nat : d >= passed' /\ Covered(d)'
  BY DEF Arc
<1>1. \A j : Back(holder, j)' = Back(holder', j)
  BY DEF Back, Place
<1> SUFFICES ASSUME NEW p \in Players, p \in game.alive
             PROVE  p \in passes'
  OBVIOUS
<1> PICK j \in 1..N : Back(holder', j) = p
  BY AllBehind
<1>2. j \in 1..N' /\ j <= d
  BY SizeOfTable DEF N
<1> QED BY <1>1, <1>2 DEF Covered

-----------------------------------------------------------------------------
LEMMA InitRInv == Init => RInv
<1> SUFFICES ASSUME Init PROVE RInv
  OBVIOUS
<1>1. Order[1] \in Players
  BY OrderSeats, SizeOfTable DEF Seating
<1>2. Table(game)
  BY <1>1, OrderSeats DEF Init, NewGame, Table
<1>3. TablesKept
  <2> DEFINE kept == {}
  <2>1. checkpoints \in Seq(kept) /\ \A g \in kept : Table(g)
    BY DEF Init
  <2> HIDE DEF kept
  <2> QED BY <2>1 DEF TablesKept
<1> QED BY <1>1, <1>2, <1>3 DEF Init, RInv

(* The order, whose turn it is and the extra turns.                         *)
LEMMA TableSame ==
  ASSUME NEW g, NEW h, Table(g), h.order = g.order, h.active = g.active,
         h.extra = g.extra
  PROVE  Table(h)
BY DEF Table

LEMMA RotatedTable ==
  ASSUME NEW g, Table(g), Sound(g), Seating(game.order)
  PROVE  Table(Rotated(g))
<1> DEFINE next == Around(g.active, 1)
<1>1. next \in Players
  <2>1. 1 \in 1..(N - 1) /\ g.active \in Players
    BY SizeOfTable DEF Table
  <2> QED BY <2>1, AroundIs
<1>2. Rotated(g) = [g EXCEPT !.active = next, !.turn = @ + 1]
  BY DEF Rotated
<1> HIDE DEF next
<1> QED BY <1>1, <1>2 DEF Table, Sound, Fields

LEMMA AdvancedTable ==
  ASSUME NEW g, Table(g), Sound(g), Seating(game.order)
  PROVE  Table(Advanced(g))
<1>1. CASE g.extra = <<>>
  BY <1>1, RotatedTable DEF Advanced
<1>2. CASE g.extra # <<>>
  <2>1. Advanced(g) = [g EXCEPT !.active = Head(g.extra), !.extra = Tail(@), !.turn = @ + 1]
    BY <1>2 DEF Advanced
  <2>2. Head(g.extra) \in Players /\ Tail(g.extra) \in Seq(Players)
    BY <1>2, HeadTailProperties DEF Table
  <2> QED BY <2>1, <2>2 DEF Table, Sound, Fields
<1> QED BY <1>1, <1>2

(* The loop is where no round is.                                           *)
LEMMA NoRoundKeeps ==
  ASSUME RInv, Table(game'), TablesKept', at' \in {"run", "step", "cleanup", "done"},
         \/ UNCHANGED <<holder, passed>>
         \/ NoRound
  PROVE  RInv'
<1>1. Order[1] \in Players
  BY OrderSeats, SizeOfTable DEF Seating
<1> QED BY <1>1 DEF RInv, NoRound

(* A round begins or begins again.                                          *)
LEMMA RoundStarts ==
  ASSUME RInv, Table(game'), TablesKept', at' = "settle", holder' \in Players,
         passed' = 0
  PROVE  RInv'
BY ArcStarts, SizeOfTable DEF RInv

LEMMA RunKeeps ==
  ASSUME IInv, RInv, Returns \/ Aborts \/ SkipTurn \/ BeginTurn
  PROVE  RInv'
<1>1. CASE Returns
  BY <1>1, NoRoundKeeps DEF Returns, RunEnds, RInv, TablesKept, Table
<1>2. CASE Aborts
  <2>1. Table(game')
    BY <1>2, TableSame DEF Aborts, IInv, Sound, Fields, RInv
  <2>2. at' \in {"cleanup", "done"} /\ NoRound /\ checkpoints' = checkpoints
    BY <1>2 DEF Aborts, RunEnds, RoundBreaksOff
  <2> QED BY <2>1, <2>2, NoRoundKeeps DEF RInv, TablesKept
<1>3. CASE SkipTurn
  <2>1. /\ at' = "run" /\ UNCHANGED <<holder, passed, checkpoints>>
    BY <1>3 DEF SkipTurn
  <2> DEFINE fewer == [Rotated(game).skips EXCEPT ![game.active] = @ - 1]
  <2>2. game' = [Rotated(game) EXCEPT !.skips = fewer]
    BY <1>3 DEF SkipTurn
  <2> HIDE DEF fewer
  <2>3. Table(Rotated(game)) /\ Sound(Rotated(game))
    BY RotatedTable, RotatedKeeps DEF IInv, RInv, Table
  <2>4. Table(game')
    BY <2>2, <2>3, TableSame DEF Sound, Fields
  <2> QED BY <2>1, <2>4, NoRoundKeeps DEF RInv, TablesKept
<1>4. CASE BeginTurn
  <2>1. at' \in {"run", "step"} /\ game' = game /\ UNCHANGED <<holder, passed>>
    BY <1>4 DEF BeginTurn
  <2>2. TablesKept'
    <3> PICK kept : checkpoints \in Seq(kept) /\ \A g \in kept : Table(g)
      BY DEF RInv, TablesKept
    <3>1. checkpoints \in Seq(kept \cup {game})
      OBVIOUS
    <3>2. checkpoints' \in Seq(kept \cup {game})
      BY <1>4, <3>1, AppendStaysSeq DEF BeginTurn
    <3> QED BY <3>2 DEF RInv, TablesKept
  <2> QED BY <2>1, <2>2, NoRoundKeeps DEF RInv, Table
<1> QED BY <1>1, <1>2, <1>3, <1>4

LEMMA TurnKeeps ==
  ASSUME IInv, RInv,
         \/ JumpToCleanup \/ PlayQuietStep \/ PlayStep \/ Cleanup
         \/ CleanupOver \/ RestoreInCombat
  PROVE  RInv'
<1>1. CASE JumpToCleanup
  <2>1. Table(game')
    BY <1>1, TableSame DEF JumpToCleanup, IInv, Sound, Fields, RInv
  <2> QED BY <1>1, <2>1, NoRoundKeeps DEF JumpToCleanup, RInv, TablesKept
<1>2. CASE PlayQuietStep
  BY <1>2, NoRoundKeeps DEF PlayQuietStep, RInv, TablesKept, Table
<1>3. CASE PlayStep
  <2>1. OpenRound /\ checkpoints' = checkpoints
    BY <1>3 DEF PlayStep
  <2>2. \E hit, more : game' = [game EXCEPT !.doomed = hit, !.waiting = more]
    BY <1>3 DEF PlayStep
  <2>3. Table(game')
    BY <2>2, TableSame DEF IInv, Sound, Fields, RInv
  <2> QED BY <2>1, <2>3, RoundStarts DEF OpenRound, RInv, Table, TablesKept
<1>4. CASE Cleanup
  <2> PICK more : LET g == [game EXCEPT !.waiting = more]
                  IN IF RepeatsCleanup(g)
                       THEN game' = g /\ OpenRound
                       ELSE /\ game' = [Advanced(g) EXCEPT !.endTurn = FALSE]
                            /\ at' = "run"
                            /\ UNCHANGED <<holder, passed, passes>>
    BY <1>4 DEF Cleanup
  <2> DEFINE g == [game EXCEPT !.waiting = more]
  <2>1. /\ g.order = game.order /\ g.active = game.active /\ g.extra = game.extra
        /\ Sound(g)
    BY DEF IInv, Sound, Fields
  <2>2. Table(g) /\ g.active \in Players
    BY <2>1, TableSame DEF RInv, Table
  <2>3. checkpoints' = checkpoints
    BY <1>4 DEF Cleanup
  <2>4. CASE RepeatsCleanup(g)
    <3>1. game' = g /\ OpenRound
      BY <2>4
    <3> QED BY <2>2, <2>3, <3>1, RoundStarts DEF OpenRound, RInv, Table, TablesKept
  <2>5. CASE ~RepeatsCleanup(g)
    <3>1. /\ game' = [Advanced(g) EXCEPT !.endTurn = FALSE]
          /\ at' = "run" /\ UNCHANGED <<holder, passed>>
      BY <2>5
    <3> HIDE DEF g
    <3>2. Table(Advanced(g)) /\ Sound(Advanced(g))
      BY <2>1, <2>2, AdvancedTable, AdvancedKeeps DEF RInv, Table
    <3>3. Table(game')
      BY <3>1, <3>2, TableSame DEF Sound, Fields
    <3> QED BY <2>3, <3>1, <3>3, NoRoundKeeps DEF RInv, TablesKept
  <2> QED BY <2>4, <2>5
<1>5. CASE CleanupOver
  <2>1. /\ at' \in {"cleanup", "done"} /\ checkpoints' = checkpoints
        /\ NoRound \/ UNCHANGED <<holder, passed>>
        /\ \E more : \/ game' = [game EXCEPT !.waiting = more]
                     \/ game' = [game EXCEPT !.waiting = more, !.endTurn = FALSE]
    BY <1>5 DEF CleanupOver, RunEnds
  <2>2. Table(game')
    BY <2>1, TableSame DEF IInv, Sound, Fields, RInv
  <2> QED BY <2>1, <2>2, NoRoundKeeps DEF RInv, TablesKept
<1>6. CASE RestoreInCombat
  <2>1. /\ at' = "step" /\ checkpoints' = checkpoints /\ UNCHANGED <<holder, passed>>
        /\ \E i \in DOMAIN checkpoints : game' = checkpoints[i]
    BY <1>6 DEF RestoreInCombat
  <2>2. Table(game')
    BY <2>1 DEF RInv, TablesKept
  <2> QED BY <2>1, <2>2, NoRoundKeeps DEF RInv, TablesKept
<1> QED BY <1>1, <1>2, <1>3, <1>4, <1>5, <1>6

LEMMA SettleKeepsRound ==
  ASSUME IInv, RInv, Settle
  PROVE  RInv'
<1>1. at = "settle" /\ checkpoints' = checkpoints
  BY DEF Settle
<1> DEFINE g == WithoutLosers
<1>2. /\ g.order = game.order /\ g.active = game.active /\ g.extra = game.extra
      /\ g.alive \subseteq game.alive /\ DOMAIN g = Fields
  <2> DEFINE lost == Losers
             left == Subsequence(game.stack,
                       {i \in DOMAIN game.stack : game.stack[i].by \notin Losers})
  <2>1. g = [game EXCEPT !.alive = @ \ lost, !.here = @ \ lost, !.doomed = {},
                         !.stack = left, !.bars = @ \ lost,
                         !.over = Cardinality(game.alive \ lost) <= 1]
    BY DEF WithoutLosers
  <2> HIDE DEF g, lost, left
  <2> QED BY <2>1 DEF IInv, Sound, Fields
<1>3. Table(g)
  BY <1>2, TableSame DEF RInv
<1>4. \/ game' = g /\ RoundBreaksOff
      \/ /\ \E s : game' = [g EXCEPT !.stack = s, !.waiting = <<>>]
         /\ at' = "ask" /\ UNCHANGED <<holder, passed, passes>>
  BY DEF Settle
<1> HIDE DEF g
<1>5. CASE game' = g /\ RoundBreaksOff
  BY <1>1, <1>3, <1>5, NoRoundKeeps DEF RoundBreaksOff, RunEnds, RInv, TablesKept
<1>6. ASSUME NEW s, game' = [g EXCEPT !.stack = s, !.waiting = <<>>],
             at' = "ask", UNCHANGED <<holder, passed, passes>>
      PROVE  RInv'
  <2>1. /\ game'.order = g.order /\ game'.active = g.active
        /\ game'.extra = g.extra /\ game'.alive = g.alive
    BY <1>2, <1>6 DEF Fields
  <2>2. Table(game')
    BY <1>3, <2>1, TableSame
  <2>3. Arc'
    BY <1>1, <1>2, <1>6, <2>1, ArcKept DEF RInv
  <2> QED BY <1>1, <1>6, <2>2, <2>3 DEF RInv, TablesKept
<1> QED BY <1>4, <1>5, <1>6

LEMMA AnswerKeepsRound ==
  ASSUME IInv, RInv, Answer
  PROVE  RInv'
<1>1. at = "ask" /\ Seating(game.order)
  BY DEF Answer, Pass, Play, PlayFails, Concede, Restore, RInv, Table
<1>2. CASE Pass
  <2>1. /\ passed' = passed + 1 /\ holder' = NextPlayer(holder)
        /\ game' = game /\ checkpoints' = checkpoints
        /\ at' = IF passed' = N THEN "round" ELSE "settle"
    BY <1>2 DEF Pass, N
  <2>2. holder' \in Players
    BY <1>1, <2>1, NextIs DEF RInv
  <2>3. Arc'
    BY <1>1, <1>2, PassExtends DEF RInv
  <2>4. passed' \in Nat /\ passed' <= N
    BY <1>1, <2>1, SizeOfTable DEF RInv
  <2>5. Table(game') /\ TablesKept'
    BY <2>1 DEF RInv, TablesKept
  <2>6. CASE passed' = N
    <3>1. passed' >= N
      BY <2>6, SizeOfTable
    <3>2. \A p \in Players : p \in game.alive => p \in passes'
      BY <1>1, <2>1, <2>2, <2>3, <2>4, <3>1, FullArc
    <3>3. game'.alive \subseteq Players
      BY <2>1 DEF IInv, Sound
    <3> QED BY <2>1, <2>2, <2>4, <2>5, <2>6, <3>2, <3>3 DEF RInv
  <2>7. CASE passed' # N
    BY <2>1, <2>2, <2>3, <2>4, <2>5, <2>7, SizeOfTable DEF RInv
  <2> QED BY <2>6, <2>7
<1>3. CASE Play
  <2>1. /\ \E s : game' = [game EXCEPT !.stack = s]
        /\ at' = "settle" /\ holder' = holder /\ passed' = 0
        /\ checkpoints' = checkpoints
    BY <1>3 DEF Play
  <2>2. Table(game')
    BY <2>1, TableSame DEF IInv, Sound, Fields, RInv
  <2> QED BY <2>1, <2>2, RoundStarts DEF RInv, TablesKept
<1>4. CASE PlayFails
  <2>1. /\ UNCHANGED <<game, holder, passed, passes, checkpoints>> /\ at' = "settle"
    BY <1>4 DEF PlayFails
  <2>2. Arc'
    BY <1>1, <2>1, ArcKept DEF RInv
  <2> QED BY <1>1, <2>1, <2>2 DEF RInv, TablesKept, Table
<1>5. CASE Concede
  <2>1. /\ game' = [game EXCEPT !.alive = @ \ {holder}]
        /\ at' = "settle" /\ holder' = NextPlayer(holder) /\ passed' = 0
        /\ checkpoints' = checkpoints
    BY <1>5 DEF Concede
  <2>2. holder' \in Players
    BY <1>1, <2>1, NextIs DEF RInv
  <2>3. Table(game')
    BY <2>1, TableSame DEF IInv, Sound, Fields, RInv
  <2> QED BY <2>1, <2>2, <2>3, RoundStarts DEF RInv, TablesKept
<1>6. CASE Restore
  <2> PICK i \in DOMAIN checkpoints :
        game' = checkpoints[i] /\ holder' = checkpoints[i].active
    BY <1>6 DEF Restore
  <2>1. at' = "settle" /\ passed' = 0 /\ checkpoints' = checkpoints
    BY <1>6 DEF Restore
  <2> PICK kept : checkpoints \in Seq(kept) /\ \A g \in kept : Table(g)
    BY DEF RInv, TablesKept
  <2>2. checkpoints[i] \in kept
    OBVIOUS
  <2>3. Table(game') /\ holder' \in Players
    BY <2>2 DEF Table
  <2> QED BY <2>1, <2>3, RoundStarts DEF RInv, TablesKept
<1> QED BY <1>2, <1>3, <1>4, <1>5, <1>6 DEF Answer

(* An effect may add an extra turn of a living player or turn the order.    *)
LEMMA EffectTable ==
  ASSUME NEW g, NEW o, Table(g), Sound(g)
  PROVE  Table(Effect(g, o))
<1>1. CASE o.effect = "hurt"
  <2>1. Effect(g, o) = [g EXCEPT !.doomed = @ \cup ({o.on} \cap g.alive)]
    BY <1>1 DEF Effect
  <2> QED BY <2>1, TableSame DEF Sound, Fields
<1>2. CASE o.effect = "extra"
  <2>1. CASE o.on \in g.alive
    <3>1. Effect(g, o) = [g EXCEPT !.extra = Append(@, o.on)]
      BY <1>2, <2>1 DEF Effect
    <3>2. Append(g.extra, o.on) \in Seq(Players)
      BY <2>1, AppendProperties DEF Table, Sound
    <3> QED BY <3>1, <3>2 DEF Table, Sound, Fields
  <2>2. CASE o.on \notin g.alive
    BY <1>2, <2>2 DEF Effect
  <2> QED BY <2>1, <2>2
<1>3. CASE o.effect = "skip"
  <2> DEFINE more == [g.skips EXCEPT ![o.on] = @ + 1]
  <2>1. Effect(g, o) = [g EXCEPT !.skips = more] \/ Effect(g, o) = g
    BY <1>3 DEF Effect
  <2> HIDE DEF more
  <2> QED BY <2>1, TableSame DEF Sound, Fields
<1>4. CASE o.effect = "end"
  <2>1. Effect(g, o) = [g EXCEPT !.stack = <<>>, !.endTurn = TRUE]
    BY <1>4 DEF Effect
  <2> QED BY <2>1, TableSame DEF Sound, Fields
<1>5. CASE o.effect = "bar"
  <2>1. Effect(g, o) = [g EXCEPT !.bars = @ \cup ({o.by} \cap g.here)]
    BY <1>5 DEF Effect
  <2> QED BY <2>1, TableSame DEF Sound, Fields
<1>6. CASE o.effect = "reverse"
  <2> DEFINE turned == Reverse(g.order)
  <2>1. Effect(g, o) = [g EXCEPT !.order = turned]
    BY <1>6 DEF Effect
  <2>2. Seating(turned)
    BY ReverseSeats DEF Table
  <2> HIDE DEF turned
  <2> QED BY <2>1, <2>2 DEF Table, Sound, Fields
<1>7. CASE o.effect \notin {"hurt", "extra", "skip", "end", "bar", "reverse"}
  BY <1>7 DEF Effect
<1> QED BY <1>1, <1>2, <1>3, <1>4, <1>5, <1>6, <1>7

LEMMA RoundEndsKeepsRound ==
  ASSUME IInv, RInv, CloseWindow \/ Resolve
  PROVE  RInv'
<1>1. CASE CloseWindow
  BY <1>1, NoRoundKeeps DEF CloseWindow, RInv, TablesKept, Table
<1>2. CASE Resolve
  <2> DEFINE popped == [game EXCEPT !.stack = Front(@)]
             o == Last(game.stack)
             after == Effect(popped, o)
  <2>1. /\ \E t : game' = [after EXCEPT !.waiting = @ \o t]
        /\ OpenRound /\ checkpoints' = checkpoints
    BY <1>2 DEF Resolve
  <2>2. Table(popped) /\ Sound(popped)
    BY TableSame DEF IInv, Sound, Fields, RInv
  <2> HIDE DEF popped, o
  <2>3. Table(after) /\ Sound(after)
    BY <2>2, EffectTable, EffectKeeps
  <2> HIDE DEF after
  <2>4. Table(game')
    BY <2>1, <2>3, TableSame DEF Sound, Fields
  <2> QED BY <2>1, <2>4, RoundStarts DEF OpenRound, RInv, Table, TablesKept
<1> QED BY <1>1, <1>2

LEMMA StepRInv == IInv /\ RInv /\ [Next]_vars => RInv'
<1> SUFFICES ASSUME IInv, RInv, [Next]_vars PROVE RInv'
  OBVIOUS
<1>1. CASE Engine
  BY <1>1, RunKeeps, TurnKeeps, SettleKeepsRound, RoundEndsKeepsRound DEF Engine
<1>2. CASE Answer
  BY <1>2, AnswerKeepsRound
<1>3. CASE Aborts
  BY <1>3, RunKeeps
<1>4. CASE RestoreInCombat
  BY <1>4, TurnKeeps
<1>5. CASE UNCHANGED vars
  <2>1. UNCHANGED <<game, at, holder, passed, passes, checkpoints>>
    BY <1>5 DEF vars
  <2>2. Arc => Arc'
    BY <2>1, ArcKept
  <2>3. Table(game') /\ TablesKept'
    BY <2>1 DEF RInv, TablesKept
  <2> QED BY <2>1, <2>2, <2>3 DEF RInv
<1> QED BY <1>1, <1>2, <1>3, <1>4, <1>5 DEF Next

(* Nothing resolves and no window closes before everyone still in the game passed
  after the last thing anybody did (EveryoneCouldAnswer), although players leave
  in the middle of a round and the order may turn between two.              *)
THEOREM RoundsAreFair == Spec => []EveryoneCouldAnswer
<1>1. RInv => EveryoneCouldAnswer
  BY DEF RInv, EveryoneCouldAnswer
<1> QED BY <1>1, InitRInv, StepRInv, Invariance, PTL DEF Spec

-----------------------------------------------------------------------------
(* Types. Table and Sound have the seats and who is in; here is the rest.     *)

Typed(g) ==
  /\ g.turn \in Nat /\ g.doomed \subseteq Players /\ g.over \in BOOLEAN
  /\ g.stack \in Seq(Object) /\ g.waiting \in Seq(Object)
  /\ g.skips \in [Players -> Nat] /\ g.endTurn \in BOOLEAN
  /\ g.bars \subseteq g.here

CheckpointsTyped ==
  /\ Len(checkpoints) <= MaxCheckpoints
  /\ \E kept : checkpoints \in Seq(kept) /\ \A g \in kept : Typed(g) /\ Sound(g)

TypeInv ==
  /\ Typed(game) /\ CheckpointsTyped
  /\ at \in {"run", "step", "settle", "ask", "round", "cleanup", "done"}
  /\ step \in Steps
  /\ passed \in 0..N /\ passes \subseteq Players

LEMMA InitTypeInv == Init => TypeInv
<1> SUFFICES ASSUME Init PROVE TypeInv
  OBVIOUS
<1>1. Typed(game)
  BY DEF Init, NewGame, Typed
<1>2. CheckpointsTyped
  <2>1. checkpoints = <<>> /\ checkpoints \in Seq({}) /\ Len(checkpoints) = 0
    BY DEF Init
  <2>2. 0 <= MaxCheckpoints
    BY TurnLoopAssumption
  <2>3. \A g \in {} : Typed(g) /\ Sound(g)
    OBVIOUS
  <2> QED BY <2>1, <2>2, <2>3 DEF CheckpointsTyped
<1>3. step \in Steps /\ passed \in 0..N /\ passes \subseteq Players
  BY SizeOfTable DEF Init, Steps
<1> QED BY <1>1, <1>2, <1>3 DEF TypeInv, Init

LEMMA ObjectsTyped ==
  ASSUME NEW by \in SUBSET Players, NEW on \in SUBSET Players,
         NEW effects \in SUBSET EffectNames
  PROVE  \A o \in Objects(by, effects, on) : o \in Object /\ <<o>> \in Seq(Object)
<1>1. \A o \in Objects(by, effects, on) : o \in Object
  BY DEF Objects, Object
<1> QED BY <1>1

LEMMA TriggersTyped ==
  ASSUME NEW g, Sound(g), NEW t \in Triggers(g)
  PROVE  t \in Seq(Object)
<1>1. g.here \in SUBSET Players /\ g.alive \in SUBSET Players
  BY DEF Sound
<1>2. TriggerEffects \in SUBSET EffectNames
  BY TurnLoopAssumption
<1>3. \A o \in Objects(g.here, TriggerEffects, g.alive) : <<o>> \in Seq(Object)
  BY <1>1, <1>2, ObjectsTyped
<1>4. <<>> \in Seq(Object)
  OBVIOUS
<1> QED BY <1>3, <1>4 DEF Triggers

LEMMA PickTyped ==
  ASSUME NEW s \in Seq(Object), NEW places \in SUBSET DOMAIN s
  PROVE  Subsequence(s, places) \in Seq(Object)
BY SubsequenceIs

LEMMA OrderedTyped ==
  ASSUME NEW s \in Seq(Object)
  PROVE  Ordered(s) \in Seq(Object)
<1> DEFINE own == {i \in DOMAIN s : s[i].by = game.active}
<1>1. own \in SUBSET DOMAIN s /\ DOMAIN s \ own \in SUBSET DOMAIN s
  OBVIOUS
<1>2. Ordered(s) = Subsequence(s, own) \o Subsequence(s, DOMAIN s \ own)
  BY DEF Ordered
<1> HIDE DEF own
<1>3. Subsequence(s, own) \in Seq(Object) /\ Subsequence(s, DOMAIN s \ own) \in Seq(Object)
  BY <1>1, PickTyped
<1> QED BY <1>2, <1>3, ConcatProperties

(* What changes one of the fields.                                            *)
LEMMA RotatedTyped ==
  ASSUME NEW g, Typed(g), Sound(g)
  PROVE  Typed(Rotated(g))
<1> DEFINE next == Around(g.active, 1)
<1>1. Rotated(g) = [g EXCEPT !.active = next, !.turn = @ + 1]
  BY DEF Rotated
<1> HIDE DEF next
<1> QED BY <1>1 DEF Typed, Sound, Fields

LEMMA AdvancedTyped ==
  ASSUME NEW g, Typed(g), Sound(g)
  PROVE  Typed(Advanced(g))
<1>1. CASE g.extra = <<>>
  BY <1>1, RotatedTyped DEF Advanced
<1>2. CASE g.extra # <<>>
  <2>1. Advanced(g) = [g EXCEPT !.active = Head(g.extra), !.extra = Tail(@), !.turn = @ + 1]
    BY <1>2 DEF Advanced
  <2> QED BY <2>1 DEF Typed, Sound, Fields
<1> QED BY <1>1, <1>2

LEMMA EffectTyped ==
  ASSUME NEW g, NEW o \in Object, Typed(g), Sound(g)
  PROVE  Typed(Effect(g, o))
<1>1. CASE o.effect = "hurt"
  <2>1. Effect(g, o) = [g EXCEPT !.doomed = @ \cup ({o.on} \cap g.alive)]
    BY <1>1 DEF Effect
  <2> QED BY <2>1 DEF Sound, Fields, Typed
<1>2. CASE o.effect = "extra"
  <2>1. Effect(g, o) = g \/ Effect(g, o) = [g EXCEPT !.extra = Append(@, o.on)]
    BY <1>2 DEF Effect
  <2> QED BY <2>1 DEF Sound, Fields, Typed
<1>3. CASE o.effect = "skip"
  <2> DEFINE more == [g.skips EXCEPT ![o.on] = @ + 1]
  <2>1. Effect(g, o) = g \/ Effect(g, o) = [g EXCEPT !.skips = more]
    BY <1>3 DEF Effect
  <2>2. more \in [Players -> Nat]
    <3>1. o.on \in Players /\ g.skips \in [Players -> Nat]
      BY DEF Typed, Object
    <3> QED BY <3>1
  <2> HIDE DEF more
  <2> QED BY <2>1, <2>2 DEF Sound, Fields, Typed
<1>4. CASE o.effect = "end"
  <2>1. Effect(g, o) = [g EXCEPT !.stack = <<>>, !.endTurn = TRUE]
    BY <1>4 DEF Effect
  <2> QED BY <2>1 DEF Sound, Fields, Typed
<1>5. CASE o.effect = "bar"
  <2>1. Effect(g, o) = [g EXCEPT !.bars = @ \cup ({o.by} \cap g.here)]
    BY <1>5 DEF Effect
  <2> QED BY <2>1 DEF Sound, Fields, Typed
<1>6. CASE o.effect = "reverse"
  <2> DEFINE turned == Reverse(g.order)
  <2>1. Effect(g, o) = [g EXCEPT !.order = turned]
    BY <1>6 DEF Effect
  <2> HIDE DEF turned
  <2> QED BY <2>1 DEF Sound, Fields, Typed
<1>7. CASE o.effect \notin {"hurt", "extra", "skip", "end", "bar", "reverse"}
  BY <1>7 DEF Effect
<1> QED BY <1>1, <1>2, <1>3, <1>4, <1>5, <1>6, <1>7

LEMMA WithoutLosersTyped ==
  ASSUME Typed(game), Sound(game)
  PROVE  Typed(WithoutLosers) /\ Sound(WithoutLosers)
<1> DEFINE lost == Losers
           left == Subsequence(game.stack, {i \in DOMAIN game.stack : game.stack[i].by \notin Losers})
           ended == Cardinality(game.alive \ Losers) <= 1
<1>1. WithoutLosers = [game EXCEPT !.alive = @ \ lost, !.here = @ \ lost,
                                   !.doomed = {}, !.stack = left,
                                   !.bars = @ \ lost, !.over = ended]
  BY DEF WithoutLosers
<1>2. left \in Seq(Object)
  <2> DEFINE places == {i \in DOMAIN game.stack : game.stack[i].by \notin Losers}
  <2>1. places \in SUBSET DOMAIN game.stack
    OBVIOUS
  <2> HIDE DEF places
  <2> QED BY <2>1, PickTyped DEF places, Typed
<1>3. ended \in BOOLEAN
  OBVIOUS
<1> HIDE DEF lost, left, ended
<1> DEFINE g == WithoutLosers
<1>4. /\ DOMAIN g = Fields /\ g.turn = game.turn /\ g.doomed = {} /\ g.over = ended
      /\ g.stack = left /\ g.waiting = game.waiting /\ g.skips = game.skips
      /\ g.endTurn = game.endTurn /\ g.bars = game.bars \ lost
      /\ g.here = game.here \ lost /\ g.alive = game.alive \ lost
  BY <1>1 DEF Sound, Fields
<1> HIDE DEF g
<1>5. Sound(g)
  BY <1>4 DEF Sound
<1>6. Typed(g)
  BY <1>2, <1>3, <1>4 DEF Typed
<1> QED BY <1>5, <1>6 DEF g

-----------------------------------------------------------------------------
LEMMA CheckpointsSame ==
  ASSUME TypeInv, checkpoints' = checkpoints
  PROVE  CheckpointsTyped'
BY DEF TypeInv, CheckpointsTyped

LEMMA TurnsKeepTypes ==
  ASSUME IInv, RInv, TypeInv, Returns \/ Aborts \/ SkipTurn \/ BeginTurn
  PROVE  TypeInv'
<1>0. Sound(game) /\ Typed(game) /\ 0 \in 0..N /\ "Untap" \in Steps
  BY SizeOfTable DEF IInv, TypeInv, Steps
<1>1. CASE Returns
  BY <1>0, <1>1, CheckpointsSame DEF Returns, RunEnds, NoRound, TypeInv
<1>2. CASE Aborts
  <2>1. game' = [game EXCEPT !.over = TRUE] /\ checkpoints' = checkpoints
    BY <1>2 DEF Aborts
  <2>2. Typed(game')
    BY <1>0, <2>1 DEF Typed, Sound, Fields
  <2>3. at' \in {"cleanup", "done"} /\ step' \in {step, "Untap"} /\ NoRound
    BY <1>2 DEF Aborts, RunEnds, RoundBreaksOff
  <2> QED BY <1>0, <2>1, <2>2, <2>3, CheckpointsSame DEF NoRound, TypeInv
<1>3. CASE SkipTurn
  <2> DEFINE fewer == [Rotated(game).skips EXCEPT ![game.active] = @ - 1]
  <2>1. game' = [Rotated(game) EXCEPT !.skips = fewer]
    BY <1>3 DEF SkipTurn
  <2>2. Typed(Rotated(game)) /\ Sound(Rotated(game))
    BY <1>0, RotatedTyped, RotatedKeeps
  <2>3. Rotated(game).skips = game.skips /\ game.skips[game.active] > 0
    <3> DEFINE next == Around(game.active, 1)
    <3>1. Rotated(game) = [game EXCEPT !.active = next, !.turn = @ + 1]
      BY DEF Rotated
    <3> HIDE DEF next
    <3> QED BY <1>0, <1>3, <3>1 DEF SkipTurn, Sound, Fields
  <2>4. fewer \in [Players -> Nat]
    <3>1. game.active \in Players /\ game.skips \in [Players -> Nat]
      BY <1>0 DEF RInv, Table, Typed
    <3>2. game.skips[game.active] - 1 \in Nat
      BY <2>3, <3>1
    <3> QED BY <2>3, <3>1, <3>2
  <2> HIDE DEF fewer
  <2>5. Typed(game')
    BY <2>1, <2>2, <2>4 DEF Typed, Sound, Fields
  <2> QED BY <1>3, <2>5, CheckpointsSame DEF SkipTurn, TypeInv
<1>4. CASE BeginTurn
  <2>1. game' = game /\ at' \in {"run", "step"} /\ step' = "Untap"
        /\ UNCHANGED <<passed, passes>>
    BY <1>4 DEF BeginTurn
  <2>2. CheckpointsTyped'
    <3> PICK kept : checkpoints \in Seq(kept) /\ \A g \in kept : Typed(g) /\ Sound(g)
      BY DEF TypeInv, CheckpointsTyped
    <3> DEFINE more == kept \cup {game}
    <3>1. checkpoints \in Seq(more) /\ game \in more
      OBVIOUS
    <3>2. \A g \in more : Typed(g) /\ Sound(g)
      BY <1>0
    <3>3. Len(checkpoints) \in 0..MaxCheckpoints
      BY TurnLoopAssumption DEF TypeInv, CheckpointsTyped
    <3> HIDE DEF more
    <3> DEFINE longer == Append(checkpoints, game)
    <3>4. longer \in Seq(more) /\ Len(longer) = Len(checkpoints) + 1
      BY <3>1, AppendProperties
    <3>5. checkpoints' = IF Len(longer) > MaxCheckpoints THEN Tail(longer) ELSE longer
      BY <1>4 DEF BeginTurn
    <3> HIDE DEF longer
    <3>6. longer # <<>> => Tail(longer) \in Seq(more) /\ Len(Tail(longer)) = Len(longer) - 1
      BY <3>4, HeadTailProperties
    <3>7. longer # <<>>
      BY <3>3, <3>4
    <3>8. checkpoints' \in Seq(more) /\ Len(checkpoints') <= MaxCheckpoints
      BY <3>3, <3>4, <3>5, <3>6, <3>7, TurnLoopAssumption
    <3> QED BY <3>2, <3>8 DEF CheckpointsTyped
  <2> QED BY <1>0, <2>1, <2>2 DEF TypeInv
<1> QED BY <1>1, <1>2, <1>3, <1>4

LEMMA FollowingSteps == Following \subseteq Steps
BY DEF Following, Steps, CombatSteps

LEMMA StepsKeepTypes ==
  ASSUME IInv, TypeInv,
         \/ JumpToCleanup \/ PlayQuietStep \/ PlayStep \/ Cleanup
         \/ CleanupOver \/ RestoreInCombat
  PROVE  TypeInv'
<1>0. Sound(game) /\ Typed(game) /\ 0 \in 0..N /\ {"Untap", "Main2", "Cleanup"} \subseteq Steps
  BY SizeOfTable DEF IInv, TypeInv, Steps
<1>1. CASE JumpToCleanup
  <2>1. Typed(game')
    BY <1>0, <1>1 DEF JumpToCleanup, Typed, Sound, Fields
  <2> QED BY <1>0, <1>1, <2>1, CheckpointsSame DEF JumpToCleanup, TypeInv
<1>2. CASE PlayQuietStep
  BY <1>2, FollowingSteps, CheckpointsSame DEF PlayQuietStep, TypeInv
<1>3. CASE PlayStep
  <2>1. /\ OpenRound /\ step' = step /\ checkpoints' = checkpoints
        /\ \E t \in Triggers(game), hit \in SUBSET (game.alive \cup {game.active}) :
              /\ game' = [game EXCEPT !.doomed = @ \cup hit, !.waiting = @ \o t]
              /\ hit \subseteq game.alive
    BY <1>3 DEF PlayStep
  <2>2. PICK t \in Triggers(game), hit \in SUBSET game.alive :
              game' = [game EXCEPT !.doomed = @ \cup hit, !.waiting = @ \o t]
    BY <2>1
  <2>3. t \in Seq(Object)
    BY <1>0, TriggersTyped
  <2>4. game.waiting \o t \in Seq(Object)
    BY <1>0, <2>3, ConcatProperties DEF Typed
  <2> DEFINE more == game.waiting \o t
  <2>5. game' = [game EXCEPT !.doomed = @ \cup hit, !.waiting = more]
    BY <2>2
  <2>6. more \in Seq(Object)
    BY <2>4
  <2> HIDE DEF more
  <2>7. Typed(game')
    BY <1>0, <2>5, <2>6 DEF Typed, Sound, Fields
  <2> QED BY <1>0, <2>1, <2>7, CheckpointsSame DEF OpenRound, TypeInv
<1>4. CASE Cleanup
  <2>0. step' = step /\ checkpoints' = checkpoints
    BY <1>4 DEF Cleanup
  <2>1. PICK t \in Triggers(game) :
          LET g == [game EXCEPT !.waiting = @ \o t]
          IN  \/ game' = g /\ OpenRound
              \/ /\ game' = [Advanced(g) EXCEPT !.endTurn = FALSE]
                 /\ at' = "run" /\ UNCHANGED <<holder, passed, passes>>
    BY <1>4 DEF Cleanup
  <2> DEFINE more == game.waiting \o t
             g == [game EXCEPT !.waiting = more]
  <2>2. more \in Seq(Object)
    <3>1. t \in Seq(Object)
      BY <1>0, TriggersTyped
    <3> QED BY <1>0, <3>1, ConcatProperties DEF Typed
  <2>3. \/ game' = g /\ OpenRound
        \/ /\ game' = [Advanced(g) EXCEPT !.endTurn = FALSE]
           /\ at' = "run" /\ UNCHANGED <<holder, passed, passes>>
    BY <2>1
  <2> HIDE DEF more
  <2>4. Typed(g) /\ Sound(g)
    BY <1>0, <2>2 DEF Typed, Sound, Fields
  <2> HIDE DEF g
  <2>5. Typed(Advanced(g)) /\ Sound(Advanced(g))
    BY <2>4, AdvancedTyped, AdvancedKeeps
  <2>6. Typed([Advanced(g) EXCEPT !.endTurn = FALSE])
    BY <2>5 DEF Typed, Sound, Fields
  <2> QED BY <1>0, <2>0, <2>3, <2>4, <2>6, CheckpointsSame DEF OpenRound, TypeInv
<1>5. CASE CleanupOver
  <2>1. checkpoints' = checkpoints
    BY <1>5 DEF CleanupOver
  <2>2. PICK t \in Triggers(game) :
          LET g == [game EXCEPT !.waiting = @ \o t]
          IN  \/ game' = g /\ UNCHANGED <<at, step, holder, passed, passes>>
              \/ game' = [g EXCEPT !.endTurn = FALSE] /\ RunEnds
    BY <1>5 DEF CleanupOver
  <2> DEFINE more == game.waiting \o t
             g == [game EXCEPT !.waiting = more]
  <2>3. more \in Seq(Object)
    <3>1. t \in Seq(Object)
      BY <1>0, TriggersTyped
    <3> QED BY <1>0, <3>1, ConcatProperties DEF Typed
  <2>4. \/ game' = g /\ UNCHANGED <<at, step, holder, passed, passes>>
        \/ game' = [g EXCEPT !.endTurn = FALSE] /\ RunEnds
    BY <2>2
  <2> HIDE DEF more
  <2>5. Typed(g) /\ Typed([g EXCEPT !.endTurn = FALSE])
    BY <1>0, <2>3 DEF Typed, Sound, Fields
  <2> HIDE DEF g
  <2> QED BY <1>0, <2>1, <2>4, <2>5, CheckpointsSame DEF RunEnds, NoRound, TypeInv
<1>6. CASE RestoreInCombat
  <2>1. /\ step' = "Main2" /\ UNCHANGED <<at, passed, passes, checkpoints>>
        /\ \E i \in DOMAIN checkpoints : game' = checkpoints[i]
    BY <1>6 DEF RestoreInCombat
  <2>2. Typed(game')
    BY <2>1 DEF TypeInv, CheckpointsTyped
  <2> QED BY <1>0, <2>1, <2>2, CheckpointsSame DEF TypeInv
<1> QED BY <1>1, <1>2, <1>3, <1>4, <1>5, <1>6

LEMMA SettleKeepsTypes ==
  ASSUME IInv, TypeInv, Settle
  PROVE  TypeInv'
<1>0. Sound(game) /\ Typed(game) /\ 0 \in 0..N /\ "Untap" \in Steps
  BY SizeOfTable DEF IInv, TypeInv, Steps
<1> DEFINE g == WithoutLosers
<1>1. Typed(g) /\ Sound(g)
  BY <1>0, WithoutLosersTyped
<1>2. checkpoints' = checkpoints
  BY DEF Settle
<1>3. \/ game' = g /\ RoundBreaksOff
      \/ \E t : /\ t = <<>> \/ t \in Triggers(g)
                /\ game' = [g EXCEPT !.stack = @ \o Ordered(g.waiting \o t),
                                     !.waiting = <<>>]
                /\ at' = "ask" /\ UNCHANGED <<step, holder, passed, passes>>
  BY DEF Settle
<1> HIDE DEF g
<1>4. CASE game' = g /\ RoundBreaksOff
  BY <1>0, <1>1, <1>2, <1>4, CheckpointsSame DEF RoundBreaksOff, RunEnds, NoRound, TypeInv
<1>5. ASSUME NEW t, t = <<>> \/ t \in Triggers(g),
             game' = [g EXCEPT !.stack = @ \o Ordered(g.waiting \o t), !.waiting = <<>>],
             at' = "ask", UNCHANGED <<step, holder, passed, passes>>
      PROVE  TypeInv'
  <2>1. t \in Seq(Object)
    <3>1. <<>> \in Seq(Object)
      OBVIOUS
    <3> QED BY <1>1, <1>5, <3>1, TriggersTyped
  <2>2. g.waiting \o t \in Seq(Object)
    BY <1>1, <2>1, ConcatProperties DEF Typed
  <2>3. Ordered(g.waiting \o t) \in Seq(Object)
    BY <2>2, OrderedTyped
  <2> DEFINE pushed == g.stack \o Ordered(g.waiting \o t)
  <2>4. pushed \in Seq(Object)
    BY <1>1, <2>3, ConcatProperties DEF Typed
  <2>5. game' = [g EXCEPT !.stack = pushed, !.waiting = <<>>]
    BY <1>5
  <2> HIDE DEF pushed
  <2>6. Typed(game')
    BY <1>1, <2>4, <2>5 DEF Typed, Sound, Fields
  <2> QED BY <1>2, <1>5, <2>6, CheckpointsSame DEF TypeInv
<1> QED BY <1>3, <1>4, <1>5

LEMMA AnswerKeepsTypes ==
  ASSUME IInv, RInv, TypeInv, Answer
  PROVE  TypeInv'
<1>0. Sound(game) /\ Typed(game) /\ 0 \in 0..N /\ holder \in Players
  BY SizeOfTable DEF IInv, RInv, TypeInv
<1>1. CASE Pass
  <2>1. passed' = passed + 1 /\ passed < N
    BY <1>1 DEF Pass, RInv
  <2>2. passed' \in 0..N
    BY <2>1, SizeOfTable DEF TypeInv
  <2> QED BY <1>0, <1>1, <2>2, CheckpointsSame DEF Pass, TypeInv
<1>2. CASE Play
  <2>1. PICK put \in {<<>>} \cup {<<o>> : o \in Objects({holder}, Effects, game.alive)},
             t \in Triggers(game) :
               game' = [game EXCEPT !.stack = @ \o put \o t]
    BY <1>2 DEF Play
  <2>2. put \in Seq(Object)
    <3>1. {holder} \in SUBSET Players /\ game.alive \in SUBSET Players
          /\ Effects \in SUBSET EffectNames /\ <<>> \in Seq(Object)
      BY <1>0, TurnLoopAssumption DEF Sound
    <3> QED BY <3>1, ObjectsTyped
  <2>3. t \in Seq(Object)
    BY <1>0, TriggersTyped
  <2> DEFINE pushed == game.stack \o put \o t
  <2>4. pushed \in Seq(Object)
    <3>1. game.stack \o put \in Seq(Object)
      BY <1>0, <2>2, ConcatProperties DEF Typed
    <3> QED BY <2>3, <3>1, ConcatProperties
  <2>5. game' = [game EXCEPT !.stack = pushed]
    BY <2>1
  <2> HIDE DEF pushed
  <2>6. Typed(game')
    BY <1>0, <2>4, <2>5 DEF Typed, Sound, Fields
  <2> QED BY <1>0, <1>2, <2>6, CheckpointsSame DEF Play, TypeInv
<1>3. CASE PlayFails
  BY <1>3, CheckpointsSame DEF PlayFails, TypeInv
<1>4. CASE Concede
  <2>1. Typed(game')
    BY <1>0, <1>4 DEF Concede, Typed, Sound, Fields
  <2> QED BY <1>0, <1>4, <2>1, CheckpointsSame DEF Concede, TypeInv
<1>5. CASE Restore
  <2>1. PICK i \in DOMAIN checkpoints : game' = checkpoints[i]
    BY <1>5 DEF Restore
  <2>2. Typed(game')
    BY <2>1 DEF TypeInv, CheckpointsTyped
  <2> QED BY <1>0, <1>5, <2>2, CheckpointsSame DEF Restore, TypeInv
<1> QED BY <1>1, <1>2, <1>3, <1>4, <1>5 DEF Answer

LEMMA RoundEndsKeepTypes ==
  ASSUME IInv, TypeInv, CloseWindow \/ Resolve
  PROVE  TypeInv'
<1>0. Sound(game) /\ Typed(game) /\ 0 \in 0..N
  BY SizeOfTable DEF IInv, TypeInv
<1>1. CASE CloseWindow
  BY <1>0, <1>1, FollowingSteps, CheckpointsSame DEF CloseWindow, NoRound, TypeInv
<1>2. CASE Resolve
  <2> DEFINE rest == Front(game.stack)
             popped == [game EXCEPT !.stack = rest]
             played == Effect(popped, Last(game.stack))
  <2>1. /\ OpenRound /\ step' = step /\ checkpoints' = checkpoints
        /\ game.stack # <<>>
        /\ \E t \in Triggers(game) : game' = [played EXCEPT !.waiting = @ \o t]
    BY <1>2 DEF Resolve
  <2>2. rest \in Seq(Object) /\ Last(game.stack) \in Object
    <3>1. game.stack \in Seq(Object) /\ game.stack # <<>>
      BY <1>0, <2>1 DEF Typed
    <3> DEFINE s == game.stack
    <3>2. s \in Seq(Object) /\ Len(s) \in Nat \ {0}
      BY <3>1
    <3> HIDE DEF s
    <3>3. SubSeq(s, 1, Len(s) - 1) \in Seq(Object) /\ s[Len(s)] \in Object
      BY <3>2
    <3> QED BY <3>3 DEF Front, Last, s
  <2>3. PICK t \in Triggers(game) : game' = [played EXCEPT !.waiting = @ \o t]
    BY <2>1
  <2> HIDE DEF rest
  <2>4. Typed(popped) /\ Sound(popped)
    BY <1>0, <2>2 DEF Typed, Sound, Fields
  <2> HIDE DEF popped
  <2>5. Typed(played) /\ Sound(played)
    BY <2>2, <2>4, EffectTyped, EffectKeeps
  <2> HIDE DEF played
  <2>6. t \in Seq(Object)
    BY <1>0, TriggersTyped
  <2> DEFINE more == played.waiting \o t
  <2>7. more \in Seq(Object)
    BY <2>5, <2>6, ConcatProperties DEF Typed
  <2>8. game' = [played EXCEPT !.waiting = more]
    BY <2>3
  <2> HIDE DEF more
  <2>9. Typed(game')
    BY <2>5, <2>7, <2>8 DEF Typed, Sound, Fields
  <2> QED BY <1>0, <2>1, <2>9, CheckpointsSame DEF OpenRound, TypeInv
<1> QED BY <1>1, <1>2

(* The loop works on a game of the right shape, with a stack of objects and no
  more checkpoints than are kept, whatever is cast, skipped, reversed, conceded
  or restored (TypeOK).                                                    *)
THEOREM LoopTypes == Spec => []TypeOK
<1> DEFINE All == IInv /\ RInv /\ TypeInv
<1>1. Init => All
  BY InitIInv, InitRInv, InitTypeInv
<1>2. All /\ [Next]_vars => All'
  <2> SUFFICES ASSUME All, [Next]_vars PROVE TypeInv'
    BY StepIInv, StepRInv
  <2>1. CASE Engine
    BY <2>1, TurnsKeepTypes, StepsKeepTypes, SettleKeepsTypes, RoundEndsKeepTypes
       DEF Engine
  <2>2. CASE Answer
    BY <2>2, AnswerKeepsTypes
  <2>3. CASE Aborts
    BY <2>3, TurnsKeepTypes
  <2>4. CASE RestoreInCombat
    BY <2>4, StepsKeepTypes
  <2>5. CASE UNCHANGED vars
    BY <2>5 DEF vars, TypeInv, CheckpointsTyped, Typed
  <2> QED BY <2>1, <2>2, <2>3, <2>4, <2>5 DEF Next
<1>3. All => TypeOK
  <2> SUFFICES ASSUME All PROVE TypeOK
    OBVIOUS
  <2>1. game.order \in Seq(Players) /\ ToSet(game.order) = Players
    <3>1. Seating(game.order)
      BY DEF RInv, Table
    <3>2. DOMAIN game.order = 1..N /\ \A i \in 1..N : game.order[i] \in Players
      BY <3>1 DEF Seating
    <3> QED BY <3>1, <3>2 DEF Seating, ToSet
  <2>2. game.active \in Players /\ game.extra \in Seq(Players) /\ holder \in Players
    BY DEF RInv, Table
  <2> QED BY <2>1, <2>2 DEF IInv, Sound, TypeInv, Typed, CheckpointsTyped, TypeOK, N
<1> HIDE DEF All
<1> QED BY <1>1, <1>2, <1>3, PTL DEF Spec

=============================================================================
