------------------------------ MODULE TurnLoop ------------------------------
(* The turn loop of the rules engine: whose turn it is, which step is played,
  who has priority, what is on the stack and who has lost.  It is the loop that
  asks players for decisions, so a turn that never ends, or a spell that resolves
  although somebody could still have answered it, is a fault of this loop
  whatever the cards say.

  GameState is the record `game`; a checkpoint is a copy of it.  The Rust call
  stack, which a checkpoint does not contain, is `at` (where the loop is), `step`
  (TurnMachineState and, in a combat, the step of step_combat), `holder` and
  `passed` (the locals of priority_round).

  A card is what it does to this loop: an object on the stack has a controller,
  an effect and a player the effect is on.  Costs, zones, damage short of a loss,
  mana, the action space and phases a card skips are left out.  A player whose
  life or library ran out is `doomed` until state-based actions see it.      *)
EXTENDS Integers, FiniteSets, Sequences, SequencesExt, Subsequences

CONSTANTS
  Players,         \* the seats of the game
  Order,           \* player_order when the game starts
  Effects,         \* effects of spells and abilities: a set of EffectNames
  TriggerEffects,  \* effects of triggered abilities
  MaxTurns,        \* max_turns, the engine's own bound
  MaxDeeds,        \* bound: what players do besides passing, and triggers
  MaxRestores,     \* bound: checkpoints a player restores
  MaxCheckpoints   \* checkpoints the loop keeps (256 in the code)

EffectNames == {"none", "hurt", "extra", "skip", "end", "bar", "reverse"}

ASSUME TurnLoopAssumption ==
  /\ IsFiniteSet(Players)
  /\ Cardinality(Players) >= 2
  /\ Order \in Seq(Players)
  /\ Len(Order) = Cardinality(Players)
  /\ ToSet(Order) = Players
  /\ Effects \subseteq EffectNames
  /\ TriggerEffects \subseteq EffectNames
  /\ MaxTurns \in Nat
  /\ MaxDeeds \in Nat
  /\ MaxRestores \in Nat
  /\ MaxCheckpoints \in Nat \ {0}

CombatSteps == {"Attack", "Block", "Damage", "CombatEnd"}
Steps == {"Untap", "Upkeep", "Draw", "Main1", "CombatBegin", "Main2",
          "EndOfTurn", "Cleanup"} \cup CombatSteps

(* An object of the stack, or a trigger that waits to become one; an effect that
  is on nobody is written down as on its controller.                       *)
Targeted == {"hurt", "extra", "skip"}
Object == [by : Players, effect : EffectNames, on : Players]
Objects(by, effects, on) ==
  {o \in [by : by, effect : effects, on : by \cup on] :
     o.on \in IF o.effect \in Targeted THEN on ELSE {o.by}}

VARIABLES
  game,         \* GameState
  at,           \* where GameLoop::run is
  step,         \* the step being played, or the next one
  holder,       \* priority_player of priority_round
  passed,       \* passed_count of priority_round
  passes,       \* history: who passed since a player last did something
  checkpoints,  \* GameLoop.checkpoints
  deeds,        \* how many deeds and triggers there were
  restores      \* how many restores there were

vars == <<game, at, step, holder, passed, passes, checkpoints, deeds, restores>>

NewGame ==
  [turn |-> 1, active |-> Order[1], order |-> Order,
   alive |-> Players,    \* is_alive()
   here |-> Players,     \* not left_game
   doomed |-> {},        \* life or library at an end, not yet noticed
   over |-> FALSE,
   stack |-> <<>>,       \* the top is the last
   waiting |-> <<>>,     \* pre_matched_triggers
   extra |-> <<>>,       \* extra_turns
   skips |-> [p \in Players |-> 0],
   endTurn |-> FALSE,    \* end_turn_requested
   bars |-> {}]          \* who controls a permanent that replaces opponents' turns

Init ==
  /\ game = NewGame
  /\ at = "run"
  /\ step = "Untap"
  /\ holder = Order[1]
  /\ passed = 0
  /\ passes = {}
  /\ checkpoints = <<>>
  /\ deeds = 0
  /\ restores = 0

-----------------------------------------------------------------------------
(* Operators on the game *)

Place(p) == CHOOSE i \in DOMAIN game.order : game.order[i] = p
Around(p, i) == game.order[((Place(p) + i - 1) % Len(game.order)) + 1]

(* Players who lost keep their place in the order and get their turns.     *)
Rotated(g) == [g EXCEPT !.active = Around(g.active, 1), !.turn = @ + 1]

(* Extra turns come first in, first out; the rotation goes on from the player
  who took the last of them.                                               *)
Advanced(g) ==
  IF g.extra = <<>>
    THEN Rotated(g)
    ELSE [g EXCEPT !.active = Head(g.extra), !.extra = Tail(@), !.turn = @ + 1]

(* The next living player in the order, or the same one.                   *)
NextPlayer(p) ==
  LET living == {i \in 1 .. Len(game.order) - 1 : Around(p, i) \in game.alive}
  IN IF living = {} THEN p
     ELSE Around(p, CHOOSE i \in living : \A j \in living : i <= j)

(* The triggers an event may set off: the cards of a player who left are gone. *)
Triggers(g) ==
  {<<>>} \cup
    IF deeds < MaxDeeds
      THEN {<<o>> : o \in Objects(g.here, TriggerEffects, g.alive)}
      ELSE {}

Count(triggers) == deeds' = deeds + Len(triggers)

(* The active player's triggers are pushed first.                          *)
Ordered(triggers) ==
  LET own == {i \in DOMAIN triggers : triggers[i].by = game.active}
  IN  Subsequence(triggers, own) \o Subsequence(triggers, DOMAIN triggers \ own)

(* What the resolution of an object does to the game it was popped from.   *)
Effect(g, o) ==
  CASE o.effect = "hurt"    -> [g EXCEPT !.doomed = @ \cup ({o.on} \cap g.alive)]
    [] o.effect = "extra"   -> IF o.on \in g.alive THEN [g EXCEPT !.extra = Append(@, o.on)]
                                                   ELSE g
    [] o.effect = "skip"    -> IF o.on \in g.alive THEN [g EXCEPT !.skips[o.on] = @ + 1]
                                                   ELSE g
    [] o.effect = "end"     -> [g EXCEPT !.stack = <<>>, !.endTurn = TRUE]
    [] o.effect = "bar"     -> [g EXCEPT !.bars = @ \cup ({o.by} \cap g.here)]
    [] o.effect = "reverse" -> [g EXCEPT !.order = Reverse(@)]
    [] OTHER                -> g

Barred == game.bars \ {game.active} # {}

-----------------------------------------------------------------------------
(* GameLoop::run and run_turn *)

(* priority_round has returned, and its locals are gone.                   *)
NoRound == holder' = Order[1] /\ passed' = 0 /\ passes' = {}

(* run has returned.                                                       *)
RunEnds == at' = "done" /\ step' = "Untap" /\ NoRound

(* The game is over and priority_round breaks off.  Every loop above it ends with
  the game, but for the loop of step_cleanup, which never looks at game_over.   *)
RoundBreaksOff ==
  IF step = "Cleanup"
    THEN at' = "cleanup" /\ step' = step /\ NoRound
    ELSE RunEnds

Returns ==
  /\ at = "run"
  /\ game.turn > MaxTurns
  /\ RunEnds
  /\ UNCHANGED <<game, checkpoints, deeds, restores>>

(* The host asked for the end of the game, which the loop looks at before a turn,
  before a step and before it asks a player, but not when a cleanup is repeated. *)
Aborts ==
  /\ \/ at = "run" /\ RunEnds
     \/ at = "step" /\ step \notin CombatSteps /\ RunEnds
     \/ at = "ask" /\ RoundBreaksOff
  /\ game' = [game EXCEPT !.over = TRUE]
  /\ UNCHANGED <<checkpoints, deeds, restores>>

SkipTurn ==
  /\ at = "run"
  /\ game.turn <= MaxTurns
  /\ game.skips[game.active] > 0
  /\ game' = [Rotated(game) EXCEPT !.skips[game.active] = @ - 1]
  /\ UNCHANGED <<at, step, holder, passed, passes, checkpoints, deeds, restores>>

(* Broken: checkpoints are never given up.                                 *)
BeginTurnKeepsAll ==
  /\ at = "run"
  /\ game.turn <= MaxTurns
  /\ game.skips[game.active] = 0
  /\ checkpoints' = Append(checkpoints, game)
  /\ step' = "Untap"
  /\ at' = IF Barred THEN "run" ELSE "step"
  /\ UNCHANGED <<game, holder, passed, passes, deeds, restores>>

(* The checkpoint is taken first; a turn that an effect replaces is over at
  once, without AdvanceTurn.                                               *)
BeginTurn ==
  /\ at = "run"
  /\ game.turn <= MaxTurns
  /\ game.skips[game.active] = 0
  /\ LET kept == Append(checkpoints, game)
     IN checkpoints' = IF Len(kept) > MaxCheckpoints THEN Tail(kept) ELSE kept
  /\ step' = "Untap"
  /\ at' = IF Barred THEN "run" ELSE "step"
  /\ UNCHANGED <<game, holder, passed, passes, deeds, restores>>

-----------------------------------------------------------------------------
(* The steps of a turn *)

(* The flag is looked at before a step of run_turn_state_machine, to which a
  combat is one step.                                                      *)
EndsTurn == game.endTurn /\ step \notin CombatSteps \cup {"Cleanup"}

JumpToCleanup ==
  /\ at = "step"
  /\ EndsTurn
  /\ game' = [game EXCEPT !.endTurn = FALSE]
  /\ step' = "Cleanup"
  /\ UNCHANGED <<at, holder, passed, passes, checkpoints, deeds, restores>>

(* priority_round starts with the active player.                           *)
OpenRound ==
  /\ at' = "settle"
  /\ holder' = game.active
  /\ passed' = 0
  /\ passes' = {}

(* The steps after this one: without attackers the rest of a combat is its end,
  and a player who left has none.                                          *)
Following ==
  CASE step = "Untap"       -> {"Upkeep"}
    [] step = "Upkeep"      -> {"Draw"}
    [] step = "Draw"        -> {"Main1"}
    [] step = "Main1"       -> {"CombatBegin"}
    [] step = "CombatBegin" -> {"Attack"}
    [] step = "Attack"      -> {"CombatEnd"} \cup {s \in {"Block"} : game.active \in game.here}
    [] step = "Block"       -> {"CombatEnd"} \cup {s \in {"Damage"} : game.active \in game.here}
    [] step = "Damage"      -> {"CombatEnd"}
    [] step = "CombatEnd"   -> {"Main2"}
    [] step = "Main2"       -> {"EndOfTurn"}
    [] OTHER                -> {"Cleanup"}

(* Untap has no priority window, and neither has the first draw of a duel. *)
Quiet == step = "Untap" \/ (step = "Draw" /\ game.turn = 1 /\ Cardinality(Players) = 2)

PlayQuietStep ==
  /\ at = "step"
  /\ ~EndsTurn
  /\ Quiet
  /\ step' \in Following
  /\ UNCHANGED <<game, at, holder, passed, passes, checkpoints, deeds, restores>>

(* A step with a window: its event sets off triggers, a draw finds no card, the
  damage of a combat is the last of some opponents.                        *)
PlayStep ==
  /\ at = "step"
  /\ ~EndsTurn
  /\ ~Quiet
  /\ step # "Cleanup"
  /\ \E t \in Triggers(game),
        hit \in CASE step = "Draw" /\ game.turn > 1 -> SUBSET ({game.active} \cap game.alive)
                  [] step = "Damage"                -> SUBSET (game.alive \ {game.active})
                  [] OTHER                          -> {{}} :
       /\ game' = [game EXCEPT !.doomed = @ \cup hit, !.waiting = @ \o t]
       /\ Count(t)
  /\ OpenRound
  /\ UNCHANGED <<step, checkpoints, restores>>

(* Broken: only the stack is looked at.                                    *)
RepeatsForStack(g) == g.stack # <<>>

(* Discards and the end of effects set off triggers; while there are any, the
  players get priority and the step is played again.                       *)
RepeatsCleanup(g) == g.stack # <<>> \/ g.waiting # <<>>

Cleanup ==
  /\ step = "Cleanup"
  /\ at \in {"step", "cleanup"}
  /\ ~game.over
  /\ \E t \in Triggers(game) :
       LET g == [game EXCEPT !.waiting = @ \o t]
       IN /\ Count(t)
          /\ IF RepeatsCleanup(g)
               THEN game' = g /\ OpenRound
               ELSE /\ game' = [Advanced(g) EXCEPT !.endTurn = FALSE]
                    /\ at' = "run"
                    /\ UNCHANGED <<holder, passed, passes>>
  /\ UNCHANGED <<step, checkpoints, restores>>

(* The cleanup is repeated in a game that ended in its window: nobody gets priority
  any more, so while something is on the stack or waits, it is repeated again. *)
CleanupOver ==
  /\ at = "cleanup"
  /\ game.over
  /\ \E t \in Triggers(game) :
       LET g == [game EXCEPT !.waiting = @ \o t]
       IN /\ Count(t)
          /\ IF RepeatsCleanup(g)
               THEN game' = g /\ UNCHANGED <<at, step, holder, passed, passes>>
               ELSE game' = [g EXCEPT !.endTurn = FALSE] /\ RunEnds
  /\ UNCHANGED <<checkpoints, restores>>

(* A checkpoint that is restored while attackers or blockers are declared breaks
  the combat off; the turn goes on behind it.                              *)
RestoreInCombat ==
  /\ at = "step"
  /\ step \in {"Attack", "Block"}
  /\ game.active \in game.here
  /\ restores < MaxRestores
  /\ \E i \in DOMAIN checkpoints : game' = checkpoints[i]
  /\ step' = "Main2"
  /\ restores' = restores + 1
  /\ UNCHANGED <<at, holder, passed, passes, checkpoints, deeds>>

-----------------------------------------------------------------------------
(* step_with_priority and priority_round *)

(* Broken: a player who conceded is not noticed.                            *)
LosersByRules == game.doomed \cap game.alive

(* Whoever loses now, or conceded since state-based actions were looked at. *)
Losers == (game.doomed \cap game.alive) \cup (game.here \ game.alive)

(* A loser leaves with everything they control on the stack.  A trigger of theirs
  that was matched before stays.                                           *)
WithoutLosers ==
  [game EXCEPT !.alive = @ \ Losers,
               !.here = @ \ Losers,
               !.doomed = {},
               !.stack = Subsequence(@, {i \in DOMAIN @ : @[i].by \notin Losers}),
               !.bars = @ \ Losers,
               !.over = Cardinality(game.alive \ Losers) <= 1]

(* The top of the loop of priority_round: state-based actions and triggers,
  until neither changes anything.                                          *)
Settle ==
  /\ at = "settle"
  /\ LET g == WithoutLosers
     IN IF g.over
          THEN game' = g /\ RoundBreaksOff /\ UNCHANGED deeds
          ELSE \E t \in IF Losers = {} THEN {<<>>} ELSE Triggers(g) :
                 /\ game' = [g EXCEPT !.stack = @ \o Ordered(g.waiting \o t),
                                      !.waiting = <<>>]
                 /\ at' = "ask"
                 /\ Count(t)
                 /\ UNCHANGED <<step, holder, passed, passes>>
  /\ UNCHANGED <<checkpoints, restores>>

(* Broken: the round is over when as many passed as are left, although the active
  player, with whom it begins, may not be one of them.                     *)
PassAmongLiving ==
  /\ at = "ask"
  /\ passed' = passed + 1
  /\ passes' = passes \cup {holder}
  /\ holder' = NextPlayer(holder)
  /\ at' = IF passed' >= Cardinality(game.alive) THEN "round" ELSE "settle"
  /\ UNCHANGED <<game, step, checkpoints, deeds, restores>>

(* Broken: the players who passed are counted, not the passes; those who left
  never do.                                                                *)
PassOnce ==
  /\ at = "ask"
  /\ passes' = passes \cup {holder}
  /\ passed' = Cardinality(passes')
  /\ holder' = NextPlayer(holder)
  /\ at' = IF passed' = Cardinality(Players) THEN "round" ELSE "settle"
  /\ UNCHANGED <<game, step, checkpoints, deeds, restores>>

(* A pass: the player's, that of a player with nothing to do, which a player who
  left always is, or what an illegal action counts as.                     *)
Pass ==
  /\ at = "ask"
  /\ passed' = passed + 1
  /\ passes' = passes \cup {holder}
  /\ holder' = NextPlayer(holder)
  /\ at' = IF passed' = Cardinality(Players) THEN "round" ELSE "settle"
  /\ UNCHANGED <<game, step, checkpoints, deeds, restores>>

(* A spell or an ability goes on the stack, with the triggers it sets off above
  it; a land or a mana ability does not.  The player keeps priority.       *)
Play ==
  /\ at = "ask"
  /\ holder \in game.here
  /\ deeds < MaxDeeds
  /\ \E put \in {<<>>} \cup {<<o>> : o \in Objects({holder}, Effects, game.alive)},
        t \in Triggers(game) :
       /\ game' = [game EXCEPT !.stack = @ \o put \o t]
       /\ deeds' = deeds + 1 + Len(t)
       /\ deeds' <= MaxDeeds
  /\ passed' = 0
  /\ passes' = {}
  /\ at' = "settle"
  /\ UNCHANGED <<step, holder, checkpoints, restores>>

(* A card that cannot be paid for is rolled back; the player is asked again. *)
PlayFails ==
  /\ at = "ask"
  /\ holder \in game.here
  /\ deeds < MaxDeeds
  /\ deeds' = deeds + 1
  /\ at' = "settle"
  /\ UNCHANGED <<game, step, holder, passed, passes, checkpoints, restores>>

Concede ==
  /\ at = "ask"
  /\ holder \in game.here
  /\ game' = [game EXCEPT !.alive = @ \ {holder}]
  /\ holder' = NextPlayer(holder)
  /\ passed' = 0
  /\ passes' = {}
  /\ at' = "settle"
  /\ UNCHANGED <<step, checkpoints, deeds, restores>>

(* The game of a checkpoint, in the step the loop is in.                   *)
Restore ==
  /\ at = "ask"
  /\ holder \in game.here
  /\ restores < MaxRestores
  /\ \E i \in DOMAIN checkpoints :
       /\ game' = checkpoints[i]
       /\ holder' = checkpoints[i].active
  /\ restores' = restores + 1
  /\ passed' = 0
  /\ passes' = {}
  /\ at' = "settle"
  /\ UNCHANGED <<step, checkpoints, deeds>>

(* Everyone passed on an empty stack: the window closes.                   *)
CloseWindow ==
  /\ at = "round"
  /\ game.stack = <<>>
  /\ step' \in Following
  /\ at' = IF step = "Cleanup" THEN "cleanup" ELSE "step"
  /\ NoRound
  /\ UNCHANGED <<game, checkpoints, deeds, restores>>

(* Everyone passed: the top of the stack resolves, and its triggers are matched
  before state-based actions are looked at.                                *)
Resolve ==
  /\ at = "round"
  /\ game.stack # <<>>
  /\ \E t \in Triggers(game) :
       LET popped == [game EXCEPT !.stack = Front(@)]
       IN /\ game' = [Effect(popped, Last(game.stack)) EXCEPT !.waiting = @ \o t]
          /\ Count(t)
  /\ OpenRound
  /\ UNCHANGED <<step, checkpoints, restores>>

Engine ==
  \/ Returns \/ SkipTurn \/ BeginTurn
  \/ JumpToCleanup \/ PlayQuietStep \/ PlayStep \/ Cleanup \/ CleanupOver
  \/ Settle \/ CloseWindow \/ Resolve

Answer == Pass \/ Play \/ PlayFails \/ Concede \/ Restore

Next == Engine \/ Answer \/ RestoreInCombat \/ Aborts

Spec == Init /\ [][Next]_vars

(* The engine's thread runs, and whoever is asked answers: a transport answers for
  a player who does not, after 120 s.  It is never the turn of both.        *)
FairSpec == Spec /\ WF_vars(Engine \/ Answer)
-----------------------------------------------------------------------------
(* Properties *)

(* What the loop works on.                                                 *)
TypeOK ==
  /\ game.turn \in Nat
  /\ game.active \in Players
  /\ game.order \in Seq(Players) /\ ToSet(game.order) = Players
  /\ game.here \subseteq Players
  /\ game.alive \subseteq game.here
  /\ game.doomed \subseteq Players
  /\ game.over \in BOOLEAN
  /\ game.stack \in Seq(Object)
  /\ game.waiting \in Seq(Object)
  /\ game.extra \in Seq(Players)
  /\ game.skips \in [Players -> Nat]
  /\ game.endTurn \in BOOLEAN
  /\ game.bars \subseteq game.here
  /\ at \in {"run", "step", "settle", "ask", "round", "cleanup", "done"}
  /\ step \in Steps
  /\ holder \in Players
  /\ passed \in 0 .. Cardinality(Players)
  /\ passes \subseteq Players
  /\ Len(checkpoints) <= MaxCheckpoints

(* Nothing resolves, and no window closes, before every player still in the game
  passed after the last thing anybody did: priority_round only counts passes, and
  goes round an order that players drop out of (priority.rs, game.rs next_player). *)
EveryoneCouldAnswer == at = "round" => game.alive \subseteq passes

(* A player is asked only in a game that goes on and in which everyone who lost
  has left: state-based actions come first, after a concession, after a loss in
  the middle of a round and after a checkpoint is restored.                *)
AskedWhenSettled ==
  at = "ask" =>
    /\ game.doomed \cap game.alive = {}
    /\ game.here = game.alive
    /\ Cardinality(game.alive) >= 2
    /\ game.waiting = <<>>

(* A turn begins with nothing left of the last one: no spell, no trigger and no
  request to end the turn crosses step_cleanup, and nobody begins a turn who lost
  in the one before unnoticed.                                             *)
TurnStartsClean ==
  at = "run" =>
    /\ game.stack = <<>>
    /\ game.waiting = <<>>
    /\ ~game.endTurn
    /\ game.doomed \cap game.alive = {}
    /\ game.here = game.alive

(* "Run the full game until someone wins or loses" (game_loop.rs, run): whatever
  the players do, run returns.                                             *)
RunReturns == <>(at = "done")

(* Without effects that replace a turn there is one way not to return: the game
  ended in a window of step_cleanup and left something on the stack, or a trigger
  that waits; then the cleanup is repeated for ever.                       *)
ReturnsOrSpins ==
  RunReturns \/ <>[](at = "cleanup" /\ game.over /\ RepeatsCleanup(game))
=============================================================================
