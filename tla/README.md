# Verification of ManaBrew's multiplayer

TLA+ models of the multiplayer parts of ManaBrew, the Magic table in this
repository, with the TLC runs that check them on small instances and proofs,
checked by TLAPS, of what holds for every instance.

Five specifications, each about a part of the program in which the order of
events decides whether it works:

* **who is in the room**: the relay's sessions, rooms, timers and restarts
  (`RelayRooms`, and lock by lock `SessionHandover`);
* **what a seat sees and says**: boards, prompts and answers between a game
  engine and a player, through a node, the relay and links that break
  (`SeatStream`, with `StateDelta` for the patches and `PromptLedger` for what
  is promised);
* **whose turn it is**: the turn loop of the rules engine (`TurnLoop`);
* **who picks next**: a draft in the host's browser with people on the network
  and bots (`Draft`).

## 1. Inventory

| component | state | operations | talks to |
|---|---|---|---|
| **Relay: sessions** (`state.rs`, `connection.rs`, `identity.rs`) | `players`: player id -> `ConnectedPlayer` (username, `connected`, `generation`, `room_id`, sender) | `authenticate`, `evict`, `reclaim_session`, read loop, `mark_disconnected` | clients by websocket; `rooms` through shared maps |
| **Relay: rooms** (`room.rs`, `lobby.rs`) | `rooms`: room id -> `Room` (host, seats, observers, status, `humanless_since`, resume token) | create, join, observe, rejoin, leave, ready/deck/format, start, end, resume, reset | sessions; timers |
| **Relay: cleanup** (`cleanup.rs`) | sleeping tasks | `mark_disconnected`, host / peer-host / seat grace timers, sweep every 60 s | sessions and rooms |
| **Relay: replay and routing** (`replay.rs`, `connection.rs`) | per room: last board and its fingerprint per slot, pending prompts, inputs retained for the host | `BroadcastState` (engine and player half), `RequestResync`, retain, acknowledge | host and seats |
| **Relay: the rest** (`chat.rs`, `seal.rs`, `metrics.rs`, `self_update.rs`, transport signalling) | histories, counters, endpoints | forward, count | everyone |
| **Self-hosted node** (`self-hosted-node`) | room snapshot (token, game, states, prompts), engine session, outbound queue, bots | `reestablish_room`, forward prompts, start/abort/finish engine, route responses | relay; engine thread by channels, or a Java process that it polls |
| **Browser** (`src/platform/web.ts`, stores) | current room, resume token; board, patch base and prompt of its seat | lobby commands, host or seat of a game, answer, concede, resync | relay; engine worker |
| **Bots** (`manabot`) | seat state | join as bot, answer prompts | relay |
| **Game runtime** (`manabrew-game-runtime`) | one channel pair per seat | present a prompt, wait at most 120 s | engine thread and host |
| **Relay protocol** (`manabrew-relay-protocol`) | none | messages, `state_delta::{diff, apply}`, identity tokens | all of the above |
| **Rules engine** (`manabrew-engine`) | `GameState`: turn, order, stack, players, cards; checkpoints | turns and steps, priority, stack, state-based actions, restore | runtime |
| **Card scripts, card database, parity suite** | none | parsing, comparing with Forge | engine |
| **Limited** (`forge-limited`, `limited_api.rs`, `draftHost.ts`, `draftPeer.ts`) | pod: packs, picks, pending picks; per person a view and a flag | tick, submit, broadcast states | host's browser, peers through the relay |
| **Hub** (`manabrew-hub`) | SQLite: accounts, decks, assets | HTTP handlers, tokens | browsers; relay through signed tokens |
| **Desktop shell, LAN discovery, art cache, wasm, load generator** | caches, child processes | adapters and tools | |

### What is hard

* **One session, several connections.** A client that reconnects claims its
  session before the relay has noticed that the old connection is gone. Old and
  new connection tasks run at the same time on a multi-threaded runtime; the
  `generation` counter is all that tells them apart, and `players` and `rooms`
  are locked separately.
* **The same fact in two maps.** Whether a player is connected is in the
  session and in the room's slot; which room a player is in is in the session
  and in the room's roster. Eight handlers update both, one after the other.
* **Timers that are never cancelled.** A disconnect in a game arms a timer of
  one of three kinds. On expiry it must find out what happened in the meantime:
  the player came back, came back under a new player id, left again, became
  host, lost the host role, or the room went and came back.
* **Restarts.** The relay keeps nothing on disk. The host's client rebuilds the
  room from what it remembers; everyone else comes back by username.
* **Games without people.** Bots, an engine and a node keep a game going for
  ever unless the sweep ends it.
* **Three copies of a board, two of a prompt.** The node, the relay and the
  client each keep the last board, and most boards travel as patches against
  the one before. A link that breaks loses some of them, a resume repeats
  others, in an order of its own. A prompt is in the node's snapshot and in the
  relay's cache, and removed from each by a different event.
* **Answers that come late or twice.** Inputs are retained for a host that is
  away and delivered again; a bot's answer arrives in-process and by network;
  the engine passes for a player after 120 s, and the answer still comes.
* **A loop that asks people.** Anyone may concede, lose or restore a checkpoint
  while a round of priority is under way, and effects skip, repeat, end or
  replace turns.
* **Several people and one pod.** Picks wait in a queue while the pod moves on,
  a person takes several cards from one pack, messages to a peer get lost.

### What makes each part correct

* sessions: one per username; connected exactly while its latest connection is
  read; never left behind by a room that went away or by a race of reclaims;
* rooms: roster and sessions agree; no two seats of one name in a game; a
  hosted room has its node, a peer room its engine's seat, as host;
* cleanup: a seat of a connected player is never taken; a seat of a player who
  stays away is freed, but not before the grace is over; a game ends for a
  reason, and without people it does end; a dead room is removed;
* stream: once everything is sent, relay and client show the engine's board;
  the open prompt is on offer; an answer closes the prompt it was given to, and
  only once; the engine never waits for a seat for ever;
* turn loop: nothing resolves before everyone could answer; who lost has left
  before anyone is asked; a turn leaves nothing to the next; the game ends;
* draft: no card is lost or doubled; everybody gets what they chose from the
  pack they saw, and as many cards as the others; the draft waits only for
  people who can pick, and ends.

## 2. Modules

| module | what it models |
|---|---|
| `RelayRooms` | sessions, rooms, timers, sweep and what hosting clients remember; one handler is one action |
| `MCRelayRooms` | constants for TLC: how many player ids each user may use at a time, the symmetry of people |
| `RelayRoomsProofs` | TLAPS proofs about `RelayRooms`: types, generations, one session per name |
| `RosterProofs` | TLAPS proofs about `RelayRooms`: rosters, timers, seats and games |
| `SessionHandover` | one username and its connection tasks; one lock is one action |
| `SessionHandoverProofs` | TLAPS proofs about `SessionHandover` |
| `StateDelta` | `state_delta::diff` and `apply` on lists of cards |
| `Subsequences` | what is left of a list when some places are dropped (`retain`, `filter`, `partition`), without recursion; used by `StateDelta` and `TurnLoop` |
| `SubsequenceProofs` | lemmas about it: what stays, in which order, and that nothing comes in |
| `SeatStream` | one seat of a running game: engine, node, relay and client; extends `StateDelta` |
| `PromptLedger` | what a game promises a seat about its prompts; abstract, and implemented by `SeatStream` with the Rust engine |
| `SeatStreamProofs` | TLAPS proofs about `SeatStream`: that refinement, and with either engine open prompts, local bots, answers gone astray |
| `BoardProofs` | TLAPS proofs about `SeatStream` and `StateDelta` with either engine: the boards of relay and client, types |
| `MCSeatStream` | boards and kinds of seat for TLC |
| `TurnLoop` | `GameLoop::run` with turns, steps, priority, stack, losses and checkpoints |
| `TurnLoopProofs` | TLAPS proofs about `TurnLoop`: types, steps and turns, priority rounds |
| `MCTurnLoop` | seating orders for TLC |
| `Draft` | pod, host and peers of a booster draft |
| `DraftProofs` | TLAPS proofs about `Draft` |
| `MCDraft` | the packs for TLC |

How they fit: `RelayRooms` decides that a room exists, that its game runs and
who sits where; `SeatStream` starts from such a game and follows one seat;
`TurnLoop` is inside what `SeatStream` calls the engine, where it asks for
decisions one at a time (`ManabrewAsk`). `Draft` happens in a lobby room before
a game and uses the relay only to forward messages.

`RelayRooms` and `SessionHandover` divide the work. `RelayRooms` covers every command and
every kind of room, with each handler as one step. That is exact for handlers
that touch one map, and an idealisation for the others: between the locks of
one handler another task may run. The gaps that matter lie in `authenticate`
against `mark_disconnected` against a forfeit timer, for one username, and
`SessionHandover` opens exactly these.

### RelayRooms and the code

| model | code |
|---|---|
| `players`, `connected`, `generation`, `roomOf` | `ServerState.players`, and the `ConnectedPlayer` fields |
| `sockets` | connection tasks in the read loop of `handle_connection`, each with the generation `authenticate` gave it |
| `rooms`, `room` | `ServerState.rooms`; `seats`/`watchers` are `Room.players`/`observers`, `up` the slots with `connected`, `idle` whether `humanless_since` is set |
| `timers` | the sleeping tasks of `schedule_host_resume_abort`, `schedule_peer_host_loss`, `schedule_seat_forfeit` |
| `snapshot` | what the hosting client keeps: the room's `resume_token` and the seat order of the running game (`HostSnapshot` in the node, `useServerStore` in the browser) |
| `NewSession`, `Reclaim` | `authenticate`: a new session, or `evict` and `reclaim_session` |
| `CreateRoom`, `JoinLobby`, `Observe`, `Rejoin`, `LeaveRoom`, `StartGame`, `EndGame` | the `*_sync` handlers of `lobby.rs`; `join_room_sync` is three actions |
| `ResumeLive`, `ResumeLost` | the two halves of `resume_room_sync` |
| `DisconnectIgnored`, `DisconnectRoomless`, `DisconnectInGame`, `DisconnectLobby` | the branches of `mark_disconnected_inner` |
| `HostNeverResumed`, `PeerHostLost`, `ForfeitSeat`, `TimerDisarmed` | the bodies of the three timers after their sleep |
| `SweepKeep`, `SweepEmptyLobby`, `SweepHumanless` | `cleanup_stale_state` on one room |
| `RemoveRoom`, `ResetToLobby` | `remove_room_and_clear_sessions`, `reset_room_to_lobby` |
| `RelayRestart`, `Forget` | the relay's process, or a hosting client, starts over |

Users are of three kinds: people, bots (`as_bot`) and nodes, which create
hosted rooms and watch them. A player id is a pair of a username and a number,
so that an id is known to be new. Messages to clients are not modelled, with one
exception: a hosting client that is told that its game is over (`Told`) no
longer resumes it, one that is disconnected at that moment does not hear it.

Abstracted: ready flags, decks, formats and passwords (guards of `StartGame`
and `JoinRoom`; a start needs two seats), `SetMaxPlayers` (a constant), the
limit on rooms, durations. A timer may expire at any time after it is armed,
and a room that a sweep found without people may be ended at any later sweep.
Every order of events that real durations allow is among these. `gen` in a
timer tells the timers of different disconnects apart; nothing in the code
compares it.

Two bookkeeping rules keep the state space finite without changing behaviour:
a socket whose session is gone is dropped (all its commands fail and its
cleanup returns at once), and so is a timer whose player has neither a session
nor a place in the room (it can only return).

`LateCommands` says whether a connection that was replaced may still have
commands in flight. It has until its close frame is processed. The session
properties are checked with TRUE. The roster properties are checked with
FALSE: a command of the old connection, sent before the eviction and read
after the new connection has gone as well, joins a disconnected session to a
room, and the roster then shows as present a player who is not. Only a player
racing their own earlier command is affected.

### SessionHandover and the code

Each connection task walks through `authenticate` (`LookUp`, then `Insert` or
`Reclaim` and `ShowSeat`), is read, and ends in `mark_disconnected` (`Mark`,
`ReadStatus`, then `HideSeat`, or `LeaveSeat`, `Unroom`, `Remove`); a seat hidden in a game
leaves its timer behind (`Wake`, `CheckSeat`, `Forfeit`, `Remove`). Each is the
critical section of one `get`, `get_mut`, `insert` or `remove` on `players` or
`rooms`. What a task copied out of a section (`UsernameSession` with its
generation and room) is in `task`. The user proves its identity, so every
authentication succeeds. The user's first session is in no room, a lobby room
or a game; it does not join one later, and other players keep the room and are
its host. They may start a game (`StartGame`) and end it: `reset_room_to_lobby`
clears the seats in one section (`EndGame`) and then looks at the session of each
seat in one section and removes it or takes it out of the room in another
(`ResetLook`, `ResetRemove`, `ResetUnroom`). The room's next game is left out once
the user's seat was cleared.

### SeatStream and the code

| model | code |
|---|---|
| `board`, `made`, `asked`, `waiting`, `conceded`, `inbox` | the engine's side of a seat: `AgentImpl` in `recv_action`, the seat's channel of `ClientToServerMessage`s |
| `published`, `fetched`, `actions` | the Java game's published prompt, the node's `last_prompt`, the session's queue of actions |
| `snapPrompt`, `botAnswered`, `forgetting`, `outbound`, `replay` | `HostSnapshot.pending_prompts`, the bot's highest answered prompt, the gap in `route_remote_response`, the outbound channel, what `reestablish_room` sends |
| `link` | the node's websocket: broken and not noticed (`dead`), noticed, resuming, replaying |
| `hostUp`, `known`, `cache`, `pending`, `retained`, `wire` | the relay: host slot connected, room exists, `GameReplayCache` of the seat, the inputs it retains, what is on the socket to the node |
| `client`, `view`, `baseLabel`, `held` | the browser: connection, board on the screen, `deltaBases`, `currentPrompt` |
| `ManabrewAsk`, `ManabrewTakeAnswer`, `ManabrewReject`, `ManabrewConcede`, `ManabrewTimeout` | `send_prompt`, `recv_action`, `reject`, `handle_directive`, `MpscTransport::recv` |
| `ForgeAsk`, `ForgeFetch`, `ForgeSubmit`, `ForgeReject`, `ForgeTakeAnswer`, `ForgeTakeConcede` | `run_session` of the Java backend against `takeAction` of the Java session |
| `NodeSend`, `RelayTakes` | `run_client_loop` and the engine half of `BroadcastState`: acknowledge, `observe`, fold for old clients, deliver |
| `NodeReceiveResponse`, `NodeForgetPrompt`, `NodeReceiveConcede` | `route_remote_response` in its two halves, `route_remote_directive` |
| `NodeReconnect`, `NodeResumed`, `NodeReplay` | reconnect, `RoomResumed`, `reestablish_room` |
| `ClientAnswer`, `ClientConcede`, `ClientReturn`, `ClientResync` | the player half of `BroadcastState` and the stores' `respond` and `concede`, rejoin, `RequestResync` |
| `LinkBreak`, `ClientDrop`, `RelayRestart` | faults |

A seat is a person's or a local bot's, its client takes patches or is too old
for them. The game's other seats appear as boards that the engine makes while
this seat is not asked. A fingerprint is the board it was computed from. The
channels inside the node and between the relay and a connected client are first
in, first out, so a message is taken in the step that sends it.

### TurnLoop and the code

| model | code |
|---|---|
| `game` | `GameState`: `turn`, `player_order`, who is alive, who left, stack, `pre_matched_triggers`, `extra_turns`, `skip_turns`, `end_turn_requested`; `bars` are the permanents that replace a turn |
| `at`, `step`, `holder`, `passed` | the Rust call stack: where the loop is, `TurnMachineState`, `priority_player`, `passed_count` |
| `checkpoints` | `GameLoop.checkpoints` |
| `Returns`, `SkipTurn`, `BeginTurn`, `Aborts` | `run`, `run_turn` |
| `JumpToCleanup`, `PlayQuietStep`, `PlayStep` | `run_turn_state_machine`, `step_combat` |
| `Cleanup`, `CleanupOver` | the loop of `step_cleanup`, and the same loop in a game that is over; `at` is "cleanup" when it is repeated |
| `RestoreInCombat` | a checkpoint restored while attackers or blockers are declared |
| `Settle`, `RoundBreaksOff` | the loop at the top of `priority_round`: state-based actions and triggers; where the loops above it go when the game is over |
| `Pass`, `Play`, `PlayFails`, `Concede`, `Restore` | what `choose_action` returns |
| `CloseWindow`, `Resolve` | `step_with_priority`, `resolve_stack` |

A card is what it does to the loop: hurt a player, give an extra turn, skip one,
end the turn, replace opponents' turns, reverse the order, nothing. Left out:
costs, zones, mana, the action space (any living player may act), the flags
that skip steps, extra phases, first strike, suspend, and how combat damage
comes about (any opponents may be dealt their last). A play that fails leaves
the game as it was.

### Draft and the code

| model | code |
|---|---|
| `round`, `queue`, `picked`, `pending` | `BoosterDraft`, `LimitedPlayer.pack_queue`, `DraftPack.picks_remaining`, the pending pick of a person's agent |
| `phase`, `cursor`, `progress` | where `tick` is |
| `sent`, `inbox` | picks on the way to the host (with its queue), states on the way to the peers |
| `view`, `waiting`, `done` | the stores: state on screen, `pickPending`, complete |
| `Pick`, `Deliver` | `submitHostPick`, `submitPeerPick`, `handleStateUpdate` |
| `DropStale`, `Submit` | `applyPick` and `limited_submit_pick` |
| `AwaitHumans`, `StartSweep`, `TakeCard`, `AwaitSecondPick`, `PassPack`, `NextSweep` | `tick`, one seat at a time |
| `StartRound`, `Finish` | `start_round`, `finishDraft` |
| `LosePick`, `LoseMessage` | a peer's connection is down |

`dealt` and `chosen` are history. Nothing in the code knows where a card is, so
the model counts its copies by the places where they lie: a place is a seat, a
pile (0 holds what the seat has picked, *n* the *n*-th pack of its queue) and a
position, and `CardsConserved` says that the places of a card are as many as the
copies opened. The host applies one pick at a time and its
engine has one thread, so what happens elsewhere during a tick may as well
happen after it (`Outside`).

## 3. Runs

| run | bounds | properties |
|---|---|---|
| `relay_peer` | 2 people, both may found a room, 1 room, 2 ids each, 3 sockets, 2 timers, 1 reclaim per session, late commands | `TypeOK`, `ConnectedIffSocket`, `OneSessionPerName`, `SessionListed`, `LiveSeatKept` |
| `relay_hosted` | 2 people, 1 bot, 1 node, 1 room, 2 ids, 4 sockets, 2 timers | `SeatBacked`, `NoOrphanSession`, `SeatNamesDistinct`, `DownSeatHasTimer`, `HostWatches`, `LiveSeatKept`, `GameEndsForCause` |
| `relay_live` | 1 person, 1 bot, 1 node; the person or the node founds the room; fair | `DownSeatResolved`, `HumanlessGameEnds`, `DeadRoomRemoved`, `GameEndsForCause` |
| `handover` | 3 connections of one user, fair | `TypeOK`, `ConnectedIsClaimed`, `SeatHasSession`, `GoneForGood` |
| `stream` | Rust engine, a person or a local bot, 2 prompts, 1 break of each link, 3 boards to choose from, fair | `TypeOK`, `OpenPromptShown`, `LocalBotOnce`, `KeepsLedger`, `SeatNeverStalls` |
| `stream_forge` | Java engine, an old or a new client, 2 prompts, 3 boards in a row, 1 fault of any kind | `RelayBoardCurrent`, `ClientBoardCurrent`, `MisuseNeedsReplay` |
| `draft` | 2 people and a bot, 2 rounds, packs of 3 with a name twice, 2 picks per pass, 1 pick too many, 1 loss, fair | `TypeOK`, `CardsConserved`, `PickFits`, `AsChosen`, `EvenShares`, `AwaitedCanPick`, `DraftCompletes` |
| `turns` | 3 players, 2 turns, 2 deeds or triggers, effects extra / skip / end turn, 1 restore from 1 checkpoint, fair | `TypeOK`, `EveryoneCouldAnswer`, `AskedWhenSettled`, `TurnStartsClean`, `ReturnsOrSpins` |
| `relay_lost_seat` | violation, fair | `DownSeatResolved` |
| `handover_cleanup` | violation | `CleanupSparesSuccessor` |
| `stream_frozen` | violation | `BoardRecovers` |
| `turns_barred` | violation, fair | `RunReturns` |

*Why the bounds are enough.*

* Relay: rooms interact only through sessions, a session is in at most one room,
  and no handler reads two rooms, so one room shows what rooms do. Two people
  and a bot give every role at once: a host, a seat that is not the host's, a
  promotion, an observer, a namesake. Two ids per user are what a takeover
  needs. A second reclaim differs from the first only in the generation's value,
  which is only compared for equality. `SessionHandover` needs three
  connections: one leaving, and two that look the session up before either
  reclaims it. Its safety properties were also run with four.
* Stream: an answer can be misdirected only to a later prompt, so two prompts
  are enough. A board goes out whole or as a patch to the one before; three in a
  row give a patch on the right base, on a base already patched, and on one a
  resume has overtaken. The three boards differ by a changed field, a new card
  and a new order. One fault at a time is what `stream_forge` allows and two,
  one of each link, `stream`: with more the same messages are lost again.
* Draft: two rounds give both directions, three seats tell left from right, and
  two picks per pass with packs of three leave a pack with one card, fewer than
  a pass takes. A name twice in a pack makes a late pick applicable to the wrong
  pack.
* Turns: three players are the fewest for a game that goes on after a loss. Two
  turns show what crosses from one to the next. Two deeds are a spell and its
  answer, or a spell and a trigger.

The proofs lift these bounds for the properties they cover. `CHECK_DEADLOCK
FALSE` is set throughout: games and drafts end, bounded ids, boards and deeds run
out, and nobody is obliged to connect.

*Fairness.* `FairSpec` of `RelayRooms` makes weakly fair the expiry of each
player's timers (each is a spawned tokio task that only sleeps) and the sweep of
each room (`cleanup_loop` never returns). Clients owe nothing: they need not
reconnect, leave or disconnect. `FairSpec` of `SessionHandover` makes weakly
fair each handler once it has begun, a reset of the room included, and each armed
timer; it does not make connections end or a game. `SeatStream` makes only the engine's thread fair, whose
transport gives up after 120 s; neither node nor client owes anything. `TurnLoop`
makes fair that the engine goes on or a player answers, which the same 120 s
guarantee. `Draft` makes fair the host's browser, the delivery of messages, and
that a person who is awaited and can pick does so, which nothing in the code
forces: `DraftCompletes` says that nothing but the people can hold a draft up.

*Liveness in `RelayRooms` is checked as `[]<>~bad`*: the bad situation does not
last. A person who goes on reconnecting may cause it again and again.

### What the passing runs show

In hosted rooms rosters, sessions and timers stay in step through every order
of disconnect, reclaim, takeover, timer, sweep and restart, and everything a
player leaves behind is cleaned up. In peer rooms sessions behave too, and nobody
who is connected loses a seat in a running game. Peers who host on the same
relay do not end a node's game (`GameEndsForCause` in `relay_live`). Lock by lock, races of one user's connections never leak a session or orphan a seat.

With the Rust engine the exchange of prompts and answers implements
`PromptLedger` through every order of breaks, late answers and repeated
deliveries: `KeepsLedger` is the property `Ledger!Spec` of
`INSTANCE PromptLedger WITH out <- conceded`. The Java engine does not keep it,
since a copy of an answer may close the next prompt; `MisuseNeedsReplay` says
that this takes a fault. The relay's board is right whenever the node has
nothing more to send, although patches fold into boards they were not made
for, because a patch of keyed cards names every card that it keeps and every
field that it changes. A client's board is right as long as the node's own link
holds, and that of an old client, which is sent folded boards, always.

The turn loop lets everybody answer before anything resolves, although it counts
passes of players who are gone, asks only in a settled game, and leaves nothing
for the next turn. Without effects that replace turns it returns, or else the
game ended in a window of the cleanup that left something behind
(`ReturnsOrSpins`; see below). A draft conserves
cards, gives people what they chose, shares evenly, and comes to its end if no
message is lost.

### Where the code departs from its documentation

1. **A seat nobody will ever free** (`relay_lost_seat`). A peer host's
   seat gets only the host timer, which is void once somebody else is host.
2. **Cleanup of a session already handed over** (`handover_cleanup`). The
   generation is compared under one lock and the session removed under another.
   The new connection goes on without a session.
3. **A board that stays behind** (`stream_frozen`). After a resume the newest full
   board goes out first and the patches queued before the break after it. Each
   is for an older base; the client drops it *with* its base, and so every
   later patch.
4. **A turn that never ends** (`turns_barred`). A turn that an effect replaces ends
   without advancing; the same player's turn begins again, for ever, and the
   limit on turns does not help because no turn is counted.

One more has no run of its own, but a property that names it. **A cleanup without
end**: `step_cleanup` repeats until the stack is empty and no trigger waits
(`phase_handler.rs:557-619`) and never looks at `game_over`, where
`step_with_priority` returns at once (500-502). When the game ends in a window of
the cleanup, by a loss, the last concession or an abort, and an object of a
survivor is on the stack, nothing ever takes it off, and the engine's thread
repeats the cleanup for ever. `game_loop.rs:625` says "Run the full game until
someone wins or loses.", and `game_loop.rs:185-188` that after an abort the game
thread "can wind down cleanly". `ReturnsOrSpins` allows just this, and
`RunReturns` in its place fails under two players, no effects, the trigger
effect "none", one turn and one deed: a trigger of the cleanup opens a window, and
somebody concedes.

Met while modelling and not checked by a run of its own, because no property of
ours claims the contrary (each is in the hazards of `PROJECT.json`): a grace timer
of an earlier disconnect can end a later grace; a peer room kept open by an
observer can name a host without a seat; a disconnected observer outlives the
reset to the lobby; an engine message acknowledges inputs that the node never
got; the node may forget the prompt that follows the one answered
(`NodeForgetPrompt`); a trigger matched before its player lost is still put on
the stack; when a person whose seat was forfeited resumes as host of a peer
room that another connected person hosts by now, that person's session is
removed but not the seat (`lobby.rs:175`), which is shown connected for ever and
may stand beside a second seat of the same name.

### Mutants

Every property of a passing run has a broken variant of one definition beside
the definition (its comment starts with "Broken:") that makes TLC find the
property violated: a timer not armed, a slot kind forgotten, an id kept where a
name is needed, a missing comparison of generations, a patch without its order
of keys, any answer taken for the open prompt, a pack not put back, passes
counted among the living only.

## 4. Proofs

| theorem | states |
|---|---|
| `RelayRoomsProofs!TypeCorrect` | `Spec => []TypeOK` |
| `RelayRoomsProofs!GenerationGuard` | `Spec => []ConnectedIffSocket` |
| `RelayRoomsProofs!OneSession` | `Spec => []OneSessionPerName` |
| `RosterProofs!SessionsAreListed` | `Spec => []SessionListed` |
| `RosterProofs!NoGhosts` | without late commands `Spec => []NoOrphanSession` |
| `RosterProofs!SlotsAgree` | in hosted rooms `Spec => []SeatBacked` |
| `RosterProofs!OneSeatPerName` | in hosted rooms `Spec => []SeatNamesDistinct` |
| `RosterProofs!DownSeatsAreTimed` | in hosted rooms `Spec => []DownSeatHasTimer` |
| `RosterProofs!ConnectedSeatsStay` | `Spec => LiveSeatKept` |
| `RosterProofs!NodesKept` | peers hosting too, without late commands `Spec => []NodeInv` |
| `RosterProofs!NodesWatch` | under the same assumption `Spec => []HostWatches` |
| `RosterProofs!NoGameCutShort` | under the same assumption `Spec => GameEndsForCause` |
| `SessionHandoverProofs!HandoverTypes` | `Spec => []TypeOK` |
| `SessionHandoverProofs!NoLeak` | `Spec => []ConnectedIsClaimed` |
| `SessionHandoverProofs!SeatsBacked` | `Spec => []SeatHasSession` |
| `SeatStreamProofs!LedgerKept` | with the Rust engine `Spec => KeepsLedger` |
| `SeatStreamProofs!PromptsReachTheSeat` | `Spec => []OpenPromptShown` |
| `SeatStreamProofs!BotsOfAnyEngineAnswerOnce` | `Spec => []LocalBotOnce` |
| `SeatStreamProofs!AnswersStrayOnlyAfterFaults` | `Spec => []MisuseNeedsReplay` |
| `BoardProofs!PatchesAreExact` | `\A from, to \in Boards : Apply(from, Diff(from, to)) = to` |
| `BoardProofs!RelayCachesTheBoard` | `Spec => []RelayBoardCurrent` |
| `BoardProofs!ClientShowsTheBoard` | `Spec => []ClientBoardCurrent` |
| `BoardProofs!StreamTypes` | `Spec => []TypeOK` |
| `TurnLoopProofs!LoopTypes` | `Spec => []TypeOK` |
| `TurnLoopProofs!RoundsAreFair` | `Spec => []EveryoneCouldAnswer` |
| `TurnLoopProofs!AsksAreSettled` | `Spec => []AskedWhenSettled` |
| `TurnLoopProofs!TurnsAreSeparate` | `Spec => []TurnStartsClean` |
| `DraftProofs!DraftTypes` | `Spec => []TypeOK` |
| `DraftProofs!PicksAlwaysFit` | `Spec => []PickFits` |
| `DraftProofs!CardsAsChosen` | `Spec => []AsChosen` |
| `DraftProofs!SharesAreEven` | `Spec => []EvenShares` |
| `DraftProofs!NobodyIsStuck` | `Spec => []AwaitedCanPick` |
| `DraftProofs!CardsAreConserved` | `Spec => []CardsConserved` |

They hold for all users, rooms, connections, players, effects, boards, pods and
bounds, under the named assumptions of the modules: the bounds are numbers,
founders are people or nodes, `None` is no room and no id, the seating order
names every player, packs have one size, boards are lists of cards with distinct
keys, a local bot's client takes patches (`manabot/src/state.rs` does).

**RelayRooms: sessions.** `ConnectedIffSocket` is not inductive: a reclaim makes
a session connected at generation *g + 1*, which is safe only if no old socket
already has that number. The strengthening is `FreshGeneration`: no socket of a
session has a generation above the session's, and an id without a session
remembers none, since a new session starts at 0. The invariant `IInv` joins it
with the types of sessions, rooms, timers and snapshots and with
`OneSessionPerName`. Most handlers change sessions only through `Sessions`, so
one lemma about that operator carries the session part for all of them, and each
action only shows what it keeps.

**RelayRooms: rosters.** Every handler works on one room, whatever it does to
sessions and timers, so the invariant `RosterInv` is a statement about each room
(`Shaped`: its host, a node, watches it and no other node does, names differ,
nobody sits and watches; `Backed`: a slot shows connected exactly those whose
session is, and a member's session is in this room; `Watched`: every
disconnected seat of a game, and the node if it is away, has its timer), one about
timers, and one about what nodes remember, since a resume rebuilds a room from
it. The lemma `RosterStep` closes the gap: a step that reshapes room *r*, leaves
other rooms, and touches only sessions that were or come to be in *r* keeps
everything if *r* is right afterwards. Each action then answers for one room.

`RosterInv` is about hosted rooms: `HostedOnly` says that only nodes found rooms,
that no person is a node and that no replaced connection has commands left. Each
part is needed. In a peer room a live resume can remove a host whose session sits
in another room by then, two seats of one name in a rebuilt room can come to the
same player, and a seat may have no timer at all (the last is reported above); a
late command seats a player who is not there.

Five properties hold of more than that:

* `SessionsAreListed` needs none of the three, `NoGhosts` only the last.
* `ConnectedSeatsStay` needs none. Seats of a running game are lost to timers, which
  look at the session before they take one, to leaving, and to a rejoin, takeover
  or rebuild that gives a seat to another player. Such a player has the same
  name, and a name has one session (`OneSessionPerName`): if the new one is there,
  the old one is gone.
* `NodesWatch` and `NoGameCutShort` allow rooms of peers beside those of nodes; they
  assume `Apart`, that no person is a node and that there are no late commands.
  `NodeInv` says of each hosted room what `RosterInv` says, of its node only: it
  watches, its slot agrees with its session, a timer runs while it is away
  (`Hosts`). That peers leave it so takes two facts more. A room is remembered by
  one client, by a node if and only if it is hosted (`Owners`), so that nobody
  but its node can rebuild or claim it; and the timers of peer hosts are for no
  room that is hosted or may be rebuilt as one (`PeersApart`). A late
  command would show a node in the room it opens, resumes or resets while its
  session is down, and nothing would time it. A running game then stops by the
  timer of its node, which does nothing when the node is back; by its node's own
  `end_game`; by a sweep that found nobody; or with the relay.

**SessionHandover.** Two connections may compute the same generation from the
same lookup, so the generation names no unique owner and "the latest claim" is
not well defined. What holds is weaker and enough: some task that is about to
be read, or is read, has the session's current generation. Each step that
changes a generation leaves such a task, the one that takes it, and each step
that ends one takes the session down, because the guard of `Mark` is true for it.

**SeatStream.** With the Rust engine, every step of the stream is a step of
`PromptLedger` or leaves its variables alone. The mapping is the identity but for
`out`, which is `conceded`. The invariant follows the two kinds of thing that
travel: an input anywhere between the relay and the engine (retained, on the
wire, in the inbox) is one this seat has given, and a prompt anywhere between
the engine and the client (snapshot, queues, relay cache, screen) is one the
engine has opened; the open prompt is the last one, and only while the engine
waits. Both parts are needed because inputs are delivered twice and prompts
shown late: an answer is admissible not because it is fresh but because its id
is compared in `recv_action`. The seat of a local bot never concedes, so that
the prompt that is opened and answered in one step is not one passed over. The
theorem assumes `Backend = "manabrew"`: `stream_forge` shows the Java engine
breaking the promise.

What holds with either engine is the second half of the module. There the Java game, which
compares no ids, first gets the same books (`Polling`: what it publishes is the
open prompt, what the node polled is no newer). Then:

* `OpenPromptShown` follows the newest prompt outwards. The last prompt in the
  queue of the node, and if the queue has none in what a resume replays, is the
  one of the snapshot; once both are quiet the relay has it pending and a client
  that is there holds it, unless an answer on the wire, or one the node is
  about to note, will clear the snapshot. The relay may lose everything, since
  the resume that follows a restart replays the snapshot.
* `LocalBotOnce` says that an open prompt has its one answer already in the
  inbox or the queue of actions, and that the bot's connection only ever sees
  prompts the node has noted as answered.
* `MisuseNeedsReplay` has a premise no state after a fault satisfies. As long as
  it holds, all inputs of the seat form one pipe from the relay to the game, which
  contains at most one answer and then at most one concession, and the
  open prompt is in one place: in the queue, on the screen, or as its answer in
  the pipe. The game's publication of a prompt consumes the answer to
  the last, so a second answer needs a second showing, and that needs a fault.

**SeatStream: boards.** `RelayBoardCurrent` speaks of a queue that has run
empty, so the invariant speaks of queues that have not. A document *leads* to
the engine's board through the envelopes still to come (`Leads`) if a whole
board is among them, or else whatever the document has wrong is set by one of
them: each card of the board is there or will be added, its field is right or
will be changed, and so with the order of the cards. `BoardInv` says that every
board in circulation leads there: the cached one, the one each queued envelope
stands for, and the snapshot that a resume sends. With nothing left to come, a
document that leads to the board is the board.

The relay folds a patch into whatever it has, and after a resume that is a newer
board than the patch was made for. `LeadsFolded` says that this does no harm. In
the cards and fields it sets, the patch is right about the board it makes, and
that board leads to the engine's through the rest of the queue; it leaves
everything else alone; and where it adds a card it also sends the order of all
cards. This is an argument about every list of keyed cards, and rests on lemmas
about `Diff` and `Apply` (`ApplyIs`): what is in the result, in which order,
with which field. Applied to the board it was made for, a patch gives exactly the
other one (`PatchesAreExact`).

A client's board needs two more facts. An old client is sent what the relay
folded, so it shows the cache (`Folded`). A client that takes patches drops one
that is not for its base. As long as no link of the node broke and the relay did
not restart, each queued patch is made for the board before it (`Chained`), so
none is dropped and the client shows what is cached (`InStep`).
`ClientBoardCurrent` restricts itself to these two cases, and `stream_frozen`
shows what happens outside them.

**TurnLoop.** The invariant says where in the loop everyone who lost has left:
when a player is asked, when a round is over, between steps and between turns;
not while a round settles, which is where concessions, resolutions and restored
checkpoints lead. Between steps the stack is empty too, and cleanup repeats
until nothing waits. A restore at a priority question settles the game again,
but one in a combat does not: the turn just goes on. So a checkpoint must be what
a game is between steps, and it is, because it was taken between turns
(`Resumable`). A cleanup that is repeated in a game that is over promises
nothing. `LoopTypes` adds the shapes of game and checkpoints. A
loser's objects leave the stack, and triggers are put on it, in their old order;
`SubsequenceProofs` says that what is left of a list is a list of the same
things.

`RoundsAreFair` needs another one. `priority_round` counts passes and compares
their number with all seats; who passed is nowhere in the code. The invariant
says where the passes lie: there is an arc of the seating order that ends just
before the holder, is at least as long as the number of passes, and in which
everyone still alive has passed. A pass extends it by the places up to the next
living player, since nobody between lives; a player who leaves shortens nothing;
and an arc as long as the table is the table. It holds for any permutation, so a
reversed order does no harm: an effect resolves only where a round starts anew.

**Draft.** The state of the pod is scattered over queues of packs that are
passed at different times, and what makes it right is an invisible number: how
many packs each seat is done with in this round. `Shares` says that numbers *h*
exist which fit what everyone has picked in this round and the size of every
pack in every queue (the pack that is to be a seat's *n*-th has been before
*n* - 1 others), and tie neighbours: what a seat has passed and its own pack are
what its neighbour is done with and has in its queue. The queues empty
only with all packs used up, and then the fit gives every seat a pack's
number of cards: `EvenShares`. While there are packs, the seat that is done with
the fewest has one, which is why the pod never waits for nobody.

What people see is compared with the same pod. A state or a pick names its
round and number; one that is for the present number shows the pack that is at the
head of that seat's queue (`ViewsFit`, `MailFits`), or picks from it
(`SentsFit`, `PendingsFit`), and one for an earlier number is dropped as stale.
That is `PickFits`, and, with the cards chosen so far at each number,
`AsChosen`. `AwaitedCanPick` adds that between ticks the last state on its way to a
peer, or the one on the screen if none is, is the current one (`ShownLast`,
`PickOut`); it speaks of drafts without losses, since nothing repeats a lost
state.

`CardsConserved` is about contents, and a sum over all queues is out of reach (a
fold is computed by induction over data). A number of places is not: two sets
have the same size if a map matches them one to one (`SameSize`). So every step
of the pod comes with a map of places. A pick moves one card from a pack to the
end of a pile 0 and the cards behind it up by one (`Moves`); a pass takes a pack
off the head of one queue, moves the packs behind it up, and puts it at the end of
the neighbour's or, when it is empty, nowhere (`Shifts`); a new round puts one
pack before each seat, whose places are `Opened` (`PacksOpened`). The
invariant `Conserved` needs all of the pod's own (`IInv`): a pick is matched
only because the card is in the pack that is open (`PickFits`), and a new round
only because no queue holds anything when it opens.

Every safety invariant and action property of the runs is the subject of a
theorem. **Only model-checked** are the liveness properties, which are out of
the prover's reach. Neither checked nor proved: what the rosters of
peer rooms, and the seats of any room beside peers or with late commands, promise
beyond the five properties above (`SeatBacked` and `SeatNamesDistinct` fail
there), and the refinement with the Java engine, which
breaks it.

## 5. Not modelled

* **Room setup**: ready flags, decks, formats and passwords only guard a start.
* **Starting and ending an engine session** in the node, and several rooms of one
  node. `SeatStream` follows one game that runs.
* **Direct transport** between browsers or through the shell bridge: envelopes
  take another way, past the relay's cache.
* **Cards.** The engine's effects, costs, combat and layers are sequential and
  held to Forge's by the parity suite; a model of them would restate them.
* **Drafts**: undo (with one person only), leaving in the middle, conspiracies,
  the Winston draft, sealed pools.
* **Hub, desktop shell, parsers, card data, metrics, chat, art cache, LAN
  discovery**: data conversion or I/O, with no protocol state of their own.
* Two branches of `cleanup.rs` have no action because no execution reaches them:
  the 180 s sweep of silent sessions (a read loop ends after 90 s of silence),
  and the removal of a game after an hour without anyone (the humanless sweep
  comes minutes earlier).

## 6. Plan

1. *Done*: rooms and sessions, one seat's stream with the ledger it implements,
   the turn loop, the draft; their runs; the proofs above.
2. Proofs next: which seats of peer rooms do agree with their sessions.
3. Models next: the node's engine session over several games (`host.rs:954`), and
   direct transport beside the relay.
