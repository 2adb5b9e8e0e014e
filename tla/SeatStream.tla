----------------------------- MODULE SeatStream -----------------------------
(* The traffic of one seat in a running hosted game, end to end: the engine    *)
(* and the forwarder of the self-hosted node, the node's link to the relay,    *)
(* the relay's replay cache, and the player's client. Boards and prompts go    *)
(* out, answers and the concession come back, while links break, clients drop  *)
(* and the relay restarts. RelayRooms models who sits in the room; here the    *)
(* room exists, its game runs, and the seat keeps its player.                  *)
(*                                                                             *)
(* Abstractions. One seat: others show as boards the engine emits while this   *)
(* seat is not asked. The engine's messages pass the forwarder thread in the   *)
(* step that makes them, and a message between the relay and a connected       *)
(* client arrives in the step that sends it: both channels are first in, first *)
(* out. A fingerprint stands for the board it is computed from.                *)
EXTENDS StateDelta

CONSTANTS
    Boards,          \* the boards a game shows
    Seats,           \* the kinds of seat: local bots (which take patches,
                     \* manabot/src/state.rs) or not, old clients or not
    Backend,         \* the engine the node runs: "manabrew" or "forge"
    None,            \* no board is held
    MaxPrompts,      \* bound: prompts this seat is asked
    MaxBoards,       \* bound: boards the engine emits
    MaxDrops,        \* bound: breaks of the node's link to the relay
    MaxClientDrops,  \* bound: breaks of the client's link to the relay
    MaxRestarts,     \* bound: restarts of the relay
    MaxFaults        \* bound: all of these together

ASSUME StreamAssumption ==
    /\ Backend \in {"manabrew", "forge"}
    /\ Seats \subseteq [local : BOOLEAN, applies : BOOLEAN]
    /\ \A s \in Seats : s.local => s.applies
    /\ None \notin Seq(Element) \cup [board : Seq(Element), label : Seq(Element)]
    /\ MaxPrompts \in Nat \ {0} /\ MaxBoards \in Nat /\ MaxDrops \in Nat
    /\ MaxClientDrops \in Nat /\ MaxRestarts \in Nat /\ MaxFaults \in Nat

\* Cards have ids, and no two the same: boards are patched card by card.
ASSUME BoardsAssumption ==
    /\ Boards \subseteq Seq(Element)
    /\ \A b \in Boards : Keyed(b)

VARIABLES
    seat,           \* local: a bot the node answers for; applies: takes patches
    \* the engine
    board,          \* the last board it emitted (the snapshot's board as well)
    made,           \* boards emitted
    asked,          \* the id of the last prompt it opened
    waiting,        \* it waits for the answer to that prompt
    conceded,       \* it took a concession of this seat
    inbox,          \* the seat's response channel
    published,      \* Forge: the prompt the Java game shows, 0 for another seat's
    fetched,        \* Forge: the prompt the node saw last, 0 for another seat's
    actions,        \* Forge: the actions submitted and not taken yet
    \* the node
    snapPrompt,     \* the open prompt in the host snapshot, 0 without one
    botAnswered,    \* the highest prompt answered in-process
    forgetting,     \* a response is routed, its prompt not yet forgotten
    outbound,       \* envelopes for the relay
    replay,         \* envelopes a resume re-broadcasts before anything else
    link,           \* the node's link to the relay
    \* the relay
    hostUp,         \* the room counts its host as connected
    known,          \* the room exists: it does not after a restart
    cache,          \* the seat's cached board and its fingerprint, or None
    pending,        \* the seat's cached prompt, 0 without one
    retained,       \* inputs no engine output has acknowledged
    wire,           \* messages on their way to the node
    \* the client
    client,         \* its connection
    view,           \* the board it shows, or None
    baseLabel,      \* the fingerprint of its patch base, or None
    held,           \* the prompt it shows, 0 without one
    selfConceded,   \* its player has conceded
    \* history
    fate,           \* what became of each prompt
    given,          \* prompts the seat has answered
    quit,           \* the relay has accepted a concession
    misused,        \* an answer closed a prompt it was not given to
    drops, clientDrops, restarts

forgeVars == <<published, fetched, actions>>
engineVars == <<board, made, asked, waiting, conceded, inbox, forgeVars>>
nodeVars == <<snapPrompt, botAnswered, forgetting, outbound, replay, link>>
relayVars == <<hostUp, known, cache, pending, retained, wire>>
clientVars == <<client, view, baseLabel, held, selfConceded>>
historyVars == <<fate, given, quit, misused>>
faultVars == <<drops, clientDrops, restarts>>

vars ==
    <<seat, engineVars, nodeVars, relayVars, clientVars, historyVars, faultVars>>

Prompts == 1..MaxPrompts

-----------------------------------------------------------------------------
(* Messages *)

State(b) == [kind |-> "state", board |-> b, label |-> b]
Delta(from, to) ==
    [kind |-> "stateDelta", base |-> from, label |-> to, patch |-> Diff(from, to)]
Prompt(p) == [kind |-> "prompt", id |-> p]
Error == [kind |-> "error"]

Response(p) == [kind |-> "response", id |-> p]
Concede == [kind |-> "directive"]
Resumed == [kind |-> "resumed"]

Responses == [kind : {"response"}, id : Prompts]
Inputs == Responses \cup {Concede}

-----------------------------------------------------------------------------
(* Initial state *)

Init ==
    /\ seat \in Seats
    /\ board = <<>> /\ made = 0 /\ asked = 0 /\ waiting = FALSE
    /\ conceded = FALSE /\ inbox = <<>>
    /\ published = 0 /\ fetched = 0 /\ actions = <<>>
    /\ snapPrompt = 0 /\ botAnswered = 0 /\ forgetting = FALSE
    /\ outbound = <<>> /\ replay = <<>> /\ link = "up"
    /\ hostUp = TRUE /\ known = TRUE /\ cache = None /\ pending = 0
    /\ retained = <<>> /\ wire = <<>>
    /\ client = "on" /\ view = None /\ baseLabel = None /\ held = 0
    /\ selfConceded = FALSE
    /\ fate = [p \in Prompts |-> "unasked"] /\ given = {} /\ quit = FALSE
    /\ misused = FALSE
    /\ drops = 0 /\ clientDrops = 0 /\ restarts = 0

-----------------------------------------------------------------------------
(* The engine and the forwarder *)

\* patch_against_last: the first board goes out whole, a board equal to the
\* last one too (if it goes out at all), any other as a patch.
Emission(b) == IF made = 0 \/ b = board THEN State(b) ELSE Delta(board, b)

\* The forwarder drops a state envelope equal to the last one. Two envelopes of
\* one board are equal unless they carry different engine times.
Emitted(b) ==
    IF made > 0 /\ b = board THEN {<<>>, <<Emission(b)>>} ELSE {<<Emission(b)>>}

\* Broken: the prompts of a local bot are not noted as answered.
PresentUnnoted(p, sent, box) ==
    /\ outbound' = outbound \o sent \o <<Prompt(p)>>
    /\ IF seat.local
       THEN /\ inbox' = Append(box, Response(p))
            /\ snapPrompt' = 0
            /\ given' = given \cup {p}
       ELSE /\ inbox' = box
            /\ snapPrompt' = p
            /\ given' = given
    /\ UNCHANGED <<botAnswered, forgetting, replay, link>>

\* A prompt enters the snapshot and the outbound queue; a local bot answers it
\* on the spot, and its prompt leaves the snapshot again.
Present(p, sent, box) ==
    /\ outbound' = outbound \o sent \o <<Prompt(p)>>
    /\ IF seat.local
       THEN /\ botAnswered' = p
            /\ inbox' = Append(box, Response(p))
            /\ snapPrompt' = 0
            /\ given' = given \cup {p}
       ELSE /\ inbox' = box
            /\ snapPrompt' = p
            /\ UNCHANGED <<botAnswered, given>>
    /\ UNCHANGED <<forgetting, replay, link>>

\* The game goes on without this seat and shows it a new board. With Forge the
\* prompt of another seat takes whatever action lies in the queue first.
EnginePlay(b) ==
    /\ ~waiting
    /\ made < MaxBoards
    /\ Concede \notin ToSet(actions)
    /\ \E sent \in Emitted(b) :
          /\ outbound' = outbound \o sent
          /\ made' = made + Len(sent)
    /\ board' = b
    /\ published' = 0
    /\ fetched' = 0
    /\ actions' = IF actions = <<>> THEN <<>> ELSE Tail(actions)
    /\ misused' = (misused \/ actions # <<>>)
    /\ UNCHANGED <<seat, asked, waiting, conceded, inbox, snapPrompt,
                   botAnswered, forgetting, replay, link, relayVars, clientVars,
                   fate, given, quit, faultVars>>

\* send_prompt: the board first, then the prompt. A seat that conceded is still
\* shown it, and passed over.
ManabrewAsk(b) ==
    /\ Backend = "manabrew"
    /\ ~waiting
    /\ asked < MaxPrompts
    /\ \E sent \in Emitted(b) :
          /\ made' = made + Len(sent)
          /\ made' <= MaxBoards
          /\ Present(asked + 1, sent, inbox)
    /\ board' = b
    /\ asked' = asked + 1
    /\ waiting' = ~conceded
    /\ fate' = [fate EXCEPT ![asked + 1] = IF conceded THEN "passed" ELSE "open"]
    /\ UNCHANGED <<seat, conceded, forgeVars, relayVars, clientVars, quit,
                   misused, faultVars>>

\* Broken: any answer closes the open prompt.
TakeAnyAnswer ==
    /\ Backend = "manabrew"
    /\ waiting
    /\ inbox # <<>>
    /\ Head(inbox) \in Responses
    /\ inbox' = Tail(inbox)
    /\ waiting' = FALSE
    /\ fate' = [fate EXCEPT ![asked] = "answered"]
    /\ UNCHANGED <<seat, board, made, asked, conceded, forgeVars, nodeVars,
                   relayVars, clientVars, given, quit, misused, faultVars>>

\* recv_action: the answer to the open prompt.
ManabrewTakeAnswer ==
    /\ Backend = "manabrew"
    /\ waiting
    /\ inbox # <<>>
    /\ Head(inbox) = Response(asked)
    /\ inbox' = Tail(inbox)
    /\ waiting' = FALSE
    /\ fate' = [fate EXCEPT ![asked] = "answered"]
    /\ UNCHANGED <<seat, board, made, asked, conceded, forgeVars, nodeVars,
                   relayVars, clientVars, given, quit, misused, faultVars>>

\* recv_action: any other answer is refused, and the open prompt shown again.
ManabrewReject ==
    /\ Backend = "manabrew"
    /\ waiting
    /\ inbox # <<>>
    /\ Head(inbox) \in Responses \ {Response(asked)}
    /\ Present(asked, <<Error>>, Tail(inbox))
    /\ UNCHANGED <<seat, board, made, asked, waiting, conceded, forgeVars,
                   relayVars, clientVars, fate, quit, misused, faultVars>>

\* recv_action, handle_directive: the prompt is passed, and every later one.
ManabrewConcede ==
    /\ Backend = "manabrew"
    /\ waiting
    /\ inbox # <<>>
    /\ Head(inbox) = Concede
    /\ inbox' = Tail(inbox)
    /\ conceded' = TRUE
    /\ waiting' = FALSE
    /\ fate' = [fate EXCEPT ![asked] = "passed"]
    /\ UNCHANGED <<seat, board, made, asked, forgeVars, nodeVars, relayVars,
                   clientVars, given, quit, misused, faultVars>>

\* Broken: the transport has no timeout (MpscTransport::new) and waits on.
ManabrewWaitsOn ==
    /\ Backend = "manabrew"
    /\ waiting
    /\ inbox = <<>>
    /\ UNCHANGED vars

\* Nothing came for 120 s: the transport passes for the seat.
ManabrewTimeout ==
    /\ Backend = "manabrew"
    /\ waiting
    /\ inbox = <<>>
    /\ waiting' = FALSE
    /\ fate' = [fate EXCEPT ![asked] = "passed"]
    /\ UNCHANGED <<seat, board, made, asked, conceded, inbox, forgeVars,
                   nodeVars, relayVars, clientVars, given, quit, misused,
                   faultVars>>

\* The Java game opens a prompt; the node has not polled it yet.
ForgeAsk ==
    /\ Backend = "forge"
    /\ ~waiting
    /\ ~conceded
    /\ asked < MaxPrompts
    /\ asked' = asked + 1
    /\ waiting' = TRUE
    /\ published' = asked + 1
    /\ fate' = [fate EXCEPT ![asked + 1] = "open"]
    /\ UNCHANGED <<seat, board, made, conceded, inbox, fetched, actions,
                   nodeVars, relayVars, clientVars, given, quit, misused,
                   faultVars>>

\* The node polls the prompt, reads the board and forwards both.
ForgeFetch(b) ==
    /\ Backend = "forge"
    /\ published # 0
    /\ fetched # published
    /\ \E sent \in Emitted(b) :
          /\ made' = made + Len(sent)
          /\ made' <= MaxBoards
          /\ Present(published, sent, inbox)
    /\ board' = b
    /\ fetched' = published
    /\ UNCHANGED <<seat, asked, waiting, conceded, published, actions,
                   relayVars, clientVars, fate, quit, misused, faultVars>>

\* The node submits the concession, and an answer to the prompt it saw last;
\* it does not note that this prompt has been answered.
ForgeSubmit ==
    /\ Backend = "forge"
    /\ inbox # <<>>
    /\ Head(inbox) = Concede \/ (fetched # 0 /\ Head(inbox) = Response(fetched))
    /\ inbox' = Tail(inbox)
    /\ actions' = Append(actions, Head(inbox))
    /\ UNCHANGED <<seat, board, made, asked, waiting, conceded, published,
                   fetched, nodeVars, relayVars, clientVars, historyVars,
                   faultVars>>

\* Any other answer is refused. The last prompt is shown again if it is this
\* seat's.
ForgeReject ==
    /\ Backend = "forge"
    /\ inbox # <<>>
    /\ Head(inbox) \in Responses \ {Response(fetched)}
    /\ IF fetched # 0
       THEN Present(fetched, <<Error>>, Tail(inbox))
       ELSE /\ outbound' = Append(outbound, Error)
            /\ inbox' = Tail(inbox)
            /\ UNCHANGED <<snapPrompt, botAnswered, given, forgetting, replay,
                           link>>
    /\ UNCHANGED <<seat, board, made, asked, waiting, conceded, forgeVars,
                   relayVars, clientVars, fate, quit, misused, faultVars>>

\* takeAction: the Java game takes the first action in its queue, whichever
\* prompt it was submitted for.
ForgeTakeAnswer ==
    /\ Backend = "forge"
    /\ waiting
    /\ actions # <<>>
    /\ Head(actions) \in Responses
    /\ actions' = Tail(actions)
    /\ waiting' = FALSE
    /\ fate' = [fate EXCEPT ![asked] = "answered"]
    /\ misused' = (misused \/ Head(actions) # Response(asked))
    /\ UNCHANGED <<seat, board, made, asked, conceded, inbox, published,
                   fetched, nodeVars, relayVars, clientVars, given, quit,
                   faultVars>>

\* takeAction, concedePlayer: taken under any prompt, this seat's is passed.
ForgeTakeConcede ==
    /\ Backend = "forge"
    /\ actions # <<>>
    /\ Head(actions) = Concede
    /\ actions' = Tail(actions)
    /\ conceded' = TRUE
    /\ waiting' = FALSE
    /\ fate' = IF waiting THEN [fate EXCEPT ![asked] = "passed"] ELSE fate
    /\ UNCHANGED <<seat, board, made, asked, inbox, published, fetched,
                   nodeVars, relayVars, clientVars, given, quit, misused,
                   faultVars>>

Engine ==
    \/ \E b \in Boards : EnginePlay(b) \/ ManabrewAsk(b) \/ ForgeFetch(b)
    \/ ManabrewTakeAnswer \/ ManabrewReject \/ ManabrewConcede \/ ManabrewTimeout
    \/ ForgeAsk \/ ForgeSubmit \/ ForgeReject \/ ForgeTakeAnswer \/ ForgeTakeConcede

-----------------------------------------------------------------------------
(* What the relay and the client make of an envelope *)

Online == client \in {"on", "back"}

\* GameReplayCache::observe. A patch is folded into whatever board is cached,
\* and lends it its own fingerprint.
Observed(env) ==
    CASE env.kind = "state" -> [board |-> env.board, label |-> env.label]
      [] env.kind = "stateDelta" /\ cache # None ->
            [board |-> Apply(cache.board, env.patch), label |-> env.label]
      [] OTHER -> cache

\* Broken: every client is sent the patch.
ShapeRaw(env, cached) == env

\* The seat of an old client is sent the folded board, if there is one. A bot
\* is our own code and never the reason to fold.
Shape(env, cached) ==
    IF /\ env.kind = "stateDelta"
       /\ ~seat.applies /\ ~seat.local
       /\ cached # None
    THEN [kind |-> "state", board |-> cached.board, label |-> cached.label]
    ELSE env

\* The client takes a whole board as its base, applies a patch to the base it
\* was made for, and drops any other patch together with its base.
ShownBoard(env) ==
    CASE env.kind = "state" -> env.board
      [] env.kind = "stateDelta" /\ seat.applies /\ baseLabel = env.base ->
            Apply(view, env.patch)
      [] OTHER -> view

NextBase(env) ==
    IF ~seat.applies THEN None
    ELSE CASE env.kind = "state" -> env.label
           [] env.kind = "stateDelta" ->
                 IF baseLabel = env.base THEN env.label ELSE None
           [] OTHER -> baseLabel

ShownPrompt(env) ==
    IF env.kind = "prompt" /\ ~selfConceded THEN env.id ELSE held

ClientTakes(env) ==
    IF Online
    THEN /\ view' = ShownBoard(env)
         /\ baseLabel' = NextBase(env)
         /\ held' = ShownPrompt(env)
    ELSE UNCHANGED <<view, baseLabel, held>>

\* The engine-output half of BroadcastState: any output acknowledges all the
\* inputs retained for the host.
RelayTakes(env) ==
    /\ retained' = <<>>
    /\ cache' = Observed(env)
    /\ pending' = IF env.kind = "prompt" THEN env.id ELSE pending
    /\ ClientTakes(Shape(env, cache'))

-----------------------------------------------------------------------------
(* The node and its link *)

FaultsSoFar == drops + clientDrops + restarts

\* An envelope sent before the node notices that its link is dead is lost.
NodeSend ==
    /\ link \in {"up", "dead"}
    /\ ~forgetting
    /\ outbound # <<>>
    /\ outbound' = Tail(outbound)
    /\ IF link = "up"
       THEN RelayTakes(Head(outbound))
       ELSE UNCHANGED <<retained, cache, pending, view, baseLabel, held>>
    /\ UNCHANGED <<seat, engineVars, snapPrompt, botAnswered, forgetting,
                   replay, link, hostUp, known, wire, client, selfConceded,
                   historyVars, faultVars>>

\* route_remote_response, first half: the relay's copy of an answer the node
\* gave itself is dropped, any other is handed to the engine.
NodeReceiveResponse ==
    /\ link \in {"up", "resuming"}
    /\ ~forgetting
    /\ wire # <<>>
    /\ Head(wire) \in Responses
    /\ wire' = Tail(wire)
    /\ IF seat.local /\ Head(wire).id <= botAnswered
       THEN UNCHANGED <<inbox, forgetting>>
       ELSE /\ inbox' = Append(inbox, Head(wire))
            /\ forgetting' = TRUE
    /\ UNCHANGED <<seat, board, made, asked, waiting, conceded, forgeVars,
                   snapPrompt, botAnswered, outbound, replay, link, hostUp,
                   known, cache, pending, retained, clientVars, historyVars,
                   faultVars>>

\* route_remote_response, second half, after the engine session is unlocked:
\* whatever prompt the snapshot holds by now is forgotten.
NodeForgetPrompt ==
    /\ forgetting
    /\ forgetting' = FALSE
    /\ snapPrompt' = 0
    /\ UNCHANGED <<seat, engineVars, botAnswered, outbound, replay, link,
                   relayVars, clientVars, historyVars, faultVars>>

\* Broken: whatever is no response is handed to the engine.
NodeReceiveOther ==
    /\ link \in {"up", "resuming"}
    /\ ~forgetting
    /\ wire # <<>>
    /\ Head(wire) \notin Responses
    /\ wire' = Tail(wire)
    /\ inbox' = Append(inbox, Head(wire))
    /\ UNCHANGED <<seat, board, made, asked, waiting, conceded, forgeVars,
                   nodeVars, hostUp, known, cache, pending, retained,
                   clientVars, historyVars, faultVars>>

NodeReceiveConcede ==
    /\ link \in {"up", "resuming"}
    /\ ~forgetting
    /\ wire # <<>>
    /\ Head(wire) = Concede
    /\ wire' = Tail(wire)
    /\ inbox' = Append(inbox, Concede)
    /\ UNCHANGED <<seat, board, made, asked, waiting, conceded, forgeVars,
                   nodeVars, hostUp, known, cache, pending, retained,
                   clientVars, historyVars, faultVars>>

\* Broken: the board alone is sent again.
ResumeBoardOnly ==
    /\ link = "resuming"
    /\ ~forgetting
    /\ wire # <<>>
    /\ Head(wire) = Resumed
    /\ wire' = Tail(wire)
    /\ replay' = IF made = 0 THEN <<>> ELSE <<State(board)>>
    /\ link' = "replaying"
    /\ UNCHANGED <<seat, engineVars, snapPrompt, botAnswered, forgetting,
                   outbound, hostUp, known, cache, pending, retained,
                   clientVars, historyVars, faultVars>>

\* RoomResumed: the node sends its whole snapshot before it goes back to the
\* outbound queue.
NodeResumed ==
    /\ link = "resuming"
    /\ ~forgetting
    /\ wire # <<>>
    /\ Head(wire) = Resumed
    /\ wire' = Tail(wire)
    /\ replay' = (IF made = 0 THEN <<>> ELSE <<State(board)>>)
                    \o (IF snapPrompt = 0 THEN <<>> ELSE <<Prompt(snapPrompt)>>)
    /\ link' = "replaying"
    /\ UNCHANGED <<seat, engineVars, snapPrompt, botAnswered, forgetting,
                   outbound, hostUp, known, cache, pending, retained,
                   clientVars, historyVars, faultVars>>

NodeReplay ==
    /\ link = "replaying"
    /\ IF replay = <<>>
       THEN /\ link' = "up"
            /\ UNCHANGED <<replay, retained, cache, pending, view, baseLabel,
                           held>>
       ELSE /\ RelayTakes(Head(replay))
            /\ replay' = Tail(replay)
            /\ UNCHANGED link
    /\ UNCHANGED <<seat, engineVars, snapPrompt, botAnswered, forgetting,
                   outbound, hostUp, known, wire, client, selfConceded,
                   historyVars, faultVars>>

\* The link breaks; what is on it is lost, and neither end knows yet.
LinkBreak ==
    /\ link \in {"up", "resuming", "replaying"}
    /\ drops < MaxDrops
    /\ FaultsSoFar < MaxFaults
    /\ drops' = drops + 1
    /\ link' = "dead"
    /\ replay' = <<>>
    /\ wire' = <<>>
    /\ UNCHANGED <<seat, engineVars, snapPrompt, botAnswered, forgetting,
                   outbound, hostUp, known, cache, pending, retained,
                   clientVars, historyVars, clientDrops, restarts>>

NodeNotices ==
    /\ link = "dead"
    /\ ~forgetting
    /\ link' = "down"
    /\ UNCHANGED <<seat, engineVars, snapPrompt, botAnswered, forgetting,
                   outbound, replay, relayVars, clientVars, historyVars,
                   faultVars>>

RelayNoticesHostDrop ==
    /\ hostUp
    /\ link \in {"dead", "down"}
    /\ hostUp' = FALSE
    /\ UNCHANGED <<seat, engineVars, nodeVars, known, cache, pending, retained,
                   wire, clientVars, historyVars, faultVars>>

\* Authenticate and ResumeRoom: the relay delivers the retained inputs to the
\* reclaimed session, then confirms the resume. A room it lost is resurrected
\* with an empty cache.
NodeReconnect ==
    /\ link = "down"
    /\ link' = "resuming"
    /\ hostUp' = TRUE
    /\ known' = TRUE
    /\ wire' = Append(retained, Resumed)
    /\ UNCHANGED <<seat, engineVars, snapPrompt, botAnswered, forgetting,
                   outbound, replay, cache, pending, retained, clientVars,
                   historyVars, faultVars>>

\* Rooms, caches and sessions are in memory only.
RelayRestart ==
    /\ restarts < MaxRestarts
    /\ FaultsSoFar < MaxFaults
    /\ restarts' = restarts + 1
    /\ hostUp' = FALSE /\ known' = FALSE
    /\ cache' = None /\ pending' = 0 /\ retained' = <<>> /\ wire' = <<>>
    /\ link' = IF link = "down" THEN "down" ELSE "dead"
    /\ replay' = <<>>
    /\ client' = "off"
    /\ UNCHANGED <<seat, engineVars, snapPrompt, botAnswered, forgetting,
                   outbound, view, baseLabel, held, selfConceded, historyVars,
                   drops, clientDrops>>

Node ==
    \/ NodeSend \/ NodeReceiveResponse \/ NodeForgetPrompt \/ NodeReceiveConcede
    \/ NodeResumed \/ NodeReplay \/ NodeNotices \/ NodeReconnect

-----------------------------------------------------------------------------
(* The client *)

\* The player half of BroadcastState: an input is retained whatever happens, and
\* delivered if the room counts its host as connected. On a dead link it is lost.
Accepted(input) ==
    /\ retained' = Append(retained, input)
    /\ wire' = IF hostUp /\ link \notin {"dead", "down"} THEN Append(wire, input)
               ELSE wire

\* Broken: an answered prompt stays on the screen.
ClientAnswerTwice ==
    /\ Online
    /\ held # 0
    /\ Accepted(Response(held))
    /\ pending' = 0
    /\ given' = given \cup {held}
    /\ UNCHANGED <<seat, engineVars, nodeVars, hostUp, known, cache, client,
                   view, baseLabel, held, selfConceded, fate, quit, misused,
                   faultVars>>

\* A response leaves no prompt cached, whichever prompt it answers.
ClientAnswer ==
    /\ Online
    /\ held # 0
    /\ Accepted(Response(held))
    /\ pending' = 0
    /\ held' = 0
    /\ given' = given \cup {held}
    /\ UNCHANGED <<seat, engineVars, nodeVars, hostUp, known, cache, client,
                   view, baseLabel, selfConceded, fate, quit, misused,
                   faultVars>>

ClientAnswerLost ==
    /\ ~Online
    /\ held # 0
    /\ held' = 0
    /\ UNCHANGED <<seat, engineVars, nodeVars, relayVars, client, view,
                   baseLabel, selfConceded, historyVars, faultVars>>

\* From here on the client shows no prompt.
ClientConcede ==
    /\ ~seat.local
    /\ ~selfConceded
    /\ selfConceded' = TRUE
    /\ held' = 0
    /\ IF Online THEN Accepted(Concede) /\ quit' = TRUE
                 ELSE UNCHANGED <<retained, wire, quit>>
    /\ UNCHANGED <<seat, engineVars, nodeVars, hostUp, known, cache, pending,
                   client, view, baseLabel, fate, given, misused, faultVars>>

ClientDrop ==
    /\ Online
    /\ clientDrops < MaxClientDrops
    /\ FaultsSoFar < MaxFaults
    /\ clientDrops' = clientDrops + 1
    /\ client' = "off"
    /\ UNCHANGED <<seat, engineVars, nodeVars, relayVars, view, baseLabel, held,
                   selfConceded, historyVars, drops, restarts>>

\* The client is back in its seat: from now on it is sent what the node sends.
ClientReturn ==
    /\ client = "off"
    /\ known
    /\ client' = "back"
    /\ UNCHANGED <<seat, engineVars, nodeVars, relayVars, view, baseLabel, held,
                   selfConceded, historyVars, faultVars>>

\* RequestResync: the relay answers with the start of the game, at which the client
\* forgets its base, and with the cached board and prompt.
ClientResync ==
    /\ client = "back"
    /\ client' = "on"
    /\ view' = IF cache = None THEN view ELSE cache.board
    /\ baseLabel' = IF cache # None /\ seat.applies THEN cache.label ELSE None
    /\ held' = IF pending = 0 THEN held ELSE ShownPrompt(Prompt(pending))
    /\ UNCHANGED <<seat, engineVars, nodeVars, relayVars, selfConceded,
                   historyVars, faultVars>>

Client ==
    \/ ClientAnswer \/ ClientAnswerLost \/ ClientConcede
    \/ ClientReturn \/ ClientResync

Faults == LinkBreak \/ RelayNoticesHostDrop \/ RelayRestart \/ ClientDrop

Next == Engine \/ Node \/ Client \/ Faults

Spec == Init /\ [][Next]_vars

\* The engine thread runs, and the 120 s of its transport pass.
FairSpec == Spec /\ WF_vars(Engine)

-----------------------------------------------------------------------------
(* Properties *)

Docs == Boards \cup {<<>>}

PromptIds == 0..MaxPrompts

\* The folds of boards out of order may hold any elements.
Folds == Seq(Element)

Envelope(env) ==
    \/ env = Error
    \/ env.kind = "prompt" /\ env.id \in Prompts
    \/ env.kind = "state" /\ env.board \in Docs /\ env.label \in Docs
    \/ env.kind = "stateDelta" /\ env.base \in Docs /\ env.label \in Docs

\* The type invariant.
TypeOK ==
    /\ seat \in Seats
    /\ board \in Docs /\ made \in 0..MaxBoards /\ asked \in PromptIds
    /\ waiting \in BOOLEAN /\ conceded \in BOOLEAN /\ inbox \in Seq(Inputs)
    /\ published \in PromptIds /\ fetched \in PromptIds /\ actions \in Seq(Inputs)
    /\ snapPrompt \in PromptIds /\ botAnswered \in PromptIds
    /\ forgetting \in BOOLEAN
    /\ \A i \in DOMAIN outbound : Envelope(outbound[i])
    /\ \A i \in DOMAIN replay : Envelope(replay[i])
    /\ link \in {"up", "dead", "down", "resuming", "replaying"}
    /\ hostUp \in BOOLEAN /\ known \in BOOLEAN
    /\ \/ cache = None
       \/ cache.board \in Folds /\ cache.label \in Docs
    /\ pending \in PromptIds
    /\ retained \in Seq(Inputs) /\ wire \in Seq(Inputs \cup {Resumed})
    /\ client \in {"on", "off", "back"}
    /\ view = None \/ view \in Folds
    /\ baseLabel = None \/ baseLabel \in Docs
    /\ held \in PromptIds /\ selfConceded \in BOOLEAN
    /\ fate \in [Prompts -> {"unasked", "open", "answered", "passed"}]
    /\ given \subseteq Prompts /\ quit \in BOOLEAN /\ misused \in BOOLEAN
    /\ drops \in 0..MaxDrops /\ clientDrops \in 0..MaxClientDrops
    /\ restarts \in 0..MaxRestarts

\* The node is attached and has handed the relay everything it had to send.
Settled == link = "up" /\ outbound = <<>>

\* Once the node has nothing left to send, the board the relay would hand to a
\* client that asks for it is the engine's, under its own fingerprint: through
\* patches lost with a dead link, through a restart of the relay, and through
\* patches that were queued before a resume and fold into the newer board the
\* resume sent ahead of them (host.rs, reestablish_room; replay.rs, observe).
RelayBoardCurrent ==
    (Settled /\ made > 0) => cache = [board |-> board, label |-> board]

\* A client that is online shows the engine's board once the node has nothing
\* left to send, whatever happened to its own connection, and an old client
\* whatever happened to the node's as well. A client that takes patches may
\* stay behind after a break of the node's link (BoardRecovers below).
ClientBoardCurrent ==
    (/\ Settled /\ made > 0 /\ client = "on"
     /\ drops + restarts = 0 \/ ~(seat.applies \/ seat.local))
        => view = board

\* A prompt nobody has answered is on offer: while the snapshot holds it and no
\* input is under way, the relay has it cached and an online client shows it.
OpenPromptShown ==
    (/\ Settled /\ waiting /\ asked \notin given
     /\ snapPrompt = asked /\ ~forgetting
     /\ inbox = <<>> /\ wire = <<>>)
        => /\ pending = asked
           /\ client = "on" /\ ~selfConceded => held = asked

\* The engine of a local bot's seat gets one answer to each prompt, the node's
\* own: the copy the bot's connection sends through the relay, once, twice or
\* late, never reaches it (host.rs, is_local_bot_duplicate).
LocalBotOnce ==
    (seat.local /\ inbox \o actions # <<>>)
        => waiting /\ inbox \o actions = <<Response(asked)>>

\* Forge: an answer closes a prompt it was not given to only where an input can
\* have been delivered twice, by a retained input or a prompt shown again.
MisuseNeedsReplay == misused => FaultsSoFar > 0

\* What the seat is promised about its prompts. The Rust engine keeps it.
Ledger == INSTANCE PromptLedger WITH out <- conceded

KeepsLedger == Ledger!Spec

\* The Rust engine never waits for a seat for ever: an answer, a concession or
\* the transport's timeout ends the wait, and only finitely many stale answers
\* can start it again.
SeatNeverStalls == waiting ~> ~waiting

-----------------------------------------------------------------------------
(* What the code says of itself and does not keep *)

\* "Dropping it leaves the board as it was rather than showing a wrong one; the
\* next full state, on resume or the next game, recovers" (platform/web.ts):
\* the full state of a resume is followed by the patches queued before it.
BoardRecovers ==
    (Settled /\ made > 0 /\ client = "on") => view = board

=============================================================================
