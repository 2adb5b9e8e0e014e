------------------------------- MODULE Draft -------------------------------
(* A multiplayer booster draft: the pod in the host's browser                 *)
(* (forge-limited/booster_draft.rs behind wasm/limited_api.rs), the host's     *)
(* side of the protocol (src/game/draftHost.ts) and the peers' (draftPeer.ts,  *)
(* useMultiplayerDraftStore.ts). The relay only forwards: it sends a message   *)
(* of one client to the connected others in order, and keeps none.             *)
(*                                                                             *)
(* Abstractions. A card is its name, and a pack may hold two of a name. Which  *)
(* card a bot takes is open. The host applies picks one at a time and its      *)
(* engine is single-threaded: while a pick is applied nothing else moves.      *)
EXTENDS Integers, Sequences, FiniteSets, SequencesExt

CONSTANTS
    Cards,         \* the names of cards
    NoCard,        \* no card is chosen
    Packs,         \* the packs the product opens
    PackSize,      \* cards in a pack
    PodSize,       \* seats
    NumHumans,     \* the first seats are people's, the host's is seat 0
    Rounds,
    PicksPerPass,  \* cards a seat takes before it passes the pack
    MaxSpare,      \* bound: picks beyond one per card a person gets
    MaxLost        \* bound: messages lost to a connection that is down

ASSUME DraftAssumption ==
    /\ NoCard \notin Cards
    /\ PackSize \in Nat \ {0}
    /\ Packs \subseteq {p \in Seq(Cards) : Len(p) = PackSize}
    /\ PodSize \in Nat /\ PodSize >= 2
    /\ NumHumans \in 1..PodSize
    /\ Rounds \in Nat \ {0} /\ PicksPerPass \in Nat \ {0}
    /\ MaxSpare \in Nat /\ MaxLost \in Nat

Seats == 0..PodSize - 1
Humans == 0..NumHumans - 1
Peers == Humans \ {0}

VARIABLES
    \* the pod
    round,      \* the round being drafted
    queue,      \* the packs before each seat, the first one open
    picked,     \* the cards each seat has taken
    pending,    \* the pick a person has submitted and the pod not yet taken
    phase,      \* where a tick is: idle, at its head, or at a seat
    cursor,     \* the seat whose turn it is in the current sweep
    progress,   \* somebody has taken a card in the current sweep
    \* the host and its channels
    active,     \* the host runs the draft
    sent,       \* picks on their way to the pod, by seat
    inbox,      \* messages on their way to each peer
    \* the clients
    view,       \* the state each person sees
    waiting,    \* pickPending: a pick is out, no other can be made
    done,       \* the draft is complete on this person's screen
    \* history
    dealt,      \* how many copies of a card have been opened
    chosen,     \* the cards a person has chosen from, by number of the pick
    spare, lost

podVars == <<round, queue, picked, pending, phase, cursor, progress, dealt>>
clientVars == <<view, waiting, done>>
faultVars == <<spare, lost>>
vars == <<podVars, active, sent, inbox, clientVars, chosen, faultVars>>

Numbers == 1..Rounds * PackSize

\* How many copies of a card the packs opened at all seats hold.
Opened(open, c) ==
    Cardinality({x \in Seats \X (1..PackSize) : open[x[1]][x[2]] = c})

Fresh(cards) == [cards |-> cards, left |-> PicksPerPass]

-----------------------------------------------------------------------------
(* What a seat sees of the pod (DraftStateDto::from_engine_for_seat). *)

NoPacks == \A s \in Seats : queue[s] = <<>>

Blank == [number |-> 1, round |-> 1, pack |-> <<>>, open |-> FALSE]

StateOf(s) ==
    [number |-> Len(picked[s]) + 1,
     round |-> round,
     pack |-> IF queue[s] = <<>> THEN <<>> ELSE Head(queue[s]).cards,
     open |-> ~NoPacks]

\* A person may click a card of the pack on the screen.
CanPick(s) ==
    ~done[s] /\ ~waiting[s] /\ view[s].open /\ view[s].pack # <<>>

-----------------------------------------------------------------------------
(* Initial state: the host has dealt the first round, and the first tick has  *)
(* returned at once, because the host has a pack and no pick.                 *)

Init ==
    /\ round = 1
    /\ queue \in [Seats -> {<<Fresh(p)>> : p \in Packs}]
    /\ picked = [s \in Seats |-> <<>>]
    /\ pending = [s \in Humans |-> NoCard]
    /\ phase = "idle" /\ cursor = 0 /\ progress = FALSE
    /\ active = TRUE
    /\ sent = [s \in Humans |-> <<>>]
    /\ inbox = [s \in Peers |-> <<StateOf(s)>>]
    /\ view = [s \in Humans |-> IF s = 0 THEN StateOf(0) ELSE Blank]
    /\ waiting = [s \in Humans |-> FALSE]
    /\ done = [s \in Humans |-> FALSE]
    /\ dealt = [c \in Cards |-> Opened([s \in Seats |-> queue[s][1].cards], c)]
    /\ chosen = [s \in Humans |-> [n \in Numbers |-> {}]]
    /\ spare = 0 /\ lost = 0

-----------------------------------------------------------------------------
(* People and their connections *)

\* handlePick, submitHostPick, submitPeerPick: the pick carries the round and
\* the number it was made for.
Pick(s, c) ==
    /\ CanPick(s)
    /\ c \in ToSet(view[s].pack)
    /\ LET n == view[s].number
       IN  /\ chosen[s][n] # {} => spare < MaxSpare
           /\ spare' = IF chosen[s][n] # {} THEN spare + 1 ELSE spare
           /\ chosen' = [chosen EXCEPT ![s][n] = @ \cup {c}]
           /\ sent' = [sent EXCEPT ![s] =
                         Append(@, [card |-> c, round |-> view[s].round,
                                    number |-> n])]
    /\ waiting' = [waiting EXCEPT ![s] = TRUE]
    /\ UNCHANGED <<podVars, active, inbox, view, done, lost>>

\* A peer's connection is down when its pick is sent, or when the relay sends
\* it a message: either is dropped, and nobody told.
LosePick(s) ==
    /\ sent[s] # <<>>
    /\ lost < MaxLost
    /\ lost' = lost + 1
    /\ sent' = [sent EXCEPT ![s] = Tail(@)]
    /\ UNCHANGED <<podVars, active, inbox, clientVars, chosen, spare>>

LoseMessage(s) ==
    /\ inbox[s] # <<>>
    /\ lost < MaxLost
    /\ lost' = lost + 1
    /\ inbox' = [inbox EXCEPT ![s] = Tail(@)]
    /\ UNCHANGED <<podVars, active, sent, clientVars, chosen, spare>>

Completed == [number |-> 0, round |-> Rounds, pack |-> <<>>, open |-> FALSE]

\* Broken: a new state leaves the last pick pending.
DeliverPending(s) ==
    /\ inbox[s] # <<>>
    /\ inbox' = [inbox EXCEPT ![s] = Tail(@)]
    /\ IF Head(inbox[s]) = Completed
       THEN done' = [done EXCEPT ![s] = TRUE] /\ view' = view
       ELSE view' = [view EXCEPT ![s] = Head(inbox[s])] /\ done' = done
    /\ UNCHANGED <<podVars, active, sent, waiting, chosen, faultVars>>

\* handleStateUpdate, or complete.
Deliver(s) ==
    /\ inbox[s] # <<>>
    /\ inbox' = [inbox EXCEPT ![s] = Tail(@)]
    /\ IF Head(inbox[s]) = Completed
       THEN done' = [done EXCEPT ![s] = TRUE] /\ view' = view
       ELSE view' = [view EXCEPT ![s] = Head(inbox[s])] /\ done' = done
    /\ waiting' = [waiting EXCEPT ![s] = FALSE]
    /\ UNCHANGED <<podVars, active, sent, chosen, faultVars>>

-----------------------------------------------------------------------------
(* The host applies a pick *)

\* broadcastPerSeatStates, and setLocalState for the host.
Show ==
    /\ inbox' = [s \in Peers |-> Append(inbox[s], StateOf(s))]
    /\ view' = [view EXCEPT ![0] = StateOf(0)]
    /\ waiting' = [waiting EXCEPT ![0] = FALSE]

TakesNext(s) == active /\ phase = "idle" /\ sent[s] # <<>>

Stale(s, pick) == pick.round # round \/ pick.number # Len(picked[s]) + 1

InPack(s, c) == queue[s] # <<>> /\ c \in ToSet(Head(queue[s]).cards)

\* Made for another pack than the one before the seat: dropped. Only the host
\* may pick again at once.
DropStale(s) ==
    /\ TakesNext(s)
    /\ Stale(s, Head(sent[s]))
    /\ sent' = [sent EXCEPT ![s] = Tail(@)]
    /\ waiting' = IF s = 0 THEN [waiting EXCEPT ![0] = FALSE] ELSE waiting
    /\ UNCHANGED <<podVars, active, inbox, view, done, chosen, faultVars>>

\* Broken: the pod takes any pick for the card's name alone.
SubmitStale(s) ==
    /\ TakesNext(s)
    /\ InPack(s, Head(sent[s]).card)
    /\ sent' = [sent EXCEPT ![s] = Tail(@)]
    /\ pending' = [pending EXCEPT ![s] = Head(sent[s]).card]
    /\ phase' = "head"
    /\ UNCHANGED <<round, queue, picked, cursor, progress, dealt, active, inbox,
                   clientVars, chosen, faultVars>>

\* limited_submit_pick: the pod keeps the pick, in place of an earlier one it
\* has not taken yet, and ticks. It would refuse a pick of a card that is not
\* in the pack; there is none (PickFits).
Submit(s) ==
    /\ TakesNext(s)
    /\ ~Stale(s, Head(sent[s]))
    /\ InPack(s, Head(sent[s]).card)
    /\ sent' = [sent EXCEPT ![s] = Tail(@)]
    /\ pending' = [pending EXCEPT ![s] = Head(sent[s]).card]
    /\ phase' = "head"
    /\ UNCHANGED <<round, queue, picked, cursor, progress, dealt, active, inbox,
                   clientVars, chosen, faultVars>>

-----------------------------------------------------------------------------
(* BoosterDraft::tick *)

\* The tick returns, and the host shows everybody where the draft stands.
Return ==
    /\ phase' = "idle"
    /\ cursor' = 0
    /\ progress' = FALSE
    /\ Show

Awaited == {s \in Humans : queue[s] # <<>> /\ pending[s] = NoCard}

\* A sweep starts when every person with a pack has submitted a pick.
AwaitHumans ==
    /\ phase = "head"
    /\ Awaited # {}
    /\ Return
    /\ UNCHANGED <<round, queue, picked, pending, dealt, active, sent, done,
                   chosen, faultVars>>

StartSweep ==
    /\ phase = "head"
    /\ Awaited = {}
    /\ phase' = "sweep"
    /\ UNCHANGED <<round, queue, picked, pending, cursor, progress, dealt,
                   active, sent, inbox, clientVars, chosen, faultVars>>

AtSeat == phase = "sweep" /\ cursor < PodSize

Pack == Head(queue[cursor])

\* Broken: the picks left in a pack are not counted.
MayTakeAll == queue[cursor] # <<>> /\ Pack.cards # <<>>

MayTake == queue[cursor] # <<>> /\ Pack.cards # <<>> /\ Pack.left # 0

\* Broken: the pick stays with the agent that made it.
TakeKeepsPick(c) ==
    /\ AtSeat /\ MayTake
    /\ IF cursor \in Humans THEN c = pending[cursor] ELSE c \in ToSet(Pack.cards)
    /\ queue' = [queue EXCEPT ![cursor][1].cards = RemoveFirst(@, c),
                              ![cursor][1].left = @ - 1]
    /\ picked' = [picked EXCEPT ![cursor] = Append(@, c)]
    /\ pending' = pending
    /\ progress' = TRUE
    /\ UNCHANGED <<round, phase, cursor, dealt, active, sent, inbox, clientVars,
                   chosen, faultVars>>

\* The card an agent asks for, or the first one if the pack does not hold it.
TakeCard(c) ==
    /\ AtSeat /\ MayTake
    /\ IF cursor \in Humans THEN c = pending[cursor] /\ c # NoCard
                            ELSE c \in ToSet(Pack.cards)
    /\ LET card == IF c \in ToSet(Pack.cards) THEN c ELSE Head(Pack.cards)
       IN  /\ queue' = [queue EXCEPT ![cursor][1].cards = RemoveFirst(@, card),
                                     ![cursor][1].left = @ - 1]
           /\ picked' = [picked EXCEPT ![cursor] = Append(@, card)]
    /\ pending' = IF cursor \in Humans THEN [pending EXCEPT ![cursor] = NoCard]
                  ELSE pending
    /\ progress' = TRUE
    /\ UNCHANGED <<round, phase, cursor, dealt, active, sent, inbox, clientVars,
                   chosen, faultVars>>

\* Broken: the pack in hand is not put back.
AwaitSecondDropped ==
    /\ AtSeat /\ MayTake
    /\ cursor \in Humans
    /\ pending[cursor] = NoCard
    /\ queue' = [queue EXCEPT ![cursor] = Tail(@)]
    /\ Return
    /\ UNCHANGED <<round, picked, pending, dealt, active, sent, done, chosen,
                   faultVars>>

\* A person with one more card to take from the same pack: the tick returns in
\* the middle of its sweep, and the next one starts from the first seat again.
AwaitSecondPick ==
    /\ AtSeat /\ MayTake
    /\ cursor \in Humans
    /\ pending[cursor] = NoCard
    /\ Return
    /\ UNCHANGED <<round, queue, picked, pending, dealt, active, sent, done,
                   chosen, faultVars>>

\* Broken: the ring is one seat short.
ShortNeighbor(s) ==
    IF round % 2 = 1 THEN (s + 1) % (PodSize - 1) ELSE (s + PodSize - 1) % PodSize

\* Left in the odd rounds, right in the even ones.
Neighbor(s) ==
    IF round % 2 = 1 THEN (s + 1) % PodSize ELSE (s + PodSize - 1) % PodSize

\* An empty pack is gone; any other goes to the neighbour.
PassPack ==
    /\ AtSeat
    /\ ~MayTake
    /\ queue' =
         IF queue[cursor] = <<>> THEN queue
         ELSE LET rest == [queue EXCEPT ![cursor] = Tail(@)]
              IN  IF Pack.cards = <<>> THEN rest
                  ELSE [rest EXCEPT ![Neighbor(cursor)] =
                          Append(@, Fresh(Pack.cards))]
    /\ cursor' = cursor + 1
    /\ UNCHANGED <<round, picked, pending, phase, progress, dealt, active, sent,
                   inbox, clientVars, chosen, faultVars>>

SweepEnds == phase = "sweep" /\ cursor = PodSize

\* Somebody took a card: a sweep starts with a pack that is not empty, and every
\* pack in front of a person has a pick.
NextSweep ==
    /\ SweepEnds
    /\ progress /\ ~NoPacks
    /\ phase' = "head"
    /\ cursor' = 0
    /\ progress' = FALSE
    /\ UNCHANGED <<round, queue, picked, pending, dealt, active, sent, inbox,
                   clientVars, chosen, faultVars>>

\* RoundOver, start_round: every seat opens a pack.
StartRound ==
    /\ SweepEnds
    /\ progress /\ NoPacks
    /\ round < Rounds
    /\ round' = round + 1
    /\ \E open \in [Seats -> Packs] :
          /\ queue' = [s \in Seats |-> <<Fresh(open[s])>>]
          /\ dealt' = [c \in Cards |-> dealt[c] + Opened(open, c)]
    /\ phase' = "head"
    /\ cursor' = 0
    /\ progress' = FALSE
    /\ UNCHANGED <<picked, pending, active, sent, inbox, clientVars, chosen,
                   faultVars>>

\* Complete, finishDraft: the last states, then the pools (which mark the draft
\* as complete), and the host ends the draft.
Finish ==
    /\ SweepEnds
    /\ progress /\ NoPacks
    /\ round = Rounds
    /\ phase' = "idle" /\ cursor' = 0 /\ progress' = FALSE
    /\ active' = FALSE
    /\ inbox' = [s \in Peers |-> inbox[s] \o <<StateOf(s), Completed>>]
    /\ view' = [view EXCEPT ![0] = StateOf(0)]
    /\ waiting' = [waiting EXCEPT ![0] = FALSE]
    /\ done' = [done EXCEPT ![0] = TRUE]
    /\ UNCHANGED <<round, queue, picked, pending, dealt, sent, chosen, faultVars>>

Tick ==
    \/ AwaitHumans \/ StartSweep \/ AwaitSecondPick \/ PassPack
    \/ \E c \in Cards : TakeCard(c)
    \/ NextSweep \/ StartRound \/ Finish

HostStep == Tick \/ \E s \in Humans : DropStale(s) \/ Submit(s)

\* Nothing happens in the host's browser in the middle of a pick, and what
\* happens elsewhere meanwhile may as well happen after it.
Outside ==
    /\ phase = "idle"
    /\ \/ \E s \in Humans, c \in Cards : Pick(s, c)
       \/ \E s \in Peers : LosePick(s) \/ LoseMessage(s) \/ Deliver(s)

Next == HostStep \/ Outside

Spec == Init /\ [][Next]_vars

\* The host's browser runs, messages arrive, and a person who is awaited and
\* can pick does so in the end.
FairSpec ==
    /\ Spec
    /\ WF_vars(HostStep)
    /\ \A s \in Peers : WF_vars(phase = "idle" /\ Deliver(s))
    /\ \A s \in Humans :
          WF_vars(/\ phase = "idle" /\ s \in Awaited
                  /\ \E c \in Cards : Pick(s, c))

-----------------------------------------------------------------------------
(* Properties *)

\* The type invariant.
TypeOK ==
    /\ round \in 1..Rounds
    /\ \A s \in Seats : \A i \in DOMAIN queue[s] :
          /\ queue[s][i].cards \in Seq(Cards)
          /\ queue[s][i].left \in 0..PicksPerPass
    /\ picked \in [Seats -> Seq(Cards)]
    /\ pending \in [Humans -> Cards \cup {NoCard}]
    /\ phase \in {"idle", "head", "sweep"} /\ cursor \in 0..PodSize
    /\ progress \in BOOLEAN /\ active \in BOOLEAN
    /\ \A s \in Humans : \A i \in DOMAIN sent[s] :
          sent[s][i].card \in Cards /\ sent[s][i].number \in Numbers
    /\ \A s \in Humans : view[s].pack \in Seq(Cards) /\ view[s].round \in 1..Rounds
    /\ waiting \in [Humans -> BOOLEAN] /\ done \in [Humans -> BOOLEAN]
    /\ chosen \in [Humans -> [Numbers -> SUBSET Cards]]
    /\ spare \in 0..MaxSpare /\ lost \in 0..MaxLost

\* The piles a card may lie in: pile 0 of a seat is what it has taken, the
\* others are the packs before it.
Piles == UNION {{s} \X (0..Len(queue[s])) : s \in Seats}

Pile(p) == IF p[2] = 0 THEN picked[p[1]] ELSE queue[p[1]][p[2]].cards

Places(cards, c) == {i \in DOMAIN cards : cards[i] = c}

\* Where the copies of a card are, place by place.
Copies(c) == UNION {{p} \X Places(Pile(p), c) : p \in Piles}

\* No card is lost or doubled, at any point of a tick: what was opened is in a
\* pack in front of a seat or with the seat that took it.
CardsConserved == \A c \in Cards : dealt[c] = Cardinality(Copies(c))

\* A pick that passes the test for staleness is a card of the open pack, and
\* stays one until the pod takes it, however many ticks return in between: no
\* pick is refused, and nobody is given the first card of a pack for one that
\* has gone (limited_submit_pick; tick, actual_pick).
PickFits ==
    \A s \in Humans :
        /\ pending[s] # NoCard => InPack(s, pending[s])
        /\ active /\ phase = "idle" =>
              \A i \in DOMAIN sent[s] :
                  ~Stale(s, sent[s][i]) => InPack(s, sent[s][i].card)

\* A person gets only cards they chose from that very pack: a late or repeated
\* pick is not used up on a later pack that holds a card of the same name.
AsChosen ==
    \A s \in Humans : \A n \in DOMAIN picked[s] : picked[s][n] \in chosen[s][n]

\* At the end of each round all seats have taken the same number of cards,
\* although the sweeps are cut short by people who take several from a pack.
EvenShares ==
    NoPacks => \A s \in Seats : Len(picked[s]) = round * PackSize

\* As long as no message is lost, the draft never waits for a person who
\* cannot pick: when everything sent has arrived, each person it waits for has
\* the open pack on the screen and may click.
AwaitedCanPick ==
    (lost = 0 /\ active /\ phase = "idle" /\ \A s \in Humans : sent[s] = <<>>)
        => \A s \in Awaited :
              (s \in Peers => inbox[s] = <<>>) => CanPick(s) /\ view[s] = StateOf(s)

\* Without losses the draft comes to its end on every screen.
DraftCompletes == <>(lost > 0 \/ \A s \in Humans : done[s])

=============================================================================
