-------------------------- MODULE SeatStreamProofs --------------------------
(* For any boards, any seat and any bounds. With the Rust engine, the traffic  *)
(* of a seat implements PromptLedger: whatever is lost, repeated or late on    *)
(* the way, a prompt is closed once, by this seat's own answer to it or by a   *)
(* pass, and a seat is out only because it conceded. With either engine, a     *)
(* prompt nobody has answered is on offer once the node has nothing left to    *)
(* send, a local bot answers each prompt once, and without a fault no answer   *)
(* closes a prompt it was not given to: the Java engine, which keeps no books  *)
(* of its own, is brought under those of the Rust one.                         *)
EXTENDS SeatStream, TLAPS, SequenceTheorems

\* A prompt on its way to the client is one the engine has opened.
Below(env, n) == env.kind = "prompt" => env.id \in 1..n

Queue(s, n) == \E E : s \in Seq(E) /\ \A e \in E : Below(e, n)

\* An input on its way to the engine is one this seat has given.
Known ==
    {Response(p) : p \in given} \cup (IF quit /\ ~seat.local THEN {Concede} ELSE {})

Asking ==
    /\ asked \in 0..MaxPrompts
    /\ fate \in [Prompts -> {"unasked", "open", "answered", "passed"}]
    /\ given \subseteq 1..asked
    /\ waiting \in BOOLEAN /\ conceded \in BOOLEAN /\ quit \in BOOLEAN
    /\ \A p \in Prompts : fate[p] = "open" <=> (waiting /\ p = asked)
    /\ waiting => asked # 0 /\ ~conceded
    /\ seat.local => ~conceded

Incoming ==
    /\ inbox \in Seq(Known) /\ retained \in Seq(Known)
    /\ wire \in Seq(Known \cup {Resumed})

Outgoing ==
    /\ snapPrompt \in 0..asked /\ pending \in 0..asked /\ held \in 0..asked
    /\ Queue(outbound, asked) /\ Queue(replay, asked)

IInv == Asking /\ Incoming /\ Outgoing

-----------------------------------------------------------------------------
(* Queues of envelopes                                                       *)

LEMMA QueueEmpty ==
  ASSUME NEW n
  PROVE  Queue(<<>>, n)
<1> DEFINE E == {}
<1>1. <<>> \in Seq(E) /\ \A e \in E : Below(e, n)
  OBVIOUS
<1> HIDE DEF E
<1> QED BY <1>1 DEF Queue

LEMMA QueueOne ==
  ASSUME NEW env, NEW n, Below(env, n)
  PROVE  Queue(<<env>>, n)
<1> DEFINE E == {env}
<1>1. <<env>> \in Seq(E) /\ \A e \in E : Below(e, n)
  OBVIOUS
<1> HIDE DEF E
<1> QED BY <1>1 DEF Queue

LEMMA QueueConcat ==
  ASSUME NEW s, NEW t, NEW n, Queue(s, n), Queue(t, n)
  PROVE  Queue(s \o t, n)
<1> PICK E : s \in Seq(E) /\ \A e \in E : Below(e, n)
  BY DEF Queue
<1> PICK F : t \in Seq(F) /\ \A e \in F : Below(e, n)
  BY DEF Queue
<1>1. s \in Seq(E \cup F) /\ t \in Seq(E \cup F)
  BY SeqMonotonic
<1>2. s \o t \in Seq(E \cup F)
  BY <1>1, ConcatProperties
<1> QED BY <1>2 DEF Queue

LEMMA QueueHeadTail ==
  ASSUME NEW s, NEW n, Queue(s, n), s # <<>>
  PROVE  Below(Head(s), n) /\ Queue(Tail(s), n)
<1> PICK E : s \in Seq(E) /\ \A e \in E : Below(e, n)
  BY DEF Queue
<1>1. Head(s) \in E /\ Tail(s) \in Seq(E)
  BY HeadTailProperties
<1> QED BY <1>1 DEF Queue

LEMMA QueueLater ==
  ASSUME NEW s, NEW n \in Nat, Queue(s, n)
  PROVE  Queue(s, n + 1)
<1> PICK E : s \in Seq(E) /\ \A e \in E : Below(e, n)
  BY DEF Queue
<1>1. \A e \in E : Below(e, n + 1)
  BY DEF Below
<1> QED BY <1>1 DEF Queue

LEMMA EmissionQueued ==
  ASSUME NEW b, NEW sent \in Emitted(b), NEW n
  PROVE  Queue(sent, n)
<1>1. Below(Emission(b), n)
  BY DEF Emission, State, Delta, Below
<1>2. sent = <<>> \/ sent = <<Emission(b)>>
  BY DEF Emitted
<1> QED BY <1>1, <1>2, QueueEmpty, QueueOne

LEMMA PromptQueued ==
  ASSUME NEW p \in Nat \ {0}, NEW n \in Nat, p <= n
  PROVE  Queue(<<Prompt(p)>>, n)
<1>1. Below(Prompt(p), n)
  BY DEF Prompt, Below
<1> QED BY <1>1, QueueOne

-----------------------------------------------------------------------------
LEMMA InitIInv == Init => IInv
<1> SUFFICES ASSUME Init PROVE IInv
  OBVIOUS
<1>1. Asking
  <2>1. 0 \in 0..MaxPrompts /\ {} \subseteq 1..0
    BY StreamAssumption
  <2> QED BY <2>1 DEF Init, Asking, Prompts
<1>2. Incoming
  <2>1. \A S : <<>> \in Seq(S)
    OBVIOUS
  <2> QED BY <2>1 DEF Init, Incoming
<1>3. Outgoing
  BY QueueEmpty DEF Init, Outgoing
<1> QED BY <1>1, <1>2, <1>3 DEF IInv

(* A step that leaves the books alone.                                      *)
Books == <<seat, asked, waiting, conceded, fate, given, quit>>

LEMMA BooksKept ==
  ASSUME Asking, UNCHANGED Books
  PROVE  Asking' /\ Known' = Known /\ UNCHANGED Ledger!vars
BY DEF Books, Asking, Known, Ledger!vars

LEMMA IncomingKept ==
  ASSUME Incoming, UNCHANGED Books, UNCHANGED <<inbox, retained, wire>>
  PROVE  Incoming'
BY DEF Books, Incoming, Known

(* What the seat gives only grows.                                          *)
LEMMA KnownGrows ==
  ASSUME given \subseteq given', quit => quit', seat' = seat
  PROVE  Known \subseteq Known'
BY DEF Known

LEMMA IncomingGrows ==
  ASSUME Incoming, Known \subseteq Known',
         UNCHANGED <<inbox, retained, wire>>
  PROVE  Incoming'
<1>1. Known \cup {Resumed} \subseteq Known' \cup {Resumed}
  OBVIOUS
<1> QED BY <1>1, SeqMonotonic DEF Incoming, Resumed

LEMMA InboxTaken ==
  ASSUME Incoming, inbox # <<>>
  PROVE  /\ Head(inbox) \in Known /\ Tail(inbox) \in Seq(Known)
         /\ Head(inbox) \in Responses => Head(inbox).id \in given
         /\ Head(inbox) = Concede => quit /\ ~seat.local
<1>1. Head(inbox) \in Known /\ Tail(inbox) \in Seq(Known)
  BY HeadTailProperties DEF Incoming
<1> QED BY <1>1 DEF Known, Responses, Response, Concede

(* The relay passes an envelope on.                                         *)
LEMMA RelayTakesKeeps ==
  ASSUME Outgoing, NEW env, Below(env, asked), RelayTakes(env)
  PROVE  retained' = <<>> /\ pending' \in 0..asked /\ held' \in 0..asked
<1>1. retained' = <<>> /\ pending' \in 0..asked
  BY DEF RelayTakes, Outgoing, Below
<1> DEFINE shown == Shape(env, cache')
<1>2. shown.kind = "prompt" => shown = env
  BY DEF Shape
<1> HIDE DEF shown
<1>3. held' = ShownPrompt(shown) \/ held' = held
  BY DEF RelayTakes, ClientTakes, shown
<1> QED BY <1>1, <1>2, <1>3 DEF ShownPrompt, Outgoing, Below

-----------------------------------------------------------------------------
(* The engine                                                                *)

LEMMA PlayKeeps ==
  ASSUME IInv, NEW b \in Boards, EnginePlay(b)
  PROVE  IInv' /\ UNCHANGED Ledger!vars
<1>1. UNCHANGED Books /\ UNCHANGED <<inbox, retained, wire>>
  BY DEF EnginePlay, Books, relayVars
<1>2. UNCHANGED <<snapPrompt, pending, held, replay>>
  BY DEF EnginePlay, relayVars, clientVars
<1> PICK sent \in Emitted(b) : outbound' = outbound \o sent
  BY DEF EnginePlay
<1>3. Queue(outbound', asked)
  BY EmissionQueued, QueueConcat DEF IInv, Outgoing
<1> QED BY <1>1, <1>2, <1>3, BooksKept, IncomingKept DEF IInv, Outgoing, Books

(* A prompt is shown, for the first time or again.                          *)
LEMMA PresentKeeps ==
  ASSUME Incoming, Outgoing, NEW p \in Nat \ {0}, p <= asked', asked \in Nat,
         asked' = asked \/ asked' = asked + 1,
         NEW sent, Queue(sent, asked'), NEW box \in Seq(Known),
         Present(p, sent, box), UNCHANGED <<seat, quit>>,
         UNCHANGED <<retained, wire, pending, held>>
  PROVE  Incoming' /\ Outgoing'
<1>1. asked' \in Nat
  OBVIOUS
<1>2. Queue(outbound, asked') /\ Queue(replay, asked')
  BY QueueLater DEF Outgoing
<1>3. Queue(outbound', asked')
  <2>1. Queue(outbound \o sent, asked')
    BY <1>2, QueueConcat
  <2>2. Queue(<<Prompt(p)>>, asked')
    BY <1>1, PromptQueued
  <2> QED BY <2>1, <2>2, QueueConcat DEF Present
<1>4. given' = (IF seat.local THEN given \cup {p} ELSE given)
  BY DEF Present
<1>5. Known \subseteq Known'
  BY <1>4, KnownGrows
<1>6. inbox' \in Seq(Known')
  <2>1. box \in Seq(Known')
    BY <1>5, SeqMonotonic
  <2>2. inbox' = IF seat.local THEN Append(box, Response(p)) ELSE box
    BY DEF Present
  <2>3. CASE seat.local
    <3>1. Response(p) \in Known'
      BY <1>4, <2>3 DEF Known
    <3>2. Append(box, Response(p)) \in Seq(Known')
      BY <2>1, <3>1, AppendProperties
    <3> QED BY <2>2, <2>3, <3>2
  <2> QED BY <2>1, <2>2, <2>3
<1>7. Incoming'
  <2>1. Known \cup {Resumed} \subseteq Known' \cup {Resumed}
    BY <1>5
  <2>2. retained \in Seq(Known') /\ wire \in Seq(Known' \cup {Resumed})
    BY <1>5, <2>1, SeqMonotonic DEF Incoming
  <2> QED BY <1>6, <2>2 DEF Incoming, Resumed
<1>8. Outgoing'
  <2>1. snapPrompt' \in 0..asked'
    BY <1>1 DEF Present
  <2>2. pending' \in 0..asked' /\ held' \in 0..asked' /\ replay' = replay
    BY DEF Outgoing, Present
  <2> QED BY <1>2, <1>3, <2>1, <2>2 DEF Outgoing
<1> QED BY <1>7, <1>8

LEMMA AskKeeps ==
  ASSUME IInv, NEW b \in Boards, ManabrewAsk(b)
  PROVE  IInv' /\ (Ledger!Ask \/ Ledger!AskAnswered)
<1>1. /\ ~waiting /\ asked < MaxPrompts /\ asked' = asked + 1
      /\ waiting' = ~conceded
      /\ fate' = [fate EXCEPT ![asked + 1] =
                      IF conceded THEN "passed" ELSE "open"]
      /\ UNCHANGED <<seat, conceded, quit>>
      /\ UNCHANGED <<retained, wire, pending, held>>
  BY DEF ManabrewAsk, relayVars, clientVars
<1> PICK sent \in Emitted(b) : Present(asked + 1, sent, inbox)
  BY DEF ManabrewAsk
<1>2. asked \in Nat /\ asked + 1 \in Prompts
  BY <1>1, StreamAssumption DEF IInv, Asking, Prompts
<1>3. given' = IF seat.local THEN given \cup {asked + 1} ELSE given
  BY DEF Present
<1>4. Asking'
  <2>1. asked' \in 0..MaxPrompts /\ given' \subseteq 1..asked'
    BY <1>1, <1>2, <1>3, StreamAssumption DEF IInv, Asking
  <2>2. fate' \in [Prompts -> {"unasked", "open", "answered", "passed"}]
    BY <1>1 DEF IInv, Asking
  <2>3. \A p \in Prompts : fate'[p] = "open" <=> (waiting' /\ p = asked')
    BY <1>1, <1>2 DEF IInv, Asking
  <2> QED BY <1>1, <1>2, <2>1, <2>2, <2>3 DEF IInv, Asking
<1>5. Incoming' /\ Outgoing'
  <2>1. Queue(sent, asked')
    BY EmissionQueued
  <2>2. inbox \in Seq(Known)
    BY DEF IInv, Incoming
  <2> QED BY <1>1, <1>2, <2>1, <2>2, PresentKeeps DEF IInv
<1>6. Ledger!NoneOpen
  BY <1>1 DEF IInv, Asking, Ledger!NoneOpen, Ledger!Prompts, Prompts
<1>7. CASE seat.local
  <2>1. ~conceded
    BY <1>7 DEF IInv, Asking
  <2> QED BY <1>1, <1>3, <1>4, <1>5, <1>6, <1>7, <2>1 DEF IInv, Ledger!AskAnswered
<1>8. CASE ~seat.local
  BY <1>1, <1>3, <1>4, <1>5, <1>6, <1>8 DEF IInv, Ledger!Ask
<1> QED BY <1>7, <1>8

LEMMA RejectKeeps ==
  ASSUME IInv, ManabrewReject
  PROVE  IInv' /\ (Ledger!Give(asked) \/ UNCHANGED Ledger!vars)
<1>1. /\ waiting /\ inbox # <<>> /\ Present(asked, <<Error>>, Tail(inbox))
      /\ UNCHANGED <<seat, asked, waiting, conceded, fate, quit>>
      /\ UNCHANGED <<retained, wire, pending, held>>
  BY DEF ManabrewReject, relayVars, clientVars
<1>2. asked \in Nat \ {0}
  BY <1>1, StreamAssumption DEF IInv, Asking
<1>3. given' = IF seat.local THEN given \cup {asked} ELSE given
  BY <1>1 DEF Present
<1>4. Asking'
  BY <1>1, <1>2, <1>3 DEF IInv, Asking
<1>5. Incoming' /\ Outgoing'
  <2>1. Queue(<<Error>>, asked')
    BY QueueOne DEF Error, Below
  <2>2. Tail(inbox) \in Seq(Known)
    BY <1>1, InboxTaken DEF IInv
  <2>3. asked <= asked' /\ asked \in Nat
    BY <1>1, <1>2
  <2> DEFINE sent == <<Error>> box == Tail(inbox)
  <2>4. Present(asked, sent, box) /\ Queue(sent, asked') /\ box \in Seq(Known)
    BY <1>1, <2>1, <2>2
  <2> HIDE DEF sent, box
  <2> QED BY <1>1, <1>2, <2>3, <2>4, PresentKeeps DEF IInv
<1> QED BY <1>1, <1>2, <1>3, <1>4, <1>5 DEF IInv, Ledger!Give, Ledger!vars

(* The open prompt is closed, and the inbox keeps what it had or loses its
   head.                                                                     *)
LEMMA CloseKeeps ==
  ASSUME IInv, waiting, ~waiting', NEW end \in {"answered", "passed"},
         fate' = [fate EXCEPT ![asked] = end],
         UNCHANGED <<seat, asked, given, quit>>, conceded' \in BOOLEAN,
         seat.local => ~conceded', waiting' \in BOOLEAN,
         inbox' \in Seq(Known), UNCHANGED <<retained, wire>>,
         UNCHANGED <<snapPrompt, pending, held, outbound, replay>>
  PROVE  IInv' /\ asked \in Prompts /\ fate[asked] = "open"
<1>1. asked \in Prompts /\ fate[asked] = "open"
  BY StreamAssumption DEF IInv, Asking, Prompts
<1>2. Asking'
  BY <1>1 DEF IInv, Asking
<1>3. Known' = Known
  BY DEF Known
<1>4. Incoming'
  BY <1>3 DEF IInv, Incoming, Resumed
<1> QED BY <1>1, <1>2, <1>4 DEF IInv, Outgoing

LEMMA TakeAnswerKeeps ==
  ASSUME IInv, ManabrewTakeAnswer
  PROVE  IInv' /\ asked \in Prompts /\ Ledger!TakeAnswer(asked)
<1>1. /\ waiting /\ waiting' = FALSE /\ inbox # <<>>
      /\ Head(inbox) = Response(asked) /\ inbox' = Tail(inbox)
      /\ fate' = [fate EXCEPT ![asked] = "answered"]
      /\ UNCHANGED <<seat, asked, conceded, given, quit, retained, wire>>
      /\ UNCHANGED <<snapPrompt, pending, held, outbound, replay>>
  BY DEF ManabrewTakeAnswer, nodeVars, relayVars, clientVars
<1>2. IInv' /\ asked \in Prompts /\ fate[asked] = "open"
  BY <1>1, InboxTaken, CloseKeeps DEF IInv, Asking
<1>3. asked \in given /\ ~conceded
  BY <1>1, <1>2, InboxTaken DEF IInv, Asking, Responses, Response
<1> QED BY <1>1, <1>2, <1>3 DEF Ledger!TakeAnswer

LEMMA ConcedeKeeps ==
  ASSUME IInv, ManabrewConcede
  PROVE  IInv' /\ asked \in Prompts /\ Ledger!TakeConcede(asked)
<1>1. /\ waiting /\ waiting' = FALSE /\ inbox # <<>>
      /\ Head(inbox) = Concede /\ inbox' = Tail(inbox) /\ conceded' = TRUE
      /\ fate' = [fate EXCEPT ![asked] = "passed"]
      /\ UNCHANGED <<seat, asked, given, quit, retained, wire>>
      /\ UNCHANGED <<snapPrompt, pending, held, outbound, replay>>
  BY DEF ManabrewConcede, nodeVars, relayVars, clientVars
<1>2. quit /\ ~seat.local
  BY <1>1, InboxTaken DEF IInv
<1>3. IInv' /\ asked \in Prompts /\ fate[asked] = "open"
  BY <1>1, <1>2, InboxTaken, CloseKeeps DEF IInv, Asking
<1> QED BY <1>1, <1>2, <1>3 DEF Ledger!TakeConcede

LEMMA TimeoutKeeps ==
  ASSUME IInv, ManabrewTimeout
  PROVE  IInv' /\ asked \in Prompts /\ Ledger!Pass(asked)
<1>1. /\ waiting /\ waiting' = FALSE
      /\ fate' = [fate EXCEPT ![asked] = "passed"]
      /\ UNCHANGED <<seat, asked, conceded, given, quit>>
      /\ UNCHANGED <<inbox, retained, wire>>
      /\ UNCHANGED <<snapPrompt, pending, held, outbound, replay>>
  BY DEF ManabrewTimeout, nodeVars, relayVars, clientVars
<1>2. IInv' /\ asked \in Prompts /\ fate[asked] = "open"
  BY <1>1, CloseKeeps DEF IInv, Asking, Incoming
<1> QED BY <1>1, <1>2 DEF Ledger!Pass

LEMMA EngineKeeps ==
  ASSUME IInv, Engine, Backend = "manabrew"
  PROVE  IInv' /\ (Ledger!Next \/ UNCHANGED Ledger!vars)
<1>1. ASSUME NEW b \in Boards, EnginePlay(b) PROVE IInv' /\ UNCHANGED Ledger!vars
  BY <1>1, PlayKeeps
<1>2. ASSUME NEW b \in Boards, ManabrewAsk(b) PROVE IInv' /\ Ledger!Next
  BY <1>2, AskKeeps DEF Ledger!Next
<1>3. CASE ManabrewTakeAnswer
  BY <1>3, TakeAnswerKeeps DEF Ledger!Next, Ledger!Prompts, Prompts
<1>4. CASE ManabrewReject
  <2>1. asked \in Prompts
    BY <1>4, StreamAssumption DEF ManabrewReject, IInv, Asking, Prompts
  <2> QED BY <1>4, <2>1, RejectKeeps DEF Ledger!Next, Ledger!Prompts, Prompts
<1>5. CASE ManabrewConcede
  BY <1>5, ConcedeKeeps DEF Ledger!Next, Ledger!Prompts, Prompts
<1>6. CASE ManabrewTimeout
  BY <1>6, TimeoutKeeps DEF Ledger!Next, Ledger!Prompts, Prompts
<1>7. /\ \A b : ~ForgeFetch(b)
      /\ ~(ForgeAsk \/ ForgeSubmit \/ ForgeReject \/ ForgeTakeAnswer \/ ForgeTakeConcede)
  BY DEF ForgeFetch, ForgeAsk, ForgeSubmit, ForgeReject, ForgeTakeAnswer,
         ForgeTakeConcede
<1> QED BY <1>1, <1>2, <1>3, <1>4, <1>5, <1>6, <1>7 DEF Engine

-----------------------------------------------------------------------------
(* The node, the client and the faults                                       *)

LEMMA WireTaken ==
  ASSUME Incoming, wire # <<>>
  PROVE  /\ Head(wire) \in Known \cup {Resumed}
         /\ Tail(wire) \in Seq(Known \cup {Resumed})
BY HeadTailProperties DEF Incoming

LEMMA NodeKeeps ==
  ASSUME IInv, Node
  PROVE  IInv' /\ UNCHANGED Ledger!vars
<1>1. UNCHANGED Books
  BY DEF Node, NodeSend, NodeReceiveResponse, NodeForgetPrompt,
         NodeReceiveConcede, NodeResumed, NodeReplay, NodeNotices,
         NodeReconnect, Books, engineVars, historyVars
<1>2. Asking' /\ Known' = Known /\ UNCHANGED Ledger!vars
  BY <1>1, BooksKept DEF IInv
<1>3. ASSUME UNCHANGED <<inbox, retained, wire>> PROVE Incoming'
  BY <1>1, <1>3, IncomingKept DEF IInv
<1>4. asked' = asked
  BY <1>1 DEF Books
<1>5. CASE NodeSend
  <2>1. /\ outbound # <<>> /\ outbound' = Tail(outbound)
        /\ UNCHANGED <<inbox, wire, snapPrompt, replay>>
        /\ RelayTakes(Head(outbound)) \/ UNCHANGED <<retained, pending, held>>
    BY <1>5 DEF NodeSend, engineVars
  <2>2. Below(Head(outbound), asked) /\ Queue(outbound', asked)
    BY <2>1, QueueHeadTail DEF IInv, Outgoing
  <2>3. /\ retained' = <<>> \/ retained' = retained
        /\ pending' \in 0..asked /\ held' \in 0..asked
    BY <2>1, <2>2, RelayTakesKeeps DEF IInv, Outgoing
  <2>4. retained' \in Seq(Known)
    BY <2>3, EmptySeq, Zenon DEF IInv, Incoming
  <2> QED BY <1>2, <1>4, <2>1, <2>2, <2>3, <2>4 DEF IInv, Incoming, Outgoing, Resumed
<1>6. CASE NodeReceiveResponse
  <2>1. /\ wire # <<>> /\ wire' = Tail(wire) /\ Head(wire) \in Responses
        /\ UNCHANGED <<retained, snapPrompt, pending, held, outbound, replay>>
        /\ inbox' = inbox \/ inbox' = Append(inbox, Head(wire))
    BY <1>6 DEF NodeReceiveResponse, clientVars
  <2>2. Head(wire) \in Known /\ wire' \in Seq(Known \cup {Resumed})
    BY <2>1, WireTaken DEF IInv, Responses, Resumed
  <2>3. inbox' \in Seq(Known)
    <3>1. inbox \in Seq(Known)
      BY DEF IInv, Incoming
    <3>2. Append(inbox, Head(wire)) \in Seq(Known)
      BY <2>2, <3>1, AppendProperties
    <3> QED BY <2>1, <3>1, <3>2, Zenon
  <2> QED BY <1>2, <1>4, <2>1, <2>2, <2>3 DEF IInv, Incoming, Outgoing, Resumed
<1>7. CASE NodeForgetPrompt
  <2>1. /\ UNCHANGED <<inbox, retained, wire, pending, held, outbound, replay>>
        /\ snapPrompt' = 0
    BY <1>7 DEF NodeForgetPrompt, engineVars, relayVars, clientVars
  <2>2. 0 \in 0..asked
    BY DEF IInv, Asking
  <2> QED BY <1>2, <1>3, <1>4, <2>1, <2>2 DEF IInv, Outgoing
<1>8. CASE NodeReceiveConcede
  <2>1. /\ wire # <<>> /\ wire' = Tail(wire) /\ Head(wire) = Concede
        /\ UNCHANGED <<retained, snapPrompt, pending, held, outbound, replay>>
        /\ inbox' = Append(inbox, Head(wire))
    BY <1>8 DEF NodeReceiveConcede, nodeVars, clientVars
  <2>2. Head(wire) \in Known /\ wire' \in Seq(Known \cup {Resumed})
    BY <2>1, WireTaken DEF IInv, Concede, Resumed
  <2>3. inbox' \in Seq(Known)
    BY <2>1, <2>2, AppendProperties DEF IInv, Incoming
  <2> QED BY <1>2, <1>4, <2>1, <2>2, <2>3 DEF IInv, Incoming, Outgoing, Resumed
<1>9. CASE NodeResumed
  <2> DEFINE shown == IF made = 0 THEN <<>> ELSE <<State(board)>>
             offered == IF snapPrompt = 0 THEN <<>> ELSE <<Prompt(snapPrompt)>>
  <2>1. /\ wire # <<>> /\ wire' = Tail(wire) /\ replay' = shown \o offered
        /\ UNCHANGED <<inbox, retained, snapPrompt, pending, held, outbound>>
    BY <1>9 DEF NodeResumed, engineVars, clientVars
  <2>2. Queue(shown, asked)
    <3>1. Below(State(board), asked)
      BY DEF State, Below
    <3> QED BY <3>1, QueueEmpty, QueueOne
  <2>3. Queue(offered, asked)
    <3>1. asked \in Nat /\ snapPrompt \in 0..asked
      BY DEF IInv, Asking, Outgoing
    <3> QED BY <3>1, QueueEmpty, PromptQueued
  <2> HIDE DEF shown, offered
  <2>4. Queue(replay', asked)
    BY <2>1, <2>2, <2>3, QueueConcat
  <2>5. wire' \in Seq(Known \cup {Resumed})
    BY <2>1, WireTaken DEF IInv
  <2> QED BY <1>2, <1>4, <2>1, <2>4, <2>5 DEF IInv, Incoming, Outgoing, Resumed
<1>10. CASE NodeReplay
  <2>1. UNCHANGED <<inbox, wire, snapPrompt, outbound>>
    BY <1>10 DEF NodeReplay, engineVars
  <2>2. CASE replay = <<>>
    <3>1. UNCHANGED <<retained, pending, held, replay>>
      BY <1>10, <2>2 DEF NodeReplay
    <3> QED BY <1>2, <1>3, <1>4, <2>1, <3>1 DEF IInv, Outgoing
  <2>3. CASE replay # <<>>
    <3>1. RelayTakes(Head(replay)) /\ replay' = Tail(replay)
      BY <1>10, <2>3 DEF NodeReplay
    <3>2. Below(Head(replay), asked) /\ Queue(replay', asked)
      BY <2>3, <3>1, QueueHeadTail DEF IInv, Outgoing
    <3>3. /\ retained' = <<>>
          /\ pending' \in 0..asked /\ held' \in 0..asked
      BY <3>1, <3>2, RelayTakesKeeps DEF IInv
    <3>4. retained' \in Seq(Known)
      BY <3>3
    <3> QED BY <1>2, <1>4, <2>1, <3>2, <3>3, <3>4 DEF IInv, Incoming, Outgoing, Resumed
  <2> QED BY <2>2, <2>3
<1>11. CASE NodeNotices
  <2>1. UNCHANGED <<inbox, retained, wire, snapPrompt, pending, held, outbound, replay>>
    BY <1>11 DEF NodeNotices, engineVars, relayVars, clientVars
  <2> QED BY <1>2, <1>3, <1>4, <2>1 DEF IInv, Outgoing
<1>12. CASE NodeReconnect
  <2>1. /\ wire' = Append(retained, Resumed)
        /\ UNCHANGED <<inbox, retained, snapPrompt, pending, held, outbound, replay>>
    BY <1>12 DEF NodeReconnect, engineVars, clientVars
  <2>2. wire' \in Seq(Known \cup {Resumed})
    <3>1. retained \in Seq(Known \cup {Resumed})
      BY SeqMonotonic DEF IInv, Incoming
    <3> QED BY <2>1, <3>1, AppendProperties
  <2> QED BY <1>2, <1>4, <2>1, <2>2 DEF IInv, Incoming, Outgoing, Resumed
<1> QED BY <1>2, <1>5, <1>6, <1>7, <1>8, <1>9, <1>10, <1>11, <1>12 DEF Node

(* The relay keeps an input and may deliver it.                             *)
LEMMA AcceptedKeeps ==
  ASSUME Incoming, NEW input, input \in Known', Known \subseteq Known',
         Accepted(input), inbox' = inbox
  PROVE  Incoming'
<1>1. Known \cup {Resumed} \subseteq Known' \cup {Resumed}
  OBVIOUS
<1>2. /\ inbox \in Seq(Known') /\ retained \in Seq(Known')
      /\ wire \in Seq(Known' \cup {Resumed})
  BY <1>1, SeqMonotonic DEF Incoming
<1>3. retained' \in Seq(Known') /\ Append(wire, input) \in Seq(Known' \cup {Resumed})
  BY <1>2, AppendProperties DEF Accepted
<1>4. wire' = Append(wire, input) \/ wire' = wire
  BY DEF Accepted
<1> QED BY <1>2, <1>3, <1>4 DEF Incoming, Resumed

LEMMA ClientKeeps ==
  ASSUME IInv, Client
  PROVE  IInv' /\ (Ledger!Next \/ UNCHANGED Ledger!vars)
<1>1. CASE ClientAnswer
  <2>1. /\ held # 0 /\ Accepted(Response(held)) /\ given' = given \cup {held}
        /\ pending' = 0 /\ held' = 0
        /\ UNCHANGED <<seat, asked, waiting, conceded, fate, quit, inbox>>
        /\ UNCHANGED <<snapPrompt, outbound, replay>>
    BY <1>1 DEF ClientAnswer, engineVars, nodeVars
  <2>2. held \in 1..asked /\ held \in Prompts /\ 0 \in 0..asked
    BY <2>1, StreamAssumption DEF IInv, Asking, Outgoing, Prompts
  <2>3. Asking'
    BY <2>1, <2>2 DEF IInv, Asking
  <2>4. Response(held) \in Known' /\ Known \subseteq Known'
    BY <2>1 DEF Known
  <2>5. Incoming'
    BY <2>1, <2>4, AcceptedKeeps DEF IInv
  <2>6. Outgoing'
    BY <2>1, <2>2 DEF IInv, Outgoing
  <2>7. Ledger!Give(held)
    BY <2>1, <2>2 DEF Ledger!Give, IInv, Asking
  <2> QED BY <2>2, <2>3, <2>5, <2>6, <2>7 DEF IInv, Ledger!Next, Ledger!Prompts, Prompts
<1>2. CASE ClientAnswerLost
  <2>1. /\ UNCHANGED Books /\ UNCHANGED <<inbox, retained, wire>> /\ held' = 0
        /\ UNCHANGED <<snapPrompt, pending, outbound, replay>>
    BY <1>2 DEF ClientAnswerLost, engineVars, nodeVars, relayVars, historyVars, Books
  <2>2. 0 \in 0..asked /\ asked' = asked
    BY <2>1 DEF IInv, Asking, Books
  <2> QED BY <2>1, <2>2, BooksKept, IncomingKept DEF IInv, Outgoing
<1>3. CASE ClientConcede
  <2>1. /\ ~seat.local /\ held' = 0
        /\ UNCHANGED <<seat, asked, waiting, conceded, fate, given, inbox>>
        /\ UNCHANGED <<snapPrompt, pending, outbound, replay>>
        /\ \/ Accepted(Concede) /\ quit' = TRUE
           \/ UNCHANGED <<retained, wire, quit>>
    BY <1>3 DEF ClientConcede, engineVars, nodeVars
  <2>2. 0 \in 0..asked
    BY DEF IInv, Asking
  <2>3. Asking' /\ Outgoing'
    BY <2>1, <2>2 DEF IInv, Asking, Outgoing
  <2>4. CASE Accepted(Concede) /\ quit' = TRUE
    <3>1. Concede \in Known' /\ Known \subseteq Known'
      BY <2>1, <2>4 DEF Known
    <3>2. Incoming'
      BY <2>1, <2>4, <3>1, AcceptedKeeps DEF IInv
    <3>3. Ledger!Quit
      BY <2>1, <2>4 DEF Ledger!Quit
    <3> QED BY <2>3, <3>2, <3>3 DEF IInv, Ledger!Next
  <2>5. CASE UNCHANGED <<retained, wire, quit>>
    BY <2>1, <2>3, <2>5, BooksKept, IncomingKept DEF IInv, Books
  <2> QED BY <2>1, <2>4, <2>5
<1>4. CASE ClientReturn
  <2>1. /\ UNCHANGED Books /\ UNCHANGED <<inbox, retained, wire>>
        /\ UNCHANGED <<snapPrompt, pending, held, outbound, replay>>
    BY <1>4 DEF ClientReturn, engineVars, nodeVars, relayVars, historyVars, Books
  <2> QED BY <2>1, BooksKept, IncomingKept DEF IInv, Outgoing, Books
<1>5. CASE ClientResync
  <2>1. /\ UNCHANGED Books /\ UNCHANGED <<inbox, retained, wire>>
        /\ UNCHANGED <<snapPrompt, pending, outbound, replay>>
    BY <1>5 DEF ClientResync, engineVars, nodeVars, relayVars, historyVars, Books
  <2>2. held' = held \/ held' = pending
    BY <1>5 DEF ClientResync, ShownPrompt, Prompt
  <2> QED BY <2>1, <2>2, BooksKept, IncomingKept DEF IInv, Outgoing, Books
<1> QED BY <1>1, <1>2, <1>3, <1>4, <1>5 DEF Client

LEMMA FaultsKeep ==
  ASSUME IInv, Faults
  PROVE  IInv' /\ UNCHANGED Ledger!vars
<1>1. UNCHANGED Books
  BY DEF Faults, LinkBreak, RelayNoticesHostDrop, RelayRestart, ClientDrop,
         Books, engineVars, historyVars
<1>2. UNCHANGED <<inbox, snapPrompt, held, outbound>>
  BY DEF Faults, LinkBreak, RelayNoticesHostDrop, RelayRestart, ClientDrop,
         engineVars, nodeVars, clientVars
<1>3. /\ replay' = replay \/ replay' = <<>>
      /\ wire' = wire \/ wire' = <<>>
      /\ retained' = retained \/ retained' = <<>>
      /\ pending' = pending \/ pending' = 0
  BY DEF Faults, LinkBreak, RelayNoticesHostDrop, RelayRestart, ClientDrop,
         nodeVars, relayVars
<1>4. Asking' /\ Known' = Known /\ UNCHANGED Ledger!vars /\ asked' = asked
  BY <1>1, BooksKept DEF IInv, Books
<1>5. Incoming'
  <2>1. retained' \in Seq(Known) /\ wire' \in Seq(Known \cup {Resumed})
    BY <1>3, EmptySeq, Zenon DEF IInv, Incoming
  <2> QED BY <1>2, <1>4, <2>1 DEF IInv, Incoming, Resumed
<1>6. Queue(replay', asked)
  BY <1>3, QueueEmpty DEF IInv, Outgoing
<1>7. 0 \in 0..asked
  BY DEF IInv, Asking
<1> QED BY <1>2, <1>3, <1>4, <1>5, <1>6, <1>7 DEF IInv, Outgoing

-----------------------------------------------------------------------------
LEMMA StepKeeps ==
  ASSUME Backend = "manabrew", IInv, [Next]_vars
  PROVE  IInv' /\ [Ledger!Next]_(Ledger!vars)
<1>1. CASE Next
  BY <1>1, EngineKeeps, NodeKeeps, ClientKeeps, FaultsKeep DEF Next
<1>2. CASE UNCHANGED vars
  <2>1. /\ UNCHANGED Books /\ UNCHANGED <<inbox, retained, wire>>
        /\ UNCHANGED <<snapPrompt, pending, held, outbound, replay>>
    BY <1>2 DEF vars, engineVars, nodeVars, relayVars, clientVars, historyVars, Books
  <2> QED BY <2>1, BooksKept, IncomingKept DEF IInv, Outgoing, Books
<1> QED BY <1>1, <1>2

LEMMA InitLedger == Init => Ledger!Init
BY DEF Init, Ledger!Init, Ledger!Prompts, Prompts

(* With the Rust engine the seat's traffic keeps the ledger (KeepsLedger):
  prompts are opened one at a time and closed once, an answer closes only the
  prompt it was given to, and a seat is out only after its own concession,
  for any boards and any number of prompts, breaks and restarts.            *)
THEOREM LedgerKept ==
  ASSUME Backend = "manabrew"
  PROVE  Spec => KeepsLedger
<1>1. IInv /\ [Next]_vars => IInv' /\ [Ledger!Next]_(Ledger!vars)
  BY StepKeeps
<1> QED BY <1>1, InitIInv, InitLedger, PTL DEF Spec, KeepsLedger, Ledger!Spec

-----------------------------------------------------------------------------
(* The seat of a local bot: its open prompt has its answer in the inbox from the
  moment it is opened, and nothing else ever gets there.                    *)
BotInbox ==
    /\ actions = <<>>
    /\ seat.local => /\ botAnswered = asked
                     /\ inbox = IF waiting THEN <<Response(asked)>> ELSE <<>>

LEMMA WireOfBot ==
  ASSUME IInv, seat.local, wire # <<>>
  PROVE  /\ Head(wire) # Concede
         /\ Head(wire) \in Responses => Head(wire).id <= asked
<1>1. Head(wire) \in Known \cup {Resumed}
  BY WireTaken DEF IInv
<1>2. Head(wire) = Resumed \/ \E p \in given : Head(wire) = Response(p)
  BY <1>1 DEF Known
<1>3. \A p \in given : p <= asked
  BY DEF IInv, Asking
<1>4. \A p : Response(p).id = p
  BY DEF Response
<1>5. Resumed \notin Responses /\ Resumed # Concede /\ \A p : Response(p) # Concede
  BY DEF Resumed, Responses, Response, Concede
<1> QED BY <1>2, <1>3, <1>4, <1>5

LEMMA EngineKeepsBot ==
  ASSUME IInv, BotInbox, Engine, Backend = "manabrew"
  PROVE  BotInbox'
<1>1. ASSUME NEW b \in Boards, EnginePlay(b) PROVE BotInbox'
  BY <1>1 DEF EnginePlay, BotInbox
<1>2. ASSUME NEW b \in Boards, ManabrewAsk(b) PROVE BotInbox'
  <2>1. /\ ~waiting /\ waiting' = ~conceded /\ asked' = asked + 1
        /\ UNCHANGED <<seat, actions>>
        /\ \E sent : Present(asked + 1, sent, inbox)
    BY <1>2 DEF ManabrewAsk, forgeVars
  <2>2. seat.local => /\ ~conceded /\ inbox = <<>> /\ botAnswered' = asked + 1
                     /\ inbox' = Append(<<>>, Response(asked + 1))
    BY <2>1 DEF IInv, Asking, BotInbox, Present
  <2>3. Append(<<>>, Response(asked + 1)) = <<Response(asked + 1)>>
    OBVIOUS
  <2> QED BY <2>1, <2>2, <2>3 DEF BotInbox
<1>3. CASE ManabrewTakeAnswer
  <2>1. /\ waiting /\ ~waiting' /\ inbox' = Tail(inbox)
        /\ UNCHANGED <<seat, asked, botAnswered, actions>>
    BY <1>3 DEF ManabrewTakeAnswer, forgeVars, nodeVars
  <2>2. \A e : Tail(<<e>>) = <<>>
    OBVIOUS
  <2>3. seat.local => inbox' = <<>>
    BY <2>1, <2>2 DEF BotInbox
  <2> QED BY <2>1, <2>3 DEF BotInbox
<1>4. CASE ManabrewReject
  <2>1. waiting /\ Head(inbox) # Response(asked)
    BY <1>4 DEF ManabrewReject
  <2>2. ~seat.local
    BY <2>1 DEF BotInbox
  <2> QED BY <1>4, <2>2 DEF ManabrewReject, forgeVars, BotInbox
<1>5. CASE ManabrewConcede
  <2>1. ~seat.local
    BY <1>5, InboxTaken DEF ManabrewConcede, IInv
  <2> QED BY <1>5, <2>1 DEF ManabrewConcede, forgeVars, BotInbox
<1>6. CASE ManabrewTimeout
  <2>1. ~seat.local
    BY <1>6 DEF ManabrewTimeout, BotInbox
  <2> QED BY <1>6, <2>1 DEF ManabrewTimeout, forgeVars, BotInbox
<1>7. /\ \A b : ~ForgeFetch(b)
      /\ ~(ForgeAsk \/ ForgeSubmit \/ ForgeReject \/ ForgeTakeAnswer \/ ForgeTakeConcede)
  BY DEF ForgeFetch, ForgeAsk, ForgeSubmit, ForgeReject, ForgeTakeAnswer,
         ForgeTakeConcede
<1> QED BY <1>1, <1>2, <1>3, <1>4, <1>5, <1>6, <1>7 DEF Engine

LEMMA OthersKeepBot ==
  ASSUME IInv, BotInbox, Node \/ Client \/ Faults \/ UNCHANGED vars
  PROVE  BotInbox'
<1>1. CASE NodeReceiveResponse
  <2>1. /\ wire # <<>> /\ Head(wire) \in Responses
        /\ UNCHANGED <<seat, asked, waiting, botAnswered, actions>>
        /\ (seat.local /\ Head(wire).id <= botAnswered) => inbox' = inbox
    BY <1>1 DEF NodeReceiveResponse, forgeVars
  <2> QED BY <2>1, WireOfBot DEF BotInbox
<1>2. CASE NodeReceiveConcede
  <2>1. wire # <<>> /\ Head(wire) = Concede /\ UNCHANGED <<seat, actions>>
    BY <1>2 DEF NodeReceiveConcede, forgeVars
  <2> QED BY <2>1, WireOfBot DEF BotInbox
<1>3. CASE ~(NodeReceiveResponse \/ NodeReceiveConcede)
  <2>1. UNCHANGED <<seat, asked, waiting, botAnswered, inbox, actions>>
    BY <1>3 DEF Node, NodeSend, NodeForgetPrompt, NodeResumed, NodeReplay,
           NodeNotices, NodeReconnect, Client, ClientAnswer, ClientAnswerLost,
           ClientConcede, ClientReturn, ClientResync, Faults, LinkBreak,
           RelayNoticesHostDrop, RelayRestart, ClientDrop, vars, engineVars,
           nodeVars, forgeVars
  <2> QED BY <2>1 DEF BotInbox
<1> QED BY <1>1, <1>2, <1>3

(* With the Rust engine the seat of a local bot gets one answer to each prompt,
  however often the copy its own connection sends is repeated (LocalBotOnce). *)
THEOREM BotsAnswerOnce ==
  ASSUME Backend = "manabrew"
  PROVE  Spec => []LocalBotOnce
<1>1. Init => BotInbox
  BY DEF Init, BotInbox
<1>2. IInv /\ BotInbox /\ [Next]_vars => BotInbox'
  BY EngineKeepsBot, OthersKeepBot DEF Next
<1>3. IInv /\ [Next]_vars => IInv'
  BY StepKeeps
<1>4. BotInbox => LocalBotOnce
  <2> SUFFICES ASSUME BotInbox, seat.local, inbox \o actions # <<>>
               PROVE  waiting /\ inbox \o actions = <<Response(asked)>>
    BY DEF LocalBotOnce
  <2>1. <<Response(asked)>> \o <<>> = <<Response(asked)>> /\ <<>> \o <<>> = <<>>
    OBVIOUS
  <2> QED BY <2>1 DEF BotInbox
<1> QED BY <1>1, <1>2, <1>3, <1>4, InitIInv, PTL DEF Spec

-----------------------------------------------------------------------------
(* Where the prompts are, with either engine                                 *)

\* Nothing in the queue s is a prompt.
Quiet(s) == \A i \in DOMAIN s : s[i].kind # "prompt"

\* The last prompt in the queue s, if it holds any, is p.
EndsIn(s, p) ==
    \A i \in DOMAIN s :
        (s[i].kind = "prompt" /\ \A j \in DOMAIN s : j > i => s[j].kind # "prompt")
            => s[i].id = p

\* The queue s holds prompt p once, and no other.
Sole(s, p) ==
    \A i, j \in DOMAIN s :
        (s[i].kind = "prompt" /\ s[j].kind = "prompt") => i = j /\ s[i].id = p

\* What the Java game and its node know of prompts.
Polling ==
    /\ published \in {0, asked} /\ fetched \in 0..asked
    /\ (waiting /\ Backend = "forge") => published = asked
    /\ actions \in Seq(Known)
    /\ Backend = "manabrew" =>
          /\ published = 0 /\ fetched = 0 /\ actions = <<>> /\ ~misused

\* The relay counts the host as connected while a working link is there, and
\* the node sends a snapshot only after a resume.
Attached ==
    /\ link \in {"up", "dead", "down", "resuming", "replaying"}
    /\ link \in {"up", "resuming", "replaying"} => hostUp
    /\ link # "replaying" => replay = <<>>

\* The newest prompt on its way out is the one in the snapshot.
NewestLast ==
    /\ seat.local => snapPrompt = 0
    /\ snapPrompt # 0 =>
          /\ EndsIn(outbound, snapPrompt)
          /\ Quiet(outbound) => EndsIn(replay, snapPrompt)

\* An input that will make the node forget the snapshot's prompt.
UnderWay == forgetting \/ \E i \in DOMAIN wire : wire[i] \in Responses

\* What is left to say of the open prompt once both queues hold no prompt.
Offered ==
    (/\ link \in {"up", "replaying"}
     /\ snapPrompt # 0 /\ snapPrompt = asked /\ asked \notin given
     /\ Quiet(outbound) /\ Quiet(replay))
        => \/ UnderWay
           \/ /\ pending = asked
              /\ (client = "on" /\ ~selfConceded) => held = asked

Base == IInv /\ Polling

OfferInv == Attached /\ NewestLast /\ Offered

-----------------------------------------------------------------------------
(* Sequences                                                                 *)

LEMMA QueueIsSeq ==
  ASSUME NEW s, NEW n, Queue(s, n)
  PROVE  \E E : s \in Seq(E)
BY DEF Queue

LEMMA ConcatParts ==
  ASSUME NEW E, NEW s \in Seq(E), NEW t \in Seq(E)
  PROVE  /\ s \o t \in Seq(E) /\ Len(s \o t) = Len(s) + Len(t)
         /\ DOMAIN (s \o t) = 1..(Len(s) + Len(t))
         /\ DOMAIN s = 1..Len(s) /\ DOMAIN t = 1..Len(t)
         /\ Len(s) \in Nat /\ Len(t) \in Nat
         /\ \A i \in 1..Len(s) : (s \o t)[i] = s[i]
         /\ \A i \in 1..Len(t) : (s \o t)[Len(s) + i] = t[i]
<1>1. /\ s \o t \in Seq(E) /\ Len(s \o t) = Len(s) + Len(t)
      /\ \A i \in 1..Len(s) + Len(t) :
            (s \o t)[i] = IF i <= Len(s) THEN s[i] ELSE t[i - Len(s)]
  BY ConcatProperties
<1>2. /\ DOMAIN s = 1..Len(s) /\ DOMAIN t = 1..Len(t)
      /\ Len(s) \in Nat /\ Len(t) \in Nat
  BY LenProperties
<1>3. DOMAIN (s \o t) = 1..(Len(s) + Len(t))
  BY <1>1, LenProperties
<1>4. \A i \in 1..Len(s) : (s \o t)[i] = s[i]
  BY <1>1, <1>2
<1>5. \A i \in 1..Len(t) : (s \o t)[Len(s) + i] = t[i]
  <2> TAKE i \in 1..Len(t)
  <2>1. /\ Len(s) + i \in 1..Len(s) + Len(t) /\ ~(Len(s) + i <= Len(s))
        /\ Len(s) + i - Len(s) = i
    BY <1>2
  <2> QED BY <1>1, <2>1
<1> QED BY <1>1, <1>2, <1>3, <1>4, <1>5

LEMMA TailParts ==
  ASSUME NEW E, NEW s \in Seq(E), s # <<>>
  PROVE  /\ Head(s) = s[1] /\ Head(s) \in E /\ Tail(s) \in Seq(E)
         /\ Len(s) \in Nat /\ Len(s) > 0 /\ DOMAIN s = 1..Len(s)
         /\ DOMAIN Tail(s) = 1..(Len(s) - 1) /\ Len(Tail(s)) = Len(s) - 1
         /\ \A i \in 1..(Len(s) - 1) : Tail(s)[i] = s[i + 1]
<1>1. /\ Head(s) = s[1] /\ Head(s) \in E /\ Tail(s) \in Seq(E)
      /\ Len(s) \in Nat /\ Len(s) > 0 /\ DOMAIN s = 1..Len(s)
      /\ Len(Tail(s)) = Len(s) - 1
  BY HeadTailProperties, LenProperties, EmptySeq
<1>2. \A i \in 1..(Len(s) - 1) : Tail(s)[i] = s[i + 1]
  BY HeadTailProperties
<1>3. DOMAIN Tail(s) = 1..(Len(s) - 1)
  BY <1>1, LenProperties
<1> QED BY <1>1, <1>2, <1>3

LEMMA QuietConcat ==
  ASSUME NEW E, NEW s \in Seq(E), NEW t \in Seq(E)
  PROVE  Quiet(s \o t) <=> Quiet(s) /\ Quiet(t)
<1>1. ASSUME Quiet(s \o t) PROVE Quiet(s) /\ Quiet(t)
  <2>1. \A i \in 1..Len(s) : i \in DOMAIN (s \o t) /\ (s \o t)[i] = s[i]
    BY ConcatParts
  <2>2. \A i \in 1..Len(t) : Len(s) + i \in DOMAIN (s \o t)
                             /\ (s \o t)[Len(s) + i] = t[i]
    BY ConcatParts
  <2> QED BY <1>1, <2>1, <2>2, ConcatParts DEF Quiet
<1>2. ASSUME Quiet(s), Quiet(t) PROVE Quiet(s \o t)
  <2> SUFFICES ASSUME NEW i \in DOMAIN (s \o t)
               PROVE  (s \o t)[i].kind # "prompt"
    BY DEF Quiet
  <2>1. CASE i \in 1..Len(s)
    BY <1>2, <2>1, ConcatParts DEF Quiet
  <2>2. CASE i \notin 1..Len(s)
    <3> DEFINE k == i - Len(s)
    <3>1. k \in 1..Len(t) /\ i = Len(s) + k
      BY <2>2, ConcatParts
    <3> QED BY <1>2, <3>1, ConcatParts DEF Quiet
  <2> QED BY <2>1, <2>2
<1> QED BY <1>1, <1>2

\* What is quiet leaves the last prompt where it is.
LEMMA EndsInQuiet ==
  ASSUME NEW E, NEW s \in Seq(E), NEW t \in Seq(E), NEW p,
         EndsIn(s, p), Quiet(t)
  PROVE  EndsIn(s \o t, p)
<1> SUFFICES ASSUME NEW i \in DOMAIN (s \o t), (s \o t)[i].kind = "prompt",
                    \A j \in DOMAIN (s \o t) : j > i => (s \o t)[j].kind # "prompt"
             PROVE  (s \o t)[i].id = p
  BY DEF EndsIn
<1>1. CASE i \in 1..Len(s)
  <2>1. \A j \in 1..Len(s) : j \in DOMAIN (s \o t) /\ (s \o t)[j] = s[j]
    BY ConcatParts
  <2>2. \A j \in DOMAIN s : j > i => s[j].kind # "prompt"
    BY <2>1, ConcatParts
  <2> QED BY <1>1, <2>1, <2>2, ConcatParts DEF EndsIn
<1>2. CASE i \notin 1..Len(s)
  <2> DEFINE k == i - Len(s)
  <2>1. k \in 1..Len(t) /\ i = Len(s) + k
    BY <1>2, ConcatParts
  <2> QED BY <2>1, ConcatParts DEF Quiet
<1> QED BY <1>1, <1>2

LEMMA EndsInPrompt ==
  ASSUME NEW E, NEW s \in Seq(E), NEW p
  PROVE  EndsIn(s \o <<Prompt(p)>>, p) /\ ~Quiet(s \o <<Prompt(p)>>)
<1> DEFINE F == E \cup {Prompt(p)}
           q == s \o <<Prompt(p)>>
<1>1. s \in Seq(F) /\ <<Prompt(p)>> \in Seq(F) /\ Len(<<Prompt(p)>>) = 1
      /\ <<Prompt(p)>>[1] = Prompt(p)
  BY SeqMonotonic
<1> HIDE DEF F
<1>2. /\ Len(s) \in Nat /\ DOMAIN q = 1..(Len(s) + 1)
      /\ q[Len(s) + 1] = Prompt(p)
  BY <1>1, ConcatParts
<1>3. Prompt(p).kind = "prompt" /\ Prompt(p).id = p
  BY DEF Prompt
<1> HIDE DEF q
<1>4. \A i \in DOMAIN q : i < Len(s) + 1 \/ i = Len(s) + 1
  BY <1>2
<1>5. EndsIn(q, p)
  BY <1>2, <1>3, <1>4 DEF EndsIn
<1>6. ~Quiet(q)
  BY <1>2, <1>3 DEF Quiet
<1> QED BY <1>5, <1>6 DEF q

LEMMA EndsInTail ==
  ASSUME NEW E, NEW s \in Seq(E), NEW p, s # <<>>, EndsIn(s, p)
  PROVE  /\ EndsIn(Tail(s), p)
         /\ (Quiet(Tail(s)) /\ Head(s).kind = "prompt") => Head(s).id = p
         /\ (Quiet(Tail(s)) /\ Head(s).kind # "prompt") => Quiet(s)
<1>1. \A j \in DOMAIN s : j = 1 \/ (j - 1 \in DOMAIN Tail(s) /\ s[j] = Tail(s)[j - 1])
  <2> TAKE j \in DOMAIN s
  <2> DEFINE k == j - 1
  <2>1. j = 1 \/ (k \in 1..(Len(s) - 1) /\ k + 1 = j)
    BY TailParts
  <2> QED BY <2>1, TailParts
<1>2. \A j \in DOMAIN Tail(s) : j + 1 \in DOMAIN s /\ j \in Nat /\ Tail(s)[j] = s[j + 1]
  BY TailParts
<1>3. \A j \in DOMAIN s : j \in Nat
  BY TailParts
<1>4. EndsIn(Tail(s), p)
  <2> SUFFICES ASSUME NEW i \in DOMAIN Tail(s), Tail(s)[i].kind = "prompt",
                      \A j \in DOMAIN Tail(s) : j > i => Tail(s)[j].kind # "prompt"
               PROVE  Tail(s)[i].id = p
    BY DEF EndsIn
  <2>1. i + 1 \in DOMAIN s /\ i \in Nat /\ s[i + 1].kind = "prompt"
    BY <1>2
  <2>2. ASSUME NEW j \in DOMAIN s, j > i + 1 PROVE s[j].kind # "prompt"
    <3>1. j # 1 /\ j - 1 > i
      BY <1>3, <2>1, <2>2
    <3> QED BY <1>1, <3>1
  <2> QED BY <1>2, <2>1, <2>2 DEF EndsIn
<1>5. ASSUME Quiet(Tail(s)) PROVE \A j \in DOMAIN s : j > 1 => s[j].kind # "prompt"
  BY <1>1, <1>5 DEF Quiet
<1>6. 1 \in DOMAIN s /\ Head(s) = s[1]
  BY TailParts
<1>7. (Quiet(Tail(s)) /\ Head(s).kind = "prompt") => Head(s).id = p
  BY <1>5, <1>6 DEF EndsIn
<1>8. (Quiet(Tail(s)) /\ Head(s).kind # "prompt") => Quiet(s)
  BY <1>1, <1>6 DEF Quiet
<1> QED BY <1>4, <1>7, <1>8

LEMMA EmissionQuiet ==
  ASSUME NEW b, NEW sent \in Emitted(b)
  PROVE  Quiet(sent) /\ \E E : sent \in Seq(E)
<1>1. Emission(b).kind # "prompt"
  BY DEF Emission, State, Delta
<1>2. sent = <<>> \/ sent = <<Emission(b)>>
  BY DEF Emitted
<1>3. <<Emission(b)>> \in Seq({Emission(b)}) /\ <<>> \in Seq({})
  OBVIOUS
<1>4. DOMAIN <<Emission(b)>> = {1} /\ <<Emission(b)>>[1] = Emission(b) /\ DOMAIN <<>> = {}
  OBVIOUS
<1> QED BY <1>1, <1>2, <1>3, <1>4 DEF Quiet

\* Two sequences have a common set of elements.
LEMMA CommonSet ==
  ASSUME NEW s, NEW t, \E E : s \in Seq(E), \E E : t \in Seq(E)
  PROVE  \E E : s \in Seq(E) /\ t \in Seq(E)
<1> PICK E : s \in Seq(E)
  OBVIOUS
<1> PICK F : t \in Seq(F)
  OBVIOUS
<1>1. s \in Seq(E \cup F) /\ t \in Seq(E \cup F)
  BY SeqMonotonic
<1> QED BY <1>1

-----------------------------------------------------------------------------
(* The books with the Java engine                                            *)

LEMMA InitBase == Init => Base
<1> SUFFICES ASSUME Init PROVE Base
  OBVIOUS
<1>1. 0 \in 0..0 /\ <<>> \in Seq(Known)
  OBVIOUS
<1>2. Polling
  BY <1>1 DEF Init, Polling
<1> QED BY <1>2, InitIInv DEF Base

\* The actions queue is not touched, and the engine's counters are what they
\* were.
LEMMA PollingKept ==
  ASSUME Polling, Known \subseteq Known',
         UNCHANGED <<asked, waiting, published, fetched, actions, misused>>
  PROVE  Polling'
<1>1. actions' \in Seq(Known')
  BY SeqMonotonic DEF Polling
<1> QED BY <1>1 DEF Polling

LEMMA ActionTaken ==
  ASSUME Polling, actions # <<>>
  PROVE  /\ Head(actions) \in Known /\ Tail(actions) \in Seq(Known)
         /\ Head(actions) = Concede => quit /\ ~seat.local
<1>1. Head(actions) \in Known /\ Tail(actions) \in Seq(Known)
  BY HeadTailProperties DEF Polling
<1> QED BY <1>1 DEF Known, Response, Concede

LEMMA PlayKeepsBase ==
  ASSUME Base, NEW b \in Boards, EnginePlay(b)
  PROVE  Base'
<1>1. IInv'
  BY PlayKeeps DEF Base
<1>2. /\ ~waiting /\ published' = 0 /\ fetched' = 0
      /\ actions' = IF actions = <<>> THEN <<>> ELSE Tail(actions)
      /\ misused' = (misused \/ actions # <<>>)
      /\ UNCHANGED <<seat, asked, waiting, given, quit>>
  BY DEF EnginePlay
<1>3. Known' = Known
  BY <1>2 DEF Known
<1>4. actions' \in Seq(Known)
  BY <1>2, ActionTaken DEF Base, Polling
<1>5. asked \in Nat
  BY StreamAssumption DEF Base, IInv, Asking
<1>6. 0 \in 0..asked'
  BY <1>2, <1>5
<1>7. Backend = "manabrew" => actions' = <<>> /\ ~misused'
  BY <1>2 DEF Base, Polling
<1>8. Polling'
  BY <1>2, <1>3, <1>4, <1>6, <1>7 DEF Polling
<1> QED BY <1>1, <1>8 DEF Base

LEMMA ManabrewKeepsBase ==
  ASSUME Base, Engine, Backend = "manabrew"
  PROVE  Base'
<1>1. IInv'
  BY EngineKeeps DEF Base
<1>2. published' = 0 /\ fetched' = 0 /\ actions' = <<>> /\ ~misused'
  <2>1. ASSUME NEW b \in Boards, EnginePlay(b)
        PROVE  published' = 0 /\ fetched' = 0 /\ actions' = <<>> /\ ~misused'
    BY <2>1 DEF EnginePlay, Base, Polling
  <2>2. ASSUME NEW b \in Boards, ManabrewAsk(b)
        PROVE  UNCHANGED <<forgeVars, misused>>
    BY <2>2 DEF ManabrewAsk
  <2>3. ASSUME ManabrewTakeAnswer \/ ManabrewReject \/ ManabrewConcede
                 \/ ManabrewTimeout
        PROVE  UNCHANGED <<forgeVars, misused>>
    BY <2>3 DEF ManabrewTakeAnswer, ManabrewReject, ManabrewConcede,
           ManabrewTimeout
  <2>4. /\ \A b : ~ForgeFetch(b)
        /\ ~ForgeAsk /\ ~ForgeSubmit /\ ~ForgeReject
        /\ ~ForgeTakeAnswer /\ ~ForgeTakeConcede
    BY DEF ForgeFetch, ForgeAsk, ForgeSubmit, ForgeReject, ForgeTakeAnswer,
           ForgeTakeConcede
  <2>5. UNCHANGED <<forgeVars, misused>>
        => published' = 0 /\ fetched' = 0 /\ actions' = <<>> /\ ~misused'
    BY DEF forgeVars, Base, Polling
  <2> QED BY <2>1, <2>2, <2>3, <2>4, <2>5 DEF Engine
<1>3. asked' \in Nat /\ 0 \in 0..asked' /\ <<>> \in Seq(Known')
  BY <1>1, StreamAssumption DEF IInv, Asking
<1>4. Polling'
  BY <1>2, <1>3 DEF Polling
<1> QED BY <1>1, <1>4 DEF Base

\* What an action of the Java engine leaves alone, and what it does.
LEMMA ForgeAskKeeps ==
  ASSUME Base, ForgeAsk
  PROVE  Base'
<1>1. /\ Backend = "forge" /\ ~waiting /\ ~conceded /\ asked < MaxPrompts
      /\ asked' = asked + 1 /\ waiting' = TRUE /\ published' = asked + 1
      /\ fate' = [fate EXCEPT ![asked + 1] = "open"]
      /\ UNCHANGED <<seat, conceded, given, quit, misused>>
      /\ UNCHANGED <<inbox, retained, wire, fetched, actions>>
      /\ UNCHANGED <<snapPrompt, pending, held, outbound, replay>>
  BY DEF ForgeAsk, nodeVars, relayVars, clientVars
<1>2. asked \in Nat /\ asked + 1 \in Prompts /\ asked' \in Nat
  BY <1>1, StreamAssumption DEF Base, IInv, Asking, Prompts
<1>3. Asking'
  <2>1. asked' \in 0..MaxPrompts /\ given' \subseteq 1..asked' /\ asked' # 0
    BY <1>1, <1>2, StreamAssumption DEF Base, IInv, Asking
  <2>2. fate' \in [Prompts -> {"unasked", "open", "answered", "passed"}]
    BY <1>1 DEF Base, IInv, Asking
  <2>3. \A p \in Prompts : fate'[p] = "open" <=> (waiting' /\ p = asked')
    BY <1>1, <1>2 DEF Base, IInv, Asking
  <2> QED BY <1>1, <2>1, <2>2, <2>3 DEF Base, IInv, Asking
<1>4. Known' = Known
  BY <1>1 DEF Known
<1>5. Incoming'
  BY <1>1, <1>4, IncomingGrows DEF Base, IInv
<1>6. Outgoing'
  <2>1. Queue(outbound', asked') /\ Queue(replay', asked')
    BY <1>1, <1>2, QueueLater DEF Base, IInv, Outgoing
  <2>2. \A n \in 0..asked : n \in 0..asked'
    BY <1>1, <1>2
  <2> QED BY <1>1, <2>1, <2>2 DEF Base, IInv, Outgoing
<1>7. Polling'
  <2>1. fetched' \in 0..asked'
    BY <1>1, <1>2 DEF Base, Polling
  <2> QED BY <1>1, <1>4, <2>1 DEF Base, Polling
<1> QED BY <1>3, <1>5, <1>6, <1>7 DEF Base, IInv

\* A prompt is shown, for the first time or again.
LEMMA ForgePresentKeeps ==
  ASSUME Base, NEW p \in 1..asked, NEW sent, Queue(sent, asked),
         NEW box \in Seq(Known), Present(p, sent, box),
         UNCHANGED <<seat, asked, waiting, conceded, fate, quit>>,
         UNCHANGED <<retained, wire, pending, held>>
  PROVE  IInv' /\ Known \subseteq Known'
<1>1. asked \in Nat /\ p \in Nat \ {0} /\ p <= asked'
  BY StreamAssumption DEF Base, IInv, Asking
<1>2. given' = IF seat.local THEN given \cup {p} ELSE given
  BY DEF Present
<1>3. Asking'
  BY <1>1, <1>2 DEF Base, IInv, Asking
<1>4. Incoming' /\ Outgoing'
  BY <1>1, PresentKeeps DEF Base, IInv
<1>5. Known \subseteq Known'
  BY <1>2, KnownGrows
<1> QED BY <1>3, <1>4, <1>5 DEF IInv

LEMMA ForgeFetchKeeps ==
  ASSUME Base, NEW b \in Boards, ForgeFetch(b)
  PROVE  Base'
<1>1. /\ Backend = "forge" /\ published # 0 /\ fetched' = published
      /\ UNCHANGED <<seat, asked, waiting, conceded, fate, quit>>
      /\ UNCHANGED <<retained, wire, pending, held>>
      /\ UNCHANGED <<published, actions, misused>>
  BY DEF ForgeFetch, relayVars, clientVars
<1> PICK sent \in Emitted(b) : Present(published, sent, inbox)
  BY DEF ForgeFetch
<1>2. published \in 1..asked /\ inbox \in Seq(Known) /\ Queue(sent, asked)
  BY <1>1, StreamAssumption, EmissionQueued
  DEF Base, IInv, Asking, Incoming, Polling
<1>3. IInv' /\ Known \subseteq Known'
  BY <1>1, <1>2, ForgePresentKeeps
<1>4. Polling'
  <2>1. actions' \in Seq(Known')
    BY <1>1, <1>3, SeqMonotonic DEF Base, Polling
  <2>2. fetched' \in 0..asked'
    BY <1>1, <1>2
  <2> QED BY <1>1, <2>1, <2>2 DEF Base, Polling
<1> QED BY <1>3, <1>4 DEF Base

LEMMA ForgeSubmitKeeps ==
  ASSUME Base, ForgeSubmit
  PROVE  Base'
<1>1. /\ inbox # <<>> /\ inbox' = Tail(inbox)
      /\ actions' = Append(actions, Head(inbox))
      /\ UNCHANGED Books /\ UNCHANGED <<published, fetched, misused>>
      /\ UNCHANGED <<retained, wire>>
      /\ UNCHANGED <<snapPrompt, pending, held, outbound, replay>>
      /\ Backend = "forge"
  BY DEF ForgeSubmit, Books, nodeVars, relayVars, clientVars, historyVars
<1>2. Asking' /\ Known' = Known /\ asked' = asked /\ waiting' = waiting
  BY <1>1, BooksKept DEF Base, IInv, Books
<1>3. Incoming'
  <2>1. inbox' \in Seq(Known)
    BY <1>1, InboxTaken DEF Base, IInv
  <2> QED BY <1>1, <1>2, <2>1 DEF Base, IInv, Incoming, Resumed
<1>4. Outgoing'
  BY <1>1, <1>2 DEF Base, IInv, Outgoing
<1>5. actions' \in Seq(Known)
  BY <1>1, InboxTaken, AppendProperties DEF Base, IInv, Polling
<1> QED BY <1>1, <1>2, <1>3, <1>4, <1>5 DEF Base, IInv, Polling

LEMMA ForgeRejectKeeps ==
  ASSUME Base, ForgeReject
  PROVE  Base'
<1>1. /\ inbox # <<>> /\ Backend = "forge"
      /\ UNCHANGED <<seat, asked, waiting, conceded, fate, quit>>
      /\ UNCHANGED <<retained, wire, pending, held>>
      /\ UNCHANGED <<published, fetched, actions, misused>>
  BY DEF ForgeReject, forgeVars, relayVars, clientVars
<1>2. Tail(inbox) \in Seq(Known)
  BY <1>1, InboxTaken DEF Base, IInv
<1>3. Queue(<<Error>>, asked)
  BY QueueOne DEF Error, Below
<1>4. IInv' /\ Known \subseteq Known'
  <2>1. CASE fetched # 0
    <3> DEFINE sent == <<Error>> box == Tail(inbox)
    <3>1. Present(fetched, sent, box) /\ Queue(sent, asked) /\ box \in Seq(Known)
      BY <1>2, <1>3, <2>1 DEF ForgeReject
    <3>2. fetched \in 1..asked
      BY <2>1, StreamAssumption DEF Base, IInv, Asking, Polling
    <3> HIDE DEF sent, box
    <3> QED BY <1>1, <3>1, <3>2, ForgePresentKeeps
  <2>2. CASE fetched = 0
    <3>1. /\ outbound' = Append(outbound, Error) /\ inbox' = Tail(inbox)
          /\ UNCHANGED <<snapPrompt, given, replay>>
      BY <2>2 DEF ForgeReject
    <3>2. UNCHANGED Books
      BY <1>1, <3>1 DEF Books
    <3>3. Asking' /\ Known' = Known
      BY <3>2, BooksKept DEF Base, IInv
    <3>4. Incoming'
      BY <1>1, <1>2, <3>1, <3>3 DEF Base, IInv, Incoming, Resumed
    <3>5. Queue(outbound', asked)
      <4>1. PICK E : outbound \in Seq(E)
        BY QueueIsSeq DEF Base, IInv, Outgoing
      <4>2. Append(outbound, Error) = outbound \o <<Error>>
        BY <4>1, AppendIsConcat
      <4> QED BY <1>3, <3>1, <4>2, QueueConcat DEF Base, IInv, Outgoing
    <3> QED BY <1>1, <3>1, <3>3, <3>4, <3>5 DEF Base, IInv, Outgoing
  <2> QED BY <2>1, <2>2
<1> QED BY <1>1, <1>4, PollingKept DEF Base

LEMMA ForgeTakeAnswerKeeps ==
  ASSUME Base, ForgeTakeAnswer
  PROVE  Base'
<1>1. /\ waiting /\ waiting' = FALSE /\ actions # <<>>
      /\ actions' = Tail(actions) /\ Backend = "forge"
      /\ fate' = [fate EXCEPT ![asked] = "answered"]
      /\ UNCHANGED <<seat, asked, conceded, given, quit, inbox, retained, wire>>
      /\ UNCHANGED <<snapPrompt, pending, held, outbound, replay>>
      /\ UNCHANGED <<published, fetched>>
  BY DEF ForgeTakeAnswer, nodeVars, relayVars, clientVars
<1>2. IInv'
  BY <1>1, CloseKeeps DEF Base, IInv, Asking, Incoming
<1>3. Known' = Known /\ actions' \in Seq(Known)
  BY <1>1, ActionTaken DEF Base, Known
<1> QED BY <1>1, <1>2, <1>3 DEF Base, Polling

LEMMA ForgeTakeConcedeKeeps ==
  ASSUME Base, ForgeTakeConcede
  PROVE  Base'
<1>1. /\ actions # <<>> /\ Head(actions) = Concede
      /\ waiting' = FALSE /\ conceded' = TRUE
      /\ actions' = Tail(actions) /\ Backend = "forge"
      /\ fate' = IF waiting THEN [fate EXCEPT ![asked] = "passed"] ELSE fate
      /\ UNCHANGED <<seat, asked, given, quit, inbox, retained, wire>>
      /\ UNCHANGED <<snapPrompt, pending, held, outbound, replay>>
      /\ UNCHANGED <<published, fetched, misused>>
  BY DEF ForgeTakeConcede, nodeVars, relayVars, clientVars
<1>2. quit /\ ~seat.local /\ Tail(actions) \in Seq(Known)
  BY <1>1, ActionTaken DEF Base
<1>3. Known' = Known
  BY <1>1 DEF Known
<1>4. IInv'
  <2>1. CASE waiting
    BY <1>1, <1>2, <2>1, CloseKeeps DEF Base, IInv, Asking, Incoming
  <2>2. CASE ~waiting
    <3>1. Asking'
      BY <1>1, <1>2, <2>2 DEF Base, IInv, Asking
    <3>2. Incoming' /\ Outgoing'
      BY <1>1, <1>3 DEF Base, IInv, Incoming, Outgoing, Resumed
    <3> QED BY <3>1, <3>2 DEF IInv
  <2> QED BY <2>1, <2>2
<1> QED BY <1>1, <1>2, <1>3, <1>4 DEF Base, Polling

LEMMA EngineKeepsBase ==
  ASSUME Base, Engine
  PROVE  Base'
<1>1. ASSUME NEW b \in Boards, EnginePlay(b) \/ ForgeFetch(b) PROVE Base'
  BY <1>1, PlayKeepsBase, ForgeFetchKeeps
<1>2. ASSUME Backend = "manabrew" PROVE Base'
  BY <1>2, ManabrewKeepsBase
<1>3. ASSUME Backend # "manabrew"
      PROVE  /\ \A b : ~ManabrewAsk(b)
             /\ ~ManabrewTakeAnswer /\ ~ManabrewReject
             /\ ~ManabrewConcede /\ ~ManabrewTimeout
  BY <1>3 DEF ManabrewAsk, ManabrewTakeAnswer, ManabrewReject,
         ManabrewConcede, ManabrewTimeout
<1> QED BY <1>1, <1>2, <1>3, ForgeAskKeeps, ForgeSubmitKeeps, ForgeRejectKeeps,
           ForgeTakeAnswerKeeps, ForgeTakeConcedeKeeps DEF Engine

LEMMA OthersKeepBase ==
  ASSUME Base, Node \/ Client \/ Faults \/ UNCHANGED vars
  PROVE  Base'
<1>1. UNCHANGED <<asked, waiting, published, fetched, actions, misused, seat>>
  BY DEF Node, NodeSend, NodeReceiveResponse, NodeForgetPrompt,
         NodeReceiveConcede, NodeResumed, NodeReplay, NodeNotices,
         NodeReconnect, Client, ClientAnswer, ClientAnswerLost,
         ClientConcede, ClientReturn, ClientResync, Faults, LinkBreak,
         RelayNoticesHostDrop, RelayRestart, ClientDrop, vars, engineVars,
         forgeVars, historyVars
<1>2. given \subseteq given' /\ (quit => quit')
  <2>1. CASE ClientAnswer
    BY <2>1 DEF ClientAnswer
  <2>2. CASE ClientConcede
    BY <2>2 DEF ClientConcede
  <2>3. CASE ~(ClientAnswer \/ ClientConcede)
    BY <2>3 DEF Node, NodeSend, NodeReceiveResponse, NodeForgetPrompt,
         NodeReceiveConcede, NodeResumed, NodeReplay, NodeNotices,
         NodeReconnect, Client, ClientAnswerLost,
         ClientReturn, ClientResync, Faults, LinkBreak,
         RelayNoticesHostDrop, RelayRestart, ClientDrop, vars, historyVars
  <2> QED BY <2>1, <2>2, <2>3
<1>3. IInv'
  <2>1. CASE UNCHANGED vars
    <3>1. UNCHANGED Books /\ UNCHANGED <<inbox, retained, wire>>
          /\ UNCHANGED <<snapPrompt, pending, held, outbound, replay>>
      BY <2>1 DEF vars, engineVars, nodeVars, relayVars, clientVars,
             historyVars, Books
    <3> QED BY <3>1, BooksKept, IncomingKept DEF Base, IInv, Outgoing, Books
  <2> QED BY <2>1, NodeKeeps, ClientKeeps, FaultsKeep DEF Base
<1>4. Known \subseteq Known'
  BY <1>1, <1>2, KnownGrows
<1> QED BY <1>1, <1>3, <1>4, PollingKept DEF Base

LEMMA StepKeepsBase == Base /\ [Next]_vars => Base'
BY EngineKeepsBase, OthersKeepBase DEF Next

-----------------------------------------------------------------------------
(* The open prompt is on offer                                               *)

LEMMA InitOffer == Init => OfferInv
<1> SUFFICES ASSUME Init PROVE OfferInv
  OBVIOUS
<1>1. snapPrompt = 0 /\ link = "up" /\ hostUp = TRUE /\ replay = <<>>
  BY DEF Init
<1> QED BY <1>1 DEF OfferInv, Attached, NewestLast, Offered

\* The queues hold envelopes; the numbers are numbers.
LEMMA OfferTypes ==
  ASSUME Base
  PROVE  /\ asked \in Nat /\ given \subseteq 1..asked
         /\ \E E : outbound \in Seq(E)
         /\ \E E : replay \in Seq(E)
         /\ wire \in Seq(Known \cup {Resumed})
         /\ held \in 0..asked /\ pending \in 0..asked /\ snapPrompt \in 0..asked
BY StreamAssumption, QueueIsSeq DEF Base, IInv, Asking, Outgoing, Incoming

Hosting == <<link, hostUp, replay>>
Offering == <<Hosting, outbound, seat, snapPrompt, asked, given, forgetting,
              wire, pending, held, client, selfConceded>>

LEMMA OfferKept ==
  ASSUME OfferInv, UNCHANGED Offering
  PROVE  OfferInv'
BY DEF OfferInv, Offering, Hosting, Attached, NewestLast, Offered, UnderWay

\* More boards or errors are queued behind what is there.
LEMMA OfferQuietly ==
  ASSUME Base, OfferInv, NEW sent, \E E : sent \in Seq(E), Quiet(sent),
         outbound' = outbound \o sent,
         UNCHANGED <<Hosting, seat, snapPrompt, asked, given, forgetting,
                     wire, pending, held, client, selfConceded>>
  PROVE  OfferInv'
<1> PICK E : outbound \in Seq(E) /\ sent \in Seq(E)
  BY OfferTypes, CommonSet
<1>1. Quiet(outbound') <=> Quiet(outbound)
  BY QuietConcat
<1>2. \A p : EndsIn(outbound, p) => EndsIn(outbound', p)
  BY EndsInQuiet
<1>3. Attached'
  BY DEF OfferInv, Attached, Hosting
<1>4. NewestLast'
  BY <1>1, <1>2 DEF OfferInv, NewestLast, Hosting
<1>5. Offered'
  BY <1>1 DEF OfferInv, Offered, UnderWay, Hosting
<1> QED BY <1>3, <1>4, <1>5 DEF OfferInv

\* A prompt is queued, for the first time or again: it is the snapshot's.
LEMMA PresentKeepsOffer ==
  ASSUME Base, OfferInv, NEW p, NEW sent, \E E : sent \in Seq(E),
         NEW box, Present(p, sent, box), UNCHANGED <<seat, link, hostUp>>
  PROVE  OfferInv'
<1>1. /\ outbound' = outbound \o sent \o <<Prompt(p)>> /\ replay' = replay
      /\ snapPrompt' = IF seat.local THEN 0 ELSE p
  BY DEF Present
<1> PICK E : outbound \in Seq(E) /\ sent \in Seq(E)
  BY OfferTypes, CommonSet
<1>2. outbound \o sent \in Seq(E)
  BY ConcatParts
<1>3. EndsIn(outbound', p) /\ ~Quiet(outbound')
  BY <1>1, <1>2, EndsInPrompt
<1>4. Attached'
  BY <1>1 DEF OfferInv, Attached
<1>5. NewestLast'
  BY <1>1, <1>3 DEF NewestLast
<1>6. Offered'
  BY <1>3 DEF Offered
<1> QED BY <1>4, <1>5, <1>6 DEF OfferInv

LEMMA EngineKeepsOffer ==
  ASSUME Base, OfferInv, Engine
  PROVE  OfferInv'
<1>1. ASSUME NEW b \in Boards, EnginePlay(b) PROVE OfferInv'
  <2>1. UNCHANGED <<Hosting, seat, snapPrompt, asked, given, forgetting,
                    wire, pending, held, client, selfConceded>>
    BY <1>1 DEF EnginePlay, Hosting, relayVars, clientVars
  <2>2. PICK sent \in Emitted(b) : outbound' = outbound \o sent
    BY <1>1 DEF EnginePlay
  <2> QED BY <2>1, <2>2, EmissionQuiet, OfferQuietly
<1>2. ASSUME NEW b \in Boards, ManabrewAsk(b) PROVE OfferInv'
  <2>1. UNCHANGED <<seat, hostUp>> /\ link' = link
    BY <1>2 DEF ManabrewAsk, relayVars, Present
  <2>2. PICK sent \in Emitted(b) : Present(asked + 1, sent, inbox)
    BY <1>2 DEF ManabrewAsk
  <2> QED BY <2>1, <2>2, EmissionQuiet, PresentKeepsOffer
<1>3. ASSUME NEW b \in Boards, ForgeFetch(b) PROVE OfferInv'
  <2>1. UNCHANGED <<seat, hostUp>> /\ link' = link
    BY <1>3 DEF ForgeFetch, relayVars, Present
  <2>2. PICK sent \in Emitted(b) : Present(published, sent, inbox)
    BY <1>3 DEF ForgeFetch
  <2> QED BY <2>1, <2>2, EmissionQuiet, PresentKeepsOffer
<1>4. ASSUME ManabrewTakeAnswer \/ ManabrewConcede \/ ManabrewTimeout
               \/ ForgeSubmit \/ ForgeTakeAnswer \/ ForgeTakeConcede
      PROVE  OfferInv'
  <2>1. UNCHANGED Offering
    BY <1>4 DEF ManabrewTakeAnswer, ManabrewConcede, ManabrewTimeout,
           ForgeSubmit, ForgeTakeAnswer, ForgeTakeConcede, Offering, Hosting,
           nodeVars, relayVars, clientVars, historyVars
  <2> QED BY <2>1, OfferKept
<1>5. ASSUME ForgeAsk PROVE OfferInv'
  <2>1. /\ asked' = asked + 1
        /\ UNCHANGED <<Hosting, outbound, seat, snapPrompt>>
    BY <1>5 DEF ForgeAsk, Hosting, nodeVars, relayVars
  <2>2. snapPrompt' # asked'
    BY <2>1, OfferTypes
  <2> QED BY <2>1, <2>2 DEF OfferInv, Attached, NewestLast, Offered, Hosting
<1>6. \E E : <<Error>> \in Seq(E)
  <2>1. <<Error>> \in Seq({Error})
    OBVIOUS
  <2> QED BY <2>1
<1>7. ASSUME ManabrewReject PROVE OfferInv'
  <2> DEFINE sent == <<Error>>
  <2>1. UNCHANGED <<seat, hostUp>> /\ link' = link
        /\ Present(asked, sent, Tail(inbox)) /\ \E E : sent \in Seq(E)
    BY <1>6, <1>7 DEF ManabrewReject, relayVars, Present
  <2> HIDE DEF sent
  <2> QED BY <2>1, PresentKeepsOffer
<1>8. ASSUME ForgeReject PROVE OfferInv'
  <2> DEFINE sent == <<Error>>
  <2>1. UNCHANGED <<seat, hostUp, asked, wire, pending, held, client, selfConceded>>
    BY <1>8 DEF ForgeReject, relayVars, clientVars
  <2>2. CASE fetched # 0
    <3>1. Present(fetched, sent, Tail(inbox)) /\ \E E : sent \in Seq(E)
          /\ link' = link
      BY <1>6, <1>8, <2>2 DEF ForgeReject, Present
    <3> HIDE DEF sent
    <3> QED BY <2>1, <3>1, PresentKeepsOffer
  <2>3. CASE fetched = 0
    <3>1. /\ outbound' = Append(outbound, Error)
          /\ UNCHANGED <<snapPrompt, given, forgetting, replay, link>>
      BY <1>8, <2>3 DEF ForgeReject
    <3>2. outbound' = outbound \o sent
      BY <3>1, OfferTypes, AppendIsConcat
    <3>3. Quiet(sent)
      BY DEF Quiet, Error
    <3> HIDE DEF sent
    <3>4. \E E : sent \in Seq(E)
      BY <1>6 DEF sent
    <3>5. UNCHANGED <<Hosting, seat, snapPrompt, asked, given, forgetting,
                      wire, pending, held, client, selfConceded>>
      BY <2>1, <3>1 DEF Hosting
    <3> QED BY <3>2, <3>3, <3>4, <3>5, OfferQuietly
  <2> QED BY <2>2, <2>3
<1> QED BY <1>1, <1>2, <1>3, <1>4, <1>5, <1>7, <1>8 DEF Engine

\* What the relay and the client make of the head of a queue.
LEMMA RelayTakesOffer ==
  ASSUME NEW env, RelayTakes(env), seat' = seat
  PROVE  /\ env.kind = "prompt" =>
              /\ pending' = env.id
              /\ Online => held' = IF selfConceded THEN held ELSE env.id
         /\ env.kind # "prompt" => pending' = pending /\ held' = held
         /\ ~Online => held' = held
<1>1. /\ pending' = IF env.kind = "prompt" THEN env.id ELSE pending
      /\ ClientTakes(Shape(env, cache'))
  BY DEF RelayTakes
<1> DEFINE shown == Shape(env, cache')
<1>2. /\ env.kind = "prompt" => shown = env
      /\ shown.kind = "prompt" => shown = env
  BY DEF Shape
<1>3. /\ Online => held' = ShownPrompt(shown)
      /\ ~Online => held' = held
  BY <1>1 DEF ClientTakes
<1> HIDE DEF shown
<1> QED BY <1>1, <1>2, <1>3 DEF ShownPrompt

LEMMA SendKeepsOffer ==
  ASSUME Base, OfferInv, NodeSend
  PROVE  OfferInv'
<1>1. /\ link \in {"up", "dead"} /\ outbound # <<>> /\ outbound' = Tail(outbound)
      /\ link = "up" => RelayTakes(Head(outbound))
      /\ UNCHANGED <<Hosting, seat, snapPrompt, asked, given, forgetting, wire,
                     client, selfConceded>>
  BY DEF NodeSend, engineVars, historyVars, Hosting
<1> PICK E : outbound \in Seq(E)
  BY OfferTypes
<1> DEFINE env == Head(outbound)
<1>2. /\ EndsIn(outbound, snapPrompt) => EndsIn(outbound', snapPrompt)
      /\ EndsIn(outbound, snapPrompt) /\ Quiet(outbound') =>
            /\ env.kind = "prompt" => env.id = snapPrompt
            /\ env.kind # "prompt" => Quiet(outbound)
  BY <1>1, EndsInTail
<1>3. replay = <<>> /\ Attached'
  BY <1>1 DEF OfferInv, Attached, Hosting
<1>4. EndsIn(<<>>, snapPrompt) /\ Quiet(<<>>)
  BY DEF EndsIn, Quiet
<1>5. NewestLast'
  BY <1>1, <1>2, <1>3, <1>4 DEF OfferInv, NewestLast, Hosting
<1>6. Offered'
  <2> SUFFICES ASSUME link = "up", snapPrompt # 0, snapPrompt = asked,
                      asked \notin given, Quiet(outbound'), ~UnderWay
               PROVE  /\ pending' = asked
                      /\ (client = "on" /\ ~selfConceded) => held' = asked
    BY <1>1 DEF Offered, UnderWay, Hosting
  <2>1. EndsIn(outbound, snapPrompt)
    BY DEF OfferInv, NewestLast
  <2>2. RelayTakes(env)
    BY <1>1
  <2>3. CASE env.kind = "prompt"
    BY <1>1, <1>2, <2>1, <2>2, <2>3, RelayTakesOffer DEF Online
  <2>4. CASE env.kind # "prompt"
    <3>1. Quiet(outbound) /\ Quiet(replay)
      BY <1>2, <1>3, <1>4, <2>1, <2>4
    <3>2. pending' = pending /\ held' = held
      BY <1>1, <2>2, <2>4, RelayTakesOffer
    <3> QED BY <3>1, <3>2 DEF OfferInv, Offered
  <2> QED BY <2>3, <2>4
<1> QED BY <1>3, <1>5, <1>6 DEF OfferInv

LEMMA ReplayKeepsOffer ==
  ASSUME Base, OfferInv, NodeReplay
  PROVE  OfferInv'
<1>1. /\ link = "replaying"
      /\ UNCHANGED <<outbound, seat, snapPrompt, asked, given, forgetting, wire,
                     hostUp, client, selfConceded>>
  BY DEF NodeReplay, engineVars, historyVars
<1>2. CASE replay = <<>>
  <2>1. link' = "up" /\ UNCHANGED <<replay, pending, held>>
    BY <1>2 DEF NodeReplay
  <2> QED BY <1>1, <1>2, <2>1
          DEF OfferInv, Attached, NewestLast, Offered, UnderWay
<1>3. CASE replay # <<>>
  <2> DEFINE env == Head(replay)
  <2>1. RelayTakes(env) /\ replay' = Tail(replay) /\ link' = link
    BY <1>3 DEF NodeReplay
  <2> PICK E : replay \in Seq(E)
    BY OfferTypes
  <2>2. /\ EndsIn(replay, snapPrompt) => EndsIn(replay', snapPrompt)
        /\ EndsIn(replay, snapPrompt) /\ Quiet(replay') =>
              /\ env.kind = "prompt" => env.id = snapPrompt
              /\ env.kind # "prompt" => Quiet(replay)
    BY <1>3, <2>1, EndsInTail
  <2>3. Attached'
    BY <1>1, <2>1 DEF OfferInv, Attached
  <2>4. NewestLast'
    BY <1>1, <2>2 DEF OfferInv, NewestLast
  <2>5. Offered'
    <3> SUFFICES ASSUME snapPrompt # 0, snapPrompt = asked, asked \notin given,
                        Quiet(outbound), Quiet(replay'), ~UnderWay
                 PROVE  /\ pending' = asked
                        /\ (client = "on" /\ ~selfConceded) => held' = asked
      BY <1>1 DEF Offered, UnderWay
    <3>1. EndsIn(replay, snapPrompt)
      BY DEF OfferInv, NewestLast
    <3>2. CASE env.kind = "prompt"
      BY <1>1, <2>1, <2>2, <3>1, <3>2, RelayTakesOffer DEF Online
    <3>3. CASE env.kind # "prompt"
      <4>1. Quiet(replay)
        BY <2>2, <3>1, <3>3
      <4>2. pending' = pending /\ held' = held
        BY <1>1, <2>1, <3>3, RelayTakesOffer
      <4> QED BY <1>1, <4>1, <4>2 DEF OfferInv, Offered
    <3> QED BY <3>2, <3>3
  <2> QED BY <2>3, <2>4, <2>5 DEF OfferInv
<1> QED BY <1>2, <1>3

\* What the node sends ahead of its queue after a resume ends in the snapshot's
\* prompt.
LEMMA ResumedKeepsOffer ==
  ASSUME Base, OfferInv, NodeResumed
  PROVE  OfferInv'
<1> DEFINE shown == IF made = 0 THEN <<>> ELSE <<State(board)>>
           offered == IF snapPrompt = 0 THEN <<>> ELSE <<Prompt(snapPrompt)>>
<1>1. /\ link = "resuming" /\ link' = "replaying" /\ replay' = shown \o offered
      /\ UNCHANGED <<outbound, seat, snapPrompt, hostUp>>
  BY DEF NodeResumed
<1>2. Attached'
  BY <1>1 DEF OfferInv, Attached
<1>3. CASE snapPrompt = 0
  BY <1>1, <1>2, <1>3 DEF OfferInv, NewestLast, Offered
<1>4. CASE snapPrompt # 0
  <2>1. shown \in Seq({State(board)})
    <3>1. <<>> \in Seq({State(board)}) /\ <<State(board)>> \in Seq({State(board)})
      OBVIOUS
    <3> QED BY <3>1
  <2>2. offered = <<Prompt(snapPrompt)>>
    BY <1>4
  <2> HIDE DEF shown, offered
  <2>3. EndsIn(replay', snapPrompt) /\ ~Quiet(replay')
    BY <1>1, <2>1, <2>2, EndsInPrompt
  <2> QED BY <1>1, <1>2, <2>3 DEF OfferInv, NewestLast, Offered
<1> QED BY <1>3, <1>4

LEMMA WireLater ==
  ASSUME NEW E, NEW s \in Seq(E), s # <<>>, Head(s) \notin Responses,
         \E i \in DOMAIN s : s[i] \in Responses
  PROVE  \E i \in DOMAIN Tail(s) : Tail(s)[i] \in Responses
<1> PICK i \in DOMAIN s : s[i] \in Responses
  OBVIOUS
<1> DEFINE k == i - 1
<1>1. k \in 1..(Len(s) - 1) /\ i = k + 1
  BY TailParts
<1>2. k \in DOMAIN Tail(s) /\ Tail(s)[k] = s[i]
  BY <1>1, TailParts
<1> QED BY <1>2

LEMMA WireAppended ==
  ASSUME NEW E, NEW s \in Seq(E), NEW e
  PROVE  /\ (\E i \in DOMAIN s : s[i] \in Responses)
              => \E i \in DOMAIN Append(s, e) : Append(s, e)[i] \in Responses
         /\ e \in Responses
              => \E i \in DOMAIN Append(s, e) : Append(s, e)[i] \in Responses
<1>1. s \in Seq(E \cup {e})
  BY SeqMonotonic
<1>2. /\ Len(Append(s, e)) = Len(s) + 1 /\ Append(s, e) \in Seq(E \cup {e})
      /\ \A i \in 1..Len(s) : Append(s, e)[i] = s[i]
      /\ Append(s, e)[Len(s) + 1] = e
  BY <1>1, AppendProperties
<1>3. DOMAIN s = 1..Len(s) /\ DOMAIN Append(s, e) = 1..(Len(s) + 1) /\ Len(s) \in Nat
  BY <1>2, LenProperties
<1>4. Len(s) + 1 \in DOMAIN Append(s, e) /\ \A i \in DOMAIN s : i \in DOMAIN Append(s, e)
  BY <1>3
<1> QED BY <1>2, <1>3, <1>4

LEMMA NodeKeepsOffer ==
  ASSUME Base, OfferInv, Node
  PROVE  OfferInv'
<1>1. ASSUME NodeReceiveResponse PROVE OfferInv'
  <2>1. /\ UNCHANGED <<Hosting, outbound, seat, snapPrompt, asked, given>>
        /\ ~seat.local => forgetting' = TRUE
    BY <1>1 DEF NodeReceiveResponse, Hosting, historyVars
  <2> QED BY <2>1 DEF OfferInv, Attached, NewestLast, Offered, UnderWay, Hosting
<1>2. ASSUME NodeForgetPrompt PROVE OfferInv'
  <2>1. /\ snapPrompt' = 0 /\ UNCHANGED <<Hosting, seat>>
    BY <1>2 DEF NodeForgetPrompt, relayVars, Hosting
  <2> QED BY <2>1 DEF OfferInv, Attached, NewestLast, Offered, Hosting
<1>3. ASSUME NodeReceiveConcede PROVE OfferInv'
  <2>1. /\ UNCHANGED <<Hosting, outbound, seat, snapPrompt, asked, given,
                       forgetting, pending, held, client, selfConceded>>
        /\ wire # <<>> /\ wire' = Tail(wire) /\ Head(wire) = Concede
    BY <1>3 DEF NodeReceiveConcede, Hosting, nodeVars, clientVars, historyVars
  <2>2. Head(wire) \notin Responses
    BY <2>1 DEF Responses, Concede
  <2>3. UnderWay => UnderWay'
    BY <2>1, <2>2, OfferTypes, WireLater DEF UnderWay
  <2> QED BY <2>1, <2>3 DEF OfferInv, Attached, NewestLast, Offered, Hosting
<1>4. ASSUME NodeNotices PROVE OfferInv'
  <2>1. /\ link = "dead" /\ link' = "down"
        /\ UNCHANGED <<hostUp, replay, outbound, seat, snapPrompt>>
    BY <1>4 DEF NodeNotices, relayVars
  <2> QED BY <2>1 DEF OfferInv, Attached, NewestLast, Offered
<1>5. ASSUME NodeReconnect PROVE OfferInv'
  <2>1. /\ link = "down" /\ link' = "resuming" /\ hostUp' = TRUE
        /\ UNCHANGED <<replay, outbound, seat, snapPrompt>>
    BY <1>5 DEF NodeReconnect
  <2> QED BY <2>1 DEF OfferInv, Attached, NewestLast, Offered
<1> QED BY <1>1, <1>2, <1>3, <1>4, <1>5, SendKeepsOffer, ReplayKeepsOffer,
           ResumedKeepsOffer DEF Node

LEMMA ClientKeepsOffer ==
  ASSUME Base, OfferInv, Client
  PROVE  OfferInv'
<1>1. ASSUME ClientAnswer PROVE OfferInv'
  <2>1. /\ UNCHANGED <<Hosting, outbound, seat, snapPrompt, asked, forgetting>>
        /\ held # 0 /\ Accepted(Response(held))
    BY <1>1 DEF ClientAnswer, engineVars, nodeVars, Hosting
  <2>2. Response(held) \in Responses
    BY <2>1, OfferTypes, StreamAssumption
    DEF Responses, Response, Prompts, Base, IInv, Asking
  <2>3. link \in {"up", "replaying"} => UnderWay'
    <3> SUFFICES ASSUME link \in {"up", "replaying"} PROVE UnderWay'
      OBVIOUS
    <3>1. hostUp
      BY DEF OfferInv, Attached
    <3>2. wire' = Append(wire, Response(held))
      BY <2>1, <3>1 DEF Accepted
    <3> QED BY <2>2, <3>2, OfferTypes, WireAppended DEF UnderWay
  <2> QED BY <2>1, <2>3 DEF OfferInv, Attached, NewestLast, Offered, Hosting
<1>2. ASSUME ClientAnswerLost PROVE OfferInv'
  <2>1. /\ UNCHANGED <<Hosting, outbound, seat, snapPrompt, asked, given,
                       forgetting, wire, pending, client>>
        /\ client # "on"
    BY <1>2 DEF ClientAnswerLost, engineVars, nodeVars, relayVars,
           historyVars, Hosting, Online
  <2> QED BY <2>1 DEF OfferInv, Attached, NewestLast, Offered, Hosting, UnderWay
<1>3. ASSUME ClientConcede PROVE OfferInv'
  <2>1. /\ UNCHANGED <<Hosting, outbound, seat, snapPrompt, asked, given,
                       forgetting, pending>>
        /\ selfConceded' = TRUE
        /\ wire' = Append(wire, Concede) \/ wire' = wire
    BY <1>3 DEF ClientConcede, engineVars, nodeVars, Hosting, Accepted
  <2>2. UnderWay => UnderWay'
    BY <2>1, OfferTypes, WireAppended DEF UnderWay
  <2> QED BY <2>1, <2>2 DEF OfferInv, Attached, NewestLast, Offered, Hosting
<1>4. ASSUME ClientReturn PROVE OfferInv'
  <2>1. /\ UNCHANGED <<Hosting, outbound, seat, snapPrompt, asked, given,
                       forgetting, wire, pending>>
        /\ client' = "back"
    BY <1>4 DEF ClientReturn, engineVars, nodeVars, relayVars, historyVars, Hosting
  <2> QED BY <2>1 DEF OfferInv, Attached, NewestLast, Offered, Hosting, UnderWay
<1>5. ASSUME ClientResync PROVE OfferInv'
  <2>1. /\ UNCHANGED <<Hosting, outbound, seat, snapPrompt, asked, given,
                       forgetting, wire, pending, selfConceded>>
        /\ (pending # 0 /\ ~selfConceded) => held' = pending
    BY <1>5 DEF ClientResync, engineVars, nodeVars, relayVars, historyVars,
           Hosting, ShownPrompt, Prompt
  <2> QED BY <2>1 DEF OfferInv, Attached, NewestLast, Offered, Hosting, UnderWay
<1> QED BY <1>1, <1>2, <1>3, <1>4, <1>5 DEF Client

LEMMA FaultsKeepOffer ==
  ASSUME OfferInv, Faults
  PROVE  OfferInv'
<1>1. ASSUME LinkBreak PROVE OfferInv'
  <2>1. /\ link' = "dead" /\ replay' = <<>>
        /\ UNCHANGED <<outbound, seat, snapPrompt>>
    BY <1>1 DEF LinkBreak
  <2> QED BY <2>1 DEF OfferInv, Attached, NewestLast, Offered, EndsIn
<1>2. ASSUME RelayNoticesHostDrop PROVE OfferInv'
  <2>1. link \in {"dead", "down"} /\ UNCHANGED <<link, replay, outbound, seat, snapPrompt>>
    BY <1>2 DEF RelayNoticesHostDrop, nodeVars
  <2> QED BY <2>1 DEF OfferInv, Attached, NewestLast, Offered
<1>3. ASSUME RelayRestart PROVE OfferInv'
  <2>1. /\ link' \in {"down", "dead"} /\ replay' = <<>>
        /\ UNCHANGED <<outbound, seat, snapPrompt>>
    BY <1>3 DEF RelayRestart
  <2> QED BY <2>1 DEF OfferInv, Attached, NewestLast, Offered, EndsIn
<1>4. ASSUME ClientDrop PROVE OfferInv'
  <2>1. /\ UNCHANGED <<Hosting, outbound, seat, snapPrompt, asked, given,
                       forgetting, wire, pending>>
        /\ client' = "off"
    BY <1>4 DEF ClientDrop, engineVars, nodeVars, relayVars, historyVars, Hosting
  <2> QED BY <2>1 DEF OfferInv, Attached, NewestLast, Offered, Hosting, UnderWay
<1> QED BY <1>1, <1>2, <1>3, <1>4 DEF Faults

LEMMA StepKeepsOffer ==
  ASSUME Base, OfferInv, [Next]_vars
  PROVE  OfferInv'
<1>1. CASE UNCHANGED vars
  <2>1. UNCHANGED Offering
    BY <1>1 DEF vars, engineVars, nodeVars, relayVars, clientVars, historyVars,
           Offering, Hosting
  <2> QED BY <2>1, OfferKept
<1>2. CASE Next
  BY <1>2, EngineKeepsOffer, NodeKeepsOffer, ClientKeepsOffer, FaultsKeepOffer
  DEF Next
<1> QED BY <1>1, <1>2

LEMMA OfferedShown == Base /\ OfferInv => OpenPromptShown
<1> SUFFICES ASSUME Base, OfferInv, Settled, waiting, asked \notin given,
                    snapPrompt = asked, ~forgetting, inbox = <<>>, wire = <<>>
             PROVE  /\ pending = asked
                    /\ (client = "on" /\ ~selfConceded) => held = asked
  BY DEF OpenPromptShown
<1>1. link = "up" /\ replay = <<>> /\ outbound = <<>> /\ asked # 0
  BY DEF Settled, OfferInv, Attached, Base, IInv, Asking
<1>2. Quiet(outbound) /\ Quiet(replay) /\ ~UnderWay
  BY <1>1 DEF Quiet, UnderWay
<1> QED BY <1>1, <1>2 DEF OfferInv, Offered

(* For either engine: a prompt nobody has answered is on offer
  (OpenPromptShown). Through breaks of either link, restarts of the relay and
  answers that come late, once the node has nothing left to send the relay has
  the open prompt cached and an online client shows it.                     *)
THEOREM PromptsReachTheSeat == Spec => []OpenPromptShown
<1>1. Base /\ OfferInv /\ [Next]_vars => (Base /\ OfferInv)'
  BY StepKeepsBase, StepKeepsOffer
<1> QED BY <1>1, InitBase, InitOffer, OfferedShown, PTL DEF Spec

-----------------------------------------------------------------------------
(* The seat of a local bot with the Java engine                              *)

\* The node has seen the open prompt.
Polled == waiting /\ fetched = asked

\* The open prompt, from the poll that shows it until the game takes it, has one
\* answer, in the inbox or in the queue of actions; nothing else gets there,
\* since every prompt the bot's connection can answer is answered already.
BotAnswers ==
    IF Polled
    THEN \/ inbox = <<Response(asked)>> /\ actions = <<>>
         \/ inbox = <<>> /\ actions = <<Response(asked)>>
    ELSE inbox = <<>> /\ actions = <<>>

BotPrompts ==
    /\ botAnswered = IF waiting /\ ~Polled THEN asked - 1 ELSE asked
    /\ (published # 0 /\ ~waiting) => fetched = published
    /\ given \subseteq 1..botAnswered
    /\ pending \in 0..botAnswered /\ held \in 0..botAnswered
    /\ Queue(outbound, botAnswered) /\ Queue(replay, botAnswered)

Bot == seat.local /\ Backend = "forge"

BotInv == Bot => BotAnswers /\ BotPrompts /\ ~misused

LEMMA InitBot == Init => BotInv
<1> SUFFICES ASSUME Init PROVE BotInv
  OBVIOUS
<1>1. BotAnswers
  BY DEF Init, BotAnswers, Polled
<1>2. BotPrompts
  BY QueueEmpty DEF Init, BotPrompts, Polled
<1> QED BY <1>1, <1>2 DEF BotInv, Init

LEMMA BotTypes ==
  ASSUME Base
  PROVE  /\ asked \in Nat /\ waiting \in BOOLEAN /\ fetched \in 0..asked
         /\ published \in {0, asked} /\ (waiting => asked # 0)
         /\ (waiting /\ Backend = "forge") => published = asked
BY StreamAssumption DEF Base, IInv, Asking, Polling

\* The head and the rest of a queue of one.
LEMMA OneElement ==
  ASSUME NEW e
  PROVE  /\ Head(<<e>>) = e /\ Tail(<<e>>) = <<>> /\ Append(<<>>, e) = <<e>>
         /\ <<e>> # <<>>
OBVIOUS

LEMMA EngineKeepsBotInv ==
  ASSUME Base, OfferInv, BotInv, Bot, Engine
  PROVE  BotInv'
<1> USE DEF BotInv
<1>0. BotAnswers /\ BotPrompts /\ ~misused /\ seat' = seat
  BY DEF Engine, EnginePlay, ManabrewAsk, ManabrewTakeAnswer, ManabrewReject,
         ManabrewConcede, ManabrewTimeout, ForgeAsk, ForgeFetch, ForgeSubmit,
         ForgeReject, ForgeTakeAnswer, ForgeTakeConcede
<1>1. ASSUME NEW b \in Boards, EnginePlay(b) PROVE BotInv'
  <2>1. /\ ~waiting /\ published' = 0 /\ fetched' = 0
        /\ actions' = IF actions = <<>> THEN <<>> ELSE Tail(actions)
        /\ misused' = (misused \/ actions # <<>>)
        /\ UNCHANGED <<asked, waiting, inbox, botAnswered, given, pending, held,
                       replay>>
    BY <1>1 DEF EnginePlay, relayVars, clientVars
  <2>2. actions = <<>> /\ inbox = <<>> /\ ~Polled /\ ~Polled'
    BY <1>0, <2>1 DEF BotAnswers, Polled
  <2>3. Queue(outbound', botAnswered)
    <3> PICK sent \in Emitted(b) : outbound' = outbound \o sent
      BY <1>1 DEF EnginePlay
    <3> QED BY <1>0, EmissionQueued, QueueConcat DEF BotPrompts
  <2>4. BotAnswers'
    BY <2>1, <2>2 DEF BotAnswers
  <2>5. BotPrompts'
    BY <1>0, <2>1, <2>2, <2>3 DEF BotPrompts
  <2> QED BY <1>0, <2>1, <2>2, <2>4, <2>5
<1>2. ASSUME ForgeAsk PROVE BotInv'
  <2>1. /\ ~waiting /\ waiting' = TRUE /\ asked' = asked + 1
        /\ UNCHANGED <<fetched, actions, inbox, botAnswered, given, pending, held,
                       outbound, replay, misused>>
    BY <1>2 DEF ForgeAsk, nodeVars, relayVars, clientVars
  <2>2. ~Polled /\ ~Polled' /\ asked' - 1 = asked
    BY <2>1, BotTypes DEF Polled
  <2>3. BotAnswers'
    BY <1>0, <2>1, <2>2 DEF BotAnswers
  <2>4. BotPrompts'
    BY <1>0, <2>1, <2>2 DEF BotPrompts
  <2> QED BY <1>0, <2>1, <2>3, <2>4
<1>3. ASSUME NEW b \in Boards, ForgeFetch(b) PROVE BotInv'
  <2>1. /\ published # 0 /\ fetched # published /\ fetched' = published
        /\ UNCHANGED <<asked, waiting, published, actions, pending, held, misused>>
    BY <1>3 DEF ForgeFetch, relayVars, clientVars
  <2>2. PICK sent \in Emitted(b) : Present(published, sent, inbox)
    BY <1>3 DEF ForgeFetch
  <2>3. waiting /\ published = asked /\ ~Polled /\ Polled'
    BY <1>0, <2>1, BotTypes DEF BotPrompts, Polled, Bot
  <2>4. inbox = <<>> /\ actions = <<>>
    BY <1>0, <2>3 DEF BotAnswers
  <2>5. /\ botAnswered' = asked /\ inbox' = <<Response(asked)>>
        /\ given' = given \cup {asked} /\ replay' = replay
        /\ outbound' = outbound \o sent \o <<Prompt(asked)>>
    BY <2>2, <2>3, <2>4, OneElement DEF Present, Bot
  <2>6. BotAnswers'
    BY <2>1, <2>3, <2>4, <2>5 DEF BotAnswers
  <2>7. /\ Queue(outbound', asked) /\ Queue(replay', asked)
        /\ given' \subseteq 1..asked
        /\ pending' \in 0..asked /\ held' \in 0..asked
    <3>1. asked \in Nat \ {0} /\ asked <= asked /\ asked \in Nat
      BY <2>3, BotTypes
    <3>2. Queue(outbound \o sent, asked)
      BY <2>2, EmissionQueued, QueueConcat DEF Base, IInv, Outgoing
    <3>3. Queue(outbound', asked)
      BY <2>5, <3>1, <3>2, PromptQueued, QueueConcat
    <3>4. given' \subseteq 1..asked
      BY <2>5, <3>1 DEF Base, IInv, Asking
    <3> QED BY <2>1, <2>5, <3>3, <3>4 DEF Base, IInv, Outgoing
  <2>8. BotPrompts'
    BY <2>1, <2>3, <2>5, <2>7 DEF BotPrompts
  <2> QED BY <1>0, <2>1, <2>6, <2>8
<1>4. ASSUME ForgeSubmit PROVE BotInv'
  <2>1. /\ inbox # <<>> /\ inbox' = Tail(inbox)
        /\ actions' = Append(actions, Head(inbox))
        /\ UNCHANGED <<asked, waiting, published, fetched, botAnswered, given,
                       pending, held, outbound, replay, misused>>
    BY <1>4 DEF ForgeSubmit, nodeVars, relayVars, clientVars, historyVars
  <2>2. Polled /\ inbox = <<Response(asked)>> /\ actions = <<>>
    BY <1>0, <2>1 DEF BotAnswers
  <2>3. inbox' = <<>> /\ actions' = <<Response(asked)>>
    BY <2>1, <2>2, OneElement
  <2>4. BotAnswers' /\ BotPrompts'
    BY <1>0, <2>1, <2>2, <2>3 DEF BotAnswers, BotPrompts, Polled
  <2> QED BY <1>0, <2>1, <2>4
<1>5. ~ForgeReject
  <2> SUFFICES ASSUME ForgeReject PROVE FALSE
    OBVIOUS
  <2>1. inbox # <<>> /\ Head(inbox) # Response(fetched)
    BY DEF ForgeReject
  <2>2. Polled /\ inbox = <<Response(asked)>>
    BY <1>0, <2>1 DEF BotAnswers
  <2> QED BY <2>1, <2>2, OneElement DEF Polled
<1>6. ASSUME ForgeTakeAnswer PROVE BotInv'
  <2>1. /\ waiting /\ waiting' = FALSE /\ actions # <<>>
        /\ actions' = Tail(actions)
        /\ misused' = (misused \/ Head(actions) # Response(asked))
        /\ UNCHANGED <<asked, inbox, published, fetched, botAnswered, given,
                       pending, held, outbound, replay>>
    BY <1>6 DEF ForgeTakeAnswer, nodeVars, relayVars, clientVars
  <2>2. Polled /\ inbox = <<>> /\ actions = <<Response(asked)>> /\ ~Polled'
    BY <1>0, <2>1 DEF BotAnswers, Polled
  <2>3. actions' = <<>> /\ ~misused'
    BY <1>0, <2>1, <2>2, OneElement
  <2>4. BotAnswers'
    BY <2>1, <2>2, <2>3 DEF BotAnswers
  <2>5. published = asked
    BY <2>1, BotTypes DEF Bot
  <2>6. BotPrompts'
    BY <1>0, <2>1, <2>2, <2>5 DEF BotPrompts, Polled
  <2> QED BY <2>3, <2>4, <2>6
<1>7. ~ForgeTakeConcede
  <2>1. ForgeTakeConcede => actions # <<>> /\ Head(actions) = Concede
    BY DEF ForgeTakeConcede
  <2> QED BY <2>1, ActionTaken DEF Base, Bot
<1>8. /\ \A b : ~ManabrewAsk(b)
      /\ ~ManabrewTakeAnswer /\ ~ManabrewReject
      /\ ~ManabrewConcede /\ ~ManabrewTimeout
  BY DEF Bot, ManabrewAsk, ManabrewTakeAnswer, ManabrewReject,
         ManabrewConcede, ManabrewTimeout
<1> QED BY <1>1, <1>2, <1>3, <1>4, <1>5, <1>6, <1>7, <1>8 DEF Engine

\* A step that shows the bot's connection at most what is answered already.
LEMMA BotKept ==
  ASSUME BotInv,
         UNCHANGED <<asked, waiting, inbox, published, fetched, actions,
                     botAnswered, misused, seat>>,
         Bot => /\ given' \subseteq 1..botAnswered
                /\ pending' \in 0..botAnswered /\ held' \in 0..botAnswered
                /\ Queue(outbound', botAnswered) /\ Queue(replay', botAnswered)
  PROVE  BotInv'
BY DEF BotInv, Bot, BotAnswers, BotPrompts, Polled

LEMMA RelayTakesBelow ==
  ASSUME NEW n, NEW env, Below(env, n), pending \in 0..n, held \in 0..n,
         n \in Nat, RelayTakes(env), seat' = seat
  PROVE  pending' \in 0..n /\ held' \in 0..n
<1>1. CASE env.kind = "prompt"
  <2>1. env.id \in 0..n
    BY <1>1 DEF Below
  <2>2. pending' = env.id /\ (held' = held \/ held' = env.id)
    BY <1>1, RelayTakesOffer
  <2> QED BY <2>1, <2>2
<1>2. CASE env.kind # "prompt"
  <2>1. pending' = pending /\ held' = held
    BY <1>2, RelayTakesOffer
  <2> QED BY <2>1
<1> QED BY <1>1, <1>2

LEMMA OthersKeepBotInv ==
  ASSUME Base, OfferInv, BotInv, Node \/ Client \/ Faults \/ UNCHANGED vars
  PROVE  BotInv'
<1>0. seat' = seat
  BY DEF Node, NodeSend, NodeReceiveResponse, NodeForgetPrompt,
         NodeReceiveConcede, NodeResumed, NodeReplay, NodeNotices,
         NodeReconnect, Client, ClientAnswer, ClientAnswerLost,
         ClientConcede, ClientReturn, ClientResync, Faults, LinkBreak,
         RelayNoticesHostDrop, RelayRestart, ClientDrop, vars
<1> SUFFICES ASSUME Bot PROVE BotInv'
  BY <1>0 DEF BotInv, Bot
<1>01. BotAnswers /\ BotPrompts /\ ~misused /\ seat.local
  BY DEF BotInv, Bot
<1>02. botAnswered \in Nat
  BY <1>01, BotTypes DEF BotPrompts
<1> DEFINE Still == UNCHANGED <<asked, waiting, inbox, published, fetched,
                                actions, botAnswered, misused, seat>>
           Ahead == /\ given' \subseteq 1..botAnswered
                    /\ pending' \in 0..botAnswered /\ held' \in 0..botAnswered
                    /\ Queue(outbound', botAnswered)
                    /\ Queue(replay', botAnswered)
<1> SUFFICES Still /\ Ahead
  BY BotKept
<1>1. ASSUME NodeReceiveResponse PROVE Still /\ Ahead
  <2>1. /\ wire # <<>> /\ Head(wire) \in Responses
        /\ UNCHANGED <<asked, waiting, published, fetched, actions, botAnswered,
                       misused, seat, given, pending, held, outbound, replay>>
        /\ Head(wire).id <= botAnswered => inbox' = inbox
    BY <1>01, <1>1 DEF NodeReceiveResponse, forgeVars, clientVars, historyVars
  <2>2. Head(wire) \in Known \cup {Resumed}
    BY <2>1, WireTaken DEF Base, IInv
  <2>3. PICK p \in given : Head(wire) = Response(p)
    BY <2>1, <2>2 DEF Known, Resumed, Concede, Responses
  <2>4. Head(wire).id <= botAnswered
    BY <1>01, <1>02, <2>3 DEF BotPrompts, Response
  <2> QED BY <1>01, <2>1, <2>4 DEF BotPrompts
<1>2. ~NodeReceiveConcede
  <2>1. NodeReceiveConcede => wire # <<>> /\ Head(wire) = Concede
    BY DEF NodeReceiveConcede
  <2> QED BY <1>01, <2>1, WireOfBot DEF Base
<1>3. ASSUME NodeSend PROVE Still /\ Ahead
  <2>1. /\ Still /\ outbound # <<>> /\ outbound' = Tail(outbound)
        /\ UNCHANGED <<given, replay>>
        /\ RelayTakes(Head(outbound)) \/ UNCHANGED <<pending, held>>
    BY <1>3 DEF NodeSend, engineVars, forgeVars, historyVars
  <2>2. Below(Head(outbound), botAnswered) /\ Queue(outbound', botAnswered)
    BY <1>01, <2>1, QueueHeadTail DEF BotPrompts
  <2>3. pending' \in 0..botAnswered /\ held' \in 0..botAnswered
    BY <1>0, <1>01, <1>02, <2>1, <2>2, RelayTakesBelow DEF BotPrompts
  <2> QED BY <1>01, <2>1, <2>2, <2>3 DEF BotPrompts
<1>4. ASSUME NodeReplay PROVE Still /\ Ahead
  <2>1. Still /\ UNCHANGED <<given, outbound>>
    BY <1>4 DEF NodeReplay, engineVars, forgeVars, historyVars
  <2>2. CASE replay = <<>>
    <3>1. UNCHANGED <<replay, pending, held>>
      BY <1>4, <2>2 DEF NodeReplay
    <3> QED BY <1>01, <2>1, <3>1 DEF BotPrompts
  <2>3. CASE replay # <<>>
    <3>1. RelayTakes(Head(replay)) /\ replay' = Tail(replay)
      BY <1>4, <2>3 DEF NodeReplay
    <3>2. Below(Head(replay), botAnswered) /\ Queue(replay', botAnswered)
      BY <1>01, <2>3, <3>1, QueueHeadTail DEF BotPrompts
    <3>3. pending' \in 0..botAnswered /\ held' \in 0..botAnswered
      BY <1>0, <1>01, <1>02, <3>1, <3>2, RelayTakesBelow DEF BotPrompts
    <3> QED BY <1>01, <2>1, <3>2, <3>3 DEF BotPrompts
  <2> QED BY <2>2, <2>3
<1>5. ASSUME NodeResumed PROVE Still /\ Ahead
  <2>1. /\ Still /\ UNCHANGED <<given, pending, held, outbound>>
        /\ replay' = (IF made = 0 THEN <<>> ELSE <<State(board)>>)
                       \o (IF snapPrompt = 0 THEN <<>> ELSE <<Prompt(snapPrompt)>>)
    BY <1>5 DEF NodeResumed, engineVars, forgeVars, clientVars, historyVars
  <2>2. snapPrompt = 0
    BY <1>01 DEF OfferInv, NewestLast
  <2> DEFINE shown == IF made = 0 THEN <<>> ELSE <<State(board)>>
  <2>3. replay' = shown \o <<>>
    BY <2>1, <2>2
  <2>4. Queue(shown, botAnswered)
    <3>1. Below(State(board), botAnswered)
      BY DEF State, Below
    <3> QED BY <3>1, QueueEmpty, QueueOne
  <2> HIDE DEF shown
  <2>5. Queue(replay', botAnswered)
    BY <2>3, <2>4, QueueEmpty, QueueConcat
  <2> QED BY <1>01, <2>1, <2>5 DEF BotPrompts
<1>6. ASSUME NodeForgetPrompt \/ NodeNotices \/ NodeReconnect \/ UNCHANGED vars
               \/ ClientReturn
      PROVE  Still /\ Ahead
  <2>1. Still /\ UNCHANGED <<given, pending, held, outbound, replay>>
    BY <1>6 DEF NodeForgetPrompt, NodeNotices, NodeReconnect, ClientReturn, vars,
           engineVars, forgeVars, nodeVars, relayVars, clientVars, historyVars
  <2> QED BY <1>01, <2>1 DEF BotPrompts
<1>7. ASSUME ClientAnswer PROVE Still /\ Ahead
  <2>1. /\ Still /\ held # 0 /\ held' = 0 /\ pending' = 0
        /\ given' = given \cup {held} /\ UNCHANGED <<outbound, replay>>
    BY <1>7 DEF ClientAnswer, engineVars, forgeVars, nodeVars
  <2>2. held \in 1..botAnswered /\ 0 \in 0..botAnswered
    BY <1>01, <1>02, <2>1 DEF BotPrompts
  <2> QED BY <1>01, <2>1, <2>2 DEF BotPrompts
<1>8. ASSUME ClientAnswerLost PROVE Still /\ Ahead
  <2>1. Still /\ held' = 0 /\ UNCHANGED <<given, pending, outbound, replay>>
    BY <1>8 DEF ClientAnswerLost, engineVars, forgeVars, nodeVars, relayVars,
           historyVars
  <2>2. 0 \in 0..botAnswered
    BY <1>02
  <2> QED BY <1>01, <2>1, <2>2 DEF BotPrompts
<1>9. ~ClientConcede
  BY <1>01 DEF ClientConcede
<1>10. ASSUME ClientResync PROVE Still /\ Ahead
  <2>1. /\ Still /\ UNCHANGED <<given, pending, outbound, replay>>
        /\ held' = held \/ held' = pending
    BY <1>10 DEF ClientResync, engineVars, forgeVars, nodeVars, relayVars,
           historyVars, ShownPrompt, Prompt
  <2> QED BY <1>01, <2>1 DEF BotPrompts
<1>11. ASSUME Faults PROVE Still /\ Ahead
  <2>1. Still /\ UNCHANGED <<given, held, outbound>>
    BY <1>11 DEF Faults, LinkBreak, RelayNoticesHostDrop, RelayRestart,
           ClientDrop, engineVars, forgeVars, nodeVars, clientVars, historyVars
  <2>2. /\ replay' = replay \/ replay' = <<>>
        /\ pending' = pending \/ pending' = 0
    BY <1>11 DEF Faults, LinkBreak, RelayNoticesHostDrop, RelayRestart,
           ClientDrop, nodeVars, relayVars
  <2>3. Queue(replay', botAnswered)
    BY <1>01, <2>2, QueueEmpty DEF BotPrompts
  <2>4. pending' \in 0..botAnswered
    BY <1>01, <1>02, <2>2 DEF BotPrompts
  <2> QED BY <1>01, <2>1, <2>3, <2>4 DEF BotPrompts
<1> HIDE DEF Still, Ahead
<1> QED BY <1>1, <1>2, <1>3, <1>4, <1>5, <1>6, <1>7, <1>8, <1>9, <1>10, <1>11
        DEF Node, Client

LEMMA StepKeepsBotInv ==
  ASSUME Base, OfferInv, BotInv, [Next]_vars
  PROVE  BotInv'
<1>1. CASE Engine /\ Bot
  BY <1>1, EngineKeepsBotInv
<1>2. CASE Engine /\ ~Bot
  <2>1. seat' = seat
    BY <1>2 DEF Engine, EnginePlay, ManabrewAsk, ManabrewTakeAnswer,
         ManabrewReject, ManabrewConcede, ManabrewTimeout, ForgeAsk, ForgeFetch,
         ForgeSubmit, ForgeReject, ForgeTakeAnswer, ForgeTakeConcede
  <2> QED BY <1>2, <2>1 DEF BotInv, Bot
<1>3. CASE Node \/ Client \/ Faults \/ UNCHANGED vars
  BY <1>3, OthersKeepBotInv
<1> QED BY <1>1, <1>2, <1>3 DEF Next

(* With either engine the seat of a local bot gets one answer to each prompt,
  the node's own (LocalBotOnce): the copies its connection sends through the
  relay are for prompts the node has answered before the connection saw them,
  and are dropped.                                                          *)
THEOREM BotsOfAnyEngineAnswerOnce == Spec => []LocalBotOnce
<1>1. ASSUME Backend = "forge" PROVE BotInv => LocalBotOnce
  <2> SUFFICES ASSUME BotInv, seat.local, inbox \o actions # <<>>
               PROVE  waiting /\ inbox \o actions = <<Response(asked)>>
    BY DEF LocalBotOnce
  <2>1. BotAnswers
    BY <1>1 DEF BotInv, Bot
  <2>2. /\ <<Response(asked)>> \o <<>> = <<Response(asked)>>
        /\ <<>> \o <<Response(asked)>> = <<Response(asked)>> /\ <<>> \o <<>> = <<>>
    OBVIOUS
  <2> QED BY <2>1, <2>2 DEF BotAnswers, Polled
<1>2. ASSUME Backend = "forge" PROVE Spec => []LocalBotOnce
  <2>1. Base /\ OfferInv /\ BotInv /\ [Next]_vars => (Base /\ OfferInv /\ BotInv)'
    BY StepKeepsBase, StepKeepsOffer, StepKeepsBotInv
  <2>2. BotInv => LocalBotOnce
    BY <1>1, <1>2
  <2> QED BY <2>1, <2>2, InitBase, InitOffer, InitBot, PTL DEF Spec
<1>3. ASSUME Backend = "manabrew" PROVE Spec => []LocalBotOnce
  BY <1>3, BotsAnswerOnce
<1> QED BY <1>2, <1>3, StreamAssumption

-----------------------------------------------------------------------------
(* A person's seat with the Java engine, while no fault has happened         *)

\* Everything the seat gave and the game has not taken, oldest first.
Pipe == actions \o (inbox \o wire)

\* The pipe holds at most one answer, to the open prompt, and behind it at most
\* the concession.
PipeShape ==
    \/ Pipe = <<>>
    \/ Pipe = <<Response(asked)>>
    \/ Pipe = <<Concede>>
    \/ Pipe = <<Response(asked), Concede>>

Answered == Pipe = <<Response(asked)>> \/ Pipe = <<Response(asked), Concede>>

\* Until the player concedes, the open prompt is in one place: in the node's
\* queue, on the screen, or answered and in the pipe.
SmoothInv ==
    /\ link = "up" /\ client = "on"
    /\ PipeShape
    /\ Answered => Polled
    /\ selfConceded => held = 0
    /\ ~selfConceded => (Pipe = <<>> \/ Pipe = <<Response(asked)>>) /\ ~conceded
    /\ held # 0 => held = asked /\ Polled /\ Quiet(outbound) /\ Pipe = <<>>
    /\ (~selfConceded /\ ~Quiet(outbound)) =>
          Polled /\ Pipe = <<>> /\ Sole(outbound, asked)
    /\ (published # 0 /\ ~waiting) => fetched = published \/ conceded
    /\ conceded => Pipe = <<>>
    /\ ~misused

NoFault == FaultsSoFar = 0

Person == ~seat.local /\ Backend = "forge"

FaultTypes == drops \in Nat /\ clientDrops \in Nat /\ restarts \in Nat

Smooth == FaultTypes /\ (NoFault /\ Person => SmoothInv)

LEMMA EmptyConcat ==
  ASSUME NEW E, NEW s \in Seq(E)
  PROVE  s \o <<>> = s /\ <<>> \o s = s
BY ConcatEmptySeq

\* The head of one queue goes to the end of the queue before it.
LEMMA HeadMoves ==
  ASSUME NEW E, NEW s \in Seq(E), NEW t \in Seq(E), t # <<>>
  PROVE  Append(s, Head(t)) \o Tail(t) = s \o t
<1>1. /\ Head(t) \in E /\ Tail(t) \in Seq(E)
      /\ <<Head(t)>> \in Seq(E) /\ <<Head(t)>> \o Tail(t) = t
  <2>1. Head(t) \in E /\ Tail(t) \in Seq(E)
    BY HeadTailProperties
  <2>2. <<Head(t)>> \in Seq(E)
    BY <2>1
  <2> DEFINE u == <<Head(t)>>
  <2>3. Len(u) = 1 /\ u[1] = Head(t) /\ u \in Seq(E)
    BY <2>2
  <2> HIDE DEF u
  <2> DEFINE r == Tail(t)
  <2>4. /\ r \in Seq(E) /\ Len(t) \in Nat /\ Len(t) > 0 /\ Len(r) = Len(t) - 1
        /\ t[1] = Head(t) /\ \A i \in 1..(Len(t) - 1) : r[i] = t[i + 1]
    BY TailParts
  <2> HIDE DEF r
  <2>5. /\ u \o r \in Seq(E) /\ Len(u \o r) = 1 + Len(r)
        /\ (u \o r)[1] = u[1]
        /\ \A i \in 1..Len(r) : (u \o r)[1 + i] = r[i]
    <3>1. /\ u \o r \in Seq(E) /\ Len(u \o r) = Len(u) + Len(r)
          /\ \A i \in 1..Len(u) : (u \o r)[i] = u[i]
          /\ \A i \in 1..Len(r) : (u \o r)[Len(u) + i] = r[i]
      <4>1. u \in Seq(E) /\ r \in Seq(E)
        BY <2>3, <2>4
      <4> QED BY <4>1, ConcatParts
    <3>2. 1 \in 1..Len(u)
      BY <2>3
    <3> QED BY <2>3, <3>1, <3>2
  <2>6. ASSUME NEW i \in 1..Len(t) PROVE (u \o r)[i] = t[i]
    <3>1. CASE i = 1
      BY <2>3, <2>4, <2>5, <3>1
    <3>2. CASE i # 1
      <4> DEFINE k == i - 1
      <4>1. k \in 1..(Len(t) - 1) /\ k \in 1..Len(r) /\ i = 1 + k /\ i = k + 1
        BY <2>4, <3>2
      <4> QED BY <2>4, <2>5, <4>1
    <3> QED BY <3>1, <3>2
  <2>7. Len(u \o r) = Len(t)
    BY <2>4, <2>5
  <2>8. u \o r = t
    BY <2>5, <2>6, <2>7, SeqEqual
  <2> QED BY <2>1, <2>2, <2>8 DEF u, r
<1>2. Append(s, Head(t)) = s \o <<Head(t)>>
  BY <1>1, AppendIsConcat
<1>3. (s \o <<Head(t)>>) \o Tail(t) = s \o (<<Head(t)>> \o Tail(t))
  BY <1>1, ConcatAssociative
<1> QED BY <1>1, <1>2, <1>3

LEMMA HeadOfConcat ==
  ASSUME NEW E, NEW s \in Seq(E), NEW t \in Seq(E), s # <<>>
  PROVE  /\ s \o t # <<>> /\ Head(s \o t) = Head(s)
         /\ Tail(s \o t) = Tail(s) \o t
<1> DEFINE u == s \o t
<1>1. /\ u \in Seq(E) /\ Len(u) = Len(s) + Len(t) /\ Len(s) > 0
      /\ Len(s) \in Nat /\ Len(t) \in Nat
      /\ \A i \in 1..Len(s) : u[i] = s[i]
      /\ \A i \in 1..Len(t) : u[Len(s) + i] = t[i]
  BY ConcatParts, TailParts
<1> HIDE DEF u
<1>2. u # <<>>
  BY <1>1
<1>3. Head(u) = Head(s)
  <2>1. Head(u) = u[1] /\ Head(s) = s[1] /\ 1 \in 1..Len(s)
    BY <1>1, <1>2, TailParts
  <2> QED BY <1>1, <2>1
<1>4. /\ Tail(u) \in Seq(E) /\ Len(Tail(u)) = Len(s) + Len(t) - 1
      /\ \A i \in 1..(Len(u) - 1) : Tail(u)[i] = u[i + 1]
  BY <1>1, <1>2, TailParts
<1>5. /\ Tail(s) \in Seq(E) /\ Len(Tail(s)) = Len(s) - 1
      /\ \A i \in 1..(Len(s) - 1) : Tail(s)[i] = s[i + 1]
  BY TailParts
<1>6. /\ Tail(s) \o t \in Seq(E) /\ Len(Tail(s) \o t) = Len(s) - 1 + Len(t)
      /\ \A i \in 1..(Len(s) - 1) : (Tail(s) \o t)[i] = Tail(s)[i]
      /\ \A i \in 1..Len(t) : (Tail(s) \o t)[Len(s) - 1 + i] = t[i]
  BY <1>5, ConcatParts
<1>7. ASSUME NEW i \in 1..(Len(s) + Len(t) - 1)
      PROVE  Tail(u)[i] = (Tail(s) \o t)[i]
  <2>1. Tail(u)[i] = u[i + 1]
    BY <1>1, <1>4
  <2>2. CASE i <= Len(s) - 1
    <3>1. i \in 1..(Len(s) - 1) /\ i + 1 \in 1..Len(s)
      BY <1>1, <2>2
    <3> QED BY <1>1, <1>5, <1>6, <2>1, <3>1
  <2>3. CASE ~(i <= Len(s) - 1)
    <3> DEFINE k == i + 1 - Len(s)
    <3>1. k \in 1..Len(t) /\ i + 1 = Len(s) + k /\ i = Len(s) - 1 + k
      BY <1>1, <2>3
    <3>2. u[Len(s) + k] = t[k] /\ (Tail(s) \o t)[Len(s) - 1 + k] = t[k]
      BY <1>1, <1>6, <3>1
    <3> QED BY <2>1, <3>1, <3>2
  <2> QED BY <2>2, <2>3
<1>8. Len(s) - 1 + Len(t) = Len(s) + Len(t) - 1
  BY <1>1
<1>9. Tail(u) = Tail(s) \o t
  BY <1>4, <1>6, <1>7, <1>8, SeqEqual
<1> QED BY <1>2, <1>3, <1>9 DEF u

LEMMA AppendBehind ==
  ASSUME NEW E, NEW s \in Seq(E), NEW t \in Seq(E), NEW e \in E
  PROVE  s \o Append(t, e) = Append(s \o t, e)
<1>1. <<e>> \in Seq(E) /\ s \o t \in Seq(E)
  BY ConcatParts
<1>2. Append(t, e) = t \o <<e>> /\ Append(s \o t, e) = (s \o t) \o <<e>>
  BY <1>1, AppendIsConcat
<1>3. (s \o t) \o <<e>> = s \o (t \o <<e>>)
  BY <1>1, ConcatAssociative
<1> QED BY <1>2, <1>3

Carried == Known \cup {Resumed}

LEMMA PipeTypes ==
  ASSUME Base
  PROVE  /\ actions \in Seq(Carried) /\ inbox \in Seq(Carried)
         /\ wire \in Seq(Carried) /\ inbox \o wire \in Seq(Carried)
         /\ Pipe \in Seq(Carried)
<1>1. Known \subseteq Carried
  BY DEF Carried
<1>2. /\ actions \in Seq(Carried) /\ inbox \in Seq(Carried)
      /\ wire \in Seq(Carried)
  BY <1>1, SeqMonotonic DEF Base, IInv, Incoming, Polling, Carried
<1>3. inbox \o wire \in Seq(Carried)
  BY <1>2, ConcatParts
<1> QED BY <1>2, <1>3, ConcatParts DEF Pipe

\* An input travels.
LEMMA Delivered ==
  ASSUME Base, wire # <<>>, inbox' = Append(inbox, Head(wire)),
         wire' = Tail(wire), actions' = actions
  PROVE  Pipe' = Pipe
<1>1. inbox' \o wire' = inbox \o wire
  BY PipeTypes, HeadMoves
<1> QED BY <1>1 DEF Pipe

LEMMA Submitted ==
  ASSUME Base, inbox # <<>>, actions' = Append(actions, Head(inbox)),
         inbox' = Tail(inbox), wire' = wire
  PROVE  Pipe' = Pipe
<1>1. /\ inbox \o wire # <<>> /\ Head(inbox \o wire) = Head(inbox)
      /\ Tail(inbox \o wire) = inbox' \o wire'
  BY PipeTypes, HeadOfConcat
<1>2. Append(actions, Head(inbox \o wire)) \o Tail(inbox \o wire)
        = actions \o (inbox \o wire)
  BY <1>1, PipeTypes, HeadMoves
<1> QED BY <1>1, <1>2 DEF Pipe

LEMMA Taken ==
  ASSUME Base, actions # <<>>, actions' = Tail(actions),
         UNCHANGED <<inbox, wire>>
  PROVE  Pipe # <<>> /\ Head(Pipe) = Head(actions) /\ Pipe' = Tail(Pipe)
BY PipeTypes, HeadOfConcat DEF Pipe

LEMMA Given ==
  ASSUME Base, NEW e \in Inputs, wire' = Append(wire, e),
         UNCHANGED <<actions, inbox>>
  PROVE  Pipe' = Append(Pipe, e)
<1> DEFINE E == Carried \cup {e}
<1>1. Carried \subseteq E
  OBVIOUS
<1>2. /\ actions \in Seq(E) /\ inbox \in Seq(E) /\ wire \in Seq(E)
      /\ inbox \o wire \in Seq(E) /\ e \in E
  BY <1>1, PipeTypes, SeqMonotonic
<1> HIDE DEF E
<1>3. inbox \o Append(wire, e) = Append(inbox \o wire, e)
  BY <1>2, AppendBehind
<1>4. actions \o Append(inbox \o wire, e) = Append(actions \o (inbox \o wire), e)
  BY <1>2, AppendBehind
<1> QED BY <1>3, <1>4 DEF Pipe

\* What lies in the inbox lies in the pipe.
LEMMA InPipe ==
  ASSUME Base, inbox # <<>>
  PROVE  \E i \in DOMAIN Pipe : Pipe[i] = Head(inbox)
<1>1. /\ inbox \o wire # <<>> /\ Head(inbox \o wire) = Head(inbox)
  BY PipeTypes, HeadOfConcat
<1> DEFINE t == inbox \o wire
<1>2. t \in Seq(Carried) /\ t # <<>> /\ Head(t) = Head(inbox)
  BY <1>1, PipeTypes
<1> HIDE DEF t
<1>3. t[1] = Head(inbox) /\ Len(t) \in Nat /\ Len(t) > 0
  BY <1>2, TailParts
<1>4. 1 \in 1..Len(t)
  BY <1>3
<1>5. /\ DOMAIN (actions \o t) = 1..(Len(actions) + Len(t))
      /\ (actions \o t)[Len(actions) + 1] = t[1] /\ Len(actions) \in Nat
  BY <1>2, <1>4, PipeTypes, ConcatParts
<1>6. Len(actions) + 1 \in DOMAIN (actions \o t)
  BY <1>3, <1>5
<1> QED BY <1>3, <1>5, <1>6 DEF Pipe, t

LEMMA SoleTail ==
  ASSUME NEW E, NEW s \in Seq(E), NEW p, s # <<>>
  PROVE  /\ Quiet(s) => Quiet(Tail(s)) /\ Head(s).kind # "prompt"
         /\ (Quiet(Tail(s)) /\ Head(s).kind # "prompt") => Quiet(s)
         /\ Sole(s, p) => Sole(Tail(s), p)
         /\ (Sole(s, p) /\ Head(s).kind = "prompt")
              => Head(s).id = p /\ Quiet(Tail(s))
<1>1. \A j \in DOMAIN s : j = 1 \/ (j - 1 \in DOMAIN Tail(s) /\ s[j] = Tail(s)[j - 1])
  <2> TAKE j \in DOMAIN s
  <2> DEFINE k == j - 1
  <2>1. j = 1 \/ (k \in 1..(Len(s) - 1) /\ k + 1 = j)
    BY TailParts
  <2> QED BY <2>1, TailParts
<1>2. \A j \in DOMAIN Tail(s) :
         j + 1 \in DOMAIN s /\ j \in Nat /\ j > 0 /\ Tail(s)[j] = s[j + 1]
  BY TailParts
<1>3. 1 \in DOMAIN s /\ Head(s) = s[1]
  BY TailParts
<1>4. Quiet(s) => Quiet(Tail(s)) /\ Head(s).kind # "prompt"
  BY <1>2, <1>3 DEF Quiet
<1>5. (Quiet(Tail(s)) /\ Head(s).kind # "prompt") => Quiet(s)
  BY <1>1, <1>3 DEF Quiet
<1>6. ASSUME Sole(s, p) PROVE Sole(Tail(s), p)
  <2> SUFFICES ASSUME NEW i \in DOMAIN Tail(s), NEW j \in DOMAIN Tail(s),
                      Tail(s)[i].kind = "prompt", Tail(s)[j].kind = "prompt"
               PROVE  i = j /\ Tail(s)[i].id = p
    BY DEF Sole
  <2>1. i + 1 = j + 1 /\ s[i + 1].id = p
    BY <1>2, <1>6 DEF Sole
  <2> QED BY <1>2, <2>1
<1>7. ASSUME Sole(s, p), Head(s).kind = "prompt"
      PROVE  Head(s).id = p /\ Quiet(Tail(s))
  <2>1. \A j \in DOMAIN s : s[j].kind = "prompt" => j = 1
    BY <1>3, <1>7 DEF Sole
  <2>2. \A j \in DOMAIN Tail(s) : j + 1 # 1
    BY <1>2
  <2>3. Quiet(Tail(s))
    BY <1>2, <2>1, <2>2 DEF Quiet
  <2> QED BY <1>3, <1>7, <2>3 DEF Sole
<1> QED BY <1>4, <1>5, <1>6, <1>7

LEMMA SolePrompt ==
  ASSUME NEW E, NEW s \in Seq(E), NEW p, Quiet(s)
  PROVE  Sole(s \o <<Prompt(p)>>, p)
<1> DEFINE F == E \cup {Prompt(p)}
           q == s \o <<Prompt(p)>>
<1>1. s \in Seq(F) /\ <<Prompt(p)>> \in Seq(F) /\ Len(<<Prompt(p)>>) = 1
      /\ <<Prompt(p)>>[1] = Prompt(p)
  BY SeqMonotonic
<1> HIDE DEF F
<1>2. /\ Len(s) \in Nat /\ DOMAIN q = 1..(Len(s) + 1) /\ DOMAIN s = 1..Len(s)
      /\ q[Len(s) + 1] = Prompt(p) /\ \A i \in 1..Len(s) : q[i] = s[i]
  BY <1>1, ConcatParts
<1>3. Prompt(p).id = p
  BY DEF Prompt
<1> HIDE DEF q
<1>4. \A i \in DOMAIN q : i \in 1..Len(s) \/ i = Len(s) + 1
  BY <1>2
<1>5. \A i \in DOMAIN q : q[i].kind = "prompt" => i = Len(s) + 1
  BY <1>2, <1>4 DEF Quiet
<1> QED BY <1>2, <1>3, <1>5 DEF Sole, q

LEMMA TwoElements ==
  ASSUME NEW r, NEW c
  PROVE  Append(<<r>>, c) = <<r, c>>
<1> DEFINE E == {r, c}
           s == <<r>>
           t == <<r, c>>
<1>1. /\ s \in Seq(E) /\ Len(s) = 1 /\ s[1] = r /\ c \in E
      /\ t \in Seq(E) /\ Len(t) = 2 /\ t[1] = r /\ t[2] = c
  OBVIOUS
<1> HIDE DEF E, s, t
<1>2. /\ Append(s, c) \in Seq(E) /\ Len(Append(s, c)) = 2
      /\ Append(s, c)[1] = r /\ Append(s, c)[2] = c
  <2>1. /\ Append(s, c) \in Seq(E) /\ Len(Append(s, c)) = Len(s) + 1
        /\ \A i \in 1..Len(s) : Append(s, c)[i] = s[i]
        /\ Append(s, c)[Len(s) + 1] = c
    <3>1. s \in Seq(E) /\ c \in E
      BY <1>1
    <3> QED BY <3>1, AppendProperties
  <2> QED BY <1>1, <2>1
<1>3. \A i \in 1..Len(t) : Append(s, c)[i] = t[i]
  <2>1. \A i \in 1..2 : i = 1 \/ i = 2
    OBVIOUS
  <2> QED BY <1>1, <1>2, <2>1
<1>4. Append(s, c) = t
  BY <1>1, <1>2, <1>3, SeqEqual
<1> QED BY <1>4 DEF s, t

\* The answer is no concession, and the pipe's shape tells which it holds.
LEMMA PipeHead ==
  ASSUME PipeShape
  PROVE  /\ Pipe # <<>> /\ Head(Pipe) # Concede =>
              Answered /\ Head(Pipe) = Response(asked)
         /\ Answered => Tail(Pipe) = <<>> \/ Tail(Pipe) = <<Concede>>
         /\ Pipe = <<Response(asked)>> => Tail(Pipe) = <<>>
         /\ Pipe # <<>> /\ Head(Pipe) = Concede =>
              Pipe = <<Concede>> /\ Tail(Pipe) = <<>>
         /\ \A i \in DOMAIN Pipe : Pipe[i] \in Responses =>
              Answered /\ Pipe[i] = Response(asked)
<1> DEFINE r == Response(asked) c == Concede
<1>1. r # c /\ c \notin Responses
  BY DEF Response, Concede, Responses
<1> HIDE DEF r, c
<1>2. /\ Head(<<r>>) = r /\ Tail(<<r>>) = <<>> /\ Head(<<c>>) = c
      /\ Tail(<<c>>) = <<>> /\ Head(<<r, c>>) = r /\ Tail(<<r, c>>) = <<c>>
      /\ DOMAIN <<r>> = {1} /\ DOMAIN <<c>> = {1} /\ DOMAIN <<r, c>> = {1, 2}
      /\ DOMAIN <<>> = {}
      /\ <<r>>[1] = r /\ <<c>>[1] = c /\ <<r, c>>[1] = r /\ <<r, c>>[2] = c
  OBVIOUS
<1>3. Pipe = <<>> \/ Pipe = <<r>> \/ Pipe = <<c>> \/ Pipe = <<r, c>>
  BY DEF PipeShape, r, c
<1>4. Answered <=> Pipe = <<r>> \/ Pipe = <<r, c>>
  BY DEF Answered, r, c
<1>5. Pipe # <<>> /\ Head(Pipe) # c => Answered /\ Head(Pipe) = r
  BY <1>1, <1>2, <1>3, <1>4
<1>6. Answered => Tail(Pipe) = <<>> \/ Tail(Pipe) = <<c>>
  BY <1>2, <1>4
<1>7. Pipe = <<r>> => Tail(Pipe) = <<>>
  BY <1>2
<1>8. Pipe # <<>> /\ Head(Pipe) = c => Pipe = <<c>> /\ Tail(Pipe) = <<>>
  BY <1>1, <1>2, <1>3
<1>9. ASSUME NEW i \in DOMAIN Pipe, Pipe[i] \in Responses
      PROVE  Answered /\ Pipe[i] = r
  <2>1. CASE Pipe = <<>>
    BY <1>2, <1>9, <2>1
  <2>2. CASE Pipe = <<r>>
    BY <1>2, <1>4, <1>9, <2>2
  <2>3. CASE Pipe = <<c>>
    BY <1>1, <1>2, <1>9, <2>3
  <2>4. CASE Pipe = <<r, c>>
    <3>1. i = 1 \/ i = 2
      BY <1>2, <1>9, <2>4
    <3> QED BY <1>1, <1>2, <1>4, <1>9, <2>4, <3>1
  <2> QED BY <1>3, <2>1, <2>2, <2>3, <2>4
<1> QED BY <1>5, <1>6, <1>7, <1>8, <1>9 DEF r, c

LEMMA InitSmooth == Init => Smooth
<1> SUFFICES ASSUME Init PROVE Smooth
  OBVIOUS
<1>1. Pipe = <<>>
  BY DEF Init, Pipe
<1>2. Quiet(outbound)
  BY DEF Init, Quiet
<1>3. ~Answered
  BY <1>1, OneElement DEF Answered
<1>4. SmoothInv
  BY <1>1, <1>2, <1>3 DEF Init, SmoothInv, PipeShape
<1> QED BY <1>4 DEF Init, Smooth, FaultTypes

\* Only the screen, the queue and the pipe stay what they were.
LEMMA SmoothKept ==
  ASSUME SmoothInv, Pipe' = Pipe,
         UNCHANGED <<link, client, asked, waiting, fetched, published, conceded,
                     selfConceded, held, outbound, misused>>
  PROVE  SmoothInv'
BY DEF SmoothInv, PipeShape, Answered, Polled

LEMMA EngineKeepsSmooth ==
  ASSUME Base, SmoothInv, Person, Engine
  PROVE  SmoothInv'
<1>0. PipeShape
  BY DEF SmoothInv
<1> PICK E : outbound \in Seq(E)
  BY OfferTypes
<1>1. ASSUME NEW b \in Boards, EnginePlay(b) PROVE SmoothInv'
  <2>1. /\ ~waiting /\ published' = 0 /\ fetched' = 0
        /\ Concede \notin ToSet(actions)
        /\ actions' = IF actions = <<>> THEN <<>> ELSE Tail(actions)
        /\ misused' = (misused \/ actions # <<>>)
        /\ UNCHANGED <<link, client, asked, waiting, conceded, selfConceded,
                       held, inbox, wire>>
    BY <1>1 DEF EnginePlay, relayVars, clientVars
  <2>2. ~Polled /\ ~Polled' /\ ~Answered /\ held = 0
    BY <2>1 DEF Polled, SmoothInv
  <2>3. actions = <<>>
    <3> SUFFICES ASSUME actions # <<>> PROVE FALSE
      OBVIOUS
    <3>1. Pipe # <<>> /\ Head(Pipe) = Head(actions)
      BY PipeTypes, HeadOfConcat DEF Pipe
    <3>2. 1 \in DOMAIN actions /\ Head(actions) = actions[1]
      BY PipeTypes, TailParts
    <3>3. Head(actions) # Concede
      BY <2>1, <3>2 DEF ToSet
    <3> QED BY <1>0, <2>2, <3>1, <3>3, PipeHead
  <2>4. Pipe' = Pipe
    BY <2>1, <2>3 DEF Pipe
  <2>5. Quiet(outbound') <=> Quiet(outbound)
    <3>1. PICK sent \in Emitted(b) : outbound' = outbound \o sent
      BY <1>1 DEF EnginePlay
    <3>2. Quiet(sent) /\ \E F : sent \in Seq(F)
      BY EmissionQuiet
    <3>3. PICK F : outbound \in Seq(F) /\ sent \in Seq(F)
      BY <3>2, CommonSet
    <3> QED BY <3>1, <3>2, <3>3, QuietConcat
  <2> QED BY <2>1, <2>2, <2>3, <2>4, <2>5 DEF SmoothInv, PipeShape, Answered
<1>2. ASSUME ForgeAsk PROVE SmoothInv'
  <2>1. /\ ~waiting /\ waiting' = TRUE /\ asked' = asked + 1
        /\ UNCHANGED <<link, client, inbox, wire, actions, fetched, conceded,
                       selfConceded, held, outbound, misused>>
    BY <1>2 DEF ForgeAsk, nodeVars, relayVars, clientVars
  <2>2. ~Polled /\ ~Answered /\ held = 0 /\ (selfConceded \/ Quiet(outbound))
    BY <2>1 DEF Polled, SmoothInv
  <2>3. Pipe' = Pipe /\ (Pipe = <<>> \/ Pipe = <<Concede>>)
    BY <1>0, <2>1, <2>2 DEF Pipe, PipeShape, Answered
  <2>4. /\ <<>> # <<Response(asked')>> /\ <<>> # <<Response(asked'), Concede>>
        /\ <<Concede>> # <<Response(asked')>>
        /\ <<Concede>> # <<Response(asked'), Concede>>
    <3> DEFINE r == Response(asked') c == Concede
    <3>1. r # c
      BY DEF Response, Concede
    <3> HIDE DEF r, c
    <3>2. <<>> # <<r>> /\ <<>> # <<r, c>> /\ <<c>> # <<r>> /\ <<c>> # <<r, c>>
      BY <3>1
    <3> QED BY <3>2 DEF r, c
  <2>5. ~Answered' /\ PipeShape'
    BY <2>3, <2>4 DEF Answered, PipeShape
  <2>6. ~selfConceded => Pipe' = <<>> /\ ~conceded'
    BY <1>0, <2>1, <2>2, <2>3 DEF SmoothInv, Answered
  <2> QED BY <2>1, <2>2, <2>3, <2>5, <2>6 DEF SmoothInv
<1>3. ASSUME NEW b \in Boards, ForgeFetch(b) PROVE SmoothInv'
  <2>1. /\ published # 0 /\ fetched # published /\ fetched' = published
        /\ UNCHANGED <<link, client, asked, waiting, published, actions, wire,
                       conceded, selfConceded, held, misused>>
    BY <1>3 DEF ForgeFetch, relayVars, clientVars, Present
  <2>2. PICK sent \in Emitted(b) : Present(published, sent, inbox)
    BY <1>3 DEF ForgeFetch
  <2>3. published = asked /\ ~Polled /\ ~Answered /\ held = 0
    BY <2>1, BotTypes DEF Polled, SmoothInv
  <2>4. Pipe' = Pipe
    BY <2>1, <2>2 DEF Present, Pipe, Person
  <2>5. outbound' = outbound \o sent \o <<Prompt(asked)>>
    BY <2>2, <2>3 DEF Present
  <2>6. Quiet(outbound) => Sole(outbound', asked)
    <3>1. Quiet(sent) /\ \E F : sent \in Seq(F)
      BY EmissionQuiet
    <3>2. PICK F : outbound \in Seq(F) /\ sent \in Seq(F)
      BY <3>1, CommonSet
    <3>3. outbound \o sent \in Seq(F) /\ (Quiet(outbound) => Quiet(outbound \o sent))
      BY <3>1, <3>2, ConcatParts, QuietConcat
    <3> QED BY <2>5, <3>3, SolePrompt
  <2>7. CASE ~waiting
    <3>1. conceded /\ selfConceded
      BY <2>1, <2>7 DEF SmoothInv
    <3> QED BY <2>1, <2>3, <2>4, <2>7, <3>1 DEF SmoothInv, PipeShape, Answered
  <2>8. CASE waiting
    <3>1. Polled'
      BY <2>1, <2>3, <2>8 DEF Polled
    <3>2. ~selfConceded => Pipe = <<>> /\ Quiet(outbound)
      BY <2>3 DEF SmoothInv, Answered
    <3> QED BY <2>1, <2>3, <2>4, <2>6, <2>8, <3>1, <3>2
            DEF SmoothInv, PipeShape, Answered
  <2> QED BY <2>7, <2>8
<1>4. ASSUME ForgeSubmit PROVE SmoothInv'
  <2>1. /\ inbox # <<>> /\ inbox' = Tail(inbox) /\ wire' = wire
        /\ actions' = Append(actions, Head(inbox))
        /\ UNCHANGED <<link, client, asked, waiting, fetched, published,
                       conceded, selfConceded, held, outbound, misused>>
    BY <1>4 DEF ForgeSubmit, nodeVars, relayVars, clientVars, historyVars
  <2> QED BY <2>1, Submitted, SmoothKept
<1>5. ~ForgeReject
  <2> SUFFICES ASSUME ForgeReject PROVE FALSE
    OBVIOUS
  <2>1. inbox # <<>> /\ Head(inbox) \in Responses /\ Head(inbox) # Response(fetched)
    BY DEF ForgeReject
  <2>2. Answered /\ Head(inbox) = Response(asked)
    BY <1>0, <2>1, InPipe, PipeHead
  <2>3. fetched = asked
    BY <2>2 DEF SmoothInv, Polled
  <2> QED BY <2>1, <2>2, <2>3
<1>6. ASSUME ForgeTakeAnswer PROVE SmoothInv'
  <2>1. /\ waiting /\ waiting' = FALSE /\ actions # <<>>
        /\ Head(actions) \in Responses /\ actions' = Tail(actions)
        /\ misused' = (misused \/ Head(actions) # Response(asked))
        /\ UNCHANGED <<link, client, asked, inbox, wire, fetched, published,
                       conceded, selfConceded, held, outbound>>
    BY <1>6 DEF ForgeTakeAnswer, nodeVars, relayVars, clientVars
  <2>2. Pipe # <<>> /\ Head(Pipe) = Head(actions) /\ Pipe' = Tail(Pipe)
    BY <2>1, Taken
  <2>3. Concede \notin Responses
    BY DEF Concede, Responses
  <2>4. Answered /\ Head(actions) = Response(asked)
    BY <1>0, <2>1, <2>2, <2>3, PipeHead
  <2>5. /\ Polled /\ held = 0 /\ ~conceded
        /\ ~selfConceded => Quiet(outbound) /\ Pipe = <<Response(asked)>>
    BY <2>2, <2>4 DEF SmoothInv
  <2>6. Pipe' = <<>> \/ Pipe' = <<Concede>>
    BY <1>0, <2>2, <2>4, PipeHead
  <2>7. ~selfConceded => Pipe' = <<>>
    BY <1>0, <2>2, <2>5, PipeHead
  <2>8. <<>> # <<Response(asked)>> /\ <<>> # <<Response(asked), Concede>>
        /\ <<Concede>> # <<Response(asked)>>
        /\ <<Concede>> # <<Response(asked), Concede>>
    <3> DEFINE r == Response(asked) c == Concede
    <3>1. r # c
      BY DEF Response, Concede
    <3> HIDE DEF r, c
    <3>2. <<>> # <<r>> /\ <<>> # <<r, c>> /\ <<c>> # <<r>> /\ <<c>> # <<r, c>>
      BY <3>1
    <3> QED BY <3>2 DEF r, c
  <2>9. ~Answered' /\ PipeShape'
    BY <2>1, <2>6, <2>8 DEF Answered, PipeShape
  <2>10. fetched = asked /\ published = asked
    BY <2>1, <2>5, BotTypes DEF Polled, Person
  <2>11. ~misused'
    BY <2>1, <2>4 DEF SmoothInv
  <2> QED BY <2>1, <2>5, <2>7, <2>9, <2>10, <2>11 DEF SmoothInv
<1>7. ASSUME ForgeTakeConcede PROVE SmoothInv'
  <2>1. /\ actions # <<>> /\ Head(actions) = Concede /\ actions' = Tail(actions)
        /\ waiting' = FALSE /\ conceded' = TRUE
        /\ UNCHANGED <<link, client, asked, inbox, wire, fetched, published,
                       selfConceded, held, outbound, misused>>
    BY <1>7 DEF ForgeTakeConcede, nodeVars, relayVars, clientVars
  <2>2. Pipe # <<>> /\ Head(Pipe) = Head(actions) /\ Pipe' = Tail(Pipe)
    BY <2>1, Taken
  <2>3. Pipe = <<Concede>> /\ Pipe' = <<>>
    BY <1>0, <2>1, <2>2, PipeHead
  <2>4. selfConceded
    <3>1. <<Concede>> # <<>> /\ (<<Concede>> = <<Response(asked)>> => Concede = Response(asked))
      OBVIOUS
    <3>2. Concede # Response(asked)
      BY DEF Concede, Response
    <3> QED BY <2>3, <3>1, <3>2 DEF SmoothInv
  <2>5. ~Answered'
    BY <2>3, OneElement DEF Answered
  <2> QED BY <2>1, <2>3, <2>4, <2>5 DEF SmoothInv, PipeShape
<1>8. /\ \A b : ~ManabrewAsk(b)
      /\ ~ManabrewTakeAnswer /\ ~ManabrewReject
      /\ ~ManabrewConcede /\ ~ManabrewTimeout
  BY DEF Person, ManabrewAsk, ManabrewTakeAnswer, ManabrewReject,
         ManabrewConcede, ManabrewTimeout
<1> QED BY <1>1, <1>2, <1>3, <1>4, <1>5, <1>6, <1>7, <1>8 DEF Engine

LEMMA NodeKeepsSmooth ==
  ASSUME Base, SmoothInv, Person, Node
  PROVE  SmoothInv'
<1>1. ASSUME NodeSend PROVE SmoothInv'
  <2>1. /\ outbound # <<>> /\ outbound' = Tail(outbound)
        /\ RelayTakes(Head(outbound)) /\ seat' = seat /\ Online
        /\ UNCHANGED <<link, client, asked, waiting, fetched, published,
                       conceded, selfConceded, misused, actions, inbox, wire>>
    BY <1>1 DEF NodeSend, engineVars, forgeVars, historyVars, SmoothInv, Online
  <2> PICK E : outbound \in Seq(E)
    BY OfferTypes
  <2> DEFINE env == Head(outbound)
  <2>2. /\ Quiet(outbound) => Quiet(outbound') /\ env.kind # "prompt"
        /\ (Quiet(outbound') /\ env.kind # "prompt") => Quiet(outbound)
        /\ \A p : Sole(outbound, p) => Sole(outbound', p)
        /\ \A p : (Sole(outbound, p) /\ env.kind = "prompt")
                      => env.id = p /\ Quiet(outbound')
    BY <2>1, SoleTail
  <2>3. /\ env.kind = "prompt" => held' = IF selfConceded THEN held ELSE env.id
        /\ env.kind # "prompt" => held' = held
    BY <2>1, RelayTakesOffer
  <2>4. Pipe' = Pipe
    BY <2>1 DEF Pipe
  <2> HIDE DEF env
  <2>5. CASE selfConceded
    <3>1. held' = 0
      BY <2>3, <2>5 DEF SmoothInv
    <3> QED BY <2>1, <2>4, <2>5, <3>1 DEF SmoothInv, PipeShape, Answered, Polled
  <2>6. CASE ~selfConceded /\ env.kind = "prompt"
    <3>1. Polled /\ Pipe = <<>> /\ Sole(outbound, asked)
      BY <2>2, <2>6 DEF SmoothInv
    <3>2. held' = asked /\ Quiet(outbound')
      BY <2>2, <2>3, <2>6, <3>1
    <3> QED BY <2>1, <2>4, <2>6, <3>1, <3>2 DEF SmoothInv, PipeShape, Answered, Polled
  <2>7. CASE ~selfConceded /\ env.kind # "prompt"
    <3>1. held' = held /\ (Quiet(outbound) <=> Quiet(outbound'))
      BY <2>2, <2>3, <2>7
    <3> QED BY <2>1, <2>2, <2>4, <2>7, <3>1 DEF SmoothInv, PipeShape, Answered, Polled
  <2> QED BY <2>5, <2>6, <2>7
<1>2. ASSUME NodeReceiveResponse \/ NodeReceiveConcede PROVE SmoothInv'
  <2>1. /\ wire # <<>> /\ wire' = Tail(wire)
        /\ inbox' = Append(inbox, Head(wire))
        /\ UNCHANGED <<link, client, asked, waiting, fetched, published,
                       conceded, selfConceded, held, outbound, misused, actions>>
    BY <1>2 DEF NodeReceiveResponse, NodeReceiveConcede, nodeVars, forgeVars,
           clientVars, historyVars, Person
  <2> QED BY <2>1, Delivered, SmoothKept
<1>3. ASSUME NodeForgetPrompt PROVE SmoothInv'
  <2>1. UNCHANGED <<link, client, asked, waiting, fetched, published, conceded,
                    selfConceded, held, outbound, misused, actions, inbox, wire>>
    BY <1>3 DEF NodeForgetPrompt, engineVars, forgeVars, relayVars, clientVars,
           historyVars
  <2>2. Pipe' = Pipe
    BY <2>1 DEF Pipe
  <2> QED BY <2>1, <2>2, SmoothKept
<1>4. /\ ~NodeResumed /\ ~NodeReplay /\ ~NodeNotices /\ ~NodeReconnect
  BY DEF SmoothInv, NodeResumed, NodeReplay, NodeNotices, NodeReconnect
<1> QED BY <1>1, <1>2, <1>3, <1>4 DEF Node

LEMMA ClientKeepsSmooth ==
  ASSUME Base, OfferInv, SmoothInv, Person, Client
  PROVE  SmoothInv'
<1>1. ASSUME ClientAnswer PROVE SmoothInv'
  <2>1. /\ held # 0 /\ held' = 0 /\ Accepted(Response(held))
        /\ UNCHANGED <<link, client, asked, waiting, fetched, published,
                       conceded, selfConceded, outbound, misused, actions, inbox>>
    BY <1>1 DEF ClientAnswer, engineVars, forgeVars, nodeVars
  <2>2. held = asked /\ Polled /\ Quiet(outbound) /\ Pipe = <<>> /\ ~selfConceded
        /\ ~conceded /\ ~misused
    BY <2>1 DEF SmoothInv
  <2>3. wire' = Append(wire, Response(asked))
    BY <2>1, <2>2 DEF Accepted, SmoothInv, OfferInv, Attached
  <2>4. Response(asked) \in Inputs
    <3>1. asked \in Prompts
      BY <2>1, <2>2, StreamAssumption DEF Base, IInv, Asking, Prompts
    <3> QED BY <3>1 DEF Inputs, Responses, Response
  <2>5. Pipe' = <<Response(asked)>>
    BY <2>1, <2>2, <2>3, <2>4, Given, OneElement
  <2>6. Polled' /\ PipeShape'
    BY <2>1, <2>2, <2>5 DEF Polled, PipeShape
  <2> QED BY <2>1, <2>2, <2>5, <2>6 DEF SmoothInv
<1>2. ASSUME ClientConcede PROVE SmoothInv'
  <2>1. /\ ~selfConceded /\ selfConceded' = TRUE /\ held' = 0
        /\ Accepted(Concede)
        /\ UNCHANGED <<link, client, asked, waiting, fetched, published,
                       conceded, outbound, misused, actions, inbox>>
    BY <1>2 DEF ClientConcede, engineVars, forgeVars, nodeVars, SmoothInv, Online
  <2>2. wire' = Append(wire, Concede)
    BY <2>1 DEF Accepted, SmoothInv, OfferInv, Attached
  <2>3. Pipe' = Append(Pipe, Concede)
    BY <2>1, <2>2, Given DEF Inputs
  <2>4. (Pipe = <<>> \/ Pipe = <<Response(asked)>>) /\ ~conceded
    BY <2>1 DEF SmoothInv
  <2>5. \/ Pipe = <<>> /\ Pipe' = <<Concede>>
        \/ Answered /\ Pipe' = <<Response(asked), Concede>>
    <3>1. /\ Append(<<>>, Concede) = <<Concede>>
          /\ Append(<<Response(asked)>>, Concede) = <<Response(asked), Concede>>
      BY OneElement, TwoElements
    <3> QED BY <2>3, <2>4, <3>1 DEF Answered
  <2>6. PipeShape' /\ (Answered' => Answered)
    <3>1. /\ <<Concede>> = <<Response(asked)>> => Concede = Response(asked)
          /\ <<Concede>> # <<Response(asked), Concede>>
      OBVIOUS
    <3>2. Concede # Response(asked)
      BY DEF Concede, Response
    <3> QED BY <2>1, <2>5, <3>1, <3>2 DEF PipeShape, Answered
  <2> QED BY <2>1, <2>4, <2>6 DEF SmoothInv, Polled
<1>3. ~ClientAnswerLost /\ ~ClientReturn /\ ~ClientResync
  BY DEF SmoothInv, ClientAnswerLost, ClientReturn, ClientResync, Online
<1> QED BY <1>1, <1>2, <1>3 DEF Client

LEMMA FaultsCount ==
  ASSUME FaultTypes, [Next]_vars
  PROVE  /\ FaultTypes' /\ (NoFault' => NoFault)
         /\ (LinkBreak \/ RelayRestart \/ ClientDrop) => ~NoFault'
<1>1. CASE LinkBreak \/ RelayRestart \/ ClientDrop
  <2>1. \/ drops' = drops + 1 /\ UNCHANGED <<clientDrops, restarts>>
        \/ restarts' = restarts + 1 /\ UNCHANGED <<drops, clientDrops>>
        \/ clientDrops' = clientDrops + 1 /\ UNCHANGED <<drops, restarts>>
    BY <1>1 DEF LinkBreak, RelayRestart, ClientDrop
  <2> QED BY <2>1 DEF FaultTypes, NoFault, FaultsSoFar
<1>2. CASE ~(LinkBreak \/ RelayRestart \/ ClientDrop)
  <2>1. ASSUME Engine PROVE UNCHANGED faultVars
    BY <2>1 DEF Engine, EnginePlay, ManabrewAsk, ManabrewTakeAnswer,
           ManabrewReject, ManabrewConcede, ManabrewTimeout, ForgeAsk,
           ForgeFetch, ForgeSubmit, ForgeReject, ForgeTakeAnswer,
           ForgeTakeConcede
  <2>2. ASSUME Node \/ Client \/ RelayNoticesHostDrop \/ UNCHANGED vars
        PROVE  UNCHANGED faultVars
    BY <2>2 DEF Node, NodeSend, NodeReceiveResponse, NodeForgetPrompt,
           NodeReceiveConcede, NodeResumed, NodeReplay, NodeNotices,
           NodeReconnect, Client, ClientAnswer, ClientAnswerLost, ClientConcede,
           ClientReturn, ClientResync, RelayNoticesHostDrop, vars
  <2>3. UNCHANGED faultVars
    BY <1>2, <2>1, <2>2 DEF Next, Faults
  <2> QED BY <1>2, <2>3 DEF faultVars, FaultTypes, NoFault, FaultsSoFar
<1> QED BY <1>1, <1>2

LEMMA StepKeepsSmooth ==
  ASSUME Base, OfferInv, Smooth, [Next]_vars
  PROVE  Smooth'
<1>1. FaultTypes' /\ (NoFault' => NoFault)
      /\ ((LinkBreak \/ RelayRestart \/ ClientDrop) => ~NoFault')
  BY FaultsCount DEF Smooth
<1>2. seat' = seat
  <2>1. ASSUME Engine PROVE seat' = seat
    BY <2>1 DEF Engine, EnginePlay, ManabrewAsk, ManabrewTakeAnswer,
           ManabrewReject, ManabrewConcede, ManabrewTimeout, ForgeAsk,
           ForgeFetch, ForgeSubmit, ForgeReject, ForgeTakeAnswer,
           ForgeTakeConcede
  <2>2. ASSUME Node \/ Client \/ Faults \/ UNCHANGED vars PROVE seat' = seat
    BY <2>2 DEF Node, NodeSend, NodeReceiveResponse, NodeForgetPrompt,
           NodeReceiveConcede, NodeResumed, NodeReplay, NodeNotices,
           NodeReconnect, Client, ClientAnswer, ClientAnswerLost, ClientConcede,
           ClientReturn, ClientResync, Faults, LinkBreak,
           RelayNoticesHostDrop, RelayRestart, ClientDrop, vars
  <2> QED BY <2>1, <2>2 DEF Next
<1> SUFFICES ASSUME NoFault', Person PROVE SmoothInv'
  BY <1>1, <1>2 DEF Smooth, Person
<1>3. SmoothInv
  BY <1>1 DEF Smooth
<1>4. CASE UNCHANGED vars
  <2>1. UNCHANGED <<link, client, asked, waiting, fetched, published, conceded,
                    selfConceded, held, outbound, misused, actions, inbox, wire>>
    BY <1>4 DEF vars, engineVars, forgeVars, nodeVars, relayVars, clientVars,
           historyVars
  <2>2. Pipe' = Pipe
    BY <2>1 DEF Pipe
  <2> QED BY <1>3, <2>1, <2>2, SmoothKept
<1>5. ~Faults
  BY <1>1, <1>3 DEF Faults, RelayNoticesHostDrop, SmoothInv
<1> QED BY <1>3, <1>4, <1>5, EngineKeepsSmooth, NodeKeepsSmooth,
           ClientKeepsSmooth DEF Next

(* Whatever the engine, an answer closes a prompt it was not given to only
  after a fault (MisuseNeedsReplay). The Java game checks no prompt id; what
  protects it is that, until an input is replayed or a prompt shown again, the
  open prompt or its one answer is in one place only.                       *)
THEOREM AnswersStrayOnlyAfterFaults == Spec => []MisuseNeedsReplay
<1> DEFINE All == Base /\ OfferInv /\ BotInv /\ Smooth
<1>1. Init => All
  BY InitBase, InitOffer, InitBot, InitSmooth
<1>2. All /\ [Next]_vars => All'
  BY StepKeepsBase, StepKeepsOffer, StepKeepsBotInv, StepKeepsSmooth
<1>3. All => MisuseNeedsReplay
  <2> SUFFICES ASSUME All, misused PROVE FaultsSoFar > 0
    BY DEF MisuseNeedsReplay
  <2>1. Backend = "forge" /\ ~seat.local
    BY StreamAssumption DEF Base, Polling, BotInv, Bot
  <2>2. ~NoFault
    BY <2>1 DEF Smooth, Person, SmoothInv
  <2> QED BY <2>2 DEF NoFault, FaultsSoFar, Smooth, FaultTypes
<1> HIDE DEF All
<1> QED BY <1>1, <1>2, <1>3, PTL DEF Spec

=============================================================================
