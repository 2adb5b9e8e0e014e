---------------------------- MODULE PromptLedger ----------------------------
(* What a game promises one seat about the decisions it asks for, whatever    *)
(* happens to the connections in between (docs/agents/RELAY.md:7, "prompt ID   *)
(* validation rejects duplicate responses and concede directives are           *)
(* idempotent"): prompts are opened one at a time, each is closed exactly      *)
(* once, by an answer this seat gave to this very prompt or by a pass, and a   *)
(* seat is out only because it conceded.                                       *)
EXTENDS Integers

CONSTANTS
    MaxPrompts     \* bound: prompts opened in a run

VARIABLES
    asked,     \* prompts opened so far; the last one is the open one, if any
    fate,      \* what became of each prompt
    given,     \* prompts the seat has answered
    quit,      \* the seat has said that it concedes
    out        \* the game has taken the seat out

vars == <<asked, fate, given, quit, out>>

Prompts == 1..MaxPrompts

Fates == {"unasked", "open", "answered", "passed"}

TypeOK ==
    /\ asked \in 0..MaxPrompts
    /\ fate \in [Prompts -> Fates]
    /\ given \subseteq Prompts
    /\ quit \in BOOLEAN
    /\ out \in BOOLEAN

Init ==
    /\ asked = 0
    /\ fate = [p \in Prompts |-> "unasked"]
    /\ given = {}
    /\ quit = FALSE
    /\ out = FALSE

NoneOpen == \A p \in Prompts : fate[p] # "open"

\* A seat that is out is passed over at once.
Ask ==
    /\ NoneOpen
    /\ asked < MaxPrompts
    /\ asked' = asked + 1
    /\ fate' = [fate EXCEPT ![asked + 1] = IF out THEN "passed" ELSE "open"]
    /\ UNCHANGED <<given, quit, out>>

Give(p) ==
    /\ p <= asked
    /\ given' = given \cup {p}
    /\ UNCHANGED <<asked, fate, quit, out>>

\* A seat may be asked and answered in one go.
AskAnswered ==
    /\ NoneOpen
    /\ asked < MaxPrompts
    /\ asked' = asked + 1
    /\ fate' = [fate EXCEPT ![asked + 1] = "open"]
    /\ given' = given \cup {asked + 1}
    /\ UNCHANGED <<quit, out>>

Quit ==
    /\ quit' = TRUE
    /\ UNCHANGED <<asked, fate, given, out>>

TakeAnswer(p) ==
    /\ fate[p] = "open"
    /\ p \in given
    /\ ~out
    /\ fate' = [fate EXCEPT ![p] = "answered"]
    /\ UNCHANGED <<asked, given, quit, out>>

Pass(p) ==
    /\ fate[p] = "open"
    /\ fate' = [fate EXCEPT ![p] = "passed"]
    /\ UNCHANGED <<asked, given, quit, out>>

TakeConcede(p) ==
    /\ quit
    /\ fate[p] = "open"
    /\ fate' = [fate EXCEPT ![p] = "passed"]
    /\ out' = TRUE
    /\ UNCHANGED <<asked, given, quit>>

Next ==
    \/ Ask
    \/ AskAnswered
    \/ Quit
    \/ \E p \in Prompts :
          Give(p) \/ TakeAnswer(p) \/ Pass(p) \/ TakeConcede(p)

Spec == Init /\ [][Next]_vars

=============================================================================
