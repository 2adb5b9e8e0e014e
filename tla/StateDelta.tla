----------------------------- MODULE StateDelta -----------------------------
(* The patches that turn one board document into the next                     *)
(* (manabrew-relay-protocol/src/state_delta.rs, mirrored line by line in       *)
(* src/lib/stateDelta.ts). A document stands for the part of a board where a   *)
(* patch can go wrong: one keyed array. Its elements (cards) carry the key     *)
(* "id" and one field that changes in place. Scalars and objects outside such  *)
(* an array are replaced field by field, which the change of an element below  *)
(* already shows.                                                              *)
EXTENDS Integers, Sequences, SequencesExt, FiniteSets, Subsequences

CONSTANTS
    Keys,      \* the ids of the cards
    Taps,      \* the values of the one field of a card
    NoKey      \* the key of an element without an id

ASSUME KeysAssumption == NoKey \notin Keys

Element == [key : Keys \cup {NoKey}, tap : Taps]

KeyOrder(doc) == [i \in DOMAIN doc |-> doc[i].key]

KeysOf(doc) == {doc[i].key : i \in DOMAIN doc}

\* Every element has a key and no two share one: only such an array is patched
\* element by element.
Keyed(doc) == NoKey \notin KeysOf(doc) /\ IsInjective(KeyOrder(doc))

\* The first element with this key.
Position(doc, k) ==
    CHOOSE i \in DOMAIN doc :
        doc[i].key = k /\ \A j \in DOMAIN doc : doc[j].key = k => i <= j

TapOf(doc, k) == doc[Position(doc, k)].tap

(***************************************************************************)
(* A change replaces an element ("literal") or sets its field. A patch has   *)
(* an order only where the order of keys differs.                           *)
(***************************************************************************)
Literal(k, tap) == [whole |-> TRUE, key |-> k, tap |-> tap]
FieldChange(tap) == [whole |-> FALSE, key |-> NoKey, tap |-> tap]

ChangeFor(before, after, k) ==
    IF k \in KeysOf(before) THEN FieldChange(TapOf(after, k))
                            ELSE Literal(k, TapOf(after, k))

Changed(before, after) ==
    {k \in KeysOf(after) :
        k \in KeysOf(before) => TapOf(before, k) # TapOf(after, k)}

\* Broken: a card that only moved is listed in no order.
DiffNoOrder(before, after) ==
    [changed |-> [k \in Changed(before, after) |-> ChangeFor(before, after, k)],
     gone |-> KeysOf(before) \ KeysOf(after),
     order |-> {}]

Diff(before, after) ==
    [changed |-> [k \in Changed(before, after) |-> ChangeFor(before, after, k)],
     gone |-> KeysOf(before) \ KeysOf(after),
     order |-> IF KeyOrder(before) = KeyOrder(after) THEN {} ELSE {KeyOrder(after)}]

\* A change of a field nobody holds makes an element of that field alone.
NewElement(change) ==
    [key |-> IF change.whole THEN change.key ELSE NoKey, tap |-> change.tap]

ChangedElement(el, change) ==
    IF change.whole THEN NewElement(change) ELSE [el EXCEPT !.tap = change.tap]

Without(doc, gone) == Subsequence(doc, {i \in DOMAIN doc : doc[i].key \notin gone})

(***************************************************************************)
(* apply_keyed. The entries keep the key under which they were filed beside *)
(* the element, because a new element need not carry it.                    *)
(***************************************************************************)
Entries(doc, patch) ==
    LET kept == Without(doc, patch.gone)
        old == [i \in DOMAIN kept |->
                   [key |-> kept[i].key,
                    el |-> IF kept[i].key \in DOMAIN patch.changed
                               /\ Position(kept, kept[i].key) = i
                           THEN ChangedElement(kept[i], patch.changed[kept[i].key])
                           ELSE kept[i]]]
        new == SetToSeq(DOMAIN patch.changed \ KeysOf(kept))
    IN  old \o [i \in DOMAIN new |->
                   [key |-> new[i], el |-> NewElement(patch.changed[new[i]])]]

Apply(doc, patch) ==
    LET entries == Entries(doc, patch)
        order == IF patch.order = {} THEN KeyOrder(entries)
                 ELSE CHOOSE o \in patch.order : TRUE
        found == Subsequence(order, {i \in DOMAIN order : order[i] \in KeysOf(entries)})
    IN  [i \in DOMAIN found |-> entries[Position(entries, found[i])].el]

=============================================================================
