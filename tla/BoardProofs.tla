----------------------------- MODULE BoardProofs -----------------------------
(* For either engine, any boards and seats, any number of breaks, drops and    *)
(* restarts: the board the relay caches is the engine's once the node has      *)
(* nothing left to send, an online client shows it where it is promised to,    *)
(* and the traffic of a seat is well typed.                                    *)
(*                                                                             *)
(* A patch may be folded into a board it was not made for: a resume sends the  *)
(* newest board ahead of the patches queued before it. What holds all the same *)
(* is that every document in circulation leads to the engine's board (Leads):  *)
(* wherever it differs, the envelopes still to come set it right, card by card,*)
(* and folding the next of them in keeps it so (LeadsFolded).                  *)
EXTENDS SeatStreamProofs, SubsequenceProofs

-----------------------------------------------------------------------------
(* Lists by key                                                               *)

LEMMA PositionIs ==
  ASSUME NEW E, NEW doc \in Seq(E), NEW k \in KeysOf(doc)
  PROVE  /\ Position(doc, k) \in DOMAIN doc /\ doc[Position(doc, k)].key = k
         /\ \A j \in DOMAIN doc : doc[j].key = k => Position(doc, k) <= j
<1> DEFINE at == {i \in DOMAIN doc : doc[i].key = k}
<1>1. at \in SUBSET Nat /\ at # {}
  BY DEF KeysOf
<1>2. \E i \in at : \A j \in at : i <= j
  <2> HIDE DEF at
  <2> QED BY <1>1, SmallestNat
<1>3. \E i \in DOMAIN doc :
        doc[i].key = k /\ \A j \in DOMAIN doc : doc[j].key = k => i <= j
  BY <1>2
<1> HIDE DEF at
<1> QED BY <1>3 DEF Position

(* The first of several alike.                                                *)
LEMMA PositionUnique ==
  ASSUME NEW E, NEW doc \in Seq(E), NEW k, NEW p \in DOMAIN doc, doc[p].key = k,
         \A j \in DOMAIN doc : doc[j].key = k => p <= j
  PROVE  k \in KeysOf(doc) /\ Position(doc, k) = p
<1>1. k \in KeysOf(doc)
  BY DEF KeysOf
<1>2. Position(doc, k) \in DOMAIN doc /\ Position(doc, k) <= p /\ p <= Position(doc, k)
  BY <1>1, PositionIs
<1>3. DOMAIN doc \subseteq Nat
  OBVIOUS
<1> QED BY <1>1, <1>2, <1>3

LEMMA OrderIs ==
  ASSUME NEW E, NEW doc \in Seq(E)
  PROVE  /\ DOMAIN KeyOrder(doc) = DOMAIN doc /\ DOMAIN doc = 1..Len(doc)
         /\ Len(doc) \in Nat
         /\ \A i \in DOMAIN doc : KeyOrder(doc)[i] = doc[i].key
         /\ KeyOrder(doc) \in Seq(KeysOf(doc)) /\ Len(KeyOrder(doc)) = Len(doc)
<1>1. DOMAIN doc = 1..Len(doc) /\ Len(doc) \in Nat
  OBVIOUS
<1>2. KeyOrder(doc) = [i \in 1..Len(doc) |-> doc[i].key]
  BY <1>1 DEF KeyOrder
<1>3. \A i \in 1..Len(doc) : doc[i].key \in KeysOf(doc)
  BY <1>1 DEF KeysOf
<1> QED BY <1>1, <1>2, <1>3

LEMMA SameOrderSameKeys ==
  ASSUME NEW a, NEW b, KeyOrder(a) = KeyOrder(b)
  PROVE  KeysOf(a) = KeysOf(b)
<1>1. DOMAIN a = DOMAIN b
  BY DEF KeyOrder
<1>2. \A i \in DOMAIN a : a[i].key = b[i].key
  <2>1. \A i \in DOMAIN a : KeyOrder(a)[i] = a[i].key /\ KeyOrder(b)[i] = b[i].key
    BY <1>1 DEF KeyOrder
  <2> QED BY <2>1
<1> QED BY <1>1, <1>2 DEF KeysOf

LEMMA KeysFinite ==
  ASSUME NEW E, NEW doc \in Seq(E)
  PROVE  IsFiniteSet(KeysOf(doc))
<1> DEFINE n == Len(doc)
           f == [i \in 1..n |-> doc[i].key]
<1>1. n \in Nat /\ DOMAIN doc = 1..n
  OBVIOUS
<1>2. f \in Surjection(1..n, KeysOf(doc))
  BY <1>1 DEF Surjection, KeysOf
<1>3. IsFiniteSet(1..n)
  BY <1>1, FS_Interval
<1> HIDE DEF f, n
<1> QED BY <1>2, <1>3, FS_Surjection

LEMMA SetToSeqIs ==
  ASSUME NEW S, IsFiniteSet(S)
  PROVE  /\ SetToSeq(S) \in Seq(S) /\ Len(SetToSeq(S)) \in Nat
         /\ \A x \in S : \E i \in 1..Len(SetToSeq(S)) : SetToSeq(S)[i] = x
         /\ S = {} => SetToSeq(S) = <<>>
<1> DEFINE n == Cardinality(S)
           s == SetToSeq(S)
<1>1. n \in Nat /\ ExistsBijection(1..n, S)
  BY FS_CardinalityType
<1>2. \E f \in [1..n -> S] : IsInjective(f)
  BY <1>1 DEF ExistsBijection, Bijection, Injection, IsInjective
<1>3. s \in [1..n -> S] /\ IsInjective(s)
  BY <1>2 DEF SetToSeq
<1> HIDE DEF s
<1>4. s \in Injection(1..n, S)
  BY <1>3 DEF Injection
<1>5. s \in Surjection(1..n, S)
  <2>1. Cardinality(1..n) = n
    BY <1>1, FS_Interval
  <2> QED BY <1>4, <2>1, FS_Injection
<1>6. s \in Seq(S) /\ Len(s) = n
  BY <1>1, <1>3
<1>7. \A x \in S : \E i \in 1..n : s[i] = x
  BY <1>5 DEF Surjection
<1>8. S = {} => s = <<>>
  BY <1>6
<1> QED BY <1>1, <1>6, <1>7, <1>8 DEF s

LEMMA TapTyped ==
  ASSUME NEW doc \in Folds, NEW k \in KeysOf(doc)
  PROVE  TapOf(doc, k) \in Taps
<1>1. doc \in Seq(Element)
  BY DEF Folds
<1>2. Position(doc, k) \in DOMAIN doc
  BY <1>1, PositionIs
<1>3. doc[Position(doc, k)] \in Element
  BY <1>1, <1>2
<1> QED BY <1>3 DEF TapOf, Element

-----------------------------------------------------------------------------
(* What a patch holds, and what is left without the cards that are gone.       *)

Change == [whole : BOOLEAN, key : Keys \cup {NoKey}, tap : Taps]

Patch(p) ==
    /\ IsFiniteSet(DOMAIN p.changed)
    /\ \A k \in DOMAIN p.changed :
          p.changed[k] \in Change /\ (p.changed[k].whole => p.changed[k].key = k)

LEMMA DiffIs ==
  ASSUME NEW from \in Boards, NEW to \in Boards
  PROVE  LET d == Diff(from, to)
         IN  /\ Patch(d)
             /\ DOMAIN d.changed \subseteq KeysOf(to)
             /\ \A k \in DOMAIN d.changed :
                   /\ d.changed[k].tap = TapOf(to, k)
                   /\ d.changed[k].whole <=> k \notin KeysOf(from)
             /\ \A k \in KeysOf(to) : k \notin DOMAIN d.changed =>
                   k \in KeysOf(from) /\ TapOf(from, k) = TapOf(to, k)
             /\ d.gone = KeysOf(from) \ KeysOf(to)
             /\ d.order = IF KeyOrder(from) = KeyOrder(to) THEN {} ELSE {KeyOrder(to)}
<1> DEFINE d == Diff(from, to)
<1>1. /\ from \in Seq(Element) /\ to \in Seq(Element) /\ to \in Folds
      /\ KeysOf(to) \subseteq Keys
  <2>1. to \in Seq(Element) /\ Keyed(to) /\ from \in Seq(Element)
    BY BoardsAssumption
  <2>2. \A i \in DOMAIN to : to[i].key \in Keys \cup {NoKey}
    <3>1. \A e \in Element : e.key \in Keys \cup {NoKey}
      BY DEF Element
    <3>2. \A i \in DOMAIN to : to[i] \in Element
      BY <2>1
    <3> QED BY <3>1, <3>2
  <2> QED BY <2>1, <2>2 DEF Keyed, KeysOf, Folds
<1>2. /\ d.changed = [k \in Changed(from, to) |-> ChangeFor(from, to, k)]
      /\ d.gone = KeysOf(from) \ KeysOf(to)
      /\ d.order = IF KeyOrder(from) = KeyOrder(to) THEN {} ELSE {KeyOrder(to)}
  BY DEF Diff
<1> HIDE DEF d
<1>3. Changed(from, to) \subseteq KeysOf(to)
  BY DEF Changed
<1>4. IsFiniteSet(Changed(from, to))
  BY <1>1, <1>3, KeysFinite, FS_Subset
<1>5. ASSUME NEW k \in Changed(from, to)
      PROVE  /\ d.changed[k] \in Change
             /\ d.changed[k].tap = TapOf(to, k)
             /\ d.changed[k].whole <=> k \notin KeysOf(from)
             /\ d.changed[k].whole => d.changed[k].key = k
  <2>1. k \in KeysOf(to) /\ k \in Keys /\ TapOf(to, k) \in Taps
    BY <1>1, <1>3, TapTyped
  <2>2. d.changed[k] = ChangeFor(from, to, k)
    BY <1>2
  <2>3. CASE k \in KeysOf(from)
    <3>1. d.changed[k] = [whole |-> FALSE, key |-> NoKey, tap |-> TapOf(to, k)]
      BY <2>2, <2>3 DEF ChangeFor, FieldChange
    <3> QED BY <2>1, <2>3, <3>1 DEF Change
  <2>4. CASE k \notin KeysOf(from)
    <3>1. d.changed[k] = [whole |-> TRUE, key |-> k, tap |-> TapOf(to, k)]
      BY <2>2, <2>4 DEF ChangeFor, Literal
    <3> QED BY <2>1, <2>4, <3>1 DEF Change
  <2> QED BY <2>3, <2>4
<1>6. DOMAIN d.changed = Changed(from, to)
  BY <1>2
<1>7. \A k \in KeysOf(to) : k \notin Changed(from, to) =>
         k \in KeysOf(from) /\ TapOf(from, k) = TapOf(to, k)
  BY DEF Changed
<1>8. Patch(d)
  BY <1>4, <1>5, <1>6 DEF Patch
<1> QED BY <1>2, <1>3, <1>5, <1>6, <1>7, <1>8 DEF d

LEMMA WithoutIs ==
  ASSUME NEW doc \in Seq(Element), NEW gone
  PROVE  /\ Without(doc, gone) \in Seq(Element)
         /\ KeysOf(Without(doc, gone)) = KeysOf(doc) \ gone
         /\ \A k \in KeysOf(doc) \ gone : TapOf(Without(doc, gone), k) = TapOf(doc, k)
         /\ KeysOf(doc) \cap gone = {} => Without(doc, gone) = doc
<1> DEFINE at == {i \in DOMAIN doc : doc[i].key \notin gone}
           w == Without(doc, gone)
           f == InOrder(at)
           m == Cardinality(at)
<1>1. at \in SUBSET DOMAIN doc
  OBVIOUS
<1>2. w = Subsequence(doc, at)
  BY DEF Without
<1>3. /\ m \in Nat /\ w \in Seq(Element) /\ Len(w) = m /\ f \in [1..m -> at]
      /\ \A n \in 1..m : w[n] = doc[f[n]]
      /\ \A i, j \in 1..m : i < j => f[i] < f[j]
      /\ \A p \in at : \E i \in 1..m : f[i] = p
  <2> HIDE DEF at
  <2>1. /\ m \in 0..Len(doc) /\ Subsequence(doc, at) \in Seq(Element)
        /\ Len(Subsequence(doc, at)) = m /\ f \in [1..m -> at]
        /\ \A n \in 1..m : Subsequence(doc, at)[n] = doc[f[n]]
        /\ \A i, j \in 1..m : i < j => f[i] < f[j]
        /\ \A p \in at : \E i \in 1..m : f[i] = p
    BY <1>1, SubsequenceIs
  <2> HIDE DEF m, f, w
  <2>2. m \in Nat
    BY <2>1
  <2> QED BY <1>2, <2>1, <2>2
<1>4. \A i \in DOMAIN doc : i \in at <=> doc[i].key \notin gone
  OBVIOUS
<1>5. DOMAIN w = 1..m
  BY <1>3
<1> HIDE DEF at, w, f, m
<1>6. \A i \in DOMAIN w : f[i] \in DOMAIN doc /\ w[i].key = doc[f[i]].key
                          /\ doc[f[i]].key \notin gone
  BY <1>1, <1>3, <1>4, <1>5
<1>7. \A p \in DOMAIN doc : doc[p].key \notin gone => \E i \in DOMAIN w : f[i] = p
  BY <1>3, <1>4, <1>5
<1>8. KeysOf(w) = KeysOf(doc) \ gone
  <2>1. \A k \in KeysOf(w) : k \in KeysOf(doc) /\ k \notin gone
    BY <1>6 DEF KeysOf
  <2>2. \A k \in KeysOf(doc) \ gone : k \in KeysOf(w)
    BY <1>6, <1>7 DEF KeysOf
  <2> QED BY <2>1, <2>2
<1>9. ASSUME NEW k \in KeysOf(doc) \ gone
      PROVE  TapOf(w, k) = TapOf(doc, k)
  <2> DEFINE p == Position(doc, k)
  <2>1. p \in DOMAIN doc /\ doc[p].key = k /\ \A j \in DOMAIN doc : doc[j].key = k => p <= j
    BY PositionIs
  <2> HIDE DEF p
  <2>2. PICK i \in DOMAIN w : f[i] = p
    BY <1>7, <2>1
  <2>3. w[i].key = k /\ w[i] = doc[p]
    BY <1>3, <1>5, <1>6, <2>1, <2>2
  <2>4. ASSUME NEW j \in DOMAIN w, w[j].key = k, j < i PROVE FALSE
    <3>1. f[j] \in DOMAIN doc /\ doc[f[j]].key = k
      BY <1>6, <2>4
    <3>2. p <= f[j]
      BY <2>1, <3>1
    <3>3. f[j] < f[i]
      BY <1>3, <1>5, <2>4
    <3>4. f[j] \in Nat /\ p \in Nat
      BY <2>1, <3>1
    <3> QED BY <2>2, <3>2, <3>3, <3>4
  <2>5. \A j \in DOMAIN w : w[j].key = k => i <= j
    <3>1. DOMAIN w \subseteq Nat
      BY <1>5
    <3> QED BY <2>4, <3>1
  <2>6. Position(w, k) = i
    BY <1>3, <2>3, <2>5, PositionUnique
  <2> QED BY <2>3, <2>6 DEF TapOf, p
<1>10. ASSUME KeysOf(doc) \cap gone = {} PROVE w = doc
  <2>1. at = DOMAIN doc
    BY <1>1, <1>4, <1>10 DEF KeysOf
  <2> QED BY <1>2, <2>1, WholeIsSame
<1> QED BY <1>3, <1>8, <1>9, <1>10 DEF w


-----------------------------------------------------------------------------
(* What a patch makes of a document                                            *)

Has(entries, k, el) ==
    k \in KeysOf(entries) /\ entries[Position(entries, k)].el = el

(* The entry of a card is what is left of it, changed where the patch says so,  *)
(* and under the key of a change nobody holds an element made of the change.    *)
LEMMA EntriesIs ==
  ASSUME NEW doc \in Seq(Element), NEW p, Patch(p)
  PROVE  LET kept == Without(doc, p.gone)
             entries == Entries(doc, p)
         IN  /\ \E E : entries \in Seq(E)
             /\ KeysOf(entries) = KeysOf(kept) \cup DOMAIN p.changed
             /\ \A k \in KeysOf(kept) :
                   \E el \in Element : /\ Has(entries, k, el) /\ el.key = k
                                       /\ el.tap = IF k \in DOMAIN p.changed
                                                   THEN p.changed[k].tap
                                                   ELSE TapOf(kept, k)
             /\ \A k \in DOMAIN p.changed \ KeysOf(kept) :
                   Has(entries, k, NewElement(p.changed[k]))
             /\ DOMAIN p.changed \subseteq KeysOf(kept) => KeyOrder(entries) = KeyOrder(kept)
<1> DEFINE kept == Without(doc, p.gone)
           rest == DOMAIN p.changed \ KeysOf(kept)
           new == SetToSeq(rest)
           n == Len(kept)
           m == Len(new)
           elem(i) == IF kept[i].key \in DOMAIN p.changed
                           /\ Position(kept, kept[i].key) = i
                      THEN ChangedElement(kept[i], p.changed[kept[i].key])
                      ELSE kept[i]
           old == [i \in DOMAIN kept |-> [key |-> kept[i].key, el |-> elem(i)]]
           more == [i \in DOMAIN new |-> [key |-> new[i], el |-> NewElement(p.changed[new[i]])]]
           entries == Entries(doc, p)
           E == {old[i] : i \in DOMAIN old} \cup {more[i] : i \in DOMAIN more}
<1>1. kept \in Seq(Element)
  BY WithoutIs
<1>2. entries = old \o more
  BY DEF Entries
<1>3. IsFiniteSet(rest)
  BY FS_Subset DEF Patch
<1>4. /\ new \in Seq(rest) /\ m \in Nat
      /\ \A x \in rest : \E i \in 1..m : new[i] = x
      /\ rest = {} => new = <<>>
  <2> HIDE DEF rest
  <2> QED BY <1>3, SetToSeqIs
<1>5. n \in Nat /\ DOMAIN kept = 1..n /\ \A i \in 1..n : kept[i] \in Element
  BY <1>1
<1>6. DOMAIN new = 1..m /\ \A i \in 1..m : new[i] \in rest
  <2> HIDE DEF rest
  <2> QED BY <1>4
<1>7. /\ DOMAIN old = 1..n
      /\ \A i \in 1..n : old[i] = [key |-> kept[i].key, el |-> elem(i)]
  BY <1>5
<1>8. /\ DOMAIN more = 1..m
      /\ \A i \in 1..m : more[i] = [key |-> new[i], el |-> NewElement(p.changed[new[i]])]
  BY <1>6
<1> HIDE DEF old, more, new, kept, elem
<1>9. old \in Seq(E) /\ more \in Seq(E) /\ Len(old) = n /\ Len(more) = m
  <2>1. old = [i \in 1..n |-> old[i]] /\ more = [i \in 1..m |-> more[i]]
    BY <1>7, <1>8 DEF old, more
  <2>2. \A i \in 1..n : old[i] \in E
    BY <1>7
  <2>3. \A i \in 1..m : more[i] \in E
    BY <1>8
  <2> HIDE DEF E, n, m
  <2>4. [i \in 1..n |-> old[i]] \in Seq(E) /\ [i \in 1..m |-> more[i]] \in Seq(E)
    BY <1>4, <1>5, <2>2, <2>3
  <2>5. Len([i \in 1..n |-> old[i]]) = n /\ Len([i \in 1..m |-> more[i]]) = m
    BY <1>4, <1>5
  <2> QED BY <2>1, <2>4, <2>5
<1> HIDE DEF E
<1>10. /\ entries \in Seq(E) /\ DOMAIN entries = 1..(n + m)
       /\ \A i \in 1..n : entries[i] = old[i]
       /\ \A i \in 1..m : entries[n + i] = more[i]
  <2> HIDE DEF n, m, entries
  <2> QED BY <1>2, <1>9, ConcatParts
<1> HIDE DEF entries, n, m
<1>11. \A i \in 1..n : entries[i].key = kept[i].key /\ entries[i].el = elem(i)
  BY <1>7, <1>10
<1>12. \A i \in 1..m : entries[n + i].key = new[i]
                       /\ entries[n + i].el = NewElement(p.changed[new[i]])
  BY <1>8, <1>10
<1>13. \A i \in DOMAIN entries : i \in 1..n \/ \E l \in 1..m : i = n + l
  <2> TAKE i \in DOMAIN entries
  <2> DEFINE l == i - n
  <2>1. i \in 1..n \/ (l \in 1..m /\ i = n + l)
    BY <1>4, <1>5, <1>10
  <2> QED BY <2>1
<1>14. \A i \in 1..n : i \in DOMAIN entries /\ kept[i].key \in KeysOf(kept)
  <2>1. \A i \in 1..n : i \in DOMAIN entries
    BY <1>4, <1>5, <1>10
  <2>2. \A i \in DOMAIN kept : kept[i].key \in KeysOf(kept)
    BY DEF KeysOf
  <2> QED BY <1>5, <2>1, <2>2
<1>15. \A i \in 1..m : n + i \in DOMAIN entries
  BY <1>4, <1>5, <1>10
<1>16. \A i \in 1..m : new[i] \in DOMAIN p.changed /\ new[i] \notin KeysOf(kept)
  BY <1>6
<1>17. \A k \in DOMAIN p.changed : k \notin KeysOf(kept) => \E i \in 1..m : new[i] = k
  BY <1>4
<1>18. rest = {} => m = 0
  BY <1>4, <1>6
<1> HIDE DEF rest
<1>19. ASSUME NEW k \in KeysOf(kept)
       PROVE  \E el \in Element : /\ Has(entries, k, el) /\ el.key = k
                                  /\ el.tap = IF k \in DOMAIN p.changed
                                              THEN p.changed[k].tap
                                              ELSE TapOf(kept, k)
  <2> DEFINE i == Position(kept, k)
  <2>1. /\ i \in 1..n /\ kept[i].key = k
        /\ \A j \in 1..n : kept[j].key = k => i <= j
    BY <1>1, <1>5, PositionIs
  <2>2. kept[i] \in Element /\ TapOf(kept, k) = kept[i].tap
    BY <1>5, <2>1 DEF TapOf
  <2> DEFINE e == elem(i)
  <2>3. e = IF k \in DOMAIN p.changed THEN ChangedElement(kept[i], p.changed[k]) ELSE kept[i]
    BY <2>1 DEF elem
  <2> HIDE DEF i
  <2>4. \A j \in DOMAIN entries : entries[j].key = k => i <= j
    <3> SUFFICES ASSUME NEW j \in DOMAIN entries, entries[j].key = k PROVE i <= j
      OBVIOUS
    <3>1. CASE j \in 1..n
      BY <1>11, <2>1, <3>1
    <3>2. ASSUME NEW l \in 1..m, j = n + l PROVE i <= j
      BY <1>5, <2>1, <3>2
    <3> QED BY <1>13, <3>1, <3>2
  <2>5. i \in DOMAIN entries /\ entries[i].key = k /\ entries[i].el = e
    BY <1>11, <1>14, <2>1
  <2>6. k \in KeysOf(entries) /\ Position(entries, k) = i
    BY <1>10, <2>4, <2>5, PositionUnique
  <2>7. Has(entries, k, e)
    BY <2>5, <2>6 DEF Has
  <2> HIDE DEF e
  <2>8. CASE k \in DOMAIN p.changed
    <3>1. p.changed[k] \in Change /\ (p.changed[k].whole => p.changed[k].key = k)
      BY <2>8 DEF Patch
    <3>2. p.changed[k].tap \in Taps /\ p.changed[k].key \in Keys \cup {NoKey}
          /\ p.changed[k].whole \in BOOLEAN
      BY <3>1 DEF Change
    <3>3. CASE p.changed[k].whole
      <4>1. e = [key |-> p.changed[k].key, tap |-> p.changed[k].tap]
        BY <2>3, <2>8, <3>3 DEF ChangedElement, NewElement
      <4>2. e \in Element /\ e.key = k /\ e.tap = p.changed[k].tap
        BY <3>1, <3>2, <3>3, <4>1 DEF Element
      <4> QED BY <2>7, <2>8, <4>2
    <3>4. CASE ~p.changed[k].whole
      <4>1. e = [kept[i] EXCEPT !.tap = p.changed[k].tap]
        BY <2>3, <2>8, <3>4 DEF ChangedElement
      <4>2. e \in Element /\ e.key = k /\ e.tap = p.changed[k].tap
        BY <2>1, <2>2, <3>2, <4>1 DEF Element
      <4> QED BY <2>7, <2>8, <4>2
    <3> QED BY <3>3, <3>4
  <2>9. CASE k \notin DOMAIN p.changed
    BY <2>1, <2>2, <2>3, <2>7, <2>9
  <2> QED BY <2>8, <2>9
<1>20. ASSUME NEW k \in DOMAIN p.changed \ KeysOf(kept)
       PROVE  Has(entries, k, NewElement(p.changed[k]))
  <2>1. \E i \in 1..m : new[i] = k
    BY <1>17
  <2>2. k \in KeysOf(entries)
    BY <1>12, <1>15, <2>1 DEF KeysOf
  <2>3. Position(entries, k) \in DOMAIN entries /\ entries[Position(entries, k)].key = k
    BY <1>10, <2>2, PositionIs
  <2>4. PICK l \in 1..m : Position(entries, k) = n + l
    BY <1>11, <1>13, <1>14, <2>3
  <2> QED BY <1>12, <2>2, <2>3, <2>4 DEF Has
<1>21. KeysOf(entries) = KeysOf(kept) \cup DOMAIN p.changed
  <2>1. \A k \in KeysOf(entries) : k \in KeysOf(kept) \/ k \in DOMAIN p.changed
    <3> SUFFICES ASSUME NEW i \in DOMAIN entries
                 PROVE  entries[i].key \in KeysOf(kept) \/ entries[i].key \in DOMAIN p.changed
      BY DEF KeysOf
    <3> QED BY <1>11, <1>12, <1>13, <1>14, <1>16
  <2>2. \A k \in KeysOf(kept) : k \in KeysOf(entries)
    BY <1>19 DEF Has
  <2>3. \A k \in DOMAIN p.changed : k \in KeysOf(kept) \/ k \in KeysOf(entries)
    BY <1>20 DEF Has
  <2> QED BY <2>1, <2>2, <2>3
<1>22. ASSUME DOMAIN p.changed \subseteq KeysOf(kept)
       PROVE  KeyOrder(entries) = KeyOrder(kept)
  <2>1. m = 0
    BY <1>18, <1>22 DEF rest
  <2>2. DOMAIN entries = DOMAIN kept /\ DOMAIN kept = 1..n
    BY <1>5, <1>10, <2>1
  <2> QED BY <1>11, <2>2 DEF KeyOrder
<1>23. \E F : entries \in Seq(F)
  BY <1>10
<1> QED BY <1>19, <1>20, <1>21, <1>22, <1>23 DEF kept, entries

\* The card is left in the document or added whole by the patch.
Remains(doc, p, k) ==
    \/ k \in KeysOf(Without(doc, p.gone))
    \/ k \in DOMAIN p.changed /\ p.changed[k].whole

LEMMA ApplyIs ==
  ASSUME NEW doc \in Seq(Element), NEW p, Patch(p), NEW S, NEW order \in Seq(S),
         IF p.order = {} THEN order = KeyOrder(Entries(doc, p)) ELSE p.order = {order}
  PROVE  LET kept == Without(doc, p.gone)
             r == Apply(doc, p)
         IN  /\ r \in Seq(Element)
             /\ \A i \in DOMAIN order :
                   Remains(doc, p, order[i]) => order[i] \in KeysOf(r)
             /\ \A k \in KeysOf(r) :
                   k # NoKey => TapOf(r, k) = IF k \in DOMAIN p.changed
                                              THEN p.changed[k].tap ELSE TapOf(kept, k)
             /\ (\A i \in DOMAIN order : Remains(doc, p, order[i])) => KeyOrder(r) = order
<1> DEFINE kept == Without(doc, p.gone)
           entries == Entries(doc, p)
           Made(k) == entries[Position(entries, k)].el
           at == {i \in DOMAIN order : order[i] \in KeysOf(entries)}
           found == Subsequence(order, at)
           m == Cardinality(at)
           f == InOrder(at)
           r == Apply(doc, p)
<1>1. /\ \E E : entries \in Seq(E)
      /\ KeysOf(entries) = KeysOf(kept) \cup DOMAIN p.changed
      /\ \A k \in KeysOf(kept) :
            \E el \in Element : /\ Has(entries, k, el) /\ el.key = k
                                /\ el.tap = IF k \in DOMAIN p.changed
                                            THEN p.changed[k].tap
                                            ELSE TapOf(kept, k)
      /\ \A k \in DOMAIN p.changed \ KeysOf(kept) :
            Has(entries, k, NewElement(p.changed[k]))
  BY EntriesIs
<1>2. r = [i \in DOMAIN found |-> Made(found[i])]
  <2>1. order = IF p.order = {} THEN KeyOrder(entries) ELSE CHOOSE o \in p.order : TRUE
    OBVIOUS
  <2> QED BY <2>1 DEF Apply
<1> HIDE DEF kept, entries
<1>3. at \in SUBSET DOMAIN order
  OBVIOUS
<1>4. /\ m \in Nat /\ found \in Seq(S) /\ Len(found) = m /\ f \in [1..m -> at]
      /\ \A n \in 1..m : found[n] = order[f[n]]
      /\ \A i \in at : \E n \in 1..m : f[n] = i
  <2> HIDE DEF at
  <2>1. /\ m \in 0..Len(order) /\ Subsequence(order, at) \in Seq(S)
        /\ Len(Subsequence(order, at)) = m /\ f \in [1..m -> at]
        /\ \A n \in 1..m : Subsequence(order, at)[n] = order[f[n]]
        /\ \A i \in at : \E n \in 1..m : f[n] = i
    BY <1>3, SubsequenceIs
  <2>2. Len(order) \in Nat
    OBVIOUS
  <2> HIDE DEF m, f
  <2>3. m \in Nat
    BY <2>1, <2>2
  <2> QED BY <2>1, <2>3
<1>5. DOMAIN found = 1..m
  <2> HIDE DEF found, m
  <2> QED BY <1>4
<1>6. \A i \in at : i \in DOMAIN order /\ order[i] \in KeysOf(entries)
  OBVIOUS
<1>7. \A i \in DOMAIN order : order[i] \in KeysOf(entries) => i \in at
  OBVIOUS
<1>8. at = DOMAIN order => found = order
  BY WholeIsSame
<1> HIDE DEF at, found, m, f, r
<1>9. \A n \in 1..m : found[n] \in KeysOf(entries)
  BY <1>4, <1>6
<1>10. ASSUME NEW k \in KeysOf(kept)
       PROVE  /\ Made(k) \in Element /\ Made(k).key = k
              /\ Made(k).tap = IF k \in DOMAIN p.changed THEN p.changed[k].tap ELSE TapOf(kept, k)
  BY <1>1, <1>10 DEF Has
<1>11. ASSUME NEW k \in DOMAIN p.changed \ KeysOf(kept)
       PROVE  /\ Made(k) \in Element /\ Made(k).tap = p.changed[k].tap
              /\ Made(k).key = IF p.changed[k].whole THEN k ELSE NoKey
  <2>1. Made(k) = NewElement(p.changed[k])
    BY <1>1 DEF Has
  <2>2. p.changed[k] \in Change /\ (p.changed[k].whole => p.changed[k].key = k)
    BY DEF Patch
  <2>3. /\ p.changed[k].tap \in Taps /\ p.changed[k].key \in Keys \cup {NoKey}
        /\ p.changed[k].whole \in BOOLEAN
    BY <2>2 DEF Change
  <2>4. Made(k) = [key |-> IF p.changed[k].whole THEN p.changed[k].key ELSE NoKey,
                   tap |-> p.changed[k].tap]
    BY <2>1 DEF NewElement
  <2> HIDE DEF Made
  <2> QED BY <2>2, <2>3, <2>4 DEF Element
<1> HIDE DEF Made
<1>12. \A k \in KeysOf(entries) :
          /\ Made(k) \in Element /\ Made(k).key \in {k, NoKey}
          /\ Made(k).tap = IF k \in DOMAIN p.changed THEN p.changed[k].tap ELSE TapOf(kept, k)
  BY <1>1, <1>10, <1>11
<1>13. \A k : Remains(doc, p, k) => k \in KeysOf(entries) /\ Made(k).key = k
  BY <1>1, <1>10, <1>11 DEF Remains, kept
<1>14. DOMAIN r = 1..m /\ \A n \in 1..m : r[n] = Made(found[n])
  BY <1>2, <1>5
<1>15. r \in Seq(Element)
  <2>1. r = [n \in 1..m |-> Made(found[n])]
    BY <1>2, <1>5
  <2>2. \A n \in 1..m : Made(found[n]) \in Element
    BY <1>9, <1>12
  <2> QED BY <1>4, <2>1, <2>2
<1>16. ASSUME NEW i \in DOMAIN order, Remains(doc, p, order[i])
       PROVE  order[i] \in KeysOf(r)
  <2>1. i \in at
    BY <1>7, <1>13, <1>16
  <2>2. PICK n \in 1..m : f[n] = i
    BY <1>4, <2>1
  <2>3. n \in DOMAIN r /\ r[n].key = order[i]
    BY <1>4, <1>13, <1>14, <1>16, <2>2
  <2> QED BY <2>3 DEF KeysOf
<1>17. ASSUME NEW k \in KeysOf(r), k # NoKey
       PROVE  TapOf(r, k) = IF k \in DOMAIN p.changed THEN p.changed[k].tap ELSE TapOf(kept, k)
  <2> DEFINE n == Position(r, k)
  <2>1. n \in 1..m /\ r[n].key = k /\ TapOf(r, k) = r[n].tap
    BY <1>14, <1>15, PositionIs DEF TapOf
  <2> HIDE DEF n
  <2>2. r[n] = Made(found[n]) /\ found[n] \in KeysOf(entries)
    BY <1>9, <1>14, <2>1
  <2>3. found[n] = k
    BY <1>12, <1>17, <2>1, <2>2
  <2> QED BY <1>12, <2>1, <2>2, <2>3
<1>18. ASSUME \A i \in DOMAIN order : Remains(doc, p, order[i])
       PROVE  KeyOrder(r) = order
  <2>1. at = DOMAIN order
    BY <1>3, <1>7, <1>13, <1>18
  <2>2. found = order
    BY <1>8, <2>1
  <2>3. DOMAIN order = 1..m /\ DOMAIN r = 1..m
    BY <1>5, <1>14, <2>2
  <2>4. \A n \in 1..m : r[n].key = order[n]
    BY <1>13, <1>14, <1>18, <2>2, <2>3
  <2>5. KeyOrder(r) = [n \in 1..m |-> order[n]]
    BY <2>3, <2>4 DEF KeyOrder
  <2>6. order = [n \in 1..m |-> order[n]]
    BY <2>3
  <2> QED BY <2>5, <2>6
<1> QED BY <1>15, <1>16, <1>17, <1>18 DEF r, kept

(* A patch made of two boards, applied to any document: it is right about what  *)
(* it changes, leaves the other cards as they were, and gets the order right.   *)
LEMMA FoldIs ==
  ASSUME NEW from \in Boards, NEW to \in Boards, NEW doc \in Folds
  PROVE  LET p == Diff(from, to)
             r == Apply(doc, p)
             Fits(k) == k \in KeysOf(doc) \/ k \notin KeysOf(from)
         IN  /\ r \in Folds
             /\ \A k \in KeysOf(to) : Fits(k) => k \in KeysOf(r)
             /\ \A k \in KeysOf(to) : Fits(k) =>
                   TapOf(r, k) = IF k \in DOMAIN p.changed THEN TapOf(to, k) ELSE TapOf(doc, k)
             /\ (p.order # {} /\ \A k \in KeysOf(to) : Fits(k)) => KeyOrder(r) = KeyOrder(to)
             /\ (p.order = {} /\ KeyOrder(doc) = KeyOrder(to)) => KeyOrder(r) = KeyOrder(to)
<1> DEFINE p == Diff(from, to)
           r == Apply(doc, p)
           kept == Without(doc, p.gone)
           Fits(k) == k \in KeysOf(doc) \/ k \notin KeysOf(from)
           order == IF p.order = {} THEN KeyOrder(Entries(doc, p)) ELSE KeyOrder(to)
<1>1. /\ Patch(p)
      /\ DOMAIN p.changed \subseteq KeysOf(to)
      /\ \A k \in DOMAIN p.changed :
            /\ p.changed[k].tap = TapOf(to, k)
            /\ p.changed[k].whole <=> k \notin KeysOf(from)
      /\ \A k \in KeysOf(to) : k \notin DOMAIN p.changed =>
            k \in KeysOf(from) /\ TapOf(from, k) = TapOf(to, k)
      /\ p.gone = KeysOf(from) \ KeysOf(to)
      /\ p.order = IF KeyOrder(from) = KeyOrder(to) THEN {} ELSE {KeyOrder(to)}
  BY DiffIs
<1>2. /\ doc \in Seq(Element) /\ to \in Seq(Element) /\ NoKey \notin KeysOf(to)
  BY BoardsAssumption DEF Folds, Keyed
<1> HIDE DEF p
<1>3. /\ KeysOf(kept) = KeysOf(doc) \ p.gone
      /\ \A k \in KeysOf(doc) \ p.gone : TapOf(kept, k) = TapOf(doc, k)
      /\ KeysOf(doc) \cap p.gone = {} => kept = doc
  BY <1>2, WithoutIs
<1>4. /\ \E E : Entries(doc, p) \in Seq(E)
      /\ KeysOf(Entries(doc, p)) = KeysOf(kept) \cup DOMAIN p.changed
      /\ DOMAIN p.changed \subseteq KeysOf(kept) => KeyOrder(Entries(doc, p)) = KeyOrder(kept)
  BY <1>1, <1>2, EntriesIs
<1>5. /\ p.order = {} => order = KeyOrder(Entries(doc, p))
      /\ p.order # {} => order = KeyOrder(to) /\ p.order = {order}
  BY <1>1
<1>6. \E S : order \in Seq(S)
  <2>1. PICK E : Entries(doc, p) \in Seq(E)
    BY <1>4
  <2>2. KeyOrder(Entries(doc, p)) \in Seq(KeysOf(Entries(doc, p)))
    BY <2>1, OrderIs
  <2>3. KeyOrder(to) \in Seq(KeysOf(to))
    BY <1>2, OrderIs
  <2> QED BY <2>2, <2>3
<1>7. p.order = {} => KeysOf(from) = KeysOf(to)
  BY <1>1, SameOrderSameKeys
<1>8. /\ \A k \in KeysOf(to) : \E i \in DOMAIN KeyOrder(to) : KeyOrder(to)[i] = k
      /\ \A i \in DOMAIN KeyOrder(to) : KeyOrder(to)[i] \in KeysOf(to)
      /\ \A k \in KeysOf(Entries(doc, p)) :
            \E i \in DOMAIN KeyOrder(Entries(doc, p)) : KeyOrder(Entries(doc, p))[i] = k
  BY DEF KeyOrder, KeysOf
<1> HIDE DEF kept
<1>9. \A k \in KeysOf(to) : Fits(k) => Remains(doc, p, k)
  BY <1>1, <1>3 DEF Remains, kept
<1> HIDE DEF order
<1>10. PICK S : order \in Seq(S)
  BY <1>6
<1>11. IF p.order = {} THEN order = KeyOrder(Entries(doc, p)) ELSE p.order = {order}
  BY <1>5
<1>12. /\ r \in Seq(Element)
       /\ \A i \in DOMAIN order : Remains(doc, p, order[i]) => order[i] \in KeysOf(r)
       /\ \A k \in KeysOf(r) :
             k # NoKey => TapOf(r, k) = IF k \in DOMAIN p.changed
                                        THEN p.changed[k].tap ELSE TapOf(kept, k)
       /\ (\A i \in DOMAIN order : Remains(doc, p, order[i])) => KeyOrder(r) = order
  BY <1>1, <1>2, <1>10, <1>11, ApplyIs DEF kept
<1> HIDE DEF r
<1>13. ASSUME NEW k \in KeysOf(to), Fits(k)
       PROVE  /\ k \in KeysOf(r)
              /\ TapOf(r, k) = IF k \in DOMAIN p.changed THEN TapOf(to, k) ELSE TapOf(doc, k)
  <2>1. Remains(doc, p, k)
    BY <1>9, <1>13
  <2>2. k \in KeysOf(Entries(doc, p))
    BY <1>4, <2>1 DEF Remains, kept
  <2>3. \E i \in DOMAIN order : order[i] = k
    BY <1>5, <1>8, <2>2
  <2>4. k \in KeysOf(r)
    BY <1>12, <2>1, <2>3
  <2>5. TapOf(r, k) = IF k \in DOMAIN p.changed THEN p.changed[k].tap ELSE TapOf(kept, k)
    BY <1>2, <1>12, <2>4
  <2>6. k \notin DOMAIN p.changed => TapOf(kept, k) = TapOf(doc, k)
    <3>1. k \notin DOMAIN p.changed => k \in KeysOf(from) /\ k \notin p.gone
      BY <1>1
    <3> QED BY <1>3, <1>13, <3>1
  <2> QED BY <1>1, <2>4, <2>5, <2>6
<1>14. ASSUME p.order # {}, \A k \in KeysOf(to) : Fits(k)
       PROVE  KeyOrder(r) = KeyOrder(to)
  BY <1>5, <1>8, <1>9, <1>12, <1>14
<1>15. ASSUME p.order = {}, KeyOrder(doc) = KeyOrder(to)
       PROVE  KeyOrder(r) = KeyOrder(to)
  <2>1. KeysOf(doc) = KeysOf(to)
    BY <1>15, SameOrderSameKeys
  <2>2. p.gone = {}
    BY <1>1, <1>7, <1>15
  <2>3. kept = doc
    BY <1>3, <2>2
  <2>4. KeyOrder(Entries(doc, p)) = KeyOrder(to) /\ order = KeyOrder(to)
    BY <1>1, <1>4, <1>5, <1>15, <2>1, <2>3
  <2>5. \A i \in DOMAIN order : Remains(doc, p, order[i])
    BY <1>8, <2>1, <2>3, <2>4 DEF Remains, kept
  <2> QED BY <1>12, <2>4, <2>5
<1>16. r \in Folds
  BY <1>12 DEF Folds
<1> QED BY <1>13, <1>14, <1>15, <1>16 DEF p, r

-----------------------------------------------------------------------------
(* What an envelope does to a document, and what a queue of them leads to.      *)

Carries(env) == env.kind \in {"state", "stateDelta"}

Changes(env, k) == env.kind = "stateDelta" /\ k \in DOMAIN env.patch.changed

Adds(env, k) == Changes(env, k) /\ env.patch.changed[k].whole

Reorders(env) == env.kind = "stateDelta" /\ env.patch.order # {}

\* An envelope that carries a board holds it whole, or what makes it of another
\* board of the game.
Sound(env) ==
    \/ env = Error
    \/ env.kind = "prompt"
    \/ env.kind = "state" /\ env.board \in Boards /\ env.label = env.board
    \/ /\ env.kind = "stateDelta" /\ env.base \in Boards /\ env.label \in Boards
       /\ env.patch = Diff(env.base, env.label)

(* Whoever holds the document, under the label, and takes what is in the queue  *)
(* behind place i comes to b: a whole board is among it, or whatever differs    *)
(* from b is set there. Each card of b is added or in the document, its field   *)
(* is right or changed, and so with the order and the label.                    *)
LeadsCards(doc, q, i, b) ==
    \A k \in KeysOf(b) :
        \/ \E j \in DOMAIN q : j > i /\ Adds(q[j], k)
        \/ /\ k \in KeysOf(doc)
           /\ \/ TapOf(doc, k) = TapOf(b, k)
              \/ \E j \in DOMAIN q : j > i /\ Changes(q[j], k)

LeadsOrder(doc, q, i, b) ==
    \/ KeyOrder(doc) = KeyOrder(b)
    \/ \E j \in DOMAIN q : j > i /\ Reorders(q[j])

LeadsLabel(label, q, i, b) ==
    \/ label = b
    \/ \E j \in DOMAIN q : j > i /\ Carries(q[j])

WholeBehind(q, i) == \E j \in DOMAIN q : j > i /\ q[j].kind = "state"

Leads(doc, label, q, i, b) ==
    \/ WholeBehind(q, i)
    \/ LeadsCards(doc, q, i, b) /\ LeadsOrder(doc, q, i, b) /\ LeadsLabel(label, q, i, b)

\* Every board in the queue leads on to b.
Stream(q, b) ==
    \A i \in DOMAIN q :
        Sound(q[i]) /\ (Carries(q[i]) => Leads(q[i].label, q[i].label, q, i, b))

\* What a queue leads to, more of it leads to as well.
LEMMA LeadsOn ==
  ASSUME NEW E, NEW q \in Seq(E), NEW t \in Seq(E), NEW doc, NEW label, NEW i, NEW b,
         Leads(doc, label, q, i, b)
  PROVE  Leads(doc, label, q \o t, i, b)
<1> DEFINE r == q \o t
<1>1. \A j \in DOMAIN q : j \in DOMAIN r /\ r[j] = q[j]
  BY ConcatParts
<1> HIDE DEF r
<1>2. WholeBehind(q, i) => WholeBehind(r, i)
  BY <1>1 DEF WholeBehind
<1>3. LeadsCards(doc, q, i, b) => LeadsCards(doc, r, i, b)
  BY <1>1 DEF LeadsCards
<1>4. LeadsOrder(doc, q, i, b) => LeadsOrder(doc, r, i, b)
  BY <1>1 DEF LeadsOrder
<1>5. LeadsLabel(label, q, i, b) => LeadsLabel(label, r, i, b)
  BY <1>1 DEF LeadsLabel
<1> QED BY <1>2, <1>3, <1>4, <1>5 DEF Leads, r

\* One envelope more, and where it stands.
LEMMA OneMore ==
  ASSUME NEW E, NEW q \in Seq(E), NEW env
  PROVE  LET r == q \o <<env>>
         IN  /\ DOMAIN r = 1..(Len(q) + 1) /\ DOMAIN q = 1..Len(q) /\ Len(q) \in Nat
             /\ r[Len(q) + 1] = env
             /\ \A j \in DOMAIN q : j \in DOMAIN r /\ r[j] = q[j] /\ j <= Len(q)
             /\ \A j \in DOMAIN r : j \in DOMAIN q \/ j = Len(q) + 1
             /\ \E F : q \in Seq(F) /\ <<env>> \in Seq(F) /\ r \in Seq(F)
<1> DEFINE F == E \cup {env}
<1>1. q \in Seq(F) /\ <<env>> \in Seq(F) /\ Len(<<env>>) = 1 /\ <<env>>[1] = env
  BY SeqMonotonic
<1> HIDE DEF F
<1>2. /\ q \o <<env>> \in Seq(F)
      /\ DOMAIN (q \o <<env>>) = 1..(Len(q) + 1)
      /\ DOMAIN q = 1..Len(q) /\ Len(q) \in Nat
      /\ \A j \in 1..Len(q) : (q \o <<env>>)[j] = q[j]
      /\ (q \o <<env>>)[Len(q) + 1] = env
  BY <1>1, ConcatParts
<1> QED BY <1>1, <1>2

\* The next board, as a patch, takes what leads to the last one to it.
LEMMA LeadsByDelta ==
  ASSUME NEW E, NEW q \in Seq(E), NEW doc, NEW label, NEW i \in 0..Len(q),
         NEW from \in Boards, NEW to \in Boards,
         Leads(doc, label, q, i, from)
  PROVE  Leads(doc, label, q \o <<Delta(from, to)>>, i, to)
<1> DEFINE env == Delta(from, to)
           r == q \o <<env>>
           d == Diff(from, to)
           n == Len(q) + 1
<1>1. n \in DOMAIN r /\ n > i /\ r[n] = env
  BY OneMore
<1>2. \A j \in DOMAIN q : j \in DOMAIN r /\ r[j] = q[j]
  BY OneMore
<1>3. env.kind = "stateDelta" /\ env.patch = d
  BY DEF Delta
<1>4. /\ \A k \in DOMAIN d.changed : d.changed[k].whole <=> k \notin KeysOf(from)
      /\ \A k \in KeysOf(to) : k \notin DOMAIN d.changed =>
            k \in KeysOf(from) /\ TapOf(from, k) = TapOf(to, k)
      /\ d.order = IF KeyOrder(from) = KeyOrder(to) THEN {} ELSE {KeyOrder(to)}
  BY DiffIs
<1> HIDE DEF r, n, env, d
<1>5. CASE WholeBehind(q, i)
  BY <1>2, <1>5 DEF WholeBehind, Leads, r, env
<1>6. CASE ~WholeBehind(q, i)
  <2>1. LeadsCards(doc, q, i, from) /\ LeadsOrder(doc, q, i, from)
    BY <1>6 DEF Leads
  <2>2. LeadsLabel(label, r, i, to)
    BY <1>1, <1>3 DEF LeadsLabel, Carries
  <2>3. LeadsOrder(doc, r, i, to)
    <3>1. CASE KeyOrder(from) = KeyOrder(to)
      BY <1>2, <2>1, <3>1 DEF LeadsOrder
    <3>2. CASE KeyOrder(from) # KeyOrder(to)
      <4>1. Reorders(env)
        BY <1>3, <1>4, <3>2 DEF Reorders
      <4> QED BY <1>1, <4>1 DEF LeadsOrder
    <3> QED BY <3>1, <3>2
  <2>4. ASSUME NEW k \in KeysOf(to)
        PROVE  \/ \E j \in DOMAIN r : j > i /\ Adds(r[j], k)
               \/ /\ k \in KeysOf(doc)
                  /\ \/ TapOf(doc, k) = TapOf(to, k)
                     \/ \E j \in DOMAIN r : j > i /\ Changes(r[j], k)
    <3>1. CASE k \in DOMAIN d.changed
      <4>1. Changes(env, k)
        BY <1>3, <3>1 DEF Changes
      <4>2. CASE k \notin KeysOf(from)
        <5>1. Adds(env, k)
          BY <1>3, <1>4, <3>1, <4>1, <4>2 DEF Adds
        <5> QED BY <1>1, <5>1
      <4>3. CASE k \in KeysOf(from)
        BY <1>1, <1>2, <2>1, <4>1, <4>3 DEF LeadsCards
      <4> QED BY <4>2, <4>3
    <3>2. CASE k \notin DOMAIN d.changed
      <4>1. k \in KeysOf(from) /\ TapOf(from, k) = TapOf(to, k)
        BY <1>4, <3>2
      <4> QED BY <1>2, <2>1, <4>1 DEF LeadsCards
    <3> QED BY <3>1, <3>2
  <2>5. LeadsCards(doc, r, i, to)
    BY <2>4 DEF LeadsCards
  <2> QED BY <2>2, <2>3, <2>5 DEF Leads, r, env
<1> QED BY <1>5, <1>6

LEMMA LeadsByState ==
  ASSUME NEW E, NEW q \in Seq(E), NEW doc, NEW label, NEW i \in 0..Len(q), NEW to
  PROVE  Leads(doc, label, q \o <<State(to)>>, i, to)
<1> DEFINE r == q \o <<State(to)>>
<1>1. Len(q) + 1 \in DOMAIN r /\ Len(q) + 1 > i /\ r[Len(q) + 1] = State(to)
  BY OneMore
<1>2. State(to).kind = "state"
  BY DEF State
<1> HIDE DEF r
<1>3. WholeBehind(r, i)
  BY <1>1, <1>2 DEF WholeBehind
<1> QED BY <1>3 DEF Leads, r

\* A board leads to itself.
LEMMA LeadsAlone ==
  ASSUME NEW q, NEW i, NEW b
  PROVE  Leads(b, b, q, i, b)
BY DEF Leads, LeadsCards, LeadsOrder, LeadsLabel

\* The first envelope leaves the queue.
LEMMA LeadsBehind ==
  ASSUME NEW E, NEW q \in Seq(E), q # <<>>, NEW doc, NEW label, NEW b,
         NEW i \in Nat, Leads(doc, label, q, i + 1, b)
  PROVE  Leads(doc, label, Tail(q), i, b)
<1> DEFINE r == Tail(q)
<1>1. \A j \in DOMAIN q : j > i + 1 => j - 1 \in DOMAIN r /\ j - 1 > i /\ r[j - 1] = q[j]
  <2> TAKE j \in DOMAIN q
  <2> DEFINE l == j - 1
  <2>1. j > i + 1 => l \in 1..(Len(q) - 1) /\ l + 1 = j /\ l > i
    BY TailParts
  <2> QED BY <2>1, TailParts
<1> HIDE DEF r
<1>2. WholeBehind(q, i + 1) => WholeBehind(r, i)
  BY <1>1 DEF WholeBehind
<1>3. LeadsCards(doc, q, i + 1, b) => LeadsCards(doc, r, i, b)
  BY <1>1 DEF LeadsCards
<1>4. LeadsOrder(doc, q, i + 1, b) => LeadsOrder(doc, r, i, b)
  BY <1>1 DEF LeadsOrder
<1>5. LeadsLabel(label, q, i + 1, b) => LeadsLabel(label, r, i, b)
  BY <1>1 DEF LeadsLabel
<1> QED BY <1>2, <1>3, <1>4, <1>5 DEF Leads, r

\* What carries no board leads nowhere.
LEMMA LeadsPast ==
  ASSUME NEW E, NEW q \in Seq(E), q # <<>>, NEW doc, NEW label, NEW b,
         ~Carries(q[1]), Leads(doc, label, q, 0, b)
  PROVE  Leads(doc, label, Tail(q), 0, b)
<1>1. \A j \in DOMAIN q : j > 0 /\ j # 1 => j > 0 + 1
  BY TailParts
<1>2. /\ q[1].kind # "state" /\ ~Reorders(q[1])
      /\ \A k : ~Adds(q[1], k) /\ ~Changes(q[1], k)
  BY DEF Carries, Adds, Changes, Reorders
<1>3. WholeBehind(q, 0) => WholeBehind(q, 0 + 1)
  BY <1>1, <1>2 DEF WholeBehind
<1>4. LeadsCards(doc, q, 0, b) => LeadsCards(doc, q, 0 + 1, b)
  BY <1>1, <1>2 DEF LeadsCards
<1>5. LeadsOrder(doc, q, 0, b) => LeadsOrder(doc, q, 0 + 1, b)
  BY <1>1, <1>2 DEF LeadsOrder
<1>6. LeadsLabel(label, q, 0, b) => LeadsLabel(label, q, 0 + 1, b)
  BY <1>1 DEF LeadsLabel
<1>7. Leads(doc, label, q, 0 + 1, b)
  BY <1>3, <1>4, <1>5, <1>6 DEF Leads
<1> QED BY <1>7, LeadsBehind

\* A card that is added changes the order.
LEMMA AddsReorders ==
  ASSUME NEW env, Sound(env), NEW k, Adds(env, k)
  PROVE  Reorders(env)
<1>1. /\ env.kind = "stateDelta" /\ k \in DOMAIN env.patch.changed
      /\ env.patch.changed[k].whole
  BY DEF Adds, Changes
<1>2. env.base \in Boards /\ env.label \in Boards /\ env.patch = Diff(env.base, env.label)
  BY <1>1 DEF Sound, Error
<1> DEFINE d == Diff(env.base, env.label)
<1>3. /\ DOMAIN d.changed \subseteq KeysOf(env.label)
      /\ \A l \in DOMAIN d.changed : d.changed[l].whole <=> l \notin KeysOf(env.base)
      /\ d.order = IF KeyOrder(env.base) = KeyOrder(env.label) THEN {} ELSE {KeyOrder(env.label)}
  BY <1>2, DiffIs
<1> HIDE DEF d
<1>4. k \in KeysOf(env.label) /\ k \notin KeysOf(env.base)
  BY <1>1, <1>2, <1>3 DEF d
<1>5. KeyOrder(env.base) # KeyOrder(env.label)
  BY <1>4, SameOrderSameKeys
<1>6. env.patch.order # {}
  BY <1>2, <1>3, <1>5 DEF d
<1> QED BY <1>1, <1>6 DEF Reorders

(* The heart of it: a patch folded into a document that was on the way to b     *)
(* leaves one that still is, whichever board the patch was made for.            *)
LEMMA LeadsFolded ==
  ASSUME NEW E, NEW q \in Seq(E), q # <<>>, NEW b \in Boards,
         \A j \in DOMAIN q : Sound(q[j]), q[1].kind = "stateDelta",
         NEW doc \in Folds, NEW label, Leads(doc, label, q, 0, b),
         Leads(q[1].label, q[1].label, q, 1, b)
  PROVE  /\ Apply(doc, q[1].patch) \in Folds
         /\ Leads(Apply(doc, q[1].patch), q[1].label, Tail(q), 0, b)
<1> DEFINE env == q[1]
           from == env.base
           to == env.label
           p == env.patch
           r == Apply(doc, p)
           Fits(k) == k \in KeysOf(doc) \/ k \notin KeysOf(from)
<1>1. 1 \in DOMAIN q /\ \A j \in DOMAIN q : j > 0 /\ j # 1 => j > 1
  BY TailParts
<1>2. from \in Boards /\ to \in Boards /\ p = Diff(from, to)
  BY <1>1 DEF Sound, Error
<1>0. p = env.patch
  OBVIOUS
<1> HIDE DEF r, p, from, to
<1>3. /\ \A k \in DOMAIN p.changed : p.changed[k].whole <=> k \notin KeysOf(from)
      /\ \A k \in KeysOf(to) : k \notin DOMAIN p.changed => k \in KeysOf(from)
      /\ p.order = IF KeyOrder(from) = KeyOrder(to) THEN {} ELSE {KeyOrder(to)}
  BY <1>2, DiffIs
<1>4. /\ r \in Folds
      /\ \A k \in KeysOf(to) : Fits(k) => k \in KeysOf(r)
      /\ \A k \in KeysOf(to) : Fits(k) =>
            TapOf(r, k) = IF k \in DOMAIN p.changed THEN TapOf(to, k) ELSE TapOf(doc, k)
      /\ (p.order # {} /\ \A k \in KeysOf(to) : Fits(k)) => KeyOrder(r) = KeyOrder(to)
      /\ (p.order = {} /\ KeyOrder(doc) = KeyOrder(to)) => KeyOrder(r) = KeyOrder(to)
  BY <1>2, FoldIs DEF r
<1>5. env.kind = "stateDelta"
  OBVIOUS
<1>6. /\ \A k : Adds(env, k) <=> k \in DOMAIN p.changed /\ p.changed[k].whole
      /\ \A k : Changes(env, k) <=> k \in DOMAIN p.changed
      /\ Reorders(env) <=> p.order # {}
  BY <1>0, <1>5 DEF Adds, Changes, Reorders
<1> HIDE DEF env
<1>7. WholeBehind(q, 1) => Leads(r, to, q, 1, b)
  BY DEF Leads
<1>8. ASSUME ~WholeBehind(q, 1) PROVE Leads(r, to, q, 1, b)
  <2>1. ~WholeBehind(q, 0)
    BY <1>1, <1>5, <1>8 DEF WholeBehind, env
  <2>2. LeadsCards(doc, q, 0, b) /\ LeadsOrder(doc, q, 0, b)
    BY <2>1 DEF Leads
  <2>3. LeadsCards(to, q, 1, b) /\ LeadsOrder(to, q, 1, b) /\ LeadsLabel(to, q, 1, b)
    BY <1>8 DEF Leads, to, env
  <2>4. ASSUME NEW k \in KeysOf(b), \A j \in DOMAIN q : j > 1 => ~Adds(q[j], k)
        PROVE  /\ k \in KeysOf(to) /\ Fits(k)
               /\ \/ TapOf(r, k) = TapOf(b, k)
                  \/ \E j \in DOMAIN q : j > 1 /\ Changes(q[j], k)
    <3>1. /\ k \in KeysOf(to)
          /\ \/ TapOf(to, k) = TapOf(b, k)
             \/ \E j \in DOMAIN q : j > 1 /\ Changes(q[j], k)
      BY <2>3, <2>4 DEF LeadsCards
    <3>2. \/ Adds(env, k)
          \/ /\ k \in KeysOf(doc)
             /\ \/ TapOf(doc, k) = TapOf(b, k) \/ Changes(env, k)
                \/ \E j \in DOMAIN q : j > 1 /\ Changes(q[j], k)
      BY <1>1, <2>2, <2>4 DEF LeadsCards, env
    <3>3. Fits(k)
      BY <1>3, <1>6, <3>2
    <3>4. CASE k \in DOMAIN p.changed
      BY <1>4, <3>1, <3>3, <3>4
    <3>5. CASE k \notin DOMAIN p.changed
      BY <1>4, <1>6, <3>1, <3>2, <3>3, <3>5
    <3> QED BY <3>1, <3>3, <3>4, <3>5
  <2>5. LeadsCards(r, q, 1, b)
    BY <1>4, <2>4 DEF LeadsCards
  <2>6. ASSUME \A j \in DOMAIN q : j > 1 => ~Reorders(q[j])
        PROVE  KeyOrder(r) = KeyOrder(b)
    <3>1. KeyOrder(to) = KeyOrder(b)
      BY <2>3, <2>6 DEF LeadsOrder
    <3>2. CASE p.order # {}
      <4>1. \A k \in KeysOf(b) : \A j \in DOMAIN q : j > 1 => ~Adds(q[j], k)
        BY <2>6, AddsReorders
      <4>2. KeysOf(to) = KeysOf(b)
        BY <3>1, SameOrderSameKeys
      <4>3. \A k \in KeysOf(to) : Fits(k)
        BY <2>4, <4>1, <4>2
      <4> QED BY <1>4, <3>1, <3>2, <4>3
    <3>3. CASE p.order = {}
      <4>1. KeyOrder(doc) = KeyOrder(b)
        BY <1>1, <1>6, <2>2, <2>6, <3>3 DEF LeadsOrder, env
      <4> QED BY <1>4, <3>1, <3>3, <4>1
    <3> QED BY <3>2, <3>3
  <2>7. LeadsOrder(r, q, 1, b)
    BY <2>6 DEF LeadsOrder
  <2> QED BY <2>3, <2>5, <2>7 DEF Leads
<1>9. Leads(r, to, q, 0 + 1, b)
  <2>1. 0 + 1 = 1
    OBVIOUS
  <2> QED BY <1>7, <1>8, <2>1
<1>10. Leads(r, to, Tail(q), 0, b)
  BY <1>9, LeadsBehind
<1> QED BY <1>4, <1>10 DEF r, p, to, env

(* Nothing left in the queue: the document is there.                            *)
LEMMA LeadsThere ==
  ASSUME NEW doc \in Folds, NEW label, NEW b \in Boards, Leads(doc, label, <<>>, 0, b)
  PROVE  doc = b /\ label = b
<1>1. DOMAIN <<>> = {}
  OBVIOUS
<1>2. /\ \A k \in KeysOf(b) : k \in KeysOf(doc) /\ TapOf(doc, k) = TapOf(b, k)
      /\ KeyOrder(doc) = KeyOrder(b) /\ label = b
  BY <1>1 DEF Leads, WholeBehind, LeadsCards, LeadsOrder, LeadsLabel
<1>3. /\ b \in Seq(Element) /\ doc \in Seq(Element)
      /\ \A i, j \in DOMAIN KeyOrder(b) : KeyOrder(b)[i] = KeyOrder(b)[j] => i = j
  BY BoardsAssumption DEF Folds, Keyed, IsInjective
<1>4. /\ DOMAIN b = DOMAIN doc /\ DOMAIN b = DOMAIN KeyOrder(b)
      /\ \A i \in DOMAIN b : doc[i].key = b[i].key /\ KeyOrder(b)[i] = b[i].key
  <2>1. /\ DOMAIN KeyOrder(b) = DOMAIN b /\ \A i \in DOMAIN b : KeyOrder(b)[i] = b[i].key
        /\ DOMAIN KeyOrder(doc) = DOMAIN doc
        /\ \A i \in DOMAIN doc : KeyOrder(doc)[i] = doc[i].key
    BY <1>3, OrderIs
  <2> QED BY <1>2, <2>1
<1>5. ASSUME NEW i \in DOMAIN b
      PROVE  doc[i] = b[i]
  <2> DEFINE k == b[i].key
  <2>1. k \in KeysOf(b) /\ k \in KeysOf(doc)
    <3>1. k \in KeysOf(b)
      BY DEF KeysOf
    <3> QED BY <1>2, <3>1
  <2>2. Position(b, k) = i
    <3>1. Position(b, k) \in DOMAIN b /\ b[Position(b, k)].key = k
      BY <1>3, <2>1, PositionIs
    <3> QED BY <1>3, <1>4, <3>1
  <2>3. Position(doc, k) = i
    <3>1. Position(doc, k) \in DOMAIN doc /\ doc[Position(doc, k)].key = k
      BY <1>3, <2>1, PositionIs
    <3> QED BY <1>3, <1>4, <3>1
  <2>4. doc[i].tap = b[i].tap
    BY <1>2, <2>1, <2>2, <2>3 DEF TapOf
  <2>5. doc[i] \in Element /\ b[i] \in Element
    <3>1. \A s \in Seq(Element) : \A l \in DOMAIN s : s[l] \in Element
      OBVIOUS
    <3> QED BY <1>3, <1>4, <3>1
  <2> QED BY <1>4, <2>4, <2>5 DEF Element
<1>6. doc = b
  <2>1. doc = [i \in DOMAIN doc |-> doc[i]] /\ b = [i \in DOMAIN b |-> b[i]]
    BY <1>3
  <2> QED BY <1>4, <1>5, <2>1
<1> QED BY <1>2, <1>6

(* A patch is exact: made of two boards and applied to the first, it gives the  *)
(* second, card for card, field for field and in its order, whatever came,     *)
(* went, changed or moved (state_delta.rs:45 diff, :148 apply).           *)
THEOREM PatchesAreExact ==
  \A from, to \in Boards : Apply(from, Diff(from, to)) = to
<1> SUFFICES ASSUME NEW from \in Boards, NEW to \in Boards
             PROVE  Apply(from, Diff(from, to)) = to
  OBVIOUS
<1> DEFINE p == Diff(from, to)
           r == Apply(from, p)
<1>1. from \in Folds
  BY BoardsAssumption DEF Folds
<1>2. /\ r \in Folds
      /\ \A k \in KeysOf(to) : k \in KeysOf(r)
      /\ \A k \in KeysOf(to) :
            TapOf(r, k) = IF k \in DOMAIN p.changed THEN TapOf(to, k) ELSE TapOf(from, k)
      /\ p.order # {} => KeyOrder(r) = KeyOrder(to)
      /\ (p.order = {} /\ KeyOrder(from) = KeyOrder(to)) => KeyOrder(r) = KeyOrder(to)
  BY <1>1, FoldIs
<1>3. /\ \A k \in KeysOf(to) : k \notin DOMAIN p.changed => TapOf(from, k) = TapOf(to, k)
      /\ p.order = {} => KeyOrder(from) = KeyOrder(to)
  <2>1. /\ Patch(p)
        /\ DOMAIN p.changed \subseteq KeysOf(to)
        /\ \A k \in DOMAIN p.changed :
              /\ p.changed[k].tap = TapOf(to, k)
              /\ p.changed[k].whole <=> k \notin KeysOf(from)
        /\ \A k \in KeysOf(to) : k \notin DOMAIN p.changed =>
              k \in KeysOf(from) /\ TapOf(from, k) = TapOf(to, k)
        /\ p.gone = KeysOf(from) \ KeysOf(to)
        /\ p.order = IF KeyOrder(from) = KeyOrder(to) THEN {} ELSE {KeyOrder(to)}
    BY DiffIs
  <2> HIDE DEF p
  <2> QED BY <2>1
<1> HIDE DEF p, r
<1>4. \A k \in KeysOf(to) : k \in KeysOf(r) /\ TapOf(r, k) = TapOf(to, k)
  BY <1>2, <1>3
<1>5. KeyOrder(r) = KeyOrder(to)
  BY <1>2, <1>3
<1>6. Leads(r, to, <<>>, 0, to)
  BY <1>4, <1>5 DEF Leads, LeadsCards, LeadsOrder, LeadsLabel
<1> QED BY <1>2, <1>6, LeadsThere DEF r, p

-----------------------------------------------------------------------------
(* The queue as the engine fills it and the node empties it.                    *)

LEMMA StreamQuiet ==
  ASSUME NEW E, NEW q \in Seq(E), NEW env, NEW b,
         Stream(q, b), Sound(env), ~Carries(env)
  PROVE  Stream(q \o <<env>>, b)
<1> DEFINE r == q \o <<env>>
<1>1. /\ r[Len(q) + 1] = env
      /\ \A j \in DOMAIN q : r[j] = q[j]
      /\ \A j \in DOMAIN r : j \in DOMAIN q \/ j = Len(q) + 1
  BY OneMore
<1>2. \A doc, label, i : Leads(doc, label, q, i, b) => Leads(doc, label, r, i, b)
  <2> PICK F : q \in Seq(F) /\ <<env>> \in Seq(F)
    BY OneMore
  <2> QED BY LeadsOn
<1> HIDE DEF r
<1>3. ASSUME NEW i \in DOMAIN r
      PROVE  Sound(r[i]) /\ (Carries(r[i]) => Leads(r[i].label, r[i].label, r, i, b))
  BY <1>1, <1>2 DEF Stream
<1> QED BY <1>3 DEF Stream, r

LEMMA StreamByState ==
  ASSUME NEW E, NEW q \in Seq(E), NEW b, NEW to \in Boards, Stream(q, b)
  PROVE  Stream(q \o <<State(to)>>, to)
<1> DEFINE r == q \o <<State(to)>>
<1>1. /\ r[Len(q) + 1] = State(to)
      /\ \A j \in DOMAIN q : r[j] = q[j] /\ j \in 0..Len(q)
      /\ \A j \in DOMAIN r : j \in DOMAIN q \/ j = Len(q) + 1
  BY OneMore
<1>2. \A doc, label : \A i \in 0..Len(q) : Leads(doc, label, r, i, to)
  BY LeadsByState
<1>3. Sound(State(to)) /\ State(to).label = to
  BY DEF Sound, State
<1> HIDE DEF r
<1>4. ASSUME NEW i \in DOMAIN r
      PROVE  Sound(r[i]) /\ (Carries(r[i]) => Leads(r[i].label, r[i].label, r, i, to))
  <2>1. CASE i \in DOMAIN q
    BY <1>1, <1>2, <2>1 DEF Stream
  <2>2. CASE i = Len(q) + 1
    BY <1>1, <1>3, <2>2, LeadsAlone
  <2> QED BY <1>1, <2>1, <2>2
<1> QED BY <1>4 DEF Stream, r

LEMMA StreamByDelta ==
  ASSUME NEW E, NEW q \in Seq(E), NEW from \in Boards, NEW to \in Boards, Stream(q, from)
  PROVE  Stream(q \o <<Delta(from, to)>>, to)
<1> DEFINE r == q \o <<Delta(from, to)>>
<1>1. /\ r[Len(q) + 1] = Delta(from, to)
      /\ \A j \in DOMAIN q : r[j] = q[j] /\ j \in 0..Len(q)
      /\ \A j \in DOMAIN r : j \in DOMAIN q \/ j = Len(q) + 1
  BY OneMore
<1>2. \A doc, label : \A i \in 0..Len(q) :
         Leads(doc, label, q, i, from) => Leads(doc, label, r, i, to)
  BY LeadsByDelta
<1>3. Sound(Delta(from, to)) /\ Delta(from, to).label = to
  BY DEF Sound, Delta
<1> HIDE DEF r
<1>4. ASSUME NEW i \in DOMAIN r
      PROVE  Sound(r[i]) /\ (Carries(r[i]) => Leads(r[i].label, r[i].label, r, i, to))
  <2>1. CASE i \in DOMAIN q
    BY <1>1, <1>2, <2>1 DEF Stream
  <2>2. CASE i = Len(q) + 1
    BY <1>1, <1>3, <2>2, LeadsAlone
  <2> QED BY <1>1, <2>1, <2>2
<1> QED BY <1>4 DEF Stream, r

LEMMA StreamTail ==
  ASSUME NEW E, NEW q \in Seq(E), q # <<>>, NEW b, Stream(q, b)
  PROVE  /\ Stream(Tail(q), b)
         /\ Sound(q[1]) /\ (Carries(q[1]) => Leads(q[1].label, q[1].label, q, 1, b))
<1> DEFINE r == Tail(q)
<1>1. 1 \in DOMAIN q
  BY TailParts
<1>2. \A i \in DOMAIN r : i \in Nat /\ i + 1 \in DOMAIN q /\ r[i] = q[i + 1]
  BY TailParts
<1>3. \A doc, label : \A i \in Nat : Leads(doc, label, q, i + 1, b) => Leads(doc, label, r, i, b)
  BY LeadsBehind
<1> HIDE DEF r
<1>4. ASSUME NEW i \in DOMAIN r
      PROVE  Sound(r[i]) /\ (Carries(r[i]) => Leads(r[i].label, r[i].label, r, i, b))
  BY <1>2, <1>3 DEF Stream
<1> QED BY <1>1, <1>4 DEF Stream, r

-----------------------------------------------------------------------------
(* The boards in the system                                                    *)

\* Whoever holds c, or takes a whole board first, comes to b.
CacheLeads(c, q, b) ==
    \/ WholeBehind(q, 0)
    \/ c # None /\ Leads(c.board, c.label, q, 0, b)

\* The snapshot a resume sends leads on to b through the queue behind it.
SnapshotLeads(s, q, b) ==
    \A i \in DOMAIN s :
        /\ Sound(s[i]) /\ s[i].kind # "stateDelta"
        /\ Carries(s[i]) => Leads(s[i].label, s[i].label, q, 0, b)

CacheFits ==
    (link \in {"up", "replaying"} /\ made > 0 /\ ~WholeBehind(replay, 0))
        => CacheLeads(cache, outbound, board)

Shown ==
    /\ cache = None \/ cache \in [board : Folds, label : Boards]
    /\ view = None \/ view \in Folds
    /\ baseLabel = None \/ (baseLabel \in Boards /\ view \in Folds)

BoardInv ==
    /\ made \in 0..MaxBoards
    /\ board \in Docs /\ (made > 0 => board \in Boards)
    /\ Stream(outbound, board)
    /\ SnapshotLeads(replay, outbound, board)
    /\ CacheFits /\ Shown

(* As long as the node's link holds, each patch in the queue is made for the    *)
(* board before it, and the first for the one in the cache.                     *)
Between(q, i, j) == \A n \in DOMAIN q : i < n /\ n < j => ~Carries(q[n])

Chained(q, c) ==
    \A j \in DOMAIN q : q[j].kind = "stateDelta" =>
        /\ \A i \in DOMAIN q :
              i < j /\ Carries(q[i]) /\ Between(q, i, j) => q[i].label = q[j].base
        /\ Between(q, 0, j) => c # None /\ c.label = q[j].base

\* An old client is shown what is cached.
Folded ==
    (~seat.applies /\ ~seat.local /\ client = "on" /\ cache # None) => view = cache.board

InStep ==
    drops + restarts = 0 =>
        /\ link = "up"
        /\ Chained(outbound, cache)
        /\ (seat.applies /\ client = "on" /\ cache # None)
              => view = cache.board /\ baseLabel = cache.label

LEMMA BoardTypes ==
  /\ MaxBoards \in Nat /\ <<>> \in Folds /\ Boards \subseteq Folds /\ Docs \subseteq Folds
  /\ None \notin Folds /\ None \notin [board : Folds, label : Boards]
<1>1. Boards \subseteq Seq(Element)
  BY BoardsAssumption
<1>2. None \notin Seq(Element) /\ None \notin [board : Seq(Element), label : Seq(Element)]
  BY StreamAssumption
<1>3. [board : Seq(Element), label : Boards] \subseteq [board : Seq(Element), label : Seq(Element)]
  BY <1>1
<1>4. Folds = Seq(Element)
  BY DEF Folds
<1>5. None \notin [board : Folds, label : Boards]
  BY <1>2, <1>3, <1>4
<1>6. MaxBoards \in Nat /\ <<>> \in Seq(Element)
  BY StreamAssumption
<1> QED BY <1>1, <1>2, <1>4, <1>5, <1>6 DEF Docs

-----------------------------------------------------------------------------
(* The engine and the forwarder fill the queue                                 *)

\* At most one envelope more, which carries no board.
Grown(q, r) == r = q \/ \E env : Sound(env) /\ ~Carries(env) /\ r = q \o <<env>>

LEMMA GrownIs ==
  ASSUME NEW E, NEW q \in Seq(E), NEW r, Grown(q, r)
  PROVE  /\ \E F : r \in Seq(F)
         /\ \A b : Stream(q, b) => Stream(r, b)
         /\ \A doc, label, b : Leads(doc, label, q, 0, b) => Leads(doc, label, r, 0, b)
         /\ WholeBehind(q, 0) => WholeBehind(r, 0)
         /\ \A c : Chained(q, c) => Chained(r, c)
<1> SUFFICES ASSUME NEW env, Sound(env), ~Carries(env), r = q \o <<env>>
             PROVE  /\ \E F : r \in Seq(F)
                    /\ \A b : Stream(q, b) => Stream(r, b)
                    /\ \A doc, label, b : Leads(doc, label, q, 0, b) => Leads(doc, label, r, 0, b)
                    /\ WholeBehind(q, 0) => WholeBehind(r, 0)
                    /\ \A c : Chained(q, c) => Chained(r, c)
  BY DEF Grown
<1>1. /\ DOMAIN q = 1..Len(q) /\ Len(q) \in Nat /\ r[Len(q) + 1] = env
      /\ \A j \in DOMAIN q : j \in DOMAIN r /\ r[j] = q[j] /\ j <= Len(q)
      /\ \A j \in DOMAIN r : j \in DOMAIN q \/ j = Len(q) + 1
  BY OneMore
<1>2. PICK F : q \in Seq(F) /\ <<env>> \in Seq(F) /\ r \in Seq(F)
  BY OneMore
<1>3. \A b : Stream(q, b) => Stream(r, b)
  BY StreamQuiet
<1>4. \A doc, label, b : Leads(doc, label, q, 0, b) => Leads(doc, label, r, 0, b)
  BY <1>2, LeadsOn
<1>5. WholeBehind(q, 0) => WholeBehind(r, 0)
  BY <1>1 DEF WholeBehind
<1>6. ASSUME NEW c, Chained(q, c) PROVE Chained(r, c)
  <2>1. env.kind # "stateDelta"
    BY DEF Carries
  <2>2. \A j \in DOMAIN r : r[j].kind = "stateDelta" => j \in DOMAIN q
    BY <1>1, <2>1
  <2>3. \A j \in DOMAIN q : \A i : i < j /\ i \in DOMAIN r => i \in DOMAIN q
    BY <1>1
  <2>4. \A j \in DOMAIN q : \A i : Between(r, i, j) => Between(q, i, j)
    BY <1>1 DEF Between
  <2> QED BY <1>1, <1>6, <2>2, <2>3, <2>4 DEF Chained
<1> QED BY <1>2, <1>3, <1>4, <1>5, <1>6

\* The label of a board that nothing follows is the board the engine is at.
LEMMA LastLabel ==
  ASSUME NEW doc, NEW label, NEW q, NEW i, NEW b, Leads(doc, label, q, i, b),
         \A j \in DOMAIN q : j > i => ~Carries(q[j])
  PROVE  label = b
BY DEF Leads, WholeBehind, LeadsLabel, Carries

LEMMA EmittedIs ==
  ASSUME NEW b, NEW sent \in Emitted(b)
  PROVE  /\ Len(sent) \in 0..1 /\ (made = 0 => Len(sent) = 1)
         /\ \/ sent = <<>> /\ made > 0 /\ b = board
            \/ sent = <<State(b)>>
            \/ sent = <<Delta(board, b)>> /\ made # 0
<1>1. \/ sent = <<>> /\ made > 0 /\ b = board
      \/ sent = <<Emission(b)>>
  BY DEF Emitted
<1>2. Emission(b) = State(b) \/ (Emission(b) = Delta(board, b) /\ made # 0)
  BY DEF Emission
<1>3. Len(<<>>) = 0 /\ Len(<<Emission(b)>>) = 1
  OBVIOUS
<1> QED BY <1>1, <1>2, <1>3

(* A board goes out. Whatever led to the last board leads to it.               *)
LEMMA EmittedLeads ==
  ASSUME NEW E, NEW q \in Seq(E), NEW b \in Boards, NEW sent \in Emitted(b),
         made \in Nat, made > 0 => board \in Boards, Stream(q, board)
  PROVE  LET r == q \o sent
         IN  /\ \E F : r \in Seq(F)
             /\ Stream(r, b)
             /\ \A doc, label :
                   Leads(doc, label, q, 0, board) => Leads(doc, label, r, 0, b)
             /\ WholeBehind(q, 0) => WholeBehind(r, 0)
             /\ made = 0 => WholeBehind(r, 0)
             /\ \A c : (Chained(q, c) /\ (made > 0 => CacheLeads(c, q, board)))
                          => Chained(r, c)
<1> DEFINE r == q \o sent
           Claim == /\ \E F : r \in Seq(F)
                    /\ Stream(r, b)
                    /\ \A doc, label :
                          Leads(doc, label, q, 0, board) => Leads(doc, label, r, 0, b)
                    /\ WholeBehind(q, 0) => WholeBehind(r, 0)
                    /\ made = 0 => WholeBehind(r, 0)
                    /\ \A c : (Chained(q, c) /\ (made > 0 => CacheLeads(c, q, board)))
                                 => Chained(r, c)
<1> SUFFICES Claim
  OBVIOUS
<1>0. /\ \/ sent = <<>> /\ made > 0 /\ b = board
         \/ sent = <<State(b)>>
         \/ sent = <<Delta(board, b)>> /\ made # 0
  BY EmittedIs
<1>1. CASE sent = <<>> /\ made > 0 /\ b = board
  <2>1. r = q
    BY <1>1, ConcatEmptySeq
  <2> QED BY <1>1, <2>1
<1>2. ASSUME NEW env, sent = <<env>>, Carries(env),
             env.kind = "state" \/ (env.kind = "stateDelta" /\ env.base = board /\ made # 0),
             Stream(r, b),
             \A doc, label : Leads(doc, label, q, 0, board) => Leads(doc, label, r, 0, b)
      PROVE  Claim
  <2>1. /\ DOMAIN r = 1..(Len(q) + 1) /\ DOMAIN q = 1..Len(q) /\ Len(q) \in Nat
        /\ r[Len(q) + 1] = env
        /\ \A j \in DOMAIN q : j \in DOMAIN r /\ r[j] = q[j] /\ j <= Len(q)
        /\ \A j \in DOMAIN r : j \in DOMAIN q \/ j = Len(q) + 1
    BY <1>2, OneMore
  <2>2. \E F : r \in Seq(F)
    BY <1>2, OneMore
  <2> HIDE DEF r
  <2>3. WholeBehind(q, 0) => WholeBehind(r, 0)
    BY <2>1 DEF WholeBehind
  <2>4. made = 0 => WholeBehind(r, 0)
    <3>1. Len(q) + 1 \in DOMAIN r /\ Len(q) + 1 > 0
      BY <2>1
    <3> QED BY <1>2, <2>1, <3>1 DEF WholeBehind
  <2>5. ASSUME NEW c, Chained(q, c), made > 0 => CacheLeads(c, q, board)
        PROVE  Chained(r, c)
    <3> DEFINE n == Len(q) + 1
    <3>1. \A j \in DOMAIN q : \A i : i < j /\ i \in DOMAIN r => i \in DOMAIN q
      BY <2>1
    <3>2. \A j \in DOMAIN q : \A i : Between(r, i, j) => Between(q, i, j)
      BY <2>1 DEF Between
    <3>3. ASSUME NEW j \in DOMAIN q, r[j].kind = "stateDelta"
          PROVE  /\ \A i \in DOMAIN r :
                       i < j /\ Carries(r[i]) /\ Between(r, i, j) => r[i].label = r[j].base
                 /\ Between(r, 0, j) => c # None /\ c.label = r[j].base
      BY <2>1, <2>5, <3>1, <3>2, <3>3 DEF Chained
    <3>4. ASSUME env.kind = "stateDelta"
          PROVE  /\ \A i \in DOMAIN r :
                       i < n /\ Carries(r[i]) /\ Between(r, i, n) => r[i].label = env.base
                 /\ Between(r, 0, n) => c # None /\ c.label = env.base
      <4>1. env.base = board /\ made > 0
        BY <1>2, <3>4
      <4>2. \A j \in DOMAIN q : j < n /\ j > 0
        BY <2>1
      <4>3. ASSUME NEW i \in DOMAIN r, i < n, Carries(r[i]), Between(r, i, n)
            PROVE  r[i].label = board
        <5>1. i \in DOMAIN q
          BY <2>1, <4>3
        <5>2. Leads(q[i].label, q[i].label, q, i, board)
          BY <2>1, <4>3, <5>1 DEF Stream
        <5>3. \A j \in DOMAIN q : j > i => ~Carries(q[j])
          BY <2>1, <4>2, <4>3, <5>1 DEF Between
        <5> HIDE DEF n
        <5>4. q[i].label = board
          BY <5>2, <5>3, LastLabel
        <5> QED BY <2>1, <5>1, <5>4
      <4>4. ASSUME Between(r, 0, n)
            PROVE  c # None /\ c.label = board
        <5>1. \A j \in DOMAIN q : ~Carries(q[j])
          BY <2>1, <4>2, <4>4 DEF Between
        <5>2. ~WholeBehind(q, 0)
          BY <5>1 DEF WholeBehind, Carries
        <5>3. c # None /\ Leads(c.board, c.label, q, 0, board)
          BY <2>5, <4>1, <5>2 DEF CacheLeads
        <5> QED BY <5>1, <5>3, LastLabel
      <4> QED BY <4>1, <4>3, <4>4
    <3> QED BY <2>1, <3>3, <3>4 DEF Chained
  <2> QED BY <1>2, <2>2, <2>3, <2>4, <2>5
<1>3. CASE sent = <<State(b)>>
  <2>1. Stream(r, b)
    BY <1>3, StreamByState
  <2>2. 0 \in 0..Len(q)
    OBVIOUS
  <2>3. \A doc, label : Leads(doc, label, r, 0, b)
    BY <1>3, <2>2, LeadsByState
  <2>4. State(b).kind = "state" /\ Carries(State(b))
    BY DEF State, Carries
  <2> HIDE DEF r, Claim
  <2> QED BY <1>2, <1>3, <2>1, <2>3, <2>4
<1>4. CASE sent = <<Delta(board, b)>> /\ made # 0
  <2>0. board \in Boards /\ 0 \in 0..Len(q)
    BY <1>4
  <2>1. Stream(r, b)
    BY <1>4, <2>0, StreamByDelta
  <2>2. \A doc, label : Leads(doc, label, q, 0, board) => Leads(doc, label, r, 0, b)
    BY <1>4, <2>0, LeadsByDelta
  <2>3. /\ Delta(board, b).kind = "stateDelta" /\ Delta(board, b).base = board
        /\ Carries(Delta(board, b))
    BY DEF Delta, Carries
  <2> HIDE DEF r, Claim
  <2> QED BY <1>2, <1>4, <2>1, <2>2, <2>3
<1> QED BY <1>0, <1>1, <1>3, <1>4

-----------------------------------------------------------------------------
(* The relay and the client take an envelope                                   *)

LEMMA RelayTakesIs ==
  ASSUME NEW env, Sound(env), RelayTakes(env)
  PROVE  /\ env.kind = "state" => cache' = [board |-> env.board, label |-> env.label]
         /\ (env.kind = "stateDelta" /\ cache # None) =>
               cache' = [board |-> Apply(cache.board, env.patch), label |-> env.label]
         /\ (~Carries(env) \/ (env.kind = "stateDelta" /\ cache = None)) => cache' = cache
         /\ ~Online => UNCHANGED <<view, baseLabel>>
         /\ (Online /\ ~Carries(env)) =>
               view' = view /\ baseLabel' = IF seat.applies THEN baseLabel ELSE None
         /\ (Online /\ env.kind = "state") =>
               view' = env.board /\ baseLabel' = IF seat.applies THEN env.label ELSE None
         /\ (Online /\ env.kind = "stateDelta") =>
               IF ~seat.applies /\ ~seat.local /\ cache' # None
               THEN view' = cache'.board /\ baseLabel' = None
               ELSE IF seat.applies /\ baseLabel = env.base
                    THEN view' = Apply(view, env.patch) /\ baseLabel' = env.label
                    ELSE view' = view /\ baseLabel' = None
<1> DEFINE s == Shape(env, cache')
<1>1. cache' = Observed(env) /\ ClientTakes(s)
  BY DEF RelayTakes
<1>2. /\ env.kind = "state" => Observed(env) = [board |-> env.board, label |-> env.label]
      /\ (env.kind = "stateDelta" /\ cache # None) =>
            Observed(env) = [board |-> Apply(cache.board, env.patch), label |-> env.label]
      /\ (~Carries(env) \/ (env.kind = "stateDelta" /\ cache = None)) => Observed(env) = cache
  BY DEF Observed, Carries
<1>3. IF env.kind = "stateDelta" /\ ~seat.applies /\ ~seat.local /\ cache' # None
      THEN s.kind = "state" /\ s.board = cache'.board /\ s.label = cache'.label
      ELSE s = env
  BY DEF Shape
<1> HIDE DEF s
<1>4. /\ Online => view' = ShownBoard(s) /\ baseLabel' = NextBase(s)
      /\ ~Online => UNCHANGED <<view, baseLabel>>
  BY <1>1 DEF ClientTakes
<1>5. /\ s.kind = "state" => ShownBoard(s) = s.board
      /\ s.kind = "stateDelta" =>
            ShownBoard(s) = IF seat.applies /\ baseLabel = s.base THEN Apply(view, s.patch)
                            ELSE view
      /\ ~Carries(s) => ShownBoard(s) = view
  BY DEF ShownBoard, Carries
<1>6. /\ ~seat.applies => NextBase(s) = None
      /\ seat.applies =>
            /\ s.kind = "state" => NextBase(s) = s.label
            /\ s.kind = "stateDelta" =>
                  NextBase(s) = IF baseLabel = s.base THEN s.label ELSE None
            /\ ~Carries(s) => NextBase(s) = baseLabel
  BY DEF NextBase, Carries
<1>7. ASSUME Online, ~Carries(env)
      PROVE  view' = view /\ baseLabel' = IF seat.applies THEN baseLabel ELSE None
  <2>1. s = env
    BY <1>3, <1>7 DEF Carries
  <2> QED BY <1>4, <1>5, <1>6, <1>7, <2>1
<1>8. ASSUME Online, env.kind = "state"
      PROVE  view' = env.board /\ baseLabel' = IF seat.applies THEN env.label ELSE None
  <2>1. s = env
    BY <1>3, <1>8
  <2> QED BY <1>4, <1>5, <1>6, <1>8, <2>1
<1>9. ASSUME Online, env.kind = "stateDelta"
      PROVE  IF ~seat.applies /\ ~seat.local /\ cache' # None
             THEN view' = cache'.board /\ baseLabel' = None
             ELSE IF seat.applies /\ baseLabel = env.base
                  THEN view' = Apply(view, env.patch) /\ baseLabel' = env.label
                  ELSE view' = view /\ baseLabel' = None
  <2>1. CASE ~seat.applies /\ ~seat.local /\ cache' # None
    BY <1>3, <1>4, <1>5, <1>6, <1>9, <2>1
  <2>2. CASE ~(~seat.applies /\ ~seat.local /\ cache' # None)
    <3>1. s = env
      BY <1>3, <2>2
    <3> QED BY <1>4, <1>5, <1>6, <1>9, <2>2, <3>1
  <2> QED BY <2>1, <2>2
<1> QED BY <1>1, <1>2, <1>4, <1>7, <1>8, <1>9

\* What is cached and shown stays a board, of whatever make.
LEMMA RelayTakesShown ==
  ASSUME Shown, NEW env, Sound(env), RelayTakes(env)
  PROVE  Shown'
<1>1. /\ env.kind = "state" => env.board \in Boards /\ env.label \in Boards
      /\ env.kind = "stateDelta" =>
            env.base \in Boards /\ env.label \in Boards /\ env.patch = Diff(env.base, env.label)
      /\ Carries(env) <=> env.kind \in {"state", "stateDelta"}
  BY DEF Sound, Error, Carries
<1>2. ASSUME env.kind = "stateDelta", NEW doc \in Folds
      PROVE  Apply(doc, env.patch) \in Folds
  BY <1>1, <1>2, FoldIs
<1>3. cache' = None \/ cache' \in [board : Folds, label : Boards]
  <2>1. CASE env.kind = "state"
    BY <1>1, <2>1, RelayTakesIs, BoardTypes
  <2>2. CASE env.kind = "stateDelta" /\ cache # None
    <3>1. cache.board \in Folds
      BY <2>2 DEF Shown
    <3>2. cache' = [board |-> Apply(cache.board, env.patch), label |-> env.label]
      BY <2>2, RelayTakesIs
    <3> QED BY <1>1, <1>2, <2>2, <3>1, <3>2
  <2>3. CASE ~Carries(env) \/ (env.kind = "stateDelta" /\ cache = None)
    BY <2>3, RelayTakesIs DEF Shown
  <2> QED BY <1>1, <2>1, <2>2, <2>3
<1>4. baseLabel \in Boards => view \in Folds
  BY BoardTypes DEF Shown
<1>5. (view' = None \/ view' \in Folds) /\ (baseLabel' = None \/ (baseLabel' \in Boards /\ view' \in Folds))
  <2>1. CASE ~Online
    BY <2>1, RelayTakesIs DEF Shown
  <2>2. CASE Online /\ ~Carries(env)
    BY <2>2, RelayTakesIs DEF Shown
  <2>3. CASE Online /\ env.kind = "state"
    BY <1>1, <2>3, RelayTakesIs, BoardTypes
  <2>4. CASE Online /\ env.kind = "stateDelta"
    <3>1. CASE ~seat.applies /\ ~seat.local /\ cache' # None
      <4>1. view' = cache'.board /\ baseLabel' = None
        BY <2>4, <3>1, RelayTakesIs
      <4> QED BY <1>3, <3>1, <4>1
    <3>2. CASE ~(~seat.applies /\ ~seat.local /\ cache' # None) /\ seat.applies /\ baseLabel = env.base
      <4>1. view' = Apply(view, env.patch) /\ baseLabel' = env.label
        BY <2>4, <3>2, RelayTakesIs
      <4> QED BY <1>1, <1>2, <1>4, <2>4, <3>2, <4>1
    <3>3. CASE ~(~seat.applies /\ ~seat.local /\ cache' # None) /\ ~(seat.applies /\ baseLabel = env.base)
      <4>1. view' = view /\ baseLabel' = None
        BY <2>4, <3>3, RelayTakesIs
      <4> QED BY <4>1 DEF Shown
    <3> QED BY <3>1, <3>2, <3>3
  <2> QED BY <1>1, <2>1, <2>2, <2>3, <2>4
<1> QED BY <1>3, <1>5 DEF Shown

\* What is cached leads on through the rest of the queue.
LEMMA CacheTakes ==
  ASSUME Shown, NEW E, NEW q \in Seq(E), q # <<>>, NEW b \in Boards, Stream(q, b),
         CacheLeads(cache, q, b), RelayTakes(q[1])
  PROVE  CacheLeads(cache', Tail(q), b)
<1> DEFINE env == q[1]
           r == Tail(q)
<1>1. Sound(env) /\ (Carries(env) => Leads(env.label, env.label, q, 1, b))
  BY StreamTail
<1>2. ASSUME WholeBehind(q, 0), env.kind # "state" PROVE WholeBehind(r, 0)
  <2>1. PICK j \in DOMAIN q : j > 0 /\ q[j].kind = "state"
    BY <1>2 DEF WholeBehind
  <2>2. j # 1
    BY <1>2, <2>1
  <2> DEFINE l == j - 1
  <2>3. l \in 1..(Len(q) - 1) /\ l + 1 = j
    BY <2>1, <2>2, TailParts
  <2>4. l \in DOMAIN r /\ r[l] = q[l + 1] /\ l > 0
    BY <2>3, TailParts
  <2> HIDE DEF r, l
  <2> QED BY <2>1, <2>3, <2>4 DEF WholeBehind
<1>3. CASE env.kind = "state"
  <2>1. cache' = [board |-> env.board, label |-> env.label] /\ env.board = env.label
    BY <1>1, <1>3, RelayTakesIs DEF Sound, Error
  <2>2. Leads(env.label, env.label, q, 0 + 1, b)
    BY <1>1, <1>3 DEF Carries
  <2>3. Leads(env.label, env.label, r, 0, b)
    BY <2>2, LeadsBehind
  <2>4. cache' # None
    <3>1. cache' \in [board : Folds, label : Boards]
      BY <1>1, <1>3, <2>1, BoardTypes DEF Sound, Error
    <3> QED BY <3>1, BoardTypes
  <2>5. cache'.board = env.label /\ cache'.label = env.label
    BY <2>1
  <2> QED BY <2>3, <2>4, <2>5 DEF CacheLeads
<1>4. CASE env.kind = "stateDelta"
  <2>1. CASE WholeBehind(q, 0)
    BY <1>2, <1>4, <2>1 DEF CacheLeads
  <2>2. CASE ~WholeBehind(q, 0)
    <3>1. cache # None /\ Leads(cache.board, cache.label, q, 0, b)
      BY <2>2 DEF CacheLeads
    <3>2. cache.board \in Folds
      BY <3>1 DEF Shown
    <3>3. cache' = [board |-> Apply(cache.board, env.patch), label |-> env.label]
      BY <1>1, <1>4, <3>1, RelayTakesIs
    <3>4. Leads(env.label, env.label, q, 1, b)
      BY <1>1, <1>4 DEF Carries
    <3>5. \A j \in DOMAIN q : Sound(q[j])
      BY DEF Stream
    <3>6. /\ Apply(cache.board, env.patch) \in Folds
          /\ Leads(Apply(cache.board, env.patch), env.label, r, 0, b)
      BY <1>4, <3>1, <3>2, <3>4, <3>5, LeadsFolded
    <3>7. cache' # None
      <4>1. env.label \in Boards
        BY <1>1, <1>4 DEF Sound, Error
      <4>2. cache' \in [board : Folds, label : Boards]
        BY <3>3, <3>6, <4>1
      <4> QED BY <4>2, BoardTypes
    <3>8. cache'.board = Apply(cache.board, env.patch) /\ cache'.label = env.label
      BY <3>3
    <3> QED BY <3>6, <3>7, <3>8 DEF CacheLeads
  <2> QED BY <2>1, <2>2
<1>5. CASE ~Carries(env)
  <2>1. cache' = cache
    BY <1>1, <1>5, RelayTakesIs
  <2>2. CASE WholeBehind(q, 0)
    BY <1>2, <1>5, <2>2 DEF CacheLeads, Carries
  <2>3. CASE ~WholeBehind(q, 0)
    <3>1. cache # None /\ Leads(cache.board, cache.label, q, 0, b)
      BY <2>3 DEF CacheLeads
    <3>2. Leads(cache.board, cache.label, r, 0, b)
      BY <1>5, <3>1, LeadsPast
    <3> QED BY <2>1, <3>1, <3>2 DEF CacheLeads
  <2> QED BY <2>2, <2>3
<1> QED BY <1>3, <1>4, <1>5 DEF Carries

\* The rest of the queue still holds, for what is cached now.
LEMMA ChainTaken ==
  ASSUME NEW E, NEW q \in Seq(E), q # <<>>, NEW c, NEW d, Chained(q, c),
         Carries(q[1]) => d # None /\ d.label = q[1].label,
         ~Carries(q[1]) => d = c
  PROVE  Chained(Tail(q), d)
<1> DEFINE r == Tail(q)
<1>1. \A i \in DOMAIN r : i \in Nat /\ i > 0 /\ i + 1 \in DOMAIN q /\ r[i] = q[i + 1]
  BY TailParts
<1>2. \A n \in DOMAIN q : n \in Nat /\ n > 0
                          /\ (n = 1 \/ (n - 1 \in DOMAIN r /\ r[n - 1] = q[n]))
  <2> TAKE n \in DOMAIN q
  <2> DEFINE l == n - 1
  <2>1. n \in Nat /\ n > 0 /\ (n = 1 \/ (l \in 1..(Len(q) - 1) /\ l + 1 = n))
    BY TailParts
  <2> QED BY <2>1, TailParts
<1>3. 1 \in DOMAIN q
  BY TailParts
<1> HIDE DEF r
<1>4. \A i \in Nat : \A j \in DOMAIN r : Between(r, i, j) => Between(q, i + 1, j + 1)
  <2> SUFFICES ASSUME NEW i \in Nat, NEW j \in DOMAIN r, Between(r, i, j),
                      NEW n \in DOMAIN q, i + 1 < n, n < j + 1
               PROVE  ~Carries(q[n])
    BY DEF Between
  <2> DEFINE l == n - 1
  <2>1. n # 1 /\ i < l /\ l < j
    BY <1>1, <1>2
  <2> QED BY <1>2, <2>1 DEF Between
<1>5. ASSUME NEW j \in DOMAIN r, r[j].kind = "stateDelta"
      PROVE  /\ \A i \in DOMAIN r :
                   i < j /\ Carries(r[i]) /\ Between(r, i, j) => r[i].label = r[j].base
             /\ Between(r, 0, j) => d # None /\ d.label = r[j].base
  <2>1. /\ j + 1 \in DOMAIN q /\ q[j + 1].kind = "stateDelta" /\ r[j] = q[j + 1]
        /\ 1 < j + 1
    BY <1>1, <1>5
  <2>2. /\ \A i \in DOMAIN q :
              i < j + 1 /\ Carries(q[i]) /\ Between(q, i, j + 1) => q[i].label = q[j + 1].base
        /\ Between(q, 0, j + 1) => c # None /\ c.label = q[j + 1].base
    BY <2>1 DEF Chained
  <2>3. ASSUME NEW i \in DOMAIN r, i < j, Carries(r[i]), Between(r, i, j)
        PROVE  r[i].label = r[j].base
    <3>1. i + 1 \in DOMAIN q /\ i + 1 < j + 1 /\ r[i] = q[i + 1]
      BY <1>1, <2>3
    <3>2. Between(q, i + 1, j + 1)
      BY <1>1, <1>4, <2>3
    <3> QED BY <2>1, <2>2, <2>3, <3>1, <3>2
  <2>4. ASSUME Between(r, 0, j)
        PROVE  d # None /\ d.label = r[j].base
    <3>1. Between(q, 1, j + 1)
      <4>1. Between(q, 0 + 1, j + 1)
        BY <1>4, <2>4
      <4>2. 0 + 1 = 1
        OBVIOUS
      <4> QED BY <4>1, <4>2
    <3>2. CASE Carries(q[1])
      BY <1>3, <2>1, <2>2, <3>1, <3>2
    <3>3. CASE ~Carries(q[1])
      <4>1. Between(q, 0, j + 1)
        BY <1>2, <3>1, <3>3 DEF Between
      <4> QED BY <2>1, <2>2, <3>3, <4>1
    <3> QED BY <3>2, <3>3
  <2> QED BY <2>3, <2>4
<1> QED BY <1>5 DEF Chained, r

-----------------------------------------------------------------------------
(* Every step keeps the boards on their way                                    *)

\* What no step of the engine touches.
Around == <<seat, replay, link, cache, client, view, baseLabel, drops, restarts>>

LEMMA EngineIs ==
  ASSUME Engine, \E E : outbound \in Seq(E)
  PROVE  /\ UNCHANGED Around
         /\ \/ /\ UNCHANGED <<board, made>>
               /\ \E mid : Grown(outbound, mid) /\ Grown(mid, outbound')
            \/ \E b \in Boards : \E sent \in Emitted(b) :
                  /\ board' = b /\ made' = made + Len(sent)
                  /\ made < MaxBoards \/ made' <= MaxBoards
                  /\ Grown(outbound \o sent, outbound')
<1>1. /\ Sound(Error) /\ ~Carries(Error)
      /\ \A p : Sound(Prompt(p)) /\ ~Carries(Prompt(p))
  BY DEF Sound, Carries, Error, Prompt
<1>2. ASSUME NEW p, NEW sent, NEW box, Present(p, sent, box)
      PROVE  /\ UNCHANGED <<replay, link>>
             /\ outbound' = (outbound \o sent) \o <<Prompt(p)>>
             /\ Grown(outbound \o sent, outbound')
  BY <1>1, <1>2 DEF Present, Grown
<1>3. \A q : Grown(q, q)
  BY DEF Grown
<1>4. Append(outbound, Error) = outbound \o <<Error>>
  <2> PICK E : outbound \in Seq(E)
    OBVIOUS
  <2>1. outbound \in Seq(E \cup {Error}) /\ Error \in E \cup {Error}
    BY SeqMonotonic
  <2> QED BY <2>1, AppendIsConcat
<1>5. ASSUME NEW b \in Boards, EnginePlay(b)
      PROVE  /\ UNCHANGED Around
             /\ \E sent \in Emitted(b) :
                  /\ board' = b /\ made' = made + Len(sent)
                  /\ made < MaxBoards \/ made' <= MaxBoards
                  /\ Grown(outbound \o sent, outbound')
  BY <1>3, <1>5 DEF EnginePlay, Around, relayVars, clientVars, faultVars
<1>6. ASSUME NEW b \in Boards, ManabrewAsk(b)
      PROVE  /\ UNCHANGED Around
             /\ \E sent \in Emitted(b) :
                  /\ board' = b /\ made' = made + Len(sent)
                  /\ made < MaxBoards \/ made' <= MaxBoards
                  /\ Grown(outbound \o sent, outbound')
  BY <1>2, <1>6 DEF ManabrewAsk, Around, relayVars, clientVars, faultVars
<1>7. ASSUME NEW b \in Boards, ForgeFetch(b)
      PROVE  /\ UNCHANGED Around
             /\ \E sent \in Emitted(b) :
                  /\ board' = b /\ made' = made + Len(sent)
                  /\ made < MaxBoards \/ made' <= MaxBoards
                  /\ Grown(outbound \o sent, outbound')
  BY <1>2, <1>7 DEF ForgeFetch, Around, relayVars, clientVars, faultVars
<1> DEFINE Quietly == /\ UNCHANGED Around /\ UNCHANGED <<board, made>>
                      /\ \E mid : Grown(outbound, mid) /\ Grown(mid, outbound')
<1>8. ASSUME ManabrewTakeAnswer \/ ManabrewConcede \/ ManabrewTimeout \/ ForgeAsk
               \/ ForgeSubmit \/ ForgeTakeAnswer \/ ForgeTakeConcede
      PROVE  Quietly
  <2>1. UNCHANGED Around /\ UNCHANGED <<board, made, outbound>>
    BY <1>8 DEF ManabrewTakeAnswer, ManabrewConcede, ManabrewTimeout, ForgeAsk,
           ForgeSubmit, ForgeTakeAnswer, ForgeTakeConcede, Around, nodeVars,
           relayVars, clientVars, faultVars
  <2> QED BY <1>3, <2>1
<1>9. ASSUME ManabrewReject PROVE Quietly
  <2>1. UNCHANGED <<seat, board, made, relayVars, clientVars, faultVars>>
        /\ Present(asked, <<Error>>, Tail(inbox))
    BY <1>9 DEF ManabrewReject
  <2>2. /\ UNCHANGED <<replay, link>> /\ Grown(outbound \o <<Error>>, outbound')
    BY <1>2, <2>1
  <2>3. Grown(outbound, outbound \o <<Error>>)
    BY <1>1 DEF Grown
  <2> QED BY <2>1, <2>2, <2>3 DEF Around, relayVars, clientVars, faultVars
<1>10. ASSUME ForgeReject PROVE Quietly
  <2>1. /\ UNCHANGED <<seat, board, made, relayVars, clientVars, faultVars>>
        /\ \/ Present(fetched, <<Error>>, Tail(inbox))
           \/ outbound' = Append(outbound, Error) /\ UNCHANGED <<replay, link>>
    BY <1>10 DEF ForgeReject
  <2>2. Grown(outbound, outbound \o <<Error>>)
    BY <1>1 DEF Grown
  <2>3. CASE Present(fetched, <<Error>>, Tail(inbox))
    <3>1. /\ UNCHANGED <<replay, link>> /\ Grown(outbound \o <<Error>>, outbound')
      BY <1>2, <2>3
    <3> QED BY <2>1, <2>2, <3>1 DEF Around, relayVars, clientVars, faultVars
  <2>4. CASE outbound' = Append(outbound, Error) /\ UNCHANGED <<replay, link>>
    BY <1>3, <1>4, <2>1, <2>2, <2>4 DEF Around, relayVars, clientVars, faultVars
  <2> QED BY <2>1, <2>3, <2>4
<1> HIDE DEF Around
<1> QED BY <1>5, <1>6, <1>7, <1>8, <1>9, <1>10 DEF Engine

\* What the engine does to the queue, in the words of the invariants.
LEMMA EngineQueues ==
  ASSUME Engine, Base, OfferInv, BoardInv
  PROVE  /\ made' \in 0..MaxBoards /\ board' \in Docs /\ (made' > 0 => board' \in Boards)
         /\ Stream(outbound', board')
         /\ \A doc, label :
               Leads(doc, label, outbound, 0, board) => Leads(doc, label, outbound', 0, board')
         /\ WholeBehind(outbound, 0) => WholeBehind(outbound', 0)
         /\ (made = 0 /\ made' > 0) => WholeBehind(outbound', 0)
         /\ \A c : (Chained(outbound, c) /\ (made > 0 => CacheLeads(c, outbound, board)))
                      => Chained(outbound', c)
<1>1. PICK E : outbound \in Seq(E)
  BY QueueIsSeq DEF Base, IInv, Outgoing
<1>2. /\ made \in 0..MaxBoards /\ made \in Nat /\ MaxBoards \in Nat
      /\ board \in Docs /\ (made > 0 => board \in Boards) /\ Stream(outbound, board)
  BY BoardTypes DEF BoardInv
<1>3. CASE /\ UNCHANGED <<board, made>>
           /\ \E mid : Grown(outbound, mid) /\ Grown(mid, outbound')
  <2>1. PICK mid : Grown(outbound, mid) /\ Grown(mid, outbound')
    BY <1>3
  <2>2. /\ \E F : mid \in Seq(F)
        /\ \A b : Stream(outbound, b) => Stream(mid, b)
        /\ \A doc, label, b : Leads(doc, label, outbound, 0, b) => Leads(doc, label, mid, 0, b)
        /\ WholeBehind(outbound, 0) => WholeBehind(mid, 0)
        /\ \A c : Chained(outbound, c) => Chained(mid, c)
    BY <1>1, <2>1, GrownIs
  <2>3. /\ \A b : Stream(mid, b) => Stream(outbound', b)
        /\ \A doc, label, b : Leads(doc, label, mid, 0, b) => Leads(doc, label, outbound', 0, b)
        /\ WholeBehind(mid, 0) => WholeBehind(outbound', 0)
        /\ \A c : Chained(mid, c) => Chained(outbound', c)
    BY <2>1, <2>2, GrownIs
  <2> QED BY <1>2, <1>3, <2>2, <2>3
<1>4. CASE \E b \in Boards : \E sent \in Emitted(b) :
              /\ board' = b /\ made' = made + Len(sent)
              /\ made < MaxBoards \/ made' <= MaxBoards
              /\ Grown(outbound \o sent, outbound')
  <2>0. PICK b \in Boards : \E sent \in Emitted(b) :
           /\ board' = b /\ made' = made + Len(sent)
           /\ made < MaxBoards \/ made' <= MaxBoards
           /\ Grown(outbound \o sent, outbound')
    BY <1>4
  <2>1. PICK sent \in Emitted(b) :
           /\ board' = b /\ made' = made + Len(sent)
           /\ made < MaxBoards \/ made' <= MaxBoards
           /\ Grown(outbound \o sent, outbound')
    BY <2>0
  <2>2. Len(sent) \in 0..1 /\ (made = 0 => Len(sent) = 1)
    BY EmittedIs
  <2>3. made' \in 0..MaxBoards
    <3>1. \A n \in 0..1 : made + n \in Nat /\ (made < MaxBoards => made + n <= MaxBoards)
      BY <1>2
    <3>2. made' \in Nat /\ made' <= MaxBoards
      BY <2>1, <2>2, <3>1
    <3> QED BY <1>2, <3>2
  <2> DEFINE mid == outbound \o sent
  <2>4. /\ \E F : mid \in Seq(F)
        /\ Stream(mid, b)
        /\ \A doc, label : Leads(doc, label, outbound, 0, board) => Leads(doc, label, mid, 0, b)
        /\ WholeBehind(outbound, 0) => WholeBehind(mid, 0)
        /\ made = 0 => WholeBehind(mid, 0)
        /\ \A c : (Chained(outbound, c) /\ (made > 0 => CacheLeads(c, outbound, board)))
                     => Chained(mid, c)
    BY <1>1, <1>2, EmittedLeads
  <2> HIDE DEF mid
  <2>5. /\ \A d : Stream(mid, d) => Stream(outbound', d)
        /\ \A doc, label, d : Leads(doc, label, mid, 0, d) => Leads(doc, label, outbound', 0, d)
        /\ WholeBehind(mid, 0) => WholeBehind(outbound', 0)
        /\ \A c : Chained(mid, c) => Chained(outbound', c)
    BY <2>1, <2>4, GrownIs DEF mid
  <2>6. board' \in Docs /\ board' \in Boards
    BY <2>1 DEF Docs
  <2> QED BY <2>1, <2>3, <2>4, <2>5, <2>6
<1> QED BY <1>1, <1>3, <1>4, EngineIs

LEMMA EngineKeepsBoards ==
  ASSUME Engine, Base, OfferInv, BoardInv
  PROVE  BoardInv'
<1>1. UNCHANGED Around
  BY EngineIs, QueueIsSeq DEF Base, IInv, Outgoing
<1>2. UNCHANGED <<replay, link, cache, view, baseLabel>>
  BY <1>1 DEF Around
<1>3. \A doc, label :
         Leads(doc, label, outbound, 0, board) => Leads(doc, label, outbound', 0, board')
  BY EngineQueues
<1>4. SnapshotLeads(replay', outbound', board')
  BY <1>2, <1>3 DEF SnapshotLeads, BoardInv
<1>5. ASSUME link' \in {"up", "replaying"}, made' > 0, ~WholeBehind(replay', 0)
      PROVE  CacheLeads(cache', outbound', board')
  <2>1. CASE made = 0
    BY <1>5, <2>1, EngineQueues DEF CacheLeads
  <2>2. CASE made # 0
    <3>1. made > 0
      BY <2>2, BoardTypes DEF BoardInv
    <3>2. CacheLeads(cache, outbound, board)
      BY <1>2, <1>5, <3>1 DEF BoardInv, CacheFits
    <3> QED BY <1>2, <1>3, <3>2, EngineQueues DEF CacheLeads
  <2> QED BY <2>1, <2>2
<1>6. CacheFits'
  BY <1>5 DEF CacheFits
<1>7. Shown'
  BY <1>2 DEF Shown, BoardInv
<1> QED BY <1>4, <1>6, <1>7, EngineQueues DEF BoardInv

LEMMA EngineKeepsStep ==
  ASSUME Engine, Base, OfferInv, BoardInv, Folded, InStep
  PROVE  Folded' /\ InStep'
<1>1. UNCHANGED <<seat, replay, link, cache, client, view, baseLabel, drops, restarts>>
  BY EngineIs, QueueIsSeq DEF Base, IInv, Outgoing, Around
<1>2. Folded'
  BY <1>1 DEF Folded
<1>3. ASSUME drops + restarts = 0, link = "up" PROVE made > 0 => CacheLeads(cache, outbound, board)
  <2>1. replay = <<>>
    BY <1>3 DEF OfferInv, Attached
  <2>2. ~WholeBehind(replay, 0)
    BY <2>1 DEF WholeBehind
  <2> QED BY <1>3, <2>2 DEF BoardInv, CacheFits
<1>4. ASSUME drops + restarts = 0 PROVE Chained(outbound', cache)
  BY <1>3, <1>4, EngineQueues DEF InStep
<1> QED BY <1>1, <1>2, <1>4 DEF InStep

ShowInv == BoardInv /\ Folded /\ InStep

LEMMA InitShow == Init => ShowInv
<1> SUFFICES ASSUME Init PROVE ShowInv
  OBVIOUS
<1>1. /\ board = <<>> /\ made = 0 /\ outbound = <<>> /\ replay = <<>> /\ link = "up"
      /\ cache = None /\ view = None /\ baseLabel = None
  BY DEF Init
<1>2. DOMAIN <<>> = {}
  OBVIOUS
<1>3. Stream(outbound, board) /\ SnapshotLeads(replay, outbound, board)
      /\ Chained(outbound, cache)
  BY <1>1, <1>2 DEF Stream, SnapshotLeads, Chained
<1>4. 0 \in 0..MaxBoards /\ <<>> \in Docs
  BY BoardTypes DEF Docs
<1>5. BoardInv
  BY <1>1, <1>3, <1>4 DEF BoardInv, CacheFits, Shown
<1> QED BY <1>1, <1>3, <1>5 DEF ShowInv, Folded, InStep

\* Neither boards nor connections change, or the link goes through its repair.
LEMMA SameBoards ==
  ASSUME ShowInv,
         UNCHANGED <<seat, board, made, outbound, replay, cache, view, baseLabel,
                     client, drops, restarts>>,
         link' = link \/ (link # "up" /\ link' \notin {"up", "replaying"})
  PROVE  ShowInv'
<1>1. CacheFits'
  BY DEF ShowInv, BoardInv, CacheFits
<1>2. BoardInv'
  BY <1>1 DEF ShowInv, BoardInv, Shown
<1>3. Folded' /\ InStep'
  BY DEF ShowInv, Folded, InStep
<1> QED BY <1>2, <1>3 DEF ShowInv

\* An old client is shown whatever is cached.
LEMMA FoldedTakes ==
  ASSUME Folded, NEW env, Sound(env), RelayTakes(env), UNCHANGED <<seat, client>>
  PROVE  Folded'
<1> SUFFICES ASSUME ~seat.applies, ~seat.local, client = "on", cache' # None
             PROVE  view' = cache'.board
  BY DEF Folded
<1>1. Online
  BY DEF Online
<1>2. CASE ~Carries(env)
  BY <1>1, <1>2, RelayTakesIs DEF Folded
<1>3. CASE env.kind = "state"
  <2>1. cache' = [board |-> env.board, label |-> env.label] /\ view' = env.board
    BY <1>1, <1>3, RelayTakesIs
  <2> QED BY <2>1
<1>4. CASE env.kind = "stateDelta"
  BY <1>1, <1>4, RelayTakesIs
<1> QED BY <1>2, <1>3, <1>4 DEF Carries

LEMMA SendKeepsShow ==
  ASSUME ShowInv, Base, OfferInv, NodeSend
  PROVE  ShowInv'
<1> DEFINE q == outbound
           env == q[1]
<1>1. /\ link \in {"up", "dead"} /\ q # <<>> /\ outbound' = Tail(q)
      /\ UNCHANGED <<seat, board, made, replay, link, client, drops, restarts>>
      /\ IF link = "up" THEN RelayTakes(Head(q)) ELSE UNCHANGED <<cache, view, baseLabel>>
  BY DEF NodeSend, engineVars, faultVars
<1>2. PICK E : q \in Seq(E)
  BY QueueIsSeq DEF Base, IInv, Outgoing
<1>3. replay = <<>>
  BY <1>1 DEF OfferInv, Attached
<1>4. Head(q) = env /\ 1 \in DOMAIN q
  BY <1>1, <1>2, TailParts
<1>5. /\ Stream(Tail(q), board) /\ Sound(env)
  <2>1. Stream(q, board)
    BY DEF ShowInv, BoardInv
  <2> QED BY <1>1, <1>2, <2>1, StreamTail
<1>6. SnapshotLeads(replay', outbound', board')
  BY <1>1, <1>3 DEF SnapshotLeads
<1>7. Shown'
  <2>1. CASE link = "up"
    BY <1>1, <1>4, <1>5, <2>1, RelayTakesShown DEF ShowInv, BoardInv
  <2>2. CASE link # "up"
    BY <1>1, <2>2 DEF ShowInv, BoardInv, Shown
  <2> QED BY <2>1, <2>2
<1>8. ASSUME link = "up", made > 0
      PROVE  CacheLeads(cache', Tail(q), board)
  <2>1. ~WholeBehind(replay, 0)
    BY <1>3 DEF WholeBehind
  <2>2. CacheLeads(cache, q, board) /\ board \in Boards /\ Stream(q, board) /\ Shown
    BY <1>8, <2>1 DEF ShowInv, BoardInv, CacheFits
  <2>3. RelayTakes(env)
    BY <1>1, <1>4, <1>8
  <2> QED BY <1>1, <1>2, <2>2, <2>3, CacheTakes
<1>9. CacheFits'
  BY <1>1, <1>8 DEF CacheFits
<1>10. BoardInv'
  BY <1>1, <1>5, <1>6, <1>7, <1>9 DEF ShowInv, BoardInv
<1>11. Folded'
  <2>1. CASE link = "up"
    BY <1>1, <1>4, <1>5, <2>1, FoldedTakes DEF ShowInv
  <2>2. CASE link # "up"
    BY <1>1, <2>2 DEF ShowInv, Folded
  <2> QED BY <2>1, <2>2
<1>12. ASSUME drops + restarts = 0
       PROVE  /\ Chained(Tail(q), cache')
              /\ (seat.applies /\ client = "on" /\ cache' # None)
                    => view' = cache'.board /\ baseLabel' = cache'.label
  <2>1. /\ link = "up" /\ Chained(q, cache)
        /\ (seat.applies /\ client = "on" /\ cache # None)
              => view = cache.board /\ baseLabel = cache.label
    BY <1>12 DEF ShowInv, InStep
  <2>2. RelayTakes(env)
    BY <1>1, <1>4, <2>1
  <2>3. client = "on" => Online
    BY DEF Online
  <2>4. CASE ~Carries(env)
    <3>1. cache' = cache
      BY <1>5, <2>2, <2>4, RelayTakesIs
    <3>2. (seat.applies /\ client = "on") => view' = view /\ baseLabel' = baseLabel
      BY <1>5, <2>2, <2>3, <2>4, RelayTakesIs
    <3>3. Chained(Tail(q), cache')
      BY <1>1, <1>2, <2>1, <2>4, <3>1, ChainTaken
    <3> QED BY <2>1, <3>1, <3>2, <3>3
  <2>5. CASE env.kind = "state"
    <3>1. cache' = [board |-> env.board, label |-> env.label]
      BY <1>5, <2>2, <2>5, RelayTakesIs
    <3>2. cache' # None
      <4>1. env.board \in Boards /\ env.label \in Boards
        BY <1>5, <2>5 DEF Sound, Error
      <4>2. cache' \in [board : Folds, label : Boards]
        BY <3>1, <4>1, BoardTypes
      <4> QED BY <4>2, BoardTypes
    <3>3. cache'.label = env.label /\ cache'.board = env.board
      BY <3>1
    <3>4. (seat.applies /\ client = "on") => view' = env.board /\ baseLabel' = env.label
      BY <1>5, <2>2, <2>3, <2>5, RelayTakesIs
    <3>5. Carries(env)
      BY <2>5 DEF Carries
    <3>6. Chained(Tail(q), cache')
      BY <1>1, <1>2, <2>1, <3>2, <3>3, <3>5, ChainTaken
    <3> QED BY <3>3, <3>4, <3>6
  <2>6. CASE env.kind = "stateDelta"
    <3>1. Between(q, 0, 1)
      <4>1. \A n \in DOMAIN q : n \in Nat
        BY <1>1, <1>2, TailParts
      <4> QED BY <4>1 DEF Between
    <3>2. cache # None /\ cache.label = env.base
      BY <1>4, <2>1, <2>6, <3>1 DEF Chained
    <3>3. cache' = [board |-> Apply(cache.board, env.patch), label |-> env.label]
      BY <1>5, <2>2, <2>6, <3>2, RelayTakesIs
    <3>4. cache' # None
      <4>1. env.label \in Boards /\ env.base \in Boards /\ env.patch = Diff(env.base, env.label)
        BY <1>5, <2>6 DEF Sound, Error
      <4>2. cache.board \in Folds
        BY <3>2 DEF ShowInv, BoardInv, Shown
      <4>3. Apply(cache.board, env.patch) \in Folds
        BY <4>1, <4>2, FoldIs
      <4>4. cache' \in [board : Folds, label : Boards]
        BY <3>3, <4>1, <4>3
      <4> QED BY <4>4, BoardTypes
    <3>5. cache'.label = env.label /\ cache'.board = Apply(cache.board, env.patch)
      BY <3>3
    <3>6. Carries(env)
      BY <2>6 DEF Carries
    <3>7. Chained(Tail(q), cache')
      BY <1>1, <1>2, <2>1, <3>4, <3>5, <3>6, ChainTaken
    <3>8. ASSUME seat.applies, client = "on"
          PROVE  view' = cache'.board /\ baseLabel' = cache'.label
      <4>1. view = cache.board /\ baseLabel = env.base
        BY <2>1, <3>2, <3>8
      <4>2. view' = Apply(view, env.patch) /\ baseLabel' = env.label
        BY <1>5, <2>2, <2>3, <2>6, <3>8, <4>1, RelayTakesIs
      <4> QED BY <3>5, <4>1, <4>2
    <3> QED BY <3>7, <3>8
  <2> QED BY <2>4, <2>5, <2>6 DEF Carries
<1>13. InStep'
  BY <1>1, <1>12 DEF ShowInv, InStep
<1> QED BY <1>10, <1>11, <1>13 DEF ShowInv

LEMMA ReplayKeepsShow ==
  ASSUME ShowInv, Base, OfferInv, NodeReplay
  PROVE  ShowInv'
<1> DEFINE env == replay[1]
<1>1. /\ link = "replaying"
      /\ UNCHANGED <<seat, board, made, outbound, client, drops, restarts>>
      /\ IF replay = <<>>
         THEN link' = "up" /\ UNCHANGED <<replay, cache, view, baseLabel>>
         ELSE RelayTakes(Head(replay)) /\ replay' = Tail(replay) /\ link' = link
  BY DEF NodeReplay, engineVars, faultVars
<1>2. drops + restarts # 0
  BY <1>1 DEF ShowInv, InStep
<1>3. InStep'
  BY <1>1, <1>2 DEF InStep
<1>4. CASE replay = <<>>
  <2>1. CacheFits'
    BY <1>1, <1>4 DEF ShowInv, BoardInv, CacheFits
  <2> QED BY <1>1, <1>3, <1>4, <2>1 DEF ShowInv, BoardInv, Shown, Folded
<1>5. CASE replay # <<>>
  <2>1. PICK E : replay \in Seq(E)
    BY QueueIsSeq DEF Base, IInv, Outgoing
  <2>2. /\ Head(replay) = env /\ 1 \in DOMAIN replay /\ replay' = Tail(replay)
        /\ \A i \in DOMAIN replay' : i + 1 \in DOMAIN replay /\ replay'[i] = replay[i + 1]
    BY <1>1, <1>5, <2>1, TailParts
  <2>3. /\ Sound(env) /\ env.kind # "stateDelta"
        /\ Carries(env) => Leads(env.label, env.label, outbound, 0, board)
    BY <2>2 DEF ShowInv, BoardInv, SnapshotLeads
  <2>4. RelayTakes(env)
    BY <1>1, <1>5, <2>2
  <2>5. SnapshotLeads(replay', outbound', board')
    BY <1>1, <2>2 DEF ShowInv, BoardInv, SnapshotLeads
  <2>6. Shown' /\ Folded'
    BY <1>1, <2>3, <2>4, RelayTakesShown, FoldedTakes DEF ShowInv, BoardInv
  <2>7. ASSUME made > 0, ~WholeBehind(replay', 0)
        PROVE  CacheLeads(cache', outbound, board)
    <3>1. CASE env.kind = "state"
      <4>1. cache' = [board |-> env.board, label |-> env.label] /\ env.board = env.label
            /\ env.label \in Boards
        BY <2>3, <2>4, <3>1, RelayTakesIs DEF Sound, Error
      <4>2. cache' \in [board : Folds, label : Boards]
        BY <4>1, BoardTypes
      <4>3. cache'.board = env.label /\ cache'.label = env.label
        BY <4>1
      <4>4. Leads(env.label, env.label, outbound, 0, board)
        BY <2>3, <3>1 DEF Carries
      <4> QED BY <4>2, <4>3, <4>4, BoardTypes DEF CacheLeads
    <3>2. CASE env.kind # "state"
      <4>1. ~Carries(env)
        BY <2>3, <3>2 DEF Carries
      <4>2. cache' = cache
        BY <2>3, <2>4, <4>1, RelayTakesIs
      <4>3. ~WholeBehind(replay, 0)
        <5> SUFFICES ASSUME NEW j \in DOMAIN replay, j > 0, replay[j].kind = "state"
                     PROVE  FALSE
          BY DEF WholeBehind
        <5>1. j # 1
          BY <3>2
        <5> DEFINE l == j - 1
        <5>2. l \in 1..(Len(replay) - 1) /\ l + 1 = j
          BY <1>5, <2>1, <5>1, TailParts
        <5>3. l \in DOMAIN replay' /\ replay'[l] = replay[l + 1] /\ l > 0
          BY <1>5, <2>1, <2>2, <5>2, TailParts
        <5> HIDE DEF l
        <5> QED BY <2>7, <5>2, <5>3 DEF WholeBehind
      <4> QED BY <1>1, <2>7, <4>2, <4>3 DEF ShowInv, BoardInv, CacheFits
    <3> QED BY <3>1, <3>2
  <2>8. CacheFits'
    BY <1>1, <2>7 DEF CacheFits
  <2>9. BoardInv'
    BY <1>1, <2>5, <2>6, <2>8 DEF ShowInv, BoardInv
  <2> QED BY <1>3, <2>6, <2>9 DEF ShowInv
<1> QED BY <1>4, <1>5

LEMMA ResumedKeepsShow ==
  ASSUME ShowInv, NodeResumed
  PROVE  ShowInv'
<1> DEFINE whole == IF made = 0 THEN <<>> ELSE <<State(board)>>
           offered == IF snapPrompt = 0 THEN <<>> ELSE <<Prompt(snapPrompt)>>
           E == {State(board), Prompt(snapPrompt)}
<1>1. /\ link = "resuming" /\ link' = "replaying" /\ replay' = whole \o offered
      /\ UNCHANGED <<seat, board, made, outbound, cache, view, baseLabel, client,
                     drops, restarts>>
  BY DEF NodeResumed, engineVars, clientVars, faultVars
<1>2. whole \in Seq(E) /\ offered \in Seq(E)
  <2>1. State(board) \in E /\ Prompt(snapPrompt) \in E
    OBVIOUS
  <2> HIDE DEF E
  <2>2. \A e \in E : <<e>> \in Seq(E)
    OBVIOUS
  <2>3. <<>> \in Seq(E)
    OBVIOUS
  <2> QED BY <2>1, <2>2, <2>3
<1>3. /\ made = 0 => Len(whole) = 0
      /\ made # 0 => Len(whole) = 1 /\ whole[1] = State(board)
      /\ \A i \in 1..Len(offered) : offered[i] = Prompt(snapPrompt)
  OBVIOUS
<1> HIDE DEF whole, offered, E
<1>4. /\ DOMAIN replay' = 1..(Len(whole) + Len(offered))
      /\ Len(whole) \in Nat /\ Len(offered) \in Nat
      /\ \A i \in 1..Len(whole) : replay'[i] = whole[i]
      /\ \A i \in 1..Len(offered) : replay'[Len(whole) + i] = offered[i]
  BY <1>1, <1>2, ConcatParts
<1>5. made # 0 => WholeBehind(replay', 0)
  <2>1. ASSUME made # 0 PROVE 1 \in DOMAIN replay' /\ replay'[1] = State(board)
    <3>1. Len(whole) = 1 /\ 1 \in 1..Len(whole)
      BY <1>3, <2>1
    <3>2. 1 \in 1..(Len(whole) + Len(offered))
      BY <1>4, <3>1
    <3> QED BY <1>3, <1>4, <2>1, <3>1, <3>2
  <2>2. State(board).kind = "state"
    BY DEF State
  <2> QED BY <2>1, <2>2 DEF WholeBehind
<1>6. ASSUME NEW i \in DOMAIN replay'
      PROVE  (made # 0 /\ replay'[i] = State(board)) \/ replay'[i] = Prompt(snapPrompt)
  <2>1. CASE i \in 1..Len(whole)
    BY <1>3, <1>4, <2>1
  <2>2. CASE i \notin 1..Len(whole)
    <3> DEFINE l == i - Len(whole)
    <3>1. l \in 1..Len(offered) /\ i = Len(whole) + l
      BY <1>4, <2>2
    <3> QED BY <1>3, <1>4, <3>1
  <2> QED BY <2>1, <2>2
<1>7. SnapshotLeads(replay', outbound', board')
  <2>1. Sound(Prompt(snapPrompt)) /\ Prompt(snapPrompt).kind = "prompt"
    BY DEF Sound, Prompt
  <2>2. ASSUME made # 0
        PROVE  /\ Sound(State(board)) /\ State(board).kind = "state"
               /\ State(board).label = board
    <3>1. board \in Boards
      BY <2>2, BoardTypes DEF ShowInv, BoardInv
    <3> QED BY <3>1 DEF Sound, State
  <2>3. Leads(board, board, outbound, 0, board)
    BY LeadsAlone
  <2>4. \A i \in DOMAIN replay' :
           /\ Sound(replay'[i]) /\ replay'[i].kind # "stateDelta"
           /\ Carries(replay'[i]) => Leads(replay'[i].label, replay'[i].label, outbound, 0, board)
    BY <1>6, <2>1, <2>2, <2>3 DEF Carries
  <2> QED BY <1>1, <2>4 DEF SnapshotLeads
<1>8. CacheFits'
  BY <1>1, <1>5, BoardTypes DEF CacheFits, ShowInv, BoardInv
<1>9. BoardInv'
  BY <1>1, <1>7, <1>8 DEF ShowInv, BoardInv, Shown
<1>10. Folded' /\ InStep'
  BY <1>1 DEF ShowInv, Folded, InStep
<1> QED BY <1>9, <1>10 DEF ShowInv

LEMMA ClientKeepsShow ==
  ASSUME ShowInv, ClientDrop \/ ClientReturn \/ ClientResync
  PROVE  ShowInv'
<1>1. UNCHANGED <<seat, board, made, outbound, replay, link, cache, drops, restarts>>
  BY DEF ClientDrop, ClientReturn, ClientResync, engineVars, nodeVars, relayVars, faultVars
<1>2. Stream(outbound', board') /\ SnapshotLeads(replay', outbound', board') /\ CacheFits'
  BY <1>1 DEF ShowInv, BoardInv, CacheFits
<1>3. \/ client' # "on" /\ UNCHANGED <<view, baseLabel>>
      \/ cache = None /\ view' = view /\ baseLabel' = None
      \/ cache # None /\ view' = cache.board
         /\ baseLabel' = IF seat.applies THEN cache.label ELSE None
  BY DEF ClientDrop, ClientReturn, ClientResync
<1>4. cache # None => cache.board \in Folds /\ cache.label \in Boards
  BY DEF ShowInv, BoardInv, Shown
<1>5. Shown'
  BY <1>1, <1>3, <1>4 DEF ShowInv, BoardInv, Shown
<1>6. BoardInv'
  BY <1>1, <1>2, <1>5 DEF ShowInv, BoardInv
<1>7. Folded' /\ InStep'
  BY <1>1, <1>3 DEF ShowInv, Folded, InStep
<1> QED BY <1>6, <1>7 DEF ShowInv

LEMMA BreaksKeepShow ==
  ASSUME ShowInv, FaultTypes, LinkBreak \/ RelayRestart
  PROVE  ShowInv'
<1>1. /\ UNCHANGED <<seat, board, made, outbound, view, baseLabel>>
      /\ replay' = <<>> /\ link' \in {"dead", "down"}
      /\ cache' = None \/ (cache' = cache /\ client' = client)
      /\ drops' + restarts' # 0
  BY DEF LinkBreak, RelayRestart, engineVars, clientVars, FaultTypes
<1>2. SnapshotLeads(replay', outbound', board')
  BY <1>1 DEF SnapshotLeads
<1>3. CacheFits' /\ Shown'
  BY <1>1 DEF CacheFits, ShowInv, BoardInv, Shown
<1>4. BoardInv'
  BY <1>1, <1>2, <1>3 DEF ShowInv, BoardInv
<1>5. Folded' /\ InStep'
  BY <1>1 DEF ShowInv, Folded, InStep
<1> QED BY <1>4, <1>5 DEF ShowInv

LEMMA StepKeepsShow ==
  ASSUME ShowInv, Base, OfferInv, FaultTypes, [Next]_vars
  PROVE  ShowInv'
<1>1. CASE Engine
  BY <1>1, EngineKeepsBoards, EngineKeepsStep DEF ShowInv
<1>2. CASE NodeReceiveResponse \/ NodeForgetPrompt \/ NodeReceiveConcede \/ NodeNotices
             \/ NodeReconnect
  <2>1. UNCHANGED <<seat, board, made, outbound, replay, cache, view, baseLabel,
                    client, drops, restarts>>
    BY <1>2 DEF NodeReceiveResponse, NodeForgetPrompt, NodeReceiveConcede, NodeNotices,
           NodeReconnect, engineVars, nodeVars, relayVars, clientVars, faultVars
  <2>2. link' = link \/ (link # "up" /\ link' \notin {"up", "replaying"})
    BY <1>2 DEF NodeReceiveResponse, NodeForgetPrompt, NodeReceiveConcede, NodeNotices,
           NodeReconnect, nodeVars
  <2> QED BY <2>1, <2>2, SameBoards
<1>3. CASE ClientAnswer \/ ClientAnswerLost \/ ClientConcede \/ RelayNoticesHostDrop
             \/ UNCHANGED vars
  <2>1. UNCHANGED <<seat, board, made, outbound, replay, link, cache, view, baseLabel,
                    client, drops, restarts>>
    BY <1>3 DEF ClientAnswer, ClientAnswerLost, ClientConcede, RelayNoticesHostDrop,
           vars, engineVars, nodeVars, relayVars, clientVars, faultVars
  <2> QED BY <2>1, SameBoards
<1>4. CASE NodeSend
  BY <1>4, SendKeepsShow
<1>5. CASE NodeReplay
  BY <1>5, ReplayKeepsShow
<1>6. CASE NodeResumed
  BY <1>6, ResumedKeepsShow
<1>7. CASE ClientDrop \/ ClientReturn \/ ClientResync
  BY <1>7, ClientKeepsShow
<1>8. CASE LinkBreak \/ RelayRestart
  BY <1>8, BreaksKeepShow
<1> QED BY <1>1, <1>2, <1>3, <1>4, <1>5, <1>6, <1>7, <1>8
        DEF Next, Node, Client, Faults

-----------------------------------------------------------------------------
(* The fields no other invariant types                                         *)

RestTypes ==
    /\ seat \in Seats /\ botAnswered \in 0..asked
    /\ forgetting \in BOOLEAN /\ hostUp \in BOOLEAN /\ known \in BOOLEAN
    /\ client \in {"on", "off", "back"}
    /\ selfConceded \in BOOLEAN /\ misused \in BOOLEAN
    /\ drops \in 0..MaxDrops /\ clientDrops \in 0..MaxClientDrops
    /\ restarts \in 0..MaxRestarts

LEMMA EngineKeepsRest ==
  ASSUME RestTypes, Base, Engine
  PROVE  RestTypes'
<1>1. /\ asked \in Nat /\ fetched \in 0..asked /\ published \in {0, asked}
      /\ botAnswered \in 0..asked /\ misused \in BOOLEAN
  BY StreamAssumption DEF RestTypes, Base, IInv, Asking, Polling
<1>2. UNCHANGED <<seat, hostUp, known, client, selfConceded, drops, clientDrops, restarts>>
  BY DEF Engine, EnginePlay, ManabrewAsk, ManabrewTakeAnswer, ManabrewReject,
         ManabrewConcede, ManabrewTimeout, ForgeAsk, ForgeFetch, ForgeSubmit, ForgeReject,
         ForgeTakeAnswer, ForgeTakeConcede, relayVars, clientVars, faultVars
<1>3. forgetting' = forgetting
  BY DEF Engine, EnginePlay, ManabrewAsk, ManabrewTakeAnswer, ManabrewReject,
         ManabrewConcede, ManabrewTimeout, ForgeAsk, ForgeFetch, ForgeSubmit, ForgeReject,
         ForgeTakeAnswer, ForgeTakeConcede, Present, nodeVars
<1>4. misused' \in BOOLEAN
  <2>1. CASE UNCHANGED misused
    BY <1>1, <2>1
  <2>2. ASSUME NEW b \in Boards, EnginePlay(b) PROVE misused' \in BOOLEAN
    <3>1. misused' = (misused \/ actions # <<>>)
      BY <2>2 DEF EnginePlay
    <3> QED BY <3>1
  <2>3. ASSUME ForgeTakeAnswer PROVE misused' \in BOOLEAN
    <3>1. misused' = (misused \/ Head(actions) # Response(asked))
      BY <2>3 DEF ForgeTakeAnswer
    <3> QED BY <3>1
  <2>4. ASSUME NEW b, ManabrewAsk(b) \/ ForgeFetch(b) PROVE UNCHANGED misused
    BY <2>4 DEF ManabrewAsk, ForgeFetch
  <2>5. (ManabrewTakeAnswer \/ ManabrewReject \/ ManabrewConcede \/ ManabrewTimeout
           \/ ForgeAsk \/ ForgeSubmit \/ ForgeReject \/ ForgeTakeConcede)
           => UNCHANGED misused
    BY DEF ManabrewTakeAnswer, ManabrewReject, ManabrewConcede, ManabrewTimeout,
           ForgeAsk, ForgeSubmit, ForgeReject, ForgeTakeConcede, historyVars
  <2> QED BY <2>1, <2>2, <2>3, <2>4, <2>5 DEF Engine
<1>5. botAnswered' \in 0..asked'
  <2>1. ASSUME NEW p, NEW sent, NEW box, Present(p, sent, box)
        PROVE  botAnswered' \in {botAnswered, p}
    BY <2>1 DEF Present
  <2>2. ASSUME NEW b \in Boards, EnginePlay(b) PROVE UNCHANGED <<botAnswered, asked>>
    BY <2>2 DEF EnginePlay
  <2>3. ASSUME NEW b \in Boards, ManabrewAsk(b)
        PROVE  asked' = asked + 1 /\ botAnswered' \in {botAnswered, asked + 1}
    BY <2>1, <2>3 DEF ManabrewAsk
  <2>4. ASSUME NEW b \in Boards, ForgeFetch(b)
        PROVE  asked' = asked /\ botAnswered' \in {botAnswered, published}
    BY <2>1, <2>4 DEF ForgeFetch
  <2>5. ASSUME ManabrewReject \/ ForgeReject
        PROVE  asked' = asked /\ botAnswered' \in {botAnswered, asked, fetched}
    BY <2>1, <2>5 DEF ManabrewReject, ForgeReject
  <2>6. ASSUME ManabrewTakeAnswer \/ ManabrewConcede \/ ManabrewTimeout \/ ForgeSubmit
                 \/ ForgeTakeAnswer \/ ForgeTakeConcede
        PROVE  UNCHANGED <<botAnswered, asked>>
    BY <2>6 DEF ManabrewTakeAnswer, ManabrewConcede, ManabrewTimeout, ForgeSubmit,
           ForgeTakeAnswer, ForgeTakeConcede, nodeVars
  <2>7. ASSUME ForgeAsk PROVE asked' = asked + 1 /\ botAnswered' = botAnswered
    BY <2>7 DEF ForgeAsk, nodeVars
  <2>8. asked' \in {asked, asked + 1} /\ botAnswered' \in {botAnswered, asked', fetched, published}
    BY <2>2, <2>3, <2>4, <2>5, <2>6, <2>7 DEF Engine
  <2> QED BY <1>1, <2>8
<1> QED BY <1>2, <1>3, <1>4, <1>5 DEF RestTypes

LEMMA OthersKeepRest ==
  ASSUME RestTypes, Node \/ Client \/ Faults \/ UNCHANGED vars
  PROVE  RestTypes'
<1>1. UNCHANGED <<seat, botAnswered, asked, misused>>
  BY DEF Node, NodeSend, NodeReceiveResponse, NodeForgetPrompt, NodeReceiveConcede,
         NodeResumed, NodeReplay, NodeNotices, NodeReconnect, Client, ClientAnswer,
         ClientAnswerLost, ClientConcede, ClientReturn, ClientResync, Faults, LinkBreak,
         RelayNoticesHostDrop, RelayRestart, ClientDrop, vars, engineVars, nodeVars,
         historyVars
<1>2. forgetting' \in BOOLEAN
  BY DEF Node, NodeSend, NodeReceiveResponse, NodeForgetPrompt, NodeReceiveConcede,
         NodeResumed, NodeReplay, NodeNotices, NodeReconnect, Client, ClientAnswer,
         ClientAnswerLost, ClientConcede, ClientReturn, ClientResync, Faults, LinkBreak,
         RelayNoticesHostDrop, RelayRestart, ClientDrop, vars, nodeVars, RestTypes
<1>3. hostUp' \in BOOLEAN /\ known' \in BOOLEAN
  BY DEF Node, NodeSend, NodeReceiveResponse, NodeForgetPrompt, NodeReceiveConcede,
         NodeResumed, NodeReplay, NodeNotices, NodeReconnect, Client, ClientAnswer,
         ClientAnswerLost, ClientConcede, ClientReturn, ClientResync, Faults, LinkBreak,
         RelayNoticesHostDrop, RelayRestart, ClientDrop, vars, relayVars, RestTypes
<1>4. client' \in {"on", "off", "back"} /\ selfConceded' \in BOOLEAN
  BY DEF Node, NodeSend, NodeReceiveResponse, NodeForgetPrompt, NodeReceiveConcede,
         NodeResumed, NodeReplay, NodeNotices, NodeReconnect, Client, ClientAnswer,
         ClientAnswerLost, ClientConcede, ClientReturn, ClientResync, Faults, LinkBreak,
         RelayNoticesHostDrop, RelayRestart, ClientDrop, vars, clientVars, RestTypes
<1>5. /\ drops' \in 0..MaxDrops /\ clientDrops' \in 0..MaxClientDrops
      /\ restarts' \in 0..MaxRestarts
  <2>1. /\ drops' = drops \/ (drops < MaxDrops /\ drops' = drops + 1)
        /\ clientDrops' = clientDrops
              \/ (clientDrops < MaxClientDrops /\ clientDrops' = clientDrops + 1)
        /\ restarts' = restarts \/ (restarts < MaxRestarts /\ restarts' = restarts + 1)
    BY DEF Node, NodeSend, NodeReceiveResponse, NodeForgetPrompt, NodeReceiveConcede,
           NodeResumed, NodeReplay, NodeNotices, NodeReconnect, Client, ClientAnswer,
           ClientAnswerLost, ClientConcede, ClientReturn, ClientResync, Faults, LinkBreak,
           RelayNoticesHostDrop, RelayRestart, ClientDrop, vars, faultVars
  <2> QED BY <2>1, StreamAssumption DEF RestTypes
<1> QED BY <1>1, <1>2, <1>3, <1>4, <1>5 DEF RestTypes

-----------------------------------------------------------------------------
(* What is proved of the system                                                *)

StreamInv == Base /\ OfferInv /\ ShowInv /\ RestTypes

LEMMA InitStream == Init => StreamInv
<1> SUFFICES ASSUME Init PROVE RestTypes
  BY InitBase, InitOffer, InitShow DEF StreamInv
<1>1. /\ 0 \in 0..0 /\ 0 \in 0..MaxDrops /\ 0 \in 0..MaxClientDrops /\ 0 \in 0..MaxRestarts
  BY StreamAssumption
<1> QED BY <1>1 DEF Init, RestTypes

LEMMA StepKeepsStream == StreamInv /\ [Next]_vars => StreamInv'
<1> SUFFICES ASSUME StreamInv, [Next]_vars PROVE StreamInv'
  OBVIOUS
<1>1. Base' /\ OfferInv'
  BY StepKeepsBase, StepKeepsOffer DEF StreamInv
<1>2. RestTypes'
  BY EngineKeepsRest, OthersKeepRest DEF StreamInv, Next
<1>3. FaultTypes
  BY StreamAssumption DEF StreamInv, RestTypes, FaultTypes
<1>4. ShowInv'
  BY <1>3, StepKeepsShow DEF StreamInv
<1> QED BY <1>1, <1>2, <1>4 DEF StreamInv

\* The board the relay would hand out, once the node has nothing left to send.
LEMMA CacheIsThere ==
  ASSUME StreamInv, Settled, made > 0
  PROVE  cache = [board |-> board, label |-> board] /\ cache # None
<1>1. link = "up" /\ outbound = <<>> /\ replay = <<>>
  BY DEF Settled, StreamInv, OfferInv, Attached
<1>2. ~WholeBehind(replay, 0) /\ ~WholeBehind(outbound, 0)
  <2>1. DOMAIN <<>> = {}
    OBVIOUS
  <2> QED BY <1>1, <2>1 DEF WholeBehind
<1>3. cache # None /\ Leads(cache.board, cache.label, <<>>, 0, board)
  BY <1>1, <1>2 DEF StreamInv, ShowInv, BoardInv, CacheFits, CacheLeads
<1>4. cache \in [board : Folds, label : Boards] /\ board \in Boards
  BY <1>3 DEF StreamInv, ShowInv, BoardInv, Shown
<1>5. cache.board = board /\ cache.label = board
  BY <1>3, <1>4, LeadsThere
<1> QED BY <1>3, <1>4, <1>5

(* Once the node has nothing left to send, the board the relay caches is the    *)
(* engine's, for any boards and any number of breaks and restarts               *)
(* (RelayBoardCurrent): patches that were queued before a resume, and fold into *)
(* the newer board the resume sent ahead of them, come out at the same board    *)
(* (host.rs, reestablish_room; state_delta.rs, apply_keyed).                    *)
THEOREM RelayCachesTheBoard == Spec => []RelayBoardCurrent
<1>1. StreamInv => RelayBoardCurrent
  BY CacheIsThere DEF RelayBoardCurrent
<1> QED BY <1>1, InitStream, StepKeepsStream, PTL DEF Spec

(* And so is the board an online client shows, if no link of the node broke, or *)
(* if the client is an old one, which the relay sends folded boards             *)
(* (ClientBoardCurrent; connection.rs, BroadcastState; replay.rs, state_after). *)
THEOREM ClientShowsTheBoard == Spec => []ClientBoardCurrent
<1>1. StreamInv => ClientBoardCurrent
  <2> SUFFICES ASSUME StreamInv, Settled, made > 0, client = "on",
                      drops + restarts = 0 \/ ~(seat.applies \/ seat.local)
               PROVE  view = board
    BY DEF ClientBoardCurrent
  <2>1. cache = [board |-> board, label |-> board] /\ cache # None
    BY CacheIsThere
  <2>2. cache.board = board
    BY <2>1
  <2>3. seat.local => seat.applies
    BY StreamAssumption DEF StreamInv, RestTypes
  <2>4. CASE seat.applies
    BY <2>1, <2>2, <2>4 DEF StreamInv, ShowInv, InStep
  <2>5. CASE ~seat.applies
    BY <2>1, <2>2, <2>3, <2>5 DEF StreamInv, ShowInv, Folded
  <2> QED BY <2>4, <2>5
<1> QED BY <1>1, InitStream, StepKeepsStream, PTL DEF Spec

LEMMA KnownInputs ==
  ASSUME StreamInv
  PROVE  Known \subseteq Inputs
<1>1. given \subseteq Prompts
  BY StreamAssumption DEF StreamInv, Base, IInv, Asking, Prompts
<1>2. \A p \in given : Response(p) \in Responses
  BY <1>1 DEF Response, Responses
<1> QED BY <1>2 DEF Known, Inputs

LEMMA EnvelopesTyped ==
  ASSUME StreamInv, NEW q, Queue(q, asked), \A i \in DOMAIN q : Sound(q[i])
  PROVE  \A i \in DOMAIN q : Envelope(q[i])
<1> SUFFICES ASSUME NEW i \in DOMAIN q PROVE Envelope(q[i])
  OBVIOUS
<1>1. Below(q[i], asked) /\ Sound(q[i])
  <2> PICK E : q \in Seq(E) /\ \A e \in E : Below(e, asked)
    BY DEF Queue
  <2>1. q[i] \in E
    OBVIOUS
  <2> QED BY <2>1
<1>2. 1..asked \subseteq Prompts
  BY StreamAssumption DEF StreamInv, Base, IInv, Asking, Prompts
<1>3. Boards \subseteq Docs
  BY DEF Docs
<1> QED BY <1>1, <1>2, <1>3 DEF Below, Sound, Envelope

(* Whatever the engine, the boards, the seat and the faults, the traffic of a   *)
(* seat is well typed (TypeOK): no queue holds what its reader cannot take, and *)
(* no fold of boards out of order leaves anything but a list of cards           *)
(* (state_delta.rs, apply_keyed).                                               *)
THEOREM StreamTypes == Spec => []TypeOK
<1>1. ASSUME StreamInv PROVE TypeOK
  <2> USE <1>1
  <2>1. /\ asked \in PromptIds /\ asked \in Nat /\ 0..asked \subseteq PromptIds
    BY StreamAssumption DEF StreamInv, Base, IInv, Asking, PromptIds
  <2>2. /\ inbox \in Seq(Inputs) /\ actions \in Seq(Inputs) /\ retained \in Seq(Inputs)
        /\ wire \in Seq(Inputs \cup {Resumed})
    <3>1. /\ inbox \in Seq(Known) /\ actions \in Seq(Known) /\ retained \in Seq(Known)
          /\ wire \in Seq(Known \cup {Resumed})
      BY DEF StreamInv, Base, IInv, Incoming, Polling
    <3>2. Known \subseteq Inputs /\ Known \cup {Resumed} \subseteq Inputs \cup {Resumed}
      BY KnownInputs
    <3> QED BY <3>1, <3>2, SeqMonotonic
  <2>3. published \in PromptIds /\ fetched \in PromptIds
    BY <2>1 DEF StreamInv, Base, Polling
  <2>4. /\ snapPrompt \in PromptIds /\ pending \in PromptIds /\ held \in PromptIds
        /\ botAnswered \in PromptIds
    BY <2>1 DEF StreamInv, Base, IInv, Outgoing, RestTypes
  <2>5. /\ \A i \in DOMAIN outbound : Envelope(outbound[i])
        /\ \A i \in DOMAIN replay : Envelope(replay[i])
    <3>1. Queue(outbound, asked) /\ Queue(replay, asked)
      BY DEF StreamInv, Base, IInv, Outgoing
    <3>2. /\ \A i \in DOMAIN outbound : Sound(outbound[i])
          /\ \A i \in DOMAIN replay : Sound(replay[i])
      BY DEF StreamInv, ShowInv, BoardInv, Stream, SnapshotLeads
    <3> QED BY <3>1, <3>2, EnvelopesTyped
  <2>6. /\ board \in Docs /\ made \in 0..MaxBoards
        /\ cache = None \/ (cache.board \in Folds /\ cache.label \in Docs)
        /\ view = None \/ view \in Folds
        /\ baseLabel = None \/ baseLabel \in Docs
    BY DEF StreamInv, ShowInv, BoardInv, Shown, Docs
  <2>7. /\ waiting \in BOOLEAN /\ conceded \in BOOLEAN /\ quit \in BOOLEAN
        /\ fate \in [Prompts -> {"unasked", "open", "answered", "passed"}]
        /\ given \subseteq Prompts
    BY StreamAssumption DEF StreamInv, Base, IInv, Asking, Prompts
  <2>8. link \in {"up", "dead", "down", "resuming", "replaying"}
    BY DEF StreamInv, OfferInv, Attached
  <2>9. /\ seat \in Seats
        /\ forgetting \in BOOLEAN /\ hostUp \in BOOLEAN /\ known \in BOOLEAN
        /\ client \in {"on", "off", "back"}
        /\ selfConceded \in BOOLEAN /\ misused \in BOOLEAN
        /\ drops \in 0..MaxDrops /\ clientDrops \in 0..MaxClientDrops
        /\ restarts \in 0..MaxRestarts
    BY DEF StreamInv, RestTypes
  <2> QED BY <2>1, <2>2, <2>3, <2>4, <2>5, <2>6, <2>7, <2>8, <2>9 DEF TypeOK
<1> QED BY <1>1, InitStream, StepKeepsStream, PTL DEF Spec

=============================================================================
