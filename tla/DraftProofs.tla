----------------------------- MODULE DraftProofs -----------------------------
(* For any pod, product and number of picks per pass: the draft takes only      *)
(* picks that fit, gives people only cards they chose, shares the cards out     *)
(* evenly, asks nobody who cannot answer, and neither loses nor doubles a card. *)
EXTENDS Draft, FiniteSetTheorems, FunctionTheorems, SequenceTheorems,
        WellFoundedInduction, TLAPS

OpenPacks == [cards : Seq(Cards), left : 0..PicksPerPass]

Picks == [card : Cards, round : 1..Rounds, number : Numbers]

Views == [number : Nat, round : 1..Rounds, pack : Seq(Cards), open : BOOLEAN]

(* Every variable but dealt, with its sequences typed whole.                  *)
Types ==
    /\ round \in 1..Rounds
    /\ queue \in [Seats -> Seq(OpenPacks)]
    /\ picked \in [Seats -> Seq(Cards)]
    /\ pending \in [Humans -> Cards \cup {NoCard}]
    /\ phase \in {"idle", "head", "sweep"} /\ cursor \in 0..PodSize
    /\ progress \in BOOLEAN /\ active \in BOOLEAN
    /\ sent \in [Humans -> Seq(Picks)]
    /\ inbox \in [Peers -> Seq(Views)]
    /\ view \in [Humans -> Views]
    /\ waiting \in [Humans -> BOOLEAN] /\ done \in [Humans -> BOOLEAN]
    /\ chosen \in [Humans -> [Numbers -> SUBSET Cards]]
    /\ spare \in 0..MaxSpare /\ lost \in 0..MaxLost

-----------------------------------------------------------------------------
(* What fits the pack before a seat: q is the seat's queue, n the number of   *)
(* its next pick, r the round and ch what its person has chosen.              *)

Number(s) == Len(picked[s]) + 1

Full(p) == p.cards # <<>> /\ p.left # 0

(* Only the pack the sweep is at may be empty or done with.                   *)
PacksReady ==
    \A s \in Seats :
        /\ \A i \in 2..Len(queue[s]) : Full(queue[s][i])
        /\ queue[s] # <<>> => Full(queue[s][1]) \/ (phase = "sweep" /\ cursor = s)

Before(m, r, n) == m.round <= r /\ m.number <= n

Now(m, r, n) == m.round = r /\ m.number = n

Holds(q, c) == q # <<>> /\ q[1].left # 0 /\ c \in ToSet(q[1].cards)

(* Nothing is shown for a pick to come; what is shown for the next pick is    *)
(* the pack it is taken from.                                                 *)
ViewFits(v, r, n, q) ==
    /\ Before(v, r, n)
    /\ v.pack # <<>> => v.number \in Numbers
    /\ Now(v, r, n) /\ v.pack # <<>> =>
          q # <<>> /\ q[1].left # 0 /\ q[1].cards = v.pack

SentFits(e, r, n, q, ch) ==
    /\ Before(e, r, n)
    /\ e.card \in ch[e.number]
    /\ Now(e, r, n) => Holds(q, e.card)

PendingFits(c, n, q, ch) ==
    c # NoCard => n \in Numbers /\ Holds(q, c) /\ c \in ch[n]

ViewsFit == \A s \in Humans : ViewFits(view[s], round, Number(s), queue[s])

MailFits ==
    \A s \in Peers : \A i \in 1..Len(inbox[s]) :
        ViewFits(inbox[s][i], round, Number(s), queue[s])

SentsFit ==
    \A s \in Humans : \A i \in 1..Len(sent[s]) :
        SentFits(sent[s][i], round, Number(s), queue[s], chosen[s])

PendingsFit ==
    \A s \in Humans : PendingFits(pending[s], Number(s), queue[s], chosen[s])

-----------------------------------------------------------------------------
(* Shares: k counts the packs a seat has done with in this round. A pack that *)
(* comes to a seat as its n-th has been before n - 1 others.                  *)

Taken(s) == Len(picked[s]) - (round - 1) * PackSize

Share(k, t, q) ==
    /\ q = <<>> =>
          t = IF k * PicksPerPass < PackSize THEN k * PicksPerPass ELSE PackSize
    /\ q # <<>> =>
          /\ k * PicksPerPass < PackSize
          /\ t + q[1].left = k * PicksPerPass + PicksPerPass
          /\ t + Len(q[1].cards) = PackSize
    /\ \A i \in 2..Len(q) :
          /\ q[i].left = PicksPerPass
          /\ Len(q[i].cards) + (k + i - 1) * PicksPerPass = PackSize

(* A seat has got what its neighbour has passed, and a pack of its own.       *)
Got(k) == IF k * PicksPerPass < PackSize THEN k + 1 ELSE k

Counted(h) ==
    \A s \in Seats :
        /\ Share(h[s], Taken(s), queue[s])
        /\ h[Neighbor(s)] + Len(queue[Neighbor(s)]) = Got(h[s])

Shares == \E h \in [Seats -> Nat] : Counted(h)

-----------------------------------------------------------------------------
(* What people are shown *)

ShownLast ==
    active /\ phase = "idle" =>
        /\ view[0] = StateOf(0)
        /\ lost = 0 => \A s \in Peers :
              /\ inbox[s] = <<>> => view[s] = StateOf(s)
              /\ inbox[s] # <<>> => inbox[s][Len(inbox[s])] = StateOf(s)

(* A person whose pick is out will be told of it.                             *)
PickOut ==
    active /\ phase = "idle" =>
        /\ waiting[0] => sent[0] # <<>>
        /\ lost = 0 => \A s \in Peers :
              waiting[s] /\ inbox[s] = <<>> =>
                  \/ pending[s] # NoCard
                  \/ sent[s] # <<>> /\ Now(sent[s][Len(sent[s])], round, Number(s))

Running ==
    /\ phase # "idle" => active
    /\ active =>
          /\ \A s \in Humans : ~done[s]
          /\ \A s \in Peers : \A i \in 1..Len(inbox[s]) : inbox[s][i] # Completed

IInv ==
    /\ Types
    /\ PacksReady /\ ViewsFit /\ MailFits /\ SentsFit /\ PendingsFit
    /\ Shares
    /\ ShownLast /\ PickOut /\ Running

-----------------------------------------------------------------------------
(* Sequences and the ring                                                     *)

LEMMA SeatFacts ==
    /\ 0 \in Humans /\ Humans \subseteq Seats /\ Peers \subseteq Humans
    /\ Seats \subseteq Nat /\ 0 \notin Peers
    /\ PodSize \in Nat /\ PodSize >= 2 /\ Seats # {}
    /\ PicksPerPass \in Nat /\ PicksPerPass >= 1 /\ PackSize \in Nat /\ PackSize >= 1
BY DraftAssumption DEF Seats, Humans, Peers

LEMMA OnceRound ==
    ASSUME NEW n \in Nat, n > 0, NEW x \in 0..(n + n - 1)
    PROVE  x % n = IF x < n THEN x ELSE x - n
OBVIOUS

LEMMA NeighborIs ==
    ASSUME round \in Nat, NEW s \in Seats
    PROVE  Neighbor(s) = IF round % 2 = 1
                         THEN IF s + 1 < PodSize THEN s + 1 ELSE 0
                         ELSE IF s = 0 THEN PodSize - 1 ELSE s - 1
<1>1. s \in Nat /\ s < PodSize /\ PodSize \in Nat /\ PodSize >= 2
  BY SeatFacts DEF Seats
<1>2. s + 1 \in 0..(PodSize + PodSize - 1)
      /\ s + PodSize - 1 \in 0..(PodSize + PodSize - 1)
  BY <1>1
<1>3. (s + 1) % PodSize = IF s + 1 < PodSize THEN s + 1 ELSE s + 1 - PodSize
  BY <1>1, <1>2, OnceRound
<1>4. (s + PodSize - 1) % PodSize
        = IF s + PodSize - 1 < PodSize THEN s + PodSize - 1
          ELSE s + PodSize - 1 - PodSize
  BY <1>1, <1>2, OnceRound
<1>5. (s + 1) % PodSize = IF s + 1 < PodSize THEN s + 1 ELSE 0
  BY <1>1, <1>3
<1>6. (s + PodSize - 1) % PodSize = IF s = 0 THEN PodSize - 1 ELSE s - 1
  BY <1>1, <1>4
<1> QED BY <1>5, <1>6 DEF Neighbor

(* Each seat passes to another one, and each is passed to by exactly one.     *)
LEMMA NeighborRing ==
    ASSUME round \in Nat
    PROVE  /\ \A s \in Seats : Neighbor(s) \in Seats /\ Neighbor(s) # s
           /\ \A s, u \in Seats : Neighbor(s) = Neighbor(u) => s = u
           /\ \A s \in Seats : \E u \in Seats : Neighbor(u) = s
<1>1. PodSize \in Nat /\ PodSize >= 2 /\ Seats = 0..(PodSize - 1)
  BY SeatFacts DEF Seats
<1>2. \A s \in Seats : Neighbor(s) \in Seats /\ Neighbor(s) # s
  BY <1>1, NeighborIs
<1>3. \A s, u \in Seats : Neighbor(s) = Neighbor(u) => s = u
  BY <1>1, NeighborIs
<1>4. ASSUME NEW s \in Seats PROVE \E u \in Seats : Neighbor(u) = s
  <2>1. CASE round % 2 = 1
    <3> DEFINE u == IF s = 0 THEN PodSize - 1 ELSE s - 1
    <3>1. u \in Seats BY <1>1
    <3>2. Neighbor(u) = s BY <1>1, <2>1, <3>1, NeighborIs
    <3> QED BY <3>1, <3>2
  <2>2. CASE round % 2 # 1
    <3> DEFINE u == IF s + 1 < PodSize THEN s + 1 ELSE 0
    <3>1. u \in Seats BY <1>1
    <3>2. Neighbor(u) = s BY <1>1, <2>2, <3>1, NeighborIs
    <3> QED BY <3>1, <3>2
  <2> QED BY <2>1, <2>2
<1> QED BY <1>2, <1>3, <1>4

(* A set of naturals has a smallest one. *)
LEMMA SmallestNat ==
  ASSUME NEW S \in SUBSET Nat, S # {}
  PROVE  \E i \in S : \A j \in S : i <= j
<1> DEFINE below == StrictSubsetOrdering(Nat)
           initials == {1..i : i \in S}
<1>1. \A i \in S : 1..i \in FiniteSubsetsOf(Nat)
  BY FS_Interval DEF FiniteSubsetsOf
<1>2. IsWellFoundedOn(below, FiniteSubsetsOf(Nat))
  BY FS_StrictSubsetOrderingWellFounded
<1>3. \A i, j \in S : j < i => <<1..j, 1..i>> \in below
  <2> SUFFICES ASSUME NEW i \in S, NEW j \in S, j < i
               PROVE  <<1..j, 1..i>> \in below
    OBVIOUS
  <2>1. 1..j \subseteq 1..i /\ i \in 1..i /\ i \notin 1..j
    OBVIOUS
  <2>2. 1..j \in SUBSET Nat /\ 1..i \in SUBSET Nat /\ 1..j # 1..i
    BY <2>1
  <2> QED BY <2>1, <2>2 DEF StrictSubsetOrdering
<1>4. initials \subseteq FiniteSubsetsOf(Nat) /\ initials # {}
  BY <1>1
<1> HIDE DEF below
<1>5. \E x \in initials : \A y \in initials : <<y, x>> \notin below
  <2> HIDE DEF initials
  <2> QED BY <1>2, <1>4, WFMin
<1>6. \E i \in S : \A j \in S : <<1..j, 1..i>> \notin below
  BY <1>5
<1> PICK i \in S : \A j \in S : <<1..j, 1..i>> \notin below
  BY <1>6
<1>7. \A j \in S : ~(j < i)
  BY <1>3
<1> QED BY <1>7

(* rest is what is left of cards when card c is taken from place m.           *)
Without(cards, m, c, rest) ==
    /\ cards[m] = c
    /\ \A j \in 1..Len(cards) - 1 : rest[j] = IF j < m THEN cards[j] ELSE cards[j + 1]

(* Taking a card of a pack leaves the rest of it.                             *)
LEMMA RestOfPack ==
    ASSUME NEW cards \in Seq(Cards), NEW c \in ToSet(cards)
    PROVE  /\ RemoveFirst(cards, c) \in Seq(Cards)
           /\ Len(RemoveFirst(cards, c)) = Len(cards) - 1
           /\ \E m \in 1..Len(cards) : Without(cards, m, c, RemoveFirst(cards, c))
<1> DEFINE at == SelectInSeq(cards, LAMBDA v : v = c)
<1>1. PICK k \in 1..Len(cards) : cards[k] = c
  BY DEF ToSet
<1>2. at \in 1..Len(cards) /\ cards[at] = c
  <2> DEFINE I == {i \in 1..Len(cards) : cards[i] = c}
  <2>1. I # {} /\ I \in SUBSET Nat BY <1>1
  <2>2. at = Min(I) BY <2>1 DEF SelectInSeq
  <2>3. \E i \in I : \A j \in I : i <= j
    <3> HIDE DEF I
    <3> QED BY <2>1, SmallestNat
  <2>4. Min(I) \in I
    <3> HIDE DEF I
    <3> QED BY <2>3 DEF Min
  <2> QED BY <2>2, <2>4
<1>3. RemoveFirst(cards, c) = SubSeq(cards, 1, at - 1) \o SubSeq(cards, at + 1, Len(cards))
  BY <1>1 DEF RemoveFirst, RemoveAt
<1> HIDE DEF at
<1> DEFINE n == Len(cards)
           front == SubSeq(cards, 1, at - 1)
           back == SubSeq(cards, at + 1, n)
           rest == front \o back
<1>4. n \in Nat /\ at \in Nat /\ 1 <= at /\ at <= n
  BY <1>2, LenProperties
<1>5. /\ front \in Seq(Cards) /\ Len(front) = at - 1
      /\ \A j \in 1..at - 1 : front[j] = cards[j]
  BY <1>4
<1>6. /\ back \in Seq(Cards) /\ Len(back) = n - at
      /\ \A j \in 1..n - at : back[j] = cards[at + j]
  BY <1>4
<1> HIDE DEF front, back
<1>7. /\ front \o back \in Seq(Cards) /\ Len(front \o back) = Len(front) + Len(back)
      /\ \A j \in 1..Len(front) + Len(back) :
            (front \o back)[j] = IF j <= Len(front) THEN front[j] ELSE back[j - Len(front)]
  BY <1>5, <1>6, ConcatProperties
<1> HIDE DEF n
<1>8. rest \in Seq(Cards) /\ Len(rest) = n - 1
  BY <1>4, <1>5, <1>6, <1>7
<1>9. ASSUME NEW j \in 1..n - 1
      PROVE  rest[j] = IF j < at THEN cards[j] ELSE cards[j + 1]
  <2>1. rest[j] = IF j <= at - 1 THEN front[j] ELSE back[j - (at - 1)]
    BY <1>4, <1>5, <1>6, <1>7
  <2>2. CASE j <= at - 1
    BY <1>4, <1>5, <2>1, <2>2
  <2>3. CASE ~(j <= at - 1)
    <3>1. j - (at - 1) \in 1..n - at /\ at + (j - (at - 1)) = j + 1 /\ ~(j < at)
      BY <1>4, <2>3
    <3> QED BY <1>6, <2>1, <2>3, <3>1
  <2> QED BY <2>2, <2>3
<1>10. Without(cards, at, c, rest)
  BY <1>2, <1>9 DEF Without, n
<1> HIDE DEF rest
<1>11. RemoveFirst(cards, c) = rest
  BY <1>3 DEF rest, front, back, n
<1> QED BY <1>2, <1>8, <1>10, <1>11 DEF n
-----------------------------------------------------------------------------
(* Packs, shares and what is shown of them                                    *)

LEMMA PackFacts ==
    ASSUME Types, NEW s \in Seats
    PROVE  /\ queue[s] \in Seq(OpenPacks) /\ Len(queue[s]) \in Nat
           /\ picked[s] \in Seq(Cards) /\ Number(s) \in Nat /\ Number(s) >= 1
           /\ round \in Nat /\ round >= 1 /\ round <= Rounds
           /\ \A i \in 1..Len(queue[s]) :
                 /\ queue[s][i] \in OpenPacks
                 /\ queue[s][i].cards \in Seq(Cards) /\ queue[s][i].left \in Nat
           /\ queue[s] # <<>> => Len(queue[s]) >= 1 /\ Head(queue[s]) = queue[s][1]
<1>1. /\ queue[s] \in Seq(OpenPacks) /\ picked[s] \in Seq(Cards)
      /\ round \in Nat /\ round >= 1 /\ round <= Rounds
  BY DraftAssumption DEF Types
<1>2. \A i \in 1..Len(queue[s]) : queue[s][i] \in OpenPacks
  BY <1>1, ElementOfSeq
<1>3. \A p \in OpenPacks : p.cards \in Seq(Cards) /\ p.left \in Nat
  BY DraftAssumption DEF OpenPacks
<1>4. Len(queue[s]) \in Nat /\ Number(s) \in Nat /\ Number(s) >= 1
  BY <1>1, LenProperties DEF Number
<1>5. queue[s] # <<>> => Len(queue[s]) >= 1 /\ Head(queue[s]) = queue[s][1]
  BY <1>1, HeadTailProperties, EmptySeq, LenProperties
<1> QED BY <1>1, <1>2, <1>3, <1>4, <1>5

(* A seat before a pack that is not empty has a pick to make.                 *)
LEMMA NumberInRange ==
    ASSUME Types, Shares, NEW s \in Seats, queue[s] # <<>>,
           queue[s][1].cards # <<>>
    PROVE  Number(s) \in Numbers
<1> USE DraftAssumption
<1>1. queue[s][1].cards \in Seq(Cards) /\ Len(queue[s][1].cards) \in Nat
      /\ Len(queue[s][1].cards) >= 1
  <2>1. queue[s][1].cards \in Seq(Cards)
    BY PackFacts
  <2> QED BY <2>1, LenProperties, EmptySeq
<1>2. Taken(s) + Len(queue[s][1].cards) = PackSize
  BY DEF Shares, Counted, Share
<1>3. Len(picked[s]) \in Nat /\ round \in Nat /\ round >= 1 /\ round <= Rounds
  BY PackFacts, LenProperties
<1>4. (round - 1) * PackSize + PackSize = round * PackSize
  BY <1>3
<1>5. round * PackSize <= Rounds * PackSize
  BY <1>3
<1>6. (round - 1) * PackSize \in Int /\ round * PackSize \in Int
      /\ Rounds * PackSize \in Int
  BY <1>3
<1>7. Len(picked[s]) - (round - 1) * PackSize + Len(queue[s][1].cards) = PackSize
  BY <1>2 DEF Taken
<1>8. Len(picked[s]) + 1 <= round * PackSize
  <2> DEFINE a == (round - 1) * PackSize
             b == round * PackSize
             l == Len(picked[s])
             m == Len(queue[s][1].cards)
  <2>1. a \in Int /\ b \in Int /\ l \in Nat /\ m \in Nat /\ m >= 1 /\ a + PackSize = b
        /\ l - a + m = PackSize
    BY <1>1, <1>3, <1>4, <1>6, <1>7
  <2> HIDE DEF a, b, l, m
  <2>2. l + 1 <= b
    BY <2>1
  <2> QED BY <2>2 DEF b, l
<1>9. Number(s) <= Rounds * PackSize
  BY <1>3, <1>5, <1>6, <1>8 DEF Number
<1> QED BY <1>3, <1>6, <1>9 DEF Number, Numbers

LEMMA StateTyped ==
    ASSUME Types, NEW s \in Seats
    PROVE  /\ StateOf(s) \in Views /\ StateOf(s) # Completed
           /\ StateOf(s).number = Number(s) /\ StateOf(s).round = round
           /\ queue[s] = <<>> => StateOf(s).pack = <<>>
           /\ queue[s] # <<>> => StateOf(s).pack = queue[s][1].cards
<1>1. StateOf(s).pack \in Seq(Cards)
  <2>1. <<>> \in Seq(Cards) BY EmptySeq
  <2>2. queue[s] # <<>> => Head(queue[s]).cards \in Seq(Cards)
    BY PackFacts
  <2> QED BY <2>1, <2>2 DEF StateOf
<1>2. StateOf(s).open \in BOOLEAN
  BY DEF StateOf
<1>3. round \in 1..Rounds
  BY DEF Types
<1>4. StateOf(s).number = Number(s) /\ StateOf(s).round = round
  BY DEF StateOf, Number
<1>5. StateOf(s) \in Views
  BY <1>1, <1>2, <1>3, <1>4, PackFacts DEF StateOf, Views
<1>6. StateOf(s) # Completed
  <2>1. Completed.number = 0 BY DEF Completed
  <2> QED BY <2>1, <1>4, PackFacts
<1>7. /\ queue[s] = <<>> => StateOf(s).pack = <<>>
      /\ queue[s] # <<>> => StateOf(s).pack = queue[s][1].cards
  BY PackFacts DEF StateOf
<1> QED BY <1>4, <1>5, <1>6, <1>7

(* What the host shows between two sweeps fits.                               *)
LEMMA StateFits ==
    ASSUME Types, Shares, NEW s \in Seats,
           queue[s] # <<>> => Full(queue[s][1])
    PROVE  ViewFits(StateOf(s), round, Number(s), queue[s])
<1>1. Before(StateOf(s), round, Number(s))
  BY StateTyped, PackFacts DEF Before
<1>2. CASE queue[s] = <<>>
  BY <1>1, <1>2, StateTyped DEF ViewFits
<1>3. CASE queue[s] # <<>>
  <2>1. Full(queue[s][1]) /\ Number(s) \in Numbers
    BY <1>3, NumberInRange DEF Full
  <2> QED BY <1>1, <1>3, <2>1, StateTyped DEF ViewFits, Full
<1> QED BY <1>2, <1>3

(* A share of the round that starts.                                          *)
LEMMA FirstShare ==
    ASSUME NEW p \in Seq(Cards), Len(p) = PackSize
    PROVE  /\ <<Fresh(p)>> \in Seq(OpenPacks) /\ Len(<<Fresh(p)>>) = 1
           /\ <<Fresh(p)>>[1] = Fresh(p) /\ Full(Fresh(p))
           /\ Share(0, 0, <<Fresh(p)>>)
<1> USE DraftAssumption
<1>1. Fresh(p) \in OpenPacks /\ Fresh(p).cards = p /\ Fresh(p).left = PicksPerPass
  BY DEF Fresh, OpenPacks
<1>2. p # <<>>
  BY EmptySeq
<1>3. 0 * PicksPerPass = 0
  OBVIOUS
<1> DEFINE q == <<Fresh(p)>>
<1>4. q \in Seq(OpenPacks) /\ Len(q) = 1 /\ q[1] = Fresh(p) /\ q # <<>>
  BY <1>1
<1> HIDE DEF q
<1>5. Share(0, 0, q)
  BY <1>1, <1>3, <1>4 DEF Share
<1>6. Full(Fresh(p))
  BY <1>1, <1>2 DEF Full
<1> QED BY <1>4, <1>5, <1>6 DEF q

(* The counts of a round that starts.                                         *)
LEMMA FirstCounts ==
    ASSUME round \in Nat,
           \A s \in Seats : Share(0, Taken(s), queue[s]) /\ Len(queue[s]) = 1
    PROVE  Shares
<1> DEFINE h == [s \in Seats |-> 0]
<1>1. h \in [Seats -> Nat] /\ \A s \in Seats : h[s] = 0
  OBVIOUS
<1>2. Got(0) = 1
  BY DraftAssumption DEF Got
<1>3. \A s \in Seats : Neighbor(s) \in Seats
  BY NeighborRing
<1> HIDE DEF h
<1>4. Counted(h)
  <2> SUFFICES ASSUME NEW s \in Seats
               PROVE  /\ Share(h[s], Taken(s), queue[s])
                      /\ h[Neighbor(s)] + Len(queue[Neighbor(s)]) = Got(h[s])
    BY DEF Counted
  <2>1. h[s] = 0 /\ h[Neighbor(s)] = 0 /\ Len(queue[Neighbor(s)]) = 1
    BY <1>1, <1>3
  <2> QED BY <1>2, <2>1
<1> QED BY <1>1, <1>4 DEF Shares

LEMMA InitIInv == Init => IInv
<1> SUFFICES ASSUME Init PROVE IInv
  OBVIOUS
<1> USE DraftAssumption
<1>1. \A s \in Seats : \E p \in Seq(Cards) : Len(p) = PackSize /\ queue[s] = <<Fresh(p)>>
  BY DEF Init
<1>2. \A s \in Seats :
        /\ queue[s] \in Seq(OpenPacks) /\ Len(queue[s]) = 1 /\ queue[s] # <<>>
        /\ Full(queue[s][1]) /\ Share(0, 0, queue[s])
  <2> TAKE s \in Seats
  <2> PICK p \in Seq(Cards) : Len(p) = PackSize /\ queue[s] = <<Fresh(p)>>
    BY <1>1
  <2> DEFINE q == <<Fresh(p)>>
  <2>1. q # <<>> OBVIOUS
  <2>2. q \in Seq(OpenPacks) /\ Len(q) = 1 /\ q[1] = Fresh(p) /\ Full(Fresh(p))
        /\ Share(0, 0, q)
    BY FirstShare
  <2> HIDE DEF q
  <2>3. queue[s] = q
    BY DEF q
  <2> QED BY <2>1, <2>2, <2>3
<1>3. \A s \in Seats : picked[s] = <<>> /\ Len(picked[s]) = 0
  BY EmptySeq DEF Init
<1>4. round = 1 /\ (round - 1) * PackSize = 0
  BY DEF Init
<1>5. \A s \in Seats : Taken(s) = 0 /\ Number(s) = 1
  BY <1>3, <1>4 DEF Taken, Number
<1>6. Shares
  BY <1>2, <1>4, <1>5, FirstCounts
<1>7. queue \in [Seats -> Seq(OpenPacks)]
  BY <1>2 DEF Init
<1>8. Blank \in Views /\ Blank.pack = <<>> /\ Blank.number = 1 /\ Blank.round = 1
  BY EmptySeq DEF Blank, Views
<1>9. /\ picked \in [Seats -> Seq(Cards)] /\ sent \in [Humans -> Seq(Picks)]
      /\ \A s \in Humans : Len(sent[s]) = 0
  <2>1. <<>> \in Seq(Cards) /\ <<>> \in Seq(Picks) /\ Len(<<>>) = 0
    BY EmptySeq
  <2> QED BY <2>1 DEF Init
<1>11. \A s \in Seats : StateOf(s) \in Views
  <2> TAKE s \in Seats
  <2>1. StateOf(s).pack \in Seq(Cards)
    <3>1. queue[s] # <<>> /\ Head(queue[s]) = queue[s][1] /\ queue[s][1] \in OpenPacks
      BY <1>2, HeadTailProperties, ElementOfSeq
    <3> QED BY <3>1 DEF StateOf, OpenPacks
  <2> QED BY <1>3, <1>4, <2>1 DEF StateOf, Views
<1>12. /\ inbox \in [Peers -> Seq(Views)]
       /\ \A s \in Peers : Len(inbox[s]) = 1 /\ inbox[s][1] = StateOf(s) /\ inbox[s] # <<>>
  <2>1. \A s \in Peers : inbox[s] = <<StateOf(s)>> /\ StateOf(s) \in Views
    BY <1>11, SeatFacts DEF Init
  <2>2. \A v \in Views : <<v>> \in Seq(Views) /\ Len(<<v>>) = 1 /\ <<v>>[1] = v
                         /\ <<v>> # <<>>
    OBVIOUS
  <2>3. inbox \in [Peers -> Seq(Views)]
    <3>1. inbox = [s \in Peers |-> <<StateOf(s)>>]
      BY DEF Init
    <3> QED BY <2>1, <2>2, <3>1
  <2> QED BY <2>1, <2>2, <2>3
<1>13. /\ view \in [Humans -> Views] /\ view[0] = StateOf(0)
       /\ \A s \in Peers : view[s] = Blank
  <2>1. 0 \in Humans /\ Peers \subseteq Humans /\ 0 \notin Peers /\ 0 \in Seats
    BY SeatFacts
  <2>2. view = [s \in Humans |-> IF s = 0 THEN StateOf(0) ELSE Blank]
    BY DEF Init
  <2> QED BY <1>8, <1>11, <2>1, <2>2
<1>14. Types
  <2>1. /\ round \in 1..Rounds
        /\ phase \in {"idle", "head", "sweep"} /\ cursor \in 0..PodSize
        /\ progress \in BOOLEAN /\ active \in BOOLEAN
        /\ spare \in 0..MaxSpare /\ lost \in 0..MaxLost
    <3>1. /\ round = 1 /\ phase = "idle" /\ cursor = 0 /\ spare = 0 /\ lost = 0
          /\ progress = FALSE /\ active = TRUE
      BY Zenon DEF Init
    <3>2. 1 \in 1..Rounds /\ 0 \in 0..PodSize /\ 0 \in 0..MaxSpare /\ 0 \in 0..MaxLost
      OBVIOUS
    <3> QED BY <3>1, <3>2
  <2>2. /\ pending \in [Humans -> Cards \cup {NoCard}]
        /\ waiting \in [Humans -> BOOLEAN] /\ done \in [Humans -> BOOLEAN]
        /\ chosen \in [Humans -> [Numbers -> SUBSET Cards]]
    BY DEF Init
  <2> QED BY <1>7, <1>9, <1>12, <1>13, <2>1, <2>2 DEF Types
<1>15. PacksReady
  <2>1. \A s \in Seats : \A i \in 2..Len(queue[s]) : FALSE
    <3>1. \A i \in 2..1 : FALSE OBVIOUS
    <3>2. \A s \in Seats : 2..Len(queue[s]) = 2..1
      BY <1>2
    <3> QED BY <3>1, <3>2
  <2> QED BY <1>2, <2>1 DEF PacksReady
<1>16. \A s \in Seats : ViewFits(StateOf(s), round, Number(s), queue[s])
  BY <1>2, <1>6, <1>14, StateFits
<1>17. ViewsFit
  <2>1. \A s \in Humans : s \in Seats /\ (s = 0 \/ s \in Peers)
    BY SeatFacts DEF Peers
  <2>2. \A s \in Seats : ViewFits(Blank, round, Number(s), queue[s])
    BY <1>4, <1>5, <1>8 DEF ViewFits, Before
  <2> QED BY <1>13, <1>16, <2>1, <2>2 DEF ViewsFit
<1>18. MailFits
  <2>1. \A s \in Peers : s \in Seats /\ \A i \in 1..Len(inbox[s]) : inbox[s][i] = StateOf(s)
    BY <1>12, SeatFacts
  <2> QED BY <1>16, <2>1 DEF MailFits
<1>19. SentsFit
  BY <1>9 DEF SentsFit
<1>20. PendingsFit
  BY DEF PendingsFit, PendingFits, Init
<1>21. ShownLast
  BY <1>12, <1>13 DEF ShownLast
<1>22. PickOut
  BY SeatFacts DEF PickOut, Init
<1>23. Running
  <2>1. \A s \in Peers : StateOf(s) # Completed
    BY <1>14, StateTyped, SeatFacts
  <2>2. \A s \in Peers : \A i \in 1..Len(inbox[s]) : inbox[s][i] = StateOf(s)
    BY <1>12
  <2> QED BY <2>1, <2>2 DEF Running, Init
<1> QED BY <1>6, <1>14, <1>15, <1>17, <1>18, <1>19, <1>20, <1>21, <1>22, <1>23
        DEF IInv

-----------------------------------------------------------------------------
(* What a step keeps that leaves the packs alone                              *)

LEMMA SharesKept ==
    ASSUME Shares, UNCHANGED <<round, queue, picked>>
    PROVE  Shares'
BY DEF Shares, Counted, Taken, Neighbor, Got

LEMMA StateKept ==
    ASSUME UNCHANGED <<round, queue, picked>>
    PROVE  \A s : StateOf(s)' = StateOf(s) /\ Number(s)' = Number(s)
BY DEF StateOf, Number, NoPacks

LEMMA PacksKept ==
    ASSUME PacksReady, phase # "sweep", UNCHANGED queue
    PROVE  PacksReady'
BY DEF PacksReady

LEMMA ViewsKept ==
    ASSUME ViewsFit, UNCHANGED <<round, queue, picked, view>>
    PROVE  ViewsFit'
BY DEF ViewsFit, Number

LEMMA MailKept ==
    ASSUME MailFits, UNCHANGED <<round, queue, picked, inbox>>
    PROVE  MailFits'
BY DEF MailFits, Number

LEMMA SentsKept ==
    ASSUME SentsFit, UNCHANGED <<round, queue, picked, sent, chosen>>
    PROVE  SentsFit'
BY DEF SentsFit, Number

LEMMA PendingsKept ==
    ASSUME PendingsFit, UNCHANGED <<queue, picked, pending, chosen>>
    PROVE  PendingsFit'
BY DEF PendingsFit, Number

(* The first of a queue goes: what is left was in it.                         *)
LEMMA FirstGone ==
    ASSUME NEW S, NEW q \in Seq(S), q # <<>>
    PROVE  /\ Tail(q) \in Seq(S) /\ Len(Tail(q)) = Len(q) - 1
           /\ Len(q) \in Nat /\ Len(q) >= 1 /\ Head(q) = q[1] /\ q[1] \in S
           /\ \A i \in 1..Len(Tail(q)) : Tail(q)[i] = q[i + 1] /\ i + 1 \in 1..Len(q)
           /\ Tail(q) = <<>> => Len(q) = 1
           /\ Tail(q) # <<>> =>
                 Tail(q)[Len(Tail(q))] = q[Len(q)] /\ Len(q) >= 2
<1>1. /\ Tail(q) \in Seq(S) /\ Len(Tail(q)) = Len(q) - 1 /\ Head(q) = q[1]
      /\ q[1] \in S
      /\ \A i \in 1..(Len(q) - 1) : Tail(q)[i] = q[i + 1]
  BY HeadTailProperties, ElementOfSeq, LenProperties
<1>2. Len(q) \in Nat /\ Len(q) >= 1
  BY EmptySeq, LenProperties
<1>3. Tail(q) = <<>> <=> Len(Tail(q)) = 0
  BY <1>1, EmptySeq
<1> QED BY <1>1, <1>2, <1>3

LEMMA OneMore ==
    ASSUME NEW S, NEW q \in Seq(S), NEW e \in S
    PROVE  /\ Append(q, e) \in Seq(S) /\ Len(Append(q, e)) = Len(q) + 1
           /\ Len(q) \in Nat /\ Append(q, e) # <<>>
           /\ Append(q, e)[Len(Append(q, e))] = e
           /\ \A i \in 1..Len(Append(q, e)) :
                 \/ i \in 1..Len(q) /\ Append(q, e)[i] = q[i]
                 \/ Append(q, e)[i] = e
<1>1. /\ Append(q, e) \in Seq(S) /\ Len(Append(q, e)) = Len(q) + 1
      /\ \A i \in 1..Len(q) : Append(q, e)[i] = q[i]
      /\ Append(q, e)[Len(q) + 1] = e
  BY AppendProperties
<1>2. Len(q) \in Nat
  BY LenProperties
<1>3. Append(q, e) # <<>>
  BY <1>1, <1>2, EmptySeq
<1> QED BY <1>1, <1>2, <1>3

-----------------------------------------------------------------------------
(* People and their connections                                               *)

LEMMA PickStep ==
    ASSUME IInv, NEW s \in Humans, NEW c \in Cards, Pick(s, c), phase = "idle"
    PROVE  IInv'
<1> DEFINE v == view[s]
           n == view[s].number
           e == [card |-> c, round |-> view[s].round, number |-> view[s].number]
<1>1. /\ CanPick(s) /\ c \in ToSet(view[s].pack)
      /\ chosen[s][n] # {} => spare < MaxSpare
      /\ spare' = IF chosen[s][n] # {} THEN spare + 1 ELSE spare
      /\ chosen' = [chosen EXCEPT ![s][n] = @ \cup {c}]
      /\ sent' = [sent EXCEPT ![s] = Append(@, e)]
      /\ waiting' = [waiting EXCEPT ![s] = TRUE]
      /\ UNCHANGED <<podVars, active, inbox, view, done, lost>>
  BY DEF Pick
<1>2. UNCHANGED <<round, queue, picked, pending, phase, cursor, progress>>
  BY <1>1 DEF podVars
<1>3. Types /\ PacksReady /\ ViewsFit /\ MailFits /\ SentsFit /\ PendingsFit
      /\ Shares /\ ShownLast /\ PickOut /\ Running
  BY DEF IInv
<1>4. s \in Seats /\ v \in Views /\ v.pack \in Seq(Cards) /\ v.pack # <<>>
      /\ ~done[s] /\ ViewFits(v, round, Number(s), queue[s])
  BY <1>1, <1>3, SeatFacts DEF CanPick, Types, Views, ViewsFit
<1>5. n \in Numbers /\ v.round \in 1..Rounds /\ Before(v, round, Number(s))
  BY <1>4 DEF ViewFits, Views
<1>6. e \in Picks /\ e.card = c /\ e.round = v.round /\ e.number = n
  BY <1>5 DEF Picks
<1>7. chosen \in [Humans -> [Numbers -> SUBSET Cards]]
  BY <1>3 DEF Types
<1>8. /\ chosen' \in [Humans -> [Numbers -> SUBSET Cards]]
      /\ \A u \in Humans, m \in Numbers : chosen[u][m] \subseteq chosen'[u][m]
      /\ c \in chosen'[s][n]
  <2> DEFINE f == [chosen[s] EXCEPT ![n] = @ \cup {c}]
  <2>1. chosen' = [chosen EXCEPT ![s] = f]
    BY <1>1
  <2>2. f \in [Numbers -> SUBSET Cards] /\ c \in f[n]
        /\ \A m \in Numbers : chosen[s][m] \subseteq f[m]
    BY <1>5, <1>7
  <2> HIDE DEF f
  <2> QED BY <1>7, <2>1, <2>2
<1> HIDE DEF v, n, e
<1>9. sent \in [Humans -> Seq(Picks)]
  BY <1>3 DEF Types
<1>10. /\ sent' \in [Humans -> Seq(Picks)]
       /\ sent'[s] = Append(sent[s], e)
       /\ \A u \in Humans : u # s => sent'[u] = sent[u]
  <2>1. Append(sent[s], e) \in Seq(Picks)
    BY <1>6, <1>9, OneMore
  <2> QED BY <1>1, <1>9, <2>1
<1>11. /\ waiting' \in [Humans -> BOOLEAN]
       /\ \A u \in Humans : u # s => waiting'[u] = waiting[u]
  <2>1. waiting \in [Humans -> BOOLEAN]
    BY <1>3 DEF Types
  <2> QED BY <1>1, <2>1
<1>12. spare' \in 0..MaxSpare
  <2>1. spare \in 0..MaxSpare /\ MaxSpare \in Nat
    BY <1>3, DraftAssumption DEF Types
  <2> QED BY <1>1, <2>1
<1>13. Types'
  BY <1>1, <1>2, <1>3, <1>8, <1>10, <1>11, <1>12 DEF Types
<1>14. PacksReady' /\ ViewsFit' /\ MailFits' /\ Shares'
  BY <1>1, <1>2, <1>3, PacksKept, ViewsKept, MailKept, SharesKept
<1>15. \A u \in Seats : Number(u)' = Number(u) /\ StateOf(u)' = StateOf(u)
  BY <1>2, StateKept
<1>16. \A u \in Humans : \A i \in 1..Len(sent[u]) :
          /\ sent[u][i] \in Picks /\ sent[u][i].number \in Numbers
          /\ SentFits(sent[u][i], round, Number(u), queue[u], chosen'[u])
  <2> TAKE u \in Humans
  <2> TAKE i \in 1..Len(sent[u])
  <2>1. sent[u][i] \in Picks /\ sent[u][i].number \in Numbers
    <3>1. sent[u][i] \in Picks
      BY <1>9, ElementOfSeq
    <3> QED BY <3>1 DEF Picks
  <2>2. SentFits(sent[u][i], round, Number(u), queue[u], chosen[u])
    BY <1>3 DEF SentsFit
  <2> QED BY <1>8, <2>1, <2>2 DEF SentFits
<1>17. SentFits(e, round, Number(s), queue[s], chosen'[s])
  <2>1. Before(e, round, Number(s)) /\ (Now(e, round, Number(s)) => Now(v, round, Number(s)))
    BY <1>5, <1>6 DEF Before, Now, n, v
  <2>2. Now(e, round, Number(s)) => Holds(queue[s], c)
    BY <1>1, <1>4, <2>1 DEF ViewFits, Holds, v
  <2> QED BY <1>6, <1>8, <2>1, <2>2 DEF SentFits
<1>18. SentsFit'
  <2> SUFFICES ASSUME NEW u \in Humans, NEW i \in 1..Len(sent'[u])
               PROVE  SentFits(sent'[u][i], round, Number(u), queue[u], chosen'[u])
    BY <1>2, <1>15, SeatFacts DEF SentsFit
  <2>1. CASE u = s
    <3>1. \/ i \in 1..Len(sent[s]) /\ sent'[s][i] = sent[s][i]
          \/ sent'[s][i] = e
      BY <1>6, <1>9, <1>10, <2>1, OneMore
    <3> QED BY <1>16, <1>17, <2>1, <3>1
  <2>2. CASE u # s
    BY <1>10, <1>16, <2>2
  <2> QED BY <2>1, <2>2
<1>19. PendingsFit'
  <2> SUFFICES ASSUME NEW u \in Humans
               PROVE  PendingFits(pending[u], Number(u), queue[u], chosen'[u])
    BY <1>2, <1>15, SeatFacts DEF PendingsFit
  <2>1. PendingFits(pending[u], Number(u), queue[u], chosen[u])
    BY <1>3 DEF PendingsFit
  <2> QED BY <1>8, <2>1 DEF PendingFits
<1>20. ShownLast'
  BY <1>1, <1>2, <1>3, <1>15, SeatFacts DEF ShownLast
<1>21. PickOut'
  <2>1. sent'[s] # <<>> /\ sent'[s][Len(sent'[s])] = e
    BY <1>6, <1>9, <1>10, OneMore
  <2> SUFFICES ASSUME active
               PROVE  /\ waiting'[0] => sent'[0] # <<>>
                      /\ lost = 0 => \A u \in Peers :
                           waiting'[u] /\ inbox[u] = <<>> =>
                             \/ pending[u] # NoCard
                             \/ /\ sent'[u] # <<>>
                                /\ Now(sent'[u][Len(sent'[u])], round, Number(u))
    BY <1>1, <1>2, <1>15, SeatFacts DEF PickOut
  <2>2. waiting'[0] => sent'[0] # <<>>
    BY <1>3, <1>10, <1>11, <2>1, SeatFacts DEF PickOut
  <2>3. ASSUME lost = 0, NEW u \in Peers, waiting'[u], inbox[u] = <<>>
        PROVE  \/ pending[u] # NoCard
               \/ /\ sent'[u] # <<>>
                  /\ Now(sent'[u][Len(sent'[u])], round, Number(u))
    <3>1. CASE u = s
      <4>1. view[s] = StateOf(s)
        BY <1>3, <2>3, <3>1 DEF ShownLast
      <4>2. Now(e, round, Number(s))
        BY <1>3, <1>4, <1>6, <4>1, StateTyped DEF Now, n, v
      <4> QED BY <2>1, <3>1, <4>2
    <3>2. CASE u # s
      BY <1>3, <1>10, <1>11, <2>3, <3>2, SeatFacts DEF PickOut
    <3> QED BY <3>1, <3>2
  <2> QED BY <2>2, <2>3
<1>22. Running'
  BY <1>1, <1>2, <1>3 DEF Running
<1> QED BY <1>13, <1>14, <1>18, <1>19, <1>20, <1>21, <1>22 DEF IInv

(* A pick is lost, or dropped.                                                *)
LEMMA SentGone ==
    ASSUME Types, SentsFit, NEW s \in Humans, sent[s] # <<>>,
           sent' = [sent EXCEPT ![s] = Tail(@)],
           UNCHANGED <<round, queue, picked, chosen>>
    PROVE  sent' \in [Humans -> Seq(Picks)] /\ SentsFit'
<1>1. sent \in [Humans -> Seq(Picks)]
  BY DEF Types
<1>2. /\ Tail(sent[s]) \in Seq(Picks)
      /\ \A i \in 1..Len(Tail(sent[s])) :
            Tail(sent[s])[i] = sent[s][i + 1] /\ i + 1 \in 1..Len(sent[s])
  BY <1>1, FirstGone
<1>3. /\ sent' \in [Humans -> Seq(Picks)] /\ sent'[s] = Tail(sent[s])
      /\ \A u \in Humans : u # s => sent'[u] = sent[u]
  BY <1>1, <1>2
<1>4. SentsFit'
  <2> SUFFICES ASSUME NEW u \in Humans, NEW i \in 1..Len(sent'[u])
               PROVE  SentFits(sent'[u][i], round, Number(u), queue[u], chosen[u])
    BY DEF SentsFit, Number
  <2>1. CASE u = s
    BY <1>2, <1>3, <2>1 DEF SentsFit
  <2>2. CASE u # s
    BY <1>3, <2>2 DEF SentsFit
  <2> QED BY <2>1, <2>2
<1> QED BY <1>3, <1>4

LEMMA LosePickStep ==
    ASSUME IInv, NEW s \in Peers, LosePick(s), phase = "idle"
    PROVE  IInv'
<1>1. /\ sent[s] # <<>> /\ lost < MaxLost /\ lost' = lost + 1
      /\ sent' = [sent EXCEPT ![s] = Tail(@)]
      /\ UNCHANGED <<round, queue, picked, pending, phase, cursor, progress,
                     active, inbox, view, waiting, done, chosen, spare>>
  BY DEF LosePick, podVars, clientVars
<1>2. Types /\ PacksReady /\ ViewsFit /\ MailFits /\ SentsFit /\ PendingsFit
      /\ Shares /\ ShownLast /\ PickOut /\ Running
  BY DEF IInv
<1>3. s \in Humans /\ s # 0 /\ 0 \in Humans
  BY SeatFacts
<1>4. sent' \in [Humans -> Seq(Picks)] /\ SentsFit'
  BY <1>1, <1>2, <1>3, SentGone
<1>5. lost \in Nat /\ lost' \in 0..MaxLost /\ lost' # 0
  BY <1>1, <1>2, DraftAssumption DEF Types
<1>6. Types'
  BY <1>1, <1>2, <1>4, <1>5 DEF Types
<1>7. PacksReady' /\ ViewsFit' /\ MailFits' /\ PendingsFit' /\ Shares'
  BY <1>1, <1>2, PacksKept, ViewsKept, MailKept, PendingsKept, SharesKept
<1>8. ShownLast'
  BY <1>1, <1>2, <1>5, StateKept DEF ShownLast
<1>9. PickOut'
  <2>1. sent'[0] = sent[0]
    BY <1>1, <1>2, <1>3 DEF Types
  <2> QED BY <1>1, <1>2, <1>5, <2>1 DEF PickOut
<1>10. Running'
  BY <1>1, <1>2 DEF Running
<1> QED BY <1>4, <1>6, <1>7, <1>8, <1>9, <1>10 DEF IInv

(* A message is lost, or arrives.                                             *)
LEMMA MailGone ==
    ASSUME Types, MailFits, Running, NEW s \in Peers, inbox[s] # <<>>,
           inbox' = [inbox EXCEPT ![s] = Tail(@)],
           UNCHANGED <<round, queue, picked, active>>
    PROVE  /\ inbox' \in [Peers -> Seq(Views)] /\ MailFits'
           /\ inbox[s] \in Seq(Views) /\ inbox'[s] = Tail(inbox[s])
           /\ \A u \in Peers : u # s => inbox'[u] = inbox[u]
           /\ active => \A u \in Peers : \A i \in 1..Len(inbox'[u]) :
                           inbox'[u][i] # Completed
<1>1. inbox \in [Peers -> Seq(Views)]
  BY DEF Types
<1>2. /\ Tail(inbox[s]) \in Seq(Views)
      /\ \A i \in 1..Len(Tail(inbox[s])) :
            Tail(inbox[s])[i] = inbox[s][i + 1] /\ i + 1 \in 1..Len(inbox[s])
  BY <1>1, FirstGone
<1>3. /\ inbox' \in [Peers -> Seq(Views)] /\ inbox'[s] = Tail(inbox[s])
      /\ \A u \in Peers : u # s => inbox'[u] = inbox[u]
  BY <1>1, <1>2
<1>4. ASSUME NEW u \in Peers, NEW i \in 1..Len(inbox'[u])
      PROVE  \E j \in 1..Len(inbox[u]) : inbox'[u][i] = inbox[u][j]
  <2>1. CASE u = s
    BY <1>2, <1>3, <1>4, <2>1
  <2>2. CASE u # s
    BY <1>3, <1>4, <2>2
  <2> QED BY <2>1, <2>2
<1>5. MailFits'
  <2> SUFFICES ASSUME NEW u \in Peers, NEW i \in 1..Len(inbox'[u])
               PROVE  ViewFits(inbox'[u][i], round, Number(u), queue[u])
    BY DEF MailFits, Number
  <2> QED BY <1>4 DEF MailFits
<1>6. active => \A u \in Peers : \A i \in 1..Len(inbox'[u]) : inbox'[u][i] # Completed
  BY <1>4 DEF Running
<1> QED BY <1>1, <1>3, <1>5, <1>6

LEMMA LoseMessageStep ==
    ASSUME IInv, NEW s \in Peers, LoseMessage(s), phase = "idle"
    PROVE  IInv'
<1>1. /\ inbox[s] # <<>> /\ lost < MaxLost /\ lost' = lost + 1
      /\ inbox' = [inbox EXCEPT ![s] = Tail(@)]
      /\ UNCHANGED <<round, queue, picked, pending, phase, cursor, progress,
                     active, sent, view, waiting, done, chosen, spare>>
  BY DEF LoseMessage, podVars, clientVars
<1>2. Types /\ PacksReady /\ ViewsFit /\ MailFits /\ SentsFit /\ PendingsFit
      /\ Shares /\ ShownLast /\ PickOut /\ Running
  BY DEF IInv
<1>3. /\ inbox' \in [Peers -> Seq(Views)] /\ MailFits'
      /\ active => \A u \in Peers : \A i \in 1..Len(inbox'[u]) :
                      inbox'[u][i] # Completed
  BY <1>1, <1>2, MailGone
<1>4. lost \in Nat /\ lost' \in 0..MaxLost /\ lost' # 0
  BY <1>1, <1>2, DraftAssumption DEF Types
<1>5. Types'
  BY <1>1, <1>2, <1>3, <1>4 DEF Types
<1>6. PacksReady' /\ ViewsFit' /\ SentsFit' /\ PendingsFit' /\ Shares'
  BY <1>1, <1>2, PacksKept, ViewsKept, SentsKept, PendingsKept, SharesKept
<1>7. ShownLast'
  BY <1>1, <1>2, <1>4, StateKept DEF ShownLast
<1>8. PickOut'
  BY <1>1, <1>2, <1>4 DEF PickOut
<1>9. Running'
  BY <1>1, <1>2, <1>3 DEF Running
<1> QED BY <1>3, <1>5, <1>6, <1>7, <1>8, <1>9 DEF IInv

LEMMA DeliverStep ==
    ASSUME IInv, NEW s \in Peers, Deliver(s), phase = "idle"
    PROVE  IInv'
<1> DEFINE m == Head(inbox[s])
<1>1. /\ inbox[s] # <<>>
      /\ inbox' = [inbox EXCEPT ![s] = Tail(@)]
      /\ IF m = Completed
         THEN done' = [done EXCEPT ![s] = TRUE] /\ view' = view
         ELSE view' = [view EXCEPT ![s] = m] /\ done' = done
      /\ waiting' = [waiting EXCEPT ![s] = FALSE]
      /\ UNCHANGED <<round, queue, picked, pending, phase, cursor, progress,
                     active, sent, chosen, spare, lost>>
  BY DEF Deliver, podVars, faultVars
<1>2. Types /\ PacksReady /\ ViewsFit /\ MailFits /\ SentsFit /\ PendingsFit
      /\ Shares /\ ShownLast /\ PickOut /\ Running
  BY DEF IInv
<1>3. s \in Humans /\ s # 0 /\ 0 \in Humans /\ Peers \subseteq Humans
      /\ s \in Seats /\ Humans \subseteq Seats
  BY SeatFacts
<1>4. /\ inbox' \in [Peers -> Seq(Views)] /\ MailFits'
      /\ inbox[s] \in Seq(Views) /\ inbox'[s] = Tail(inbox[s])
      /\ \A u \in Peers : u # s => inbox'[u] = inbox[u]
      /\ active => \A u \in Peers : \A i \in 1..Len(inbox'[u]) :
                      inbox'[u][i] # Completed
  BY <1>1, <1>2, MailGone
<1>5. m = inbox[s][1] /\ m \in Views /\ Len(inbox[s]) \in Nat /\ Len(inbox[s]) >= 1
      /\ ViewFits(m, round, Number(s), queue[s])
      /\ (active => m # Completed)
  <2>1. m = inbox[s][1] /\ m \in Views /\ Len(inbox[s]) \in Nat /\ Len(inbox[s]) >= 1
    BY <1>1, <1>4, FirstGone
  <2>2. 1 \in 1..Len(inbox[s])
    BY <2>1
  <2> QED BY <1>2, <2>1, <2>2 DEF MailFits, Running
<1> HIDE DEF m
<1>6. /\ view \in [Humans -> Views] /\ done \in [Humans -> BOOLEAN]
      /\ waiting \in [Humans -> BOOLEAN]
  BY <1>2 DEF Types
<1>7. /\ view' \in [Humans -> Views] /\ view'[s] \in {view[s], m}
      /\ \A u \in Humans : u # s => view'[u] = view[u]
      /\ m # Completed => view'[s] = m
  BY <1>1, <1>3, <1>5, <1>6
<1>8. done' \in [Humans -> BOOLEAN] /\ (active => done' = done)
  BY <1>1, <1>5, <1>6
<1>9. /\ waiting' \in [Humans -> BOOLEAN] /\ ~waiting'[s]
      /\ \A u \in Humans : u # s => waiting'[u] = waiting[u]
  BY <1>1, <1>3, <1>6
<1>10. Types'
  BY <1>1, <1>2, <1>4, <1>7, <1>8, <1>9 DEF Types
<1>11. PacksReady' /\ SentsFit' /\ PendingsFit' /\ Shares'
  BY <1>1, <1>2, PacksKept, SentsKept, PendingsKept, SharesKept
<1>12. ViewsFit'
  <2> SUFFICES ASSUME NEW u \in Humans
               PROVE  ViewFits(view'[u], round, Number(u), queue[u])
    BY <1>1 DEF ViewsFit, Number
  <2> QED BY <1>2, <1>5, <1>7 DEF ViewsFit
<1>13. ShownLast'
  <2> SUFFICES ASSUME active
               PROVE  /\ view'[0] = StateOf(0)
                      /\ lost = 0 => \A u \in Peers :
                          /\ inbox'[u] = <<>> => view'[u] = StateOf(u)
                          /\ inbox'[u] # <<>> =>
                                inbox'[u][Len(inbox'[u])] = StateOf(u)
    BY <1>1, StateKept DEF ShownLast
  <2>1. view'[0] = StateOf(0)
    BY <1>2, <1>3, <1>7 DEF ShownLast
  <2>2. ASSUME lost = 0, NEW u \in Peers
        PROVE  /\ inbox'[u] = <<>> => view'[u] = StateOf(u)
               /\ inbox'[u] # <<>> => inbox'[u][Len(inbox'[u])] = StateOf(u)
    <3>1. CASE u = s
      <4>1. inbox[s][Len(inbox[s])] = StateOf(s)
        BY <1>1, <1>2, <2>2 DEF ShownLast
      <4>2. /\ inbox'[s] = <<>> => Len(inbox[s]) = 1
            /\ inbox'[s] # <<>> => inbox'[s][Len(inbox'[s])] = inbox[s][Len(inbox[s])]
        BY <1>1, <1>4, FirstGone
      <4> QED BY <1>5, <1>7, <3>1, <4>1, <4>2
    <3>2. CASE u # s
      BY <1>2, <1>3, <1>4, <1>7, <2>2, <3>2 DEF ShownLast
    <3> QED BY <3>1, <3>2
  <2> QED BY <2>1, <2>2
<1>14. PickOut'
  <2> SUFFICES ASSUME active
               PROVE  /\ waiting'[0] => sent[0] # <<>>
                      /\ lost = 0 => \A u \in Peers :
                           waiting'[u] /\ inbox'[u] = <<>> =>
                             \/ pending[u] # NoCard
                             \/ /\ sent[u] # <<>>
                                /\ Now(sent[u][Len(sent[u])], round, Number(u))
    BY <1>1, StateKept DEF PickOut
  <2> QED BY <1>1, <1>2, <1>3, <1>4, <1>9 DEF PickOut
<1>15. Running'
  BY <1>1, <1>2, <1>4, <1>8 DEF Running
<1> QED BY <1>4, <1>10, <1>11, <1>12, <1>13, <1>14, <1>15 DEF IInv

-----------------------------------------------------------------------------
(* The host takes a pick                                                      *)

LEMMA DropStaleStep ==
    ASSUME IInv, NEW s \in Humans, DropStale(s)
    PROVE  IInv'
<1> DEFINE e == Head(sent[s])
<1>1. /\ active /\ phase = "idle" /\ sent[s] # <<>>
      /\ ~Now(e, round, Number(s))
      /\ sent' = [sent EXCEPT ![s] = Tail(@)]
      /\ waiting' = IF s = 0 THEN [waiting EXCEPT ![0] = FALSE] ELSE waiting
      /\ UNCHANGED <<round, queue, picked, pending, phase, cursor, progress,
                     active, inbox, view, done, chosen, spare, lost>>
  BY DEF DropStale, TakesNext, Stale, Now, Number, podVars, faultVars
<1>2. Types /\ PacksReady /\ ViewsFit /\ MailFits /\ SentsFit /\ PendingsFit
      /\ Shares /\ ShownLast /\ PickOut /\ Running
  BY DEF IInv
<1>3. 0 \in Humans /\ Peers \subseteq Humans /\ 0 \notin Peers
  BY SeatFacts
<1>4. sent' \in [Humans -> Seq(Picks)] /\ SentsFit'
  BY <1>1, <1>2, SentGone
<1>5. /\ waiting' \in [Humans -> BOOLEAN]
      /\ s = 0 => ~waiting'[0]
      /\ \A u \in Humans : u # 0 \/ s # 0 => waiting'[u] = waiting[u]
  BY <1>1, <1>2, <1>3 DEF Types
<1>6. Types'
  BY <1>1, <1>2, <1>4, <1>5 DEF Types
<1>7. PacksReady' /\ ViewsFit' /\ MailFits' /\ PendingsFit' /\ Shares'
  BY <1>1, <1>2, PacksKept, ViewsKept, MailKept, PendingsKept, SharesKept
<1>8. ShownLast'
  BY <1>1, <1>2, StateKept DEF ShownLast
<1>9. PickOut'
  <2>1. sent[s] \in Seq(Picks) /\ e = sent[s][1]
    BY <1>1, <1>2, FirstGone DEF Types
  <2>2. sent'[s] = Tail(sent[s]) /\ \A u \in Humans : u # s => sent'[u] = sent[u]
    BY <1>1, <1>2 DEF Types
  <2>3. Now(sent[s][Len(sent[s])], round, Number(s)) =>
           sent'[s] # <<>> /\ sent'[s][Len(sent'[s])] = sent[s][Len(sent[s])]
    BY <1>1, <2>1, <2>2, FirstGone
  <2> HIDE DEF e
  <2> SUFFICES /\ waiting'[0] => sent'[0] # <<>>
               /\ lost = 0 => \A u \in Peers :
                    waiting'[u] /\ inbox[u] = <<>> =>
                      \/ pending[u] # NoCard
                      \/ /\ sent'[u] # <<>>
                         /\ Now(sent'[u][Len(sent'[u])], round, Number(u))
    BY <1>1, StateKept DEF PickOut
  <2>4. waiting'[0] => sent'[0] # <<>>
    BY <1>1, <1>2, <1>3, <1>5, <2>2 DEF PickOut
  <2>5. ASSUME lost = 0, NEW u \in Peers, waiting'[u], inbox[u] = <<>>
        PROVE  \/ pending[u] # NoCard
               \/ /\ sent'[u] # <<>>
                  /\ Now(sent'[u][Len(sent'[u])], round, Number(u))
    <3>1. \/ pending[u] # NoCard
          \/ sent[u] # <<>> /\ Now(sent[u][Len(sent[u])], round, Number(u))
      BY <1>1, <1>2, <1>3, <1>5, <2>5 DEF PickOut
    <3> QED BY <1>3, <2>2, <2>3, <3>1
  <2> QED BY <2>4, <2>5
<1>10. Running'
  BY <1>1, <1>2 DEF Running
<1> QED BY <1>4, <1>6, <1>7, <1>8, <1>9, <1>10 DEF IInv

LEMMA SubmitStep ==
    ASSUME IInv, NEW s \in Humans, Submit(s)
    PROVE  IInv'
<1> DEFINE e == Head(sent[s])
<1>1. /\ active /\ phase = "idle" /\ sent[s] # <<>>
      /\ Now(e, round, Number(s))
      /\ sent' = [sent EXCEPT ![s] = Tail(@)]
      /\ pending' = [pending EXCEPT ![s] = e.card]
      /\ phase' = "head"
      /\ UNCHANGED <<round, queue, picked, cursor, progress, active, inbox,
                     view, waiting, done, chosen, spare, lost>>
  BY DEF Submit, TakesNext, Stale, Now, Number, clientVars, faultVars
<1>2. Types /\ PacksReady /\ ViewsFit /\ MailFits /\ SentsFit /\ PendingsFit
      /\ Shares /\ ShownLast /\ PickOut /\ Running
  BY DEF IInv
<1>3. sent' \in [Humans -> Seq(Picks)] /\ SentsFit'
  BY <1>1, <1>2, SentGone
<1>4. e \in Picks /\ SentFits(e, round, Number(s), queue[s], chosen[s])
  <2>1. /\ sent[s] \in Seq(Picks) /\ e = sent[s][1] /\ e \in Picks
        /\ Len(sent[s]) \in Nat /\ Len(sent[s]) >= 1
    BY <1>1, <1>2, FirstGone DEF Types
  <2>2. 1 \in 1..Len(sent[s])
    BY <2>1
  <2> QED BY <1>2, <2>1, <2>2 DEF SentsFit
<1>5. e.card \in Cards /\ e.number = Number(s) /\ Number(s) \in Numbers
      /\ PendingFits(e.card, Number(s), queue[s], chosen[s])
  <2>1. e.card \in Cards /\ e.number \in Numbers /\ e.number = Number(s)
    BY <1>1, <1>4 DEF Picks, Now
  <2> QED BY <1>1, <1>4, <2>1 DEF SentFits, PendingFits
<1> HIDE DEF e
<1>6. /\ pending' \in [Humans -> Cards \cup {NoCard}] /\ pending'[s] = e.card
      /\ \A u \in Humans : u # s => pending'[u] = pending[u]
  BY <1>1, <1>2, <1>5 DEF Types
<1>7. Types'
  BY <1>1, <1>2, <1>3, <1>6 DEF Types
<1>8. PacksReady' /\ ViewsFit' /\ MailFits' /\ Shares'
  BY <1>1, <1>2, PacksKept, ViewsKept, MailKept, SharesKept
<1>9. PendingsFit'
  <2> SUFFICES ASSUME NEW u \in Humans
               PROVE  PendingFits(pending'[u], Number(u), queue[u], chosen[u])
    BY <1>1 DEF PendingsFit, Number
  <2> QED BY <1>2, <1>5, <1>6 DEF PendingsFit
<1>10. ShownLast' /\ PickOut'
  BY <1>1 DEF ShownLast, PickOut
<1>11. Running'
  BY <1>1, <1>2 DEF Running
<1> QED BY <1>3, <1>7, <1>8, <1>9, <1>10, <1>11 DEF IInv

-----------------------------------------------------------------------------
(* A tick returns                                                             *)

LEMMA ReturnStep ==
    ASSUME IInv, Return, phase # "idle",
           \A s \in Seats : queue[s] # <<>> => Full(queue[s][1]),
           UNCHANGED <<round, queue, picked, pending, active, sent, done, chosen,
                       spare, lost>>
    PROVE  IInv'
<1>1. /\ phase' = "idle" /\ cursor' = 0 /\ progress' = FALSE
      /\ inbox' = [s \in Peers |-> Append(inbox[s], StateOf(s))]
      /\ view' = [view EXCEPT ![0] = StateOf(0)]
      /\ waiting' = [waiting EXCEPT ![0] = FALSE]
  BY DEF Return, Show
<1>2. Types /\ PacksReady /\ ViewsFit /\ MailFits /\ SentsFit /\ PendingsFit
      /\ Shares /\ ShownLast /\ PickOut /\ Running
  BY DEF IInv
<1>3. 0 \in Humans /\ 0 \in Seats /\ Humans \subseteq Seats
      /\ Peers \subseteq Seats /\ 0 \notin Peers /\ Peers \subseteq Humans
  BY SeatFacts
<1>4. \A s \in Seats :
        /\ StateOf(s) \in Views /\ StateOf(s) # Completed
        /\ ViewFits(StateOf(s), round, Number(s), queue[s])
        /\ StateOf(s)' = StateOf(s) /\ Number(s)' = Number(s)
  BY <1>2, StateTyped, StateFits, StateKept
<1>5. /\ view' \in [Humans -> Views] /\ view'[0] = StateOf(0)
      /\ \A u \in Humans : u # 0 => view'[u] = view[u]
  BY <1>1, <1>2, <1>3, <1>4 DEF Types
<1>6. waiting' \in [Humans -> BOOLEAN] /\ ~waiting'[0]
  BY <1>1, <1>2, <1>3 DEF Types
<1>7. /\ inbox' \in [Peers -> Seq(Views)]
      /\ \A s \in Peers :
            /\ inbox'[s] # <<>> /\ inbox'[s][Len(inbox'[s])] = StateOf(s)
            /\ \A i \in 1..Len(inbox'[s]) :
                  \/ i \in 1..Len(inbox[s]) /\ inbox'[s][i] = inbox[s][i]
                  \/ inbox'[s][i] = StateOf(s)
  <2>1. inbox \in [Peers -> Seq(Views)]
    BY <1>2 DEF Types
  <2>2. \A s \in Peers :
          /\ Append(inbox[s], StateOf(s)) \in Seq(Views)
          /\ Append(inbox[s], StateOf(s)) # <<>>
          /\ Append(inbox[s], StateOf(s))[Len(Append(inbox[s], StateOf(s)))] = StateOf(s)
          /\ \A i \in 1..Len(Append(inbox[s], StateOf(s))) :
                \/ /\ i \in 1..Len(inbox[s])
                   /\ Append(inbox[s], StateOf(s))[i] = inbox[s][i]
                \/ Append(inbox[s], StateOf(s))[i] = StateOf(s)
    BY <1>3, <1>4, <2>1, OneMore
  <2>3. /\ inbox' \in [Peers -> Seq(Views)]
        /\ \A s \in Peers : inbox'[s] = Append(inbox[s], StateOf(s))
    BY <1>1, <2>2
  <2> QED BY <2>2, <2>3
<1>8. Types'
  <2>1. 0 \in 0..PodSize
    BY SeatFacts
  <2> QED BY <1>1, <1>2, <1>5, <1>6, <1>7, <2>1 DEF Types
<1>9. PacksReady'
  BY <1>2 DEF PacksReady
<1>10. SentsFit' /\ PendingsFit' /\ Shares'
  BY <1>2, SentsKept, PendingsKept, SharesKept
<1>11. ViewsFit'
  <2> SUFFICES ASSUME NEW u \in Humans
               PROVE  ViewFits(view'[u], round, Number(u), queue[u])
    BY DEF ViewsFit, Number
  <2> QED BY <1>2, <1>3, <1>4, <1>5 DEF ViewsFit
<1>12. MailFits'
  <2> SUFFICES ASSUME NEW u \in Peers, NEW i \in 1..Len(inbox'[u])
               PROVE  ViewFits(inbox'[u][i], round, Number(u), queue[u])
    BY DEF MailFits, Number
  <2> QED BY <1>2, <1>3, <1>4, <1>7 DEF MailFits
<1>13. ShownLast'
  BY <1>3, <1>4, <1>5, <1>7 DEF ShownLast
<1>14. PickOut'
  BY <1>6, <1>7 DEF PickOut
<1>15. Running'
  BY <1>1, <1>2, <1>3, <1>4, <1>7 DEF Running
<1> QED BY <1>8, <1>9, <1>10, <1>11, <1>12, <1>13, <1>14, <1>15 DEF IInv

LEMMA AwaitHumansStep == IInv /\ AwaitHumans => IInv'
<1> SUFFICES ASSUME IInv, AwaitHumans PROVE IInv'
  OBVIOUS
<1>1. /\ phase = "head" /\ Return
      /\ UNCHANGED <<round, queue, picked, pending, active, sent, done, chosen,
                     spare, lost>>
  BY DEF AwaitHumans, faultVars
<1>2. \A s \in Seats : queue[s] # <<>> => Full(queue[s][1])
  BY <1>1 DEF IInv, PacksReady
<1> QED BY <1>1, <1>2, ReturnStep

LEMMA AwaitSecondPickStep == IInv /\ AwaitSecondPick => IInv'
<1> SUFFICES ASSUME IInv, AwaitSecondPick PROVE IInv'
  OBVIOUS
<1>1. /\ phase = "sweep" /\ cursor < PodSize /\ MayTake /\ Return
      /\ UNCHANGED <<round, queue, picked, pending, active, sent, done, chosen,
                     spare, lost>>
  BY DEF AwaitSecondPick, AtSeat, faultVars
<1>2. cursor \in Seats
  BY <1>1, SeatFacts DEF IInv, Types, Seats
<1>3. Full(queue[cursor][1])
  <2>1. queue[cursor] # <<>> /\ Head(queue[cursor]) = queue[cursor][1]
    BY <1>1, <1>2, PackFacts DEF IInv, MayTake
  <2> QED BY <1>1, <2>1 DEF MayTake, Pack, Full
<1>4. \A s \in Seats : queue[s] # <<>> => Full(queue[s][1])
  BY <1>3 DEF IInv, PacksReady
<1> QED BY <1>1, <1>4, ReturnStep

(* The tick goes on, and only its phase moves.                                *)
LEMMA PhaseStep ==
    ASSUME IInv, phase # "idle", phase' \in {"head", "sweep"},
           phase = "sweep" => cursor = PodSize,
           cursor' \in 0..PodSize, progress' \in BOOLEAN,
           UNCHANGED <<round, queue, picked, pending, active, sent, inbox, view,
                       waiting, done, chosen, spare, lost>>
    PROVE  IInv'
<1>1. Types /\ PacksReady /\ ViewsFit /\ MailFits /\ SentsFit /\ PendingsFit
      /\ Shares /\ ShownLast /\ PickOut /\ Running
  BY DEF IInv
<1>2. Types'
  <2>1. phase' \in {"idle", "head", "sweep"}
    OBVIOUS
  <2> QED BY <1>1, <2>1 DEF Types
<1>3. PacksReady'
  <2>1. PodSize \notin Seats
    BY SeatFacts DEF Seats
  <2> QED BY <1>1, <2>1 DEF PacksReady
<1>4. ViewsFit' /\ MailFits' /\ SentsFit' /\ PendingsFit' /\ Shares'
  BY <1>1, ViewsKept, MailKept, SentsKept, PendingsKept, SharesKept
<1>5. ShownLast' /\ PickOut'
  BY DEF ShownLast, PickOut
<1>6. Running'
  BY <1>1 DEF Running
<1> QED BY <1>2, <1>3, <1>4, <1>5, <1>6 DEF IInv

LEMMA StartSweepStep == IInv /\ StartSweep => IInv'
<1> SUFFICES ASSUME IInv, StartSweep PROVE IInv'
  OBVIOUS
<1>1. /\ phase = "head" /\ phase' = "sweep"
      /\ UNCHANGED <<round, queue, picked, pending, cursor, progress, active,
                     sent, inbox, view, waiting, done, chosen, spare, lost>>
  BY DEF StartSweep, clientVars, faultVars
<1>2. cursor' \in 0..PodSize /\ progress' \in BOOLEAN
  BY <1>1 DEF IInv, Types
<1> QED BY <1>1, <1>2, PhaseStep

LEMMA NextSweepStep == IInv /\ NextSweep => IInv'
<1> SUFFICES ASSUME IInv, NextSweep PROVE IInv'
  OBVIOUS
<1>1. /\ phase = "sweep" /\ cursor = PodSize
      /\ phase' = "head" /\ cursor' = 0 /\ progress' = FALSE
      /\ UNCHANGED <<round, queue, picked, pending, active, sent, inbox, view,
                     waiting, done, chosen, spare, lost>>
  BY DEF NextSweep, SweepEnds, clientVars, faultVars
<1>2. cursor' \in 0..PodSize
  BY <1>1, SeatFacts
<1> QED BY <1>1, <1>2, PhaseStep

LEMMA FinishStep == IInv /\ Finish => IInv'
<1> SUFFICES ASSUME IInv, Finish PROVE IInv'
  OBVIOUS
<1>1. /\ phase = "sweep" /\ cursor = PodSize /\ NoPacks
      /\ phase' = "idle" /\ cursor' = 0 /\ progress' = FALSE /\ active' = FALSE
      /\ inbox' = [s \in Peers |-> inbox[s] \o <<StateOf(s), Completed>>]
      /\ view' = [view EXCEPT ![0] = StateOf(0)]
      /\ waiting' = [waiting EXCEPT ![0] = FALSE]
      /\ done' = [done EXCEPT ![0] = TRUE]
      /\ UNCHANGED <<round, queue, picked, pending, sent, chosen, spare, lost>>
  BY DEF Finish, SweepEnds, faultVars
<1>2. Types /\ PacksReady /\ ViewsFit /\ MailFits /\ SentsFit /\ PendingsFit
      /\ Shares /\ ShownLast /\ PickOut /\ Running /\ round = Rounds
  BY DEF IInv, Finish
<1>3. 0 \in Humans /\ 0 \in Seats /\ Humans \subseteq Seats
      /\ Peers \subseteq Seats /\ 0 \notin Peers /\ Peers \subseteq Humans
  BY SeatFacts
<1>4. \A s \in Seats : queue[s] = <<>>
  BY <1>1 DEF NoPacks
<1>5. \A s \in Seats :
        /\ StateOf(s) \in Views
        /\ ViewFits(StateOf(s), round, Number(s), queue[s])
  BY <1>2, <1>4, StateTyped, StateFits
<1>6. /\ Completed \in Views
      /\ \A s \in Seats : ViewFits(Completed, round, Number(s), queue[s])
  <2>1. <<>> \in Seq(Cards) /\ Rounds \in 1..Rounds
    BY DraftAssumption, EmptySeq
  <2>2. Completed \in Views /\ Completed.pack = <<>> /\ Completed.number = 0
        /\ Completed.round = Rounds
    BY <2>1 DEF Completed, Views
  <2>3. \A s \in Seats : Number(s) \in Nat /\ round \in Nat
    BY <1>2, PackFacts
  <2> QED BY <1>2, <2>2, <2>3 DEF ViewFits, Before
<1>7. /\ view' \in [Humans -> Views] /\ view'[0] = StateOf(0)
      /\ \A u \in Humans : u # 0 => view'[u] = view[u]
  BY <1>1, <1>2, <1>3, <1>5 DEF Types
<1>8. /\ waiting' \in [Humans -> BOOLEAN] /\ done' \in [Humans -> BOOLEAN]
  BY <1>1, <1>2, <1>3 DEF Types
<1>9. /\ inbox' \in [Peers -> Seq(Views)]
      /\ \A s \in Peers : \A i \in 1..Len(inbox'[s]) :
            \/ i \in 1..Len(inbox[s]) /\ inbox'[s][i] = inbox[s][i]
            \/ inbox'[s][i] \in {StateOf(s), Completed}
  <2>1. inbox \in [Peers -> Seq(Views)]
    BY <1>2 DEF Types
  <2>2. \A v, w \in Views : <<v, w>> \in Seq(Views) /\ Len(<<v, w>>) = 2
                            /\ <<v, w>>[1] = v /\ <<v, w>>[2] = w
    OBVIOUS
  <2>3. ASSUME NEW s \in Peers
        PROVE  LET q == inbox[s] \o <<StateOf(s), Completed>>
               IN  /\ q \in Seq(Views)
                   /\ \A i \in 1..Len(q) :
                        \/ i \in 1..Len(inbox[s]) /\ q[i] = inbox[s][i]
                        \/ q[i] \in {StateOf(s), Completed}
    <3> DEFINE two == <<StateOf(s), Completed>>
               q == inbox[s] \o two
    <3>1. /\ two \in Seq(Views) /\ Len(two) = 2 /\ two[1] = StateOf(s)
          /\ two[2] = Completed
      BY <1>3, <1>5, <1>6, <2>2
    <3> HIDE DEF two
    <3>2. /\ q \in Seq(Views) /\ Len(q) = Len(inbox[s]) + 2
          /\ \A i \in 1..Len(q) : q[i] = IF i <= Len(inbox[s]) THEN inbox[s][i]
                                         ELSE two[i - Len(inbox[s])]
      <4>1. inbox[s] \in Seq(Views)
        BY <2>1
      <4>2. /\ q \in Seq(Views) /\ Len(q) = Len(inbox[s]) + Len(two)
            /\ \A i \in 1..Len(inbox[s]) + Len(two) :
                  q[i] = IF i <= Len(inbox[s]) THEN inbox[s][i]
                         ELSE two[i - Len(inbox[s])]
        BY <3>1, <4>1, ConcatProperties
      <4> HIDE DEF q
      <4> QED BY <3>1, <4>2
    <3> HIDE DEF q
    <3>3. Len(inbox[s]) \in Nat
      BY <2>1, LenProperties
    <3>4. ASSUME NEW i \in 1..Len(q)
          PROVE  \/ i \in 1..Len(inbox[s]) /\ q[i] = inbox[s][i]
                 \/ q[i] \in {StateOf(s), Completed}
      <4>1. CASE i <= Len(inbox[s])
        BY <3>2, <3>3, <4>1
      <4>2. CASE ~(i <= Len(inbox[s]))
        <5>1. i - Len(inbox[s]) \in {1, 2}
          BY <3>2, <3>3, <4>2
        <5> QED BY <3>1, <3>2, <4>2, <5>1
      <4> QED BY <4>1, <4>2
    <3> QED BY <3>2, <3>4 DEF q, two
  <2> DEFINE Q(s) == inbox[s] \o <<StateOf(s), Completed>>
  <2>4. \A s \in Peers :
          /\ Q(s) \in Seq(Views)
          /\ \A i \in 1..Len(Q(s)) :
               \/ i \in 1..Len(inbox[s]) /\ Q(s)[i] = inbox[s][i]
               \/ Q(s)[i] \in {StateOf(s), Completed}
    BY <2>3
  <2>5. inbox' = [s \in Peers |-> Q(s)]
    BY <1>1
  <2> HIDE DEF Q
  <2> QED BY <2>4, <2>5
<1>10. Types'
  <2>1. 0 \in 0..PodSize
    BY SeatFacts
  <2> QED BY <1>1, <1>2, <1>7, <1>8, <1>9, <2>1 DEF Types
<1>11. PacksReady'
  <2>1. \A s \in Seats : \A i \in 2..Len(queue[s]) : FALSE
    <3>1. Len(<<>>) = 0 /\ \A i \in 2..0 : FALSE
      OBVIOUS
    <3> QED BY <1>4, <3>1
  <2> QED BY <1>1, <1>4, <2>1 DEF PacksReady
<1>12. SentsFit' /\ PendingsFit' /\ Shares'
  BY <1>1, <1>2, SentsKept, PendingsKept, SharesKept
<1>13. ViewsFit'
  <2> SUFFICES ASSUME NEW u \in Humans
               PROVE  ViewFits(view'[u], round, Number(u), queue[u])
    BY <1>1 DEF ViewsFit, Number
  <2> QED BY <1>2, <1>3, <1>5, <1>7 DEF ViewsFit
<1>14. MailFits'
  <2> SUFFICES ASSUME NEW u \in Peers, NEW i \in 1..Len(inbox'[u])
               PROVE  ViewFits(inbox'[u][i], round, Number(u), queue[u])
    BY <1>1 DEF MailFits, Number
  <2> QED BY <1>2, <1>3, <1>5, <1>6, <1>9 DEF MailFits
<1>15. ShownLast' /\ PickOut' /\ Running'
  BY <1>1 DEF ShownLast, PickOut, Running
<1> QED BY <1>10, <1>11, <1>12, <1>13, <1>14, <1>15 DEF IInv

-----------------------------------------------------------------------------
(* A seat takes a card                                                        *)

LEMMA FirstReplaced ==
    ASSUME NEW q \in Seq(OpenPacks), q # <<>>, NEW p \in OpenPacks
    PROVE  LET r == [q EXCEPT ![1] = p]
           IN  /\ r \in Seq(OpenPacks) /\ Len(r) = Len(q) /\ r # <<>> /\ r[1] = p
               /\ \A i \in 2..Len(q) : r[i] = q[i]
<1> DEFINE r == [q EXCEPT ![1] = p]
<1>1. Len(q) \in Nat /\ Len(q) >= 1 /\ DOMAIN q = 1..Len(q)
  BY EmptySeq, LenProperties
<1>2. r \in Seq(OpenPacks) /\ Len(r) = Len(q)
  BY <1>1, ExceptSeq
<1>3. r[1] = p /\ \A i \in 2..Len(q) : r[i] = q[i]
  BY <1>1
<1>4. r # <<>>
  <2> HIDE DEF r
  <2> QED BY <1>1, <1>2, EmptySeq
<1> QED BY <1>2, <1>3, <1>4

LEMMA ShareOfTake ==
    ASSUME NEW k \in Nat, NEW t \in Int, NEW q \in Seq(OpenPacks), q # <<>>,
           Share(k, t, q), NEW p \in OpenPacks,
           p.left = q[1].left - 1, Len(p.cards) = Len(q[1].cards) - 1,
           NEW r \in Seq(OpenPacks), Len(r) = Len(q), r # <<>>, r[1] = p,
           \A i \in 2..Len(q) : r[i] = q[i]
    PROVE  Share(k, t + 1, r)
<1>1. q[1].left \in Int /\ Len(q[1].cards) \in Int
  <2>1. q[1] \in OpenPacks
    BY EmptySeq, ElementOfSeq, LenProperties
  <2> QED BY <2>1, DraftAssumption, LenProperties DEF OpenPacks
<1>2. k * PicksPerPass \in Int /\ PicksPerPass \in Int /\ PackSize \in Int
  BY DraftAssumption
<1>3. /\ k * PicksPerPass < PackSize
      /\ t + q[1].left = k * PicksPerPass + PicksPerPass
      /\ t + Len(q[1].cards) = PackSize
      /\ \A i \in 2..Len(q) :
          /\ q[i].left = PicksPerPass
          /\ Len(q[i].cards) + (k + i - 1) * PicksPerPass = PackSize
  BY DEF Share
<1>4. (t + 1) + p.left = k * PicksPerPass + PicksPerPass
      /\ (t + 1) + Len(p.cards) = PackSize
  <2> DEFINE m == k * PicksPerPass
             a == q[1].left
             b == Len(q[1].cards)
  <2>1. m \in Int /\ a \in Int /\ b \in Int /\ PicksPerPass \in Int /\ PackSize \in Int
        /\ t + a = m + PicksPerPass /\ t + b = PackSize
    BY <1>1, <1>2, <1>3
  <2> HIDE DEF m, a, b
  <2>2. (t + 1) + (a - 1) = m + PicksPerPass /\ (t + 1) + (b - 1) = PackSize
    BY <2>1
  <2> QED BY <2>2 DEF m, a, b
<1> QED BY <1>3, <1>4 DEF Share

LEMMA PackPatched ==
    ASSUME NEW x \in OpenPacks, NEW cs
    PROVE  [[x EXCEPT !.cards = cs] EXCEPT !.left = @ - 1]
             = [cards |-> cs, left |-> x.left - 1]
<1> DEFINE y == [x EXCEPT !.cards = cs]
<1>1. DOMAIN x = {"cards", "left"}
  BY DEF OpenPacks
<1>2. y = [cards |-> cs, left |-> x.left]
  BY <1>1
<1> HIDE DEF y
<1>3. [y EXCEPT !.left = y.left - 1] = [cards |-> cs, left |-> x.left - 1]
  BY <1>2
<1> QED BY <1>3 DEF y

LEMMA TakeIs ==
    ASSUME IInv, NEW c \in Cards, TakeCard(c)
    PROVE  \E card \in Cards, p \in OpenPacks :
             /\ phase = "sweep" /\ cursor \in Seats
             /\ queue[cursor] # <<>> /\ Full(queue[cursor][1])
             /\ card \in ToSet(queue[cursor][1].cards)
             /\ p.left = queue[cursor][1].left - 1
             /\ Len(p.cards) = Len(queue[cursor][1].cards) - 1
             /\ \E m \in 1..Len(queue[cursor][1].cards) :
                   Without(queue[cursor][1].cards, m, card, p.cards)
             /\ queue' = [queue EXCEPT ![cursor] = [queue[cursor] EXCEPT ![1] = p]]
             /\ picked' = [picked EXCEPT ![cursor] = Append(@, card)]
             /\ cursor \in Humans =>
                   /\ card = pending[cursor] /\ card # NoCard
                   /\ pending' = [pending EXCEPT ![cursor] = NoCard]
             /\ cursor \notin Humans => pending' = pending
             /\ progress' = TRUE
             /\ UNCHANGED <<round, phase, cursor, active, sent, inbox, view,
                            waiting, done, chosen, spare, lost>>
<1> DEFINE q == queue[cursor]
           card == IF c \in ToSet(Pack.cards) THEN c ELSE Head(Pack.cards)
           rest == RemoveFirst(queue[cursor][1].cards, card)
           p == [cards |-> rest, left |-> queue[cursor][1].left - 1]
<1>1. /\ phase = "sweep" /\ cursor < PodSize /\ MayTake
      /\ IF cursor \in Humans THEN c = pending[cursor] /\ c # NoCard
                              ELSE c \in ToSet(Pack.cards)
      /\ queue' = [queue EXCEPT ![cursor][1].cards = RemoveFirst(@, card),
                                ![cursor][1].left = @ - 1]
      /\ picked' = [picked EXCEPT ![cursor] = Append(@, card)]
      /\ pending' = IF cursor \in Humans THEN [pending EXCEPT ![cursor] = NoCard]
                    ELSE pending
      /\ progress' = TRUE
      /\ UNCHANGED <<round, phase, cursor, active, sent, inbox, view,
                     waiting, done, chosen, spare, lost>>
  BY DEF TakeCard, AtSeat, clientVars, faultVars
<1>2. cursor \in Seats
  BY <1>1, SeatFacts DEF IInv, Types, Seats
<1>3. /\ q \in Seq(OpenPacks) /\ q # <<>> /\ Pack = q[1] /\ q[1] \in OpenPacks
      /\ Full(q[1]) /\ q[1].cards \in Seq(Cards) /\ q[1].left \in 0..PicksPerPass
  <2>1. q \in Seq(OpenPacks) /\ q # <<>> /\ Pack = q[1]
    BY <1>1, <1>2, PackFacts DEF IInv, MayTake, Pack
  <2>2. q[1] \in OpenPacks
    BY <2>1, FirstGone
  <2> QED BY <1>1, <2>1, <2>2 DEF MayTake, Full, OpenPacks
<1>4. c \in ToSet(q[1].cards) /\ card = c
  <2>1. CASE cursor \in Humans
    <3>1. PendingFits(c, Number(cursor), q, chosen[cursor]) /\ c # NoCard
      BY <1>1, <2>1 DEF IInv, PendingsFit
    <3> QED BY <1>3, <3>1 DEF PendingFits, Holds
  <2>2. CASE cursor \notin Humans
    BY <1>1, <1>3, <2>2
  <2> QED BY <2>1, <2>2
<1> HIDE DEF card
<1>5. /\ rest \in Seq(Cards)
      /\ Len(rest) = Len(q[1].cards) - 1
      /\ \E m \in 1..Len(q[1].cards) : Without(q[1].cards, m, card, rest)
  BY <1>3, <1>4, RestOfPack
<1>6. /\ p \in OpenPacks /\ p.left = q[1].left - 1 /\ p.cards = rest
      /\ Len(p.cards) = Len(q[1].cards) - 1
  <2>1. q[1].left - 1 \in 0..PicksPerPass
    BY <1>3, DraftAssumption DEF Full
  <2> HIDE DEF rest, q
  <2> QED BY <1>5, <2>1 DEF OpenPacks, q
<1>7. queue' = [queue EXCEPT ![cursor] = [q EXCEPT ![1] = p]]
  <2>1. queue' = [queue EXCEPT ![cursor] =
                    [q EXCEPT ![1] = [[q[1] EXCEPT !.cards = rest] EXCEPT !.left = @ - 1]]]
    <3>1. queue \in [Seats -> Seq(OpenPacks)]
      BY DEF IInv, Types
    <3>2. 1 \in DOMAIN q
      BY <1>3, EmptySeq, LenProperties
    <3> HIDE DEF rest
    <3> QED BY <1>1, <1>2, <3>1, <3>2 DEF rest
  <2>2. [[q[1] EXCEPT !.cards = rest] EXCEPT !.left = @ - 1] = p
    <3> HIDE DEF rest, q
    <3> QED BY <1>3, PackPatched DEF q
  <2> QED BY <2>1, <2>2
<1>8. cursor \in Humans => card = pending[cursor] /\ card # NoCard
  BY <1>1, <1>4
<1>9. card \in Cards
  BY <1>4
<1>10. \E m \in 1..Len(q[1].cards) : Without(q[1].cards, m, card, p.cards)
  <2> HIDE DEF rest, q, p
  <2> QED BY <1>5, <1>6 DEF q
<1> HIDE DEF p
<1> QED BY <1>1, <1>2, <1>3, <1>4, <1>6, <1>7, <1>8, <1>9, <1>10

LEMMA TakeCardStep ==
    ASSUME IInv, NEW c \in Cards, TakeCard(c)
    PROVE  IInv'
<1> PICK card \in Cards, p \in OpenPacks :
      /\ phase = "sweep" /\ cursor \in Seats
      /\ queue[cursor] # <<>> /\ Full(queue[cursor][1])
      /\ card \in ToSet(queue[cursor][1].cards)
      /\ p.left = queue[cursor][1].left - 1
      /\ Len(p.cards) = Len(queue[cursor][1].cards) - 1
      /\ queue' = [queue EXCEPT ![cursor] = [queue[cursor] EXCEPT ![1] = p]]
      /\ picked' = [picked EXCEPT ![cursor] = Append(@, card)]
      /\ cursor \in Humans =>
            /\ card = pending[cursor] /\ card # NoCard
            /\ pending' = [pending EXCEPT ![cursor] = NoCard]
      /\ cursor \notin Humans => pending' = pending
      /\ progress' = TRUE
      /\ UNCHANGED <<round, phase, cursor, active, sent, inbox, view, waiting,
                     done, chosen, spare, lost>>
  BY TakeIs
<1>1. Types /\ PacksReady /\ ViewsFit /\ MailFits /\ SentsFit /\ PendingsFit
      /\ Shares /\ ShownLast /\ PickOut /\ Running
  BY DEF IInv
<1>2. Humans \subseteq Seats /\ Peers \subseteq Seats /\ Peers \subseteq Humans
  BY SeatFacts
<1> DEFINE r == [queue[cursor] EXCEPT ![1] = p]
<1>3. /\ r \in Seq(OpenPacks) /\ Len(r) = Len(queue[cursor]) /\ r # <<>> /\ r[1] = p
      /\ \A i \in 2..Len(queue[cursor]) : r[i] = queue[cursor][i]
  <2>1. queue[cursor] \in Seq(OpenPacks)
    BY <1>1, PackFacts
  <2> QED BY <2>1, FirstReplaced
<1> HIDE DEF r
<1>4. /\ queue' \in [Seats -> Seq(OpenPacks)] /\ queue'[cursor] = r
      /\ \A s \in Seats : s # cursor => queue'[s] = queue[s]
  <2>1. queue \in [Seats -> Seq(OpenPacks)]
    BY <1>1 DEF Types
  <2>2. queue' = [queue EXCEPT ![cursor] = r]
    BY DEF r
  <2> QED BY <1>3, <2>1, <2>2
<1>5. /\ picked' \in [Seats -> Seq(Cards)]
      /\ Len(picked'[cursor]) = Len(picked[cursor]) + 1
      /\ \A s \in Seats : s # cursor => picked'[s] = picked[s]
  <2>1. picked \in [Seats -> Seq(Cards)]
    BY <1>1 DEF Types
  <2>2. Append(picked[cursor], card) \in Seq(Cards)
        /\ Len(Append(picked[cursor], card)) = Len(picked[cursor]) + 1
    BY <2>1, OneMore
  <2> QED BY <2>1, <2>2
<1>6. /\ pending' \in [Humans -> Cards \cup {NoCard}]
      /\ cursor \in Humans => pending'[cursor] = NoCard
      /\ \A s \in Humans : s # cursor => pending'[s] = pending[s]
  <2>1. pending \in [Humans -> Cards \cup {NoCard}]
    BY <1>1 DEF Types
  <2> QED BY <2>1
<1>7. /\ \A s \in Seats : s # cursor => Number(s)' = Number(s)
      /\ Number(cursor)' = Number(cursor) + 1 /\ Number(cursor) \in Nat
  BY <1>1, <1>5, PackFacts DEF Number
<1>8. Types'
  BY <1>1, <1>4, <1>5, <1>6 DEF Types
<1>9. PacksReady'
  <2> SUFFICES ASSUME NEW s \in Seats
               PROVE  /\ \A i \in 2..Len(queue'[s]) : Full(queue'[s][i])
                      /\ queue'[s] # <<>> =>
                            Full(queue'[s][1]) \/ (phase = "sweep" /\ cursor = s)
    BY DEF PacksReady
  <2>1. CASE s = cursor
    BY <1>1, <1>3, <1>4, <2>1 DEF PacksReady
  <2>2. CASE s # cursor
    BY <1>1, <1>4, <2>2 DEF PacksReady
  <2> QED BY <2>1, <2>2
<1>10. \A m : Before(m, round, Number(cursor)) /\ m.number \in Nat =>
          Before(m, round, Number(cursor)') /\ ~Now(m, round, Number(cursor)')
  BY <1>7 DEF Before, Now
<1>11. ASSUME NEW v \in Views, NEW s \in Seats,
              ViewFits(v, round, Number(s), queue[s])
       PROVE  ViewFits(v, round, Number(s)', queue'[s])
  <2>1. CASE s = cursor
    BY <1>10, <1>11, <2>1 DEF ViewFits, Views
  <2>2. CASE s # cursor
    BY <1>4, <1>7, <1>11, <2>2
  <2> QED BY <2>1, <2>2
<1>12. ViewsFit'
  <2> SUFFICES ASSUME NEW u \in Humans
               PROVE  ViewFits(view[u], round, Number(u)', queue'[u])
    BY DEF ViewsFit
  <2>1. view[u] \in Views
    BY <1>1 DEF Types
  <2> QED BY <1>1, <1>2, <1>11, <2>1 DEF ViewsFit
<1>13. MailFits'
  <2> SUFFICES ASSUME NEW u \in Peers, NEW i \in 1..Len(inbox[u])
               PROVE  ViewFits(inbox[u][i], round, Number(u)', queue'[u])
    BY DEF MailFits
  <2>1. inbox[u][i] \in Views
    <3>1. inbox[u] \in Seq(Views)
      BY <1>1 DEF Types
    <3> QED BY <3>1, ElementOfSeq
  <2> QED BY <1>1, <1>2, <1>11, <2>1 DEF MailFits
<1>14. SentsFit'
  <2> SUFFICES ASSUME NEW u \in Humans, NEW i \in 1..Len(sent[u])
               PROVE  SentFits(sent[u][i], round, Number(u)', queue'[u], chosen[u])
    BY DEF SentsFit
  <2>1. sent[u][i] \in Picks /\ sent[u][i].number \in Nat
    <3>1. sent[u] \in Seq(Picks)
      BY <1>1 DEF Types
    <3>2. sent[u][i] \in Picks
      BY <3>1, ElementOfSeq
    <3>3. Numbers \subseteq Nat
      BY DEF Numbers
    <3> QED BY <3>2, <3>3 DEF Picks
  <2>2. SentFits(sent[u][i], round, Number(u), queue[u], chosen[u])
    BY <1>1 DEF SentsFit
  <2>3. CASE u = cursor
    BY <1>10, <2>1, <2>2, <2>3 DEF SentFits
  <2>4. CASE u # cursor
    BY <1>2, <1>4, <1>7, <2>2, <2>4
  <2> QED BY <2>3, <2>4
<1>15. PendingsFit'
  <2> SUFFICES ASSUME NEW u \in Humans
               PROVE  PendingFits(pending'[u], Number(u)', queue'[u], chosen[u])
    BY DEF PendingsFit
  <2>1. CASE u = cursor
    BY <1>6, <2>1 DEF PendingFits
  <2>2. CASE u # cursor
    BY <1>1, <1>2, <1>4, <1>6, <1>7, <2>2 DEF PendingsFit
  <2> QED BY <2>1, <2>2
<1>16. Shares'
  <2> PICK h \in [Seats -> Nat] : Counted(h)
    BY <1>1 DEF Shares
  <2>1. round \in Nat /\ \A s \in Seats : Neighbor(s) \in Seats
    BY <1>1, NeighborRing, DraftAssumption DEF Types
  <2>2. \A s \in Seats : Len(queue'[s]) = Len(queue[s]) /\ Neighbor(s)' = Neighbor(s)
    BY <1>3, <1>4 DEF Neighbor
  <2>3. Taken(cursor)' = Taken(cursor) + 1 /\ Taken(cursor) \in Int
    <3>1. Len(picked[cursor]) \in Nat /\ (round - 1) * PackSize \in Int
      BY <1>1, <2>1, PackFacts, LenProperties, DraftAssumption
    <3> DEFINE x == (round - 1) * PackSize
    <3>2. Taken(cursor)' = Len(picked'[cursor]) - x /\ Taken(cursor) = Len(picked[cursor]) - x
      BY DEF Taken
    <3> HIDE DEF x
    <3> QED BY <1>5, <3>1, <3>2 DEF x
  <2>4. \A s \in Seats : s # cursor => Taken(s)' = Taken(s)
    BY <1>5 DEF Taken
  <2>5. Share(h[cursor], Taken(cursor)', r)
    <3>1. Share(h[cursor], Taken(cursor), queue[cursor]) /\ h[cursor] \in Nat
      BY DEF Counted
    <3>2. queue[cursor] \in Seq(OpenPacks)
      BY <1>1, PackFacts
    <3>3. Share(h[cursor], Taken(cursor) + 1, r)
      BY <1>3, <2>3, <3>1, <3>2, ShareOfTake
    <3> QED BY <2>3, <3>3
  <2>6. Counted(h)'
    <3> SUFFICES ASSUME NEW s \in Seats
                 PROVE  /\ Share(h[s], Taken(s)', queue'[s])
                        /\ h[Neighbor(s)] + Len(queue'[Neighbor(s)]) = Got(h[s])
      BY <2>2 DEF Counted
    <3>1. Share(h[s], Taken(s)', queue'[s])
      BY <1>4, <2>4, <2>5 DEF Counted
    <3>2. h[Neighbor(s)] + Len(queue'[Neighbor(s)]) = Got(h[s])
      BY <2>1, <2>2 DEF Counted
    <3> QED BY <3>1, <3>2
  <2> QED BY <2>6 DEF Shares
<1>17. ShownLast' /\ PickOut'
  BY DEF ShownLast, PickOut
<1>18. Running'
  BY <1>1 DEF Running
<1> QED BY <1>8, <1>9, <1>12, <1>13, <1>14, <1>15, <1>16, <1>17, <1>18 DEF IInv

-----------------------------------------------------------------------------
(* A pack is passed                                                           *)

(* A pack that may be picked from stays where it is.                          *)
Keeps(q, r) ==
    q # <<>> /\ q[1].left # 0 /\ q[1].cards # <<>> => r # <<>> /\ r[1] = q[1]

LEMMA HoldsKept ==
    ASSUME NEW q, NEW r, Keeps(q, r), NEW c, Holds(q, c)
    PROVE  Holds(r, c)
<1>1. q[1].cards # <<>>
  <2>1. ToSet(<<>>) = {}
    BY DEF ToSet
  <2> QED BY <2>1 DEF Holds
<1> QED BY <1>1 DEF Keeps, Holds

LEMMA FitsKept ==
    ASSUME ViewsFit, MailFits, SentsFit, PendingsFit,
           \A s \in Seats : Keeps(queue[s], queue'[s]),
           UNCHANGED <<round, picked, view, inbox, sent, pending, chosen>>
    PROVE  ViewsFit' /\ MailFits' /\ SentsFit' /\ PendingsFit'
<1>1. Humans \subseteq Seats /\ Peers \subseteq Seats
      /\ \A s : Number(s)' = Number(s)
  BY SeatFacts DEF Number
<1>2. ASSUME NEW v, NEW s \in Seats, ViewFits(v, round, Number(s), queue[s])
      PROVE  ViewFits(v, round, Number(s), queue'[s])
  BY <1>2 DEF ViewFits, Keeps
<1>3. ViewsFit'
  <2> SUFFICES ASSUME NEW u \in Humans
               PROVE  ViewFits(view[u], round, Number(u), queue'[u])
    BY <1>1 DEF ViewsFit
  <2> QED BY <1>1, <1>2 DEF ViewsFit
<1>4. MailFits'
  <2> SUFFICES ASSUME NEW u \in Peers, NEW i \in 1..Len(inbox[u])
               PROVE  ViewFits(inbox[u][i], round, Number(u), queue'[u])
    BY <1>1 DEF MailFits
  <2> QED BY <1>1, <1>2 DEF MailFits
<1>5. \A s \in Seats : \A c : Holds(queue[s], c) => Holds(queue'[s], c)
  BY HoldsKept
<1>6. SentsFit'
  <2> SUFFICES ASSUME NEW u \in Humans, NEW i \in 1..Len(sent[u])
               PROVE  SentFits(sent[u][i], round, Number(u), queue'[u], chosen[u])
    BY <1>1 DEF SentsFit
  <2>1. SentFits(sent[u][i], round, Number(u), queue[u], chosen[u])
    BY DEF SentsFit
  <2> QED BY <1>1, <1>5, <2>1 DEF SentFits
<1>7. PendingsFit'
  <2> SUFFICES ASSUME NEW u \in Humans
               PROVE  PendingFits(pending[u], Number(u), queue'[u], chosen[u])
    BY <1>1 DEF PendingsFit
  <2>1. PendingFits(pending[u], Number(u), queue[u], chosen[u])
    BY DEF PendingsFit
  <2> QED BY <1>1, <1>5, <2>1 DEF PendingFits
<1> QED BY <1>3, <1>4, <1>6, <1>7

(* A seat is done with its first pack.                                        *)
LEMMA ShareOfRest ==
    ASSUME NEW k \in Nat, NEW t \in Int, NEW q \in Seq(OpenPacks), q # <<>>,
           Share(k, t, q), q[1].left = 0 \/ q[1].cards = <<>>,
           \A i \in 2..Len(q) : Full(q[i])
    PROVE  /\ Share(k + 1, t, Tail(q)) /\ Got(k) = k + 1
           /\ q[1].cards = <<>> => Got(k + 1) = k + 1
           /\ q[1].cards # <<>> =>
                 /\ Got(k + 1) = k + 2
                 /\ Len(q[1].cards) + (k + 1) * PicksPerPass = PackSize
<1> DEFINE P == PicksPerPass
           x == k * P
           y == (k + 1) * P
           rest == Tail(q)
           l == Len(q[1].cards)
           d == q[1].left
<1>1. /\ P \in Nat /\ PackSize \in Nat /\ x \in Nat /\ y \in Nat /\ y = x + P
  BY DraftAssumption
<1>2. /\ rest \in Seq(OpenPacks) /\ Len(rest) = Len(q) - 1 /\ Len(q) \in Nat
      /\ Len(q) >= 1 /\ q[1] \in OpenPacks
      /\ \A i \in 1..Len(rest) : rest[i] = q[i + 1] /\ i + 1 \in 1..Len(q)
      /\ rest # <<>> => Len(q) >= 2
  BY FirstGone
<1>3. d \in Nat /\ l \in Nat /\ (l = 0 <=> q[1].cards = <<>>)
  BY <1>2, DraftAssumption, LenProperties, EmptySeq DEF OpenPacks
<1>4. /\ x < PackSize /\ t + d = x + P /\ t + l = PackSize
      /\ \A i \in 2..Len(q) :
          /\ q[i].left = P
          /\ Len(q[i].cards) + (k + i - 1) * P = PackSize
  BY DEF Share
<1>5. \A i \in 2..Len(q) : Len(q[i].cards) \in Nat /\ Len(q[i].cards) >= 1
  <2> TAKE i \in 2..Len(q)
  <2>1. q[i] \in OpenPacks /\ Full(q[i])
    BY <1>2, ElementOfSeq
  <2> QED BY <2>1, EmptySeq, LenProperties DEF OpenPacks, Full
<1>6. Len(q) >= 2 => Len(q[2].cards) + y = PackSize /\ Len(q[2].cards) >= 1
                     /\ Len(q[2].cards) \in Nat /\ q[2].left = P
  <2> HAVE Len(q) >= 2
  <2>1. 2 \in 2..Len(q) /\ k + 2 - 1 = k + 1
    BY <1>2
  <2>2. Len(q[2].cards) + (k + 2 - 1) * P = PackSize
    BY <1>4, <2>1
  <2> QED BY <1>4, <1>5, <2>1, <2>2
<1> HIDE DEF x, y, l, d
<1>7. CASE l = 0
  <2>1. t = PackSize /\ ~(y < PackSize)
    BY <1>1, <1>3, <1>4, <1>7
  <2>2. ~(Len(q) >= 2)
    <3> SUFFICES ASSUME Len(q) >= 2 PROVE FALSE
      OBVIOUS
    <3> DEFINE z == Len(q[2].cards)
    <3>1. z + y = PackSize /\ z >= 1 /\ z \in Nat
      BY <1>6
    <3> HIDE DEF z
    <3> QED BY <1>1, <2>1, <3>1
  <2>3. rest = <<>> /\ \A i \in 2..Len(rest) : FALSE
    BY <1>2, <2>2
  <2>4. Share(k + 1, t, rest)
    <3> HIDE DEF rest
    <3> QED BY <2>1, <2>3 DEF Share, y
  <2>5. Got(k + 1) = k + 1 /\ Got(k) = k + 1
    BY <1>4, <2>1 DEF Got, x, y
  <2> QED BY <1>3, <1>7, <2>4, <2>5
<1>8. CASE l # 0
  <2>1. d = 0 /\ t = y /\ l + y = PackSize /\ y < PackSize
    BY <1>1, <1>3, <1>4, <1>8 DEF d
  <2>2. Got(k + 1) = k + 2 /\ Got(k) = k + 1
    BY <1>4, <2>1 DEF Got, x, y
  <2>3. \A i \in 2..Len(rest) :
          /\ rest[i].left = P
          /\ Len(rest[i].cards) + (k + 1 + i - 1) * P = PackSize
    <3> TAKE i \in 2..Len(rest)
    <3>1. rest[i] = q[i + 1] /\ i + 1 \in 2..Len(q)
      BY <1>2
    <3>2. k + (i + 1) - 1 = k + 1 + i - 1
      BY <1>2
    <3>3. q[i + 1].left = P /\ Len(q[i + 1].cards) + (k + (i + 1) - 1) * P = PackSize
      BY <1>4, <3>1
    <3> HIDE DEF rest
    <3> QED BY <3>1, <3>2, <3>3
  <2>4. rest # <<>> => rest[1].left = P /\ Len(rest[1].cards) + y = PackSize
    <3> HAVE rest # <<>>
    <3>1. 1 \in 1..Len(rest) /\ 1 + 1 = 2
      BY <1>2
    <3>2. rest[1] = q[2]
      BY <1>2, <3>1
    <3> QED BY <1>2, <1>6, <3>2
  <2>5. rest # <<>> => t + rest[1].left = y + P /\ t + Len(rest[1].cards) = PackSize
    <3> HAVE rest # <<>>
    <3> DEFINE z == Len(rest[1].cards)
    <3>1. z \in Nat
      <4>1. 1 \in 1..Len(rest) /\ 1 + 1 = 2
        BY <1>2
      <4>2. rest[1] = q[2]
        BY <1>2, <4>1
      <4> QED BY <1>2, <1>6, <4>2
    <3>2. rest[1].left = P /\ z + y = PackSize
      BY <2>4
    <3> HIDE DEF z
    <3>3. t + z = PackSize
      BY <1>1, <2>1, <3>1, <3>2
    <3> QED BY <2>1, <3>2, <3>3 DEF z
  <2>6. Share(k + 1, t, rest)
    <3> HIDE DEF rest
    <3> QED BY <2>1, <2>3, <2>5 DEF Share, y
  <2> QED BY <1>3, <1>8, <2>1, <2>2, <2>6 DEF l, y
<1> QED BY <1>7, <1>8

(* A pack comes to a seat.                                                    *)
LEMMA ShareOfArrival ==
    ASSUME NEW k \in Nat, NEW t \in Int, NEW q \in Seq(OpenPacks),
           Share(k, t, q), NEW p \in OpenPacks, Full(p), p.left = PicksPerPass,
           Len(p.cards) + (k + Len(q)) * PicksPerPass = PackSize
    PROVE  Share(k, t, Append(q, p))
<1> DEFINE P == PicksPerPass
           r == Append(q, p)
<1>1. /\ r \in Seq(OpenPacks) /\ Len(r) = Len(q) + 1 /\ r # <<>>
      /\ \A i \in 1..Len(q) : r[i] = q[i]
      /\ r[Len(q) + 1] = p /\ Len(q) \in Nat
  BY AppendProperties, OneMore
<1>2. P \in Nat /\ PackSize \in Nat /\ Len(p.cards) \in Nat /\ Len(p.cards) >= 1
  BY DraftAssumption, EmptySeq, LenProperties DEF OpenPacks, Full
<1> HIDE DEF r
<1>3. ASSUME NEW i \in 2..Len(r)
      PROVE  r[i].left = P /\ Len(r[i].cards) + (k + i - 1) * P = PackSize
  <2>1. CASE i <= Len(q)
    <3>1. i \in 2..Len(q) /\ r[i] = q[i]
      BY <1>1, <2>1
    <3>2. q[i].left = P /\ Len(q[i].cards) + (k + i - 1) * P = PackSize
      BY <3>1 DEF Share
    <3> QED BY <3>1, <3>2
  <2>2. CASE i = Len(q) + 1
    <3>1. k + i - 1 = k + Len(q)
      BY <1>1, <2>2
    <3> QED BY <1>1, <2>2, <3>1
  <2> QED BY <1>1, <2>1, <2>2
<1>4. /\ k * P < PackSize
      /\ t + r[1].left = k * P + P
      /\ t + Len(r[1].cards) = PackSize
  <2>1. CASE q = <<>>
    <3>1. Len(q) = 0 /\ k + Len(q) = k /\ r[1] = p
      BY <1>1, <2>1
    <3>2. k * P \in Nat
      BY <1>2
    <3>3. Len(p.cards) + k * P = PackSize
      BY <3>1
    <3>4. t = IF k * P < PackSize THEN k * P ELSE PackSize
      BY <2>1 DEF Share
    <3> DEFINE x == k * P
               z == Len(p.cards)
    <3>5. x \in Nat /\ z + x = PackSize /\ z \in Nat /\ z >= 1
          /\ t = IF x < PackSize THEN x ELSE PackSize
      BY <1>2, <3>2, <3>3, <3>4
    <3> HIDE DEF x, z
    <3>6. x < PackSize /\ t = x /\ t + z = PackSize
      BY <1>2, <3>5
    <3> QED BY <3>1, <3>6 DEF x, z
  <2>2. CASE q # <<>>
    <3>1. r[1] = q[1]
      BY <1>1, <2>2, EmptySeq
    <3> QED BY <2>2, <3>1 DEF Share
  <2> QED BY <2>1, <2>2
<1>5. Share(k, t, r)
  BY <1>1, <1>3, <1>4 DEF Share
<1> QED BY <1>5 DEF r

(* How the queues change when a seat is done with its first pack.             *)
Gone(q2) ==
    /\ q2 \in [Seats -> Seq(OpenPacks)]
    /\ q2[cursor] = Tail(queue[cursor])
    /\ queue[cursor][1].cards = <<>>
    /\ \A s \in Seats : s # cursor => q2[s] = queue[s]

MovedOn(q2, p) ==
    /\ q2 \in [Seats -> Seq(OpenPacks)]
    /\ p \in OpenPacks /\ Full(p) /\ p.left = PicksPerPass
    /\ p.cards = queue[cursor][1].cards /\ queue[cursor][1].left = 0
    /\ q2[cursor] = Tail(queue[cursor])
    /\ q2[Neighbor(cursor)] = Append(queue[Neighbor(cursor)], p)
    /\ \A s \in Seats : s # cursor /\ s # Neighbor(cursor) => q2[s] = queue[s]

LEMMA PassIs ==
    ASSUME IInv, PassPack
    PROVE  /\ phase = "sweep" /\ cursor \in Seats /\ cursor' = cursor + 1
           /\ UNCHANGED <<round, picked, pending, phase, progress, active, sent,
                          inbox, view, waiting, done, chosen, spare, lost>>
           /\ \/ queue[cursor] = <<>> /\ queue' = queue
              \/ queue[cursor] # <<>> /\ Gone(queue')
              \/ queue[cursor] # <<>> /\ \E p \in OpenPacks : MovedOn(queue', p)
<1> DEFINE q == queue[cursor]
           n == Neighbor(cursor)
           rest == [queue EXCEPT ![cursor] = Tail(@)]
           p == Fresh(Pack.cards)
<1>1. /\ phase = "sweep" /\ cursor < PodSize /\ ~MayTake
      /\ queue' = IF q = <<>> THEN queue
                  ELSE IF Pack.cards = <<>> THEN rest
                       ELSE [rest EXCEPT ![n] = Append(@, p)]
      /\ cursor' = cursor + 1
      /\ UNCHANGED <<round, picked, pending, phase, progress, active, sent,
                     inbox, view, waiting, done, chosen, spare, lost>>
  BY DEF PassPack, AtSeat, clientVars, faultVars
<1>2. cursor \in Seats /\ round \in Nat /\ Types
  <2>1. cursor \in Seats
    BY <1>1, SeatFacts DEF IInv, Types, Seats
  <2>2. round \in Nat /\ Types
    BY DraftAssumption DEF IInv, Types
  <2> QED BY <2>1, <2>2
<1>3. n \in Seats /\ n # cursor
  BY <1>2, NeighborRing
<1>4. queue \in [Seats -> Seq(OpenPacks)]
  BY <1>2 DEF Types
<1>5. CASE q = <<>>
  BY <1>1, <1>2, <1>5
<1>6. CASE q # <<>>
  <2>1. /\ Tail(q) \in Seq(OpenPacks) /\ Pack = q[1] /\ q[1] \in OpenPacks
        /\ q[1].cards \in Seq(Cards)
    <3>1. Tail(q) \in Seq(OpenPacks) /\ Pack = q[1] /\ q[1] \in OpenPacks
      BY <1>2, <1>4, <1>6, FirstGone DEF Pack
    <3> QED BY <3>1 DEF OpenPacks
  <2>2. /\ rest \in [Seats -> Seq(OpenPacks)] /\ rest[cursor] = Tail(q)
        /\ \A s \in Seats : s # cursor => rest[s] = queue[s]
    BY <1>2, <1>4, <2>1
  <2> HIDE DEF rest
  <2>3. CASE q[1].cards = <<>>
    <3>1. queue' = rest
      BY <1>1, <1>6, <2>1, <2>3
    <3>2. Gone(queue')
      BY <2>2, <2>3, <3>1 DEF Gone
    <3> QED BY <1>1, <1>2, <1>6, <3>2
  <2>4. CASE q[1].cards # <<>>
    <3>1. p \in OpenPacks /\ Full(p) /\ p.left = PicksPerPass /\ p.cards = q[1].cards
      BY <2>1, <2>4, DraftAssumption DEF Fresh, OpenPacks, Full
    <3>2. q[1].left = 0
      BY <1>1, <1>6, <2>1, <2>4 DEF MayTake
    <3> HIDE DEF p
    <3>3. queue' = [rest EXCEPT ![n] = Append(@, p)]
      BY <1>1, <1>6, <2>1, <2>4
    <3>4. rest[n] = queue[n] /\ Append(queue[n], p) \in Seq(OpenPacks)
      BY <1>3, <1>4, <2>2, <3>1, OneMore
    <3> HIDE DEF n
    <3>5. /\ queue' \in [Seats -> Seq(OpenPacks)] /\ queue'[n] = Append(queue[n], p)
          /\ \A s \in Seats : s # n => queue'[s] = rest[s]
      BY <1>3, <2>2, <3>3, <3>4
    <3>6. MovedOn(queue', p)
      BY <1>2, <1>3, <2>2, <3>1, <3>2, <3>5 DEF MovedOn, n
    <3> QED BY <1>1, <1>2, <1>6, <3>1, <3>6
  <2> QED BY <2>3, <2>4
<1> QED BY <1>5, <1>6

LEMMA SharesOfPass ==
    ASSUME IInv, cursor \in Seats, queue[cursor] # <<>>,
           UNCHANGED <<round, picked>>,
           Gone(queue') \/ \E p \in OpenPacks : MovedOn(queue', p)
    PROVE  Shares'
<1>1. Types /\ PacksReady /\ Shares /\ round \in Nat
  BY DraftAssumption DEF IInv, Types
<1> PICK h \in [Seats -> Nat] : Counted(h)
  BY <1>1 DEF Shares
<1> DEFINE c == cursor
           n == Neighbor(cursor)
<1> PICK g \in [Seats -> Nat] :
      g[c] = h[c] + 1 /\ \A s \in Seats : s # c => g[s] = h[s]
  <2> DEFINE f == [h EXCEPT ![c] = h[c] + 1]
  <2>1. f \in [Seats -> Nat] /\ f[c] = h[c] + 1 /\ \A s \in Seats : s # c => f[s] = h[s]
    OBVIOUS
  <2> QED BY <2>1
<1>2. g \in [Seats -> Nat] /\ g[c] = h[c] + 1 /\ \A s \in Seats : s # c => g[s] = h[s]
  OBVIOUS
<1>3. /\ c \in Seats /\ n \in Seats /\ n # c /\ \A s \in Seats : Neighbor(s) \in Seats
      /\ \A s \in Seats : Neighbor(s) = n => s = c
  BY <1>1, NeighborRing
<1>4. \A s \in Seats : Taken(s)' = Taken(s) /\ Neighbor(s)' = Neighbor(s)
  BY DEF Taken, Neighbor
<1>5. \A s \in Seats : /\ queue[s] \in Seq(OpenPacks) /\ Len(queue[s]) \in Nat
                       /\ h[s] \in Nat /\ Taken(s) \in Int
  <2> TAKE s \in Seats
  <2>1. Len(picked[s]) \in Nat /\ (round - 1) * PackSize \in Int
    BY <1>1, PackFacts, LenProperties, DraftAssumption
  <2> DEFINE x == (round - 1) * PackSize
  <2>2. Taken(s) = Len(picked[s]) - x /\ x \in Int
    BY <2>1 DEF Taken
  <2> HIDE DEF x
  <2> QED BY <1>1, <2>1, <2>2, PackFacts
<1>6. /\ Share(h[c] + 1, Taken(c), Tail(queue[c])) /\ Got(h[c]) = h[c] + 1
      /\ queue[c][1].cards = <<>> => Got(h[c] + 1) = h[c] + 1
      /\ queue[c][1].cards # <<>> =>
            /\ Got(h[c] + 1) = h[c] + 2
            /\ Len(queue[c][1].cards) + (h[c] + 1) * PicksPerPass = PackSize
  <2>1. Share(h[c], Taken(c), queue[c])
    BY DEF Counted
  <2>2. queue[c][1].left = 0 \/ queue[c][1].cards = <<>>
    BY DEF Gone, MovedOn
  <2>3. \A i \in 2..Len(queue[c]) : Full(queue[c][i])
    BY <1>1 DEF PacksReady
  <2> QED BY <1>5, <2>1, <2>2, <2>3, ShareOfRest
<1>7. Len(Tail(queue[c])) = Len(queue[c]) - 1
  BY <1>5, FirstGone
<1>8. \A s \in Seats : /\ Share(h[s], Taken(s), queue[s])
                       /\ h[Neighbor(s)] + Len(queue[Neighbor(s)]) = Got(h[s])
  BY DEF Counted
<1> HIDE DEF c, n
<1>9. h[n] + Len(queue[n]) = h[c] + 1
  BY <1>6, <1>8 DEF c, n
<1>10. g[c] + Len(Tail(queue[c])) = h[c] + Len(queue[c])
  <2> DEFINE l == Len(queue[c])
  <2>1. l \in Nat /\ h[c] \in Nat /\ g[c] = h[c] + 1 /\ Len(Tail(queue[c])) = l - 1
    BY <1>2, <1>3, <1>5, <1>7
  <2> HIDE DEF l
  <2>2. (h[c] + 1) + (l - 1) = h[c] + l
    BY <2>1
  <2> QED BY <2>1, <2>2 DEF l
<1>11. CASE Gone(queue')
  <2>1. queue'[c] = Tail(queue[c]) /\ queue[c][1].cards = <<>>
        /\ \A s \in Seats : s # c => queue'[s] = queue[s]
    BY <1>11 DEF Gone, c
  <2>2. \A s \in Seats : Share(g[s], Taken(s), queue'[s])
    BY <1>2, <1>6, <1>8, <2>1
  <2>3. \A s \in Seats : g[Neighbor(s)] + Len(queue'[Neighbor(s)]) = Got(g[s])
    <3> TAKE s \in Seats
    <3>1. Got(g[s]) = Got(h[s])
      BY <1>2, <1>6, <2>1
    <3>2. g[Neighbor(s)] + Len(queue'[Neighbor(s)])
            = h[Neighbor(s)] + Len(queue[Neighbor(s)])
      <4>1. \A u \in Seats : g[u] + Len(queue'[u]) = h[u] + Len(queue[u])
        <5>1. g[c] + Len(queue'[c]) = h[c] + Len(queue[c])
          BY <1>10, <2>1
        <5> QED BY <1>2, <2>1, <5>1
      <4> QED BY <1>3, <4>1
    <3> QED BY <1>8, <3>1, <3>2
  <2>4. Counted(g)'
    BY <1>4, <2>2, <2>3 DEF Counted
  <2> QED BY <1>2, <2>4 DEF Shares
<1>12. CASE \E p \in OpenPacks : MovedOn(queue', p)
  <2> PICK p \in OpenPacks : MovedOn(queue', p)
    BY <1>12
  <2>1. /\ Full(p) /\ p.left = PicksPerPass /\ p.cards = queue[c][1].cards
        /\ queue'[c] = Tail(queue[c]) /\ queue'[n] = Append(queue[n], p)
        /\ \A s \in Seats : s # c /\ s # n => queue'[s] = queue[s]
    BY DEF MovedOn, c, n
  <2>2. Got(h[c] + 1) = h[c] + 2
        /\ Len(p.cards) + (h[n] + Len(queue[n])) * PicksPerPass = PackSize
    BY <1>6, <1>9, <2>1 DEF Full
  <2>3. Share(h[n], Taken(n), Append(queue[n], p))
    BY <1>3, <1>5, <1>8, <2>1, <2>2, ShareOfArrival
  <2>4. Len(Append(queue[n], p)) = Len(queue[n]) + 1
    BY <1>3, <1>5, OneMore
  <2>5. \A s \in Seats : Share(g[s], Taken(s), queue'[s])
    BY <1>2, <1>3, <1>6, <1>8, <2>1, <2>3
  <2>6. \A u \in Seats : u # n => g[u] + Len(queue'[u]) = h[u] + Len(queue[u])
    <3>1. g[c] + Len(queue'[c]) = h[c] + Len(queue[c])
      BY <1>10, <2>1
    <3> QED BY <1>2, <2>1, <3>1
  <2>7. g[n] + Len(queue'[n]) = h[c] + 2
    <3>1. g[n] = h[n] /\ queue'[n] = Append(queue[n], p)
      BY <1>2, <1>3, <2>1
    <3> DEFINE l == Len(queue[n])
    <3>2. Len(queue'[n]) = l + 1 /\ l \in Nat /\ h[n] \in Nat /\ h[c] \in Nat
          /\ h[n] + l = h[c] + 1
      BY <1>3, <1>5, <1>9, <2>4, <3>1
    <3> HIDE DEF l
    <3>3. h[n] + (l + 1) = h[c] + 2
      BY <3>2
    <3> QED BY <3>1, <3>2, <3>3
  <2>8. \A s \in Seats : g[Neighbor(s)] + Len(queue'[Neighbor(s)]) = Got(g[s])
    <3> TAKE s \in Seats
    <3>1. CASE s = c
      BY <1>2, <2>2, <2>7, <3>1 DEF n, c
    <3>2. CASE s # c
      <4>1. Neighbor(s) # n /\ Neighbor(s) \in Seats
        BY <1>3, <3>2
      <4> QED BY <1>2, <1>8, <2>6, <3>2, <4>1
    <3> QED BY <3>1, <3>2
  <2>9. Counted(g)'
    BY <1>4, <2>5, <2>8 DEF Counted
  <2> QED BY <1>2, <2>9 DEF Shares
<1> QED BY <1>11, <1>12

LEMMA PassPackStep ==
    ASSUME IInv, PassPack
    PROVE  IInv'
<1>1. /\ phase = "sweep" /\ cursor \in Seats /\ cursor' = cursor + 1
      /\ UNCHANGED <<round, picked, pending, phase, progress, active, sent,
                     inbox, view, waiting, done, chosen, spare, lost>>
      /\ \/ queue[cursor] = <<>> /\ queue' = queue
         \/ queue[cursor] # <<>> /\ Gone(queue')
         \/ queue[cursor] # <<>> /\ \E p \in OpenPacks : MovedOn(queue', p)
  BY PassIs
<1>2. Types /\ PacksReady /\ ViewsFit /\ MailFits /\ SentsFit /\ PendingsFit
      /\ Shares /\ ShownLast /\ PickOut /\ Running /\ round \in Nat
  BY DraftAssumption DEF IInv, Types
<1>3. queue' \in [Seats -> Seq(OpenPacks)]
  BY <1>1, <1>2 DEF Gone, MovedOn, Types
<1>4. Types'
  <2>1. cursor + 1 \in 0..PodSize
    BY <1>1, SeatFacts DEF Seats
  <2> QED BY <1>1, <1>2, <1>3, <2>1 DEF Types
<1>5. \A s \in Seats : queue[s] \in Seq(OpenPacks) /\ Len(queue[s]) \in Nat
  BY <1>2, PackFacts
<1>6. Neighbor(cursor) \in Seats /\ Neighbor(cursor) # cursor
  BY <1>1, <1>2, NeighborRing
(* Only the first pack of the seat may be other than full, and it is gone.    *)
<1>7. ASSUME NEW s \in Seats
      PROVE  \A i \in 1..Len(queue'[s]) : Full(queue'[s][i])
  <2>1. s # cursor => \A i \in 1..Len(queue[s]) : Full(queue[s][i])
    <3> HAVE s # cursor
    <3> TAKE i \in 1..Len(queue[s])
    <3>1. CASE i = 1
      <4>1. queue[s] # <<>>
        BY EmptySeq, <1>5
      <4> QED BY <1>2, <3>1, <4>1 DEF PacksReady
    <3>2. CASE i # 1
      <4>1. i \in 2..Len(queue[s])
        BY <1>5, <3>2
      <4> QED BY <1>2, <4>1 DEF PacksReady
    <3> QED BY <3>1, <3>2
  <2>2. queue[cursor] # <<>> =>
           \A i \in 1..Len(Tail(queue[cursor])) : Full(Tail(queue[cursor])[i])
    <3> HAVE queue[cursor] # <<>>
    <3> TAKE i \in 1..Len(Tail(queue[cursor]))
    <3>1. Tail(queue[cursor])[i] = queue[cursor][i + 1] /\ i + 1 \in 2..Len(queue[cursor])
      BY <1>1, <1>5, FirstGone
    <3> QED BY <1>1, <1>2, <3>1 DEF PacksReady
  <2>3. CASE queue[cursor] = <<>> /\ queue' = queue
    <3>1. s = cursor => Len(queue[s]) = 0
      BY <2>3, EmptySeq
    <3>2. \A i \in 1..0 : FALSE
      OBVIOUS
    <3> QED BY <2>1, <2>3, <3>1, <3>2
  <2>4. CASE queue[cursor] # <<>> /\ Gone(queue')
    BY <2>1, <2>2, <2>4 DEF Gone
  <2>5. CASE queue[cursor] # <<>> /\ \E p \in OpenPacks : MovedOn(queue', p)
    <3> PICK p \in OpenPacks : MovedOn(queue', p)
      BY <2>5
    <3>1. CASE s = Neighbor(cursor)
      <4>1. queue'[s] = Append(queue[s], p) /\ Full(p)
        BY <3>1 DEF MovedOn
      <4>2. \A i \in 1..Len(Append(queue[s], p)) :
               \/ i \in 1..Len(queue[s]) /\ Append(queue[s], p)[i] = queue[s][i]
               \/ Append(queue[s], p)[i] = p
        BY <1>5, OneMore
      <4> QED BY <1>6, <2>1, <3>1, <4>1, <4>2
    <3>2. CASE s = cursor
      BY <2>2, <2>5, <3>2 DEF MovedOn
    <3>3. CASE s # cursor /\ s # Neighbor(cursor)
      BY <2>1, <3>3 DEF MovedOn
    <3> QED BY <3>1, <3>2, <3>3
  <2> QED BY <1>1, <2>3, <2>4, <2>5
<1>8. PacksReady'
  <2> SUFFICES ASSUME NEW s \in Seats
               PROVE  /\ \A i \in 2..Len(queue'[s]) : Full(queue'[s][i])
                      /\ queue'[s] # <<>> => Full(queue'[s][1])
    BY DEF PacksReady
  <2>1. queue'[s] \in Seq(OpenPacks)
    BY <1>3
  <2>2. Len(queue'[s]) \in Nat /\ (queue'[s] # <<>> => Len(queue'[s]) >= 1)
    BY <2>1, EmptySeq, LenProperties
  <2>3. queue'[s] # <<>> => 1 \in 1..Len(queue'[s])
    BY <2>2
  <2>4. \A i \in 2..Len(queue'[s]) : i \in 1..Len(queue'[s])
    BY <2>2
  <2> QED BY <1>7, <2>3, <2>4
<1>9. ASSUME NEW s \in Seats PROVE Keeps(queue[s], queue'[s])
  <2>1. CASE s = cursor
    BY <1>1, <2>1 DEF Keeps, Gone, MovedOn
  <2>2. CASE s # cursor
    <3>1. queue'[s] = queue[s] \/ \E p \in OpenPacks : queue'[s] = Append(queue[s], p)
      BY <1>1, <2>2 DEF Gone, MovedOn
    <3>2. ASSUME NEW p \in OpenPacks, queue'[s] = Append(queue[s], p), queue[s] # <<>>
          PROVE  queue'[s] # <<>> /\ queue'[s][1] = queue[s][1]
      <4>1. Len(queue[s]) >= 1 /\ Append(queue[s], p) # <<>>
            /\ \A i \in 1..Len(queue[s]) : Append(queue[s], p)[i] = queue[s][i]
        BY <1>5, <3>2, EmptySeq, AppendProperties, OneMore
      <4>2. 1 \in 1..Len(queue[s])
        BY <1>5, <4>1
      <4> QED BY <3>2, <4>1, <4>2
    <3> QED BY <3>1, <3>2 DEF Keeps
  <2> QED BY <2>1, <2>2
<1>10. ViewsFit' /\ MailFits' /\ SentsFit' /\ PendingsFit'
  BY <1>1, <1>2, <1>9, FitsKept
<1>11. Shares'
  <2>1. CASE queue' = queue
    BY <1>1, <1>2, <2>1, SharesKept
  <2>2. CASE queue[cursor] # <<>>
             /\ (Gone(queue') \/ \E p \in OpenPacks : MovedOn(queue', p))
    BY <1>1, <2>2, SharesOfPass
  <2> QED BY <1>1, <2>1, <2>2
<1>12. ShownLast' /\ PickOut'
  BY <1>1 DEF ShownLast, PickOut
<1>13. Running'
  BY <1>1, <1>2 DEF Running
<1> QED BY <1>4, <1>8, <1>10, <1>11, <1>12, <1>13 DEF IInv

-----------------------------------------------------------------------------
(* Rounds                                                                     *)

(* When no pack is left every seat has its share: the seat that has done with *)
(* the fewest packs has done with as many as its neighbour, which then has    *)
(* seen the last card of one.                                                 *)
LEMMA RoundIsShared ==
    ASSUME Types, Shares, NoPacks
    PROVE  \A s \in Seats : Taken(s) = PackSize
<1> PICK h \in [Seats -> Nat] : Counted(h)
  BY DEF Shares
<1>1. \A s \in Seats : queue[s] = <<>> /\ Len(queue[s]) = 0 /\ h[s] \in Nat
  BY EmptySeq DEF NoPacks
<1>2. round \in Nat
  BY DraftAssumption DEF Types
<1>3. \E s \in Seats : \A w \in Seats : h[s] <= h[w]
  <2> DEFINE S == {h[s] : s \in Seats}
  <2>1. S \in SUBSET Nat /\ S # {}
    BY SeatFacts
  <2>2. \E i \in S : \A j \in S : i <= j
    <3> HIDE DEF S
    <3> QED BY <2>1, SmallestNat
  <2> QED BY <2>2
<1> PICK s \in Seats : \A w \in Seats : h[s] <= h[w]
  BY <1>3
<1> PICK u \in Seats : Neighbor(u) = s
  BY <1>2, NeighborRing
<1>4. h[s] + 0 = Got(h[u])
  BY <1>1 DEF Counted
<1>5. ~(h[u] * PicksPerPass < PackSize) /\ h[s] = h[u]
  <2>1. h[s] \in Nat /\ h[u] \in Nat /\ h[s] <= h[u]
    BY <1>1
  <2>2. CASE h[u] * PicksPerPass < PackSize
    <3>1. Got(h[u]) = h[u] + 1
      BY <2>2 DEF Got
    <3> QED BY <1>4, <2>1, <3>1
  <2>3. CASE ~(h[u] * PicksPerPass < PackSize)
    <3>1. Got(h[u]) = h[u]
      BY <2>3 DEF Got
    <3> QED BY <1>4, <2>1, <2>3, <3>1
  <2> QED BY <2>2, <2>3
<1>6. ASSUME NEW a \in Nat, NEW b \in Nat, a <= b, ~(a * PicksPerPass < PackSize)
      PROVE  ~(b * PicksPerPass < PackSize)
  <2>1. PicksPerPass \in Nat /\ PackSize \in Nat
    BY DraftAssumption
  <2>2. a * PicksPerPass <= b * PicksPerPass
    BY <1>6, <2>1
  <2>3. a * PicksPerPass \in Nat /\ b * PicksPerPass \in Nat
    BY <2>1
  <2> QED BY <1>6, <2>1, <2>2, <2>3
<1> TAKE w \in Seats
<1>7. ~(h[w] * PicksPerPass < PackSize)
  BY <1>1, <1>5, <1>6
<1> QED BY <1>1, <1>7 DEF Counted, Share

LEMMA StartRoundStep ==
    ASSUME IInv, StartRound
    PROVE  IInv'
<1> PICK open \in [Seats -> Packs] : queue' = [s \in Seats |-> <<Fresh(open[s])>>]
  BY DEF StartRound
<1>1. /\ phase = "sweep" /\ cursor = PodSize /\ NoPacks
      /\ round < Rounds /\ round' = round + 1
      /\ phase' = "head" /\ cursor' = 0 /\ progress' = FALSE
      /\ UNCHANGED <<picked, pending, active, sent, inbox, view, waiting, done,
                     chosen, spare, lost>>
  BY DEF StartRound, SweepEnds, clientVars, faultVars
<1>2. Types /\ PacksReady /\ ViewsFit /\ MailFits /\ SentsFit /\ PendingsFit
      /\ Shares /\ ShownLast /\ PickOut /\ Running
  BY DEF IInv
<1>3. round \in Nat /\ round' \in 1..Rounds /\ round' \in Nat
  BY <1>1, <1>2, DraftAssumption DEF Types
<1>4. ASSUME NEW s \in Seats
      PROVE  /\ queue[s] = <<>>
             /\ queue'[s] \in Seq(OpenPacks) /\ Len(queue'[s]) = 1
             /\ Full(queue'[s][1]) /\ Share(0, 0, queue'[s])
  <2>1. open[s] \in Seq(Cards) /\ Len(open[s]) = PackSize
    BY DraftAssumption
  <2> DEFINE q == <<Fresh(open[s])>>
  <2>2. q \in Seq(OpenPacks) /\ Len(q) = 1 /\ q[1] = Fresh(open[s])
        /\ Full(Fresh(open[s])) /\ Share(0, 0, q)
    BY <2>1, FirstShare
  <2>3. queue'[s] = q
    OBVIOUS
  <2> HIDE DEF q
  <2> QED BY <1>1, <2>2, <2>3 DEF NoPacks
<1>5. queue' \in [Seats -> Seq(OpenPacks)]
  <2>1. queue' = [s \in Seats |-> queue'[s]]
    OBVIOUS
  <2> QED BY <1>4, <2>1
<1>6. Types'
  <2>1. 0 \in 0..PodSize
    BY SeatFacts
  <2> QED BY <1>1, <1>2, <1>3, <1>5, <2>1 DEF Types
<1>7. PacksReady'
  <2> SUFFICES ASSUME NEW s \in Seats
               PROVE  /\ \A i \in 2..Len(queue'[s]) : Full(queue'[s][i])
                      /\ Full(queue'[s][1])
    BY DEF PacksReady
  <2>1. \A i \in 2..1 : FALSE
    OBVIOUS
  <2> QED BY <1>4, <2>1
<1>8. \A s : Number(s)' = Number(s)
  BY <1>1 DEF Number
<1>9. \A m, n : Before(m, round, n) /\ m.round \in Nat =>
         Before(m, round', n) /\ ~Now(m, round', n)
  BY <1>1, <1>3 DEF Before, Now
<1>10. \A r \in 1..Rounds : r \in Nat
  BY DraftAssumption
<1>11. ASSUME NEW v \in Views, NEW s \in Seats,
              ViewFits(v, round, Number(s), queue[s])
       PROVE  ViewFits(v, round', Number(s), queue'[s])
  BY <1>9, <1>10, <1>11 DEF ViewFits, Views
<1>12. Humans \subseteq Seats /\ Peers \subseteq Seats
  BY SeatFacts
<1>13. ViewsFit'
  <2> SUFFICES ASSUME NEW u \in Humans
               PROVE  ViewFits(view[u], round', Number(u), queue'[u])
    BY <1>1, <1>8 DEF ViewsFit
  <2>1. view[u] \in Views
    BY <1>2 DEF Types
  <2> QED BY <1>2, <1>11, <1>12, <2>1 DEF ViewsFit
<1>14. MailFits'
  <2> SUFFICES ASSUME NEW u \in Peers, NEW i \in 1..Len(inbox[u])
               PROVE  ViewFits(inbox[u][i], round', Number(u), queue'[u])
    BY <1>1, <1>8 DEF MailFits
  <2>1. inbox[u][i] \in Views
    <3>1. inbox[u] \in Seq(Views)
      BY <1>2 DEF Types
    <3> QED BY <3>1, ElementOfSeq
  <2> QED BY <1>2, <1>11, <1>12, <2>1 DEF MailFits
<1>15. SentsFit'
  <2> SUFFICES ASSUME NEW u \in Humans, NEW i \in 1..Len(sent[u])
               PROVE  SentFits(sent[u][i], round', Number(u), queue'[u], chosen[u])
    BY <1>1, <1>8 DEF SentsFit
  <2>1. sent[u][i].round \in Nat
    <3>1. sent[u] \in Seq(Picks)
      BY <1>2 DEF Types
    <3>2. sent[u][i] \in Picks
      BY <3>1, ElementOfSeq
    <3> QED BY <1>10, <3>2 DEF Picks
  <2>2. SentFits(sent[u][i], round, Number(u), queue[u], chosen[u])
    BY <1>2 DEF SentsFit
  <2> QED BY <1>9, <2>1, <2>2 DEF SentFits
<1>16. PendingsFit'
  <2> SUFFICES ASSUME NEW u \in Humans
               PROVE  PendingFits(pending[u], Number(u), queue'[u], chosen[u])
    BY <1>1, <1>8 DEF PendingsFit
  <2>1. PendingFits(pending[u], Number(u), queue[u], chosen[u])
    BY <1>2 DEF PendingsFit
  <2>2. queue[u] = <<>>
    BY <1>4, <1>12
  <2> QED BY <2>1, <2>2 DEF PendingFits, Holds
<1>17. \A s \in Seats : Taken(s)' = 0
  <2> TAKE s \in Seats
  <2> DEFINE x == (round - 1) * PackSize
             y == (round' - 1) * PackSize
  <2>1. x \in Int /\ y = x + PackSize /\ PackSize \in Nat
    BY <1>1, <1>3, DraftAssumption
  <2>2. Len(picked[s]) - x = PackSize
    BY <1>1, <1>2, RoundIsShared DEF Taken
  <2>3. Len(picked[s]) \in Nat
    BY <1>2, PackFacts, LenProperties
  <2>4. Taken(s)' = Len(picked[s]) - y
    BY <1>1 DEF Taken
  <2> HIDE DEF x, y
  <2> QED BY <2>1, <2>2, <2>3, <2>4
<1>18. Shares'
  <2> DEFINE h == [s \in Seats |-> 0]
  <2>1. h \in [Seats -> Nat] /\ \A s \in Seats : h[s] = 0
    OBVIOUS
  <2>2. Got(0) = 1
    BY DraftAssumption DEF Got
  <2>3. \A s \in Seats : Neighbor(s)' \in Seats
    <3> TAKE s \in Seats
    <3>1. /\ PodSize \in Nat /\ PodSize >= 2 /\ s \in 0..(PodSize - 1)
          /\ s + 1 \in Nat /\ s + PodSize - 1 \in Nat
      BY SeatFacts DEF Seats
    <3>2. (s + 1) % PodSize \in 0..(PodSize - 1)
          /\ (s + PodSize - 1) % PodSize \in 0..(PodSize - 1)
      BY <3>1
    <3> QED BY <3>2 DEF Neighbor, Seats
  <2> HIDE DEF h
  <2>4. Counted(h)'
    <3> SUFFICES ASSUME NEW s \in Seats
                 PROVE  /\ Share(h[s], Taken(s)', queue'[s])
                        /\ h[Neighbor(s)'] + Len(queue'[Neighbor(s)']) = Got(h[s])
      BY DEF Counted, h
    <3> QED BY <1>4, <1>17, <2>1, <2>2, <2>3
  <2>5. h' = h
    BY DEF h
  <2> QED BY <2>1, <2>4, <2>5 DEF Shares
<1>19. ShownLast' /\ PickOut'
  BY <1>1 DEF ShownLast, PickOut
<1>20. Running'
  BY <1>1, <1>2 DEF Running
<1> QED BY <1>6, <1>7, <1>13, <1>14, <1>15, <1>16, <1>18, <1>19, <1>20 DEF IInv

-----------------------------------------------------------------------------
(* The invariant and what follows from it                                     *)

LEMMA StutterStep ==
    ASSUME IInv, UNCHANGED vars
    PROVE  IInv'
<1>1. UNCHANGED <<round, queue, picked, pending, phase, cursor, progress, active,
                  sent, inbox, view, waiting, done, chosen, spare, lost>>
  BY DEF vars, podVars, clientVars, faultVars
<1>2. Types' /\ PacksReady' /\ ShownLast' /\ PickOut' /\ Running'
  BY <1>1, StateKept DEF IInv, Types, PacksReady, ShownLast, PickOut, Running
<1>3. ViewsFit' /\ MailFits' /\ SentsFit' /\ PendingsFit' /\ Shares'
  BY <1>1, ViewsKept, MailKept, SentsKept, PendingsKept, SharesKept DEF IInv
<1> QED BY <1>2, <1>3 DEF IInv

LEMMA StepIInv == IInv /\ [Next]_vars => IInv'
<1> SUFFICES ASSUME IInv, [Next]_vars PROVE IInv'
  OBVIOUS
<1>1. CASE Tick
  <2>1. CASE AwaitHumans BY <2>1, AwaitHumansStep
  <2>2. CASE StartSweep BY <2>2, StartSweepStep
  <2>3. CASE AwaitSecondPick BY <2>3, AwaitSecondPickStep
  <2>4. CASE PassPack BY <2>4, PassPackStep
  <2>5. CASE \E c \in Cards : TakeCard(c) BY <2>5, TakeCardStep
  <2>6. CASE NextSweep BY <2>6, NextSweepStep
  <2>7. CASE StartRound BY <2>7, StartRoundStep
  <2>8. CASE Finish BY <2>8, FinishStep
  <2> QED BY <1>1, <2>1, <2>2, <2>3, <2>4, <2>5, <2>6, <2>7, <2>8 DEF Tick
<1>2. CASE \E s \in Humans : DropStale(s) \/ Submit(s)
  BY <1>2, DropStaleStep, SubmitStep
<1>3. CASE Outside
  <2>1. phase = "idle"
    BY <1>3 DEF Outside
  <2>2. CASE \E s \in Humans, c \in Cards : Pick(s, c)
    BY <2>1, <2>2, PickStep
  <2>3. CASE \E s \in Peers : LosePick(s) \/ LoseMessage(s) \/ Deliver(s)
    BY <2>1, <2>3, LosePickStep, LoseMessageStep, DeliverStep
  <2> QED BY <1>3, <2>2, <2>3 DEF Outside
<1>4. CASE UNCHANGED vars
  BY <1>4, StutterStep
<1> QED BY <1>1, <1>2, <1>3, <1>4 DEF Next, HostStep

(* IInv holds throughout a draft: whatever people pick, twice or late, and    *)
(* whatever is lost, packs, picks and screens stay in step.                   *)
THEOREM DraftInvariant == Spec => []IInv
BY InitIInv, StepIInv, PTL DEF Spec

(* TypeOK: the draft's variables keep their types, whatever the pod opens.    *)
THEOREM DraftTypes == Spec => []TypeOK
<1>1. IInv => TypeOK
  <2> SUFFICES ASSUME IInv PROVE TypeOK
    OBVIOUS
  <2>1. Types
    BY DEF IInv
  <2>2. ASSUME NEW s \in Seats, NEW i \in DOMAIN queue[s]
        PROVE  queue[s][i].cards \in Seq(Cards) /\ queue[s][i].left \in 0..PicksPerPass
    <3>1. queue[s] \in Seq(OpenPacks)
      BY <2>1, PackFacts
    <3>2. queue[s][i] \in OpenPacks
      BY <3>1, ElementOfSeq, LenProperties
    <3> QED BY <3>2 DEF OpenPacks
  <2>3. ASSUME NEW s \in Humans, NEW i \in DOMAIN sent[s]
        PROVE  sent[s][i].card \in Cards /\ sent[s][i].number \in Numbers
    <3>1. sent[s] \in Seq(Picks)
      BY <2>1 DEF Types
    <3>2. sent[s][i] \in Picks
      BY <3>1, ElementOfSeq, LenProperties
    <3> QED BY <3>2 DEF Picks
  <2>4. \A s \in Humans : view[s].pack \in Seq(Cards) /\ view[s].round \in 1..Rounds
    BY <2>1 DEF Types, Views
  <2> QED BY <2>1, <2>2, <2>3, <2>4 DEF Types, TypeOK
<1> QED BY <1>1, DraftInvariant, PTL

(* PickFits: what passes the host's test for staleness is in the open pack,   *)
(* and so is a submitted pick until the pod takes it (limited_submit_pick).   *)
THEOREM PicksAlwaysFit == Spec => []PickFits
<1>1. IInv => PickFits
  <2> SUFFICES ASSUME IInv, NEW s \in Humans
               PROVE  /\ pending[s] # NoCard => InPack(s, pending[s])
                      /\ \A i \in DOMAIN sent[s] :
                            ~Stale(s, sent[s][i]) => InPack(s, sent[s][i].card)
    BY DEF PickFits
  <2>1. Types /\ s \in Seats
    BY SeatFacts DEF IInv
  <2>2. \A c : Holds(queue[s], c) => InPack(s, c)
    BY <2>1, PackFacts DEF Holds, InPack
  <2>3. pending[s] # NoCard => InPack(s, pending[s])
    BY <2>2 DEF IInv, PendingsFit, PendingFits
  <2>4. ASSUME NEW i \in DOMAIN sent[s], ~Stale(s, sent[s][i])
        PROVE  InPack(s, sent[s][i].card)
    <3>1. sent[s] \in Seq(Picks)
      BY <2>1 DEF Types
    <3>2. i \in 1..Len(sent[s])
      BY <3>1, LenProperties
    <3>3. Now(sent[s][i], round, Number(s))
      BY <2>4 DEF Stale, Now, Number
    <3> QED BY <2>2, <3>2, <3>3 DEF IInv, SentsFit, SentFits
  <2> QED BY <2>3, <2>4
<1> QED BY <1>1, DraftInvariant, PTL

(* EvenShares: when a round ends all seats have taken the same number of      *)
(* cards, for any ring, pack size and number of picks per pass, although the  *)
(* sweeps are cut short (tick).                                               *)
THEOREM SharesAreEven == Spec => []EvenShares
<1>1. IInv => EvenShares
  <2> SUFFICES ASSUME IInv, NoPacks, NEW s \in Seats
               PROVE  Len(picked[s]) = round * PackSize
    BY DEF EvenShares
  <2> DEFINE x == (round - 1) * PackSize
             y == round * PackSize
  <2>1. Len(picked[s]) - x = PackSize
    BY RoundIsShared DEF IInv, Taken
  <2>2. round \in Nat /\ Len(picked[s]) \in Nat /\ PackSize \in Nat
    BY PackFacts, LenProperties, DraftAssumption DEF IInv
  <2>3. x \in Int /\ y \in Int /\ x + PackSize = y
    BY <2>2
  <2> HIDE DEF x, y
  <2>4. Len(picked[s]) = y
    BY <2>1, <2>2, <2>3
  <2> QED BY <2>4 DEF y
<1> QED BY <1>1, DraftInvariant, PTL

(* AwaitedCanPick: without losses, whoever the draft waits for has the open   *)
(* pack on the screen and may click (broadcastPerSeatStates, pickPending).    *)
THEOREM NobodyIsStuck == Spec => []AwaitedCanPick
<1>1. IInv => AwaitedCanPick
  <2> SUFFICES ASSUME IInv, lost = 0, active, phase = "idle",
                      \A s \in Humans : sent[s] = <<>>,
                      NEW s \in Awaited, s \in Peers => inbox[s] = <<>>
               PROVE  CanPick(s) /\ view[s] = StateOf(s)
    BY DEF AwaitedCanPick
  <2>1. Types /\ ShownLast /\ PickOut /\ Running /\ PacksReady
    BY DEF IInv
  <2>2. s \in Humans /\ s \in Seats /\ queue[s] # <<>> /\ pending[s] = NoCard
        /\ (s = 0 \/ s \in Peers)
    BY SeatFacts DEF Awaited, Peers
  <2>3. view[s] = StateOf(s)
    BY <2>1, <2>2 DEF ShownLast
  <2>4. waiting[s] = FALSE /\ done[s] = FALSE
    BY <2>1, <2>2 DEF PickOut, Running, Types
  <2>5. view[s].open /\ view[s].pack # <<>>
    <3>1. ~NoPacks
      BY <2>2 DEF NoPacks
    <3>2. Full(queue[s][1])
      BY <2>1, <2>2 DEF PacksReady
    <3>3. StateOf(s).open = ~NoPacks
      BY DEF StateOf
    <3> QED BY <2>1, <2>2, <2>3, <3>1, <3>2, <3>3, StateTyped DEF Full
  <2> QED BY <2>3, <2>4, <2>5 DEF CanPick
<1> QED BY <1>1, DraftInvariant, PTL

-----------------------------------------------------------------------------
(* Whose choice a card was                                                    *)

ChosenSoFar ==
    \A s \in Humans : \A n \in 1..Len(picked[s]) :
        n \in Numbers /\ picked[s][n] \in chosen[s][n]

LEMMA ChosenStep ==
    ASSUME IInv, ChosenSoFar, [Next]_vars
    PROVE  ChosenSoFar'
<1>1. Types /\ Humans \subseteq Seats
  BY SeatFacts DEF IInv
<1>2. CASE \E s \in Humans, c \in Cards : Pick(s, c)
  <2> PICK s \in Humans, c \in Cards : Pick(s, c)
    BY <1>2
  <2> DEFINE n == view[s].number
  <2>1. chosen' = [chosen EXCEPT ![s][n] = @ \cup {c}] /\ picked' = picked
    BY DEF Pick, podVars
  <2>2. chosen \in [Humans -> [Numbers -> SUBSET Cards]]
    BY <1>1 DEF Types
  <2>3. \A u \in Humans, m \in Numbers : chosen[u][m] \subseteq chosen'[u][m]
    <3> DEFINE f == [chosen[s] EXCEPT ![n] = @ \cup {c}]
    <3>1. chosen' = [chosen EXCEPT ![s] = f]
      BY <2>1
    <3>2. \A m \in Numbers : chosen[s][m] \subseteq f[m]
      BY <2>2
    <3> HIDE DEF f, n
    <3> QED BY <2>2, <3>1, <3>2
  <2> QED BY <2>1, <2>3 DEF ChosenSoFar
<1>3. CASE \E c \in Cards : TakeCard(c)
  <2> PICK c \in Cards : TakeCard(c)
    BY <1>3
  <2> PICK card \in Cards :
        /\ cursor \in Seats
        /\ picked' = [picked EXCEPT ![cursor] = Append(@, card)]
        /\ cursor \in Humans => card = pending[cursor] /\ card # NoCard
        /\ chosen' = chosen
    BY TakeIs
  <2>1. picked \in [Seats -> Seq(Cards)]
    BY <1>1 DEF Types
  <2>2. \A s \in Seats : s # cursor => picked'[s] = picked[s]
    BY <2>1
  <2>3. picked'[cursor] = Append(picked[cursor], card)
    BY <2>1
  <2>4. cursor \in Humans =>
           Number(cursor) \in Numbers /\ card \in chosen[cursor][Number(cursor)]
    BY DEF IInv, PendingsFit, PendingFits
  <2> SUFFICES ASSUME NEW s \in Humans, NEW n \in 1..Len(picked'[s])
               PROVE  n \in Numbers /\ picked'[s][n] \in chosen[s][n]
    BY DEF ChosenSoFar
  <2>5. CASE s # cursor
    BY <1>1, <2>2, <2>5 DEF ChosenSoFar
  <2>6. CASE s = cursor
    <3>1. /\ Len(picked'[s]) = Len(picked[s]) + 1 /\ Len(picked[s]) \in Nat
          /\ \A i \in 1..Len(picked[s]) : picked'[s][i] = picked[s][i]
          /\ picked'[s][Len(picked[s]) + 1] = card
      BY <1>1, <2>1, <2>3, <2>6, AppendProperties, LenProperties
    <3>2. CASE n \in 1..Len(picked[s])
      BY <3>1, <3>2 DEF ChosenSoFar
    <3>3. CASE n = Number(s)
      BY <2>4, <2>6, <3>1, <3>3 DEF Number
    <3> QED BY <3>1, <3>2, <3>3 DEF Number
  <2> QED BY <2>5, <2>6
<1>4. CASE UNCHANGED <<picked, chosen>>
  BY <1>4 DEF ChosenSoFar
<1>5. \/ \E s \in Humans, c \in Cards : Pick(s, c)
      \/ \E c \in Cards : TakeCard(c)
      \/ UNCHANGED <<picked, chosen>>
  BY DEF Next, HostStep, Tick, Outside, LosePick, LoseMessage, Deliver, DropStale,
         Submit, AwaitHumans, StartSweep, AwaitSecondPick, PassPack, NextSweep,
         StartRound, Finish, vars, podVars
<1> QED BY <1>2, <1>3, <1>4, <1>5

(* AsChosen: a person's n-th card is one they clicked when asked for the      *)
(* n-th: no late or repeated pick is used up on a later pack (draftHost.ts).  *)
THEOREM CardsAsChosen == Spec => []AsChosen
<1>1. Init => ChosenSoFar
  <2> SUFFICES ASSUME Init PROVE ChosenSoFar
    OBVIOUS
  <2>1. \A s \in Humans : picked[s] = <<>>
    BY SeatFacts DEF Init
  <2>2. Len(<<>>) = 0 /\ \A n \in 1..0 : FALSE
    OBVIOUS
  <2> QED BY <2>1, <2>2 DEF ChosenSoFar
<1>2. IInv /\ ChosenSoFar /\ [Next]_vars => ChosenSoFar'
  BY ChosenStep
<1>3. IInv /\ ChosenSoFar => AsChosen
  <2> SUFFICES ASSUME IInv, ChosenSoFar PROVE AsChosen
    OBVIOUS
  <2>1. \A s \in Humans : DOMAIN picked[s] = 1..Len(picked[s])
    BY SeatFacts, LenProperties DEF IInv, Types
  <2> QED BY <2>1 DEF ChosenSoFar, AsChosen
<1> QED BY <1>1, <1>2, <1>3, DraftInvariant, PTL DEF Spec

-----------------------------------------------------------------------------
(* Where the copies of a card are                                             *)

(* The places of card c in the piles h[p], for p in D.                        *)
Spread(D, h, c) == UNION {{p} \X Places(h[p], c) : p \in D}

LEMMA SpreadHas ==
    ASSUME NEW D, NEW h, NEW c, NEW x
    PROVE  x \in Spread(D, h, c) <=>
             \E p \in D : \E i \in DOMAIN h[p] : h[p][i] = c /\ x = <<p, i>>
BY DEF Spread, Places

LEMMA PairInSpread ==
    ASSUME NEW D, NEW h, NEW c, NEW p, NEW i
    PROVE  <<p, i>> \in Spread(D, h, c) <=> p \in D /\ i \in DOMAIN h[p] /\ h[p][i] = c
BY SpreadHas

(* Two sets whose elements are mapped to one another, there and back, have    *)
(* the same size.                                                             *)
LEMMA SameSize ==
    ASSUME NEW S, NEW T, NEW f \in [S -> T], NEW g \in [T -> S],
           \A x \in S : g[f[x]] = x,
           \A y \in T : f[g[y]] = y,
           IsFiniteSet(S)
    PROVE  IsFiniteSet(T) /\ Cardinality(T) = Cardinality(S)
<1>1. f \in Bijection(S, T)
  <2>1. \A a, b \in S : f[a] = f[b] => a = b
    OBVIOUS
  <2>2. \A t \in T : \E s \in S : f[s] = t
    OBVIOUS
  <2> QED BY <2>1, <2>2, Fun_IsBij
<1>2. ExistsBijection(S, T)
  BY <1>1, Fun_ExistsBij
<1> QED BY <1>2, FS_Bijection

(* f and g match the piles h with the piles k one by one.                     *)
Matched(D, E, h, k, f, g) ==
    /\ f \in [D -> E] /\ g \in [E -> D]
    /\ \A p \in D : g[f[p]] = p /\ k[f[p]] = h[p]
    /\ \A e \in E : f[g[e]] = e

(* Moving whole piles moves the places of a card with them.                   *)
LEMMA PilesMoved ==
    ASSUME NEW D, NEW E, NEW h, NEW k, NEW f, NEW g, Matched(D, E, h, k, f, g),
           NEW c, IsFiniteSet(Spread(D, h, c))
    PROVE  /\ IsFiniteSet(Spread(E, k, c))
           /\ Cardinality(Spread(E, k, c)) = Cardinality(Spread(D, h, c))
<1>1. /\ f \in [D -> E] /\ g \in [E -> D]
      /\ \A p \in D : g[f[p]] = p /\ k[f[p]] = h[p]
      /\ \A e \in E : f[g[e]] = e
  BY DEF Matched
<1> DEFINE S == Spread(D, h, c)
           T == Spread(E, k, c)
           F == [x \in S |-> <<f[x[1]], x[2]>>]
           G == [y \in T |-> <<g[y[1]], y[2]>>]
<1>2. ASSUME NEW x \in S PROVE F[x] \in T /\ G[F[x]] = x
  <2>1. PICK p \in D : \E i \in DOMAIN h[p] : h[p][i] = c /\ x = <<p, i>>
    BY SpreadHas
  <2>2. PICK i \in DOMAIN h[p] : h[p][i] = c /\ x = <<p, i>>
    BY <2>1
  <2>3. F[x] = <<f[p], i>>
    BY <2>2
  <2>4. <<f[p], i>> \in T
    BY <1>1, <2>2, PairInSpread
  <2>5. G[<<f[p], i>>] = <<g[f[p]], i>>
    BY <2>4
  <2> HIDE DEF F, G
  <2> QED BY <1>1, <2>2, <2>3, <2>4, <2>5
<1>3. ASSUME NEW y \in T PROVE G[y] \in S /\ F[G[y]] = y
  <2>1. PICK e \in E : \E i \in DOMAIN k[e] : k[e][i] = c /\ y = <<e, i>>
    BY SpreadHas
  <2>2. PICK i \in DOMAIN k[e] : k[e][i] = c /\ y = <<e, i>>
    BY <2>1
  <2>3. G[y] = <<g[e], i>>
    BY <2>2
  <2>4. g[e] \in D /\ k[e] = h[g[e]]
    <3>1. g[e] \in D
      BY <1>1
    <3>2. k[f[g[e]]] = h[g[e]]
      BY <1>1, <3>1
    <3> QED BY <1>1, <3>1, <3>2
  <2>5. <<g[e], i>> \in S
    BY <2>2, <2>4, PairInSpread
  <2>6. F[<<g[e], i>>] = <<f[g[e]], i>>
    BY <2>5
  <2> HIDE DEF F, G
  <2> QED BY <1>1, <2>2, <2>3, <2>5, <2>6
<1>4. F \in [S -> T] /\ G \in [T -> S]
  <2>1. \A x \in S : <<f[x[1]], x[2]>> \in T
    BY <1>2
  <2>2. \A y \in T : <<g[y[1]], y[2]>> \in S
    BY <1>3
  <2> HIDE DEF S, T
  <2> QED BY <2>1, <2>2
<1> HIDE DEF S, T, F, G
<1>5. IsFiniteSet(T) /\ Cardinality(T) = Cardinality(S)
  <2>1. IsFiniteSet(S)
    BY DEF S
  <2> QED BY <1>2, <1>3, <1>4, <2>1, SameSize
<1> QED BY <1>5 DEF S, T

(* A pile without cards counts for nothing.                                   *)
LEMMA EmptyPile ==
    ASSUME NEW D, NEW h, NEW c, NEW a, h[a] = <<>>
    PROVE  Spread(D \ {a}, h, c) = Spread(D, h, c)
<1>1. DOMAIN h[a] = {}
  OBVIOUS
<1>2. ASSUME NEW x, x \in Spread(D, h, c) PROVE x \in Spread(D \ {a}, h, c)
  <2>1. PICK p \in D : \E i \in DOMAIN h[p] : h[p][i] = c /\ x = <<p, i>>
    BY <1>2, SpreadHas
  <2>2. p \in D \ {a}
    BY <1>1, <2>1
  <2> QED BY <2>1, <2>2, SpreadHas
<1>3. ASSUME NEW x, x \in Spread(D \ {a}, h, c) PROVE x \in Spread(D, h, c)
  <2>1. \E p \in D \ {a} : \E i \in DOMAIN h[p] : h[p][i] = c /\ x = <<p, i>>
    BY <1>3, SpreadHas
  <2> QED BY <2>1, SpreadHas
<1> QED BY <1>2, <1>3

(* Of the piles h, k is what they are when the card at place m of pile a is    *)
(* put on pile b.                                                             *)
Moves(D, h, k, a, b, card, m) ==
    /\ a \in D /\ b \in D /\ a # b /\ m \in 1..Len(h[a])
    /\ h[a] \in Seq(Cards) /\ k[a] \in Seq(Cards) /\ h[b] \in Seq(Cards)
    /\ Len(k[a]) = Len(h[a]) - 1 /\ Without(h[a], m, card, k[a])
    /\ k[b] = Append(h[b], card)
    /\ \A p \in D : p # a /\ p # b => k[p] = h[p]

(* It keeps the number of copies of every card.                               *)
LEMMA CardMoved ==
    ASSUME NEW D, NEW h, NEW k, NEW a, NEW b, NEW card \in Cards, NEW m,
           Moves(D, h, k, a, b, card, m),
           NEW c, IsFiniteSet(Spread(D, h, c))
    PROVE  /\ IsFiniteSet(Spread(D, k, c))
           /\ Cardinality(Spread(D, k, c)) = Cardinality(Spread(D, h, c))
<1>1. /\ a \in D /\ b \in D /\ a # b /\ m \in 1..Len(h[a])
      /\ h[a] \in Seq(Cards) /\ k[a] \in Seq(Cards) /\ h[b] \in Seq(Cards)
      /\ Len(k[a]) = Len(h[a]) - 1 /\ Without(h[a], m, card, k[a])
      /\ k[b] = Append(h[b], card)
      /\ \A p \in D : p # a /\ p # b => k[p] = h[p]
  BY DEF Moves
<1> DEFINE S == Spread(D, h, c)
           T == Spread(D, k, c)
           n == Len(h[a])
           z == Len(h[b]) + 1
           To(x) == IF x[1] = a /\ x[2] = m THEN <<b, z>>
                    ELSE IF x[1] = a /\ x[2] > m THEN <<a, x[2] - 1>> ELSE x
           From(y) == IF y[1] = b /\ y[2] = z THEN <<a, m>>
                      ELSE IF y[1] = a /\ y[2] >= m THEN <<a, y[2] + 1>> ELSE y
           F == [x \in S |-> To(x)]
           G == [y \in T |-> From(y)]
<1>2. /\ n \in Nat /\ m \in 1..n /\ z \in Nat /\ z >= 1
      /\ DOMAIN h[a] = 1..n /\ DOMAIN k[a] = 1..n - 1
      /\ DOMAIN h[b] = 1..z - 1 /\ DOMAIN k[b] = 1..z
  <2>1. DOMAIN h[a] = 1..n /\ DOMAIN k[a] = 1..n - 1 /\ DOMAIN h[b] = 1..Len(h[b])
        /\ n \in Nat /\ Len(h[b]) \in Nat
    BY <1>1, LenProperties
  <2>2. k[b] \in Seq(Cards) /\ Len(k[b]) = z
    BY <1>1, AppendProperties
  <2> QED BY <1>1, <2>1, <2>2, LenProperties
<1>3. /\ h[a][m] = card
      /\ \A j \in 1..n - 1 : k[a][j] = IF j < m THEN h[a][j] ELSE h[a][j + 1]
      /\ k[b][z] = card /\ \A j \in 1..z - 1 : k[b][j] = h[b][j]
  <2>1. k[b][z] = card /\ \A j \in 1..z - 1 : k[b][j] = h[b][j]
    BY <1>1, AppendProperties, LenProperties
  <2> QED BY <1>1, <2>1 DEF Without
<1> HIDE DEF n, z
<1>4. ASSUME NEW x \in S PROVE To(x) \in T /\ From(To(x)) = x
  <2>1. PICK p \in D : \E i \in DOMAIN h[p] : h[p][i] = c /\ x = <<p, i>>
    BY SpreadHas
  <2>2. PICK i \in DOMAIN h[p] : h[p][i] = c /\ x = <<p, i>>
    BY <2>1
  <2>3. CASE p = a /\ i = m
    <3>1. To(x) = <<b, z>> /\ <<b, z>> \in T
      BY <1>1, <1>2, <1>3, <2>2, <2>3, PairInSpread
    <3> QED BY <1>1, <2>2, <2>3, <3>1
  <2>4. CASE p = a /\ i < m
    <3>1. <<a, i>> \in T
      <4>1. i \in 1..n - 1 /\ k[a][i] = c
        BY <1>1, <1>2, <1>3, <2>2, <2>4
      <4> QED BY <1>1, <1>2, <4>1, PairInSpread
    <3>2. To(x) = x
      BY <1>1, <1>2, <2>2, <2>4
    <3> QED BY <1>1, <1>2, <2>2, <2>4, <3>1, <3>2
  <2>5. CASE p = a /\ i > m
    <3>1. i - 1 \in 1..n - 1 /\ i - 1 >= m /\ i - 1 + 1 = i /\ i \in Nat
      BY <1>1, <1>2, <2>5
    <3>2. To(x) = <<a, i - 1>> /\ <<a, i - 1>> \in T
      <4>1. k[a][i - 1] = c
        BY <1>1, <1>2, <1>3, <2>2, <2>5, <3>1
      <4>2. <<a, i - 1>> \in T
        BY <1>1, <1>2, <3>1, <4>1, PairInSpread
      <4>3. To(x) = <<a, i - 1>>
        BY <2>2, <2>5, <3>1, <1>2
      <4> QED BY <4>2, <4>3
    <3>3. From(<<a, i - 1>>) = <<a, i>>
      BY <1>1, <3>1
    <3> HIDE DEF To, From
    <3> QED BY <2>2, <2>5, <3>2, <3>3
  <2>6. CASE p = b
    <3>1. <<b, i>> \in T /\ i # z
      <4>1. i \in 1..z /\ i # z /\ k[b][i] = c
        BY <1>1, <1>2, <1>3, <2>2, <2>6
      <4> QED BY <1>1, <1>2, <4>1, PairInSpread
    <3>2. To(x) = x
      BY <1>1, <2>2, <2>6
    <3> QED BY <1>1, <2>2, <2>6, <3>1, <3>2
  <2>7. CASE p # a /\ p # b
    <3>1. To(x) = x /\ <<p, i>> \in T
      BY <1>1, <2>2, <2>7, PairInSpread
    <3> QED BY <2>2, <2>7, <3>1
  <2> HIDE DEF To, From
  <2>8. p = a => i = m \/ i < m \/ i > m
    BY <1>1, <1>2
  <2> QED BY <2>3, <2>4, <2>5, <2>6, <2>7, <2>8
<1>5. ASSUME NEW y \in T PROVE From(y) \in S /\ To(From(y)) = y
  <2>1. PICK p \in D : \E i \in DOMAIN k[p] : k[p][i] = c /\ y = <<p, i>>
    BY SpreadHas
  <2>2. PICK i \in DOMAIN k[p] : k[p][i] = c /\ y = <<p, i>>
    BY <2>1
  <2>3. CASE p = b /\ i = z
    <3>1. From(y) = <<a, m>> /\ <<a, m>> \in S
      BY <1>1, <1>2, <1>3, <2>2, <2>3, PairInSpread
    <3> QED BY <1>1, <2>2, <2>3, <3>1
  <2>4. CASE p = b /\ i # z
    <3>1. <<b, i>> \in S
      <4>1. i \in 1..z - 1 /\ h[b][i] = c
        BY <1>1, <1>2, <1>3, <2>2, <2>4
      <4> QED BY <1>1, <1>2, <4>1, PairInSpread
    <3>2. From(y) = y
      BY <1>1, <2>2, <2>4
    <3> QED BY <1>1, <2>2, <2>4, <3>1, <3>2
  <2>5. CASE p = a /\ i >= m
    <3>1. i + 1 \in 1..n /\ i + 1 > m /\ i + 1 # m /\ i + 1 - 1 = i /\ i \in Nat /\ ~(i < m)
      BY <1>1, <1>2, <2>5
    <3>2. From(y) = <<a, i + 1>> /\ <<a, i + 1>> \in S
      <4>1. h[a][i + 1] = c
        BY <1>1, <1>2, <1>3, <2>2, <2>5, <3>1
      <4>2. <<a, i + 1>> \in S
        BY <1>1, <1>2, <3>1, <4>1, PairInSpread
      <4>3. From(y) = <<a, i + 1>>
        BY <2>2, <2>5, <3>1, <1>2
      <4> QED BY <4>2, <4>3
    <3>3. To(<<a, i + 1>>) = <<a, i>>
      BY <3>1
    <3> HIDE DEF To, From
    <3> QED BY <2>2, <2>5, <3>2, <3>3
  <2>6. CASE p = a /\ i < m
    <3>1. <<a, i>> \in S
      <4>1. i \in 1..n /\ i \in 1..n - 1 /\ h[a][i] = c
        BY <1>1, <1>2, <1>3, <2>2, <2>6
      <4> QED BY <1>1, <1>2, <4>1, PairInSpread
    <3>2. From(y) = y
      BY <1>1, <1>2, <2>2, <2>6
    <3> QED BY <1>1, <1>2, <2>2, <2>6, <3>1, <3>2
  <2>7. CASE p # a /\ p # b
    <3>1. From(y) = y /\ <<p, i>> \in S
      BY <1>1, <2>2, <2>7, PairInSpread
    <3> QED BY <2>2, <2>7, <3>1
  <2> HIDE DEF To, From
  <2>8. p = a => i < m \/ i >= m
    BY <1>1, <1>2
  <2> QED BY <2>3, <2>4, <2>5, <2>6, <2>7, <2>8
<1> HIDE DEF S, T, To, From
<1>6. /\ F \in [S -> T] /\ G \in [T -> S]
      /\ \A x \in S : F[x] = To(x) /\ \A y \in T : G[y] = From(y)
  BY <1>4, <1>5
<1> HIDE DEF F, G
<1>7. \A x \in S : G[F[x]] = x
  BY <1>4, <1>6
<1>8. \A y \in T : F[G[y]] = y
  BY <1>5, <1>6
<1>9. IsFiniteSet(T) /\ Cardinality(T) = Cardinality(S)
  <2>1. IsFiniteSet(S)
    BY DEF S
  <2> QED BY <1>6, <1>7, <1>8, <2>1, SameSize
<1> QED BY <1>9 DEF S, T

-----------------------------------------------------------------------------
(* The piles of a pod: q are its queues, k the cards picked                   *)

PilesOf(q) == UNION {{s} \X (0..Len(q[s])) : s \in Seats}

Heap(q, k) ==
    [p \in PilesOf(q) |-> IF p[2] = 0 THEN k[p[1]] ELSE q[p[1]][p[2]].cards]

Held(q, k, c) == Spread(PilesOf(q), Heap(q, k), c)

LEMMA PilesHas ==
    ASSUME NEW q, NEW p
    PROVE  p \in PilesOf(q) <=> \E s \in Seats : \E i \in 0..Len(q[s]) : p = <<s, i>>
BY DEF PilesOf

LEMMA PileThere ==
    ASSUME NEW q, NEW s \in Seats, NEW i \in 0..Len(q[s]), NEW p, p = <<s, i>>
    PROVE  p \in PilesOf(q) /\ p[1] = s /\ p[2] = i
BY PilesHas

LEMMA CopiesAre ==
    ASSUME NEW q, NEW k, NEW c
    PROVE  UNION {{p} \X Places(IF p[2] = 0 THEN k[p[1]] ELSE q[p[1]][p[2]].cards, c) :
                    p \in PilesOf(q)}
             = Held(q, k, c)
<1> DEFINE H == Heap(q, k)
           At(p) == IF p[2] = 0 THEN k[p[1]] ELSE q[p[1]][p[2]].cards
<1>1. \A p \in PilesOf(q) : H[p] = At(p)
  BY DEF Heap
<1> HIDE DEF H, At
<1>2. {{p} \X Places(At(p), c) : p \in PilesOf(q)}
        = {{p} \X Places(H[p], c) : p \in PilesOf(q)}
  BY <1>1
<1> QED BY <1>2 DEF Held, Spread, H, At

(* Every copy of every card opened is in the pod.                             *)
Conserved ==
    \A c \in Cards :
        /\ IsFiniteSet(Held(queue, picked, c))
        /\ dealt[c] = Cardinality(Held(queue, picked, c))

(* What cannot be seen of the piles does not count.                           *)
LEMMA SameSpread ==
    ASSUME NEW D, NEW h, NEW k, NEW c, \A p \in D : k[p] = h[p]
    PROVE  Spread(D, k, c) = Spread(D, h, c)
<1>1. \A x : x \in Spread(D, k, c) <=> x \in Spread(D, h, c)
  BY SpreadHas
<1> QED BY <1>1

LEMMA TakeConserves ==
    ASSUME IInv, Conserved, NEW c \in Cards, TakeCard(c)
    PROVE  Conserved'
<1> DEFINE q == queue[cursor]
           P == PilesOf(queue)
           h == Heap(queue, picked)
           k == Heap(queue', picked')
           a == <<cursor, 1>>
           b == <<cursor, 0>>
<1> PICK card \in Cards, p \in OpenPacks :
      /\ cursor \in Seats /\ q # <<>>
      /\ Len(p.cards) = Len(q[1].cards) - 1
      /\ \E m \in 1..Len(q[1].cards) : Without(q[1].cards, m, card, p.cards)
      /\ queue' = [queue EXCEPT ![cursor] = [q EXCEPT ![1] = p]]
      /\ picked' = [picked EXCEPT ![cursor] = Append(@, card)]
  BY TakeIs
<1> PICK m \in 1..Len(q[1].cards) : Without(q[1].cards, m, card, p.cards)
  OBVIOUS
<1>1. /\ h = Heap(queue, picked) /\ k = Heap(queue', picked') /\ P = PilesOf(queue)
      /\ a = <<cursor, 1>> /\ b = <<cursor, 0>> /\ a # b
  OBVIOUS
<1> HIDE DEF a, b, h, k, P
<1>2. queue \in [Seats -> Seq(OpenPacks)] /\ picked \in [Seats -> Seq(Cards)]
  BY DEF IInv, Types
<1>3. dealt' = dealt
  BY DEF TakeCard
<1>4. /\ q \in Seq(OpenPacks) /\ Len(q) \in Nat /\ Len(q) >= 1
      /\ DOMAIN q = 1..Len(q) /\ q[1] \in OpenPacks
  BY <1>2, FirstGone, EmptySeq, LenProperties
<1>5. /\ Len(queue'[cursor]) = Len(q) /\ queue'[cursor][1] = p
      /\ \A i \in 2..Len(q) : queue'[cursor][i] = q[i]
      /\ \A s \in Seats : s # cursor => queue'[s] = queue[s] /\ picked'[s] = picked[s]
      /\ picked'[cursor] = Append(picked[cursor], card)
  <2>1. queue'[cursor] = [q EXCEPT ![1] = p]
    BY <1>2
  <2>2. [q EXCEPT ![1] = p] \in Seq(OpenPacks) /\ Len([q EXCEPT ![1] = p]) = Len(q)
    BY <1>4, ExceptSeq
  <2> QED BY <1>2, <1>4, <2>1, <2>2
<1> HIDE DEF q
<1>6. \A s \in Seats : Len(queue'[s]) = Len(queue[s])
  BY <1>5 DEF q
<1>7. PilesOf(queue') = P
  BY <1>1, <1>6 DEF PilesOf
<1> HIDE DEF h, k
<1>8. /\ \A r \in P : h[r] = IF r[2] = 0 THEN picked[r[1]] ELSE queue[r[1]][r[2]].cards
      /\ \A r \in P : k[r] = IF r[2] = 0 THEN picked'[r[1]] ELSE queue'[r[1]][r[2]].cards
  BY <1>1, <1>7 DEF Heap
<1>9. /\ a \in P /\ b \in P /\ a # b
      /\ h[a] = q[1].cards /\ h[b] = picked[cursor]
      /\ k[a] = p.cards /\ k[b] = Append(h[b], card)
  <2>1. 1 \in 0..Len(queue[cursor]) /\ 0 \in 0..Len(queue[cursor])
    BY <1>4 DEF q
  <2>2. a \in P /\ a[1] = cursor /\ a[2] = 1 /\ b \in P /\ b[1] = cursor /\ b[2] = 0
    BY <1>1, <2>1, PileThere
  <2>3. h[a] = queue[cursor][1].cards /\ h[b] = picked[cursor]
    BY <1>8, <2>2
  <2>4. k[a] = queue'[cursor][1].cards /\ k[b] = picked'[cursor]
    BY <1>8, <2>2
  <2> QED BY <1>1, <1>5, <2>2, <2>3, <2>4 DEF q
<1>10. ASSUME NEW r \in P, r # a, r # b PROVE k[r] = h[r]
  <2>1. PICK s \in Seats : \E i \in 0..Len(queue[s]) : r = <<s, i>>
    BY <1>1, PilesHas
  <2>2. PICK i \in 0..Len(queue[s]) : r = <<s, i>>
    BY <2>1
  <2>3. /\ h[r] = IF i = 0 THEN picked[s] ELSE queue[s][i].cards
        /\ k[r] = IF i = 0 THEN picked'[s] ELSE queue'[s][i].cards
    <3>1. r[1] = s /\ r[2] = i
      BY <2>2
    <3>2. h[r] = IF r[2] = 0 THEN picked[r[1]] ELSE queue[r[1]][r[2]].cards
      BY <1>8
    <3>3. k[r] = IF r[2] = 0 THEN picked'[r[1]] ELSE queue'[r[1]][r[2]].cards
      BY <1>8
    <3> QED BY <3>1, <3>2, <3>3
  <2>4. CASE s = cursor
    <3>1. i \in 2..Len(q)
      BY <1>1, <1>4, <1>10, <2>2, <2>4 DEF q
    <3> QED BY <1>5, <2>3, <2>4, <3>1 DEF q
  <2>5. CASE s # cursor
    BY <1>5, <2>3, <2>5
  <2> QED BY <2>4, <2>5
<1>11. Moves(P, h, k, a, b, card, m)
  <2>1. /\ h[a] \in Seq(Cards) /\ k[a] \in Seq(Cards) /\ h[b] \in Seq(Cards)
        /\ Len(k[a]) = Len(h[a]) - 1 /\ m \in 1..Len(h[a]) /\ Without(h[a], m, card, k[a])
    BY <1>2, <1>4, <1>9 DEF OpenPacks, q
  <2>2. \A r \in P : r # a /\ r # b => k[r] = h[r]
    BY <1>10
  <2> QED BY <1>9, <2>1, <2>2 DEF Moves
<1>12. ASSUME NEW d \in Cards, IsFiniteSet(Spread(P, h, d))
       PROVE  /\ IsFiniteSet(Spread(P, k, d))
              /\ Cardinality(Spread(P, k, d)) = Cardinality(Spread(P, h, d))
  BY <1>11, <1>12, CardMoved
<1>13. \A d \in Cards : /\ Held(queue, picked, d) = Spread(P, h, d)
                        /\ Held(queue', picked', d) = Spread(P, k, d)
  BY <1>1, <1>7 DEF Held
<1> QED BY <1>3, <1>12, <1>13 DEF Conserved

-----------------------------------------------------------------------------
(* A pack is passed: the others before seat u move up                         *)

Up(u, p) == IF p[1] = u /\ p[2] >= 2 THEN <<u, p[2] - 1>> ELSE p

Down(u, p) == IF p[1] = u /\ p[2] >= 1 THEN <<u, p[2] + 1>> ELSE p

(* Of the queues q, q2 are what they are when the first pack before u is      *)
(* taken away, and packs may have come to others.                             *)
Shifts(q, q2, u) ==
    /\ q \in [Seats -> Seq(OpenPacks)] /\ u \in Seats /\ q[u] # <<>>
    /\ q2[u] = Tail(q[u])
    /\ \A s \in Seats : s # u =>
          q2[s] \in Seq(OpenPacks) /\ \A i \in 1..Len(q[s]) : i <= Len(q2[s]) /\ q2[s][i] = q[s][i]

LEMMA ShiftFacts ==
    ASSUME NEW q, NEW q2, NEW u, Shifts(q, q2, u)
    PROVE  /\ u \in Seats /\ \A s \in Seats : Len(q[s]) \in Nat /\ Len(q2[s]) \in Nat
           /\ Len(q2[u]) = Len(q[u]) - 1
           /\ \A i \in 1..Len(q[u]) - 1 : q2[u][i] = q[u][i + 1]
           /\ \A s \in Seats : s # u => Len(q[s]) <= Len(q2[s])
<1>1. q[u] \in Seq(OpenPacks) /\ q[u] # <<>> /\ q2[u] = Tail(q[u])
  BY DEF Shifts
<1>2. /\ Len(q2[u]) = Len(q[u]) - 1 /\ q2[u] \in Seq(OpenPacks)
      /\ \A i \in 1..Len(q[u]) - 1 : q2[u][i] = q[u][i + 1]
  BY <1>1, EmptySeq, HeadTailProperties
<1>3. \A s \in Seats : Len(q[s]) \in Nat /\ Len(q2[s]) \in Nat
  <2>1. \A s \in Seats : q[s] \in Seq(OpenPacks) /\ q2[s] \in Seq(OpenPacks)
    BY <1>2 DEF Shifts
  <2> QED BY <2>1, LenProperties
<1>4. ASSUME NEW s \in Seats, s # u PROVE Len(q[s]) <= Len(q2[s])
  <2>1. Len(q[s]) # 0 => Len(q[s]) \in 1..Len(q[s])
    BY <1>3
  <2> QED BY <1>3, <1>4, <2>1 DEF Shifts
<1> QED BY <1>2, <1>3, <1>4 DEF Shifts

LEMMA PileGoesUp ==
    ASSUME NEW q, NEW q2, NEW k, NEW u, Shifts(q, q2, u),
           NEW p \in PilesOf(q), p # <<u, 1>>
    PROVE  /\ Up(u, p) \in PilesOf(q2) /\ Down(u, Up(u, p)) = p
           /\ Heap(q2, k)[Up(u, p)] = Heap(q, k)[p]
           /\ p[1] # u => Up(u, p) = p
           /\ Up(u, p)[1] = p[1]
<1>1. PICK s \in Seats : \E i \in 0..Len(q[s]) : p = <<s, i>>
  BY PilesHas
<1>2. PICK i \in 0..Len(q[s]) : p = <<s, i>>
  BY <1>1
<1>3. p[1] = s /\ p[2] = i
  BY <1>2
<1>4. Heap(q, k)[p] = IF i = 0 THEN k[s] ELSE q[s][i].cards
  BY <1>3 DEF Heap
<1>5. CASE s = u /\ i >= 2
  <2> DEFINE r == <<u, i - 1>>
  <2>1. i - 1 \in 0..Len(q2[u]) /\ i - 1 \in 1..Len(q[u]) - 1 /\ i - 1 + 1 = i /\ i - 1 # 0
    BY <1>5, ShiftFacts
  <2>2. r \in PilesOf(q2) /\ r[1] = u /\ r[2] = i - 1
    BY <2>1, ShiftFacts, PileThere
  <2>3. Up(u, p) = r
    BY <1>3, <1>5 DEF Up
  <2>4. Down(u, r) = p
    BY <1>2, <1>5, <2>1, <2>2 DEF Down
  <2>5. Heap(q2, k)[r] = q2[u][i - 1].cards
    BY <2>1, <2>2 DEF Heap
  <2>6. q2[u][i - 1] = q[u][i]
    BY <2>1, ShiftFacts
  <2> HIDE DEF r
  <2> QED BY <1>3, <1>4, <1>5, <2>2, <2>3, <2>4, <2>5, <2>6
<1>6. CASE s = u /\ ~(i >= 2)
  <2>1. i = 0
    BY <1>2, <1>6
  <2>2. Up(u, p) = p /\ Down(u, p) = p
    BY <1>3, <1>6, <2>1 DEF Up, Down
  <2>3. p \in PilesOf(q2)
    BY <1>2, <1>6, <2>1, ShiftFacts, PileThere
  <2>4. Heap(q2, k)[p] = k[s]
    BY <1>3, <2>1, <2>3 DEF Heap
  <2> QED BY <1>4, <2>1, <2>2, <2>3, <2>4
<1>7. CASE s # u
  <2>1. Up(u, p) = p /\ Down(u, p) = p
    BY <1>3, <1>7 DEF Up, Down
  <2>2. i \in 0..Len(q2[s]) /\ (i # 0 => q2[s][i] = q[s][i])
    BY <1>7, ShiftFacts DEF Shifts
  <2>3. p \in PilesOf(q2)
    BY <1>2, <2>2, PileThere
  <2>4. Heap(q2, k)[p] = IF i = 0 THEN k[s] ELSE q2[s][i].cards
    BY <1>3, <2>3 DEF Heap
  <2> QED BY <1>4, <2>1, <2>2, <2>3, <2>4
<1> QED BY <1>5, <1>6, <1>7

LEMMA PileGoesDown ==
    ASSUME NEW q, NEW q2, NEW u, Shifts(q, q2, u),
           NEW p \in PilesOf(q2), p[1] # u => p[2] <= Len(q[p[1]])
    PROVE  /\ Down(u, p) \in PilesOf(q) /\ Up(u, Down(u, p)) = p
           /\ Down(u, p) # <<u, 1>>
<1>1. PICK s \in Seats : \E i \in 0..Len(q2[s]) : p = <<s, i>>
  BY PilesHas
<1>2. PICK i \in 0..Len(q2[s]) : p = <<s, i>>
  BY <1>1
<1>3. p[1] = s /\ p[2] = i
  BY <1>2
<1>4. CASE s = u /\ i >= 1
  <2> DEFINE r == <<u, i + 1>>
  <2>1. i + 1 \in 0..Len(q[u]) /\ i + 1 >= 2 /\ i + 1 - 1 = i /\ i + 1 # 1
    BY <1>4, ShiftFacts
  <2>2. r \in PilesOf(q) /\ r[1] = u /\ r[2] = i + 1
    BY <2>1, ShiftFacts, PileThere
  <2>3. Down(u, p) = r
    BY <1>3, <1>4 DEF Down
  <2>4. Up(u, r) = p
    BY <1>2, <1>4, <2>1, <2>2 DEF Up
  <2>5. r # <<u, 1>>
    BY <2>1
  <2> HIDE DEF r
  <2> QED BY <2>2, <2>3, <2>4, <2>5
<1>5. CASE s = u /\ ~(i >= 1)
  <2>1. i = 0
    BY <1>5, ShiftFacts
  <2>2. Up(u, p) = p /\ Down(u, p) = p /\ p # <<u, 1>>
    BY <1>2, <1>3, <1>5, <2>1 DEF Up, Down
  <2>3. p \in PilesOf(q)
    BY <1>2, <1>5, <2>1, ShiftFacts, PileThere
  <2> QED BY <2>2, <2>3
<1>6. CASE s # u
  <2>1. Up(u, p) = p /\ Down(u, p) = p /\ p # <<u, 1>>
    BY <1>2, <1>3, <1>6 DEF Up, Down
  <2>2. i \in 0..Len(q[s])
    BY <1>3, <1>6, ShiftFacts
  <2>3. p \in PilesOf(q)
    BY <1>2, <2>2, PileThere
  <2> QED BY <2>1, <2>3
<1> QED BY <1>4, <1>5, <1>6

(* An empty pack goes.                                                        *)
LEMMA GoneMatched ==
    ASSUME NEW q, NEW q2, NEW k, NEW u, Shifts(q, q2, u),
           \A s \in Seats : s # u => q2[s] = q[s]
    PROVE  \E f, g : Matched(PilesOf(q) \ {<<u, 1>>}, PilesOf(q2), Heap(q, k), Heap(q2, k), f, g)
<1> DEFINE D == PilesOf(q) \ {<<u, 1>>}
           R == PilesOf(q2)
           f == [p \in D |-> Up(u, p)]
           g == [r \in R |-> Down(u, r)]
<1>1. \A p \in D : /\ Up(u, p) \in R /\ Down(u, Up(u, p)) = p
                   /\ Heap(q2, k)[Up(u, p)] = Heap(q, k)[p]
  BY PileGoesUp
<1>2. ASSUME NEW r \in R PROVE Down(u, r) \in D /\ Up(u, Down(u, r)) = r
  <2>1. PICK s \in Seats : \E i \in 0..Len(q2[s]) : r = <<s, i>>
    BY PilesHas
  <2>2. r[1] # u => r[2] <= Len(q[r[1]])
    BY <2>1, ShiftFacts
  <2> QED BY <2>2, PileGoesDown
<1>3. f \in [D -> R] /\ g \in [R -> D]
  BY <1>1, <1>2
<1>4. \A p \in D : g[f[p]] = p /\ Heap(q2, k)[f[p]] = Heap(q, k)[p]
  BY <1>1
<1>5. \A r \in R : f[g[r]] = r
  BY <1>2
<1> HIDE DEF f, g
<1>6. Matched(D, R, Heap(q, k), Heap(q2, k), f, g)
  BY <1>3, <1>4, <1>5 DEF Matched
<1> QED BY <1>6

(* A pack with cards becomes the last one before another seat.                *)
LEMMA MovedMatched ==
    ASSUME NEW q, NEW q2, NEW k, NEW u, Shifts(q, q2, u),
           NEW n \in Seats, n # u, NEW p \in OpenPacks, p.cards = q[u][1].cards,
           q2[n] = Append(q[n], p),
           \A s \in Seats : s # u /\ s # n => q2[s] = q[s]
    PROVE  \E f, g : Matched(PilesOf(q), PilesOf(q2), Heap(q, k), Heap(q2, k), f, g)
<1> DEFINE P == PilesOf(q)
           R == PilesOf(q2)
           x == Len(q[n]) + 1
           To(r) == IF r = <<u, 1>> THEN <<n, x>> ELSE Up(u, r)
           From(r) == IF r = <<n, x>> THEN <<u, 1>> ELSE Down(u, r)
           f == [r \in P |-> To(r)]
           g == [r \in R |-> From(r)]
<1>1. /\ x \in Nat /\ x >= 1 /\ u \in Seats
      /\ Len(q2[n]) = x /\ q2[n][x] = p
  <2>1. q[n] \in Seq(OpenPacks)
    BY DEF Shifts
  <2> QED BY <2>1, AppendProperties, LenProperties, ShiftFacts
<1>2. ASSUME NEW r \in P, r # <<u, 1>>
      PROVE  /\ To(r) \in R /\ From(To(r)) = r
             /\ Heap(q2, k)[To(r)] = Heap(q, k)[r]
  <2>1. PICK s \in Seats : \E i \in 0..Len(q[s]) : r = <<s, i>>
    BY PilesHas
  <2>2. PICK i \in 0..Len(q[s]) : r = <<s, i>>
    BY <2>1
  <2>3. /\ Up(u, r) \in R /\ Down(u, Up(u, r)) = r
        /\ Heap(q2, k)[Up(u, r)] = Heap(q, k)[r]
        /\ r[1] # u => Up(u, r) = r
        /\ Up(u, r)[1] = r[1]
    <3>1. r \in PilesOf(q) /\ r # <<u, 1>>
      BY <1>2
    <3> HIDE DEF To, From, f, g, P
    <3>2. /\ Up(u, r) \in PilesOf(q2) /\ Down(u, Up(u, r)) = r
          /\ Heap(q2, k)[Up(u, r)] = Heap(q, k)[r]
          /\ r[1] # u => Up(u, r) = r
          /\ Up(u, r)[1] = r[1]
      BY <3>1, PileGoesUp
    <3> QED BY <3>2
  <2>4. Up(u, r) # <<n, x>>
    <3>1. CASE s = n
      <4>1. i # x
        BY <1>1, <3>1
      <4>2. Up(u, r) = <<n, i>>
        BY <2>2, <2>3, <3>1
      <4> QED BY <4>1, <4>2
    <3>2. CASE s # n
      <4>1. Up(u, r)[1] # n
        BY <2>2, <2>3, <3>2
      <4> QED BY <4>1
    <3> QED BY <3>1, <3>2
  <2> QED BY <1>2, <2>3, <2>4
<1>3. ASSUME NEW r \in R, r # <<n, x>>
      PROVE  From(r) \in P /\ To(From(r)) = r
  <2>1. PICK s \in Seats : \E i \in 0..Len(q2[s]) : r = <<s, i>>
    BY PilesHas
  <2>2. PICK i \in 0..Len(q2[s]) : r = <<s, i>>
    BY <2>1
  <2>3. r[1] # u => r[2] <= Len(q[r[1]])
    <3>1. CASE s = n
      BY <1>1, <1>3, <2>2, <3>1
    <3>2. CASE s # n /\ s # u
      BY <2>2, <3>2, ShiftFacts
    <3> QED BY <2>2, <3>1, <3>2
  <2>4. Down(u, r) \in P /\ Up(u, Down(u, r)) = r /\ Down(u, r) # <<u, 1>>
    BY <2>3, PileGoesDown
  <2> QED BY <1>3, <2>4
<1>4. /\ To(<<u, 1>>) \in R /\ From(To(<<u, 1>>)) = <<u, 1>>
      /\ Heap(q2, k)[To(<<u, 1>>)] = Heap(q, k)[<<u, 1>>]
      /\ From(<<n, x>>) \in P /\ To(From(<<n, x>>)) = <<n, x>>
  <2> DEFINE a == <<u, 1>>
             z == <<n, x>>
  <2>1. 1 \in 0..Len(q[u]) /\ x \in 0..Len(q2[n])
    <3>1. q[u] \in Seq(OpenPacks) /\ q[u] # <<>>
      BY DEF Shifts
    <3> QED BY <1>1, <3>1, EmptySeq, LenProperties
  <2>2. /\ a \in P /\ a[1] = u /\ a[2] = 1
        /\ z \in R /\ z[1] = n /\ z[2] = x
    BY <1>1, <2>1, PileThere
  <2>3. Heap(q, k)[a] = q[u][1].cards
    BY <2>2 DEF Heap
  <2>4. Heap(q2, k)[z] = q2[n][x].cards
    BY <1>1, <2>2 DEF Heap
  <2>5. To(a) = z /\ From(z) = a
    OBVIOUS
  <2> HIDE DEF To, From, a, z
  <2>6. /\ To(a) \in R /\ From(To(a)) = a
        /\ Heap(q2, k)[To(a)] = Heap(q, k)[a]
        /\ From(z) \in P /\ To(From(z)) = z
    BY <1>1, <2>2, <2>3, <2>4, <2>5
  <2> QED BY <2>6 DEF a, z
<1> HIDE DEF To, From
<1>5. ASSUME NEW r \in P
      PROVE  To(r) \in R /\ From(To(r)) = r /\ Heap(q2, k)[To(r)] = Heap(q, k)[r]
  BY <1>2, <1>4
<1>6. ASSUME NEW r \in R PROVE From(r) \in P /\ To(From(r)) = r
  BY <1>3, <1>4
<1> HIDE DEF P, R
<1>7. f \in [P -> R] /\ g \in [R -> P]
  BY <1>5, <1>6
<1>8. \A r \in P : g[f[r]] = r /\ Heap(q2, k)[f[r]] = Heap(q, k)[r]
  BY <1>5
<1>9. \A r \in R : f[g[r]] = r
  BY <1>6
<1> HIDE DEF f, g
<1>10. Matched(P, R, Heap(q, k), Heap(q2, k), f, g)
  BY <1>7, <1>8, <1>9 DEF Matched
<1> QED BY <1>10 DEF P, R

(* Held is the same before and after.                                         *)
LEMMA PassConserves ==
    ASSUME IInv, Conserved, PassPack
    PROVE  Conserved'
<1>1. /\ cursor \in Seats /\ picked' = picked
      /\ \/ queue[cursor] = <<>> /\ queue' = queue
         \/ queue[cursor] # <<>> /\ Gone(queue')
         \/ queue[cursor] # <<>> /\ \E p \in OpenPacks : MovedOn(queue', p)
  BY PassIs
<1>2. dealt' = dealt
  BY DEF PassPack
<1>3. queue \in [Seats -> Seq(OpenPacks)] /\ Neighbor(cursor) \in Seats /\ Neighbor(cursor) # cursor
  <2>1. queue \in [Seats -> Seq(OpenPacks)] /\ round \in Nat
    BY DraftAssumption DEF IInv, Types
  <2> QED BY <1>1, <2>1, NeighborRing
<1> SUFFICES ASSUME NEW c \in Cards
             PROVE  /\ IsFiniteSet(Held(queue', picked', c))
                    /\ Cardinality(Held(queue', picked', c)) = Cardinality(Held(queue, picked, c))
  BY <1>2 DEF Conserved
<1>4. IsFiniteSet(Held(queue, picked, c))
  BY DEF Conserved
<1>5. CASE queue' = queue
  BY <1>1, <1>4, <1>5
<1>6. CASE queue[cursor] # <<>> /\ Gone(queue')
  <2> DEFINE a == <<cursor, 1>>
  <2>1. Shifts(queue, queue', cursor) /\ \A s \in Seats : s # cursor => queue'[s] = queue[s]
    <3>1. ASSUME NEW s \in Seats, s # cursor
          PROVE  /\ queue'[s] = queue[s] /\ queue'[s] \in Seq(OpenPacks)
                 /\ \A i \in 1..Len(queue[s]) : i <= Len(queue'[s])
      BY <1>3, <1>6, <3>1, LenProperties DEF Gone
    <3> QED BY <1>1, <1>3, <1>6, <3>1 DEF Gone, Shifts
  <2>2. PICK f, g : Matched(PilesOf(queue) \ {a}, PilesOf(queue'),
                            Heap(queue, picked), Heap(queue', picked), f, g)
    BY <2>1, GoneMatched
  <2>3. Heap(queue, picked)[a] = <<>>
    <3>1. 1 \in 0..Len(queue[cursor])
      BY <1>1, <1>3, <1>6, EmptySeq, LenProperties
    <3>2. a \in PilesOf(queue) /\ a[1] = cursor /\ a[2] = 1
      BY <1>1, <3>1, PileThere
    <3>3. Heap(queue, picked)[a] = queue[cursor][1].cards
      BY <3>2 DEF Heap
    <3> QED BY <1>6, <3>3 DEF Gone
  <2> HIDE DEF a
  <2>4. Spread(PilesOf(queue) \ {a}, Heap(queue, picked), c) = Held(queue, picked, c)
    BY <2>3, EmptyPile DEF Held
  <2>5. /\ IsFiniteSet(Spread(PilesOf(queue'), Heap(queue', picked), c))
        /\ Cardinality(Spread(PilesOf(queue'), Heap(queue', picked), c))
             = Cardinality(Spread(PilesOf(queue) \ {a}, Heap(queue, picked), c))
    BY <1>4, <2>2, <2>4, PilesMoved
  <2> QED BY <1>1, <2>4, <2>5 DEF Held
<1>7. CASE queue[cursor] # <<>> /\ \E p \in OpenPacks : MovedOn(queue', p)
  <2> DEFINE n == Neighbor(cursor)
  <2>1. PICK p \in OpenPacks : MovedOn(queue', p)
    BY <1>7
  <2>2. n \in Seats /\ n # cursor
    BY <1>3
  <2>3. /\ queue' \in [Seats -> Seq(OpenPacks)] /\ p.cards = queue[cursor][1].cards
        /\ queue'[cursor] = Tail(queue[cursor]) /\ queue'[n] = Append(queue[n], p)
        /\ \A s \in Seats : s # cursor /\ s # n => queue'[s] = queue[s]
    BY <2>1 DEF MovedOn
  <2> HIDE DEF n
  <2>4. Shifts(queue, queue', cursor)
    <3>1. ASSUME NEW s \in Seats, s # cursor, NEW i \in 1..Len(queue[s])
          PROVE  i <= Len(queue'[s]) /\ queue'[s][i] = queue[s][i]
      <4>1. queue[s] \in Seq(OpenPacks)
        BY <1>3
      <4>2. CASE s = n
        <5>1. Len(queue'[s]) = Len(queue[s]) + 1 /\ queue'[s][i] = queue[s][i]
          BY <2>3, <4>1, <4>2, AppendProperties
        <5> QED BY <4>1, <5>1, LenProperties
      <4>3. CASE s # n
        BY <2>3, <3>1, <4>1, <4>3, LenProperties
      <4> QED BY <4>2, <4>3
    <3> QED BY <1>1, <1>3, <1>7, <2>3, <3>1 DEF Shifts
  <2>5. PICK f, g : Matched(PilesOf(queue), PilesOf(queue'),
                            Heap(queue, picked), Heap(queue', picked), f, g)
    BY <2>2, <2>3, <2>4, MovedMatched
  <2>6. IsFiniteSet(Spread(PilesOf(queue), Heap(queue, picked), c))
    BY <1>4 DEF Held
  <2>7. /\ IsFiniteSet(Spread(PilesOf(queue'), Heap(queue', picked), c))
        /\ Cardinality(Spread(PilesOf(queue'), Heap(queue', picked), c))
             = Cardinality(Spread(PilesOf(queue), Heap(queue, picked), c))
    BY <2>5, <2>6, PilesMoved
  <2> QED BY <1>1, <2>7 DEF Held
<1> QED BY <1>1, <1>5, <1>6, <1>7

-----------------------------------------------------------------------------
(* Packs are opened when there are none                                       *)

Bare == [s \in Seats |-> <<>>]

LEMMA InHeld ==
    ASSUME NEW q, NEW k, NEW c, NEW y, \A s \in Seats : Len(q[s]) \in Nat
    PROVE  y \in Held(q, k, c) <=>
             \/ \E s \in Seats : \E j \in DOMAIN k[s] : k[s][j] = c /\ y = <<<<s, 0>>, j>>
             \/ \E s \in Seats : \E i \in 1..Len(q[s]) : \E j \in DOMAIN q[s][i].cards :
                   q[s][i].cards[j] = c /\ y = <<<<s, i>>, j>>
<1> DEFINE P == PilesOf(q)
           H == Heap(q, k)
<1>1. y \in Held(q, k, c) <=> \E p \in P : \E j \in DOMAIN H[p] : H[p][j] = c /\ y = <<p, j>>
  BY SpreadHas DEF Held
<1>2. ASSUME NEW s \in Seats, NEW i \in 0..Len(q[s]), NEW p, p = <<s, i>>
      PROVE  p \in P /\ H[p] = IF i = 0 THEN k[s] ELSE q[s][i].cards
  <2>1. p \in P /\ p[1] = s /\ p[2] = i
    BY <1>2, PileThere
  <2> QED BY <2>1 DEF Heap
<1> HIDE DEF H
<1>3. ASSUME y \in Held(q, k, c)
      PROVE  \/ \E s \in Seats : \E j \in DOMAIN k[s] : k[s][j] = c /\ y = <<<<s, 0>>, j>>
             \/ \E s \in Seats : \E i \in 1..Len(q[s]) : \E j \in DOMAIN q[s][i].cards :
                   q[s][i].cards[j] = c /\ y = <<<<s, i>>, j>>
  <2>1. PICK p \in P : \E j \in DOMAIN H[p] : H[p][j] = c /\ y = <<p, j>>
    BY <1>1, <1>3
  <2>2. PICK s \in Seats : \E i \in 0..Len(q[s]) : p = <<s, i>>
    BY PilesHas
  <2>3. PICK i \in 0..Len(q[s]) : p = <<s, i>>
    BY <2>2
  <2>4. H[p] = IF i = 0 THEN k[s] ELSE q[s][i].cards
    BY <1>2, <2>3
  <2>5. CASE i = 0
    BY <2>1, <2>3, <2>4, <2>5
  <2>6. CASE i # 0
    <3>1. i \in 1..Len(q[s])
      BY <2>6
    <3> QED BY <2>1, <2>3, <2>4, <2>6, <3>1
  <2> QED BY <2>5, <2>6
<1>4. ASSUME NEW s \in Seats, NEW j \in DOMAIN k[s], k[s][j] = c, y = <<<<s, 0>>, j>>
      PROVE  y \in Held(q, k, c)
  <2> DEFINE p == <<s, 0>>
  <2>1. p \in P /\ H[p] = k[s] /\ y = <<p, j>>
    BY <1>2, <1>4
  <2> HIDE DEF p
  <2> QED BY <1>1, <1>4, <2>1
<1>5. ASSUME NEW s \in Seats, NEW i \in 1..Len(q[s]), NEW j \in DOMAIN q[s][i].cards,
             q[s][i].cards[j] = c, y = <<<<s, i>>, j>>
      PROVE  y \in Held(q, k, c)
  <2> DEFINE p == <<s, i>>
  <2>1. i \in 0..Len(q[s]) /\ i # 0
    OBVIOUS
  <2>2. p \in P /\ H[p] = q[s][i].cards /\ y = <<p, j>>
    BY <1>2, <1>5, <2>1
  <2> HIDE DEF p
  <2> QED BY <1>1, <1>5, <2>2
<1> QED BY <1>3, <1>4, <1>5

(* The copies in the packs opened come on top of those already taken.         *)
LEMMA PacksOpened ==
    ASSUME NEW open \in [Seats -> Packs], NEW q, NEW k, NEW c,
           \A s \in Seats : Len(q[s]) = 1 /\ q[s][1].cards = open[s],
           IsFiniteSet(Held(Bare, k, c))
    PROVE  /\ IsFiniteSet(Held(q, k, c))
           /\ Cardinality(Held(q, k, c)) = Cardinality(Held(Bare, k, c)) + Opened(open, c)
           /\ Opened(open, c) \in Nat
<1> DEFINE Z == Held(Bare, k, c)
           O == {x \in Seats \X (1..PackSize) : open[x[1]][x[2]] = c}
           N == {<<<<x[1], 1>>, x[2]>> : x \in O}
           f == [x \in O |-> <<<<x[1], 1>>, x[2]>>]
           g == [y \in N |-> <<y[1][1], y[2]>>]
<1>1. \A s \in Seats : /\ Len(q[s]) = 1 /\ q[s][1].cards = open[s]
                       /\ DOMAIN open[s] = 1..PackSize /\ Len(Bare[s]) = 0
  <2> TAKE s \in Seats
  <2>1. open[s] \in Seq(Cards) /\ Len(open[s]) = PackSize
    BY DraftAssumption
  <2>2. DOMAIN open[s] = 1..PackSize
    BY <2>1, LenProperties
  <2> QED BY <2>2 DEF Bare
<1>2. IsFiniteSet(O)
  <2>1. IsFiniteSet(Seats) /\ IsFiniteSet(1..PackSize)
    BY DraftAssumption, FS_Interval DEF Seats
  <2>2. IsFiniteSet(Seats \X (1..PackSize))
    BY <2>1, FS_Product
  <2> QED BY <2>2, FS_Subset
<1>3. IsFiniteSet(N) /\ Cardinality(N) = Opened(open, c)
  <2>1. f \in [O -> N] /\ g \in [N -> O]
    <3>1. \A x \in O : x = <<x[1], x[2]>>
      OBVIOUS
    <3>2. \A y \in N : <<y[1][1], y[2]>> \in O
      BY <3>1
    <3> QED BY <3>2
  <2>2. ASSUME NEW x \in O PROVE g[f[x]] = x
    <3>1. x = <<x[1], x[2]>> /\ f[x] \in N
      BY <2>1
    <3> QED BY <3>1
  <2>3. ASSUME NEW y \in N PROVE f[g[y]] = y
    <3>1. PICK x \in O : y = <<<<x[1], 1>>, x[2]>>
      OBVIOUS
    <3>2. x = <<x[1], x[2]>>
      OBVIOUS
    <3>3. g[y] = x /\ f[x] = y
      BY <3>1, <3>2
    <3> HIDE DEF f, g
    <3> QED BY <3>3
  <2> HIDE DEF f, g, N, O
  <2>4. IsFiniteSet(N) /\ Cardinality(N) = Cardinality(O)
    BY <1>2, <2>1, <2>2, <2>3, SameSize
  <2> QED BY <2>4 DEF Opened, O
<1>4. ASSUME NEW y PROVE y \in Held(q, k, c) <=> y \in Z \/ y \in N
  <2>1. y \in Z <=> \E s \in Seats : \E j \in DOMAIN k[s] : k[s][j] = c /\ y = <<<<s, 0>>, j>>
    BY <1>1, InHeld
  <2>2. ASSUME y \in N
        PROVE  \E s \in Seats : \E j \in 1..PackSize : open[s][j] = c /\ y = <<<<s, 1>>, j>>
    <3>1. PICK x \in O : y = <<<<x[1], 1>>, x[2]>>
      BY <2>2
    <3> QED BY <3>1
  <2>3. ASSUME NEW s \in Seats, NEW j \in 1..PackSize, open[s][j] = c, y = <<<<s, 1>>, j>>
        PROVE  y \in N
    <3> DEFINE x == <<s, j>>
    <3>1. x \in O /\ y = <<<<x[1], 1>>, x[2]>>
      BY <2>3
    <3> HIDE DEF x, O
    <3> QED BY <3>1
  <2> HIDE DEF Z, N, O
  <2>4. \A s \in Seats : Len(q[s]) \in Nat
    BY <1>1
  <2>5. y \in Held(q, k, c) <=>
          \/ \E s \in Seats : \E j \in DOMAIN k[s] : k[s][j] = c /\ y = <<<<s, 0>>, j>>
          \/ \E s \in Seats : \E i \in 1..Len(q[s]) : \E j \in DOMAIN q[s][i].cards :
                q[s][i].cards[j] = c /\ y = <<<<s, i>>, j>>
    BY <2>4, InHeld
  <2>6. (\E s \in Seats : \E i \in 1..Len(q[s]) : \E j \in DOMAIN q[s][i].cards :
                q[s][i].cards[j] = c /\ y = <<<<s, i>>, j>>)
        <=> \E s \in Seats : \E j \in 1..PackSize : open[s][j] = c /\ y = <<<<s, 1>>, j>>
    <3>1. ASSUME NEW s \in Seats
          PROVE  /\ 1 \in 1..Len(q[s]) /\ \A i \in 1..Len(q[s]) : i = 1
                 /\ q[s][1].cards = open[s] /\ DOMAIN open[s] = 1..PackSize
      <4>1. Len(q[s]) = 1
        BY <1>1
      <4> QED BY <1>1, <4>1
    <3>2. ASSUME NEW s \in Seats, NEW i \in 1..Len(q[s]), NEW j \in DOMAIN q[s][i].cards,
                 q[s][i].cards[j] = c, y = <<<<s, i>>, j>>
          PROVE  j \in 1..PackSize /\ open[s][j] = c /\ y = <<<<s, 1>>, j>>
      <4>1. i = 1
        BY <3>1
      <4> QED BY <3>1, <3>2, <4>1
    <3>3. ASSUME NEW s \in Seats, NEW j \in 1..PackSize, open[s][j] = c, y = <<<<s, 1>>, j>>
          PROVE  1 \in 1..Len(q[s]) /\ j \in DOMAIN q[s][1].cards /\ q[s][1].cards[j] = c
      BY <3>1, <3>3
    <3> QED BY <3>2, <3>3
  <2> QED BY <2>1, <2>2, <2>3, <2>5, <2>6
<1>5. Z \cap N = {}
  <2>1. ASSUME NEW y, y \in Z, y \in N PROVE FALSE
    <3>1. y[1][2] = 1
      BY <2>1
    <3>2. \E s \in Seats : \E j \in DOMAIN k[s] : y = <<<<s, 0>>, j>>
      BY <1>1, <2>1, InHeld
    <3> QED BY <3>1, <3>2
  <2> QED BY <2>1
<1>6. Held(q, k, c) = Z \cup N
  BY <1>4
<1> HIDE DEF N, Z
<1>7. /\ IsFiniteSet(Z \cup N)
      /\ Cardinality(Z \cup N) = Cardinality(Z) + Cardinality(N)
  <2>1. Cardinality(Z) \in Nat /\ Cardinality(N) \in Nat
    BY <1>3, FS_CardinalityType DEF Z
  <2>2. Cardinality({}) = 0
    BY FS_EmptySet
  <2>3. IsFiniteSet(Z)
    BY DEF Z
  <2>4. IsFiniteSet(N)
    BY <1>3
  <2>5. /\ IsFiniteSet(Z \cup N)
        /\ Cardinality(Z \cup N) = Cardinality(Z) + Cardinality(N) - Cardinality(Z \cap N)
    BY <2>3, <2>4, FS_Union
  <2>6. Cardinality(Z \cap N) = 0
    BY <1>5, <2>2
  <2> HIDE DEF O
  <2> QED BY <2>1, <2>5, <2>6
<1>8. Cardinality(N) \in Nat
  BY <1>3, FS_CardinalityType
<1> QED BY <1>3, <1>6, <1>7, <1>8 DEF Z

LEMMA InitConserved == Init => Conserved
<1> SUFFICES ASSUME Init PROVE Conserved
  OBVIOUS
<1> DEFINE open == [s \in Seats |-> queue[s][1].cards]
<1>1. /\ queue \in [Seats -> {<<Fresh(p)>> : p \in Packs}]
      /\ picked = [s \in Seats |-> <<>>]
      /\ dealt = [c \in Cards |-> Opened(open, c)]
  BY DEF Init
<1>2. ASSUME NEW s \in Seats
      PROVE  queue[s][1].cards \in Packs /\ Len(queue[s]) = 1
  <2>1. PICK p \in Packs : queue[s] = <<Fresh(p)>>
    BY <1>1
  <2> QED BY <2>1 DEF Fresh
<1>3. open \in [Seats -> Packs] /\ \A s \in Seats : queue[s][1].cards = open[s]
  BY <1>2
<1> HIDE DEF open
<1> SUFFICES ASSUME NEW c \in Cards
             PROVE  /\ IsFiniteSet(Held(queue, picked, c))
                    /\ dealt[c] = Cardinality(Held(queue, picked, c))
  BY DEF Conserved
<1>4. Held(Bare, picked, c) = {}
  <2>1. \A s \in Seats : DOMAIN picked[s] = {} /\ Len(Bare[s]) = 0 /\ 1..Len(Bare[s]) = {}
    BY <1>1 DEF Bare
  <2>2. \A y : y \notin Held(Bare, picked, c)
    BY <2>1, InHeld
  <2> QED BY <2>2
<1>5. IsFiniteSet(Held(Bare, picked, c)) /\ Cardinality(Held(Bare, picked, c)) = 0
  BY <1>4, FS_EmptySet
<1>6. /\ IsFiniteSet(Held(queue, picked, c))
      /\ Cardinality(Held(queue, picked, c))
           = Cardinality(Held(Bare, picked, c)) + Opened(open, c)
      /\ Opened(open, c) \in Nat
  BY <1>2, <1>3, <1>5, PacksOpened
<1> QED BY <1>1, <1>5, <1>6

LEMMA StartRoundConserves ==
    ASSUME IInv, Conserved, StartRound
    PROVE  Conserved'
<1> PICK open \in [Seats -> Packs] :
      /\ queue' = [s \in Seats |-> <<Fresh(open[s])>>]
      /\ dealt' = [c \in Cards |-> dealt[c] + Opened(open, c)]
  BY DEF StartRound
<1>1. picked' = picked /\ NoPacks /\ queue \in [Seats -> Seq(OpenPacks)]
  BY DEF StartRound, IInv, Types
<1>2. queue = Bare
  BY <1>1 DEF NoPacks, Bare
<1>3. \A s \in Seats : Len(queue'[s]) = 1 /\ queue'[s][1].cards = open[s]
  BY DEF Fresh
<1> SUFFICES ASSUME NEW c \in Cards
             PROVE  /\ IsFiniteSet(Held(queue', picked', c))
                    /\ dealt'[c] = Cardinality(Held(queue', picked', c))
  BY DEF Conserved
<1>4. IsFiniteSet(Held(Bare, picked, c)) /\ dealt[c] = Cardinality(Held(Bare, picked, c))
  BY <1>2 DEF Conserved
<1>5. dealt'[c] = dealt[c] + Opened(open, c)
  OBVIOUS
<1> DEFINE q == queue'
<1> HIDE DEF q
<1>6. \A s \in Seats : Len(q[s]) = 1 /\ q[s][1].cards = open[s]
  BY <1>3 DEF q
<1>7. /\ IsFiniteSet(Held(q, picked, c))
      /\ Cardinality(Held(q, picked, c)) = Cardinality(Held(Bare, picked, c)) + Opened(open, c)
  BY <1>4, <1>6, PacksOpened
<1> QED BY <1>1, <1>4, <1>5, <1>7 DEF q

LEMMA StepConserves ==
    ASSUME IInv, Conserved, [Next]_vars
    PROVE  Conserved'
<1>1. CASE UNCHANGED <<queue, picked, dealt>>
  BY <1>1 DEF Conserved
<1>2. CASE PassPack
  BY <1>2, PassConserves
<1>3. CASE \E c \in Cards : TakeCard(c)
  BY <1>3, TakeConserves
<1>4. CASE StartRound
  BY <1>4, StartRoundConserves
<1>5. CASE AwaitHumans \/ StartSweep \/ AwaitSecondPick \/ NextSweep \/ Finish
  <2>1. UNCHANGED <<queue, picked, dealt>>
    BY <1>5 DEF AwaitHumans, StartSweep, AwaitSecondPick, NextSweep, Finish
  <2> QED BY <1>1, <2>1
<1>6. CASE \E s \in Humans : DropStale(s) \/ Submit(s)
  <2>1. UNCHANGED <<queue, picked, dealt>>
    BY <1>6 DEF DropStale, Submit, podVars
  <2> QED BY <1>1, <2>1
<1>7. CASE Outside
  <2>1. UNCHANGED <<queue, picked, dealt>>
    BY <1>7 DEF Outside, Pick, LosePick, LoseMessage, Deliver, podVars
  <2> QED BY <1>1, <2>1
<1>8. CASE UNCHANGED vars
  <2>1. UNCHANGED <<queue, picked, dealt>>
    BY <1>8 DEF vars, podVars
  <2> QED BY <1>1, <2>1
<1> QED BY <1>2, <1>3, <1>4, <1>5, <1>6, <1>7, <1>8 DEF Next, HostStep, Tick

(* CardsConserved: whatever is picked, passed or opened, and in the middle of *)
(* a tick too, every copy of a card that was opened is in exactly one place:  *)
(* in a pack before a seat or with the seat that took it (tick, start_round). *)
THEOREM CardsAreConserved == Spec => []CardsConserved
<1>1. Conserved => CardsConserved
  <2> SUFFICES ASSUME Conserved, NEW c \in Cards
               PROVE  dealt[c] = Cardinality(Copies(c))
    BY DEF CardsConserved
  <2>1. Copies(c) = Held(queue, picked, c)
    BY CopiesAre DEF Copies, Piles, Pile, PilesOf
  <2> QED BY <2>1 DEF Conserved
<1> QED BY <1>1, InitConserved, StepConserves, DraftInvariant, PTL DEF Spec

=============================================================================
