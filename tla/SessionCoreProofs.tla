------------------------- MODULE SessionCoreProofs -------------------------
(***************************************************************************)
(* What the sums of module Sums compute, for every sequence of integers,   *)
(* and that the critical sections of SessionCore and the goroutines of     *)
(* module Backend keep what they touch well typed and the pending budget   *)
(* exact, in every carrier mode.                                           *)
(*                                                                         *)
(* The library states induction over the naturals for an operator; here it *)
(* is stated for a set, which is derived from the well-foundedness of the  *)
(* order on the naturals.                                                  *)
(***************************************************************************)
EXTENDS Backend, UplinkBatch, WellFoundedInduction, SequenceTheorems, TLAPS

(* Stated apart from sequences, whose facts only get in the way of         *)
(* arithmetic.                                                             *)
LEMMA Reassociate ==
  ASSUME NEW x \in Int, NEW y \in Int, NEW z \in Int
  PROVE  x + (y + z) = (x + y) + z
OBVIOUS

LEMMA SwapAddends ==
  ASSUME NEW x \in Int, NEW y \in Int, NEW z \in Int
  PROVE  (x + y) + z = (x + z) + y
OBVIOUS

(* A set of naturals that holds 0 and the successor of each of its         *)
(* elements holds every natural.                                           *)
LEMMA SetInduction ==
  ASSUME NEW S, 0 \in S, \A n \in Nat : n \in S => n + 1 \in S
  PROVE  \A n \in Nat : n \in S
<1>. DEFINE Rest == {n \in Nat : n \notin S}
<1>. DEFINE R == OpToRel(<, Nat)
<1>1. SUFFICES ASSUME Rest # {} PROVE FALSE
  OBVIOUS
<1>2. PICK x \in Rest : \A y \in Rest : ~ (<<y, x>> \in R)
  <2>1. IsWellFoundedOn(R, Nat)
    BY NatLessThanWellFounded
  <2>2. Rest \subseteq Nat
    OBVIOUS
  <2>. HIDE DEF Rest, R
  <2>. QED
    BY <2>1, <2>2, <1>1, WFMin
<1>3. x \in Nat /\ x # 0
  OBVIOUS
<1>4. x - 1 \in Nat /\ x - 1 \notin S
  BY <1>3
<1>5. <<x - 1, x>> \in R
  BY <1>3 DEF OpToRel
<1>. QED
  BY <1>2, <1>4, <1>5

(* The recursion of PrefixSums has a solution.                             *)
LEMMA SumExists ==
  ASSUME NEW q
  PROVE  \A n \in Nat : \E g : g = [k \in 0 .. n |-> IF k = 0 THEN 0 ELSE g[k - 1] + q[k]]
<1>. DEFINE S == {n \in Nat : \E g : g = [k \in 0 .. n |-> IF k = 0 THEN 0 ELSE g[k - 1] + q[k]]}
<1>1. 0 \in S
  <2>. DEFINE g == [k \in 0 .. 0 |-> 0]
  <2>1. g = [k \in 0 .. 0 |-> IF k = 0 THEN 0 ELSE g[k - 1] + q[k]]
    OBVIOUS
  <2>. QED
    BY <2>1
<1>2. ASSUME NEW n \in Nat, n \in S PROVE n + 1 \in S
  <2>1. PICK g : g = [k \in 0 .. n |-> IF k = 0 THEN 0 ELSE g[k - 1] + q[k]]
    BY <1>2
  <2>. DEFINE h == [k \in 0 .. n + 1 |-> IF k = n + 1 THEN g[n] + q[n + 1] ELSE g[k]]
  <2>2. \A k \in 0 .. n + 1 : h[k] = IF k = 0 THEN 0 ELSE h[k - 1] + q[k]
    <3>. TAKE k \in 0 .. n + 1
    <3>1. CASE k = 0
      BY <3>1, <2>1
    <3>2. CASE k \in 1 .. n
      <4>1. h[k] = g[k] /\ h[k - 1] = g[k - 1]
        BY <3>2
      <4>2. g[k] = g[k - 1] + q[k]
        BY <3>2, <2>1
      <4>. QED
        BY <3>2, <4>1, <4>2
    <3>3. CASE k = n + 1
      BY <3>3
    <3>. QED
      BY <3>1, <3>2, <3>3
  <2>3. h = [k \in 0 .. n + 1 |-> IF k = 0 THEN 0 ELSE h[k - 1] + q[k]]
    BY <2>2
  <2>. HIDE DEF h
  <2>4. \E f : f = [k \in 0 .. n + 1 |-> IF k = 0 THEN 0 ELSE f[k - 1] + q[k]]
    BY <2>3
  <2>. QED
    BY <2>4
<1>. HIDE DEF S
<1>3. \A n \in Nat : n \in S
  BY <1>1, <1>2, SetInduction
<1>. QED
  BY <1>3 DEF S

(* PrefixSums satisfies the recursion it is defined by.                    *)
LEMMA PrefixSumsUnfold ==
  ASSUME NEW q, Len(q) \in Nat
  PROVE  PrefixSums(q) = [k \in 0 .. Len(q) |->
                            IF k = 0 THEN 0 ELSE PrefixSums(q)[k - 1] + q[k]]
<1>1. \E g : g = [k \in 0 .. Len(q) |-> IF k = 0 THEN 0 ELSE g[k - 1] + q[k]]
  BY SumExists
<1>. QED
  BY <1>1, Zenon DEF PrefixSums

LEMMA PrefixSumsStep ==
  ASSUME NEW q, Len(q) \in Nat
  PROVE  /\ PrefixSums(q)[0] = 0
         /\ \A k \in 1 .. Len(q) : PrefixSums(q)[k] = PrefixSums(q)[k - 1] + q[k]
BY PrefixSumsUnfold

(* A prefix sum of a sequence of integers is an integer.                   *)
LEMMA PrefixSumsType ==
  ASSUME NEW q \in Seq(Int)
  PROVE  \A k \in 0 .. Len(q) : PrefixSums(q)[k] \in Int
<1>. DEFINE S == {n \in Nat : n <= Len(q) => PrefixSums(q)[n] \in Int}
<1>0. /\ PrefixSums(q)[0] = 0
      /\ \A k \in 1 .. Len(q) : PrefixSums(q)[k] = PrefixSums(q)[k - 1] + q[k]
  BY PrefixSumsStep
<1>1. 0 \in S
  BY <1>0
<1>2. ASSUME NEW n \in Nat, n \in S PROVE n + 1 \in S
  <2>. SUFFICES ASSUME n + 1 <= Len(q) PROVE PrefixSums(q)[n + 1] \in Int
    OBVIOUS
  <2>1. PrefixSums(q)[n + 1] = PrefixSums(q)[n] + q[n + 1]
    BY <1>0
  <2>2. PrefixSums(q)[n] \in Int /\ q[n + 1] \in Int
    BY <1>2
  <2>. QED
    BY <2>1, <2>2
<1>. HIDE DEF S
<1>3. \A n \in Nat : n \in S
  BY <1>1, <1>2, SetInduction
<1>. QED
  BY <1>3 DEF S

LEMMA TotalType ==
  ASSUME NEW q \in Seq(Int)
  PROVE  Total(q) \in Int
BY PrefixSumsType DEF Total

(* The total of a sequence of naturals is a natural.                       *)
LEMMA TotalNatural ==
  ASSUME NEW q \in Seq(Nat)
  PROVE  Total(q) \in Nat
<1>. DEFINE S == {n \in Nat : n <= Len(q) => PrefixSums(q)[n] \in Nat}
<1>0. /\ PrefixSums(q)[0] = 0
      /\ \A k \in 1 .. Len(q) : PrefixSums(q)[k] = PrefixSums(q)[k - 1] + q[k]
  BY PrefixSumsStep
<1>1. 0 \in S
  BY <1>0
<1>2. ASSUME NEW n \in Nat, n \in S PROVE n + 1 \in S
  <2>. SUFFICES ASSUME n + 1 <= Len(q) PROVE PrefixSums(q)[n + 1] \in Nat
    OBVIOUS
  <2>1. PrefixSums(q)[n + 1] = PrefixSums(q)[n] + q[n + 1]
    BY <1>0
  <2>2. PrefixSums(q)[n] \in Nat /\ q[n + 1] \in Nat
    BY <1>2
  <2>. QED
    BY <2>1, <2>2
<1>. HIDE DEF S
<1>3. \A n \in Nat : n \in S
  BY <1>1, <1>2, SetInduction
<1>. QED
  BY <1>3 DEF S, Total

LEMMA TotalEmpty == Total(<<>>) = 0
<1>1. PrefixSums(<<>>)[0] = 0
  BY PrefixSumsStep
<1>. QED
  BY <1>1 DEF Total

LEMMA TotalZeros ==
  ASSUME NEW q, Len(q) \in Nat, \A k \in 1 .. Len(q) : q[k] = 0
  PROVE  Total(q) = 0
<1>. DEFINE S == {n \in Nat : n <= Len(q) => PrefixSums(q)[n] = 0}
<1>1. /\ PrefixSums(q)[0] = 0
      /\ \A k \in 1 .. Len(q) : PrefixSums(q)[k] = PrefixSums(q)[k - 1] + q[k]
  BY PrefixSumsStep
<1>2. 0 \in S
  BY <1>1
<1>3. ASSUME NEW n \in Nat, n \in S PROVE n + 1 \in S
  <2>. SUFFICES ASSUME n + 1 <= Len(q) PROVE PrefixSums(q)[n + 1] = 0
    OBVIOUS
  <2>1. n + 1 \in 1 .. Len(q) /\ (n + 1) - 1 = n /\ n <= Len(q)
    OBVIOUS
  <2>2. PrefixSums(q)[n + 1] = PrefixSums(q)[n] + q[n + 1]
    BY <1>1, <2>1
  <2>. QED
    BY <1>3, <2>1, <2>2
<1>. HIDE DEF S
<1>4. \A n \in Nat : n \in S
  BY <1>2, <1>3, SetInduction
<1>. QED
  BY <1>4 DEF S, Total

(* A sequence is worth what a prefix and the rest of it are worth.         *)
LEMMA TotalParts ==
  ASSUME NEW q \in Seq(Int), NEW a \in Seq(Int), NEW b \in Seq(Int),
         Len(q) = Len(a) + Len(b),
         \A k \in 1 .. Len(a) : q[k] = a[k],
         \A k \in 1 .. Len(b) : q[Len(a) + k] = b[k]
  PROVE  Total(q) = Total(a) + Total(b)
<1>. DEFINE m == Len(a)
<1>0. Len(q) \in Nat
  OBVIOUS
<1>1. /\ PrefixSums(q)[0] = 0
      /\ \A k \in 1 .. Len(q) : PrefixSums(q)[k] = PrefixSums(q)[k - 1] + q[k]
  BY <1>0, PrefixSumsStep, Zenon
<1>2. /\ PrefixSums(a)[0] = 0
      /\ \A k \in 1 .. m : PrefixSums(a)[k] = PrefixSums(a)[k - 1] + a[k]
  BY PrefixSumsStep
<1>3. /\ PrefixSums(b)[0] = 0
      /\ \A k \in 1 .. Len(b) : PrefixSums(b)[k] = PrefixSums(b)[k - 1] + b[k]
  BY PrefixSumsStep
<1>4. PrefixSums(a)[m] \in Int /\ \A k \in 0 .. Len(b) : PrefixSums(b)[k] \in Int
  BY PrefixSumsType
<1>5. PrefixSums(q)[m] = PrefixSums(a)[m]
  <2>. DEFINE S == {n \in Nat : n <= m => PrefixSums(q)[n] = PrefixSums(a)[n]}
  <2>1. 0 \in S
    BY <1>1, <1>2
  <2>2. ASSUME NEW n \in Nat, n \in S PROVE n + 1 \in S
    BY <1>1, <1>2, <2>2
  <2>. HIDE DEF S
  <2>3. \A n \in Nat : n \in S
    BY <2>1, <2>2, SetInduction
  <2>. QED
    BY <2>3 DEF S
<1>6. PrefixSums(q)[m + Len(b)] = PrefixSums(a)[m] + PrefixSums(b)[Len(b)]
  <2>. DEFINE S == {n \in Nat : n <= Len(b) =>
                      PrefixSums(q)[m + n] = PrefixSums(a)[m] + PrefixSums(b)[n]}
  <2>1. 0 \in S
    BY <1>3, <1>4, <1>5
  <2>2. ASSUME NEW n \in Nat, n \in S PROVE n + 1 \in S
    <3>. SUFFICES ASSUME n + 1 <= Len(b)
                  PROVE  PrefixSums(q)[m + (n + 1)] = PrefixSums(a)[m] + PrefixSums(b)[n + 1]
      OBVIOUS
    <3>1. PrefixSums(q)[m + n] = PrefixSums(a)[m] + PrefixSums(b)[n]
      BY <2>2
    <3>2. m + (n + 1) \in 1 .. Len(q) /\ (m + (n + 1)) - 1 = m + n
      OBVIOUS
    <3>3. PrefixSums(q)[m + (n + 1)] = PrefixSums(q)[m + n] + q[m + (n + 1)]
      BY <1>1, <3>2
    <3>4. PrefixSums(b)[n + 1] = PrefixSums(b)[n] + b[n + 1]
      BY <1>3
    <3>5. q[m + (n + 1)] = b[n + 1] /\ b[n + 1] \in Int
      OBVIOUS
    <3>6. PrefixSums(b)[n] \in Int /\ PrefixSums(a)[m] \in Int
      BY <1>4
    <3>7. PrefixSums(a)[m] + (PrefixSums(b)[n] + b[n + 1])
            = (PrefixSums(a)[m] + PrefixSums(b)[n]) + b[n + 1]
      BY <3>5, <3>6, Reassociate, Zenon
    <3>. QED
      BY <3>1, <3>3, <3>4, <3>5, <3>7, Zenon
  <2>. HIDE DEF S
  <2>3. \A n \in Nat : n \in S
    BY <2>1, <2>2, SetInduction
  <2>. QED
    BY <2>3 DEF S
<1>. QED
  BY <1>6 DEF Total

LEMMA TotalOne ==
  ASSUME NEW x \in Int
  PROVE  Total(<<x>>) = x
<1>1. PrefixSums(<<x>>)[0] = 0 /\ PrefixSums(<<x>>)[1] = PrefixSums(<<x>>)[0] + x
  BY PrefixSumsStep
<1>. QED
  BY <1>1 DEF Total

(* The sum grows by the element that is appended.                          *)
LEMMA TotalAppend ==
  ASSUME NEW q \in Seq(Int), NEW x \in Int
  PROVE  Total(Append(q, x)) = Total(q) + x
<1>1. /\ Append(q, x) \in Seq(Int) /\ <<x>> \in Seq(Int)
      /\ Len(Append(q, x)) = Len(q) + Len(<<x>>)
      /\ \A k \in 1 .. Len(q) : Append(q, x)[k] = q[k]
      /\ \A k \in 1 .. Len(<<x>>) : Append(q, x)[Len(q) + k] = <<x>>[k]
  OBVIOUS
<1>2. Total(Append(q, x)) = Total(q) + Total(<<x>>)
  BY <1>1, TotalParts, Zenon
<1>. QED
  BY <1>2, TotalOne

(* The sum changes by the change of one element.                           *)
LEMMA TotalChanged ==
  ASSUME NEW q \in Seq(Int), NEW r \in Seq(Int), NEW i \in 1 .. Len(q),
         Len(r) = Len(q), \A k \in 1 .. Len(q) : k # i => r[k] = q[k]
  PROVE  Total(r) = Total(q) + (r[i] - q[i])
<1>. DEFINE S == {n \in Nat : n <= Len(q) =>
                    PrefixSums(r)[n] = PrefixSums(q)[n] + (IF n < i THEN 0 ELSE r[i] - q[i])}
<1>0. Len(q) \in Nat
  OBVIOUS
<1>1. /\ PrefixSums(q)[0] = 0
      /\ \A k \in 1 .. Len(q) : PrefixSums(q)[k] = PrefixSums(q)[k - 1] + q[k]
  BY <1>0, PrefixSumsStep, Zenon
<1>2. /\ PrefixSums(r)[0] = 0
      /\ \A k \in 1 .. Len(q) : PrefixSums(r)[k] = PrefixSums(r)[k - 1] + r[k]
  BY PrefixSumsStep
<1>3. \A k \in 0 .. Len(q) : PrefixSums(q)[k] \in Int
  BY PrefixSumsType
<1>4. 0 \in S
  BY <1>1, <1>2
<1>5. ASSUME NEW n \in Nat, n \in S PROVE n + 1 \in S
  <2>. SUFFICES ASSUME n + 1 <= Len(q)
                PROVE  PrefixSums(r)[n + 1] = PrefixSums(q)[n + 1]
                                              + (IF n + 1 < i THEN 0 ELSE r[i] - q[i])
    OBVIOUS
  <2>0. n + 1 \in 1 .. Len(q) /\ (n + 1) - 1 = n
    BY <1>0
  <2>1. PrefixSums(r)[n] = PrefixSums(q)[n] + (IF n < i THEN 0 ELSE r[i] - q[i])
    BY <1>5
  <2>2. PrefixSums(r)[n + 1] = PrefixSums(r)[n] + r[n + 1]
    BY <1>2, <2>0
  <2>3. PrefixSums(q)[n + 1] = PrefixSums(q)[n] + q[n + 1]
    BY <1>1, <2>0
  <2>4. PrefixSums(q)[n] \in Int /\ q[n + 1] \in Int /\ r[i] \in Int /\ q[i] \in Int
    BY <1>3, <2>0
  <2>5. n + 1 # i => r[n + 1] = q[n + 1]
    BY <2>0, Zenon
  <2>6. CASE n + 1 < i
    <3>1. r[n + 1] = q[n + 1] /\ n < i
      BY <2>5, <2>6
    <3>. QED
      BY <2>1, <2>2, <2>3, <2>4, <2>6, <3>1
  <2>7. CASE n + 1 = i
    <3>1. n < i /\ ~(n + 1 < i)
      BY <2>7
    <3>2. PrefixSums(r)[n] = PrefixSums(q)[n]
      BY <2>1, <2>4, <3>1
    <3>3. PrefixSums(q)[n] + r[i]
            = (PrefixSums(q)[n] + q[i]) + (r[i] - q[i])
      <4>. DEFINE x == PrefixSums(q)[n]
                  y == r[i]
                  z == q[i]
      <4>1. x \in Int /\ y \in Int /\ z \in Int
        BY <2>4
      <4>. HIDE DEF x, y, z
      <4>2. x + y = (x + z) + (y - z)
        BY <4>1
      <4>. QED
        BY <4>2 DEF x, y, z
    <3>. QED
      BY <2>2, <2>3, <2>7, <3>1, <3>2, <3>3, Zenon
  <2>8. CASE n + 1 > i
    <3>1. r[n + 1] = q[n + 1] /\ ~(n < i) /\ ~(n + 1 < i)
      BY <2>5, <2>8
    <3>2. r[i] - q[i] \in Int
      BY <2>4
    <3>3. PrefixSums(r)[n] = PrefixSums(q)[n] + (r[i] - q[i])
      BY <2>1, <3>1, Zenon
    <3>. DEFINE d == r[i] - q[i]
                a == PrefixSums(q)[n]
    <3>4. a \in Int /\ d \in Int /\ q[n + 1] \in Int
      BY <2>4, <3>2, Zenon
    <3>5. PrefixSums(r)[n + 1] = (a + d) + r[n + 1] /\ PrefixSums(q)[n + 1] = a + q[n + 1]
      BY <2>2, <2>3, <3>3, Zenon
    <3>. HIDE DEF a, d
    <3>6. (a + d) + q[n + 1] = (a + q[n + 1]) + d
      BY <3>4, SwapAddends, Zenon
    <3>7. PrefixSums(r)[n + 1] = PrefixSums(q)[n + 1] + d
      BY <3>1, <3>5, <3>6, Zenon
    <3>. QED
      BY <3>1, <3>7, Zenon DEF d
  <2>. QED
    BY <2>6, <2>7, <2>8
<1>. HIDE DEF S
<1>6. \A n \in Nat : n \in S
  BY <1>4, <1>5, SetInduction
<1>7. PrefixSums(r)[Len(q)] = PrefixSums(q)[Len(q)] + (r[i] - q[i])
  BY <1>6 DEF S
<1>. QED
  BY <1>7 DEF Total

-----------------------------------------------------------------------------
(* The critical sections of a session.                                     *)

(* What can be queued to the client.                                       *)
Queueable == [type : {"DATA", "CLOSE", "WINDOW"}, id : StreamIds, n : Nat]

(* Credit saturates.                                                       *)
LEMMA AddCreditType ==
  ASSUME NEW credit \in 0 .. MaxUint32, NEW n \in Nat
  PROVE  AddCredit(credit, n) \in 0 .. MaxUint32
BY FrameAssumption DEF AddCredit

(* Replacing an element, or nothing, of a sequence.                        *)
LEMMA SeqExcept ==
  ASSUME NEW S, NEW q \in Seq(S), NEW i, NEW e, i \in 1 .. Len(q) => e \in S
  PROVE  [q EXCEPT ![i] = e] \in Seq(S) /\ Len([q EXCEPT ![i] = e]) = Len(q)
<1>1. q \in [1 .. Len(q) -> S] /\ Len(q) \in Nat
  OBVIOUS
<1>2. \A r, n : n \in Nat /\ r \in [1 .. n -> S] => r \in Seq(S) /\ Len(r) = n
  OBVIOUS
<1>3. [q EXCEPT ![i] = e] \in [1 .. Len(q) -> S]
  BY <1>1, Zenon
<1>. QED
  BY <1>1, <1>2, <1>3, Zenon

LEMMA LaneZero == 0 \in LaneIds /\ \A id \in StreamIds : LaneOf(id) \in LaneIds
BY FrameAssumption DEF LaneIds, LaneOf, StreamIds

LEMMA EncodedLengthType ==
  ASSUME NEW f, f.n \in Nat
  PROVE  EncodedLength(f) \in Nat
BY FrameAssumption DEF EncodedLength, PayloadLength

LEMMA SessionFields ==
  ASSUME NEW s \in Session
  PROVE  /\ s.closed \in BOOLEAN
         /\ s.streams \in [StreamIds -> Stream]
         /\ s.closedOrder \in Seq(StreamIds)
         /\ s.lanes \in [LaneIds -> Lane]
         /\ s.pendingCost \in Int /\ s.pendingItems \in Int
         /\ s.budgetWaiters \in SUBSET StreamIds /\ s.cancelled \in SUBSET StreamIds
BY DEF Session

LEMMA LaneFields ==
  ASSUME NEW lane \in Lane
  PROVE  /\ lane.present \in BOOLEAN /\ lane.lastUpSequence \in Nat
         /\ lane.lastUpDigest \in Bodies \cup {<<>>}
         /\ lane.upActive \in BOOLEAN
         /\ lane.frames \in Seq(QueuedFrame)
         /\ lane.windows \in [StreamIds -> Nat]
         /\ lane.unacked \in Seq(QueuedFrame)
         /\ lane.unackedCost \in Int /\ lane.unackedItems \in Int
         /\ lane.unackedBase \in Nat /\ lane.downCursor \in Nat
         /\ lane.owner \in Pollers \cup {NoPoller} /\ lane.notify \in BOOLEAN
BY DEF Lane

LEMMA ReleasePendingType ==
  ASSUME NEW s \in Session, NEW cost \in Int, NEW items \in Int
  PROVE  ReleasePending(s, cost, items) \in Session
<1>1. s.pendingCost - cost \in Int /\ s.pendingItems - items \in Int
  BY DEF Session
<1>2. {} \in SUBSET StreamIds
  OBVIOUS
<1>3. [s EXCEPT !.pendingCost = @ - cost, !.pendingItems = @ - items,
                !.budgetWaiters = {}] \in Session
  BY <1>1, <1>2, Zenon DEF Session
<1>. QED
  BY <1>3, Zenon DEF ReleasePending

LEMMA ReserveType ==
  ASSUME NEW s \in Session, NEW cost \in Int, NEW items \in Int
  PROVE  Reserve(s, cost, items) \in Session
<1>1. s.pendingCost + cost \in Int /\ s.pendingItems + items \in Int
  BY DEF Session
<1>. QED
  BY <1>1, Zenon DEF Reserve, Session

LEMMA SetLaneType ==
  ASSUME NEW s \in Session, NEW l \in LaneIds, NEW lane \in Lane
  PROVE  [s EXCEPT !.lanes[l] = lane] \in Session
BY Zenon DEF Session

LEMMA SetStreamType ==
  ASSUME NEW s \in Session, NEW id \in StreamIds, NEW stream \in Stream
  PROVE  [s EXCEPT !.streams[id] = stream] \in Session
BY Zenon DEF Session

LEMMA FramesWithType ==
  ASSUME NEW lane \in Lane, NEW f \in Queueable
  PROVE  FramesWith(lane, f) \in Seq(QueuedFrame)
<1>. USE DEF FramesWith
<1>1. lane.frames \in Seq(QueuedFrame) /\ lane.windows \in [StreamIds -> Nat]
  BY LaneFields
<1>2. f.n \in Nat /\ f.id \in StreamIds
  BY DEF Queueable
<1>3. ASSUME NEW q \in QueuedFrame
      PROVE  Merged(q, f.n) \in QueuedFrame /\ Extended(q, f.n) \in QueuedFrame
  <2>1. q.n + f.n \in Nat /\ q.cost + f.n \in Nat
    BY <1>2 DEF QueuedFrame
  <2>. QED
    BY <2>1, Zenon DEF QueuedFrame, Merged, Extended
<1>4. ASSUME NEW i, NEW q, i \in 1 .. Len(lane.frames) => q \in QueuedFrame
      PROVE  [lane.frames EXCEPT ![i] = q] \in Seq(QueuedFrame)
  BY <1>1, <1>4, SeqExcept, Zenon
<1>5. CASE MergesWindow(lane, f)
  <2>. DEFINE i == lane.windows[f.id]
  <2>1. i \in 1 .. Len(lane.frames) => lane.frames[i] \in QueuedFrame
    BY <1>1
  <2>2. i \in 1 .. Len(lane.frames) => Merged(lane.frames[i], f.n) \in QueuedFrame
    BY <1>3, <2>1, Zenon
  <2>3. [lane.frames EXCEPT ![i] = Merged(lane.frames[i], f.n)] \in Seq(QueuedFrame)
    BY <1>4, <2>2, Zenon
  <2>. QED
    BY <1>5, <2>3, Zenon
<1>6. CASE ~MergesWindow(lane, f) /\ ExtendsData(lane, f)
  <2>1. Len(lane.frames) \in 1 .. Len(lane.frames)
    BY <1>1, <1>6 DEF ExtendsData
  <2>2. lane.frames[Len(lane.frames)] \in QueuedFrame
    BY <1>1, <2>1
  <2>3. Extended(lane.frames[Len(lane.frames)], f.n) \in QueuedFrame
    BY <1>3, <2>2, Zenon
  <2>4. [lane.frames EXCEPT ![Len(lane.frames)] =
           Extended(lane.frames[Len(lane.frames)], f.n)]
          \in Seq(QueuedFrame)
    BY <1>4, <2>3, Zenon
  <2>. QED
    BY <1>6, <2>4, Zenon
<1>7. CASE ~MergesWindow(lane, f) /\ ~ExtendsData(lane, f)
  <2>1. EncodedLength(f) + QueueItemCost \in Nat
    BY <1>2, EncodedLengthType, FrameAssumption
  <2>2. f.type \in {"DATA", "CLOSE", "WINDOW"}
    BY DEF Queueable
  <2>3. [type |-> f.type, id |-> f.id, n |-> f.n,
         cost |-> EncodedLength(f) + QueueItemCost] \in QueuedFrame
    BY <1>2, <2>1, <2>2, Zenon DEF QueuedFrame
  <2>. QED
    BY <1>1, <1>7, <2>3
<1>. QED
  BY <1>5, <1>6, <1>7

LEMMA QueueFrameType ==
  ASSUME NEW s \in Session, NEW f \in Queueable
  PROVE  QueueFrame(s, f) \in Session
<1>. DEFINE l == LaneOf(f.id)
            lane == s.lanes[l]
            new == [lane EXCEPT !.frames = FramesWith(lane, f),
                                !.windows = WindowsWith(lane, f),
                                !.notify = TRUE]
<1>1. l \in LaneIds /\ lane \in Lane /\ f.id \in StreamIds /\ f.n \in Nat
  BY LaneZero, SessionFields DEF Queueable
<1>2. WindowsWith(lane, f) \in [StreamIds -> Nat]
  <2>1. lane.windows \in [StreamIds -> Nat] /\ Len(lane.frames) + 1 \in Nat
    BY <1>1, LaneFields
  <2>. HIDE DEF lane
  <2>. QED
    BY <1>1, <2>1, Zenon DEF WindowsWith
<1>3. FramesWith(lane, f) \in Seq(QueuedFrame)
  BY <1>1, FramesWithType
<1>4. new \in Lane
  BY <1>1, <1>2, <1>3, Zenon DEF Lane
<1>5. QueueCost(lane, f) \in Int /\ QueueItems(lane, f) \in Int
  BY <1>1, EncodedLengthType, FrameAssumption DEF QueueCost, QueueItems
<1>6. s.pendingCost + QueueCost(lane, f) \in Int /\ s.pendingItems + QueueItems(lane, f) \in Int
  BY <1>5 DEF Session
<1>7. [s.lanes EXCEPT ![l] = new] \in [LaneIds -> Lane]
  BY <1>1, <1>4, SessionFields
<1>. QED
  BY <1>6, <1>7, Zenon DEF QueueFrame, Session

LEMMA CostsType ==
  ASSUME NEW frames \in Seq(QueuedFrame)
  PROVE  Costs(frames) \in Seq(Int) /\ Len(Costs(frames)) = Len(frames)
<1>1. \A k \in 1 .. Len(frames) : frames[k] \in QueuedFrame
  OBVIOUS
<1>2. \A k \in 1 .. Len(frames) : frames[k].cost \in Int
  BY <1>1 DEF QueuedFrame
<1>. QED
  BY <1>2 DEF Costs

LEMMA TakeBatchType ==
  ASSUME NEW lane \in Lane, NEW k \in 1 .. Len(lane.frames), NEW cursor \in Nat
  PROVE  TakeBatch(lane, k, cursor) \in Lane
<1>1. lane.frames \in Seq(QueuedFrame) /\ lane.downCursor + 1 \in Nat /\ k \in Int
  BY LaneFields
<1>2. /\ SubSeq(lane.frames, 1, k) \in Seq(QueuedFrame)
      /\ AfterBatch(lane.frames, k) \in Seq(QueuedFrame)
  BY <1>1 DEF AfterBatch
<1>3. Total(Costs(SubSeq(lane.frames, 1, k))) \in Int
  BY <1>2, CostsType, TotalType
<1>4. WindowsAfterTake(lane, k) \in [StreamIds -> Nat]
  BY LaneFields DEF WindowsAfterTake
<1>. QED
  BY <1>1, <1>2, <1>3, <1>4, Zenon DEF TakeBatch, Lane

LEMMA AckUnackedType ==
  ASSUME NEW s \in Session, NEW l \in LaneIds
  PROVE  AckUnacked(s, l) \in Session
<1>. DEFINE lane == s.lanes[l]
            r == ReleasePending(s, lane.unackedCost, lane.unackedItems)
            new == [lane EXCEPT !.unacked = <<>>, !.unackedCost = 0, !.unackedItems = 0]
<1>1. lane \in Lane
  BY SessionFields
<1>2. r \in Session
  BY <1>1, LaneFields, ReleasePendingType
<1>3. <<>> \in Seq(QueuedFrame) /\ 0 \in Int
  OBVIOUS
<1>4. new \in Lane
  BY <1>1, <1>3, Zenon DEF Lane
<1>. HIDE DEF r, new
<1>5. [r EXCEPT !.lanes[l] = new] \in Session
  BY <1>2, <1>4, SetLaneType, Zenon
<1>. QED
  BY <1>5, Zenon DEF AckUnacked, r, new

-----------------------------------------------------------------------------
LEMMA NoStreamType == NoStream \in Stream /\ OpenedStream \in Stream
<1>1. /\ 0 \in 0 .. MaxUint32 /\ InitialStreamWindow \in 0 .. MaxUint32 /\ 0 \in Int
      /\ <<>> \in Seq(Nat)
  BY FrameAssumption
<1>2. NoStream \in Stream
  BY <1>1, Zenon DEF NoStream, Stream
<1>. HIDE DEF NoStream
<1>3. OpenedStream \in Stream
  BY <1>1, <1>2, Zenon DEF OpenedStream, Stream
<1>. QED
  BY <1>2, <1>3

LEMMA NoLaneType == NoLane \in Lane /\ NewLane \in Lane
<1>1. /\ 0 \in Nat /\ 0 \in Int /\ <<>> \in Seq(QueuedFrame)
      /\ [id \in StreamIds |-> 0] \in [StreamIds -> Nat]
  OBVIOUS
<1>2. NoLane \in Lane
  BY <1>1, Zenon DEF NoLane, Lane
<1>. HIDE DEF NoLane
<1>3. NewLane \in Lane
  BY <1>2, Zenon DEF NewLane, Lane
<1>. QED
  BY <1>2, <1>3

LEMMA NewSessionType == NewSession \in Session
<1>1. [id \in StreamIds |-> NoStream] \in [StreamIds -> Stream]
  BY NoStreamType, Zenon
<1>2. [l \in LaneIds |-> IF l = 0 THEN NewLane ELSE NoLane] \in [LaneIds -> Lane]
  BY NoLaneType, Zenon
<1>3. 0 \in Int /\ <<>> \in Seq(StreamIds) /\ {} \in SUBSET StreamIds
  OBVIOUS
<1>. QED
  BY <1>1, <1>2, <1>3, Zenon DEF NewSession, Session

LEMMA DropLaneType ==
  ASSUME NEW s \in Session, NEW l \in LaneIds
  PROVE  DropLane(s, l) \in Session
<1>. DEFINE lane == s.lanes[l]
            cost == lane.unackedCost + Total(Costs(lane.frames))
            items == lane.unackedItems + Len(lane.frames)
            r == ReleasePending(s, cost, items)
<1>1. lane \in Lane
  BY SessionFields
<1>2. lane.frames \in Seq(QueuedFrame) /\ lane.unackedCost \in Int /\ lane.unackedItems \in Int
  BY <1>1, LaneFields
<1>3. Total(Costs(lane.frames)) \in Int
  BY <1>2, CostsType, TotalType
<1>4. cost \in Int /\ items \in Int
  BY <1>2, <1>3
<1>5. r \in Session
  BY <1>4, ReleasePendingType, Zenon
<1>6. [r EXCEPT !.lanes[l] = NoLane] \in Session
  BY <1>5, NoLaneType, SetLaneType, Zenon
<1>. QED
  BY <1>6, Zenon DEF DropLane

LEMMA SetNotifyType ==
  ASSUME NEW s \in Session, NEW l \in LaneIds, NEW b \in BOOLEAN
  PROVE  [s EXCEPT !.lanes[l].notify = b] \in Session
<1>1. s.lanes[l] \in Lane
  BY SessionFields
<1>2. [s.lanes[l] EXCEPT !.notify = b] \in Lane
  BY <1>1, Zenon DEF Lane
<1>3. [s EXCEPT !.lanes[l] = [s.lanes[l] EXCEPT !.notify = b]] \in Session
  BY <1>2, SetLaneType, Zenon
<1>. QED
  BY <1>3

LEMMA RememberClosedType ==
  ASSUME NEW s \in Session, NEW id \in StreamIds
  PROVE  RememberClosed(s, id) \in Session
<1>. DEFINE kept == IF TombstonesFull(s) THEN DropLane(s, Head(s.closedOrder)) ELSE s
            order == IF TombstonesFull(s) THEN Tail(s.closedOrder) ELSE s.closedOrder
            told == IF CarrierLanes /\ kept.lanes[id].present
                    THEN [kept EXCEPT !.lanes[id].notify = TRUE]
                    ELSE kept
<1>1. s.closedOrder \in Seq(StreamIds)
  BY SessionFields
<1>2. TombstonesFull(s) => Head(s.closedOrder) \in StreamIds /\ Tail(s.closedOrder) \in Seq(StreamIds)
  BY <1>1, LimitAssumption DEF TombstonesFull
<1>3. order \in Seq(StreamIds)
  BY <1>1, <1>2
<1>4. kept \in Session
  <2>1. CASE TombstonesFull(s) /\ CarrierLanes
    <3>1. Head(s.closedOrder) \in LaneIds
      BY <1>2, <2>1 DEF LaneIds
    <3>. QED
      BY <2>1, <3>1, DropLaneType, Zenon
  <2>2. CASE TombstonesFull(s) /\ ~CarrierLanes
    BY <2>2, Zenon DEF DropLane
  <2>. QED
    BY <2>1, <2>2, Zenon
<1>5. told \in Session
  <2>1. CarrierLanes => id \in LaneIds
    BY DEF LaneIds
  <2>2. CarrierLanes => [kept EXCEPT !.lanes[id].notify = TRUE] \in Session
    BY <1>4, <2>1, SetNotifyType, Zenon
  <2>. QED
    BY <1>4, <2>2, Zenon
<1>6. Append(order, id) \in Seq(StreamIds)
  BY <1>3
<1>. HIDE DEF order, told, kept
<1>7. [told EXCEPT !.closedOrder = Append(order, id)] \in Session
  BY <1>5, <1>6, Zenon DEF Session
<1>. QED
  BY <1>7, Zenon DEF RememberClosed, order, told, kept

LEMMA DropStreamType ==
  ASSUME NEW s \in Session, NEW id \in StreamIds
  PROVE  DropStream(s, id) \in Session
<1>. DEFINE r == ReleasePending(s, s.streams[id].pendingWriteCost,
                                   s.streams[id].pendingWriteItems)
<1>1. s.streams[id] \in Stream
  BY SessionFields
<1>2. s.streams[id].pendingWriteCost \in Int /\ s.streams[id].pendingWriteItems \in Int
  BY <1>1 DEF Stream
<1>3. r \in Session
  BY <1>2, ReleasePendingType, Zenon
<1>4. [r EXCEPT !.streams[id] = NoStream] \in Session
  BY <1>3, NoStreamType, SetStreamType, Zenon
<1>. QED
  BY <1>4, Zenon DEF DropStream

LEMMA EndStreamType ==
  ASSUME NEW s \in Session, NEW id \in StreamIds
  PROVE  EndStream(s, id) \in Session
BY DropStreamType, RememberClosedType, Zenon DEF EndStream

LEMMA CancelBackendType ==
  ASSUME NEW s \in Session, NEW ids \in SUBSET StreamIds
  PROVE  CancelBackend(s, ids) \in Session
<1>1. s.cancelled \cup ids \in SUBSET StreamIds
  BY SessionFields
<1>. QED
  BY <1>1, Zenon DEF CancelBackend, Session

LEMMA CloseSessionType ==
  ASSUME NEW s \in Session
  PROVE  CloseSession(s) \in Session
<1>1. ASSUME NEW l \in LaneIds
      PROVE  (IF s.lanes[l].present THEN ClearedLane(s.lanes[l]) ELSE NoLane) \in Lane
  <2>1. s.lanes[l] \in Lane
    BY SessionFields
  <2>2. 0 \in Int /\ <<>> \in Seq(QueuedFrame)
        /\ [id \in StreamIds |-> 0] \in [StreamIds -> Nat]
    OBVIOUS
  <2>3. ClearedLane(s.lanes[l]) \in Lane
    BY <2>1, <2>2, Zenon DEF ClearedLane, Lane
  <2>. QED
    BY <2>3, NoLaneType, Zenon
<1>2. [l \in LaneIds |-> IF s.lanes[l].present THEN ClearedLane(s.lanes[l]) ELSE NoLane]
        \in [LaneIds -> Lane]
  BY <1>1, Zenon
<1>3. s.cancelled \cup LiveStreams(s) \in SUBSET StreamIds
  BY SessionFields DEF LiveStreams
<1>4. [id \in StreamIds |-> NoStream] \in [StreamIds -> Stream]
  BY NoStreamType, Zenon
<1>5. 0 \in Int
  OBVIOUS
<1>. QED
  BY <1>2, <1>3, <1>4, <1>5, Zenon DEF CloseSession, Session

-----------------------------------------------------------------------------
(* What ends streams, field by field.                                      *)
LEMMA ReleasePendingFields ==
  ASSUME NEW s \in Session, NEW cost, NEW items, NEW t, t = ReleasePending(s, cost, items)
  PROVE  /\ t.closed = s.closed /\ t.streams = s.streams /\ t.closedOrder = s.closedOrder
         /\ t.lanes = s.lanes /\ t.cancelled = s.cancelled
BY DEF ReleasePending, Session

LEMMA DropLaneFields ==
  ASSUME NEW s \in Session, NEW l, NEW t, t = DropLane(s, l)
  PROVE  /\ t.closed = s.closed /\ t.streams = s.streams /\ t.closedOrder = s.closedOrder
         /\ t.cancelled = s.cancelled
         /\ \A o \in LaneIds : t.lanes[o] = IF CarrierLanes /\ o = l /\ s.lanes[l].present
                                          THEN NoLane ELSE s.lanes[o]
<1>. DEFINE lane == s.lanes[l]
            r == ReleasePending(s, lane.unackedCost + Total(Costs(lane.frames)),
                                   lane.unackedItems + Len(lane.frames))
<1>1. CASE ~CarrierLanes \/ ~s.lanes[l].present
  BY <1>1, Zenon DEF DropLane
<1>2. CASE CarrierLanes /\ s.lanes[l].present
  <2>1. t = [r EXCEPT !.lanes[l] = NoLane]
    BY <1>2, Zenon DEF DropLane
  <2>2. /\ r.closed = s.closed /\ r.streams = s.streams /\ r.closedOrder = s.closedOrder
        /\ r.lanes = s.lanes /\ r.cancelled = s.cancelled
        /\ r = [r EXCEPT !.closed = @] /\ s.lanes \in [LaneIds -> Lane]
        /\ DOMAIN r = DOMAIN s
    BY DEF ReleasePending, Session
  <2>3. DOMAIN s = {"closed", "streams", "closedOrder", "lanes", "pendingCost",
                    "pendingItems", "budgetWaiters", "cancelled"}
    BY DEF Session
  <2>. HIDE DEF r
  <2>. QED
    BY <1>2, <2>1, <2>2, <2>3
<1>. QED
  BY <1>1, <1>2

LEMMA RememberFields ==
  ASSUME NEW s \in Session, NEW id \in StreamIds, ~WasClosed(s, id)
  PROVE  /\ RememberClosed(s, id).closed = s.closed
         /\ RememberClosed(s, id).streams = s.streams
         /\ RememberClosed(s, id).cancelled = s.cancelled
         /\ RememberClosed(s, id).closedOrder =
              Append(IF TombstonesFull(s) THEN Tail(s.closedOrder) ELSE s.closedOrder, id)
         /\ \E kept \in Session :
              /\ kept = IF TombstonesFull(s) THEN DropLane(s, Head(s.closedOrder)) ELSE s
              /\ \A o \in LaneIds :
                   RememberClosed(s, id).lanes[o] =
                                IF CarrierLanes /\ o = id /\ kept.lanes[id].present
                                THEN [kept.lanes[id] EXCEPT !.notify = TRUE]
                                ELSE kept.lanes[o]
<1>. DEFINE kept == IF TombstonesFull(s) THEN DropLane(s, Head(s.closedOrder)) ELSE s
            order == IF TombstonesFull(s) THEN Tail(s.closedOrder) ELSE s.closedOrder
            told == IF CarrierLanes /\ kept.lanes[id].present
                    THEN [kept EXCEPT !.lanes[id].notify = TRUE]
                    ELSE kept
            t == RememberClosed(s, id)
<1>1. kept \in Session
  <2>1. TombstonesFull(s) => Head(s.closedOrder) \in StreamIds
    BY SessionFields, LimitAssumption DEF TombstonesFull
  <2>2. CASE TombstonesFull(s) /\ CarrierLanes
    <3>1. Head(s.closedOrder) \in LaneIds
      BY <2>1, <2>2 DEF LaneIds
    <3>. QED
      BY <2>2, <3>1, DropLaneType, Zenon
  <2>3. CASE TombstonesFull(s) /\ ~CarrierLanes
    BY <2>3, Zenon DEF DropLane
  <2>. QED
    BY <2>2, <2>3, Zenon
<1>2. kept.closed = s.closed /\ kept.streams = s.streams /\ kept.cancelled = s.cancelled
  BY DropLaneFields, Zenon
<1>3. t = [told EXCEPT !.closedOrder = Append(order, id)]
  BY Zenon DEF RememberClosed
<1>. HIDE DEF kept, order, t
<1>4. /\ told.closed = kept.closed /\ told.streams = kept.streams
      /\ told.cancelled = kept.cancelled /\ told = [told EXCEPT !.closed = @]
      /\ "closedOrder" \in DOMAIN told
      /\ \A o \in LaneIds :
           told.lanes[o] = IF CarrierLanes /\ o = id /\ kept.lanes[id].present
                           THEN [kept.lanes[id] EXCEPT !.notify = TRUE]
                           ELSE kept.lanes[o]
  BY <1>1 DEF Session
<1>. HIDE DEF told
<1>5. /\ t.closed = told.closed /\ t.streams = told.streams /\ t.cancelled = told.cancelled
      /\ t.closedOrder = Append(order, id) /\ t.lanes = told.lanes
  BY <1>3, <1>4
<1>6. t.closedOrder = Append(IF TombstonesFull(s) THEN Tail(s.closedOrder)
                                                  ELSE s.closedOrder, id)
  BY <1>5, Zenon DEF order
<1>7. kept = IF TombstonesFull(s) THEN DropLane(s, Head(s.closedOrder)) ELSE s
  BY Zenon DEF kept
<1>8. \A o \in LaneIds :
        t.lanes[o] = IF CarrierLanes /\ o = id /\ kept.lanes[id].present
                     THEN [kept.lanes[id] EXCEPT !.notify = TRUE]
                     ELSE kept.lanes[o]
  BY <1>4, <1>5
<1>9. t.closed = s.closed /\ t.streams = s.streams /\ t.cancelled = s.cancelled
  BY <1>2, <1>4, <1>5
<1>. QED
  BY <1>1, <1>6, <1>7, <1>8, <1>9, Zenon DEF t

(* A tombstone is of a stream that is gone; there is one for each, and     *)
(* never more of them than the ring holds.                                 *)
Tombs(s) ==
  /\ \A k \in 1 .. Len(s.closedOrder) : ~s.streams[s.closedOrder[k]].live
  /\ \A j, k \in 1 .. Len(s.closedOrder) : s.closedOrder[j] = s.closedOrder[k] => j = k
  /\ Len(s.closedOrder) <= MaxClosedStreamIDs

LEMMA TailElements ==
  ASSUME NEW S, NEW q \in Seq(S), q # <<>>
  PROVE  /\ Tail(q) \in Seq(S) /\ Len(Tail(q)) = Len(q) - 1 /\ Len(q) - 1 \in Nat
         /\ \A k \in 1 .. Len(q) - 1 : Tail(q)[k] = q[k + 1] /\ k + 1 \in 1 .. Len(q)
OBVIOUS

(* What rememberClosedLocked does to the tombstones and the streams.       *)
LEMMA RememberTombs ==
  ASSUME NEW s \in Session, NEW id \in StreamIds, Tombs(s), ~s.streams[id].live
  PROVE  /\ Tombs(RememberClosed(s, id))
         /\ RememberClosed(s, id).streams = s.streams
         /\ WasClosed(RememberClosed(s, id), id)
         /\ \A other : WasClosed(RememberClosed(s, id), other) =>
                         WasClosed(s, other) \/ other = id
         /\ \A other : WasClosed(s, other) =>
              \/ WasClosed(RememberClosed(s, id), other)
              \/ TombstonesFull(s) /\ other = Head(s.closedOrder)
<1>. DEFINE order == IF TombstonesFull(s) THEN Tail(s.closedOrder) ELSE s.closedOrder
            t == RememberClosed(s, id)
<1>1. CASE WasClosed(s, id)
  BY <1>1, Zenon DEF RememberClosed
<1>2. CASE ~WasClosed(s, id)
  <2>1. s.closedOrder \in Seq(StreamIds) /\ MaxClosedStreamIDs \in Nat \ {0}
    BY SessionFields, LimitAssumption
  <2>2. t.closedOrder = Append(order, id) /\ t.streams = s.streams
    BY <1>2, RememberFields, Zenon DEF order
  <2>. HIDE DEF t
  <2>5. \E n \in Nat : /\ Len(order) = n /\ n < MaxClosedStreamIDs
                       /\ order \in Seq(StreamIds)
                       /\ \E d \in {0, 1} :
                            /\ Len(s.closedOrder) = n + d
                            /\ d = 1 => /\ TombstonesFull(s)
                                        /\ Head(s.closedOrder) = s.closedOrder[1]
                            /\ \A k \in 1 .. n :
                                 /\ k + d \in 1 .. Len(s.closedOrder)
                                 /\ order[k] = s.closedOrder[k + d]
    <3>1. Len(s.closedOrder) \in Nat /\ Len(s.closedOrder) <= MaxClosedStreamIDs
      BY <2>1 DEF Tombs
    <3>2. CASE TombstonesFull(s)
      <4>1. s.closedOrder # <<>> /\ order = Tail(s.closedOrder)
        BY <2>1, <3>2 DEF TombstonesFull
      <4>. DEFINE n == Len(s.closedOrder) - 1
      <4>2. /\ Len(order) = n /\ n \in Nat /\ order \in Seq(StreamIds)
            /\ \A k \in 1 .. n :
                 k + 1 \in 1 .. Len(s.closedOrder) /\ order[k] = s.closedOrder[k + 1]
        BY <2>1, <4>1, TailElements, Zenon
      <4>. HIDE DEF order
      <4>3. n < MaxClosedStreamIDs
        BY <2>1, <3>1
      <4>. HIDE DEF n
      <4>4. Len(s.closedOrder) = n + 1 /\ Head(s.closedOrder) = s.closedOrder[1]
        BY <2>1, <4>1 DEF n
      <4>5. 1 \in {0, 1}
        OBVIOUS
      <4>. QED
        BY <3>2, <4>2, <4>3, <4>4, <4>5, Zenon
    <3>3. CASE ~TombstonesFull(s)
      <4>1. order = s.closedOrder /\ Len(order) < MaxClosedStreamIDs
        BY <2>1, <3>1, <3>3 DEF TombstonesFull
      <4>. HIDE DEF order
      <4>2. \A k \in 1 .. Len(order) :
              k + 0 \in 1 .. Len(s.closedOrder) /\ order[k] = s.closedOrder[k + 0]
        BY <3>1, <4>1
      <4>. QED
        BY <2>1, <3>1, <4>1, <4>2
    <3>. QED
      BY <3>2, <3>3
  <2>. HIDE DEF order
  <2>6. PICK n \in Nat, d \in {0, 1} :
          /\ Len(order) = n /\ n < MaxClosedStreamIDs /\ order \in Seq(StreamIds)
          /\ Len(s.closedOrder) = n + d
          /\ d = 1 => TombstonesFull(s) /\ Head(s.closedOrder) = s.closedOrder[1]
          /\ \A k \in 1 .. n :
               k + d \in 1 .. Len(s.closedOrder) /\ order[k] = s.closedOrder[k + d]
    BY <2>5
  <2>7. /\ Len(t.closedOrder) = n + 1 /\ t.closedOrder[n + 1] = id
        /\ \A k \in 1 .. n : t.closedOrder[k] = order[k]
    BY <2>2, <2>6
  <2>. HIDE DEF t
  <2>. DEFINE i == [k \in 1 .. n |-> k + d]
  <2>15. \A k \in 1 .. n : i[k] \in 1 .. Len(s.closedOrder) /\ order[k] = s.closedOrder[i[k]]
    BY <2>6
  <2>16. \A j, k \in 1 .. n : i[j] = i[k] => j = k
    BY <2>6
  <2>. HIDE DEF i
  <2>8. \A k \in 1 .. n : order[k] # id /\ ~s.streams[order[k]].live
    <3>. SUFFICES ASSUME NEW k \in 1 .. n PROVE order[k] # id /\ ~s.streams[order[k]].live
      OBVIOUS
    <3>. DEFINE j == i[k]
    <3>1. j \in 1 .. Len(s.closedOrder) /\ order[k] = s.closedOrder[j]
      BY <2>15
    <3>. HIDE DEF j
    <3>2. s.closedOrder[j] # id
      BY <1>2, <3>1, Zenon DEF WasClosed
    <3>3. ~s.streams[s.closedOrder[j]].live
      BY <3>1, Zenon DEF Tombs
    <3>. QED
      BY <3>1, <3>2, <3>3
  <2>9. \A j, k \in 1 .. n : order[j] = order[k] => j = k
    <3>. SUFFICES ASSUME NEW j \in 1 .. n, NEW k \in 1 .. n, order[j] = order[k] PROVE j = k
      OBVIOUS
    <3>. DEFINE x == i[j]
                y == i[k]
    <3>1. /\ x \in 1 .. Len(s.closedOrder) /\ y \in 1 .. Len(s.closedOrder)
          /\ s.closedOrder[x] = s.closedOrder[y]
      BY <2>15
    <3>2. x = y => j = k
      BY <2>16
    <3>. HIDE DEF x, y
    <3>3. x = y
      BY <3>1, Zenon DEF Tombs
    <3>. QED
      BY <3>2, <3>3
  <2>10. \A k \in 1 .. n + 1 : k = n + 1 \/ k \in 1 .. n
    BY <2>6
  <2>11. Tombs(t)
    <3>1. \A k \in 1 .. n + 1 : ~t.streams[t.closedOrder[k]].live
      BY <2>2, <2>7, <2>8, <2>10, Zenon
    <3>2. \A j, k \in 1 .. n + 1 : t.closedOrder[j] = t.closedOrder[k] => j = k
      BY <2>7, <2>8, <2>9, <2>10, Zenon
    <3>3. n + 1 <= MaxClosedStreamIDs
      BY <2>1, <2>6
    <3>. QED
      BY <2>7, <3>1, <3>2, <3>3, Zenon DEF Tombs
  <2>12. \A other : WasClosed(t, other) => WasClosed(s, other) \/ other = id
    <3>1. \A k \in 1 .. n : \E j \in 1 .. Len(s.closedOrder) : order[k] = s.closedOrder[j]
      BY <2>6, Zenon
    <3>. QED
      BY <2>7, <2>10, <3>1, Zenon DEF WasClosed
  <2>13. WasClosed(t, id)
    BY <2>6, <2>7 DEF WasClosed
  <2>14. \A other : WasClosed(s, other) =>
           WasClosed(t, other) \/ (TombstonesFull(s) /\ other = Head(s.closedOrder))
    <3>. SUFFICES ASSUME NEW j \in 1 .. Len(s.closedOrder),
                         ~(TombstonesFull(s) /\ s.closedOrder[j] = Head(s.closedOrder))
                  PROVE  \E k \in 1 .. Len(t.closedOrder) : t.closedOrder[k] = s.closedOrder[j]
      BY Zenon DEF WasClosed
    <3>1. ~(d = 1 /\ j = 1)
      BY <2>6
    <3>2. j - d \in 1 .. n /\ (j - d) + d = j
      BY <2>1, <2>6, <3>1
    <3>3. j - d \in 1 .. n + 1
      BY <2>6, <3>2
    <3>4. order[j - d] = s.closedOrder[(j - d) + d]
      BY <2>6, <3>2, Zenon
    <3>5. t.closedOrder[j - d] = order[j - d]
      BY <2>7, <3>2, <3>3, Zenon
    <3>6. t.closedOrder[j - d] = s.closedOrder[j]
      BY <3>2, <3>4, <3>5, Zenon
    <3>. QED
      BY <2>7, <3>3, <3>6, Zenon
  <2>. QED
    BY <2>2, <2>11, <2>12, <2>13, <2>14 DEF t
<1>. QED
  BY <1>1, <1>2

-----------------------------------------------------------------------------
(* The index of mergeable WINDOWs: it survives whatever the code does to   *)
(* the queue, which is to extend its last frame, to merge into it, to      *)
(* append to it and to take a batch from its front.                        *)

LEMMA IndexedByFields ==
  ASSUME NEW a, NEW b, b.frames = a.frames, b.windows = a.windows, WindowsIndexed(a)
  PROVE  WindowsIndexed(b)
BY Zenon DEF WindowsIndexed

(* What queueing a frame writes over keeps type and stream.               *)
LEMMA IndexedByShape ==
  ASSUME NEW a \in Lane, NEW b, b.windows = a.windows, b.frames \in Seq(QueuedFrame),
         Len(b.frames) = Len(a.frames),
         \A k \in 1 .. Len(a.frames) : /\ b.frames[k].type = a.frames[k].type
                                       /\ b.frames[k].id = a.frames[k].id,
         WindowsIndexed(a)
  PROVE  WindowsIndexed(b)
<1>1. /\ a.frames \in Seq(QueuedFrame)
      /\ \A id \in StreamIds : a.windows[id] \in Nat
  BY LaneFields
<1>. QED
  BY <1>1 DEF WindowsIndexed, IsWindowOf

(* queueFrameLocked keeps the index.                                       *)
LEMMA QueueIndexed ==
  ASSUME NEW lane \in Lane, NEW f \in Queueable, NEW new,
         new.frames = FramesWith(lane, f), new.windows = WindowsWith(lane, f),
         WindowsIndexed(lane)
  PROVE  WindowsIndexed(new)
<1>1. /\ lane.frames \in Seq(QueuedFrame) /\ lane.windows \in [StreamIds -> Nat]
      /\ new.frames \in Seq(QueuedFrame)
  BY LaneFields, FramesWithType
<1>2. f.id \in StreamIds
  BY DEF Queueable
<1>3. CASE MergesWindow(lane, f)
  <2>. DEFINE i == lane.windows[f.id]
  <2>1. new.frames = [lane.frames EXCEPT ![i] = Merged(lane.frames[i], f.n)]
    BY <1>3, Zenon DEF FramesWith
  <2>2. i \in 1 .. Len(lane.frames)
    BY <1>1, <1>2, <1>3 DEF MergesWindow, WindowsIndexed
  <2>3. lane.frames[i] \in QueuedFrame
    BY <1>1, <2>2
  <2>4. /\ Merged(lane.frames[i], f.n).type = lane.frames[i].type
        /\ Merged(lane.frames[i], f.n).id = lane.frames[i].id
    BY <2>3 DEF Merged, QueuedFrame
  <2>5. new.windows = lane.windows
    BY <1>3, Zenon DEF WindowsWith
  <2>6. Len(new.frames) = Len(lane.frames)
    BY <1>1, <2>1
  <2>7. \A k \in 1 .. Len(lane.frames) : /\ new.frames[k].type = lane.frames[k].type
                                         /\ new.frames[k].id = lane.frames[k].id
    <3>1. new.frames[i] = Merged(lane.frames[i], f.n)
      BY <1>1, <2>1, <2>2
    <3>2. \A k \in 1 .. Len(lane.frames) : k # i => new.frames[k] = lane.frames[k]
      BY <1>1, <2>1, <2>2
    <3>. QED
      BY <2>4, <3>1, <3>2, Zenon
  <2>. QED
    BY <1>1, <2>5, <2>6, <2>7, IndexedByShape, Zenon
<1>4. CASE ~MergesWindow(lane, f) /\ ExtendsData(lane, f)
  <2>. DEFINE i == Len(lane.frames)
  <2>1. new.frames = [lane.frames EXCEPT ![i] = Extended(lane.frames[i], f.n)]
    BY <1>4, Zenon DEF FramesWith
  <2>2. i \in 1 .. Len(lane.frames)
    BY <1>1, <1>4 DEF ExtendsData
  <2>3. lane.frames[i] \in QueuedFrame
    BY <1>1, <2>2
  <2>4. /\ Extended(lane.frames[i], f.n).type = lane.frames[i].type
        /\ Extended(lane.frames[i], f.n).id = lane.frames[i].id
    BY <2>3 DEF Extended, QueuedFrame
  <2>5. new.windows = lane.windows
    BY <1>4, Zenon DEF WindowsWith, ExtendsData
  <2>6. Len(new.frames) = Len(lane.frames)
    BY <1>1, <2>1
  <2>7. \A k \in 1 .. Len(lane.frames) : /\ new.frames[k].type = lane.frames[k].type
                                         /\ new.frames[k].id = lane.frames[k].id
    <3>1. new.frames[i] = Extended(lane.frames[i], f.n)
      BY <1>1, <2>1, <2>2
    <3>2. \A k \in 1 .. Len(lane.frames) : k # i => new.frames[k] = lane.frames[k]
      BY <1>1, <2>1, <2>2
    <3>. QED
      BY <2>4, <3>1, <3>2, Zenon
  <2>. QED
    BY <1>1, <2>5, <2>6, <2>7, IndexedByShape, Zenon
<1>5. CASE ~MergesWindow(lane, f) /\ ~ExtendsData(lane, f)
  <2>. DEFINE q == [type |-> f.type, id |-> f.id, n |-> f.n,
                    cost |-> EncodedLength(f) + QueueItemCost]
              n == Len(lane.frames)
  <2>1. new.frames = Append(lane.frames, q)
    BY <1>5, Zenon DEF FramesWith
  <2>2. q.type = f.type /\ q.id = f.id
    OBVIOUS
  <2>3. new.windows = IF f.type = "WINDOW" THEN [lane.windows EXCEPT ![f.id] = n + 1]
                      ELSE lane.windows
    BY <1>5, Zenon DEF WindowsWith
  <2>. HIDE DEF q
  <2>4. /\ n \in Nat /\ Len(new.frames) = n + 1 /\ new.frames[n + 1] = q
        /\ \A k \in 1 .. n : new.frames[k] = lane.frames[k]
    BY <1>1, <2>1
  <2>. HIDE DEF n
  <2>5. \A id \in StreamIds :
          /\ lane.windows[id] \in Nat
          /\ lane.windows[id] # 0 =>
               lane.windows[id] <= n /\ IsWindowOf(lane.frames[lane.windows[id]], id)
          /\ \A k \in 1 .. n : IsWindowOf(lane.frames[k], id) =>
               lane.windows[id] # 0 /\ k <= lane.windows[id]
    BY <1>1, Zenon DEF WindowsIndexed, n
  <2>6. ASSUME NEW id \in StreamIds, f.type = "WINDOW", f.id = id
        PROVE  /\ new.windows[id] = n + 1
               /\ IsWindowOf(new.frames[n + 1], id)
    BY <1>1, <2>2, <2>3, <2>4, <2>6 DEF IsWindowOf
  <2>7. ASSUME NEW id \in StreamIds, ~(f.type = "WINDOW" /\ f.id = id)
        PROVE  /\ new.windows[id] = lane.windows[id]
               /\ ~IsWindowOf(new.frames[n + 1], id)
    BY <1>1, <2>2, <2>3, <2>4, <2>7 DEF IsWindowOf
  <2>8. ASSUME NEW id \in StreamIds
        PROVE  /\ new.windows[id] # 0 =>
                    new.windows[id] <= n + 1 /\ IsWindowOf(new.frames[new.windows[id]], id)
               /\ \A k \in 1 .. n + 1 : IsWindowOf(new.frames[k], id) =>
                    new.windows[id] # 0 /\ k <= new.windows[id]
    <3>1. CASE f.type = "WINDOW" /\ f.id = id
      BY <2>4, <2>6, <3>1
    <3>2. CASE ~(f.type = "WINDOW" /\ f.id = id)
      BY <2>4, <2>5, <2>7, <3>2
    <3>. QED
      BY <3>1, <3>2
  <2>. QED
    BY <2>4, <2>8, Zenon DEF WindowsIndexed
<1>. QED
  BY <1>3, <1>4, <1>5

(* takeDownBatchLocked shifts the index with the queue.                    *)
LEMMA TakeIndexed ==
  ASSUME NEW lane \in Lane, NEW k \in 1 .. Len(lane.frames), NEW new,
         new.frames = AfterBatch(lane.frames, k), new.windows = WindowsAfterTake(lane, k),
         WindowsIndexed(lane)
  PROVE  WindowsIndexed(new)
<1>. DEFINE n == Len(lane.frames)
<1>1. /\ lane.frames \in Seq(QueuedFrame) /\ n \in Nat /\ k \in 1 .. n
      /\ \A id \in StreamIds : lane.windows[id] \in Nat
  BY LaneFields
<1>2. /\ Len(new.frames) = n - k
      /\ \A j \in 1 .. n - k : new.frames[j] = lane.frames[j + k]
  BY <1>1 DEF AfterBatch
<1>. HIDE DEF n
<1>3. ASSUME NEW id \in StreamIds
      PROVE  /\ new.windows[id] # 0 =>
                  new.windows[id] <= n - k /\ IsWindowOf(new.frames[new.windows[id]], id)
             /\ \A j \in 1 .. n - k : IsWindowOf(new.frames[j], id) =>
                  new.windows[id] # 0 /\ j <= new.windows[id]
  <2>. DEFINE i == lane.windows[id]
  <2>1. /\ i \in Nat
        /\ i # 0 => i <= n /\ IsWindowOf(lane.frames[i], id)
        /\ \A j \in 1 .. n : IsWindowOf(lane.frames[j], id) => i # 0 /\ j <= i
    BY <1>1, Zenon DEF WindowsIndexed, n
  <2>2. new.windows[id] = IF i <= k THEN 0 ELSE i - k
    BY DEF WindowsAfterTake
  <2>. HIDE DEF i
  <2>3. ASSUME NEW j \in 1 .. n - k, IsWindowOf(new.frames[j], id)
        PROVE  j + k <= i
    <3>1. j + k \in 1 .. n
      BY <1>1
    <3>2. IsWindowOf(lane.frames[j + k], id)
      BY <1>2, <2>3, Zenon
    <3>. QED
      BY <2>1, <3>1, <3>2, Zenon
  <2>4. i > k => i - k \in 1 .. n - k /\ (i - k) + k = i
    BY <1>1, <2>1
  <2>5. i > k => IsWindowOf(new.frames[i - k], id)
    BY <1>1, <1>2, <2>1, <2>4
  <2>. QED
    BY <1>1, <2>1, <2>2, <2>3, <2>4, <2>5
<1>. QED
  BY <1>2, <1>3, Zenon DEF WindowsIndexed

-----------------------------------------------------------------------------
(* Type correctness of the backends.                                       *)

LEMMA BackendInitType == BackendInit => BackendTypeOK
<1>. SUFFICES ASSUME BackendInit PROVE BackendTypeOK
  OBVIOUS
<1>1. 0 \in Nat
  OBVIOUS
<1>2. NoBackend \in BackendState
  BY <1>1, Zenon DEF NoBackend, BackendState
<1>. QED
  BY <1>2, NewSessionType, Zenon DEF BackendInit, BackendTypeOK

LEMMA BackendFields ==
  ASSUME NEW b \in BackendState
  PROVE  /\ b.run \in {"none", "opened", "dialing", "streaming", "ending", "done"}
         /\ b.writer \in {"off", "next", "wait", "write", "finish", "exit"}
         /\ b.inHand \in Nat
         /\ b.reader \in {"off", "next", "wait", "read", "exit"}
         /\ b.allowance \in Nat
         /\ b.refused \in BOOLEAN
BY DEF BackendState

LEMMA StreamFields ==
  ASSUME NEW t \in Stream
  PROVE  /\ t.live \in BOOLEAN /\ t.receiveWindow \in 0 .. MaxUint32
         /\ t.sendCredit \in 0 .. MaxUint32
         /\ t.pendingWriteBytes \in Int /\ t.pendingWriteCost \in Int
         /\ t.pendingWriteItems \in Int
         /\ t.writes \in Seq(Nat)
         /\ t.creditNotify \in BOOLEAN /\ t.writeNotify \in BOOLEAN
BY DEF Stream

(* The updates the actions make to one backend.                            *)
RunStates == {"none", "opened", "dialing", "streaming", "ending", "done"}
WriterStates == {"off", "next", "wait", "write", "finish", "exit"}
ReaderStates == {"off", "next", "wait", "read", "exit"}

LEMMA SetBackend ==
  ASSUME NEW id \in StreamIds, backends \in [StreamIds -> BackendState], NEW b \in BackendState
  PROVE  [backends EXCEPT ![id] = b] \in [StreamIds -> BackendState]
BY Zenon

LEMMA RunUpdates ==
  ASSUME NEW id \in StreamIds, backends \in [StreamIds -> BackendState],
         NEW run \in RunStates
  PROVE  [backends EXCEPT ![id].run = run] \in [StreamIds -> BackendState]
<1>1. [backends[id] EXCEPT !.run = run] \in BackendState
  BY Zenon DEF BackendState, RunStates
<1>2. [backends EXCEPT ![id] = [backends[id] EXCEPT !.run = run]] \in [StreamIds -> BackendState]
  BY <1>1, SetBackend, Zenon
<1>. QED
  BY <1>2

LEMMA WriterUpdates ==
  ASSUME NEW id \in StreamIds, backends \in [StreamIds -> BackendState],
         NEW writer \in WriterStates
  PROVE  /\ [backends EXCEPT ![id].writer = writer] \in [StreamIds -> BackendState]
         /\ \A n \in Nat : [backends EXCEPT ![id].writer = writer, ![id].inHand = n]
                             \in [StreamIds -> BackendState]
<1>1. /\ [backends[id] EXCEPT !.writer = writer] \in BackendState
      /\ \A n \in Nat : [backends[id] EXCEPT !.writer = writer, !.inHand = n] \in BackendState
  BY Zenon DEF BackendState, WriterStates
<1>2. [backends EXCEPT ![id] = [backends[id] EXCEPT !.writer = writer]]
        \in [StreamIds -> BackendState]
  BY <1>1, SetBackend, Zenon
<1>3. ASSUME NEW n \in Nat
      PROVE  [backends EXCEPT ![id].writer = writer, ![id].inHand = n]
               \in [StreamIds -> BackendState]
  <2>1. [backends EXCEPT ![id] = [backends[id] EXCEPT !.writer = writer, !.inHand = n]]
          \in [StreamIds -> BackendState]
    BY <1>1, SetBackend, Zenon
  <2>2. [backends EXCEPT ![id].writer = writer, ![id].inHand = n]
          = [backends EXCEPT ![id] = [backends[id] EXCEPT !.writer = writer, !.inHand = n]]
    OBVIOUS
  <2>. QED
    BY <2>1, <2>2, Zenon
<1>. QED
  BY <1>2, <1>3

LEMMA ReaderUpdates ==
  ASSUME NEW id \in StreamIds, backends \in [StreamIds -> BackendState],
         NEW reader \in ReaderStates
  PROVE  /\ [backends EXCEPT ![id].reader = reader] \in [StreamIds -> BackendState]
         /\ \A n \in Nat : [backends EXCEPT ![id].reader = reader, ![id].allowance = n]
                             \in [StreamIds -> BackendState]
         /\ \A flag \in BOOLEAN :
              [backends EXCEPT ![id].reader = reader, ![id].allowance = 0, ![id].refused = flag]
                \in [StreamIds -> BackendState]
<1>. DEFINE b == backends[id]
<1>1. /\ [b EXCEPT !.reader = reader] \in BackendState
      /\ \A n \in Nat : [b EXCEPT !.reader = reader, !.allowance = n] \in BackendState
      /\ \A n \in Nat : \A flag \in BOOLEAN :
           [b EXCEPT !.reader = reader, !.allowance = n, !.refused = flag] \in BackendState
  BY Zenon DEF BackendState, ReaderStates
<1>2. [backends EXCEPT ![id] = [b EXCEPT !.reader = reader]] \in [StreamIds -> BackendState]
  BY <1>1, SetBackend, Zenon
<1>3. ASSUME NEW n \in Nat
      PROVE  [backends EXCEPT ![id].reader = reader, ![id].allowance = n]
               \in [StreamIds -> BackendState]
  <2>1. [backends EXCEPT ![id] = [b EXCEPT !.reader = reader, !.allowance = n]]
          \in [StreamIds -> BackendState]
    BY <1>1, SetBackend, Zenon
  <2>2. [backends EXCEPT ![id].reader = reader, ![id].allowance = n]
          = [backends EXCEPT ![id] = [b EXCEPT !.reader = reader, !.allowance = n]]
    OBVIOUS
  <2>. QED
    BY <2>1, <2>2, Zenon
<1>4. ASSUME NEW flag \in BOOLEAN
      PROVE  [backends EXCEPT ![id].reader = reader, ![id].allowance = 0, ![id].refused = flag]
               \in [StreamIds -> BackendState]
  <2>0. 0 \in Nat
    OBVIOUS
  <2>1. [backends EXCEPT ![id] = [b EXCEPT !.reader = reader, !.allowance = 0, !.refused = flag]]
          \in [StreamIds -> BackendState]
    BY <2>0, <1>1, SetBackend, Zenon
  <2>2. [backends EXCEPT ![id].reader = reader, ![id].allowance = 0, ![id].refused = flag]
          = [backends EXCEPT ![id] = [b EXCEPT !.reader = reader, !.allowance = 0,
                                               !.refused = flag]]
    OBVIOUS
  <2>. QED
    BY <2>1, <2>2, Zenon
<1>. QED
  BY <1>2, <1>3, <1>4

LEMMA DialledUpdate ==
  ASSUME NEW id \in StreamIds, backends \in [StreamIds -> BackendState]
  PROVE  [backends EXCEPT ![id].run = "streaming", ![id].writer = "next", ![id].reader = "next"]
           \in [StreamIds -> BackendState]
<1>1. [backends[id] EXCEPT !.run = "streaming", !.writer = "next", !.reader = "next"]
        \in BackendState
  BY Zenon DEF BackendState
<1>2. [backends EXCEPT ![id] = [backends[id] EXCEPT !.run = "streaming", !.writer = "next",
                                                    !.reader = "next"]]
        \in [StreamIds -> BackendState]
  BY <1>1, SetBackend, Zenon
<1>3. [backends EXCEPT ![id].run = "streaming", ![id].writer = "next", ![id].reader = "next"]
        = [backends EXCEPT ![id] = [backends[id] EXCEPT !.run = "streaming", !.writer = "next",
                                                        !.reader = "next"]]
  OBVIOUS
<1>. QED
  BY <1>2, <1>3, Zenon

(* The updates the actions make to the session outside SessionCore.        *)
LEMMA SessionUpdates ==
  ASSUME NEW s \in Session, NEW id \in StreamIds
  PROVE  /\ \A waiters \in SUBSET StreamIds : [s EXCEPT !.budgetWaiters = waiters] \in Session
         /\ \A queue \in Seq(Nat) : [s EXCEPT !.streams[id].writes = queue] \in Session
         /\ \A credit \in 0 .. MaxUint32 :
              [s EXCEPT !.streams[id].sendCredit = credit] \in Session
         /\ [s EXCEPT !.streams[id].writeNotify = FALSE] \in Session
         /\ \A waiters \in SUBSET StreamIds :
              [s EXCEPT !.streams[id].creditNotify = FALSE, !.budgetWaiters = waiters]
                \in Session
<1>. DEFINE t == s.streams[id]
<1>1. t \in Stream
  BY SessionFields
<1>2. /\ \A queue \in Seq(Nat) : [t EXCEPT !.writes = queue] \in Stream
      /\ \A credit \in 0 .. MaxUint32 : [t EXCEPT !.sendCredit = credit] \in Stream
      /\ [t EXCEPT !.writeNotify = FALSE] \in Stream
      /\ [t EXCEPT !.creditNotify = FALSE] \in Stream
  BY <1>1, Zenon DEF Stream
<1>3. \A u \in Stream : [s EXCEPT !.streams[id] = u] \in Session
  BY SetStreamType, Zenon
<1>4. \A r \in Session : \A waiters \in SUBSET StreamIds :
        [r EXCEPT !.budgetWaiters = waiters] \in Session
  BY Zenon DEF Session
<1>5. /\ \A queue \in Seq(Nat) : [s EXCEPT !.streams[id] = [t EXCEPT !.writes = queue]] \in Session
      /\ \A credit \in 0 .. MaxUint32 :
           [s EXCEPT !.streams[id] = [t EXCEPT !.sendCredit = credit]] \in Session
      /\ [s EXCEPT !.streams[id] = [t EXCEPT !.writeNotify = FALSE]] \in Session
      /\ [s EXCEPT !.streams[id] = [t EXCEPT !.creditNotify = FALSE]] \in Session
  BY <1>2, <1>3, Zenon
<1>6. ASSUME NEW waiters \in SUBSET StreamIds
      PROVE  [s EXCEPT !.streams[id].creditNotify = FALSE, !.budgetWaiters = waiters] \in Session
  <2>1. [[s EXCEPT !.streams[id] = [t EXCEPT !.creditNotify = FALSE]]
           EXCEPT !.budgetWaiters = waiters] \in Session
    BY <1>4, <1>5, Zenon
  <2>2. [s EXCEPT !.streams[id].creditNotify = FALSE, !.budgetWaiters = waiters]
          = [[s EXCEPT !.streams[id] = [t EXCEPT !.creditNotify = FALSE]]
               EXCEPT !.budgetWaiters = waiters]
    BY DEF Session
  <2>. QED
    BY <2>1, <2>2, Zenon
<1>. QED
  BY <1>4, <1>5, <1>6, Zenon

(* What backendDrained and backendWriteFinished take off a stream's        *)
(* account, and nothing else.                                              *)
AfterDrain(x, k) ==
  [x EXCEPT !.pendingWriteBytes = @ - k, !.pendingWriteCost = @ - k, !.receiveWindow = @ + k]

AfterFinish(x) ==
  [x EXCEPT !.pendingWriteItems = @ - 1, !.pendingWriteCost = @ - QueueItemCost]

SameButAccount(x, y) ==
  /\ y.live = x.live /\ y.sendCredit = x.sendCredit /\ y.writes = x.writes
  /\ y.creditNotify = x.creditNotify /\ y.writeNotify = x.writeNotify

LEMMA AccountUpdates ==
  ASSUME NEW x \in Stream
  PROVE  /\ SameButAccount(x, AfterFinish(x))
         /\ AfterFinish(x).pendingWriteCost = x.pendingWriteCost - QueueItemCost
         /\ AfterFinish(x).pendingWriteItems = x.pendingWriteItems - 1
         /\ \A k : /\ SameButAccount(x, AfterDrain(x, k))
                   /\ AfterDrain(x, k).pendingWriteCost = x.pendingWriteCost - k
                   /\ AfterDrain(x, k).pendingWriteItems = x.pendingWriteItems
<1>1. /\ SameButAccount(x, AfterFinish(x))
      /\ AfterFinish(x).pendingWriteCost = x.pendingWriteCost - QueueItemCost
      /\ AfterFinish(x).pendingWriteItems = x.pendingWriteItems - 1
  BY DEF SameButAccount, AfterFinish, Stream
<1>2. ASSUME NEW k
      PROVE  /\ SameButAccount(x, AfterDrain(x, k))
             /\ AfterDrain(x, k).pendingWriteCost = x.pendingWriteCost - k
             /\ AfterDrain(x, k).pendingWriteItems = x.pendingWriteItems
  BY DEF SameButAccount, AfterDrain, Stream
<1>. QED
  BY <1>1, <1>2

(* A session with another record of a stream, or of a lane.                *)
PutStream(s, id, x) == [s EXCEPT !.streams[id] = x]

PutLane(s, l, x) == [s EXCEPT !.lanes[l] = x]

LEMMA SetStreamFields ==
  ASSUME NEW s \in Session, NEW id \in StreamIds, NEW x
  PROVE  LET t == PutStream(s, id, x) IN
         /\ t.closed = s.closed /\ t.closedOrder = s.closedOrder /\ t.lanes = s.lanes
         /\ t.cancelled = s.cancelled
         /\ t.pendingCost = s.pendingCost /\ t.pendingItems = s.pendingItems
         /\ t.streams[id] = x
         /\ \A other \in StreamIds \ {id} : t.streams[other] = s.streams[other]
<1>. DEFINE t == PutStream(s, id, x)
<1>1. s.streams \in [StreamIds -> Stream]
  BY SessionFields
<1>2. /\ t.closed = s.closed /\ t.closedOrder = s.closedOrder /\ t.lanes = s.lanes
      /\ t.cancelled = s.cancelled
      /\ t.pendingCost = s.pendingCost /\ t.pendingItems = s.pendingItems
      /\ t.streams = [s.streams EXCEPT ![id] = x]
  BY DEF Session, PutStream
<1>. HIDE DEF t
<1>3. t.streams[id] = x /\ \A other \in StreamIds \ {id} : t.streams[other] = s.streams[other]
  BY <1>1, <1>2
<1>4. /\ t.closed = s.closed /\ t.closedOrder = s.closedOrder /\ t.lanes = s.lanes
      /\ t.cancelled = s.cancelled
      /\ t.pendingCost = s.pendingCost /\ t.pendingItems = s.pendingItems
      /\ t.streams[id] = x
      /\ \A other \in StreamIds \ {id} : t.streams[other] = s.streams[other]
  BY <1>2, <1>3
<1>. QED
  BY <1>4 DEF t

LEMMA SetLaneFields ==
  ASSUME NEW s \in Session, NEW l \in LaneIds, NEW x
  PROVE  LET t == PutLane(s, l, x) IN
         /\ t.closed = s.closed /\ t.streams = s.streams /\ t.closedOrder = s.closedOrder
         /\ t.cancelled = s.cancelled
         /\ t.pendingCost = s.pendingCost /\ t.pendingItems = s.pendingItems
         /\ t.lanes[l] = x
         /\ \A other \in LaneIds : other # l => t.lanes[other] = s.lanes[other]
<1>. DEFINE t == PutLane(s, l, x)
<1>1. s.lanes \in [LaneIds -> Lane]
  BY SessionFields
<1>2. /\ t.closed = s.closed /\ t.streams = s.streams /\ t.closedOrder = s.closedOrder
      /\ t.cancelled = s.cancelled
      /\ t.pendingCost = s.pendingCost /\ t.pendingItems = s.pendingItems
      /\ t.lanes = [s.lanes EXCEPT ![l] = x]
  BY DEF Session, PutLane
<1>. HIDE DEF t
<1>3. t.lanes[l] = x /\ \A other \in LaneIds : other # l => t.lanes[other] = s.lanes[other]
  BY <1>1, <1>2
<1>4. /\ t.closed = s.closed /\ t.streams = s.streams /\ t.closedOrder = s.closedOrder
      /\ t.cancelled = s.cancelled
      /\ t.pendingCost = s.pendingCost /\ t.pendingItems = s.pendingItems
      /\ t.lanes[l] = x
      /\ \A other \in LaneIds : other # l => t.lanes[other] = s.lanes[other]
  BY <1>2, <1>3
<1>. QED
  BY <1>4 DEF t

(* The wake-up channel of a lane, filled or drained.                       *)
Notified(lane, b) == [lane EXCEPT !.notify = b]

SameButNotify(x, y) ==
  /\ y.present = x.present /\ y.lastUpSequence = x.lastUpSequence
  /\ y.lastUpDigest = x.lastUpDigest /\ (y.upActive <=> x.upActive)
  /\ y.frames = x.frames /\ y.windows = x.windows /\ y.unacked = x.unacked
  /\ y.unackedCost = x.unackedCost /\ y.unackedItems = x.unackedItems
  /\ y.unackedBase = x.unackedBase /\ y.downCursor = x.downCursor /\ y.owner = x.owner

LEMMA NotifiedFields ==
  ASSUME NEW x \in Lane
  PROVE  \A b : SameButNotify(x, Notified(x, b)) /\ Notified(x, b).notify = b
BY DEF SameButNotify, Notified, Lane

LEMMA SetNotifyIs ==
  ASSUME NEW s \in Session, NEW l \in LaneIds
  PROVE  /\ [s EXCEPT !.lanes[l].notify = TRUE] = PutLane(s, l, Notified(s.lanes[l], TRUE))
         /\ [s EXCEPT !.lanes[l].notify = FALSE] = PutLane(s, l, Notified(s.lanes[l], FALSE))
<1>1. [s EXCEPT !.lanes[l].notify = TRUE]
        = [s EXCEPT !.lanes[l] = [s.lanes[l] EXCEPT !.notify = TRUE]]
  BY DEF Session
<1>2. [s EXCEPT !.lanes[l].notify = FALSE]
        = [s EXCEPT !.lanes[l] = [s.lanes[l] EXCEPT !.notify = FALSE]]
  BY DEF Session
<1>. QED
  BY <1>1, <1>2, Zenon DEF PutLane, Notified

LEMMA DrainIs ==
  ASSUME NEW s \in Session, NEW id \in StreamIds, NEW k \in Int
  PROVE  /\ ReleasePending(s, k, 0) \in Session
         /\ ReleasePending(s, k, 0).streams = s.streams
         /\ Drain(s, id, k) =
              PutStream(ReleasePending(s, k, 0), id, AfterDrain(s.streams[id], k))
<1>. DEFINE r == ReleasePending(s, k, 0)
<1>1. r \in Session /\ r.streams = s.streams
  <2>1. 0 \in Int
    OBVIOUS
  <2>. QED
    BY <2>1, ReleasePendingType, ReleasePendingFields
<1>. HIDE DEF r
<1>2. [r EXCEPT !.streams[id].pendingWriteBytes = @ - k,
                !.streams[id].pendingWriteCost = @ - k,
                !.streams[id].receiveWindow = @ + k]
        = [r EXCEPT !.streams[id] = [r.streams[id] EXCEPT !.pendingWriteBytes = @ - k,
                                                          !.pendingWriteCost = @ - k,
                                                          !.receiveWindow = @ + k]]
  BY <1>1 DEF Session
<1>3. [r EXCEPT !.streams[id].pendingWriteBytes = @ - k,
                !.streams[id].pendingWriteCost = @ - k,
                !.streams[id].receiveWindow = @ + k]
        = [r EXCEPT !.streams[id] = AfterDrain(s.streams[id], k)]
  BY <1>1, <1>2, Zenon DEF AfterDrain
<1>. QED
  BY <1>1, <1>3, Zenon DEF Drain, r, PutStream

LEMMA FinishWriteIs ==
  ASSUME NEW s \in Session, NEW id \in StreamIds
  PROVE  /\ ReleasePending(s, QueueItemCost, 1) \in Session
         /\ ReleasePending(s, QueueItemCost, 1).streams = s.streams
         /\ FinishWrite(s, id) =
              PutStream(ReleasePending(s, QueueItemCost, 1), id, AfterFinish(s.streams[id]))
<1>. DEFINE r == ReleasePending(s, QueueItemCost, 1)
<1>1. r \in Session /\ r.streams = s.streams
  <2>1. QueueItemCost \in Int /\ 1 \in Int
    BY FrameAssumption
  <2>. QED
    BY <2>1, ReleasePendingType, ReleasePendingFields
<1>. HIDE DEF r
<1>2. [r EXCEPT !.streams[id].pendingWriteItems = @ - 1,
                !.streams[id].pendingWriteCost = @ - QueueItemCost]
        = [r EXCEPT !.streams[id] = [r.streams[id] EXCEPT
                                       !.pendingWriteItems = @ - 1,
                                       !.pendingWriteCost = @ - QueueItemCost]]
  BY <1>1 DEF Session
<1>3. [r EXCEPT !.streams[id].pendingWriteItems = @ - 1,
                !.streams[id].pendingWriteCost = @ - QueueItemCost]
        = [r EXCEPT !.streams[id] = AfterFinish(s.streams[id])]
  BY <1>1, <1>2, Zenon DEF AfterFinish
<1>. QED
  BY <1>1, <1>3, Zenon DEF FinishWrite, r, PutStream

(* What a session keeps when it drains or finishes a write.                *)
AccountChanged(s, t, id) ==
  /\ t.closed = s.closed /\ t.closedOrder = s.closedOrder /\ t.lanes = s.lanes
  /\ t.cancelled = s.cancelled
  /\ \A other \in StreamIds \ {id} : t.streams[other] = s.streams[other]
  /\ SameButAccount(s.streams[id], t.streams[id])

LEMMA ReleaseThenSet ==
  ASSUME NEW s \in Session, NEW id \in StreamIds, NEW cost \in Int, NEW items \in Int,
         NEW x, SameButAccount(s.streams[id], x)
  PROVE  LET t == PutStream(ReleasePending(s, cost, items), id, x)
         IN  AccountChanged(s, t, id) /\ t.streams[id] = x
<1>. DEFINE r == ReleasePending(s, cost, items)
            t == PutStream(r, id, x)
<1>1. r \in Session
  BY ReleasePendingType
<1>2. /\ r.closed = s.closed /\ r.streams = s.streams /\ r.closedOrder = s.closedOrder
      /\ r.lanes = s.lanes /\ r.cancelled = s.cancelled
  BY ReleasePendingFields
<1>. HIDE DEF r
<1>3. /\ t.closed = r.closed /\ t.closedOrder = r.closedOrder /\ t.lanes = r.lanes
      /\ t.cancelled = r.cancelled /\ t.streams[id] = x
      /\ \A other \in StreamIds \ {id} : t.streams[other] = r.streams[other]
  BY <1>1, SetStreamFields
<1>. HIDE DEF t
<1>4. AccountChanged(s, t, id) /\ t.streams[id] = x
  BY <1>2, <1>3 DEF AccountChanged
<1>. QED
  BY <1>4 DEF t, r

LEMMA AccountsChanged ==
  ASSUME NEW s \in Session, NEW id \in StreamIds
  PROVE  /\ AccountChanged(s, FinishWrite(s, id), id)
         /\ FinishWrite(s, id).streams[id] = AfterFinish(s.streams[id])
         /\ \A k \in Int : /\ AccountChanged(s, Drain(s, id, k), id)
                           /\ Drain(s, id, k).streams[id] = AfterDrain(s.streams[id], k)
<1>1. s.streams[id] \in Stream
  BY SessionFields
<1>2. /\ SameButAccount(s.streams[id], AfterFinish(s.streams[id]))
      /\ \A k : SameButAccount(s.streams[id], AfterDrain(s.streams[id], k))
  BY <1>1, AccountUpdates
<1>3. /\ AccountChanged(s, FinishWrite(s, id), id)
      /\ FinishWrite(s, id).streams[id] = AfterFinish(s.streams[id])
  <2>1. QueueItemCost \in Int /\ 1 \in Int
    BY FrameAssumption
  <2>. QED
    BY <1>2, <2>1, ReleaseThenSet, FinishWriteIs
<1>4. ASSUME NEW k \in Int
      PROVE  /\ AccountChanged(s, Drain(s, id, k), id)
             /\ Drain(s, id, k).streams[id] = AfterDrain(s.streams[id], k)
  BY <1>2, ReleaseThenSet, DrainIs
<1>. QED
  BY <1>3, <1>4

LEMMA DrainType ==
  ASSUME NEW s \in Session, NEW id \in StreamIds, NEW k \in Nat, CanDrain(s, id, k)
  PROVE  Drain(s, id, k) \in Session
<1>. DEFINE t == s.streams[id]
            r == ReleasePending(s, k, 0)
            u == [t EXCEPT !.pendingWriteBytes = @ - k, !.pendingWriteCost = @ - k,
                           !.receiveWindow = @ + k]
<1>1. t \in Stream
  BY SessionFields
<1>2. /\ t.pendingWriteBytes - k \in Int /\ t.pendingWriteCost - k \in Int
      /\ t.receiveWindow + k \in 0 .. MaxUint32
  <2>1. /\ t.pendingWriteBytes \in Int /\ t.pendingWriteCost \in Int
        /\ t.receiveWindow \in 0 .. MaxUint32
    BY <1>1, StreamFields, Zenon
  <2>2. t.receiveWindow + k <= InitialStreamWindow
    BY Zenon DEF CanDrain
  <2>3. /\ InitialStreamWindow \in Nat /\ MaxUint32 \in Nat
        /\ InitialStreamWindow <= MaxUint32
    BY FrameAssumption
  <2>. HIDE DEF t
  <2>. QED
    BY <2>1, <2>2, <2>3
<1>3. u \in Stream
  BY <1>1, <1>2, Zenon DEF Stream
<1>4. r \in Session /\ r.streams = s.streams
  <2>1. k \in Int /\ 0 \in Int
    OBVIOUS
  <2>2. [s EXCEPT !.pendingCost = @ - k, !.pendingItems = @ - 0, !.budgetWaiters = {}].streams
          = s.streams
    BY DEF Session
  <2>. QED
    BY <2>1, <2>2, ReleasePendingType, Zenon DEF ReleasePending
<1>. HIDE DEF r, u
<1>5. [r EXCEPT !.streams[id] = u] \in Session
  BY <1>3, <1>4, SetStreamType, Zenon
<1>6. [r EXCEPT !.streams[id].pendingWriteBytes = @ - k,
                !.streams[id].pendingWriteCost = @ - k,
                !.streams[id].receiveWindow = @ + k]
        = [r EXCEPT !.streams[id] = [r.streams[id] EXCEPT !.pendingWriteBytes = @ - k,
                                                          !.pendingWriteCost = @ - k,
                                                          !.receiveWindow = @ + k]]
  BY <1>4 DEF Session
<1>. QED
  BY <1>4, <1>5, <1>6, Zenon DEF Drain, u, r

LEMMA AfterWriteType ==
  ASSUME NEW s \in Session, NEW id \in StreamIds, NEW k \in Nat, NEW pool \in BOOLEAN
  PROVE  AfterWrite(s, id, k, pool) \in Session
<1>1. CASE CanDrain(s, id, k)
  <2>1. Drain(s, id, k) \in Session
    BY <1>1, DrainType
  <2>2. [type |-> "WINDOW", id |-> id, n |-> k] \in Queueable
    BY DEF Queueable
  <2>. QED
    BY <1>1, <2>1, <2>2, QueueFrameType, Zenon DEF AfterWrite
<1>. QED
  BY <1>1, Zenon DEF AfterWrite

LEMMA FinishWriteType ==
  ASSUME NEW s \in Session, NEW id \in StreamIds
  PROVE  FinishWrite(s, id) \in Session
<1>. DEFINE t == s.streams[id]
            r == ReleasePending(s, QueueItemCost, 1)
            u == [t EXCEPT !.pendingWriteItems = @ - 1,
                           !.pendingWriteCost = @ - QueueItemCost]
<1>1. t \in Stream
  BY SessionFields
<1>2. t.pendingWriteItems - 1 \in Int /\ t.pendingWriteCost - QueueItemCost \in Int
  BY <1>1, StreamFields, FrameAssumption
<1>3. u \in Stream
  BY <1>1, <1>2, Zenon DEF Stream
<1>4. r \in Session /\ r.streams = s.streams
  <2>1. QueueItemCost \in Int /\ 1 \in Int
    BY FrameAssumption
  <2>2. [s EXCEPT !.pendingCost = @ - QueueItemCost, !.pendingItems = @ - 1,
                  !.budgetWaiters = {}].streams = s.streams
    BY DEF Session
  <2>. QED
    BY <2>1, <2>2, ReleasePendingType, Zenon DEF ReleasePending
<1>. HIDE DEF r, u
<1>5. [r EXCEPT !.streams[id] = u] \in Session
  BY <1>3, <1>4, SetStreamType, Zenon
<1>6. [r EXCEPT !.streams[id].pendingWriteItems = @ - 1,
                !.streams[id].pendingWriteCost = @ - QueueItemCost]
        = [r EXCEPT !.streams[id] = [r.streams[id] EXCEPT
                                       !.pendingWriteItems = @ - 1,
                                       !.pendingWriteCost = @ - QueueItemCost]]
  BY <1>4 DEF Session
<1>. QED
  BY <1>4, <1>5, <1>6, Zenon DEF FinishWrite, u, r

LEMMA ReadAllowanceType ==
  ASSUME NEW s \in Session, NEW id \in StreamIds
  PROVE  ReadAllowance(s, id) \in Nat
<1>1. s.streams[id].sendCredit \in Nat
  BY SessionFields, StreamFields, FrameAssumption
<1>2. Minimum(s.streams[id].sendCredit, DataChunk) \in Nat
  BY <1>1, FrameAssumption DEF Minimum
<1>3. s.pendingCost \in Int
  BY SessionFields
<1>4. CostLimit("down") \in Int
  BY LimitAssumption, FrameAssumption
     DEF CostLimit, Monus, ControlReserveCost, ControlReserveItems,
         UplinkReserveCost, UplinkReserveItems, Minimum
<1>. HIDE DEF CostLimit
<1>5. \A limit \in Nat : \A items : DataFrameAllowance(s.pendingCost, items, limit) \in Nat
  BY <1>3, <1>4, FrameAssumption DEF DataFrameAllowance, Minimum
<1>. QED
  BY <1>2, <1>5 DEF ReadAllowance

LEMMA PoolAnswersType == \A class : PoolAnswers(class) \subseteq BOOLEAN
BY Zenon DEF PoolAnswers

LEMMA EndIds == \A id \in StreamIds : {id} \in SUBSET StreamIds
OBVIOUS

LEMMA ClosedByBackendType ==
  ASSUME NEW s \in Session, NEW id \in StreamIds, NEW pool
  PROVE  ClosedByBackend(s, id, pool) \in Session
<1>1. EndStream(s, id) \in Session
  BY EndStreamType
<1>2. [type |-> "CLOSE", id |-> id, n |-> 0] \in Queueable
  BY DEF Queueable
<1>. QED
  BY <1>1, <1>2, QueueFrameType, CloseSessionType, Zenon DEF ClosedByBackend

-----------------------------------------------------------------------------
(* The steps, one goroutine at a time.                                     *)

LEMMA RunStepType ==
  ASSUME BackendTypeOK, NEW id \in StreamIds,
         Dialled(id) \/ DialFailed(id) \/ LoopsReturned(id) \/ BackendClosed(id)
  PROVE  BackendTypeOK'
<1>. USE DEF BackendTypeOK
<1>1. /\ [backends EXCEPT ![id].run = "streaming", ![id].writer = "next",
                          ![id].reader = "next"] \in [StreamIds -> BackendState]
      /\ [backends EXCEPT ![id].run = "ending"] \in [StreamIds -> BackendState]
      /\ [backends EXCEPT ![id].run = "done"] \in [StreamIds -> BackendState]
  BY DialledUpdate, RunUpdates, Zenon DEF RunStates
<1>2. CASE Dialled(id)
  BY <1>1, <1>2, Zenon DEF Dialled
<1>3. CASE DialFailed(id)
  BY <1>1, <1>3, Zenon DEF DialFailed
<1>4. CASE LoopsReturned(id)
  BY <1>1, <1>4, Zenon DEF LoopsReturned
<1>5. CASE BackendClosed(id)
  <2>1. PICK pool \in PoolAnswers("control") :
          ses' = CancelBackend(IF Live(id) THEN ClosedByBackend(ses, id, pool) ELSE ses, {id})
    BY <1>5, Zenon DEF BackendClosed
  <2>2. ses' \in Session
    BY <2>1, ClosedByBackendType, CancelBackendType, EndIds, Zenon
  <2>. QED
    BY <1>1, <1>5, <2>2, Zenon DEF BackendClosed
<1>. QED
  BY <1>2, <1>3, <1>4, <1>5

LEMMA WriterStepType ==
  ASSUME BackendTypeOK, NEW id \in StreamIds,
         \/ NextWrite(id) \/ WriterWakes(id) \/ WriterStops(id)
         \/ Write(id) \/ WriteFails(id) \/ WriteFinished(id)
  PROVE  BackendTypeOK'
<1>. USE DEF BackendTypeOK
<1>1. /\ [backends EXCEPT ![id].writer = "exit", ![id].inHand = 0] \in [StreamIds -> BackendState]
      /\ [backends EXCEPT ![id].writer = "finish", ![id].inHand = 0] \in [StreamIds -> BackendState]
      /\ [backends EXCEPT ![id].writer = "wait"] \in [StreamIds -> BackendState]
      /\ [backends EXCEPT ![id].writer = "next"] \in [StreamIds -> BackendState]
  <2>1. 0 \in Nat
    OBVIOUS
  <2>. QED
    BY <2>1, WriterUpdates, Zenon DEF WriterStates
<1>2. WriterExits(id) => backends' \in [StreamIds -> BackendState]
  BY <1>1, Zenon DEF WriterExits
<1>3. CASE NextWrite(id)
  <2>1. CASE ~Live(id)
    BY <1>2, <1>3, <2>1, CancelBackendType, EndIds, Zenon DEF NextWrite
  <2>2. CASE Live(id) /\ ses.streams[id].writes # <<>>
    <3>1. ses.streams[id].writes \in Seq(Nat)
      BY SessionFields, StreamFields
    <3>2. Head(ses.streams[id].writes) \in Nat /\ Tail(ses.streams[id].writes) \in Seq(Nat)
      BY <2>2, <3>1
    <3>3. [backends EXCEPT ![id].writer = "write", ![id].inHand = Head(ses.streams[id].writes)]
            \in [StreamIds -> BackendState]
      BY <3>2, WriterUpdates, Zenon DEF WriterStates
    <3>4. [ses EXCEPT !.streams[id].writes = Tail(ses.streams[id].writes)] \in Session
      BY <3>2, SessionUpdates, EndIds, Zenon
    <3>. QED
      BY <1>3, <2>2, <3>3, <3>4, Zenon DEF NextWrite
  <2>3. CASE Live(id) /\ ses.streams[id].writes = <<>>
    BY <1>1, <1>3, <2>3, Zenon DEF NextWrite
  <2>. QED
    BY <2>1, <2>2, <2>3, Zenon
<1>4. CASE WriterWakes(id)
  <2>1. [ses EXCEPT !.streams[id].writeNotify = FALSE] \in Session
    BY SessionUpdates, EndIds, Zenon
  <2>. QED
    BY <1>1, <1>4, <2>1, Zenon DEF WriterWakes
<1>5. CASE WriterStops(id)
  BY <1>2, <1>5, CancelBackendType, EndIds, Zenon DEF WriterStops
<1>6. CASE Write(id)
  <2>1. PICK pool \in PoolAnswers("control") :
          LET k == backends[id].inHand
              after == AfterWrite(ses, id, k, pool)
          IN  IF Drained(ses, id, k, pool)
              THEN /\ backends' = [backends EXCEPT ![id].writer = "finish", ![id].inHand = 0]
                   /\ ses' = after
              ELSE /\ WriterExits(id)
                   /\ ses' = CancelBackend(after, {id})
    BY <1>6, Zenon DEF Write
  <2>2. backends[id].inHand \in Nat
    BY BackendFields
  <2>3. AfterWrite(ses, id, backends[id].inHand, pool) \in Session
    BY <2>2, AfterWriteType, PoolAnswersType, Zenon
  <2>. QED
    BY <1>1, <1>2, <1>6, <2>1, <2>3, CancelBackendType, EndIds, Zenon DEF Write
<1>7. CASE WriteFails(id)
  <2>1. PICK pool \in PoolAnswers("control"), k \in 0 .. backends[id].inHand - 1 :
          ses' = CancelBackend(AfterWrite(ses, id, k, pool), {id})
    BY <1>7, Zenon DEF WriteFails
  <2>2. backends[id].inHand \in Nat
    BY BackendFields
  <2>3. k \in Nat
    BY <2>2
  <2>4. AfterWrite(ses, id, k, pool) \in Session
    BY <2>3, AfterWriteType, PoolAnswersType, Zenon
  <2>. QED
    BY <1>2, <1>7, <2>1, <2>4, CancelBackendType, EndIds, Zenon DEF WriteFails
<1>8. CASE WriteFinished(id)
  <2>1. ses \in Session /\ {id} \in SUBSET StreamIds
    OBVIOUS
  <2>2. FinishWrite(ses, id) \in Session /\ CancelBackend(ses, {id}) \in Session
    BY <2>1, FinishWriteType, CancelBackendType, Zenon
  <2>3. locked' \in BOOLEAN
    BY <1>8, Zenon DEF WriteFinished
  <2>4. CASE CanFinishWrite(ses, id)
    <3>1. ses' \in Session /\ backends' \in [StreamIds -> BackendState]
      BY <1>1, <1>8, <2>2, <2>4, Zenon DEF WriteFinished
    <3>. QED
      BY <2>3, <3>1, Zenon
  <2>5. CASE ~CanFinishWrite(ses, id)
    <3>1. ses' \in Session /\ backends' \in [StreamIds -> BackendState]
      BY <1>2, <1>8, <2>2, <2>5, Zenon DEF WriteFinished
    <3>. QED
      BY <2>3, <3>1, Zenon
  <2>. QED
    BY <2>4, <2>5, Zenon
<1>. QED
  BY <1>3, <1>4, <1>5, <1>6, <1>7, <1>8

LEMMA ReaderStepType ==
  ASSUME BackendTypeOK, NEW id \in StreamIds,
         \/ NextRead(id) \/ CreditWakesReader(id) \/ BudgetWakesReader(id)
         \/ ReaderStops(id) \/ Read(id) \/ ReadEnds(id)
  PROVE  BackendTypeOK'
<1>. USE DEF BackendTypeOK
<1>1. 0 \in Nat /\ ReadAllowance(ses, id) \in Nat
  BY ReadAllowanceType
<1>2. /\ [backends EXCEPT ![id].reader = "wait"] \in [StreamIds -> BackendState]
      /\ [backends EXCEPT ![id].reader = "next"] \in [StreamIds -> BackendState]
      /\ [backends EXCEPT ![id].reader = "next", ![id].allowance = 0]
            \in [StreamIds -> BackendState]
      /\ [backends EXCEPT ![id].reader = "read", ![id].allowance = ReadAllowance(ses, id)]
            \in [StreamIds -> BackendState]
      /\ \A flag \in BOOLEAN :
           [backends EXCEPT ![id].reader = "exit", ![id].allowance = 0, ![id].refused = flag]
             \in [StreamIds -> BackendState]
  BY <1>1, ReaderUpdates, Zenon DEF ReaderStates
<1>3. /\ ReaderExits(id, TRUE) => backends' \in [StreamIds -> BackendState]
      /\ ReaderExits(id, FALSE) => backends' \in [StreamIds -> BackendState]
  BY <1>2, Zenon DEF ReaderExits
<1>4. /\ ses.budgetWaiters \cup {id} \in SUBSET StreamIds
      /\ ses.budgetWaiters \ {id} \in SUBSET StreamIds
  BY SessionFields
<1>5. CASE NextRead(id)
  <2>1. [ses EXCEPT !.budgetWaiters = ses.budgetWaiters \cup {id}] \in Session
    BY <1>4, Zenon DEF Session
  <2>2. locked' \in BOOLEAN
    BY <1>5, Zenon DEF NextRead
  <2>3. backends' \in [StreamIds -> BackendState]
    BY <1>2, <1>3, <1>5, Zenon DEF NextRead
  <2>4. ses' \in Session
    BY <1>5, <2>1, CancelBackendType, EndIds, Zenon DEF NextRead
  <2>. QED
    BY <2>2, <2>3, <2>4
<1>6. CASE CreditWakesReader(id)
  <2>1. [ses EXCEPT !.streams[id].creditNotify = FALSE,
                    !.budgetWaiters = ses.budgetWaiters \ {id}] \in Session
    BY <1>4, SessionUpdates, Zenon
  <2>. QED
    BY <1>2, <1>6, <2>1, Zenon DEF CreditWakesReader
<1>7. CASE BudgetWakesReader(id)
  BY <1>2, <1>7, Zenon DEF BudgetWakesReader
<1>8. CASE ReaderStops(id)
  <2>1. [ses EXCEPT !.budgetWaiters = ses.budgetWaiters \ {id}] \in Session
    BY <1>4, Zenon DEF Session
  <2>. QED
    BY <1>3, <1>8, <2>1, CancelBackendType, EndIds, Zenon DEF ReaderStops
<1>9. CASE Read(id)
  <2>1. PICK pool \in PoolAnswers("down"), k \in 1 .. backends[id].allowance :
          LET frame == [type |-> "DATA", id |-> id, n |-> k]
              spent == SpendCredit(ses, id, k)
          IN  IF ~CanTakeData(ses, id, k)
              THEN /\ ReaderExits(id, FALSE)
                   /\ ses' = CancelBackend(ses, {id})
              ELSE IF CanQueue(spent, frame, pool)
              THEN /\ backends' = [backends EXCEPT ![id].reader = "next", ![id].allowance = 0]
                   /\ ses' = QueueFrame(spent, frame)
              ELSE /\ ReaderExits(id, TRUE)
                   /\ ses' = CancelBackend(spent, {id})
    BY <1>9, Zenon DEF Read
  <2>2. k \in Nat
    BY BackendFields
  <2>3. [type |-> "DATA", id |-> id, n |-> k] \in Queueable
    BY <2>2 DEF Queueable
  <2>4. CanTakeData(ses, id, k) => SpendCredit(ses, id, k) \in Session
    <3>. SUFFICES ASSUME CanTakeData(ses, id, k) PROVE SpendCredit(ses, id, k) \in Session
      OBVIOUS
    <3>1. ses.streams[id].sendCredit \in 0 .. MaxUint32
      BY SessionFields, StreamFields
    <3>2. ses.streams[id].sendCredit - k \in 0 .. MaxUint32
      BY <2>2, <3>1, FrameAssumption DEF CanTakeData
    <3>3. [ses EXCEPT !.streams[id].sendCredit = ses.streams[id].sendCredit - k] \in Session
      BY <3>2, SessionUpdates, EndIds, Zenon
    <3>. QED
      BY <3>3, Zenon DEF SpendCredit
  <2>5. CASE ~CanTakeData(ses, id, k)
    BY <1>3, <1>9, <2>1, <2>5, CancelBackendType, EndIds, Zenon DEF Read
  <2>6. CASE CanTakeData(ses, id, k) /\ CanQueue(SpendCredit(ses, id, k),
                                                 [type |-> "DATA", id |-> id, n |-> k], pool)
    <3>1. /\ backends' = [backends EXCEPT ![id].reader = "next", ![id].allowance = 0]
          /\ ses' = QueueFrame(SpendCredit(ses, id, k), [type |-> "DATA", id |-> id, n |-> k])
      BY <2>1, <2>6, Zenon
    <3>. QED
      BY <1>2, <1>9, <2>3, <2>4, <2>6, <3>1, QueueFrameType, Zenon DEF Read
  <2>7. CASE CanTakeData(ses, id, k) /\ ~CanQueue(SpendCredit(ses, id, k),
                                                  [type |-> "DATA", id |-> id, n |-> k], pool)
    <3>1. ReaderExits(id, TRUE) /\ ses' = CancelBackend(SpendCredit(ses, id, k), {id})
      BY <2>1, <2>7, Zenon
    <3>. QED
      BY <1>3, <1>9, <2>4, <2>7, <3>1, CancelBackendType, EndIds, Zenon DEF Read
  <2>. QED
    BY <2>5, <2>6, <2>7, Zenon
<1>10. CASE ReadEnds(id)
  BY <1>3, <1>10, CancelBackendType, EndIds, Zenon DEF ReadEnds
<1>. QED
  BY <1>5, <1>6, <1>7, <1>8, <1>9, <1>10

(* Every step of a backend keeps the session and the backends well typed.  *)
LEMMA BackendStepType ==
  ASSUME BackendTypeOK, NEW id \in StreamIds, BackendStep(id)
  PROVE  BackendTypeOK'
BY RunStepType, WriterStepType, ReaderStepType, Zenon DEF BackendStep

-----------------------------------------------------------------------------
(* The bodies of uplink requests.                                         *)
LEMMA BodyType ==
  ASSUME NEW body \in Bodies \cup {<<>>}
  PROVE  body \in Seq(Frame) /\ \A k \in 1 .. Len(body) : body[k] \in Frame
<1>1. <<>> \in Seq(Frame)
  OBVIOUS
<1>2. body \in Seq(Frame)
  BY <1>1, CarrierAssumption, Zenon
<1>. QED
  BY <1>2

LEMMA WriteCostType ==
  ASSUME NEW s, NEW body \in Bodies \cup {<<>>}
  PROVE  WriteCost(s, body) \in Int /\ WriteItems(s, body) \in Int
<1>1. ASSUME NEW k \in 1 .. Len(body) PROVE body[k].n \in Nat
  <2>1. body[k] \in Frame
    BY BodyType
  <2>. QED
    BY <2>1 DEF Frame
<1>2. [k \in 1 .. Len(body) |-> IF IsWrite(s, body, k) THEN body[k].n + QueueItemCost ELSE 0]
        \in Seq(Int)
  <2>1. \A k \in 1 .. Len(body) :
          (IF IsWrite(s, body, k) THEN body[k].n + QueueItemCost ELSE 0) \in Int
    BY <1>1, FrameAssumption
  <2>2. Len(body) \in Nat
    BY BodyType
  <2>. QED
    BY <2>1, <2>2
<1>3. [k \in 1 .. Len(body) |-> IF IsWrite(s, body, k) THEN 1 ELSE 0] \in Seq(Int)
  <2>1. Len(body) \in Nat
    BY BodyType
  <2>. QED
    BY <2>1
<1>. QED
  BY <1>2, <1>3, TotalType, Zenon DEF WriteCost, WriteItems

LEMMA WriteQueuedType ==
  ASSUME NEW t \in Stream, NEW n \in Nat, n <= MaxFramePayload
  PROVE  WriteQueued(t, n) \in Stream
<1>1. /\ t.writes \in Seq(Nat) /\ t.receiveWindow \in 0 .. MaxUint32
      /\ t.pendingWriteBytes \in Int /\ t.pendingWriteCost \in Int
      /\ t.pendingWriteItems \in Int
  BY StreamFields
<1>2. WritesWith(t, n) \in Seq(Nat)
  <2>1. CASE Coalesces(t, n)
    <3>1. t.writes[Len(t.writes)] + n \in Nat
      BY <1>1, <2>1 DEF Coalesces
    <3>2. [t.writes EXCEPT ![Len(t.writes)] = t.writes[Len(t.writes)] + n] \in Seq(Nat)
      BY <1>1, <3>1, SeqExcept, Zenon
    <3>. QED
      BY <2>1, <3>2, Zenon DEF WritesWith
  <2>2. CASE ~Coalesces(t, n)
    BY <1>1, <2>2 DEF WritesWith
  <2>. QED
    BY <2>1, <2>2
<1>3. Minus32(t.receiveWindow, n) \in 0 .. MaxUint32
  <2>1. /\ MaxUint32 \in Nat /\ n <= MaxUint32
        /\ t.receiveWindow \in Nat /\ t.receiveWindow <= MaxUint32
    BY <1>1, FrameAssumption
  <2>2. \A a \in Nat : a <= MaxUint32 => Minus32(a, n) \in 0 .. MaxUint32
    BY <2>1 DEF Minus32
  <2>. QED
    BY <2>1, <2>2
<1>4. \A items \in {0, 1} :
        /\ t.pendingWriteCost + n + items * QueueItemCost \in Int
        /\ t.pendingWriteItems + items \in Int
        /\ t.pendingWriteBytes + n \in Int
  BY <1>1, FrameAssumption
<1>. DEFINE items == IF Coalesces(t, n) THEN 0 ELSE 1
<1>5. /\ t.pendingWriteCost + n + items * QueueItemCost \in Int
      /\ t.pendingWriteItems + items \in Int
      /\ t.pendingWriteBytes + n \in Int
  BY <1>4
<1>. HIDE DEF items
<1>6. [t EXCEPT !.writes = WritesWith(t, n), !.pendingWriteBytes = @ + n,
                !.pendingWriteCost = @ + n + items * QueueItemCost,
                !.pendingWriteItems = @ + items,
                !.receiveWindow = Minus32(@, n), !.writeNotify = TRUE] \in Stream
  BY <1>2, <1>3, <1>5, Zenon DEF Stream
<1>. QED
  BY <1>6, Zenon DEF WriteQueued, items

LEMMA SpendCreditType ==
  ASSUME NEW s \in Session, NEW id \in StreamIds, NEW n, NEW k \in 1 .. n, CanTakeData(s, id, k)
  PROVE  SpendCredit(s, id, k) \in Session
<1>. DEFINE credit == s.streams[id].sendCredit - k
<1>1. s.streams[id].sendCredit \in 0 .. MaxUint32
  BY SessionFields, StreamFields
<1>2. credit \in 0 .. MaxUint32
  BY <1>1, FrameAssumption DEF CanTakeData
<1>3. SpendCredit(s, id, k) = [s EXCEPT !.streams[id].sendCredit = credit]
  BY DEF SpendCredit, Session
<1>. HIDE DEF credit
<1>4. [s EXCEPT !.streams[id].sendCredit = credit] \in Session
  BY <1>2, SessionUpdates, Zenon
<1>. QED
  BY <1>3, <1>4

-----------------------------------------------------------------------------
(* The budget: what the lanes and the streams of a session owe it and, as  *)
(* c and i, what a handler has reserved and not yet turned into writes.    *)
LaneCount == IF CarrierLanes THEN MaxStreamID + 1 ELSE 1

LaneOwes(lane) == Total(Costs(lane.frames)) + lane.unackedCost

LaneHolds(lane) == Len(lane.frames) + lane.unackedItems

LanesOwe(s) == Total([k \in 1 .. LaneCount |-> LaneOwes(s.lanes[k - 1])])

LanesHold(s) == Total([k \in 1 .. LaneCount |-> LaneHolds(s.lanes[k - 1])])

WritesCost(s) == Total([id \in StreamIds |-> s.streams[id].pendingWriteCost])

WritesCount(s) == Total([id \in StreamIds |-> s.streams[id].pendingWriteItems])

BatchCharged(lane) ==
  /\ lane.unackedCost = Total(Costs(lane.unacked))
  /\ lane.unackedItems = Len(lane.unacked)

BatchesCharged(s) == \A l \in LaneIds : BatchCharged(s.lanes[l])

(* A stream that has ended owes nothing, so that one that is opened under  *)
(* its id takes nothing over.                                              *)
EndedOwesNothing(s) ==
  \A id \in StreamIds :
    ~s.streams[id].live =>
      s.streams[id].pendingWriteCost = 0 /\ s.streams[id].pendingWriteItems = 0

Charged(s, c, i) ==
  /\ s.pendingCost = LanesOwe(s) + WritesCost(s) + c
  /\ s.pendingItems = LanesHold(s) + WritesCount(s) + i
  /\ BatchesCharged(s)
  /\ EndedOwesNothing(s)

ChargesKept(s, t) == \A c \in Int, i \in Int : Charged(s, c, i) => Charged(t, c, i)

(* What may differ between sessions that are charged for the same.         *)
SameQueued(x, y) ==
  /\ y.frames = x.frames /\ y.unacked = x.unacked
  /\ y.unackedCost = x.unackedCost /\ y.unackedItems = x.unackedItems

SameQueues(s, t) == \A l \in LaneIds : SameQueued(s.lanes[l], t.lanes[l])

SameAccounts(s, t) ==
  \A id \in StreamIds :
    /\ t.streams[id].live <=> s.streams[id].live
    /\ t.streams[id].pendingWriteCost = s.streams[id].pendingWriteCost
    /\ t.streams[id].pendingWriteItems = s.streams[id].pendingWriteItems

SameBudget(s, t) == t.pendingCost = s.pendingCost /\ t.pendingItems = s.pendingItems

LEMMA ChargesKeptTransitive ==
  ASSUME NEW s, NEW t, NEW v, ChargesKept(s, t), ChargesKept(t, v)
  PROVE  ChargesKept(s, v)
BY Zenon DEF ChargesKept

LEMMA ChargesKeptSame == \A s : ChargesKept(s, s)
BY Zenon DEF ChargesKept

(* The lanes are numbered from zero, sequences from one.                   *)
LEMMA LaneNumbers ==
  /\ LaneCount \in Nat
  /\ \A l \in LaneIds : l + 1 \in 1 .. LaneCount /\ (l + 1) - 1 = l
  /\ \A k \in 1 .. LaneCount : k - 1 \in LaneIds /\ (k - 1) + 1 = k
<1>1. MaxStreamID \in Nat /\ StreamIds = 1 .. MaxStreamID
  BY FrameAssumption DEF StreamIds
<1>2. CASE CarrierLanes
  <2>1. LaneCount = MaxStreamID + 1 /\ LaneIds = StreamIds \cup {0}
    BY <1>2 DEF LaneCount, LaneIds
  <2>. QED
    BY <1>1, <2>1
<1>3. CASE ~CarrierLanes
  <2>1. LaneCount = 1 /\ LaneIds = {0}
    BY <1>3 DEF LaneCount, LaneIds
  <2>. QED
    BY <2>1
<1>. QED
  BY <1>2, <1>3

LEMMA LaneChargeTypes ==
  ASSUME NEW lane \in Lane
  PROVE  /\ LaneOwes(lane) \in Int /\ LaneHolds(lane) \in Int
         /\ Total(Costs(lane.frames)) \in Int /\ Len(lane.frames) \in Nat
         /\ lane.unackedCost \in Int /\ lane.unackedItems \in Int
<1>1. lane.frames \in Seq(QueuedFrame) /\ lane.unackedCost \in Int /\ lane.unackedItems \in Int
  BY LaneFields
<1>2. Total(Costs(lane.frames)) \in Int
  BY <1>1, CostsType, TotalType, Zenon
<1>3. Len(lane.frames) \in Nat
  BY <1>1
<1>. QED
  BY <1>1, <1>2, <1>3 DEF LaneOwes, LaneHolds

LEMMA LaneSequences ==
  ASSUME NEW s \in Session
  PROVE  LET q == [k \in 1 .. LaneCount |-> LaneOwes(s.lanes[k - 1])]
             r == [k \in 1 .. LaneCount |-> LaneHolds(s.lanes[k - 1])]
         IN  /\ q \in Seq(Int) /\ r \in Seq(Int) /\ Len(q) = LaneCount /\ Len(r) = LaneCount
             /\ \A l \in LaneIds : /\ q[l + 1] = LaneOwes(s.lanes[l])
                                   /\ r[l + 1] = LaneHolds(s.lanes[l])
<1>1. \A k \in 1 .. LaneCount : /\ LaneOwes(s.lanes[k - 1]) \in Int
                                /\ LaneHolds(s.lanes[k - 1]) \in Int
  BY LaneNumbers, SessionFields, LaneChargeTypes
<1>2. LaneCount \in Nat
  BY LaneNumbers
<1>. HIDE DEF LaneCount
<1>3. /\ [k \in 1 .. LaneCount |-> LaneOwes(s.lanes[k - 1])] \in Seq(Int)
      /\ [k \in 1 .. LaneCount |-> LaneHolds(s.lanes[k - 1])] \in Seq(Int)
  BY <1>1, <1>2
<1>. QED
  BY <1>2, <1>3, LaneNumbers

LEMMA StreamSequences ==
  ASSUME NEW s \in Session
  PROVE  /\ [id \in StreamIds |-> s.streams[id].pendingWriteCost] \in Seq(Int)
         /\ [id \in StreamIds |-> s.streams[id].pendingWriteItems] \in Seq(Int)
         /\ Len([id \in StreamIds |-> s.streams[id].pendingWriteCost]) = MaxStreamID
         /\ Len([id \in StreamIds |-> s.streams[id].pendingWriteItems]) = MaxStreamID
<1>1. \A id \in StreamIds : s.streams[id].pendingWriteCost \in Int
                            /\ s.streams[id].pendingWriteItems \in Int
  BY SessionFields, StreamFields
<1>2. MaxStreamID \in Nat /\ StreamIds = 1 .. MaxStreamID
  BY FrameAssumption DEF StreamIds
<1>. QED
  BY <1>1, <1>2

LEMMA ChargeTypes ==
  ASSUME NEW s \in Session
  PROVE  /\ s.pendingCost \in Int /\ s.pendingItems \in Int
         /\ LanesOwe(s) \in Int /\ LanesHold(s) \in Int
         /\ WritesCost(s) \in Int /\ WritesCount(s) \in Int
         /\ \A l \in LaneIds : LaneOwes(s.lanes[l]) \in Int /\ LaneHolds(s.lanes[l]) \in Int
<1>1. LanesOwe(s) \in Int /\ LanesHold(s) \in Int
  BY LaneSequences, TotalType, Zenon DEF LanesOwe, LanesHold
<1>2. WritesCost(s) \in Int /\ WritesCount(s) \in Int
  BY StreamSequences, TotalType, Zenon DEF WritesCost, WritesCount
<1>3. \A l \in LaneIds : LaneOwes(s.lanes[l]) \in Int /\ LaneHolds(s.lanes[l]) \in Int
  BY SessionFields, LaneChargeTypes
<1>. QED
  BY <1>1, <1>2, <1>3, SessionFields

(* Lanes and streams that owe the same.                                    *)
LEMMA SameLanesOwe ==
  ASSUME NEW s, NEW t, SameQueues(s, t)
  PROVE  /\ LanesOwe(t) = LanesOwe(s) /\ LanesHold(t) = LanesHold(s)
         /\ BatchesCharged(s) => BatchesCharged(t)
<1>1. \A l \in LaneIds : /\ LaneOwes(t.lanes[l]) = LaneOwes(s.lanes[l])
                         /\ LaneHolds(t.lanes[l]) = LaneHolds(s.lanes[l])
                         /\ BatchCharged(s.lanes[l]) => BatchCharged(t.lanes[l])
  BY Zenon DEF SameQueues, SameQueued, LaneOwes, LaneHolds, BatchCharged
<1>2. /\ [k \in 1 .. LaneCount |-> LaneOwes(t.lanes[k - 1])]
           = [k \in 1 .. LaneCount |-> LaneOwes(s.lanes[k - 1])]
      /\ [k \in 1 .. LaneCount |-> LaneHolds(t.lanes[k - 1])]
           = [k \in 1 .. LaneCount |-> LaneHolds(s.lanes[k - 1])]
  BY <1>1, LaneNumbers, Zenon
<1>. QED
  BY <1>1, <1>2, Zenon DEF LanesOwe, LanesHold, BatchesCharged

LEMMA SameWritesOwe ==
  ASSUME NEW s, NEW t, SameAccounts(s, t)
  PROVE  /\ WritesCost(t) = WritesCost(s) /\ WritesCount(t) = WritesCount(s)
         /\ EndedOwesNothing(s) => EndedOwesNothing(t)
<1>1. /\ [id \in StreamIds |-> t.streams[id].pendingWriteCost]
           = [id \in StreamIds |-> s.streams[id].pendingWriteCost]
      /\ [id \in StreamIds |-> t.streams[id].pendingWriteItems]
           = [id \in StreamIds |-> s.streams[id].pendingWriteItems]
  BY Zenon DEF SameAccounts
<1>2. EndedOwesNothing(s) => EndedOwesNothing(t)
  BY Zenon DEF EndedOwesNothing, SameAccounts
<1>. QED
  BY <1>1, <1>2, Zenon DEF WritesCost, WritesCount

LEMMA SameStreamsOwe ==
  ASSUME NEW s, NEW t, t.streams = s.streams
  PROVE  SameAccounts(s, t)
BY Zenon DEF SameAccounts

LEMMA SameLanesQueue ==
  ASSUME NEW s, NEW t, t.lanes = s.lanes
  PROVE  SameQueues(s, t)
BY Zenon DEF SameQueues, SameQueued

(* An update that touches nothing that is charged.                         *)
LEMMA SameCharges ==
  ASSUME NEW s, NEW t, SameBudget(s, t), SameAccounts(s, t), SameQueues(s, t)
  PROVE  ChargesKept(s, t)
<1>1. t.pendingCost = s.pendingCost /\ t.pendingItems = s.pendingItems
  BY DEF SameBudget
<1>2. /\ LanesOwe(t) = LanesOwe(s) /\ LanesHold(t) = LanesHold(s)
      /\ BatchesCharged(s) => BatchesCharged(t)
  BY SameLanesOwe, Zenon
<1>3. /\ WritesCost(t) = WritesCost(s) /\ WritesCount(t) = WritesCount(s)
      /\ EndedOwesNothing(s) => EndedOwesNothing(t)
  BY SameWritesOwe, Zenon
<1>. QED
  BY <1>1, <1>2, <1>3, Zenon DEF ChargesKept, Charged

(* One lane changes what it owes.                                          *)
LEMMA OneLaneOwes ==
  ASSUME NEW s \in Session, NEW t \in Session, NEW l \in LaneIds,
         \A other \in LaneIds : other # l => t.lanes[other] = s.lanes[other]
  PROVE  /\ LanesOwe(t) = LanesOwe(s) + (LaneOwes(t.lanes[l]) - LaneOwes(s.lanes[l]))
         /\ LanesHold(t) = LanesHold(s) + (LaneHolds(t.lanes[l]) - LaneHolds(s.lanes[l]))
<1>. DEFINE q == [k \in 1 .. LaneCount |-> LaneOwes(s.lanes[k - 1])]
            r == [k \in 1 .. LaneCount |-> LaneOwes(t.lanes[k - 1])]
            m == [k \in 1 .. LaneCount |-> LaneHolds(s.lanes[k - 1])]
            n == [k \in 1 .. LaneCount |-> LaneHolds(t.lanes[k - 1])]
<1>1. /\ q \in Seq(Int) /\ r \in Seq(Int) /\ m \in Seq(Int) /\ n \in Seq(Int)
      /\ Len(q) = LaneCount /\ Len(r) = LaneCount /\ Len(m) = LaneCount /\ Len(n) = LaneCount
      /\ q[l + 1] = LaneOwes(s.lanes[l]) /\ r[l + 1] = LaneOwes(t.lanes[l])
      /\ m[l + 1] = LaneHolds(s.lanes[l]) /\ n[l + 1] = LaneHolds(t.lanes[l])
  BY LaneSequences, Zenon
<1>2. \A k \in 1 .. LaneCount : k # l + 1 => k - 1 \in LaneIds /\ k - 1 # l
  <2>1. ASSUME NEW k \in 1 .. LaneCount, k # l + 1
        PROVE  k - 1 \in LaneIds /\ k - 1 # l
    BY <2>1, LaneNumbers, Zenon
  <2>. QED
    BY <2>1
<1>3. \A k \in 1 .. LaneCount : k # l + 1 => r[k] = q[k] /\ n[k] = m[k]
  BY <1>2, Zenon
<1>4. l + 1 \in 1 .. LaneCount
  BY LaneNumbers
<1>5. LanesOwe(s) = Total(q) /\ LanesOwe(t) = Total(r)
      /\ LanesHold(s) = Total(m) /\ LanesHold(t) = Total(n)
  BY Zenon DEF LanesOwe, LanesHold
<1>. HIDE DEF q, r, m, n
<1>6. /\ Total(r) = Total(q) + (r[l + 1] - q[l + 1])
      /\ Total(n) = Total(m) + (n[l + 1] - m[l + 1])
  <2>1. /\ l + 1 \in 1 .. Len(q) /\ Len(r) = Len(q) /\ l + 1 \in 1 .. Len(m) /\ Len(n) = Len(m)
        /\ \A k \in 1 .. Len(q) : k # l + 1 => r[k] = q[k]
        /\ \A k \in 1 .. Len(m) : k # l + 1 => n[k] = m[k]
    BY <1>1, <1>3, <1>4, Zenon
  <2>. QED
    BY <1>1, <2>1, TotalChanged, Zenon
<1>. QED
  BY <1>1, <1>5, <1>6, Zenon


(* One stream changes: the difference has been somebody else's.            *)
LEMMA OneStreamCharges ==
  ASSUME NEW s \in Session, NEW id \in StreamIds, NEW x \in Stream, NEW t,
         t = PutStream(s, id, x),
         x.live \/ (x.pendingWriteCost = 0 /\ x.pendingWriteItems = 0),
         NEW c \in Int, NEW i \in Int, Charged(s, c, i)
  PROVE  Charged(t, c - (x.pendingWriteCost - s.streams[id].pendingWriteCost),
                    i - (x.pendingWriteItems - s.streams[id].pendingWriteItems))
<1>1. /\ t.pendingCost = s.pendingCost /\ t.pendingItems = s.pendingItems
      /\ t.lanes = s.lanes /\ t.streams[id] = x
      /\ \A other \in StreamIds \ {id} : t.streams[other] = s.streams[other]
  BY SetStreamFields
<1>2. t \in Session
  BY SetStreamType, Zenon DEF PutStream
<1>3. x.pendingWriteCost \in Int /\ x.pendingWriteItems \in Int
      /\ s.streams[id].pendingWriteCost \in Int /\ s.streams[id].pendingWriteItems \in Int
  BY SessionFields, StreamFields
<1>. DEFINE q == [other \in StreamIds |-> s.streams[other].pendingWriteCost]
            r == [other \in StreamIds |-> t.streams[other].pendingWriteCost]
            m == [other \in StreamIds |-> s.streams[other].pendingWriteItems]
            n == [other \in StreamIds |-> t.streams[other].pendingWriteItems]
<1>4. /\ q \in Seq(Int) /\ r \in Seq(Int) /\ m \in Seq(Int) /\ n \in Seq(Int)
      /\ Len(q) = MaxStreamID /\ Len(r) = MaxStreamID
      /\ Len(m) = MaxStreamID /\ Len(n) = MaxStreamID
  BY <1>2, StreamSequences, Zenon
<1>5. /\ \A other \in StreamIds : other # id => r[other] = q[other] /\ n[other] = m[other]
      /\ r[id] = x.pendingWriteCost /\ q[id] = s.streams[id].pendingWriteCost
      /\ n[id] = x.pendingWriteItems /\ m[id] = s.streams[id].pendingWriteItems
  BY <1>1
<1>6. WritesCost(s) = Total(q) /\ WritesCost(t) = Total(r)
      /\ WritesCount(s) = Total(m) /\ WritesCount(t) = Total(n)
  BY DEF WritesCost, WritesCount
<1>7. StreamIds = 1 .. MaxStreamID
  BY DEF StreamIds
<1>. HIDE DEF q, r, m, n
<1>8. /\ id \in 1 .. Len(q) /\ Len(r) = Len(q) /\ id \in 1 .. Len(m) /\ Len(n) = Len(m)
      /\ \A k \in 1 .. Len(q) : k # id => r[k] = q[k]
      /\ \A k \in 1 .. Len(m) : k # id => n[k] = m[k]
  BY <1>4, <1>5, <1>7, Zenon
<1>9. Total(r) = Total(q) + (r[id] - q[id]) /\ Total(n) = Total(m) + (n[id] - m[id])
  BY <1>4, <1>8, TotalChanged, Zenon
<1>10. /\ LanesOwe(t) = LanesOwe(s) /\ LanesHold(t) = LanesHold(s)
       /\ BatchesCharged(s) => BatchesCharged(t)
  BY <1>1, SameLanesQueue, SameLanesOwe, Zenon
<1>11. EndedOwesNothing(t)
  BY <1>1 DEF Charged, EndedOwesNothing
<1>12. /\ s.pendingCost = LanesOwe(s) + WritesCost(s) + c
       /\ s.pendingItems = LanesHold(s) + WritesCount(s) + i
       /\ BatchesCharged(s)
  BY DEF Charged
<1>13. /\ t.pendingCost = LanesOwe(t) + WritesCost(t)
                          + (c - (x.pendingWriteCost - s.streams[id].pendingWriteCost))
       /\ t.pendingItems = LanesHold(t) + WritesCount(t)
                           + (i - (x.pendingWriteItems - s.streams[id].pendingWriteItems))
  <2>. DEFINE a == x.pendingWriteCost - s.streams[id].pendingWriteCost
              b == x.pendingWriteItems - s.streams[id].pendingWriteItems
  <2>1. a \in Int /\ b \in Int
    BY <1>3
  <2>2. WritesCost(t) = WritesCost(s) + a /\ WritesCount(t) = WritesCount(s) + b
    BY <1>5, <1>6, <1>9, Zenon
  <2>. HIDE DEF a, b
  <2>4. /\ LanesOwe(s) \in Int /\ LanesHold(s) \in Int
        /\ WritesCost(s) \in Int /\ WritesCount(s) \in Int
    BY ChargeTypes, Zenon
  <2>5. /\ LanesOwe(s) + WritesCost(s) + c = LanesOwe(s) + (WritesCost(s) + a) + (c - a)
        /\ LanesHold(s) + WritesCount(s) + i = LanesHold(s) + (WritesCount(s) + b) + (i - b)
    BY <2>1, <2>4
  <2>6. /\ t.pendingCost = LanesOwe(t) + WritesCost(t) + (c - a)
        /\ t.pendingItems = LanesHold(t) + WritesCount(t) + (i - b)
    BY <1>1, <1>10, <1>12, <2>2, <2>5, Zenon
  <2>. QED
    BY <2>6 DEF a, b
<1>. QED
  BY <1>10, <1>11, <1>12, <1>13, Zenon DEF Charged

(* A stream whose account stays as it is.                                  *)
LEMMA StreamKeepsCharges ==
  ASSUME NEW s \in Session, NEW id \in StreamIds, NEW x,
         x.live <=> s.streams[id].live,
         x.pendingWriteCost = s.streams[id].pendingWriteCost,
         x.pendingWriteItems = s.streams[id].pendingWriteItems
  PROVE  ChargesKept(s, PutStream(s, id, x))
<1>. DEFINE t == PutStream(s, id, x)
<1>1. /\ t.pendingCost = s.pendingCost /\ t.pendingItems = s.pendingItems
      /\ t.lanes = s.lanes /\ t.streams[id] = x
      /\ \A other \in StreamIds \ {id} : t.streams[other] = s.streams[other]
  BY SetStreamFields
<1>. HIDE DEF t
<1>2. SameAccounts(s, t)
  <2>1. ASSUME NEW other \in StreamIds
        PROVE  /\ t.streams[other].live <=> s.streams[other].live
               /\ t.streams[other].pendingWriteCost = s.streams[other].pendingWriteCost
               /\ t.streams[other].pendingWriteItems = s.streams[other].pendingWriteItems
    <3>1. CASE other = id
      BY <1>1, <3>1, Zenon
    <3>2. CASE other # id
      <4>1. t.streams[other] = s.streams[other]
        BY <1>1, <3>2
      <4>. QED
        BY <4>1, Zenon
    <3>. QED
      BY <3>1, <3>2
  <2>. QED
    BY <2>1, Zenon DEF SameAccounts
<1>3. SameBudget(s, t) /\ SameQueues(s, t)
  BY <1>1, SameLanesQueue, Zenon DEF SameBudget
<1>4. ChargesKept(s, t)
  BY <1>2, <1>3, SameCharges, Zenon
<1>. QED
  BY <1>4 DEF t

(* A lane whose queue stays as it is.                                      *)
LEMMA LaneKeepsCharges ==
  ASSUME NEW s \in Session, NEW l \in LaneIds, NEW x, SameQueued(s.lanes[l], x)
  PROVE  ChargesKept(s, PutLane(s, l, x))
<1>. DEFINE t == PutLane(s, l, x)
<1>1. /\ t.pendingCost = s.pendingCost /\ t.pendingItems = s.pendingItems
      /\ t.streams = s.streams /\ t.lanes[l] = x
      /\ \A other \in LaneIds : other # l => t.lanes[other] = s.lanes[other]
  BY SetLaneFields
<1>. HIDE DEF t
<1>2. ASSUME NEW other \in LaneIds
      PROVE  SameQueued(s.lanes[other], t.lanes[other])
  <2>1. CASE other = l
    BY <1>1, <2>1, Zenon
  <2>2. CASE other # l
    <3>1. t.lanes[other] = s.lanes[other]
      BY <1>1, <2>2
    <3>. QED
      BY <3>1, Zenon DEF SameQueued
  <2>. QED
    BY <2>1, <2>2
<1>3. SameBudget(s, t) /\ SameQueues(s, t) /\ SameAccounts(s, t)
  BY <1>1, <1>2, SameStreamsOwe, Zenon DEF SameBudget, SameQueues
<1>4. ChargesKept(s, t)
  BY <1>3, SameCharges, Zenon
<1>. QED
  BY <1>4 DEF t

LEMMA ReleasePendingBudget ==
  ASSUME NEW s \in Session, NEW a \in Int, NEW b \in Int
  PROVE  LET t == ReleasePending(s, a, b) IN
         /\ t.streams = s.streams /\ t.lanes = s.lanes
         /\ t.pendingCost = s.pendingCost - a /\ t.pendingItems = s.pendingItems - b
<1>1. CASE a = 0 /\ b = 0
  BY <1>1, SessionFields DEF ReleasePending
<1>2. CASE ~(a = 0 /\ b = 0)
  BY <1>2 DEF ReleasePending, Session
<1>. QED
  BY <1>1, <1>2

LEMMA BudgetCharges ==
  ASSUME NEW s \in Session, NEW a \in Int, NEW b \in Int,
         NEW c \in Int, NEW i \in Int, Charged(s, c, i)
  PROVE  /\ Charged(ReleasePending(s, a, b), c - a, i - b)
         /\ Charged(Reserve(s, a, b), c + a, i + b)
<1>1. ASSUME NEW t, NEW d \in Int, NEW e \in Int,
             t.streams = s.streams, t.lanes = s.lanes,
             t.pendingCost = s.pendingCost + d, t.pendingItems = s.pendingItems + e
      PROVE  Charged(t, c + d, i + e)
  <2>1. /\ LanesOwe(t) = LanesOwe(s) /\ LanesHold(t) = LanesHold(s)
        /\ BatchesCharged(s) => BatchesCharged(t)
    BY <1>1, SameLanesQueue, SameLanesOwe, Zenon
  <2>2. /\ WritesCost(t) = WritesCost(s) /\ WritesCount(t) = WritesCount(s)
        /\ EndedOwesNothing(s) => EndedOwesNothing(t)
    BY <1>1, SameStreamsOwe, SameWritesOwe, Zenon
  <2>3. /\ s.pendingCost = LanesOwe(s) + WritesCost(s) + c
        /\ s.pendingItems = LanesHold(s) + WritesCount(s) + i
        /\ BatchesCharged(s) /\ EndedOwesNothing(s)
    BY Zenon DEF Charged
  <2>5. /\ LanesOwe(s) \in Int /\ LanesHold(s) \in Int
        /\ WritesCost(s) \in Int /\ WritesCount(s) \in Int
    BY ChargeTypes, Zenon
  <2>6. /\ (LanesOwe(s) + WritesCost(s) + c) + d = LanesOwe(s) + WritesCost(s) + (c + d)
        /\ (LanesHold(s) + WritesCount(s) + i) + e = LanesHold(s) + WritesCount(s) + (i + e)
    BY <1>1, <2>5
  <2>7. /\ t.pendingCost = LanesOwe(t) + WritesCost(t) + (c + d)
        /\ t.pendingItems = LanesHold(t) + WritesCount(t) + (i + e)
    BY <1>1, <2>1, <2>2, <2>3, <2>6, Zenon
  <2>. QED
    BY <2>1, <2>2, <2>3, <2>7, Zenon DEF Charged
<1>2. Charged(Reserve(s, a, b), c + a, i + b)
  <2>1. /\ Reserve(s, a, b).streams = s.streams /\ Reserve(s, a, b).lanes = s.lanes
        /\ Reserve(s, a, b).pendingCost = s.pendingCost + a
        /\ Reserve(s, a, b).pendingItems = s.pendingItems + b
    BY DEF Reserve, Session
  <2>. QED
    BY <1>1, <2>1, Zenon
<1>3. Charged(ReleasePending(s, a, b), c - a, i - b)
  <2>. DEFINE t == ReleasePending(s, a, b)
  <2>1. /\ t.streams = s.streams /\ t.lanes = s.lanes
        /\ t.pendingCost = s.pendingCost - a /\ t.pendingItems = s.pendingItems - b
    BY ReleasePendingBudget, Zenon
  <2>. HIDE DEF t
  <2>2. -a \in Int /\ -b \in Int /\ c + (-a) = c - a /\ i + (-b) = i - b
        /\ s.pendingCost + (-a) = s.pendingCost - a
        /\ s.pendingItems + (-b) = s.pendingItems - b
    BY SessionFields
  <2>3. Charged(t, c + (-a), i + (-b))
    BY <1>1, <2>1, <2>2, Zenon
  <2>. QED
    BY <2>2, <2>3, Zenon DEF t
<1>. QED
  BY <1>2, <1>3

(* A change of one lane that the budget follows.                           *)
LEMMA LaneCharges ==
  ASSUME NEW s \in Session, NEW t \in Session, NEW l \in LaneIds, t.streams = s.streams,
         \A other \in LaneIds : other # l => t.lanes[other] = s.lanes[other],
         NEW a \in Int, NEW b \in Int,
         t.pendingCost = s.pendingCost + a, t.pendingItems = s.pendingItems + b,
         LaneOwes(t.lanes[l]) = LaneOwes(s.lanes[l]) + a,
         LaneHolds(t.lanes[l]) = LaneHolds(s.lanes[l]) + b,
         BatchCharged(s.lanes[l]) => BatchCharged(t.lanes[l])
  PROVE  ChargesKept(s, t)
<1>. SUFFICES ASSUME NEW c \in Int, NEW i \in Int, Charged(s, c, i) PROVE Charged(t, c, i)
  BY Zenon DEF ChargesKept
<1>1. /\ WritesCost(t) = WritesCost(s) /\ WritesCount(t) = WritesCount(s)
      /\ EndedOwesNothing(s) => EndedOwesNothing(t)
  BY SameStreamsOwe, SameWritesOwe, Zenon
<1>2. /\ s.pendingCost = LanesOwe(s) + WritesCost(s) + c
      /\ s.pendingItems = LanesHold(s) + WritesCount(s) + i
      /\ BatchesCharged(s) /\ EndedOwesNothing(s)
  BY Zenon DEF Charged
<1>3. /\ LanesOwe(t) = LanesOwe(s) + a /\ LanesHold(t) = LanesHold(s) + b
  <2>1. /\ LanesOwe(t) = LanesOwe(s) + (LaneOwes(t.lanes[l]) - LaneOwes(s.lanes[l]))
        /\ LanesHold(t) = LanesHold(s) + (LaneHolds(t.lanes[l]) - LaneHolds(s.lanes[l]))
    BY OneLaneOwes
  <2>2. LaneOwes(s.lanes[l]) \in Int /\ LaneHolds(s.lanes[l]) \in Int
    BY ChargeTypes, Zenon
  <2>3. \A x \in Int, d \in Int : (x + d) - x = d
    OBVIOUS
  <2>4. /\ (LaneOwes(s.lanes[l]) + a) - LaneOwes(s.lanes[l]) = a
        /\ (LaneHolds(s.lanes[l]) + b) - LaneHolds(s.lanes[l]) = b
    BY <2>2, <2>3, Zenon
  <2>. QED
    BY <2>1, <2>4, Zenon
<1>4. /\ t.pendingCost = LanesOwe(t) + WritesCost(t) + c
      /\ t.pendingItems = LanesHold(t) + WritesCount(t) + i
  <2>2. /\ LanesOwe(s) \in Int /\ LanesHold(s) \in Int
        /\ WritesCost(s) \in Int /\ WritesCount(s) \in Int
    BY ChargeTypes, Zenon
  <2>3. /\ (LanesOwe(s) + WritesCost(s) + c) + a = (LanesOwe(s) + a) + WritesCost(s) + c
        /\ (LanesHold(s) + WritesCount(s) + i) + b = (LanesHold(s) + b) + WritesCount(s) + i
    BY <2>2
  <2>. QED
    BY <1>1, <1>2, <1>3, <2>3, Zenon
<1>5. BatchesCharged(t)
  <2>1. ASSUME NEW other \in LaneIds PROVE BatchCharged(t.lanes[other])
    <3>1. BatchCharged(s.lanes[other]) /\ BatchCharged(s.lanes[l])
      BY <1>2, Zenon DEF BatchesCharged
    <3>2. CASE other = l
      BY <3>1, <3>2, Zenon
    <3>3. CASE other # l
      <4>1. t.lanes[other] = s.lanes[other]
        BY <3>3
      <4>. QED
        BY <3>1, <4>1, Zenon
    <3>. QED
      BY <3>2, <3>3
  <2>. QED
    BY <2>1, Zenon DEF BatchesCharged
<1>. QED
  BY <1>1, <1>2, <1>4, <1>5, Zenon DEF Charged

LEMMA NoCosts == Total(Costs(<<>>)) = 0
<1>1. <<>> \in Seq(QueuedFrame) /\ Len(<<>>) = 0
  OBVIOUS
<1>2. Len(Costs(<<>>)) = 0
  BY <1>1, CostsType
<1>. QED
  BY <1>2, TotalZeros

(* An empty lane owes nothing, nor does one that is not there.             *)
LEMMA EmptyLaneOwes ==
  ASSUME NEW lane, lane.frames = <<>>, lane.unacked = <<>>,
         lane.unackedCost = 0, lane.unackedItems = 0
  PROVE  LaneOwes(lane) = 0 /\ LaneHolds(lane) = 0 /\ BatchCharged(lane)
BY NoCosts DEF LaneOwes, LaneHolds, BatchCharged

LEMMA NewLaneOwes ==
  /\ LaneOwes(NoLane) = 0 /\ LaneHolds(NoLane) = 0 /\ BatchCharged(NoLane)
  /\ LaneOwes(NewLane) = 0 /\ LaneHolds(NewLane) = 0 /\ BatchCharged(NewLane)
<1>1. /\ NoLane.frames = <<>> /\ NoLane.unacked = <<>>
      /\ NoLane.unackedCost = 0 /\ NoLane.unackedItems = 0
  BY DEF NoLane
<1>2. /\ NewLane.frames = <<>> /\ NewLane.unacked = <<>>
      /\ NewLane.unackedCost = 0 /\ NewLane.unackedItems = 0
  BY DEF NoLane, NewLane
<1>. QED
  BY <1>1, <1>2, EmptyLaneOwes, Zenon

(* A lane that leaves takes what it owes with it.                          *)
LEMMA DropLaneCharges ==
  ASSUME NEW s \in Session, NEW l, CarrierLanes => l \in LaneIds
  PROVE  ChargesKept(s, DropLane(s, l))
<1>1. CASE ~CarrierLanes \/ ~s.lanes[l].present
  BY <1>1, ChargesKeptSame, Zenon DEF DropLane
<1>2. CASE CarrierLanes /\ s.lanes[l].present
  <2>. DEFINE lane == s.lanes[l]
              a == lane.unackedCost + Total(Costs(lane.frames))
              b == lane.unackedItems + Len(lane.frames)
              r == ReleasePending(s, a, b)
              t == PutLane(r, l, NoLane)
  <2>1. l \in LaneIds /\ lane \in Lane
    BY <1>2, SessionFields
  <2>2. DropLane(s, l) = t
    BY <1>2, Zenon DEF DropLane, PutLane
  <2>3. a \in Int /\ b \in Int /\ LaneOwes(lane) = a /\ LaneHolds(lane) = b
    <3>. HIDE DEF lane
    <3>. QED
      BY <2>1, LaneChargeTypes DEF LaneOwes, LaneHolds
  <2>. HIDE DEF a, b
  <2>4. /\ r \in Session /\ r.streams = s.streams /\ r.lanes = s.lanes
        /\ r.pendingCost = s.pendingCost - a /\ r.pendingItems = s.pendingItems - b
    BY <2>3, ReleasePendingType, ReleasePendingBudget
  <2>. HIDE DEF r
  <2>5. t \in Session
    BY <2>1, <2>4, SetLaneType, NoLaneType, Zenon DEF PutLane
  <2>6. /\ t.streams = r.streams /\ t.lanes[l] = NoLane
        /\ t.pendingCost = r.pendingCost /\ t.pendingItems = r.pendingItems
        /\ \A other \in LaneIds : other # l => t.lanes[other] = r.lanes[other]
    BY <2>1, <2>4, SetLaneFields
  <2>. HIDE DEF t
  <2>7. /\ -a \in Int /\ -b \in Int
        /\ t.pendingCost = s.pendingCost + (-a) /\ t.pendingItems = s.pendingItems + (-b)
    BY <2>3, <2>4, <2>6, SessionFields
  <2>8. /\ LaneOwes(t.lanes[l]) = LaneOwes(s.lanes[l]) + (-a)
        /\ LaneHolds(t.lanes[l]) = LaneHolds(s.lanes[l]) + (-b)
    <3>1. a + (-a) = 0 /\ b + (-b) = 0
      BY <2>3
    <3>. QED
      BY <2>3, <2>6, <3>1, NewLaneOwes, Zenon
  <2>9. BatchCharged(s.lanes[l]) => BatchCharged(t.lanes[l])
    BY <2>6, NewLaneOwes, Zenon
  <2>10. /\ t.streams = s.streams
         /\ \A other \in LaneIds : other # l => t.lanes[other] = s.lanes[other]
    BY <2>4, <2>6, Zenon
  <2>11. ChargesKept(s, t)
    BY <2>1, <2>5, <2>7, <2>8, <2>9, <2>10, LaneCharges, Zenon
  <2>. QED
    BY <2>2, <2>11, Zenon
<1>. QED
  BY <1>1, <1>2

(* rememberClosedLocked.                                                   *)
LEMMA RememberCharges ==
  ASSUME NEW s \in Session, NEW id \in StreamIds
  PROVE  ChargesKept(s, RememberClosed(s, id))
<1>. DEFINE kept == IF TombstonesFull(s) THEN DropLane(s, Head(s.closedOrder)) ELSE s
            order == IF TombstonesFull(s) THEN Tail(s.closedOrder) ELSE s.closedOrder
            told == IF CarrierLanes /\ kept.lanes[id].present
                    THEN [kept EXCEPT !.lanes[id].notify = TRUE]
                    ELSE kept
            t == [told EXCEPT !.closedOrder = Append(order, id)]
<1>1. CASE WasClosed(s, id)
  BY <1>1, ChargesKeptSame, Zenon DEF RememberClosed
<1>2. CASE ~WasClosed(s, id)
  <2>1. TombstonesFull(s) => (CarrierLanes => Head(s.closedOrder) \in LaneIds)
    <3>1. s.closedOrder \in Seq(StreamIds)
      BY SessionFields
    <3>2. TombstonesFull(s) => Head(s.closedOrder) \in StreamIds
      BY <3>1, LimitAssumption DEF TombstonesFull
    <3>. QED
      BY <3>2 DEF LaneIds
  <2>2. kept \in Session /\ ChargesKept(s, kept)
    <3>1. CASE TombstonesFull(s) /\ CarrierLanes
      BY <2>1, <3>1, DropLaneType, DropLaneCharges, Zenon
    <3>2. CASE TombstonesFull(s) /\ ~CarrierLanes
      BY <3>2, ChargesKeptSame, Zenon DEF DropLane
    <3>3. CASE ~TombstonesFull(s)
      BY <3>3, ChargesKeptSame, Zenon
    <3>. QED
      BY <3>1, <3>2, <3>3
  <2>. HIDE DEF kept
  <2>3. told \in Session /\ ChargesKept(kept, told)
    <3>1. CASE CarrierLanes /\ kept.lanes[id].present
      <4>1. id \in LaneIds
        BY <3>1 DEF LaneIds
      <4>. DEFINE x == Notified(kept.lanes[id], TRUE)
      <4>2. told = [kept EXCEPT !.lanes[id].notify = TRUE]
        BY <3>1
      <4>3. told = PutLane(kept, id, x)
        BY <2>2, <4>1, <4>2, SetNotifyIs, Zenon
      <4>4. SameQueued(kept.lanes[id], x)
        <5>1. kept.lanes[id] \in Lane
          BY <2>2, <4>1, SessionFields
        <5>. QED
          BY <5>1 DEF SameQueued, Notified, Lane
      <4>5. told \in Session
        BY <2>2, <4>1, <4>2, SetNotifyType, Zenon
      <4>. HIDE DEF x, told
      <4>. QED
        BY <2>2, <4>1, <4>3, <4>4, <4>5, LaneKeepsCharges, Zenon
    <3>2. CASE ~(CarrierLanes /\ kept.lanes[id].present)
      BY <2>2, <3>2, ChargesKeptSame, Zenon
    <3>. QED
      BY <3>1, <3>2
  <2>. HIDE DEF told, order
  <2>4. ChargesKept(told, t)
    <3>1. /\ t.pendingCost = told.pendingCost /\ t.pendingItems = told.pendingItems
          /\ t.streams = told.streams /\ t.lanes = told.lanes
      BY <2>3 DEF Session
    <3>. HIDE DEF t
    <3>2. SameBudget(told, t) /\ SameAccounts(told, t) /\ SameQueues(told, t)
      BY <3>1, SameStreamsOwe, SameLanesQueue, Zenon DEF SameBudget
    <3>. QED
      BY <3>2, SameCharges, Zenon
  <2>5. RememberClosed(s, id) = t
    BY <1>2, Zenon DEF RememberClosed, kept, order, told
  <2>. HIDE DEF t
  <2>. QED
    BY <2>2, <2>3, <2>4, <2>5, ChargesKeptTransitive, Zenon
<1>. QED
  BY <1>1, <1>2

(* What a stream no longer owes is released.                               *)
LEMMA ReleasedStreamCharges ==
  ASSUME NEW s \in Session, NEW id \in StreamIds, NEW a \in Int, NEW b \in Int, NEW x \in Stream,
         x.live \/ (x.pendingWriteCost = 0 /\ x.pendingWriteItems = 0),
         x.pendingWriteCost = s.streams[id].pendingWriteCost - a,
         x.pendingWriteItems = s.streams[id].pendingWriteItems - b
  PROVE  ChargesKept(s, PutStream(ReleasePending(s, a, b), id, x))
<1>. DEFINE r == ReleasePending(s, a, b)
            t == PutStream(r, id, x)
<1>1. r \in Session /\ r.streams = s.streams
  BY ReleasePendingType, ReleasePendingBudget
<1>2. s.streams[id].pendingWriteCost \in Int /\ s.streams[id].pendingWriteItems \in Int
  BY SessionFields, StreamFields
<1>. HIDE DEF r
<1>3. ASSUME NEW c \in Int, NEW i \in Int, Charged(s, c, i) PROVE Charged(t, c, i)
  <2>1. Charged(r, c - a, i - b)
    BY <1>3, BudgetCharges, Zenon DEF r
  <2>2. c - a \in Int /\ i - b \in Int
    OBVIOUS
  <2>3. Charged(t, (c - a) - (x.pendingWriteCost - r.streams[id].pendingWriteCost),
                   (i - b) - (x.pendingWriteItems - r.streams[id].pendingWriteItems))
    BY <1>1, <2>1, <2>2, OneStreamCharges, Zenon
  <2>4. /\ (c - a) - (x.pendingWriteCost - r.streams[id].pendingWriteCost) = c
        /\ (i - b) - (x.pendingWriteItems - r.streams[id].pendingWriteItems) = i
    <3>1. \A y \in Int, d \in Int, e \in Int : (d - e) - ((y - e) - y) = d
      OBVIOUS
    <3>2. /\ x.pendingWriteCost - r.streams[id].pendingWriteCost
               = (s.streams[id].pendingWriteCost - a) - s.streams[id].pendingWriteCost
          /\ x.pendingWriteItems - r.streams[id].pendingWriteItems
               = (s.streams[id].pendingWriteItems - b) - s.streams[id].pendingWriteItems
      BY <1>1, Zenon
    <3>3. /\ (c - a) - ((s.streams[id].pendingWriteCost - a) - s.streams[id].pendingWriteCost) = c
          /\ (i - b) - ((s.streams[id].pendingWriteItems - b) - s.streams[id].pendingWriteItems) = i
      <4>. DEFINE p == s.streams[id].pendingWriteCost
                  q == s.streams[id].pendingWriteItems
      <4>1. p \in Int /\ q \in Int
        BY <1>2
      <4>. HIDE DEF p, q
      <4>2. (c - a) - ((p - a) - p) = c
        BY <3>1, <4>1, Zenon
      <4>3. (i - b) - ((q - b) - q) = i
        BY <3>1, <4>1, Zenon
      <4>. QED
        BY <4>2, <4>3 DEF p, q
    <3>. QED
      BY <3>2, <3>3, Zenon
  <2>. QED
    BY <2>3, <2>4, Zenon
<1>. QED
  BY <1>3, Zenon DEF ChargesKept, r

LEMMA EndStreamCharges ==
  ASSUME NEW s \in Session, NEW id \in StreamIds
  PROVE  ChargesKept(s, EndStream(s, id))
<1>. DEFINE a == s.streams[id].pendingWriteCost
            b == s.streams[id].pendingWriteItems
<1>1. a \in Int /\ b \in Int
  BY SessionFields, StreamFields
<1>2. DropStream(s, id) = PutStream(ReleasePending(s, a, b), id, NoStream)
  BY Zenon DEF DropStream, PutStream
<1>3. NoStream.pendingWriteCost = 0 /\ NoStream.pendingWriteItems = 0
  BY DEF NoStream
<1>4. NoStream.pendingWriteCost = a - a /\ NoStream.pendingWriteItems = b - b
  <2>. HIDE DEF a, b
  <2>. QED
    BY <1>1, <1>3
<1>5. ChargesKept(s, DropStream(s, id))
  BY <1>1, <1>2, <1>3, <1>4, NoStreamType, ReleasedStreamCharges, Zenon
<1>6. DropStream(s, id) \in Session
  BY DropStreamType, Zenon
<1>. QED
  BY <1>5, <1>6, RememberCharges, ChargesKeptTransitive, Zenon DEF EndStream

(* Draining and finishing a write release what the stream has owed.        *)
LEMMA AccountsCharges ==
  ASSUME NEW s \in Session, NEW id \in StreamIds, s.streams[id].live
  PROVE  /\ \A k : ChargesKept(s, SpendCredit(s, id, k))
         /\ FinishWrite(s, id) \in Session => ChargesKept(s, FinishWrite(s, id))
         /\ \A k \in Int : Drain(s, id, k) \in Session => ChargesKept(s, Drain(s, id, k))
<1>1. s.streams[id] \in Stream
  BY SessionFields
<1>2. ASSUME NEW k PROVE ChargesKept(s, SpendCredit(s, id, k))
  <2>. DEFINE x == [s.streams[id] EXCEPT !.sendCredit = @ - k]
  <2>1. SpendCredit(s, id, k) = PutStream(s, id, x)
    BY DEF SpendCredit, PutStream, Session
  <2>2. /\ x.live <=> s.streams[id].live
        /\ x.pendingWriteCost = s.streams[id].pendingWriteCost
        /\ x.pendingWriteItems = s.streams[id].pendingWriteItems
    BY <1>1 DEF Stream
  <2>. HIDE DEF x
  <2>. QED
    BY <2>1, <2>2, StreamKeepsCharges, Zenon
<1>3. ASSUME FinishWrite(s, id) \in Session PROVE ChargesKept(s, FinishWrite(s, id))
  <2>. DEFINE x == AfterFinish(s.streams[id])
  <2>1. FinishWrite(s, id) = PutStream(ReleasePending(s, QueueItemCost, 1), id, x)
    BY FinishWriteIs, Zenon
  <2>2. FinishWrite(s, id).streams[id] = x
    BY AccountsChanged, Zenon
  <2>3. x \in Stream
    BY <1>3, <2>2, SessionFields, Zenon
  <2>4. /\ x.live
        /\ x.pendingWriteCost = s.streams[id].pendingWriteCost - QueueItemCost
        /\ x.pendingWriteItems = s.streams[id].pendingWriteItems - 1
    BY <1>1, AccountUpdates, Zenon DEF SameButAccount
  <2>5. QueueItemCost \in Int /\ 1 \in Int
    BY FrameAssumption
  <2>. HIDE DEF x
  <2>. QED
    BY <2>1, <2>3, <2>4, <2>5, ReleasedStreamCharges, Zenon
<1>4. ASSUME NEW k \in Int, Drain(s, id, k) \in Session PROVE ChargesKept(s, Drain(s, id, k))
  <2>. DEFINE x == AfterDrain(s.streams[id], k)
  <2>1. Drain(s, id, k) = PutStream(ReleasePending(s, k, 0), id, x)
    BY DrainIs, Zenon
  <2>2. Drain(s, id, k).streams[id] = x
    BY AccountsChanged, Zenon
  <2>3. x \in Stream
    BY <1>4, <2>2, SessionFields, Zenon
  <2>4. /\ x.live
        /\ x.pendingWriteCost = s.streams[id].pendingWriteCost - k
        /\ x.pendingWriteItems = s.streams[id].pendingWriteItems
    BY <1>1, AccountUpdates, Zenon DEF SameButAccount
  <2>. HIDE DEF x
  <2>5. 0 \in Int /\ x.pendingWriteItems = s.streams[id].pendingWriteItems - 0
    BY <1>1, <2>4, StreamFields
  <2>. QED
    BY <2>1, <2>3, <2>4, <2>5, ReleasedStreamCharges, Zenon
<1>. QED
  BY <1>2, <1>3, <1>4

(* What queueFrameLocked charges is what the queue then holds more.        *)
LEMMA QueuedCosts ==
  ASSUME NEW lane \in Lane, NEW f \in Queueable
  PROVE  /\ Total(Costs(FramesWith(lane, f))) = Total(Costs(lane.frames)) + QueueCost(lane, f)
         /\ Len(FramesWith(lane, f)) = Len(lane.frames) + QueueItems(lane, f)
         /\ QueueCost(lane, f) \in Int /\ QueueItems(lane, f) \in Int
<1>. DEFINE old == lane.frames
            new == FramesWith(lane, f)
            n == Len(old)
<1>1. /\ old \in Seq(QueuedFrame) /\ new \in Seq(QueuedFrame) /\ n \in Nat
      /\ f.n \in Nat /\ f.id \in StreamIds /\ lane.windows \in [StreamIds -> Nat]
  BY LaneFields, FramesWithType DEF Queueable
<1>2. /\ Costs(old) \in Seq(Int) /\ Len(Costs(old)) = n
      /\ Costs(new) \in Seq(Int) /\ Len(Costs(new)) = Len(new)
      /\ Total(Costs(old)) \in Int
  BY <1>1, CostsType, TotalType
<1>3. EncodedLength(f) + QueueItemCost \in Int
  BY <1>1, EncodedLengthType, FrameAssumption
<1>4. /\ \A k \in 1 .. n : old[k] \in QueuedFrame /\ Costs(old)[k] = old[k].cost
      /\ \A k \in 1 .. Len(new) : Costs(new)[k] = new[k].cost
  BY <1>1 DEF Costs
<1>5. CASE MergesWindow(lane, f)
  <2>. DEFINE w == lane.windows[f.id]
  <2>1. new = [old EXCEPT ![w] = Merged(@, f.n)]
    BY <1>5, Zenon DEF FramesWith
  <2>2. QueueCost(lane, f) = 0 /\ QueueItems(lane, f) = 0
    BY <1>5 DEF QueueCost, QueueItems
  <2>. HIDE DEF w, new, old
  <2>3. Len(new) = n /\ \A k \in 1 .. n : k # w => new[k] = old[k]
    BY <1>1, <2>1
  <2>4. \A k \in 1 .. n : new[k].cost = old[k].cost
    <3>1. ASSUME NEW k \in 1 .. n, k = w PROVE new[k].cost = old[k].cost
      <4>1. new[k] = Merged(old[k], f.n)
        BY <1>1, <2>1, <3>1
      <4>2. Merged(old[k], f.n).cost = old[k].cost
        BY <1>4 DEF Merged, QueuedFrame
      <4>. QED
        BY <4>1, <4>2, Zenon
    <3>. QED
      BY <2>3, <3>1, Zenon
  <2>5. Costs(new) = Costs(old)
    BY <2>3, <2>4 DEF Costs
  <2>6. Total(Costs(new)) = Total(Costs(old)) + 0 /\ Len(new) = n + 0
    BY <1>1, <1>2, <2>3, <2>5
  <2>7. 0 \in Int
    OBVIOUS
  <2>. QED
    BY <2>2, <2>6, <2>7, Zenon DEF new, old
<1>6. CASE ~MergesWindow(lane, f) /\ ExtendsData(lane, f)
  <2>1. new = [old EXCEPT ![n] = Extended(@, f.n)]
    BY <1>6, Zenon DEF FramesWith
  <2>2. QueueCost(lane, f) = f.n /\ QueueItems(lane, f) = 0
    BY <1>6 DEF QueueCost, QueueItems
  <2>3. n \in 1 .. n
    <3>1. old # <<>>
      BY <1>6, Zenon DEF ExtendsData
    <3>. QED
      BY <1>1, <3>1
  <2>. HIDE DEF new, old
  <2>4. Len(new) = n /\ new[n] = Extended(old[n], f.n) /\ \A k \in 1 .. n : k # n => new[k] = old[k]
    BY <1>1, <2>1, <2>3
  <2>5. new[n].cost = old[n].cost + f.n /\ old[n].cost \in Int
    <3>1. Extended(old[n], f.n).cost = old[n].cost + f.n /\ old[n].cost \in Int
      BY <1>4, <2>3 DEF Extended, QueuedFrame
    <3>. QED
      BY <2>4, <3>1, Zenon
  <2>6. /\ n \in 1 .. Len(Costs(old)) /\ Len(Costs(new)) = Len(Costs(old))
        /\ \A k \in 1 .. Len(Costs(old)) : k # n => Costs(new)[k] = Costs(old)[k]
    BY <1>2, <1>4, <2>3, <2>4, Zenon
  <2>7. Total(Costs(new)) = Total(Costs(old)) + (Costs(new)[n] - Costs(old)[n])
    BY <1>2, <2>6, TotalChanged, Zenon
  <2>8. Costs(new)[n] - Costs(old)[n] = f.n
    BY <1>1, <1>4, <2>3, <2>4, <2>5
  <2>9. Len(new) = n + 0 /\ 0 \in Int /\ f.n \in Int
    BY <1>1, <2>4
  <2>. QED
    BY <2>2, <2>7, <2>8, <2>9, Zenon DEF new, old
<1>7. CASE ~MergesWindow(lane, f) /\ ~ExtendsData(lane, f)
  <2>. DEFINE cost == EncodedLength(f) + QueueItemCost
              e == [type |-> f.type, id |-> f.id, n |-> f.n, cost |-> cost]
  <2>1. new = Append(old, e)
    BY <1>7, Zenon DEF FramesWith
  <2>2. QueueCost(lane, f) = cost /\ QueueItems(lane, f) = 1
    BY <1>7 DEF QueueCost, QueueItems
  <2>3. e.cost = cost
    OBVIOUS
  <2>. HIDE DEF new, old, e, cost
  <2>4. Len(new) = n + 1 /\ new[n + 1] = e /\ \A k \in 1 .. n : new[k] = old[k]
    BY <1>1, <2>1
  <2>5. Costs(new) = Append(Costs(old), cost)
    <3>1. Len(Costs(new)) = Len(Append(Costs(old), cost))
          /\ Append(Costs(old), cost) \in Seq(Int)
      BY <1>2, <1>3, <2>4 DEF cost
    <3>2. \A k \in 1 .. n : Costs(new)[k] = Append(Costs(old), cost)[k]
      <4>1. \A k \in 1 .. n : Append(Costs(old), cost)[k] = Costs(old)[k]
        BY <1>1, <1>2
      <4>2. \A k \in 1 .. n : k \in 1 .. Len(new)
        BY <1>1, <2>4
      <4>3. \A k \in 1 .. n : Costs(new)[k] = Costs(old)[k]
        BY <1>4, <2>4, <4>2, Zenon
      <4>. QED
        BY <4>1, <4>3, Zenon
    <3>3. Costs(new)[n + 1] = Append(Costs(old), cost)[n + 1]
      BY <1>1, <1>2, <1>4, <2>3, <2>4
    <3>4. \A k \in 1 .. Len(Costs(new)) : Costs(new)[k] = Append(Costs(old), cost)[k]
      BY <1>1, <1>2, <2>4, <3>2, <3>3
    <3>. QED
      BY <1>2, <3>1, <3>4
  <2>6. Total(Costs(new)) = Total(Costs(old)) + cost
    BY <1>2, <1>3, <2>5, TotalAppend, Zenon DEF cost
  <2>7. 1 \in Int
    OBVIOUS
  <2>. QED
    BY <1>3, <2>2, <2>4, <2>6, <2>7, Zenon DEF new, old, cost
<1>. QED
  BY <1>5, <1>6, <1>7

LEMMA QueueFrameCharges ==
  ASSUME NEW s \in Session, NEW f \in Queueable
  PROVE  ChargesKept(s, QueueFrame(s, f))
<1>. DEFINE l == LaneOf(f.id)
            lane == s.lanes[l]
            a == QueueCost(lane, f)
            b == QueueItems(lane, f)
            q == FramesWith(lane, f)
            w == WindowsWith(lane, f)
            new == [lane EXCEPT !.frames = q, !.windows = w, !.notify = TRUE]
            t == QueueFrame(s, f)
<1>1. lane \in Lane /\ s.lanes \in [LaneIds -> Lane] /\ l \in LaneIds
  <2>1. f.id \in StreamIds
    BY DEF Queueable
  <2>. QED
    BY <2>1, SessionFields, LaneZero
<1>2. t \in Session
  BY QueueFrameType, Zenon
<1>3. t = [s EXCEPT !.pendingCost = @ + a, !.pendingItems = @ + b, !.lanes[l] = new]
  BY Zenon DEF QueueFrame
<1>4. /\ Total(Costs(q)) = Total(Costs(lane.frames)) + a
      /\ Len(q) = Len(lane.frames) + b
      /\ a \in Int /\ b \in Int
  BY <1>1, QueuedCosts, Zenon
<1>. HIDE DEF a, b, q, w, t, l
<1>5. /\ new.frames = q /\ new.unacked = lane.unacked
      /\ new.unackedCost = lane.unackedCost /\ new.unackedItems = lane.unackedItems
  <2>. HIDE DEF lane
  <2>. QED
    BY <1>1 DEF Lane
<1>. HIDE DEF new
<1>6. /\ t.streams = s.streams /\ t.lanes[l] = new
      /\ t.pendingCost = s.pendingCost + a /\ t.pendingItems = s.pendingItems + b
      /\ \A other \in LaneIds : other # l => t.lanes[other] = s.lanes[other]
  BY <1>1, <1>3 DEF Session
<1>. HIDE DEF lane
<1>7. LaneOwes(new) = LaneOwes(lane) + a /\ LaneHolds(new) = LaneHolds(lane) + b
  <2>1. /\ Total(Costs(lane.frames)) \in Int /\ Len(lane.frames) \in Int
        /\ lane.unackedCost \in Int /\ lane.unackedItems \in Int
    BY <1>1, LaneChargeTypes
  <2>3. /\ (Total(Costs(lane.frames)) + a) + lane.unackedCost
             = (Total(Costs(lane.frames)) + lane.unackedCost) + a
        /\ (Len(lane.frames) + b) + lane.unackedItems = (Len(lane.frames) + lane.unackedItems) + b
    BY <1>4, <2>1
  <2>. QED
    BY <1>4, <1>5, <2>3, Zenon DEF LaneOwes, LaneHolds
<1>8. BatchCharged(lane) => BatchCharged(new)
  BY <1>5, Zenon DEF BatchCharged
<1>9. /\ LaneOwes(t.lanes[l]) = LaneOwes(s.lanes[l]) + a
      /\ LaneHolds(t.lanes[l]) = LaneHolds(s.lanes[l]) + b
      /\ BatchCharged(s.lanes[l]) => BatchCharged(t.lanes[l])
  BY <1>6, <1>7, <1>8, Zenon DEF lane
<1>10. ChargesKept(s, t)
  BY <1>1, <1>2, <1>4, <1>6, <1>9, LaneCharges, Zenon
<1>. QED
  BY <1>10 DEF t

(* A closed session owes nothing.                                          *)
LEMMA CloseSessionCharges ==
  ASSUME NEW s \in Session, Charged(s, 0, 0)
  PROVE  Charged(CloseSession(s), 0, 0)
<1>1. CASE s.closed
  BY <1>1, Zenon DEF CloseSession
<1>2. CASE ~s.closed
  <2>. DEFINE t == CloseSession(s)
              Cleared(l) == IF s.lanes[l].present THEN ClearedLane(s.lanes[l]) ELSE NoLane
  <2>1. /\ t.pendingCost = 0 /\ t.pendingItems = 0
        /\ \A l \in LaneIds : t.lanes[l] = Cleared(l)
        /\ \A id \in StreamIds : t.streams[id] = NoStream
    BY <1>2 DEF CloseSession, Session
  <2>2. ASSUME NEW l \in LaneIds
        PROVE  LaneOwes(Cleared(l)) = 0 /\ LaneHolds(Cleared(l)) = 0 /\ BatchCharged(Cleared(l))
    <3>1. s.lanes[l] \in Lane
      BY SessionFields
    <3>2. CASE s.lanes[l].present
      <4>1. Cleared(l) = ClearedLane(s.lanes[l])
        BY <3>2
      <4>2. ASSUME NEW a \in Lane
            PROVE  /\ ClearedLane(a).frames = <<>> /\ ClearedLane(a).unacked = <<>>
                   /\ ClearedLane(a).unackedCost = 0 /\ ClearedLane(a).unackedItems = 0
        BY DEF ClearedLane, Lane
      <4>. QED
        BY <3>1, <4>1, <4>2, EmptyLaneOwes, Zenon
    <3>3. CASE ~s.lanes[l].present
      BY <3>3, NewLaneOwes
    <3>. QED
      BY <3>2, <3>3
  <2>. HIDE DEF t, Cleared
  <2>3. NoStream.pendingWriteCost = 0 /\ NoStream.pendingWriteItems = 0
    BY DEF NoStream
  <2>4. /\ \A id \in StreamIds : t.streams[id].pendingWriteCost = 0
        /\ \A id \in StreamIds : t.streams[id].pendingWriteItems = 0
    BY <2>1, <2>3
  <2>5. WritesCost(t) = 0 /\ WritesCount(t) = 0
    <3>1. MaxStreamID \in Nat /\ StreamIds = 1 .. MaxStreamID
      BY FrameAssumption DEF StreamIds
    <3>2. Total([id \in StreamIds |-> t.streams[id].pendingWriteCost]) = 0
      <4>. DEFINE q == [id \in StreamIds |-> t.streams[id].pendingWriteCost]
      <4>1. Len(q) = MaxStreamID /\ \A k \in 1 .. MaxStreamID : q[k] = 0
        BY <2>4, <3>1
      <4>. QED
        BY <3>1, <4>1, TotalZeros
    <3>3. Total([id \in StreamIds |-> t.streams[id].pendingWriteItems]) = 0
      <4>. DEFINE q == [id \in StreamIds |-> t.streams[id].pendingWriteItems]
      <4>1. Len(q) = MaxStreamID /\ \A k \in 1 .. MaxStreamID : q[k] = 0
        BY <2>4, <3>1
      <4>. QED
        BY <3>1, <4>1, TotalZeros
    <3>. QED
      BY <3>2, <3>3 DEF WritesCost, WritesCount
  <2>6. LanesOwe(t) = 0 /\ LanesHold(t) = 0
    <3>1. \A k \in 1 .. LaneCount : LaneOwes(t.lanes[k - 1]) = 0 /\ LaneHolds(t.lanes[k - 1]) = 0
      BY <2>1, <2>2, LaneNumbers
    <3>2. LaneCount \in Nat
      BY LaneNumbers
    <3>. DEFINE q == [k \in 1 .. LaneCount |-> LaneOwes(t.lanes[k - 1])]
                r == [k \in 1 .. LaneCount |-> LaneHolds(t.lanes[k - 1])]
    <3>3. Len(q) = LaneCount /\ Len(r) = LaneCount
      BY <3>2
    <3>4. \A k \in 1 .. LaneCount : q[k] = 0 /\ r[k] = 0
      BY <3>1
    <3>5. LanesOwe(t) = Total(q) /\ LanesHold(t) = Total(r)
      BY Zenon DEF LanesOwe, LanesHold
    <3>. HIDE DEF q, r
    <3>6. Total(q) = 0 /\ Total(r) = 0
      BY <3>2, <3>3, <3>4, TotalZeros
    <3>. QED
      BY <3>5, <3>6, Zenon
  <2>7. BatchesCharged(t)
    BY <2>1, <2>2, Zenon DEF BatchesCharged
  <2>8. EndedOwesNothing(t)
    BY <2>4, Zenon DEF EndedOwesNothing
  <2>9. Charged(t, 0, 0)
    <3>1. /\ t.pendingCost = LanesOwe(t) + WritesCost(t) + 0
          /\ t.pendingItems = LanesHold(t) + WritesCount(t) + 0
      BY <2>1, <2>5, <2>6
    <3>. QED
      BY <2>7, <2>8, <3>1, Zenon DEF Charged
  <2>. QED
    BY <2>9 DEF t
<1>. QED
  BY <1>1, <1>2

(* A batch keeps the charge of the frames it takes.                        *)
LEMMA BatchKeepsCosts ==
  ASSUME NEW lane \in Lane, NEW k \in 1 .. Len(lane.frames), NEW cursor \in Nat,
         lane.unacked = <<>>, BatchCharged(lane)
  PROVE  LET new == TakeBatch(lane, k, cursor)
         IN  LaneOwes(new) = LaneOwes(lane) /\ LaneHolds(new) = LaneHolds(lane) /\ BatchCharged(new)
<1>. DEFINE old == lane.frames
            batch == SubSeq(old, 1, k)
            rest == AfterBatch(old, k)
            cost == Total(Costs(batch))
            w == WindowsAfterTake(lane, k)
            new == [lane EXCEPT !.frames = rest, !.windows = w, !.unackedBase = cursor,
                                !.downCursor = @ + 1, !.unacked = batch,
                                !.unackedCost = cost, !.unackedItems = k,
                                !.owner = NoPoller]
<1>1. old \in Seq(QueuedFrame)
  BY LaneFields
<1>2. new = TakeBatch(lane, k, cursor)
  BY Zenon DEF TakeBatch
<1>3. /\ batch \in Seq(QueuedFrame) /\ rest \in Seq(QueuedFrame)
      /\ Len(batch) = k /\ Len(rest) = Len(old) - k /\ Len(old) \in Nat
      /\ \A j \in 1 .. k : batch[j] = old[j]
      /\ \A j \in 1 .. Len(old) - k : rest[j] = old[k + j]
  BY <1>1 DEF AfterBatch
<1>. HIDE DEF batch, rest, cost, w
<1>4. new.frames = rest /\ new.unacked = batch /\ new.unackedCost = cost /\ new.unackedItems = k
  BY DEF Lane
<1>. HIDE DEF new, old
<1>5. /\ Costs(old) \in Seq(Int) /\ Costs(batch) \in Seq(Int) /\ Costs(rest) \in Seq(Int)
      /\ Len(Costs(old)) = Len(old) /\ Len(Costs(batch)) = k /\ Len(Costs(rest)) = Len(old) - k
      /\ cost \in Int /\ Total(Costs(rest)) \in Int /\ Total(Costs(old)) \in Int
  BY <1>1, <1>3, CostsType, TotalType, Zenon DEF cost
<1>6. Total(Costs(old)) = Total(Costs(batch)) + Total(Costs(rest))
  <2>1. \A j \in 1 .. k : Costs(old)[j] = Costs(batch)[j]
    BY <1>3 DEF Costs
  <2>2. \A j \in 1 .. Len(old) - k : Costs(old)[k + j] = Costs(rest)[j]
    BY <1>3 DEF Costs
  <2>3. Len(Costs(old)) = Len(Costs(batch)) + Len(Costs(rest))
    BY <1>3, <1>5
  <2>4. /\ \A j \in 1 .. Len(Costs(batch)) : Costs(old)[j] = Costs(batch)[j]
        /\ \A j \in 1 .. Len(Costs(rest)) :
             Costs(old)[Len(Costs(batch)) + j] = Costs(rest)[j]
    BY <1>5, <2>1, <2>2, Zenon
  <2>. QED
    BY <1>5, <2>3, <2>4, TotalParts, Zenon
<1>7. lane.unackedCost = 0 /\ lane.unackedItems = 0
  BY NoCosts DEF BatchCharged
<1>8. Total(Costs(rest)) + cost = Total(Costs(old)) + 0
  BY <1>5, <1>6 DEF cost
<1>9. (Len(old) - k) + k = Len(old) + 0
  BY <1>3
<1>10. LaneOwes(new) = LaneOwes(lane) /\ LaneHolds(new) = LaneHolds(lane)
  BY <1>3, <1>4, <1>7, <1>8, <1>9, Zenon DEF LaneOwes, LaneHolds, old
<1>11. BatchCharged(new)
  BY <1>3, <1>4, Zenon DEF BatchCharged, cost
<1>. QED
  BY <1>2, <1>10, <1>11, Zenon

LEMMA TakeCharges ==
  ASSUME NEW s \in Session, NEW l \in LaneIds, s.lanes[l].unacked = <<>>,
         NEW k \in 1 .. Len(s.lanes[l].frames), NEW cursor \in Nat
  PROVE  ChargesKept(s, PutLane(s, l, TakeBatch(s.lanes[l], k, cursor)))
<1>. DEFINE lane == s.lanes[l]
            new == TakeBatch(lane, k, cursor)
            t == PutLane(s, l, new)
<1>1. lane \in Lane
  BY SessionFields
<1>2. new \in Lane
  BY <1>1, TakeBatchType
<1>3. BatchCharged(lane) =>
        LaneOwes(new) = LaneOwes(lane) /\ LaneHolds(new) = LaneHolds(lane) /\ BatchCharged(new)
  BY <1>1, BatchKeepsCosts
<1>. HIDE DEF new
<1>4. t \in Session
  BY <1>2, SetLaneType, Zenon DEF PutLane
<1>5. /\ t.streams = s.streams /\ t.lanes[l] = new
      /\ t.pendingCost = s.pendingCost /\ t.pendingItems = s.pendingItems
      /\ \A other \in LaneIds : other # l => t.lanes[other] = s.lanes[other]
  BY SetLaneFields
<1>. HIDE DEF t
<1>6. CASE BatchCharged(lane)
  <2>1. /\ t.pendingCost = s.pendingCost + 0 /\ t.pendingItems = s.pendingItems + 0
        /\ LaneOwes(s.lanes[l]) = LaneOwes(s.lanes[l]) + 0
        /\ LaneHolds(s.lanes[l]) = LaneHolds(s.lanes[l]) + 0 /\ 0 \in Int
    BY <1>5, ChargeTypes
  <2>2. /\ LaneOwes(t.lanes[l]) = LaneOwes(s.lanes[l]) + 0
        /\ LaneHolds(t.lanes[l]) = LaneHolds(s.lanes[l]) + 0
        /\ BatchCharged(t.lanes[l])
    BY <1>3, <1>5, <1>6, <2>1, Zenon
  <2>3. ChargesKept(s, t)
    BY <1>4, <1>5, <2>1, <2>2, LaneCharges, Zenon
  <2>. QED
    BY <2>3 DEF t, new
<1>7. CASE ~BatchCharged(lane)
  BY <1>7, Zenon DEF ChargesKept, Charged, BatchesCharged
<1>. QED
  BY <1>6, <1>7

(* An acknowledgement releases the charge of the batch.                    *)
LEMMA AckCharges ==
  ASSUME NEW s \in Session, NEW l \in LaneIds
  PROVE  /\ ChargesKept(s, AckUnacked(s, l))
         /\ AckUnacked(s, l).lanes[l].unacked = <<>>
<1>. DEFINE lane == s.lanes[l]
            a == lane.unackedCost
            b == lane.unackedItems
            r == ReleasePending(s, a, b)
            new == [lane EXCEPT !.unacked = <<>>, !.unackedCost = 0, !.unackedItems = 0]
            t == AckUnacked(s, l)
<1>1. /\ lane \in Lane /\ a \in Int /\ b \in Int
  BY SessionFields, LaneFields
<1>2. t = PutLane(r, l, new)
  BY Zenon DEF AckUnacked, PutLane
<1>3. t \in Session
  BY AckUnackedType, Zenon
<1>4. /\ r \in Session /\ r.streams = s.streams /\ r.lanes = s.lanes
      /\ r.pendingCost = s.pendingCost - a /\ r.pendingItems = s.pendingItems - b
  <2>. HIDE DEF a, b
  <2>. QED
    BY <1>1, ReleasePendingType, ReleasePendingBudget
<1>5. new.frames = lane.frames /\ new.unacked = <<>> /\ new.unackedCost = 0 /\ new.unackedItems = 0
  <2>. HIDE DEF lane
  <2>. QED
    BY <1>1 DEF Lane
<1>. HIDE DEF new, r, t
<1>6. /\ t.streams = r.streams /\ t.lanes[l] = new
      /\ t.pendingCost = r.pendingCost /\ t.pendingItems = r.pendingItems
      /\ \A other \in LaneIds : other # l => t.lanes[other] = r.lanes[other]
  BY <1>2, <1>4, SetLaneFields
<1>7. BatchCharged(t.lanes[l])
  BY <1>5, <1>6, NoCosts DEF BatchCharged
<1>8. /\ Total(Costs(lane.frames)) \in Int /\ Len(lane.frames) \in Int
      /\ s.pendingCost \in Int /\ s.pendingItems \in Int
  BY <1>1, LaneChargeTypes, SessionFields
<1>9. LaneOwes(new) = Total(Costs(lane.frames)) + 0 /\ LaneHolds(new) = Len(lane.frames) + 0
  BY <1>5, Zenon DEF LaneOwes, LaneHolds
<1>10. LaneOwes(lane) = Total(Costs(lane.frames)) + a /\ LaneHolds(lane) = Len(lane.frames) + b
  BY DEF LaneOwes, LaneHolds
<1>. HIDE DEF a, b, lane
<1>11. /\ -a \in Int /\ -b \in Int
       /\ t.pendingCost = s.pendingCost + (-a) /\ t.pendingItems = s.pendingItems + (-b)
       /\ LaneOwes(new) = LaneOwes(lane) + (-a) /\ LaneHolds(new) = LaneHolds(lane) + (-b)
  <2>1. \A x \in Int, y \in Int : -y \in Int /\ x - y = x + (-y) /\ x + 0 = (x + y) + (-y)
    OBVIOUS
  <2>2. /\ s.pendingCost - a = s.pendingCost + (-a) /\ s.pendingItems - b = s.pendingItems + (-b)
        /\ -a \in Int /\ -b \in Int
    BY <1>1, <1>8, <2>1, Zenon
  <2>3. /\ Total(Costs(lane.frames)) + 0 = (Total(Costs(lane.frames)) + a) + (-a)
        /\ Len(lane.frames) + 0 = (Len(lane.frames) + b) + (-b)
    BY <1>1, <1>8, <2>1, Zenon
  <2>. QED
    BY <1>4, <1>6, <1>9, <1>10, <2>2, <2>3, Zenon
<1>12. /\ LaneOwes(t.lanes[l]) = LaneOwes(s.lanes[l]) + (-a)
       /\ LaneHolds(t.lanes[l]) = LaneHolds(s.lanes[l]) + (-b)
       /\ t.streams = s.streams
       /\ \A other \in LaneIds : other # l => t.lanes[other] = s.lanes[other]
  BY <1>4, <1>6, <1>11, Zenon DEF lane
<1>13. ChargesKept(s, t)
  BY <1>3, <1>7, <1>11, <1>12, LaneCharges, Zenon
<1>. QED
  BY <1>5, <1>6, <1>13, Zenon DEF t

(* What the handlers change of a session without moving a charge.          *)
LEMMA LanesCharges ==
  ASSUME NEW s \in Session, NEW l \in LaneIds
  PROVE  /\ \A x : ChargesKept(s, [s EXCEPT !.lanes[l].upActive = x])
         /\ \A x : ChargesKept(s, [s EXCEPT !.lanes[l].owner = x])
         /\ \A x : ChargesKept(s, [s EXCEPT !.lanes[l].notify = x])
         /\ \A x, y : ChargesKept(s, [s EXCEPT !.lanes[l].lastUpSequence = x,
                                               !.lanes[l].lastUpDigest = y])
<1>. DEFINE Apart(t) == /\ t.streams = s.streams
                        /\ t.pendingCost = s.pendingCost /\ t.pendingItems = s.pendingItems
                        /\ t.lanes[l].frames = s.lanes[l].frames
                        /\ t.lanes[l].unacked = s.lanes[l].unacked
                        /\ t.lanes[l].unackedCost = s.lanes[l].unackedCost
                        /\ t.lanes[l].unackedItems = s.lanes[l].unackedItems
                        /\ \A other \in LaneIds : other # l => t.lanes[other] = s.lanes[other]
<1>1. ASSUME NEW t, Apart(t) PROVE ChargesKept(s, t)
  <2>1. ASSUME NEW other \in LaneIds PROVE SameQueued(s.lanes[other], t.lanes[other])
    <3>1. CASE other = l
      BY <1>1, <3>1, Zenon DEF SameQueued
    <3>2. CASE other # l
      <4>1. t.lanes[other] = s.lanes[other]
        BY <1>1, <3>2, Zenon
      <4>. QED
        BY <4>1, Zenon DEF SameQueued
    <3>. QED
      BY <3>1, <3>2
  <2>2. SameBudget(s, t) /\ SameAccounts(s, t) /\ SameQueues(s, t)
    BY <1>1, <2>1, SameStreamsOwe, Zenon DEF SameBudget, SameQueues
  <2>. QED
    BY <2>2, SameCharges, Zenon
<1>2. s.lanes[l] \in Lane /\ s.lanes \in [LaneIds -> Lane]
  BY SessionFields
<1>3. \A x : Apart([s EXCEPT !.lanes[l].upActive = x])
  BY <1>2 DEF Session, Lane
<1>4. \A x : Apart([s EXCEPT !.lanes[l].owner = x])
  BY <1>2 DEF Session, Lane
<1>5. \A x : Apart([s EXCEPT !.lanes[l].notify = x])
  BY <1>2 DEF Session, Lane
<1>6. \A x, y : Apart([s EXCEPT !.lanes[l].lastUpSequence = x, !.lanes[l].lastUpDigest = y])
  BY <1>2 DEF Session, Lane
<1>. HIDE DEF Apart
<1>. QED
  BY <1>1, <1>3, <1>4, <1>5, <1>6, Zenon

LEMMA WaitersCharges ==
  ASSUME NEW s \in Session
  PROVE  /\ \A x : ChargesKept(s, [s EXCEPT !.budgetWaiters = x])
         /\ \A ids : ChargesKept(s, CancelBackend(s, ids))
<1>1. ASSUME NEW t, t.streams = s.streams, t.lanes = s.lanes,
             t.pendingCost = s.pendingCost, t.pendingItems = s.pendingItems
      PROVE  ChargesKept(s, t)
  <2>1. SameBudget(s, t) /\ SameAccounts(s, t) /\ SameQueues(s, t)
    BY <1>1, SameStreamsOwe, SameLanesQueue, Zenon DEF SameBudget
  <2>. QED
    BY <2>1, SameCharges, Zenon
<1>2. ASSUME NEW x PROVE ChargesKept(s, [s EXCEPT !.budgetWaiters = x])
  <2>. DEFINE t == [s EXCEPT !.budgetWaiters = x]
  <2>1. /\ t.streams = s.streams /\ t.lanes = s.lanes
        /\ t.pendingCost = s.pendingCost /\ t.pendingItems = s.pendingItems
    BY DEF Session
  <2>. HIDE DEF t
  <2>2. ChargesKept(s, t)
    BY <1>1, <2>1, Zenon
  <2>. QED
    BY <2>2 DEF t
<1>3. ASSUME NEW ids PROVE ChargesKept(s, CancelBackend(s, ids))
  <2>1. /\ CancelBackend(s, ids).streams = s.streams /\ CancelBackend(s, ids).lanes = s.lanes
        /\ CancelBackend(s, ids).pendingCost = s.pendingCost
        /\ CancelBackend(s, ids).pendingItems = s.pendingItems
    BY DEF Session, CancelBackend
  <2>. QED
    BY <1>1, <2>1, Zenon
<1>. QED
  BY <1>2, <1>3

(* The steps of backends, for what is charged.                             *)
LEMMA AfterWriteCharges ==
  ASSUME NEW s \in Session, NEW id \in StreamIds, NEW k \in Nat, NEW pool
  PROVE  ChargesKept(s, AfterWrite(s, id, k, pool))
<1>1. ChargesKept(s, s) /\ k \in Int
  BY ChargesKeptSame
<1>2. CASE CanDrain(s, id, k)
  <2>. DEFINE f == [type |-> "WINDOW", id |-> id, n |-> k]
  <2>1. Drain(s, id, k) \in Session
    BY <1>1, <1>2, DrainType, Zenon
  <2>2. ChargesKept(s, Drain(s, id, k))
    <3>1. s.streams[id].live
      BY <1>2, Zenon DEF CanDrain
    <3>. QED
      BY <1>1, <2>1, <3>1, AccountsCharges, Zenon
  <2>3. f \in Queueable
    BY DEF Queueable
  <2>. HIDE DEF f
  <2>4. ChargesKept(s, QueueFrame(Drain(s, id, k), f))
    BY <2>1, <2>2, <2>3, QueueFrameCharges, ChargesKeptTransitive, Zenon
  <2>. QED
    BY <1>2, <2>2, <2>4, Zenon DEF AfterWrite, f
<1>3. CASE ~CanDrain(s, id, k)
  BY <1>1, <1>3, Zenon DEF AfterWrite
<1>. QED
  BY <1>2, <1>3

LEMMA ClosedByBackendCharges ==
  ASSUME NEW s \in Session, NEW id \in StreamIds, NEW pool, Charged(s, 0, 0)
  PROVE  Charged(ClosedByBackend(s, id, pool), 0, 0)
<1>. DEFINE ended == EndStream(s, id)
            f == [type |-> "CLOSE", id |-> id, n |-> 0]
<1>1. ended \in Session /\ ChargesKept(s, ended)
  BY EndStreamType, EndStreamCharges, Zenon
<1>2. f \in Queueable
  BY DEF Queueable
<1>. HIDE DEF ended, f
<1>3. 0 \in Int
  OBVIOUS
<1>4. Charged(ended, 0, 0)
  BY <1>1, <1>3, Zenon DEF ChargesKept
<1>5. Charged(QueueFrame(ended, f), 0, 0)
  BY <1>1, <1>2, <1>3, <1>4, QueueFrameCharges, Zenon DEF ChargesKept
<1>6. Charged(CloseSession(ended), 0, 0)
  BY <1>1, <1>4, CloseSessionCharges, Zenon
<1>. QED
  BY <1>5, <1>6, Zenon DEF ClosedByBackend, ended, f

LEMMA BackendCharges ==
  ASSUME BackendTypeOK, NEW id \in StreamIds, BackendStep(id),
         NEW c \in Int, NEW i \in Int, Charged(ses, c, i), locked \/ (c = 0 /\ i = 0)
  PROVE  Charged(ses', c, i)
<1>. DEFINE Same == ses' = ses
            Cancels == ses' = CancelBackend(ses, {id})
<1>1. ses \in Session /\ backends[id] \in BackendState /\ ChargesKept(ses, ses)
  BY ChargesKeptSame, Zenon DEF BackendTypeOK
<1>2. backends[id].inHand \in Nat
  BY <1>1, BackendFields
<1>3. ChargesKept(ses, ses') => Charged(ses', c, i)
  BY Zenon DEF ChargesKept
<1>4. CASE Same \/ Cancels
  BY <1>1, <1>3, <1>4, WaitersCharges, Zenon
<1>5. CASE Dialled(id) \/ DialFailed(id) \/ LoopsReturned(id) \/ BudgetWakesReader(id)
           \/ WriterStops(id) \/ ReadEnds(id)
  BY <1>4, <1>5, Zenon DEF Dialled, DialFailed, LoopsReturned, BudgetWakesReader,
                           WriterStops, ReadEnds
<1>6. ASSUME NEW s \in Session, ChargesKept(ses, s)
      PROVE  ChargesKept(ses, CancelBackend(s, {id}))
  BY <1>6, WaitersCharges, ChargesKeptTransitive, Zenon
<1>7. CASE BackendClosed(id)
  <2>1. PICK pool : ses' = CancelBackend(IF Live(id) THEN ClosedByBackend(ses, id, pool) ELSE ses,
                                         {id})
    BY <1>7, Zenon DEF BackendClosed
  <2>2. c = 0 /\ i = 0
    BY <1>7, Zenon DEF BackendClosed
  <2>3. CASE Live(id)
    <3>1. Charged(ClosedByBackend(ses, id, pool), c, i)
      BY <1>1, <2>2, ClosedByBackendCharges, Zenon
    <3>2. ClosedByBackend(ses, id, pool) \in Session
      BY <1>1, ClosedByBackendType, Zenon
    <3>3. ChargesKept(ClosedByBackend(ses, id, pool), ses')
      BY <2>1, <2>3, <3>2, WaitersCharges, Zenon
    <3>. QED
      BY <3>1, <3>3, Zenon DEF ChargesKept
  <2>4. CASE ~Live(id)
    BY <1>4, <2>1, <2>4, Zenon
  <2>. QED
    BY <2>3, <2>4
<1>8. CASE Write(id)
  <2>1. PICK pool \in PoolAnswers("control") :
          \/ ses' = AfterWrite(ses, id, backends[id].inHand, pool)
          \/ ses' = CancelBackend(AfterWrite(ses, id, backends[id].inHand, pool), {id})
    BY <1>8, Zenon DEF Write
  <2>2. pool \in BOOLEAN
    BY <2>1, PoolAnswersType, Zenon
  <2>. QED
    BY <1>1, <1>2, <1>3, <1>6, <2>1, <2>2, AfterWriteType, AfterWriteCharges, Zenon
<1>9. CASE WriteFails(id)
  <2>1. PICK pool \in PoolAnswers("control"), k \in 0 .. backends[id].inHand - 1 :
          ses' = CancelBackend(AfterWrite(ses, id, k, pool), {id})
    BY <1>9, Zenon DEF WriteFails
  <2>2. pool \in BOOLEAN
    BY <2>1, PoolAnswersType, Zenon
  <2>3. k \in Nat
    BY <1>2, <2>1
  <2>. QED
    BY <1>1, <1>3, <1>6, <2>1, <2>2, <2>3, AfterWriteType, AfterWriteCharges, Zenon
<1>10. CASE WriteFinished(id)
  <2>1. CASE CanFinishWrite(ses, id)
    <3>1. ses.streams[id].live /\ ses' = FinishWrite(ses, id)
      BY <1>10, <2>1, Zenon DEF WriteFinished, CanFinishWrite
    <3>2. FinishWrite(ses, id) \in Session
      BY <1>1, <2>1, FinishWriteType, Zenon
    <3>. QED
      BY <1>1, <1>3, <3>1, <3>2, AccountsCharges, Zenon
  <2>2. CASE ~CanFinishWrite(ses, id)
    BY <1>4, <1>10, <2>2, Zenon DEF WriteFinished
  <2>. QED
    BY <2>1, <2>2
<1>11. CASE NextWrite(id) \/ WriterWakes(id) \/ CreditWakesReader(id)
  <2>1. ses.streams[id] \in Stream /\ ses.streams \in [StreamIds -> Stream]
    BY <1>1, SessionFields
  <2>2. ASSUME NEW x, NEW waiters, ses' = [ses EXCEPT !.streams[id] = x, !.budgetWaiters = waiters]
                     \/ ses' = [ses EXCEPT !.streams[id] = x],
               x.live = ses.streams[id].live,
               x.pendingWriteCost = ses.streams[id].pendingWriteCost,
               x.pendingWriteItems = ses.streams[id].pendingWriteItems
        PROVE  Charged(ses', c, i)
    <3>1. /\ ses'.pendingCost = ses.pendingCost /\ ses'.pendingItems = ses.pendingItems
          /\ ses'.lanes = ses.lanes /\ ses'.streams[id] = x
          /\ \A other \in StreamIds \ {id} : ses'.streams[other] = ses.streams[other]
      BY <1>1, <2>1, <2>2 DEF Session
    <3>2. SameAccounts(ses, ses')
      <4>1. ASSUME NEW other \in StreamIds
            PROVE  /\ ses'.streams[other].live <=> ses.streams[other].live
                   /\ ses'.streams[other].pendingWriteCost = ses.streams[other].pendingWriteCost
                   /\ ses'.streams[other].pendingWriteItems = ses.streams[other].pendingWriteItems
        <5>1. CASE other = id
          BY <2>2, <3>1, <5>1
        <5>2. CASE other # id
          <6>1. ses'.streams[other] = ses.streams[other]
            BY <3>1, <5>2
          <6>. QED
            BY <6>1, Zenon
        <5>. QED
          BY <5>1, <5>2
      <4>. QED
        BY <4>1, Zenon DEF SameAccounts
    <3>3. SameBudget(ses, ses') /\ SameQueues(ses, ses')
      BY <3>1, SameLanesQueue, Zenon DEF SameBudget
    <3>4. ChargesKept(ses, ses')
      BY <3>2, <3>3, SameCharges, Zenon
    <3>. QED
      BY <1>3, <3>4
  <2>3. CASE ses' = [ses EXCEPT !.streams[id].writes = Tail(@)]
    <3>. DEFINE x == [ses.streams[id] EXCEPT !.writes = Tail(@)]
    <3>1. ses' = [ses EXCEPT !.streams[id] = x]
      BY <1>1, <2>3 DEF Session
    <3>2. /\ x.live = ses.streams[id].live
          /\ x.pendingWriteCost = ses.streams[id].pendingWriteCost
          /\ x.pendingWriteItems = ses.streams[id].pendingWriteItems
      BY <2>1 DEF Stream
    <3>. QED
      BY <2>2, <3>1, <3>2, Zenon
  <2>4. CASE ses' = [ses EXCEPT !.streams[id].writeNotify = FALSE]
    <3>. DEFINE x == [ses.streams[id] EXCEPT !.writeNotify = FALSE]
    <3>1. ses' = [ses EXCEPT !.streams[id] = x]
      BY <1>1, <2>4 DEF Session
    <3>2. /\ x.live = ses.streams[id].live
          /\ x.pendingWriteCost = ses.streams[id].pendingWriteCost
          /\ x.pendingWriteItems = ses.streams[id].pendingWriteItems
      BY <2>1 DEF Stream
    <3>. QED
      BY <2>2, <3>1, <3>2, Zenon
  <2>5. CASE CreditWakesReader(id)
    <3>. DEFINE x == [ses.streams[id] EXCEPT !.creditNotify = FALSE]
                waiters == ses.budgetWaiters \ {id}
    <3>1. ses' = [ses EXCEPT !.streams[id] = x, !.budgetWaiters = waiters]
      BY <1>1, <2>5 DEF Session, CreditWakesReader
    <3>2. /\ x.live = ses.streams[id].live
          /\ x.pendingWriteCost = ses.streams[id].pendingWriteCost
          /\ x.pendingWriteItems = ses.streams[id].pendingWriteItems
      BY <2>1 DEF Stream
    <3>. QED
      BY <2>2, <3>1, <3>2, Zenon
  <2>. QED
    BY <1>4, <1>11, <2>3, <2>4, <2>5, Zenon DEF NextWrite, WriterWakes
<1>12. CASE NextRead(id)
  <2>1. CASE \E x : ses' = [ses EXCEPT !.budgetWaiters = x]
    BY <1>1, <1>3, <2>1, WaitersCharges, ZenonT(60)
  <2>2. \/ Same \/ Cancels
        \/ ses' = [ses EXCEPT !.budgetWaiters = ses.budgetWaiters \cup {id}]
    BY <1>12, Zenon DEF NextRead
  <2>. QED
    BY <1>4, <2>1, <2>2, Zenon
<1>13. CASE ReaderStops(id)
  <2>. DEFINE r == [ses EXCEPT !.budgetWaiters = ses.budgetWaiters \ {id}]
  <2>1. ses.budgetWaiters \ {id} \in SUBSET StreamIds
    BY <1>1, SessionFields
  <2>2. r \in Session /\ ChargesKept(ses, r)
    BY <1>1, <2>1, SessionUpdates, WaitersCharges, Zenon
  <2>3. ses' = CancelBackend(r, {id})
    BY <1>13, Zenon DEF ReaderStops
  <2>. HIDE DEF r
  <2>. QED
    BY <1>3, <1>6, <2>2, <2>3, Zenon
<1>14. CASE Read(id)
  <2>1. PICK k \in 1 .. backends[id].allowance :
          LET spent == SpendCredit(ses, id, k)
          IN  \/ Cancels
              \/ /\ CanTakeData(ses, id, k)
                 /\ \/ ses' = QueueFrame(spent, [type |-> "DATA", id |-> id, n |-> k])
                    \/ ses' = CancelBackend(spent, {id})
    BY <1>14, Zenon DEF Read
  <2>. DEFINE spent == SpendCredit(ses, id, k)
              f == [type |-> "DATA", id |-> id, n |-> k]
  <2>2. k \in Nat /\ f \in Queueable
    BY DEF Queueable
  <2>3. CanTakeData(ses, id, k) => spent \in Session /\ ChargesKept(ses, spent)
    <3>. SUFFICES ASSUME CanTakeData(ses, id, k)
                  PROVE  spent \in Session /\ ChargesKept(ses, spent)
      OBVIOUS
    <3>1. ses.streams[id].live /\ k <= ses.streams[id].sendCredit
      BY Zenon DEF CanTakeData
    <3>. QED
      BY <1>1, <2>1, <2>2, <3>1, SpendCreditType, AccountsCharges, Zenon
  <2>4. \/ Cancels
        \/ spent \in Session /\ ChargesKept(ses, spent) /\ ses' = QueueFrame(spent, f)
        \/ spent \in Session /\ ChargesKept(ses, spent) /\ ses' = CancelBackend(spent, {id})
    BY <2>1, <2>3, Zenon
  <2>. HIDE DEF spent, f, Cancels
  <2>5. CASE spent \in Session /\ ChargesKept(ses, spent) /\ ses' = QueueFrame(spent, f)
    BY <1>3, <2>2, <2>5, QueueFrameCharges, ChargesKeptTransitive, Zenon
  <2>6. CASE spent \in Session /\ ChargesKept(ses, spent) /\ ses' = CancelBackend(spent, {id})
    BY <1>3, <1>6, <2>6, Zenon
  <2>7. CASE ses' = CancelBackend(ses, {id})
    BY <1>4, <2>7 DEF Cancels
  <2>. QED
    BY <2>4, <2>5, <2>6, <2>7, Zenon DEF Cancels
<1>. QED
  BY <1>5, <1>7, <1>8, <1>9, <1>10, <1>11, <1>12, <1>13, <1>14, Zenon DEF BackendStep

=============================================================================
