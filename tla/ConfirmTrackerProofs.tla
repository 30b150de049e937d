------------------------ MODULE ConfirmTrackerProofs -------------------------
(***************************************************************************)
(* Proofs about ConfirmTracker, for every set of tags and every compaction  *)
(* threshold.                                                               *)
(***************************************************************************)
EXTENDS ConfirmTracker, SequenceTheorems, WellFoundedInduction, TLAPS

(* ------------------------------ the index ------------------------------ *)

\* A nonempty set of naturals has the minimum that Min chooses.
LEMMA MinOfNats ==
  ASSUME NEW S \in SUBSET Nat, S # {}
  PROVE  Min(S) \in S /\ \A y \in S : Min(S) <= y
<1>1. \E x \in S : \A y \in S : ~ (<<y, x>> \in OpToRel(<, Nat))
  BY WFMin, NatLessThanWellFounded
<1>2. PICK x \in S : \A y \in S : ~ (<<y, x>> \in OpToRel(<, Nat))
  BY <1>1
<1>3. ASSUME NEW y \in S PROVE x <= y
  <2>1. ~ (y < x)
    BY <1>2 DEF OpToRel
  <2> QED BY <2>1
<1>4. QED BY <1>2, <1>3 DEF Min

\* Walk stops inside the index, at the first tag outside S or at the end.
LEMMA WalkStops ==
  ASSUME NEW ord \in Seq(Tags), NEW from \in 0..Len(ord), NEW S
  PROVE  /\ Walk(ord, from, S) \in from..Len(ord)
         /\ \A k \in (from + 1)..Walk(ord, from, S) : ord[k] \in S
         /\ Walk(ord, from, S) < Len(ord) => ord[Walk(ord, from, S) + 1] \notin S
<1> DEFINE C == {i \in from..Len(ord) : i = Len(ord) \/ ord[i + 1] \notin S}
<1>1. C \in SUBSET Nat /\ Len(ord) \in C
  OBVIOUS
<1>2. Min(C) \in C /\ \A y \in C : Min(C) <= y
  BY <1>1, MinOfNats
<1>3. ASSUME NEW k \in (from + 1)..Min(C) PROVE ord[k] \in S
  <2>1. k - 1 \in from..Len(ord) /\ k - 1 < Min(C)
    BY <1>2
  <2>2. k - 1 \notin C
    BY <1>2, <2>1
  <2> QED BY <2>1, <2>2
<1> QED BY <1>2, <1>3 DEF Walk

Index == [order : Seq(Tags), head : Nat]

SortedSeq(ord) == \A i, j \in 1..Len(ord) : i < j => ord[i] <= ord[j]

\* An index whose head lies inside it and whose tags ascend.
GoodIndex(ix) ==
  ix \in Index /\ ix.head <= Len(ix.order) /\ SortedSeq(ix.order)

\* Tag t lies in the window of ix.
InWindow(ix, t) == \E k \in (ix.head + 1)..Len(ix.order) : ix.order[k] = t

Compacted(ix) == ix.head > orderCompactMinPrefix => 2 * ix.head < Len(ix.order)

\* compactOrder loses no tag of the window and bounds the dead prefix.
LEMMA CompactKeepsWindow ==
  ASSUME NEW ix, GoodIndex(ix)
  PROVE  /\ GoodIndex(compactOrder(ix))
         /\ \A t : InWindow(ix, t) => InWindow(compactOrder(ix), t)
         /\ Compacted(compactOrder(ix))
<1> USE DEF Index
<1>0. ix.order \in Seq(Tags) /\ ix.head \in Nat /\ ix.head <= Len(ix.order)
  BY DEF GoodIndex
<1>1. CASE ix.head = 0
  BY <1>0, <1>1, TrackerAssumption DEF compactOrder, GoodIndex, InWindow, Compacted
<1>2. CASE ix.head # 0 /\ ix.head >= Len(ix.order)
  BY <1>0, <1>2, TrackerAssumption
     DEF compactOrder, GoodIndex, InWindow, Compacted, SortedSeq
<1>3. CASE /\ ix.head # 0 /\ ~ (ix.head >= Len(ix.order))
           /\ ix.head > orderCompactMinPrefix /\ ix.head * 2 >= Len(ix.order)
  <2> DEFINE s == SubSeq(ix.order, ix.head + 1, Len(ix.order))
  <2>1. compactOrder(ix) = [order |-> s, head |-> 0]
    BY <1>3 DEF compactOrder
  <2>2. /\ s \in Seq(Tags) /\ Len(s) = Len(ix.order) - ix.head
        /\ \A i \in 1..(Len(ix.order) - ix.head) : s[i] = ix.order[ix.head + i]
    <3>1. Len(ix.order) \in Nat /\ ix.head + 1 \in Int
          /\ \A i \in (ix.head + 1)..Len(ix.order) : ix.order[i] \in Tags
      BY <1>0
    <3>2. /\ s \in Seq(Tags)
          /\ Len(s) = IF ix.head + 1 <= Len(ix.order)
                        THEN Len(ix.order) - (ix.head + 1) + 1 ELSE 0
          /\ \A i \in 1..(Len(ix.order) - (ix.head + 1) + 1) :
               s[i] = ix.order[(ix.head + 1) + i - 1]
      BY <3>1, SubSeqProperties
    <3> HIDE DEF s
    <3>3. /\ Len(ix.order) - (ix.head + 1) + 1 = Len(ix.order) - ix.head
          /\ ix.head + 1 <= Len(ix.order)
          /\ \A i \in Nat : (ix.head + 1) + i - 1 = ix.head + i
      BY <1>0, <1>3, <3>1
    <3> QED BY <3>2, <3>3
  <2> HIDE DEF s
  <2>3. SortedSeq(s)
    <3> SUFFICES ASSUME NEW i \in 1..Len(s), NEW j \in 1..Len(s), i < j
                 PROVE  s[i] <= s[j]
      BY DEF SortedSeq
    <3>1. /\ s[i] = ix.order[ix.head + i] /\ s[j] = ix.order[ix.head + j]
          /\ ix.head + i \in 1..Len(ix.order) /\ ix.head + j \in 1..Len(ix.order)
          /\ ix.head + i < ix.head + j
      BY <1>0, <2>2
    <3> QED BY <3>1 DEF GoodIndex, SortedSeq
  <2>4. ASSUME NEW t, InWindow(ix, t) PROVE InWindow(compactOrder(ix), t)
    <3>1. PICK k \in (ix.head + 1)..Len(ix.order) : ix.order[k] = t
      BY <2>4 DEF InWindow
    <3>2. k - ix.head \in 1..Len(s) /\ s[k - ix.head] = t
      BY <1>0, <2>2, <3>1
    <3> QED BY <2>1, <3>2 DEF InWindow
  <2> QED BY <2>1, <2>2, <2>3, <2>4, TrackerAssumption DEF GoodIndex, Compacted
<1>4. CASE /\ ix.head # 0 /\ ~ (ix.head >= Len(ix.order))
           /\ ~ (ix.head > orderCompactMinPrefix /\ ix.head * 2 >= Len(ix.order))
  BY <1>0, <1>4, TrackerAssumption DEF compactOrder, GoodIndex, InWindow, Compacted
<1> QED BY <1>1, <1>2, <1>3, <1>4

\* advanceLowWater drops only tags that are not pending.
LEMMA AdvanceKeepsPending ==
  ASSUME NEW ix, GoodIndex(ix), NEW pend
  PROVE  /\ GoodIndex(advanceLowWater(ix, pend))
         /\ \A t \in pend : InWindow(ix, t) => InWindow(advanceLowWater(ix, pend), t)
         /\ Compacted(advanceLowWater(ix, pend))
<1> DEFINE w == Walk(ix.order, ix.head, Tags \ pend)
           iw == [ix EXCEPT !.head = w]
<1>0. ix \in Index /\ ix.order \in Seq(Tags) /\ ix.head \in 0..Len(ix.order)
  BY DEF GoodIndex, Index
<1>1. /\ w \in ix.head..Len(ix.order)
      /\ \A k \in (ix.head + 1)..w : ix.order[k] \in Tags \ pend
  BY <1>0, WalkStops
<1> HIDE DEF w
<1>2. iw.order = ix.order /\ iw.head = w /\ GoodIndex(iw)
  BY <1>0, <1>1 DEF GoodIndex, Index
<1>3. ASSUME NEW t \in pend, InWindow(ix, t) PROVE InWindow(iw, t)
  <2>1. PICK k \in (ix.head + 1)..Len(ix.order) : ix.order[k] = t
    BY <1>3 DEF InWindow
  <2>2. k > w
    BY <1>0, <1>1, <2>1
  <2> QED BY <1>0, <1>1, <1>2, <2>1, <2>2 DEF InWindow
<1>4. advanceLowWater(ix, pend) = compactOrder(iw)
  BY DEF advanceLowWater, w
<1> HIDE DEF iw
<1> QED BY <1>2, <1>3, <1>4, CompactKeepsWindow

\* InsertAt puts tag at position idx + 1 and shifts the rest by one.
LEMMA InsertAtElements ==
  ASSUME NEW ord \in Seq(Tags), NEW idx \in 0..Len(ord), NEW tag \in Tags
  PROVE  LET o == InsertAt(ord, idx + 1, tag) IN
         /\ o \in Seq(Tags) /\ Len(o) = Len(ord) + 1
         /\ \A k \in 1..idx : o[k] = ord[k]
         /\ o[idx + 1] = tag
         /\ \A k \in (idx + 2)..(Len(ord) + 1) : o[k] = ord[k - 1]
<1> DEFINE a == SubSeq(ord, 1, (idx + 1) - 1)
           z == SubSeq(ord, idx + 1, Len(ord))
<1>0. Len(ord) \in Nat /\ \A k \in 1..Len(ord) : ord[k] \in Tags
  OBVIOUS
<1>1. /\ a \in Seq(Tags) /\ Len(a) = idx
      /\ \A k \in 1..idx : a[k] = ord[k]
  <2>1. /\ a \in Seq(Tags)
        /\ Len(a) = IF 1 <= (idx + 1) - 1 THEN ((idx + 1) - 1) - 1 + 1 ELSE 0
        /\ \A k \in 1..(((idx + 1) - 1) - 1 + 1) : a[k] = ord[1 + k - 1]
    BY <1>0, SubSeqProperties
  <2> QED BY <2>1
<1>2. /\ z \in Seq(Tags) /\ Len(z) = Len(ord) - idx
      /\ \A k \in 1..(Len(ord) - idx) : z[k] = ord[idx + k]
  <2>1. /\ z \in Seq(Tags)
        /\ Len(z) = IF idx + 1 <= Len(ord) THEN Len(ord) - (idx + 1) + 1 ELSE 0
        /\ \A k \in 1..(Len(ord) - (idx + 1) + 1) : z[k] = ord[(idx + 1) + k - 1]
    BY <1>0, SubSeqProperties
  <2> QED BY <1>0, <2>1
<1> HIDE DEF a, z
<1>3. /\ <<tag>> \in Seq(Tags) /\ Len(<<tag>>) = 1 /\ <<tag>>[1] = tag
  OBVIOUS
<1>4. /\ a \o <<tag>> \in Seq(Tags) /\ Len(a \o <<tag>>) = idx + 1
      /\ \A k \in 1..(idx + 1) :
           (a \o <<tag>>)[k] = IF k <= idx THEN a[k] ELSE <<tag>>[k - idx]
  BY <1>1, <1>3, ConcatProperties
<1> DEFINE b == a \o <<tag>>
<1> HIDE DEF b
<1>5. /\ b \in Seq(Tags) /\ Len(b) = idx + 1 /\ b[idx + 1] = tag
      /\ \A k \in 1..idx : b[k] = ord[k]
  BY <1>1, <1>3, <1>4 DEF b
<1>6. /\ b \o z \in Seq(Tags) /\ Len(b \o z) = (idx + 1) + (Len(ord) - idx)
      /\ \A k \in 1..((idx + 1) + (Len(ord) - idx)) :
           (b \o z)[k] = IF k <= idx + 1 THEN b[k] ELSE z[k - (idx + 1)]
  <2>1. /\ b \o z \in Seq(Tags) /\ Len(b \o z) = Len(b) + Len(z)
        /\ \A k \in 1..(Len(b) + Len(z)) :
             (b \o z)[k] = IF k <= Len(b) THEN b[k] ELSE z[k - Len(b)]
    BY <1>2, <1>5, ConcatProperties
  <2> QED BY <1>2, <1>5, <2>1
<1> DEFINE o == InsertAt(ord, idx + 1, tag)
<1>7. o = b \o z
  BY DEF InsertAt, a, z, b
<1> HIDE DEF o
<1>8. /\ o \in Seq(Tags) /\ Len(o) = Len(ord) + 1
      /\ \A k \in 1..(Len(ord) + 1) : o[k] = IF k <= idx + 1 THEN b[k] ELSE z[k - (idx + 1)]
  <2>1. (idx + 1) + (Len(ord) - idx) = Len(ord) + 1
    BY <1>0
  <2> QED BY <1>6, <1>7, <2>1
<1>9. ASSUME NEW k \in (idx + 2)..(Len(ord) + 1) PROVE o[k] = ord[k - 1]
  <2>1. k \in 1..(Len(ord) + 1) /\ ~ (k <= idx + 1) /\ k - (idx + 1) \in 1..(Len(ord) - idx)
    BY <1>0
  <2>2. o[k] = z[k - (idx + 1)] /\ z[k - (idx + 1)] = ord[idx + (k - (idx + 1))]
    BY <1>2, <1>8, <2>1
  <2> QED BY <2>2
<1>10. (\A k \in 1..idx : o[k] = ord[k]) /\ o[idx + 1] = tag
  BY <1>0, <1>5, <1>8
<1> QED BY <1>8, <1>9, <1>10 DEF o

CurrentIndex == [order |-> order, head |-> head]

\* orderInsert keeps the index sorted, puts the tag inside the window, and
\* keeps every tag that was there.
LEMMA OrderInsertKeepsWindow ==
  ASSUME GoodIndex(CurrentIndex), NEW tag \in Tags
  PROVE  /\ GoodIndex(orderInsert(tag))
         /\ InWindow(orderInsert(tag), tag)
         /\ \A t : InWindow(CurrentIndex, t) => InWindow(orderInsert(tag), t)
<1>0. /\ order \in Seq(Tags) /\ head \in 0..Len(order) /\ SortedSeq(order)
      /\ Tags \subseteq Nat
  BY TrackerAssumption DEF GoodIndex, CurrentIndex, Index
<1>t. tag \in Nat /\ Len(order) \in Nat /\ \A k \in 1..Len(order) : order[k] \in Nat
  <2>1. Len(order) \in Nat /\ \A k \in 1..Len(order) : order[k] \in Tags
    BY <1>0
  <2> QED BY <1>0, <2>1
<1>s. \A i, j \in 1..Len(order) : i <= j => order[i] <= order[j]
  BY <1>0, <1>t DEF SortedSeq
<1>1. CASE order = <<>> \/ tag > order[Len(order)]
  <2> DEFINE a == Append(order, tag)
  <2>1. /\ a \in Seq(Tags) /\ Len(a) = Len(order) + 1 /\ a[Len(order) + 1] = tag
        /\ \A k \in 1..Len(order) : a[k] = order[k]
    BY <1>0
  <2>2. orderInsert(tag) = [order |-> a, head |-> head]
    BY <1>1 DEF orderInsert
  <2> HIDE DEF a
  <2>3. SortedSeq(a)
    <3> SUFFICES ASSUME NEW i \in 1..Len(a), NEW j \in 1..Len(a), i < j
                 PROVE  a[i] <= a[j]
      BY DEF SortedSeq
    <3>1. CASE j <= Len(order)
      BY <1>0, <2>1, <3>1 DEF SortedSeq
    <3>2. CASE j = Len(order) + 1
      <4>1. i \in 1..Len(order) /\ a[i] = order[i] /\ a[j] = tag /\ Len(order) \in 1..Len(order)
        BY <1>0, <2>1, <3>2
      <4>2. order[i] <= order[Len(order)]
        BY <1>t, <1>s, <4>1
      <4>3. order[i] \in Nat /\ order[Len(order)] \in Nat /\ tag > order[Len(order)]
        BY <1>t, <1>1, <4>1
      <4> QED BY <1>t, <4>1, <4>2, <4>3
    <3> QED BY <1>0, <2>1, <3>1, <3>2
  <2>4. GoodIndex(orderInsert(tag)) /\ InWindow(orderInsert(tag), tag)
    BY <1>0, <2>1, <2>2, <2>3 DEF GoodIndex, InWindow, Index
  <2>5. ASSUME NEW t, InWindow(CurrentIndex, t) PROVE InWindow(orderInsert(tag), t)
    BY <1>0, <2>1, <2>2, <2>5 DEF InWindow, CurrentIndex
  <2> QED BY <2>4, <2>5
<1>2. CASE ~ (order = <<>> \/ tag > order[Len(order)])
  <2> DEFINE below == {u \in Tags : u < tag}
             idx == Walk(order, 0, below)
             o == InsertAt(order, idx + 1, tag)
             h == IF idx < head THEN idx ELSE head
  <2>1. /\ idx \in 0..Len(order)
        /\ \A k \in 1..idx : order[k] \in below
        /\ idx < Len(order) => order[idx + 1] \notin below
    <3>1. 0 \in 0..Len(order)
      BY <1>0
    <3>2. /\ Walk(order, 0, below) \in 0..Len(order)
          /\ \A k \in (0 + 1)..Walk(order, 0, below) : order[k] \in below
          /\ Walk(order, 0, below) < Len(order)
               => order[Walk(order, 0, below) + 1] \notin below
      BY <1>0, <3>1, WalkStops
    <3> QED BY <3>2
  <2>2. orderInsert(tag) = [order |-> o, head |-> h]
    BY <1>2 DEF orderInsert
  <2> HIDE DEF idx
  <2>3. /\ o \in Seq(Tags) /\ Len(o) = Len(order) + 1
        /\ \A k \in 1..idx : o[k] = order[k]
        /\ o[idx + 1] = tag
        /\ \A k \in (idx + 2)..(Len(order) + 1) : o[k] = order[k - 1]
    BY <1>0, <2>1, InsertAtElements
  <2> HIDE DEF o
  <2>4. h \in 0..idx /\ h <= head /\ h \in Nat
    <3>1. CASE idx < head
      BY <1>0, <2>1, <3>1
    <3>2. CASE ~ (idx < head)
      BY <1>0, <2>1, <3>2
    <3> QED BY <3>1, <3>2
  <2> HIDE DEF h
  <2>5. ASSUME NEW k \in 1..Len(order), k > idx PROVE tag <= order[k]
    <3>1. idx < Len(order) /\ idx + 1 \in 1..Len(order)
      BY <1>0, <2>1, <2>5
    <3>2. order[idx + 1] \in Tags /\ order[idx + 1] \in Nat /\ order[k] \in Nat
      BY <1>0, <1>t, <3>1, ElementOfSeq
    <3>3. tag <= order[idx + 1]
      BY <1>t, <2>1, <3>1, <3>2
    <3>4. order[idx + 1] <= order[k]
      BY <1>s, <2>1, <2>5, <3>1
    <3> QED BY <1>t, <3>2, <3>3, <3>4
  <2>6. SortedSeq(o)
    <3> SUFFICES ASSUME NEW i \in 1..Len(o), NEW j \in 1..Len(o), i < j
                 PROVE  o[i] <= o[j]
      BY DEF SortedSeq
    <3>0. i \in Nat /\ j \in Nat /\ j <= Len(order) + 1
      BY <1>0, <2>3
    <3>1. CASE j <= idx
      BY <1>0, <2>1, <2>3, <3>0, <3>1 DEF SortedSeq
    <3>2. CASE j = idx + 1
      <4>1. o[j] = tag /\ o[i] = order[i] /\ order[i] \in below
        BY <2>1, <2>3, <3>0, <3>2
      <4>2. i \in 1..Len(order) /\ order[i] < tag
        BY <1>t, <2>1, <3>0, <3>2, <4>1
      <4> QED BY <1>t, <4>1, <4>2
    <3>3. CASE j > idx + 1
      <4>0. j - 1 \in 1..Len(order) /\ j - 1 > idx /\ j \in (idx + 2)..(Len(order) + 1)
        BY <1>0, <2>1, <3>0, <3>3
      <4>1. o[j] = order[j - 1] /\ order[j - 1] \in Nat
        BY <1>t, <2>3, <4>0
      <4>2. CASE i <= idx
        <5>1. o[i] = order[i] /\ i < j - 1 /\ i \in 1..Len(order)
          BY <1>0, <2>1, <2>3, <3>0, <4>0, <4>2
        <5> QED BY <1>0, <4>0, <4>1, <5>1 DEF SortedSeq
      <4>3. CASE i = idx + 1
        BY <2>3, <2>5, <4>0, <4>1, <4>3
      <4>4. CASE i > idx + 1
        <5>1. o[i] = order[i - 1] /\ i - 1 < j - 1 /\ i - 1 \in 1..Len(order)
          BY <1>0, <2>1, <2>3, <3>0, <4>0, <4>4
        <5> QED BY <1>0, <4>0, <4>1, <5>1 DEF SortedSeq
      <4> QED BY <2>1, <3>0, <4>2, <4>3, <4>4
    <3> QED BY <2>1, <3>0, <3>1, <3>2, <3>3
  <2>7. GoodIndex(orderInsert(tag))
    BY <1>0, <2>1, <2>2, <2>3, <2>4, <2>6 DEF GoodIndex, Index
  <2>8. InWindow(orderInsert(tag), tag)
    <3>1. idx + 1 \in (h + 1)..Len(o)
      BY <1>0, <2>1, <2>3, <2>4
    <3> QED BY <2>2, <2>3, <3>1 DEF InWindow
  <2>9. ASSUME NEW t, InWindow(CurrentIndex, t) PROVE InWindow(orderInsert(tag), t)
    <3>1. PICK k \in (head + 1)..Len(order) : order[k] = t
      BY <2>9 DEF InWindow, CurrentIndex
    <3>2. CASE k <= idx
      <4>1. k \in (h + 1)..Len(o) /\ o[k] = t
        BY <1>0, <2>1, <2>3, <2>4, <3>1, <3>2
      <4> QED BY <2>2, <4>1 DEF InWindow
    <3>3. CASE k > idx
      <4>1. k + 1 \in (h + 1)..Len(o) /\ k + 1 \in (idx + 2)..(Len(order) + 1) /\ (k + 1) - 1 = k
        BY <1>0, <2>1, <2>3, <2>4, <3>1, <3>3
      <4>2. o[k + 1] = t
        BY <2>3, <3>1, <4>1
      <4> QED BY <2>2, <4>1, <4>2 DEF InWindow
    <3> QED BY <1>0, <2>1, <3>1, <3>2, <3>3
  <2> QED BY <2>7, <2>8, <2>9
<1> QED BY <1>1, <1>2

(* ------------------------- the inductive invariant --------------------- *)

\* The strengthening: the index is well formed, and ClosedResolvesAll, which
\* LiveWindow needs to tell a resolved tag from a lost one.
IInv == TypeOK /\ Sorted /\ LiveWindow /\ DeadPrefixBounded /\ ClosedResolvesAll

LEMMA IndexOfInvariant ==
  ASSUME IInv
  PROVE  /\ GoodIndex(CurrentIndex)
         /\ \A t \in Tags : Unresolved(t) => InWindow(CurrentIndex, t)
BY DEF IInv, TypeOK, Sorted, LiveWindow, GoodIndex, CurrentIndex, Index, InWindow, SortedSeq

\* The facts about a new index that give the index part of the invariant.
LEMMA InvariantOfIndex ==
  ASSUME NEW ix, GoodIndex(ix), Compacted(ix), SetIndex(ix),
         \A t \in Tags : Unresolved(t)' => InWindow(ix, t)
  PROVE  /\ order' \in Seq(Tags) /\ head' \in 0..Len(order')
         /\ Sorted' /\ LiveWindow' /\ DeadPrefixBounded'
<1>1. order' = ix.order /\ head' = ix.head
  BY DEF SetIndex
<1>2. ix.order \in Seq(Tags) /\ ix.head \in Nat /\ ix.head <= Len(ix.order)
  BY DEF GoodIndex, Index
<1> QED BY <1>1, <1>2
        DEF GoodIndex, Compacted, InWindow, SortedSeq, Sorted, LiveWindow, DeadPrefixBounded

LEMMA InitIInv == Init => IInv
<1> SUFFICES ASSUME Init PROVE IInv
  OBVIOUS
<1>1. order = <<>> /\ Len(order) = 0 /\ head = 0 /\ order \in Seq(Tags)
  BY DEF Init
<1>2. TypeOK
  <2>1. pending \in SUBSET Tags /\ order \in Seq(Tags) /\ closed \in BOOLEAN
    BY <1>1, Zenon DEF Init
  <2>4. head \in 0..Len(order)
    BY <1>1
  <2>2. /\ done \in [Tags -> {"none"} \cup Outcomes]
        /\ call \in [Tags -> CallStates]
    BY DEF Init, CallStates
  <2>3. returned \in [Tags -> BOOLEAN]
    BY DEF Init
  <2> QED BY <2>1, <2>2, <2>3, <2>4 DEF TypeOK
<1>3. Sorted /\ DeadPrefixBounded
  BY <1>1, TrackerAssumption DEF Sorted, DeadPrefixBounded
<1>4. LiveWindow /\ ClosedResolvesAll
  BY DEF Init, LiveWindow, ClosedResolvesAll, Unresolved
<1> QED BY <1>2, <1>3, <1>4 DEF IInv

LEMMA RegisterIInv ==
  ASSUME IInv, NEW tag \in Tags, Register(tag)
  PROVE  IInv'
<1> DEFINE ix == advanceLowWater(orderInsert(tag), pending')
<1>0. TypeOK /\ ClosedResolvesAll
  BY DEF IInv
<1>1. /\ GoodIndex(orderInsert(tag)) /\ InWindow(orderInsert(tag), tag)
      /\ \A t : InWindow(CurrentIndex, t) => InWindow(orderInsert(tag), t)
  BY IndexOfInvariant, OrderInsertKeepsWindow
<1>2. /\ GoodIndex(ix) /\ Compacted(ix)
      /\ \A t \in pending' : InWindow(orderInsert(tag), t) => InWindow(ix, t)
  BY <1>1, AdvanceKeepsPending
<1>3. SetIndex(ix)
  BY DEF Register
<1> HIDE DEF ix
<1>4. ASSUME NEW t \in Tags, Unresolved(t)' PROVE InWindow(ix, t)
  <2>1. t \in pending'
    BY <1>4 DEF Unresolved
  <2>2. CASE t = tag
    BY <1>1, <1>2, <2>1, <2>2
  <2>3. CASE t # tag
    <3>1. Unresolved(t)
      BY <1>0, <1>4, <2>3 DEF Unresolved, Register, TypeOK
    <3> QED BY <1>1, <1>2, <2>1, <3>1, IndexOfInvariant
  <2> QED BY <2>2, <2>3
<1>5. /\ order' \in Seq(Tags) /\ head' \in 0..Len(order')
      /\ Sorted' /\ LiveWindow' /\ DeadPrefixBounded'
  BY <1>2, <1>3, <1>4, InvariantOfIndex
<1>6. TypeOK'
  BY <1>0, <1>5 DEF TypeOK, Register, CallStates
<1>7. ClosedResolvesAll'
  BY <1>0 DEF ClosedResolvesAll, Unresolved, Register, TypeOK
<1> QED BY <1>5, <1>6, <1>7 DEF IInv

\* The tags that a multiple=true walk visits: none above the frame's tag, and
\* no unresolved one at or below it is missed.
LEMMA WalkVisits ==
  ASSUME IInv, NEW tag \in Tags, NEW i, i = Walk(order, head, {u \in Tags : u <= tag})
  PROVE  /\ i \in head..Len(order)
         /\ \A k \in (head + 1)..i : order[k] \in Tags /\ order[k] <= tag
         /\ \A t \in Tags : Unresolved(t) /\ t <= tag
                              => t \in {order[k] : k \in (head + 1)..i}
<1> DEFINE upTo == {u \in Tags : u <= tag}
<1>0. order \in Seq(Tags) /\ head \in 0..Len(order) /\ Len(order) \in Nat /\ Tags \subseteq Nat
  BY TrackerAssumption DEF IInv, TypeOK
<1>1. /\ i \in head..Len(order)
      /\ \A k \in (head + 1)..i : order[k] \in upTo
      /\ i < Len(order) => order[i + 1] \notin upTo
  BY <1>0, WalkStops
<1>2. ASSUME NEW t \in Tags, Unresolved(t), t <= tag
      PROVE  t \in {order[k] : k \in (head + 1)..i}
  <2>1. PICK k \in (head + 1)..Len(order) : order[k] = t
    BY <1>2 DEF IInv, LiveWindow
  <2>2. CASE k <= i
    <3>1. k \in (head + 1)..i
      BY <1>0, <1>1, <2>2
    <3> QED BY <2>1, <3>1
  <2>3. CASE k > i
    <3>1. i < Len(order) /\ i + 1 \in 1..Len(order) /\ k \in 1..Len(order) /\ i + 1 <= k
      BY <1>0, <1>1, <2>1, <2>3
    <3>2. order[i + 1] \in Tags /\ order[i + 1] \in Nat /\ order[k] \in Nat
      BY <1>0, <3>1, ElementOfSeq
    <3>3. order[i + 1] <= order[k]
      BY <3>1, <3>2 DEF IInv, Sorted
    <3>4. order[i + 1] <= tag
      BY <1>0, <1>2, <2>1, <3>2, <3>3
    <3> QED BY <1>1, <3>1, <3>2, <3>4
  <2> QED BY <1>0, <1>1, <2>1, <2>2, <2>3
<1> QED BY <1>1, <1>2

LEMMA ConfirmIInv ==
  ASSUME IInv, NEW tag \in Tags, NEW multiple \in BOOLEAN, NEW base \in {"ack", "nacked"},
         Confirm(tag, multiple, base)
  PROVE  IInv'
<1>0. /\ TypeOK /\ Sorted /\ LiveWindow /\ DeadPrefixBounded /\ ClosedResolvesAll
      /\ UNCHANGED <<pending, returned, closed, call>>
  BY DEF IInv, Confirm
<1>1. ASSUME NEW S, resolveAll(S, base)
      PROVE  /\ done' \in [Tags -> {"none"} \cup Outcomes]
             /\ \A t \in Tags : Unresolved(t)' => Unresolved(t) /\ t \notin S
             /\ ClosedResolvesAll'
  <2>1. done' \in [Tags -> {"none"} \cup Outcomes]
    BY <1>0, <1>1 DEF TypeOK, resolveAll, Outcomes
  <2>2. \A t \in Tags : done[t] # "none" => done'[t] = done[t]
    BY <1>1 DEF resolveAll
  <2>3. \A t \in S \cap pending : done'[t] # "none"
    BY <1>0, <1>1 DEF resolveAll, TypeOK
  <2>4. \A t \in Tags : Unresolved(t)' => Unresolved(t) /\ t \notin S
    BY <1>0, <2>2, <2>3 DEF Unresolved
  <2>5. ClosedResolvesAll'
    BY <1>0, <2>2, <2>4 DEF ClosedResolvesAll
  <2> QED BY <2>1, <2>4, <2>5
<1>2. CASE ~multiple
  <2>1. resolveAll({tag}, base) /\ UNCHANGED <<order, head>>
    BY <1>2 DEF Confirm
  <2>2. TypeOK' /\ ClosedResolvesAll' /\ \A t \in Tags : Unresolved(t)' => Unresolved(t)
    BY <1>0, <1>1, <2>1 DEF TypeOK
  <2>3. Sorted' /\ LiveWindow' /\ DeadPrefixBounded'
    BY <1>0, <2>1, <2>2 DEF Sorted, LiveWindow, DeadPrefixBounded
  <2> QED BY <2>2, <2>3 DEF IInv
<1>3. CASE multiple
  <2> DEFINE i == Walk(order, head, {u \in Tags : u <= tag})
             visited == {order[k] : k \in (head + 1)..i}
             ix == [order |-> order, head |-> i]
             jx == advanceLowWater(ix, pending)
  <2>1. resolveAll(visited, base) /\ SetIndex(jx)
    BY <1>3 DEF Confirm, resolveUpTo
  <2>2. i \in head..Len(order) /\ head \in Nat /\ Len(order) \in Nat
    BY <1>0, WalkVisits DEF TypeOK
  <2>3. GoodIndex(ix)
    BY <1>0, <2>2 DEF GoodIndex, Index, SortedSeq, Sorted, TypeOK
  <2>4. GoodIndex(jx) /\ Compacted(jx) /\ \A t \in pending : InWindow(ix, t) => InWindow(jx, t)
    BY <2>3, AdvanceKeepsPending
  <2> HIDE DEF jx, i
  <2>5. ASSUME NEW t \in Tags, Unresolved(t)' PROVE InWindow(jx, t)
    <3>1. Unresolved(t) /\ t \notin visited /\ t \in pending
      BY <1>1, <2>1, <2>5 DEF Unresolved
    <3>2. PICK k \in (head + 1)..Len(order) : order[k] = t
      BY <1>0, <3>1 DEF LiveWindow
    <3>3. k \in (i + 1)..Len(order)
      BY <2>2, <3>1, <3>2
    <3>4. InWindow(ix, t)
      BY <3>2, <3>3 DEF InWindow
    <3> QED BY <2>4, <3>1, <3>4
  <2>6. /\ order' \in Seq(Tags) /\ head' \in 0..Len(order')
        /\ Sorted' /\ LiveWindow' /\ DeadPrefixBounded'
    BY <2>1, <2>4, <2>5, InvariantOfIndex
  <2>7. TypeOK' /\ ClosedResolvesAll'
    BY <1>0, <1>1, <2>1, <2>6 DEF TypeOK
  <2> QED BY <2>6, <2>7 DEF IInv
<1> QED BY <1>2, <1>3

\* The actions that leave the index alone: it is enough that they make no tag
\* unresolved.
LEMMA SameIndexIInv ==
  ASSUME IInv, UNCHANGED <<order, head>>, TypeOK', ClosedResolvesAll',
         \A t \in Tags : Unresolved(t)' => Unresolved(t)
  PROVE  IInv'
BY DEF IInv, Sorted, LiveWindow, DeadPrefixBounded

LEMMA ForgetIInv ==
  ASSUME IInv, NEW tag \in Tags, Forget(tag)
  PROVE  IInv'
<1>1. TypeOK /\ ClosedResolvesAll
  BY DEF IInv
<1>2. TypeOK'
  BY <1>1 DEF TypeOK, Forget, CallStates
<1>3. \A t \in Tags : Unresolved(t)' => Unresolved(t)
  BY <1>1 DEF TypeOK, Forget, Unresolved
<1>4. ClosedResolvesAll'
  BY <1>1, <1>3 DEF TypeOK, Forget, ClosedResolvesAll
<1> QED BY <1>2, <1>3, <1>4, SameIndexIInv DEF Forget

LEMMA CloseAllIInv ==
  ASSUME IInv, CloseAll
  PROVE  IInv'
<1>1. TypeOK /\ ClosedResolvesAll
  BY DEF IInv
<1>2. TypeOK'
  BY <1>1 DEF TypeOK, CloseAll, Outcomes
<1>3. \A t \in Tags : ~Unresolved(t)'
  BY <1>1 DEF TypeOK, CloseAll, Unresolved
<1>4. ClosedResolvesAll'
  BY <1>1, <1>3 DEF TypeOK, CloseAll, ClosedResolvesAll
<1> QED BY <1>2, <1>3, <1>4, SameIndexIInv DEF CloseAll

\* The steps of Wait before its delete, and MarkReturned.
LEMMA WaitIInv ==
  ASSUME IInv, NEW tag \in Tags,
         WaitLookup(tag) \/ WaitReceive(tag) \/ WaitGiveUp(tag) \/ MarkReturned(tag)
  PROVE  IInv'
<1>1. TypeOK /\ ClosedResolvesAll
  BY DEF IInv
<1>2. TypeOK'
  BY <1>1 DEF TypeOK, WaitLookup, WaitReceive, WaitGiveUp, MarkReturned, CallStates
<1>3. \A t \in Tags : Unresolved(t)' => Unresolved(t)
  BY <1>1 DEF TypeOK, WaitLookup, WaitReceive, WaitGiveUp, MarkReturned, Unresolved
<1>4. ClosedResolvesAll'
  BY <1>1, <1>3
     DEF TypeOK, WaitLookup, WaitReceive, WaitGiveUp, MarkReturned, ClosedResolvesAll
<1> QED BY <1>2, <1>3, <1>4, SameIndexIInv
        DEF WaitLookup, WaitReceive, WaitGiveUp, MarkReturned

LEMMA NextIInv == IInv /\ [Next]_vars => IInv'
<1> SUFFICES ASSUME IInv, [Next]_vars PROVE IInv'
  OBVIOUS
<1>1. ASSUME NEW tag \in Tags, Register(tag) PROVE IInv'
  BY <1>1, RegisterIInv
<1>2. ASSUME NEW tag \in Tags, Cancel(tag) \/ WaitDelete(tag) PROVE IInv'
  BY <1>2, ForgetIInv DEF Cancel, WaitDelete
<1>3. ASSUME NEW tag \in Tags,
             WaitLookup(tag) \/ WaitReceive(tag) \/ WaitGiveUp(tag) \/ MarkReturned(tag)
      PROVE  IInv'
  BY <1>3, WaitIInv
<1>4. ASSUME NEW tag \in Tags, NEW multiple \in BOOLEAN, NEW base \in {"ack", "nacked"},
             Confirm(tag, multiple, base)
      PROVE  IInv'
  BY <1>4, ConfirmIInv
<1>5. CASE CloseAll
  BY <1>5, CloseAllIInv
<1>6. CASE UNCHANGED vars
  BY <1>6 DEF vars, IInv, TypeOK, Sorted, LiveWindow, DeadPrefixBounded,
              ClosedResolvesAll, Unresolved
<1> QED BY <1>1, <1>2, <1>3, <1>4, <1>5, <1>6 DEF Next

\* For any set of tags and any compaction threshold, the tracker of
\* internal/confirms stays type correct, its index stays sorted and compacted,
\* and no unresolved tag ever falls out of the window that resolveUpTo walks.
THEOREM TrackerInvariant == Spec => []IInv
<1>1. Init => IInv
  BY InitIInv
<1>2. IInv /\ [Next]_vars => IInv'
  BY NextIInv
<1> QED BY <1>1, <1>2, PTL DEF Spec

\* The tracker's variables keep their types.
THEOREM TrackerTypeOK == Spec => []TypeOK
BY TrackerInvariant, PTL DEF IInv

\* Whatever the order of registrations, cancels, frames and compactions, an
\* unresolved tag is inside order[head:], so a multiple=true frame reaches it.
THEOREM TrackerLiveWindow == Spec => []LiveWindow
BY TrackerInvariant, PTL DEF IInv

\* The index resolveUpTo and orderInsert search stays sorted.
THEOREM TrackerSorted == Spec => []Sorted
BY TrackerInvariant, PTL DEF IInv

\* compactOrder bounds the dead prefix of the index for every threshold.
THEOREM TrackerDeadPrefix == Spec => []DeadPrefixBounded
BY TrackerInvariant, PTL DEF IInv

\* CloseAll leaves no caller without an outcome.
THEOREM TrackerClosed == Spec => []ClosedResolvesAll
BY TrackerInvariant, PTL DEF IInv

LEMMA OutcomeStep ==
  ASSUME IInv, [Next]_vars, NEW t \in Tags, done[t] # "none"
  PROVE  done'[t] \in {done[t], "none"}
<1>0. TypeOK
  BY DEF IInv
<1>1. ASSUME NEW S, NEW base, resolveAll(S, base) PROVE done'[t] = done[t]
  BY <1>1 DEF resolveAll
<1>2. ASSUME NEW tag \in Tags, Register(tag) PROVE done'[t] \in {done[t], "none"}
  BY <1>0, <1>2 DEF Register, TypeOK
<1>3. ASSUME NEW tag \in Tags, Cancel(tag) \/ WaitDelete(tag)
      PROVE  done'[t] \in {done[t], "none"}
  BY <1>0, <1>3 DEF Cancel, WaitDelete, Forget, TypeOK
<1>4. ASSUME NEW tag \in Tags,
             WaitLookup(tag) \/ WaitReceive(tag) \/ WaitGiveUp(tag) \/ MarkReturned(tag)
      PROVE  done'[t] \in {done[t], "none"}
  BY <1>0, <1>4 DEF WaitLookup, WaitReceive, WaitGiveUp, MarkReturned, TypeOK
<1>5. ASSUME NEW tag \in Tags, NEW multiple \in BOOLEAN, NEW base \in {"ack", "nacked"},
             Confirm(tag, multiple, base)
      PROVE  done'[t] \in {done[t], "none"}
  BY <1>1, <1>5 DEF Confirm, resolveUpTo
<1>6. CASE CloseAll
  BY <1>6 DEF CloseAll
<1>7. CASE UNCHANGED vars
  BY <1>7 DEF vars
<1> QED BY <1>2, <1>3, <1>4, <1>5, <1>6, <1>7 DEF Next

\* No duplicate confirm, sweep or CloseAll replaces an outcome that is already
\* in a waiter's buffer.
THEOREM TrackerFirstOutcome == Spec => FirstOutcomeWins
<1>1. IInv /\ [Next]_vars
        => [\A t \in Tags : done[t] # "none" => done'[t] \in {done[t], "none"}]_vars
  BY OutcomeStep
<1> QED BY <1>1, TrackerInvariant, PTL DEF Spec, FirstOutcomeWins
=============================================================================
