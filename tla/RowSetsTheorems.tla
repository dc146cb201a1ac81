--------------------------- MODULE RowSetsTheorems ---------------------------
(***************************************************************************)
(* What the operators of RowSets do to queues of batches, and the facts    *)
(* about finite sets that more than one module of proofs needs.            *)
(***************************************************************************)
EXTENDS RowSets, SequenceTheorems, FiniteSetTheorems, TLAPS

\* An empty queue carries no row.
LEMMA RowsInEmpty == RowsIn(<<>>) = {}
BY DEF RowsIn

\* A batch queued last adds its rows.
LEMMA RowsInAppend ==
    ASSUME NEW S, NEW queue \in Seq(S), NEW batch \in S
    PROVE  RowsIn(Append(queue, batch)) = RowsIn(queue) \cup batch
<1> DEFINE longer == Append(queue, batch)
<1>1. /\ DOMAIN longer = DOMAIN queue \cup {Len(queue) + 1}
      /\ \A i \in DOMAIN queue : longer[i] = queue[i]
      /\ longer[Len(queue) + 1] = batch
  OBVIOUS
<1> HIDE DEF longer
<1>2. QED  BY <1>1 DEF RowsIn, longer

\* A queue of one batch.
LEMMA RowsInSingle ==
    ASSUME NEW batch
    PROVE  RowsIn(<<batch>>) = batch
BY DEF RowsIn

\* Taking the oldest batch off a queue splits its rows.
LEMMA RowsInTail ==
    ASSUME NEW S, NEW queue \in Seq(S), queue # <<>>
    PROVE  RowsIn(queue) = Head(queue) \cup RowsIn(Tail(queue))
<1> DEFINE tail == Tail(queue)
<1>1. /\ Head(queue) = queue[1]
      /\ Len(queue) \in Nat \ {0}
      /\ DOMAIN queue = 1..Len(queue)
      /\ DOMAIN tail = 1..(Len(queue) - 1)
      /\ \A i \in 1..(Len(queue) - 1) : tail[i] = queue[i + 1]
  BY HeadTailProperties, EmptySeq
<1> HIDE DEF tail
<1>2. \A i \in DOMAIN queue : i # 1 => i - 1 \in DOMAIN tail /\ tail[i - 1] = queue[i]
  BY <1>1
<1>3. \A i \in DOMAIN tail : i + 1 \in DOMAIN queue /\ tail[i] = queue[i + 1]
  BY <1>1
<1>4. 1 \in DOMAIN queue
  BY <1>1
<1>5. RowsIn(queue) \subseteq Head(queue) \cup RowsIn(tail)
  BY <1>1, <1>2 DEF RowsIn
<1>6. Head(queue) \cup RowsIn(tail) \subseteq RowsIn(queue)
  BY <1>1, <1>3, <1>4 DEF RowsIn
<1>7. QED  BY <1>5, <1>6 DEF tail

\* A part of a queue carries some of its rows.
LEMMA RowsInSubSeq ==
    ASSUME NEW S, NEW queue \in Seq(S),
           NEW m \in 1..(Len(queue) + 1), NEW n \in 0..Len(queue)
    PROVE  RowsIn(SubSeq(queue, m, n)) \subseteq RowsIn(queue)
BY DEF RowsIn

\* Both parts of a queue cut in two are queues of its batches.
LEMMA SplitType ==
    ASSUME NEW S, NEW queue \in Seq(S), NEW n \in 0..Len(queue)
    PROVE  /\ SubSeq(queue, 1, n) \in Seq(S)
           /\ SubSeq(queue, n + 1, Len(queue)) \in Seq(S)
           /\ Len(SubSeq(queue, n + 1, Len(queue))) = Len(queue) - n
OBVIOUS

\* Two queues one after the other.
LEMMA RowsInConcat ==
    ASSUME NEW S, NEW front \in Seq(S), NEW back \in Seq(S)
    PROVE  RowsIn(front \o back) = RowsIn(front) \cup RowsIn(back)
<1> DEFINE both == front \o back
<1>1. /\ Len(front) \in Nat /\ DOMAIN front = 1..Len(front)
      /\ Len(back) \in Nat /\ DOMAIN back = 1..Len(back)
      /\ DOMAIN both = 1..(Len(front) + Len(back))
      /\ \A i \in 1..(Len(front) + Len(back)) :
            both[i] = IF i <= Len(front) THEN front[i] ELSE back[i - Len(front)]
  BY ConcatProperties, LenProperties
<1> HIDE DEF both
<1>2. \A i \in DOMAIN front : i \in DOMAIN both /\ both[i] = front[i]
  BY <1>1
<1>3. \A i \in DOMAIN back :
         Len(front) + i \in DOMAIN both /\ both[Len(front) + i] = back[i]
  BY <1>1
<1>4. \A i \in DOMAIN both :
         \/ i \in DOMAIN front /\ both[i] = front[i]
         \/ i - Len(front) \in DOMAIN back /\ both[i] = back[i - Len(front)]
  BY <1>1
<1>5. RowsIn(both) \subseteq RowsIn(front) \cup RowsIn(back)
  BY <1>4 DEF RowsIn
<1>6. RowsIn(front) \cup RowsIn(back) \subseteq RowsIn(both)
  BY <1>2, <1>3 DEF RowsIn
<1>7. QED  BY <1>5, <1>6 DEF both

\* A queue cut in two: no row is lost, none is added.
LEMMA RowsInSplit ==
    ASSUME NEW S, NEW queue \in Seq(S), NEW n \in 0..Len(queue)
    PROVE  RowsIn(queue) = RowsIn(SubSeq(queue, 1, n))
                             \cup RowsIn(SubSeq(queue, n + 1, Len(queue)))
<1> DEFINE front == SubSeq(queue, 1, n)
           back  == SubSeq(queue, n + 1, Len(queue))
<1>1. /\ DOMAIN front = 1..n
      /\ DOMAIN back = 1..(Len(queue) - n)
      /\ \A i \in DOMAIN front : front[i] = queue[i]
      /\ \A i \in DOMAIN back : back[i] = queue[n + i]
  OBVIOUS
<1>2. \A i \in DOMAIN queue : i \in DOMAIN front \/ i - n \in DOMAIN back
  BY <1>1
<1>3. \A i \in DOMAIN queue : i \notin DOMAIN front => queue[i] = back[i - n]
  BY <1>1, <1>2
<1> HIDE DEF front, back
<1>4. QED  BY <1>1, <1>2, <1>3 DEF RowsIn, front, back

-----------------------------------------------------------------------------
\* A younger batch may join an ordered queue.
LEMMA InOrderAppend ==
    ASSUME NEW S, NEW queue \in Seq(S), NEW batch \in S,
           InOrder(queue), Before(RowsIn(queue), batch)
    PROVE  InOrder(Append(queue, batch))
BY DEF InOrder, RowsIn, Before

\* The oldest batch of an ordered queue is older than the rest, and the rest
\* is ordered.
LEMMA InOrderTail ==
    ASSUME NEW S, NEW queue \in Seq(S), queue # <<>>, InOrder(queue)
    PROVE  /\ Before(Head(queue), RowsIn(Tail(queue)))
           /\ InOrder(Tail(queue))
<1> DEFINE tail == Tail(queue)
<1>1. /\ Head(queue) = queue[1] /\ 1 \in DOMAIN queue
      /\ \A i \in DOMAIN tail :
            i \in Nat /\ 1 < i + 1 /\ i + 1 \in DOMAIN queue /\ tail[i] = queue[i + 1]
      /\ \A i, j \in DOMAIN tail : i < j => i + 1 < j + 1
  OBVIOUS
<1> HIDE DEF tail
<1>2. Before(Head(queue), RowsIn(tail))
  BY <1>1 DEF InOrder, RowsIn, Before
<1>3. InOrder(tail)
  BY <1>1 DEF InOrder
<1>4. QED  BY <1>2, <1>3 DEF tail

\* Both parts of an ordered queue are ordered, the first before the second.
LEMMA InOrderSplit ==
    ASSUME NEW S, NEW queue \in Seq(S), NEW n \in 0..Len(queue), InOrder(queue)
    PROVE  /\ InOrder(SubSeq(queue, 1, n))
           /\ InOrder(SubSeq(queue, n + 1, Len(queue)))
           /\ Before(RowsIn(SubSeq(queue, 1, n)),
                     RowsIn(SubSeq(queue, n + 1, Len(queue))))
BY DEF InOrder, RowsIn, Before

-----------------------------------------------------------------------------
(***************************************************************************)
(* Finite sets                                                             *)
(***************************************************************************)
\* A finite set of numbers has a largest one.
LEMMA LargestExists ==
    ASSUME NEW S \in SUBSET Nat, IsFiniteSet(S), S # {}
    PROVE  \E n \in S : \A m \in S : m <= n
<1> DEFINE Above(n) == {m \in S : n < m}
           Rest == {Above(n) : n \in S}
<1>1. Rest \subseteq FiniteSubsetsOf(S)
  <2>1. \A n \in S : IsFiniteSet(Above(n))
    <3> TAKE n \in S
    <3>1. Above(n) \in SUBSET S
      OBVIOUS
    <3>2. QED
      BY <3>1, FS_Subset
  <2>2. QED
    BY <2>1 DEF FiniteSubsetsOf
<1>2. PICK X \in Rest : \A Y \in Rest : ~(<<Y, X>> \in StrictSubsetOrdering(S))
  <2>1. Rest # {}
    OBVIOUS
  <2>2. IsWellFoundedOn(StrictSubsetOrdering(S), FiniteSubsetsOf(S))
    BY FS_StrictSubsetOrderingWellFounded
  <2> HIDE DEF Rest
  <2>3. QED
    BY <1>1, <2>1, <2>2, WFMin
<1>3. PICK n \in S : X = Above(n)
  OBVIOUS
<1>4. \A m \in S : ~(n < m)
  <2> SUFFICES ASSUME NEW m \in S, n < m PROVE FALSE
    OBVIOUS
  <2>1. Above(m) \subseteq Above(n)
    <3>1. \A x, y, z \in Nat : x < y /\ y < z => x < z
      OBVIOUS
    <3>2. QED
      BY <3>1
  <2>2. m \in Above(n) /\ m \notin Above(m)
    OBVIOUS
  <2>3. <<Above(m), Above(n)>> \in StrictSubsetOrdering(S)
    BY <2>1, <2>2 DEF StrictSubsetOrdering
  <2>4. Above(m) \in Rest
    OBVIOUS
  <2> HIDE DEF Above, Rest
  <2>5. QED
    BY <1>2, <1>3, <2>3, <2>4
<1>5. QED
  BY <1>4

\* Numbers one more than a finite set has members are not all in it.
LEMMA FreshNumberExists ==
    ASSUME NEW used, IsFiniteSet(used)
    PROVE  \E n \in 1..(Cardinality(used) + 1) : n \notin used
<1>1. Cardinality(used) \in Nat
  BY FS_CardinalityType
<1> SUFFICES ASSUME 1..(Cardinality(used) + 1) \subseteq used PROVE FALSE
  OBVIOUS
<1>2. Cardinality(1..(Cardinality(used) + 1)) = Cardinality(used) + 1
  BY <1>1, FS_Interval
<1>3. Cardinality(1..(Cardinality(used) + 1)) <= Cardinality(used)
  BY FS_Subset
<1>4. QED
  BY <1>1, <1>2, <1>3

\* A finite set of natural numbers has a smallest one.
LEMMA SmallestExists ==
    ASSUME NEW S \in SUBSET Nat, IsFiniteSet(S), S # {}
    PROVE  \E n \in S : \A m \in S : n <= m
<1>1. PICK top \in S : \A m \in S : m <= top
  BY LargestExists
<1> DEFINE T == {top - n : n \in S}
           flip == [n \in S |-> top - n]
<1>2. T \in SUBSET Nat /\ T # {}
  <2>1. \A a, b \in Nat : a <= b => b - a \in Nat
    OBVIOUS
  <2>2. \A n \in S : top - n \in Nat
    BY <1>1, <2>1
  <2>3. QED
    BY <2>2
<1>3. IsFiniteSet(T)
  <2>1. flip \in Surjection(S, T)
    BY DEF Surjection
  <2>2. QED
    BY <2>1, FS_Surjection
<1>4. \E n \in T : \A m \in T : m <= n
  <2> HIDE DEF T
  <2> QED
    BY <1>2, <1>3, LargestExists
<1>5. PICK n \in S : \A m \in S : top - m <= top - n
  BY <1>4
<1>6. \A m \in S : n <= m
  <2>1. \A a, b, c \in Nat : c - a <= c - b => b <= a
    OBVIOUS
  <2>2. QED
    BY <1>5, <2>1
<1>7. QED
  BY <1>6
=============================================================================
