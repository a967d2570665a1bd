-------------------------- MODULE RingBufferProofs ---------------------------
(***************************************************************************)
(* Theorems about RingBuffer, for every capacity, every counter width and  *)
(* every set of values.                                                    *)
(***************************************************************************)
EXTENDS RingBuffer, TLAPS

\* The constants as the provers use them.
LEMMA Sizes == /\ Capacity \in Nat /\ Capacity >= 1
               /\ WordSize \in Nat /\ Capacity < WordSize
<1>1. PICK k \in 2 .. WordSize : WordSize = k * Capacity
  BY WordAssumption
<1>2. k * Capacity >= 2 * Capacity
  BY CapacityAssumption, WordAssumption
<1> QED
  BY <1>1, <1>2, CapacityAssumption, WordAssumption

LEMMA DistType ==
  ASSUME NEW a \in Counter, NEW b \in Counter
  PROVE  Dist(a, b) \in Counter
BY Sizes DEF Dist, Counter

LEMMA IncType == ASSUME NEW a \in Counter PROVE Inc(a) \in Counter
BY Sizes DEF Inc, Counter

LEMMA PlusType ==
  ASSUME NEW a \in Counter, NEW k \in Counter
  PROVE  Plus(a, k) \in Counter
BY Sizes DEF Plus, Counter

\* A positive multiple of the capacity is at least the capacity.
LEMMA MultipleIsLarge ==
  ASSUME NEW q \in Int, NEW c \in Nat, c >= 1, q * c > 0 PROVE q * c >= c
<1>1. q >= 1
  <2>1. CASE q <= 0
    <3>1. q * c <= 0
      BY <2>1
    <3> QED
      BY <3>1
  <2> QED
    BY <2>1
<1> QED
  BY <1>1

\* Two counter values less than one capacity apart have different slots,
\* also when the counter wraps around between them: the reason the capacity
\* must divide the number of counter values.
LEMMA SlotsDiffer ==
  ASSUME NEW a \in Counter, NEW b \in Counter,
         Dist(a, b) > 0, Dist(a, b) < Capacity
  PROVE  Slot(a) # Slot(b)
<1> SUFFICES ASSUME Slot(a) = Slot(b) PROVE FALSE
  OBVIOUS
<1>1. PICK k \in 2 .. WordSize : WordSize = k * Capacity
  BY WordAssumption
<1> DEFINE qa == a \div Capacity
           qb == b \div Capacity
<1>2. /\ qa \in Int /\ a = qa * Capacity + Slot(a)
      /\ qb \in Int /\ b = qb * Capacity + Slot(b)
  BY Sizes DEF Slot, Counter
<1> HIDE DEF qa, qb
<1>3. CASE a <= b
  <2>1. Dist(a, b) = (qb - qa) * Capacity
    BY <1>2, <1>3, Sizes DEF Dist, Counter, Slot
  <2> QED
    BY <2>1, <1>2, MultipleIsLarge, Sizes
<1>4. CASE a > b
  <2>1. Dist(a, b) = (k + qb - qa) * Capacity
    BY <1>1, <1>2, <1>4, Sizes DEF Dist, Counter, Slot
  <2>2. k + qb - qa \in Int
    BY <1>1, <1>2
  <2> QED
    BY <2>1, <2>2, MultipleIsLarge, Sizes
<1> QED
  BY <1>3, <1>4, Sizes DEF Counter

LEMMA SlotType == ASSUME NEW a \in Counter PROVE Slot(a) \in Slots
BY Sizes DEF Slot, Counter, Slots

THEOREM TypeCorrect == Spec => []TypeOK
<1>1. Init => TypeOK
  BY Sizes DEF Init, TypeOK, Counter
<1>2. TypeOK /\ [Next]_vars => TypeOK'
  <2> SUFFICES ASSUME TypeOK, [Next]_vars PROVE TypeOK'
    OBVIOUS
  <2> USE DEF TypeOK
  <2>1. CASE ProduceRefused
    BY <2>1, Sizes DEF ProduceRefused, consumerVars, Visible, Counter
  <2>2. ASSUME NEW v \in Values, ProduceLoad(v) PROVE TypeOK'
    BY <2>2, Sizes DEF ProduceLoad, consumerVars, Visible, Counter
  <2>3. CASE ProduceWrite
    BY <2>3 DEF ProduceWrite, consumerVars
  <2>4. CASE ProduceStore
    BY <2>4, IncType DEF ProduceStore, consumerVars
  <2>5. CASE ProducerSize
    BY <2>5, DistType DEF ProducerSize, consumerVars, Visible
  <2>6. CASE ConsumeRefused
    BY <2>6, Sizes DEF ConsumeRefused, producerVars, Counter
  <2>7. CASE ConsumeLoad
    BY <2>7, Sizes DEF ConsumeLoad, producerVars, Visible, Counter
  <2>8. CASE ConsumeRead
    BY <2>8, SlotType DEF ConsumeRead, producerVars
  <2>9. CASE ConsumeStore
    BY <2>9, IncType DEF ConsumeStore, producerVars
  <2>10. CASE ConsumerSize
    BY <2>10, DistType DEF ConsumerSize, producerVars, Visible
  <2>11. CASE UNCHANGED vars
    BY <2>11 DEF vars, producerVars, consumerVars
  <2> QED
    BY <2>1, <2>2, <2>3, <2>4, <2>5, <2>6, <2>7, <2>8, <2>9, <2>10, <2>11
    DEF Next, Producer, Consumer
<1> QED
  BY <1>1, <1>2, PTL DEF Spec

\* The inductive invariant.  To the order of the four counters it adds what
\* the result of rb_size says of the counters it was computed from.
IInv ==
  /\ TypeOK
  /\ Ordered
  /\ pRet = "size" => pSize = Dist(pHead, tail)
  /\ cRet = "size" => cSize = Dist(head, cTail)

LEMMA InitIInv == Init => IInv
BY Sizes DEF Init, IInv, TypeOK, Ordered, Counter, Dist

LEMMA NextIInv == IInv /\ TypeOK' /\ [Next]_vars => IInv'
<1> SUFFICES ASSUME IInv, TypeOK', [Next]_vars PROVE IInv'
  OBVIOUS
<1> USE Sizes DEF IInv, TypeOK, Ordered, Counter, Dist
<1>1. CASE ProduceRefused
  BY <1>1 DEF ProduceRefused, consumerVars, Visible
<1>2. ASSUME NEW v \in Values, ProduceLoad(v) PROVE IInv'
  BY <1>2 DEF ProduceLoad, consumerVars, Visible, IsFull
<1>3. CASE ProduceWrite
  BY <1>3 DEF ProduceWrite, consumerVars
<1>4. CASE ProduceStore
  BY <1>4 DEF ProduceStore, consumerVars, Inc
<1>5. CASE ProducerSize
  BY <1>5 DEF ProducerSize, consumerVars, Visible
<1>6. CASE ConsumeRefused
  BY <1>6 DEF ConsumeRefused, producerVars, Visible
<1>7. CASE ConsumeLoad
  BY <1>7 DEF ConsumeLoad, producerVars, Visible
<1>8. CASE ConsumeRead
  BY <1>8 DEF ConsumeRead, producerVars
<1>9. CASE ConsumeStore
  BY <1>9 DEF ConsumeStore, producerVars, Inc
<1>10. CASE ConsumerSize
  BY <1>10 DEF ConsumerSize, producerVars, Visible
<1>11. CASE UNCHANGED vars
  BY <1>11 DEF vars, producerVars, consumerVars
<1> QED
  BY <1>1, <1>2, <1>3, <1>4, <1>5, <1>6, <1>7, <1>8, <1>9, <1>10, <1>11
  DEF Next, Producer, Consumer

THEOREM IInvHolds == Spec => []IInv
BY InitIInv, NextIInv, TypeCorrect, PTL DEF Spec

THEOREM CountersOrdered == Spec => []Ordered
BY IInvHolds, PTL DEF IInv
------------------------------------------------------------------------------
LEMMA NoRaceOnWrite ==
  ASSUME IInv, pPC = "write", NEW s \in UnorderedReads
  PROVE  Slot(s) # Slot(tail)
<1> USE DEF IInv, TypeOK, Ordered
<1>1. /\ s \in Counter
      /\ Dist(s, tail) > 0
      /\ Dist(s, tail) < Capacity
  <2>1. CASE s = head /\ cPC # "idle"
    BY <2>1, Sizes DEF Dist, Counter
  <2>2. CASE \E k \in 0 .. Dist(pHead, head) - 1 : s = Plus(pHead, k)
    BY <2>2, Sizes DEF Dist, Counter, Plus
  <2> QED
    BY <2>1, <2>2 DEF UnorderedReads
<1> QED
  BY <1>1, SlotsDiffer

LEMMA NoRaceOnRead ==
  ASSUME IInv, cPC = "read", NEW s \in UnorderedWrites
  PROVE  Slot(s) # Slot(head)
<1> USE DEF IInv, TypeOK, Ordered
<1>1. /\ s \in Counter
      /\ Dist(head, s) > 0
      /\ Dist(head, s) < Capacity
  <2>1. CASE s = tail /\ pPC # "idle"
    BY <2>1, Sizes DEF Dist, Counter
  <2>2. CASE \E k \in 0 .. Dist(cTail, tail) - 1 : s = Plus(cTail, k)
    BY <2>2, Sizes DEF Dist, Counter, Plus
  <2> QED
    BY <2>1, <2>2 DEF UnorderedWrites
<1> QED
  BY <1>1, SlotsDiffer

\* No execution has a data race on a slot.
THEOREM RaceFreedom == Spec => []NoDataRace
<1>1. IInv => NoDataRace
  BY NoRaceOnWrite, NoRaceOnRead DEF NoDataRace
<1> QED
  BY <1>1, IInvHolds, PTL

\* rb_size errs on the safe side on either thread.
THEOREM SizeCorrect == Spec => []SizeIsConservative
<1>1. IInv => SizeIsConservative
  BY Sizes DEF IInv, TypeOK, Ordered, SizeIsConservative, Dist, Counter
<1> QED
  BY <1>1, IInvHolds, PTL

\* What rb_is_full and rb_is_empty said stays good for the next call.
THEOREM PollCorrect == Spec => PollIsHonoured
<1>1. IInv /\ [Next]_vars
        => [ /\ pRet = "size" /\ pSize # Capacity => pRet' # "full"
             /\ cRet = "size" /\ cSize # 0 => cRet' # "empty" ]_vars
  <2> SUFFICES ASSUME IInv, [Next]_vars
               PROVE  /\ pRet = "size" /\ pSize # Capacity => pRet' # "full"
                      /\ cRet = "size" /\ cSize # 0 => cRet' # "empty"
    OBVIOUS
  <2> USE Sizes DEF IInv, TypeOK, Ordered, Counter, Dist
  <2>1. CASE ProduceRefused
    BY <2>1 DEF ProduceRefused, consumerVars, Visible, IsFull
  <2>2. CASE ConsumeRefused
    BY <2>2 DEF ConsumeRefused, producerVars, Visible
  <2>3. CASE [Next]_vars /\ ~ProduceRefused /\ ~ConsumeRefused
    BY <2>3 DEF Next, Producer, Consumer, ProduceLoad, ProduceWrite,
         ProduceStore, ProducerSize, ConsumeLoad, ConsumeRead, ConsumeStore,
         ConsumerSize, vars, producerVars, consumerVars
  <2> QED
    BY <2>1, <2>2, <2>3
<1> QED
  BY <1>1, IInvHolds, PTL DEF Spec, PollIsHonoured
------------------------------------------------------------------------------
\* The refinement.  A value is in the abstract queue from the store of tail to
\* the read of its slot.  Ghost-free: what is needed besides IInv is that the
\* value just written is still in its slot when tail is stored.
Written == pPC = "store" => buf[Slot(tail)] = pVal

LEMMA InitWritten == Init => Written
BY DEF Init, Written

LEMMA NextWritten == IInv /\ Written /\ [Next]_vars => Written'
<1> SUFFICES ASSUME IInv, Written, [Next]_vars PROVE Written'
  OBVIOUS
<1> USE DEF Written, IInv, TypeOK
<1>1. CASE ProduceWrite
  BY <1>1, SlotType DEF ProduceWrite
<1>2. CASE [Next]_vars /\ ~ProduceWrite
  BY <1>2 DEF Next, Producer, Consumer, ProduceRefused, ProduceLoad,
       ProduceStore, ProducerSize, ConsumeRefused, ConsumeLoad, ConsumeRead,
       ConsumeStore, ConsumerSize, vars, producerVars, consumerVars
<1> QED
  BY <1>1, <1>2

\* The counters of unread values, and how far tail is ahead of each.
LEMMA UnreadCounters ==
  ASSUME IInv
  PROVE  /\ FirstUnread \in Counter
         /\ Dist(FirstUnread, tail) \in 0 .. Capacity
         /\ pPC # "idle" => Dist(FirstUnread, tail) < Capacity
         /\ \A i \in 1 .. Dist(FirstUnread, tail) :
              /\ Plus(FirstUnread, i - 1) \in Counter
              /\ Dist(Plus(FirstUnread, i - 1), tail)
                   = Dist(FirstUnread, tail) - (i - 1)
BY Sizes DEF IInv, TypeOK, Ordered, FirstUnread, Dist, Inc, Plus, Counter

LEMMA UnreadType ==
  ASSUME IInv
  PROVE  /\ Unread \in Seq(Values \cup {Junk})
         /\ Len(Unread) = Dist(FirstUnread, tail)
<1>1. \A i \in 1 .. Dist(FirstUnread, tail) :
        buf[Slot(Plus(FirstUnread, i - 1))] \in Values \cup {Junk}
  BY UnreadCounters, SlotType DEF IInv, TypeOK
<1>2. Dist(FirstUnread, tail) \in Nat
  BY UnreadCounters, Sizes
<1> QED
  BY <1>1, <1>2 DEF Unread

\* A write does not touch the slot of an unread value.
LEMMA WriteStutters ==
  ASSUME IInv, ProduceWrite
  PROVE  Unread' = Unread /\ cOut' = cOut /\ given' = given
<1>1. /\ FirstUnread' = FirstUnread /\ tail' = tail
      /\ cOut' = cOut /\ given' = given
  BY DEF ProduceWrite, consumerVars, FirstUnread
<1>2. ASSUME NEW i \in 1 .. Dist(FirstUnread, tail)
      PROVE  buf'[Slot(Plus(FirstUnread, i - 1))]
               = buf[Slot(Plus(FirstUnread, i - 1))]
  <2>1. Slot(Plus(FirstUnread, i - 1)) # Slot(tail)
    BY UnreadCounters, SlotsDiffer, Sizes DEF ProduceWrite, IInv, TypeOK
  <2>2. Slot(Plus(FirstUnread, i - 1)) \in Slots
    BY UnreadCounters, SlotType
  <2> QED
    BY <2>1, <2>2 DEF ProduceWrite, IInv, TypeOK
<1> QED
  BY <1>1, <1>2 DEF Unread

LEMMA StorePuts ==
  ASSUME IInv, Written, ProduceStore, pVal \in Values
  PROVE  \E v \in Values : FIFO!Put(v)
<1>1. /\ FirstUnread' = FirstUnread /\ buf' = buf /\ cOut' = cOut
      /\ tail' = Inc(tail) /\ given' = pVal
  BY DEF ProduceStore, consumerVars, FirstUnread
<1>2. Dist(FirstUnread, tail) < Capacity
  BY UnreadCounters DEF ProduceStore
<1>3. /\ Dist(FirstUnread, Inc(tail)) = Dist(FirstUnread, tail) + 1
      /\ Plus(FirstUnread, Dist(FirstUnread, tail)) = tail
  BY <1>2, UnreadCounters, Sizes
  DEF IInv, TypeOK, Dist, Inc, Plus, Counter
<1>4. buf[Slot(tail)] = pVal
  BY DEF ProduceStore, Written
<1>5. Unread' = [i \in 1 .. Dist(FirstUnread, tail) + 1 |->
                   buf[Slot(Plus(FirstUnread, i - 1))]]
  BY <1>1, <1>3 DEF Unread
<1>6. Unread' = Append(Unread, pVal)
  <2> DEFINE n == Dist(FirstUnread, tail)
             f(i) == buf[Slot(Plus(FirstUnread, i - 1))]
  <2>1. n \in Nat
    BY UnreadCounters, Sizes
  <2>2. f(n + 1) = pVal
    BY <1>3, <1>4, <2>1
  <2>3. Unread = [i \in 1 .. n |-> f(i)] /\ Unread' = [i \in 1 .. n + 1 |-> f(i)]
    BY <1>5 DEF Unread
  <2> HIDE DEF n, f
  <2> QED
    BY <2>1, <2>2, <2>3
<1> QED
  BY <1>1, <1>2, <1>6, UnreadType DEF FIFO!Put

LEMMA ReadTakes == ASSUME IInv, ConsumeRead PROVE FIFO!Take
<1>1. /\ FirstUnread = head /\ FirstUnread' = Inc(head)
      /\ tail' = tail /\ buf' = buf /\ cOut' = buf[Slot(head)]
      /\ given' = given
  BY DEF ConsumeRead, producerVars, FirstUnread
<1>2. /\ Dist(head, tail) \in Nat /\ Dist(head, tail) >= 1
      /\ Dist(Inc(head), tail) = Dist(head, tail) - 1
      /\ \A i \in 1 .. Dist(head, tail) - 1 :
           Plus(Inc(head), i - 1) = Plus(head, i)
      /\ Plus(head, 0) = head
  BY Sizes DEF ConsumeRead, IInv, TypeOK, Ordered, Dist, Inc, Plus, Counter
<1> DEFINE n == Dist(head, tail)
           f(i) == buf[Slot(Plus(head, i - 1))]
<1>3. Unread = [i \in 1 .. n |-> f(i)]
  BY <1>1 DEF Unread
<1>4. Unread' = [i \in 1 .. n - 1 |-> f(i + 1)]
  <2>1. Unread' = [i \in 1 .. n - 1 |-> buf[Slot(Plus(Inc(head), i - 1))]]
    BY <1>1, <1>2 DEF Unread
  <2>2. \A i \in 1 .. n - 1 : buf[Slot(Plus(Inc(head), i - 1))] = f(i + 1)
    BY <1>2
  <2> QED
    BY <2>1, <2>2
<1>5. f(1) = cOut'
  BY <1>1, <1>2
<1>6. n \in Nat /\ n >= 1
  BY <1>2
<1>7. Unread # <<>> /\ Head(Unread) = cOut' /\ Tail(Unread) = Unread'
  <2> HIDE DEF n, f
  <2> QED
    BY <1>3, <1>4, <1>5, <1>6
<1> QED
  BY <1>1, <1>7 DEF FIFO!Take

\* The argument of a call in progress is a value, never junk.
ArgOK == pPC # "idle" => pVal \in Values

LEMMA ArgHolds == Spec => []ArgOK
<1>1. Init => ArgOK
  BY DEF Init, ArgOK
<1>2. ArgOK /\ [Next]_vars => ArgOK'
  BY DEF ArgOK, Next, Producer, Consumer, ProduceRefused, ProduceLoad,
       ProduceWrite, ProduceStore, ProducerSize, ConsumeRefused, ConsumeLoad,
       ConsumeRead, ConsumeStore, ConsumerSize, vars, producerVars, consumerVars
<1> QED
  BY <1>1, <1>2, PTL DEF Spec

\* Every step of the ring is a step of the queue or leaves it unchanged.
LEMMA StepSimulation ==
  ASSUME IInv, Written, ArgOK, [Next]_vars PROVE [FIFO!Next]_(FIFO!fifoVars)
<1> USE DEF FIFO!Next, FIFO!fifoVars
<1>1. CASE ProduceWrite
  BY <1>1, WriteStutters
<1>2. CASE ProduceStore
  BY <1>2, StorePuts DEF ArgOK, ProduceStore
<1>3. CASE ConsumeRead
  BY <1>3, ReadTakes
<1>4. CASE ConsumeStore
  <2>1. FirstUnread' = FirstUnread
    BY <1>4 DEF ConsumeStore, FirstUnread
  <2> QED
    BY <1>4, <2>1 DEF ConsumeStore, producerVars, Unread
<1>5. CASE /\ [Next]_vars
           /\ ~ProduceWrite /\ ~ProduceStore /\ ~ConsumeRead /\ ~ConsumeStore
  <2>1. /\ buf' = buf /\ tail' = tail /\ cOut' = cOut
        /\ given' = given /\ FirstUnread' = FirstUnread
    BY <1>5 DEF Next, Producer, Consumer, ProduceRefused, ProduceLoad,
         ProducerSize, ConsumeRefused, ConsumeLoad, ConsumerSize, vars,
         producerVars, consumerVars, FirstUnread
  <2> QED
    BY <2>1 DEF Unread
<1> QED
  BY <1>1, <1>2, <1>3, <1>4, <1>5

\* The ring implements the bounded queue, for every capacity and word size.
THEOREM Refinement == Spec => ImplementsFIFO
<1>1. Init => FIFO!Init
  BY Sizes DEF Init, FIFO!Init, Unread, FirstUnread, Dist
<1>2. Spec => []Written
  BY InitWritten, NextWritten, IInvHolds, PTL DEF Spec
<1>3. IInv /\ Written /\ ArgOK /\ [Next]_vars => [FIFO!Next]_(FIFO!fifoVars)
  BY StepSimulation
<1> QED
  BY <1>1, <1>2, <1>3, IInvHolds, ArgHolds, PTL
  DEF Spec, ImplementsFIFO, FIFO!Spec
==============================================================================
