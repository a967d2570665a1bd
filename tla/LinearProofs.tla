--------------------------- MODULE LinearProofs ---------------------------
(***************************************************************************)
(* The queue, the deque and the circular list with its LRU cache refine a  *)
(* sequence, for every capacity and set of values: the indices of the two  *)
(* arrays, which wrap around separately, always delimit the size items     *)
(* between them, and the links of the list always thread the nodes that    *)
(* are allocated, each once.                                               *)
(***************************************************************************)
EXTENDS Deque, NaturalOrder, FiniteSetTheorems, SequenceTheorems, TLAPS

Abstract == INSTANCE Sequence WITH items <- Items

Slots == 0 .. Capacity - 1

Typed ==
  /\ data \in [Slots -> Vals \cup {0}]
  /\ front \in Slots
  /\ back \in -1 .. Capacity - 1
  /\ size \in 0 .. Capacity

\* back is the index of the last item, up to a turn of the array.
IndicesAgree == front + size - 1 - back \in {-Capacity, 0, Capacity}

IInv == Typed /\ IndicesAgree

\* An index at most one turn past the array is brought back by a subtraction.
LEMMA Reduced ==
  ASSUME NEW c \in Nat \ {0}, NEW i \in 0 .. 2 * c - 1
  PROVE  i % c = IF i < c THEN i ELSE i - c
<1>1. CASE i < c
  BY <1>1
<1>2. CASE i >= c
  <2>1. i - c \in 0 .. c - 1
    BY <1>2
  <2>2. (i - c) % c = i - c
    BY <2>1
  <2>3. i % c = (i - c) % c
    BY <1>2, <2>1
  <2> QED
    BY <1>2, <2>2, <2>3
<1> QED
  BY <1>1, <1>2

\* deque_create is called with room for at least one item.
Positive == Capacity \in Nat \ {0}

\* Where Up and Down lead, without the modulus.
LEMMA UpOf ==
  ASSUME Positive, NEW i \in -1 .. Capacity - 1
  PROVE  Up(i) = IF i = Capacity - 1 THEN 0 ELSE i + 1
<1>1. Capacity \in Nat \ {0} /\ i + 1 \in 0 .. 2 * Capacity - 1
  BY DEF Positive
<1>2. (i + 1) % Capacity = IF i + 1 < Capacity THEN i + 1 ELSE i + 1 - Capacity
  BY <1>1, Reduced
<1> QED
  BY <1>1, <1>2 DEF Up

LEMMA DownOf ==
  ASSUME Positive, NEW i \in -1 .. Capacity - 1
  PROVE  Down(i) = IF i = 0 THEN Capacity - 1
                   ELSE IF i > 0 THEN i - 1
                   ELSE IF Capacity = 1 THEN 0 ELSE Capacity - 2
<1> USE DEF Positive
<1>1. CASE i = -1 /\ Capacity = 1
  <2>1. Down(i) = (-1) % 1
    BY <1>1 DEF Down
  <2> QED
    BY <1>1, <2>1
<1>2. CASE ~(i = -1 /\ Capacity = 1)
  <2> DEFINE j == i - 1 + Capacity
  <2>1. j \in 0 .. 2 * Capacity - 1
    BY <1>2
  <2>2. j % Capacity = IF j < Capacity THEN j ELSE j - Capacity
    BY <2>1, Reduced
  <2> QED
    BY <1>2, <2>2 DEF Down
<1> QED
  BY <1>1, <1>2

LEMMA InitIInv == ASSUME Positive, Init PROVE IInv
BY DEF Positive, Init, IInv, Typed, IndicesAgree, Slots

LEMMA NextIInv == ASSUME Positive, IInv, [Next]_vars PROVE IInv'
<1> USE DEF Positive, IInv, Typed, IndicesAgree, Slots
<1>1. ASSUME NEW v \in Vals, PushFront(v) PROVE IInv'
  <2>1. CASE Refuse("push_front", v)
    BY <2>1 DEF Refuse
  <2>2. CASE ~Refuse("push_front", v)
    <3>1. /\ size < Capacity /\ size' = size + 1 /\ back' = back
          /\ front' = IF front = 0 THEN Capacity - 1 ELSE front - 1
      BY <1>1, <2>2, DownOf DEF PushFront
    <3>2. data' \in [Slots -> Vals \cup {0}]
      BY <1>1, <2>2 DEF PushFront
    <3> QED
      BY <3>1, <3>2
  <2> QED
    BY <2>1, <2>2
<1>2. ASSUME NEW v \in Vals, PushBack(v) PROVE IInv'
  <2>1. CASE Refuse("push_back", v)
    BY <2>1 DEF Refuse
  <2>2. CASE ~Refuse("push_back", v)
    <3>1. /\ size < Capacity /\ size' = size + 1 /\ front' = front
          /\ back' = IF back = Capacity - 1 THEN 0 ELSE back + 1
      BY <1>2, <2>2, UpOf DEF PushBack
    <3>2. data' \in [Slots -> Vals \cup {0}]
      BY <1>2, <2>2 DEF PushBack
    <3> QED
      BY <3>1, <3>2
  <2> QED
    BY <2>1, <2>2
<1>3. CASE PopFront
  <2>1. /\ size > 0 /\ size' = size - 1 /\ back' = back /\ data' = data
        /\ front' = IF front = Capacity - 1 THEN 0 ELSE front + 1
    BY <1>3, UpOf DEF PopFront
  <2> QED
    BY <2>1
<1>4. CASE PopBack
  <2>1. /\ size > 0 /\ size' = size - 1 /\ front' = front /\ data' = data
        /\ back' = Down(back)
    BY <1>4 DEF PopBack
  <2>2. back' = IF back = 0 THEN Capacity - 1
                ELSE IF back > 0 THEN back - 1
                ELSE IF Capacity = 1 THEN 0 ELSE Capacity - 2
    BY <2>1, DownOf
  <2> QED
    BY <2>1, <2>2
<1>5. CASE UNCHANGED vars
  BY <1>5 DEF vars
<1> QED
  BY <1>1, <1>2, <1>3, <1>4, <1>5 DEF Next

\* The indices always delimit the items, for every capacity.
THEOREM IndicesHold == ASSUME Positive PROVE Spec => []IInv
<1>1. Init => IInv
  BY InitIInv
<1>2. IInv /\ [Next]_vars => IInv'
  BY NextIInv
<1> QED
  BY <1>1, <1>2, PTL DEF Spec
------------------------------------------------------------------------------
\* The slot of the i-th item.
Slot(i) == (front + i - 1) % Capacity

LEMMA SlotOf ==
  ASSUME Positive, IInv, NEW i \in 1 .. Capacity
  PROVE  /\ Slot(i) \in Slots
         /\ Slot(i) = IF front + i - 1 < Capacity THEN front + i - 1
                      ELSE front + i - 1 - Capacity
<1> DEFINE j == front + i - 1
<1>1. Capacity \in Nat \ {0} /\ j \in 0 .. 2 * Capacity - 1 /\ Slot(i) = j % Capacity
  BY DEF Positive, IInv, Typed, Slots, Slot
<1> HIDE DEF j
<1>2. j % Capacity = IF j < Capacity THEN j ELSE j - Capacity
  BY <1>1, Reduced
<1> QED
  BY <1>1, <1>2 DEF j, Slots, IInv, Typed

LEMMA ItemsType ==
  ASSUME Positive, IInv
  PROVE  /\ Items \in Seq(Vals \cup {0})
         /\ Len(Items) = size
         /\ \A i \in 1 .. size : Items[i] = data[Slot(i)]
<1>1. size \in Nat /\ \A i \in 1 .. size : i \in 1 .. Capacity
  BY DEF IInv, Typed, Positive
<1>2. \A i \in 1 .. size : data[Slot(i)] \in Vals \cup {0}
  BY <1>1, SlotOf DEF IInv, Typed
<1>3. Items = [i \in 1 .. size |-> data[Slot(i)]]
  BY DEF Items, Slot
<1> QED
  BY <1>1, <1>2, <1>3

\* In each lemma on a step the items of the new state are written as those of
\* the old one, by the slot that each comes from.
LEMMA PushBackAppends ==
  ASSUME Positive, IInv, NEW v \in Vals, PushBack(v), size # Capacity
  PROVE  Items' = Append(Items, v)
<1>1. /\ size' = size + 1 /\ front' = front /\ back' = Up(back)
      /\ data' = [data EXCEPT ![back'] = v]
  BY DEF PushBack, Refuse
<1>2. size \in 0 .. Capacity - 1 /\ Capacity \in Nat
  BY DEF IInv, Typed, Positive
<1>3. back' = Slot(size + 1) /\ back' \in Slots
  <2>1. back' = IF back = Capacity - 1 THEN 0 ELSE back + 1
    BY <1>1, UpOf DEF IInv, Typed
  <2>2. size + 1 \in 1 .. Capacity
    BY <1>2
  <2>3. Slot(size + 1) = IF front + size < Capacity THEN front + size
                         ELSE front + size - Capacity
    BY <1>2, <2>2, SlotOf DEF IInv, Typed, Slots
  <2> QED
    BY <1>2, <2>1, <2>3 DEF IInv, Typed, IndicesAgree, Slots
<1>4. \A i \in 1 .. size : data'[Slot(i)] = data[Slot(i)]
  <2> TAKE i \in 1 .. size
  <2>1. i \in 1 .. Capacity /\ size + 1 \in 1 .. Capacity
    BY <1>2
  <2>2. Slot(i) # Slot(size + 1)
    BY <1>2, <2>1, SlotOf DEF IInv, Typed, Slots
  <2>3. Slot(i) \in Slots
    BY <2>1, SlotOf
  <2> QED
    BY <1>1, <1>3, <2>2, <2>3 DEF IInv, Typed
<1>5. data'[Slot(size + 1)] = v
  BY <1>1, <1>3 DEF IInv, Typed
<1> DEFINE n == size
           f(i) == data'[Slot(i)]
<1>6. /\ n \in Nat /\ f(n + 1) = v
      /\ Items = [i \in 1 .. n |-> f(i)]
      /\ Items' = [i \in 1 .. n + 1 |-> f(i)]
  BY <1>1, <1>2, <1>4, <1>5 DEF Items, Slot
<1> HIDE DEF n, f
<1> QED
  BY <1>6

LEMMA PushFrontPrepends ==
  ASSUME Positive, IInv, NEW v \in Vals, PushFront(v), size # Capacity
  PROVE  Items' = <<v>> \o Items
<1>1. /\ size' = size + 1 /\ front' = Down(front) /\ front' \in Slots
      /\ front' = IF front = 0 THEN Capacity - 1 ELSE front - 1
      /\ data' = [data EXCEPT ![front'] = v]
  BY DownOf DEF PushFront, Refuse, IInv, Typed, Slots, Positive
<1>2. size \in 0 .. Capacity - 1 /\ Capacity \in Nat \ {0}
  BY DEF IInv, Typed, Positive
<1>3. \A i \in 1 .. size : data'[Slot(i)] = data[Slot(i)]
  <2> TAKE i \in 1 .. size
  <2>1. i \in 1 .. Capacity
    BY <1>2
  <2>2. Slot(i) # front' /\ Slot(i) \in Slots
    BY <1>1, <1>2, <2>1, SlotOf DEF IInv, Typed, Slots
  <2> QED
    BY <1>1, <2>2 DEF IInv, Typed
<1>4. \A i \in 1 .. size : (front' + (i + 1) - 1) % Capacity = Slot(i)
  <2> TAKE i \in 1 .. size
  <2> DEFINE j == front' + (i + 1) - 1
  <2>1. j \in 0 .. 2 * Capacity - 1 /\ i \in 1 .. Capacity
    BY <1>1, <1>2 DEF Slots
  <2>2. Slot(i) = IF front + i - 1 < Capacity THEN front + i - 1
                  ELSE front + i - 1 - Capacity
    BY <2>1, SlotOf
  <2>3. j = IF front = 0 THEN Capacity - 1 + i ELSE front + i - 1
    BY <1>1, <1>2 DEF IInv, Typed, Slots
  <2> HIDE DEF j
  <2>4. j % Capacity = IF j < Capacity THEN j ELSE j - Capacity
    BY <1>2, <2>1, Reduced
  <2>5. j % Capacity = Slot(i)
    BY <1>2, <2>2, <2>3, <2>4 DEF IInv, Typed, Slots
  <2> QED
    BY <2>5 DEF j
<1>5. data'[(front' + 1 - 1) % Capacity] = v
  <2>1. front' % Capacity = front'
    BY <1>1, <1>2 DEF Slots
  <2>2. front' + 1 - 1 = front'
    BY <1>1 DEF Slots
  <2> QED
    BY <1>1, <2>1, <2>2 DEF IInv, Typed
<1> DEFINE n == size
           f(i) == data'[(front' + i - 1) % Capacity]
<1>6. n \in Nat /\ f(1) = v /\ Items' = [i \in 1 .. n + 1 |-> f(i)]
  BY <1>1, <1>2, <1>5 DEF Items
<1>7. Items = [i \in 1 .. n |-> f(i + 1)]
  BY <1>2, <1>3, <1>4 DEF Items, Slot
<1>8. \A i \in 1 .. n : f(i + 1) \in Vals \cup {0}
  <2>1. \A i \in 1 .. n : Items[i] \in Vals \cup {0}
    BY ItemsType, <1>6, ElementOfSeq
  <2> HIDE DEF n, f
  <2> QED
    BY <2>1, <1>6, <1>7
<1> HIDE DEF n, f
<1> QED
  BY <1>6, <1>7, <1>8

LEMMA PopFrontTakes ==
  ASSUME Positive, IInv, PopFront
  PROVE  /\ Items # <<>> /\ Head(Items) = data[front]
         /\ Items' = Tail(Items)
<1>1. /\ size' = size - 1 /\ data' = data
      /\ front' = IF front = Capacity - 1 THEN 0 ELSE front + 1
  BY UpOf DEF PopFront, IInv, Typed, Slots, Positive
<1>2. size \in 1 .. Capacity /\ Capacity \in Nat \ {0} /\ front \in 0 .. Capacity - 1
  BY DEF PopFront, IInv, Typed, Slots, Positive
<1>3. \A i \in 1 .. size - 1 : (front' + i - 1) % Capacity = Slot(i + 1)
  <2> TAKE i \in 1 .. size - 1
  <2> DEFINE j == front' + i - 1
  <2>1. i + 1 \in 1 .. Capacity
    BY <1>2
  <2>2. Slot(i + 1) = IF front + i < Capacity THEN front + i
                      ELSE front + i - Capacity
    BY <1>2, <2>1, SlotOf
  <2>3. /\ j \in 0 .. 2 * Capacity - 1
        /\ j = IF front = Capacity - 1 THEN i - 1 ELSE front + i
    BY <1>1, <1>2
  <2> HIDE DEF j
  <2>4. j % Capacity = IF j < Capacity THEN j ELSE j - Capacity
    BY <1>2, <2>3, Reduced
  <2>5. j % Capacity = Slot(i + 1)
    BY <1>2, <2>2, <2>3, <2>4
  <2> QED
    BY <2>5 DEF j
<1>4. Slot(1) = front
  BY <1>2, SlotOf
<1> DEFINE n == size
           f(i) == data[Slot(i)]
<1>5. n \in Nat /\ n >= 1 /\ f(1) = data[front] /\ Items = [i \in 1 .. n |-> f(i)]
  BY <1>2, <1>4 DEF Items, Slot
<1>6. Items' = [i \in 1 .. n - 1 |-> f(i + 1)]
  BY <1>1, <1>3 DEF Items
<1> HIDE DEF n, f
<1> QED
  BY <1>5, <1>6

LEMMA PopBackTakes ==
  ASSUME Positive, IInv, PopBack
  PROVE  /\ Items # <<>>
         /\ back # -1 => data[back] = Items[Len(Items)]
         /\ Items' = SubSeq(Items, 1, Len(Items) - 1)
<1>1. size' = size - 1 /\ data' = data /\ front' = front
  BY DEF PopBack
<1>2. size \in 1 .. Capacity /\ Capacity \in Nat \ {0} /\ front \in 0 .. Capacity - 1
  BY DEF PopBack, IInv, Typed, Slots, Positive
<1>3. back # -1 => back = Slot(size)
  BY <1>2, SlotOf DEF IInv, Typed, IndicesAgree
<1>4. Len(Items) = size /\ Items[size] = data[Slot(size)]
  BY <1>2, ItemsType
<1> DEFINE n == size
           f(i) == data[Slot(i)]
<1>5. n \in Nat /\ n >= 1 /\ Items = [i \in 1 .. n |-> f(i)]
  BY <1>2 DEF Items, Slot
<1>6. Items' = [i \in 1 .. n - 1 |-> f(i)]
  BY <1>1 DEF Items, Slot
<1>7. Items # <<>> /\ Items' = SubSeq(Items, 1, n - 1)
  <2> HIDE DEF n, f
  <2> QED
    BY <1>5, <1>6
<1> QED
  BY <1>3, <1>4, <1>7
------------------------------------------------------------------------------
\* A step of the deque: that of a sequence, or a pop at the back that takes the
\* last item and may answer another value, back being before the array.
Step ==
  \/ Abstract!Next
  \/ /\ back = -1 /\ call'.op = "pop_back"
     /\ Items' = SubSeq(Items, 1, Len(Items) - 1)

LEMMA StepSimulation ==
  ASSUME Positive, IInv, [Next]_vars PROVE [Step]_(Abstract!vars)
<1> USE DEF Step, Abstract!Next, Abstract!Called, Called
<1>1. ASSUME NEW v \in Vals, PushFront(v) PROVE Abstract!PushFront(v)
  <2>1. CASE size = Capacity
    <3>1. Items' = Items
      BY <1>1, <2>1 DEF PushFront, Refuse, Items
    <3> QED
      BY <1>1, <2>1, <3>1, ItemsType DEF PushFront, Refuse, Abstract!PushFront
  <2>2. CASE size # Capacity
    <3>1. Len(Items) < Capacity
      BY <2>2, ItemsType DEF IInv, Typed, Positive
    <3> QED
      BY <1>1, <2>2, <3>1, PushFrontPrepends DEF PushFront, Refuse, Abstract!PushFront
  <2> QED
    BY <2>1, <2>2
<1>2. ASSUME NEW v \in Vals, PushBack(v) PROVE Abstract!PushBack(v)
  <2>1. CASE size = Capacity
    <3>1. Items' = Items
      BY <1>2, <2>1 DEF PushBack, Refuse, Items
    <3> QED
      BY <1>2, <2>1, <3>1, ItemsType DEF PushBack, Refuse, Abstract!PushBack
  <2>2. CASE size # Capacity
    <3>1. Len(Items) < Capacity
      BY <2>2, ItemsType DEF IInv, Typed, Positive
    <3> QED
      BY <1>2, <2>2, <3>1, PushBackAppends DEF PushBack, Refuse, Abstract!PushBack
  <2> QED
    BY <2>1, <2>2
<1>3. CASE PopFront
  <2>1. Abstract!PopFront
    BY <1>3, PopFrontTakes DEF PopFront, Abstract!PopFront
  <2> QED
    BY <2>1
<1>4. CASE PopBack
  <2>1. CASE back = -1
    BY <1>4, <2>1, PopBackTakes DEF PopBack
  <2>2. CASE back # -1
    <3>1. AtBack = {Items[Len(Items)]}
      BY <1>4, <2>2, PopBackTakes DEF AtBack, IInv, Typed, Slots
    <3>2. Abstract!PopBack
      BY <1>4, <3>1, PopBackTakes DEF PopBack, Abstract!PopBack, Abstract!Front, Abstract!Last
    <3> QED
      BY <3>2
  <2> QED
    BY <2>1, <2>2
<1>5. CASE UNCHANGED vars
  BY <1>5 DEF vars, Items, Abstract!vars
<1> QED
  BY <1>1, <1>2, <1>3, <1>4, <1>5 DEF Next

\* The deque does to its items what the calls do to a sequence, for every
\* capacity and all values, but for the answer of that pop at the back.
THEOREM DequeRefinesSequence ==
  ASSUME Positive PROVE Spec => Abstract!Init /\ [][Step]_(Abstract!vars)
<1>1. Init => Abstract!Init
  BY DEF Init, Abstract!Init, Items
<1>2. IInv /\ [Next]_vars => [Step]_(Abstract!vars)
  BY StepSimulation
<1> QED
  BY <1>1, <1>2, IndicesHold, PTL DEF Spec

------------------------------------------------------------------------------
\* The circular queue: head + size leads to tail, at most one turn round.

VARIABLES fifoData, head, tail, fifoSize, fifoCall

Fifo == INSTANCE Queue WITH data <- fifoData, size <- fifoSize, call <- fifoCall
FifoAbs == INSTANCE Sequence WITH items <- Fifo!Items, call <- fifoCall

FifoInv ==
  /\ fifoData \in [Slots -> Vals \cup {0}] /\ fifoSize \in 0 .. Capacity
  /\ head \in Slots /\ tail \in Slots
  /\ head + fifoSize - tail \in {0, Capacity}

FifoSlot(h, i) == (h + i - 1) % Capacity

LEMMA FifoSlotOf ==
  ASSUME Positive, NEW h \in Slots, NEW i \in 1 .. Capacity
  PROVE  FifoSlot(h, i) = (IF h + i - 1 < Capacity THEN h + i - 1 ELSE h + i - 1 - Capacity) /\ FifoSlot(h, i) \in Slots
<1> DEFINE j == h + i - 1
<1>1. Capacity \in Nat \ {0} /\ h \in 0 .. Capacity - 1 /\ j \in 0 .. 2 * Capacity - 1
  BY DEF Positive, Slots
<1> HIDE DEF j
<1>2. j % Capacity = IF j < Capacity THEN j ELSE j - Capacity
  BY <1>1, Reduced
<1> QED
  BY <1>1, <1>2 DEF Slots, FifoSlot, j

LEMMA FifoItems ==
  ASSUME Positive, FifoInv
  PROVE  /\ Fifo!Items \in Seq(Vals \cup {0}) /\ Len(Fifo!Items) = fifoSize
         /\ \A i \in 1 .. fifoSize : Fifo!Items[i] = fifoData[FifoSlot(head, i)]
<1>1. fifoSize \in Nat /\ \A i \in 1 .. fifoSize : i \in 1 .. Capacity
  BY DEF FifoInv, Positive
<1>2. \A i \in 1 .. fifoSize : fifoData[FifoSlot(head, i)] \in Vals \cup {0}
  BY <1>1, FifoSlotOf DEF FifoInv
<1>3. Fifo!Items = [i \in 1 .. fifoSize |-> fifoData[FifoSlot(head, i)]]
  BY DEF Fifo!Items, FifoSlot
<1> QED
  BY <1>1, <1>2, <1>3

LEMMA EnqueueAppends ==
  ASSUME Positive, FifoInv, NEW v \in Vals, Fifo!Enqueue(v), fifoSize # Capacity
  PROVE  FifoInv' /\ Fifo!Items' = Append(Fifo!Items, v)
<1>1. /\ fifoData' = [fifoData EXCEPT ![tail] = v] /\ tail' = (tail + 1) % Capacity
      /\ fifoSize' = fifoSize + 1 /\ head' = head
  BY DEF Fifo!Enqueue
<1>2. /\ Capacity \in Nat \ {0} /\ head \in Slots /\ head \in 0 .. Capacity - 1 /\ tail \in 0 .. Capacity - 1
      /\ fifoSize \in 0 .. Capacity - 1 /\ fifoData \in [Slots -> Vals \cup {0}] /\ tail \in Slots
      /\ head + fifoSize - tail \in {0, Capacity}
  BY DEF FifoInv, Positive, Slots
<1>3. tail' = IF tail = Capacity - 1 THEN 0 ELSE tail + 1
  <2>1. tail' = Up(tail)
    BY <1>1 DEF Up
  <2> QED
    BY <1>2, <2>1, UpOf
<1>4. FifoInv'
  <2>1. fifoData' \in [Slots -> Vals \cup {0}]
    BY <1>1, <1>2
  <2>2. fifoSize' \in 0 .. Capacity /\ head' \in Slots /\ tail' \in Slots
    BY <1>1, <1>2, <1>3 DEF Slots
  <2>3. head' + fifoSize' - tail' \in {0, Capacity}
    <3>1. CASE tail # Capacity - 1
      BY <1>1, <1>2, <1>3, <3>1
    <3>2. CASE tail = Capacity - 1
      BY <1>1, <1>2, <1>3, <3>2
    <3> QED
      BY <3>1, <3>2
  <2> QED
    BY <2>1, <2>2, <2>3 DEF FifoInv
<1>5. \A i \in 1 .. fifoSize + 1 : FifoSlot(head, i) \in Slots /\ (FifoSlot(head, i) = tail <=> i = fifoSize + 1)
  <2> TAKE i \in 1 .. fifoSize + 1
  <2>1. i \in 1 .. Capacity
    BY <1>2
  <2>2. /\ FifoSlot(head, i) = IF head + i - 1 < Capacity THEN head + i - 1 ELSE head + i - 1 - Capacity
        /\ FifoSlot(head, i) \in Slots
    BY <1>2, <2>1, FifoSlotOf
  <2> QED
    BY <1>2, <2>1, <2>2
<1> DEFINE n == fifoSize
           f(i) == fifoData'[FifoSlot(head, i)]
<1>6. n \in Nat /\ f(n + 1) = v /\ Fifo!Items' = [i \in 1 .. n + 1 |-> f(i)]
  <2>1. Fifo!Items' = [i \in 1 .. n + 1 |-> f(i)]
    BY <1>1 DEF Fifo!Items, FifoSlot
  <2>2. n \in Nat /\ n + 1 \in 1 .. n + 1
    BY <1>2
  <2>3. FifoSlot(head, n + 1) = tail
    BY <1>5, <2>2
  <2> QED
    BY <1>1, <1>2, <2>1, <2>2, <2>3
<1>7. Fifo!Items = [i \in 1 .. n |-> f(i)]
  <2>1. \A i \in 1 .. n : FifoSlot(head, i) \in Slots /\ FifoSlot(head, i) # tail
    BY <1>2, <1>5
  <2>2. \A i \in 1 .. n : f(i) = fifoData[FifoSlot(head, i)]
    BY <1>1, <1>2, <2>1
  <2>3. Fifo!Items = [i \in 1 .. n |-> fifoData[FifoSlot(head, i)]]
    BY DEF Fifo!Items, FifoSlot
  <2> QED
    BY <2>2, <2>3
<1>8. \A i \in 1 .. n : f(i) \in Vals \cup {0}
  <2>1. fifoData' \in [Slots -> Vals \cup {0}]
    BY <1>1, <1>2
  <2>2. \A i \in 1 .. n : i \in 1 .. fifoSize + 1
    BY <1>2
  <2> QED
    BY <1>5, <2>1, <2>2
<1> HIDE DEF n, f
<1>9. Fifo!Items' = Append(Fifo!Items, v)
  BY <1>6, <1>7, <1>8
<1> QED
  BY <1>4, <1>9

LEMMA DequeueTakes ==
  ASSUME Positive, FifoInv, Fifo!Dequeue
  PROVE  /\ FifoInv' /\ Fifo!Items # <<>> /\ Head(Fifo!Items) = fifoData[head]
         /\ Fifo!Items' = Tail(Fifo!Items)
<1>1. /\ fifoData' = fifoData /\ head' = (head + 1) % Capacity
      /\ fifoSize' = fifoSize - 1 /\ tail' = tail /\ fifoSize > 0
  BY DEF Fifo!Dequeue
<1>2. /\ Capacity \in Nat \ {0} /\ head \in Slots /\ head \in 0 .. Capacity - 1 /\ tail \in 0 .. Capacity - 1
      /\ fifoSize \in 1 .. Capacity /\ fifoData \in [Slots -> Vals \cup {0}]
      /\ head + fifoSize - tail \in {0, Capacity}
  BY <1>1 DEF FifoInv, Positive, Slots
<1>3. head' = IF head = Capacity - 1 THEN 0 ELSE head + 1
  <2>1. head' = Up(head)
    BY <1>1 DEF Up
  <2> QED
    BY <1>2, <2>1, UpOf
<1>4. FifoInv'
  <2>2. fifoSize' \in 0 .. Capacity /\ head' \in Slots /\ tail' \in Slots /\ head' + fifoSize' - tail' \in {0, Capacity}
    BY <1>1, <1>2, <1>3 DEF Slots
  <2> QED
    BY <1>1, <1>2, <2>2 DEF FifoInv
<1>5. \A i \in 1 .. fifoSize - 1 : FifoSlot(head', i) = FifoSlot(head, i + 1)
  <2> TAKE i \in 1 .. fifoSize - 1
  <2>1. i + 1 \in 1 .. Capacity /\ i \in 1 .. Capacity
    BY <1>2
  <2>2. FifoSlot(head, i + 1) = IF head + i < Capacity THEN head + i ELSE head + i - Capacity
    BY <1>2, <2>1, FifoSlotOf
  <2>3. head' \in Slots
    BY <1>2, <1>3 DEF Slots
  <2>4. FifoSlot(head', i) = IF head' + i - 1 < Capacity THEN head' + i - 1 ELSE head' + i - 1 - Capacity
    BY <2>1, <2>3, FifoSlotOf
  <2> QED
    BY <1>2, <1>3, <2>2, <2>4
<1>6. FifoSlot(head, 1) = head
  <2>1. 1 \in 1 .. Capacity
    BY <1>2
  <2> QED
    BY <1>2, <2>1, FifoSlotOf
<1> DEFINE n == fifoSize
           f(i) == fifoData[FifoSlot(head, i)]
<1>7. n \in Nat /\ n >= 1 /\ f(1) = fifoData[head] /\ Fifo!Items = [i \in 1 .. n |-> f(i)]
  BY <1>2, <1>6 DEF Fifo!Items, FifoSlot
<1>8. Fifo!Items' = [i \in 1 .. n - 1 |-> f(i + 1)]
  <2>1. Fifo!Items' = [i \in 1 .. n - 1 |-> fifoData[FifoSlot(head', i)]]
    BY <1>1 DEF Fifo!Items, FifoSlot
  <2> QED
    BY <1>5, <2>1
<1> HIDE DEF n, f
<1>9. Fifo!Items # <<>> /\ Head(Fifo!Items) = fifoData[head] /\ Fifo!Items' = Tail(Fifo!Items)
  BY <1>7, <1>8
<1> QED
  BY <1>4, <1>9

LEMMA FifoStarts ==
  ASSUME Positive, Fifo!Init
  PROVE  FifoInv /\ FifoAbs!Init
<1>1. Capacity \in Nat \ {0} /\ fifoData = [s \in Slots |-> 0] /\ head = 0 /\ tail = 0 /\ fifoSize = 0
  BY DEF Positive, Fifo!Init, Slots
<1>2. FifoInv
  BY <1>1 DEF FifoInv, Slots
<1>3. Fifo!Items = <<>>
  BY <1>1 DEF Fifo!Items
<1> QED
  BY <1>2, <1>3 DEF FifoAbs!Init, Fifo!Init

LEMMA FifoSteps ==
  ASSUME Positive, FifoInv, [Fifo!Next]_(Fifo!vars)
  PROVE  FifoInv' /\ [FifoAbs!Next]_(FifoAbs!vars)
<1>1. ASSUME NEW v \in Vals, Fifo!Enqueue(v)
      PROVE  FifoInv' /\ FifoAbs!PushBack(v)
  <2>1. CASE fifoSize = Capacity
    <3>1. UNCHANGED <<fifoData, head, tail, fifoSize>> /\ FifoAbs!Called("push_back", v, 0)
      BY <1>1, <2>1 DEF Fifo!Enqueue, Fifo!Called, FifoAbs!Called
    <3>2. FifoInv' /\ Fifo!Items' = Fifo!Items
      BY <3>1 DEF FifoInv, Fifo!Items
    <3>3. Len(Fifo!Items) = Capacity
      BY <2>1, FifoItems
    <3> QED
      BY <3>1, <3>2, <3>3 DEF FifoAbs!PushBack
  <2>2. CASE fifoSize # Capacity
    <3>1. FifoInv' /\ Fifo!Items' = Append(Fifo!Items, v)
      BY <1>1, <2>2, EnqueueAppends
    <3>2. Len(Fifo!Items) < Capacity
      BY <2>2, FifoItems DEF FifoInv, Positive
    <3>3. FifoAbs!Called("push_back", v, 1)
      BY <1>1, <2>2 DEF Fifo!Enqueue, Fifo!Called, FifoAbs!Called
    <3> QED
      BY <3>1, <3>2, <3>3 DEF FifoAbs!PushBack
  <2> QED
    BY <2>1, <2>2
<1>2. CASE Fifo!Dequeue
  <2>1. /\ FifoInv' /\ Fifo!Items # <<>> /\ Head(Fifo!Items) = fifoData[head]
        /\ Fifo!Items' = Tail(Fifo!Items)
    BY <1>2, DequeueTakes
  <2>2. FifoAbs!Called("pop_front", 0, Head(Fifo!Items))
    BY <1>2, <2>1 DEF Fifo!Dequeue, Fifo!Called, FifoAbs!Called
  <2>3. FifoAbs!PopFront
    BY <2>1, <2>2 DEF FifoAbs!PopFront
  <2> QED
    BY <2>1, <2>3 DEF FifoAbs!Next
<1>3. CASE UNCHANGED Fifo!vars
  BY <1>3 DEF Fifo!vars, FifoInv, Fifo!Items, FifoAbs!vars
<1>4. ASSUME NEW v \in Vals, Fifo!Enqueue(v)
      PROVE  FifoInv' /\ FifoAbs!Next
  BY <1>1, <1>4 DEF FifoAbs!Next
<1> QED
  BY <1>2, <1>3, <1>4 DEF Fifo!Next

\* The queue does to its items, and answers, what the calls do to a sequence,
\* for every capacity and all values.
THEOREM QueueRefinesSequence ==
  ASSUME Positive PROVE Fifo!Spec => FifoAbs!Spec
<1>1. Fifo!Init => FifoInv /\ FifoAbs!Init
  BY FifoStarts
<1>2. FifoInv /\ [Fifo!Next]_(Fifo!vars) => FifoInv' /\ [FifoAbs!Next]_(FifoAbs!vars)
  BY FifoSteps
<1> QED
  BY <1>1, <1>2, PTL DEF Fifo!Spec, FifoAbs!Spec

------------------------------------------------------------------------------
\* The circular list.  Its nodes in order, p, are what an invariant must give:
\* which nodes they are says how next and prev link them, which nodes are free
\* and what the items are.

CONSTANT MaxNodes

VARIABLES ringNext, ringPrev, ringVal, ringSize, ringCall

Ring == INSTANCE CircularList WITH
  next <- ringNext, prev <- ringPrev, val <- ringVal, size <- ringSize, call <- ringCall

RingNodes == 0 .. MaxNodes
ListNodes == 1 .. MaxNodes

\* Nodes one after the other, each once.
Order(p) == p \in Seq(ListNodes) /\ \A i, j \in 1 .. Len(p) : p[i] = p[j] => i = j

\* The place i of the ring through p: before the first node and after the last
\* one there is the sentinel.
At(p, i) == IF i \in 1 .. Len(p) THEN p[i] ELSE 0

\* nx links the sentinel and the nodes of p into a ring, and pv is its mirror.
Linked(nx, pv, p) ==
  /\ nx \in [RingNodes -> RingNodes] /\ pv \in [RingNodes -> RingNodes] /\ Order(p)
  /\ \A i \in 0 .. Len(p) : nx[At(p, i)] = At(p, i + 1) /\ pv[At(p, i + 1)] = At(p, i)

\* p with n after place j, and p without its place j.
With(p, j, n) == [i \in 1 .. Len(p) + 1 |-> IF i <= j THEN p[i] ELSE IF i = j + 1 THEN n ELSE p[i - 1]]

Without(p, j) == [i \in 1 .. Len(p) - 1 |-> IF i < j THEN p[i] ELSE p[i + 1]]

LEMMA AtFacts ==
  ASSUME MaxNodes \in Nat, NEW p, Order(p)
  PROVE  /\ Len(p) \in Nat
         /\ \A i \in 0 .. Len(p) + 1 : At(p, i) \in RingNodes
         /\ \A i \in 1 .. Len(p) : At(p, i) = p[i] /\ p[i] \in ListNodes /\ p[i] # 0
         /\ At(p, 0) = 0 /\ At(p, Len(p) + 1) = 0
         /\ \A i, j \in 0 .. Len(p) + 1 : i < j /\ At(p, i) = At(p, j) => i = 0 /\ j = Len(p) + 1
<1>1. Len(p) \in Nat /\ p \in Seq(ListNodes) /\ \A i, j \in 1 .. Len(p) : p[i] = p[j] => i = j
  BY DEF Order
<1>2. \A i \in 1 .. Len(p) : At(p, i) = p[i] /\ p[i] \in ListNodes /\ p[i] # 0
  BY <1>1 DEF At, ListNodes
<1>3. At(p, 0) = 0 /\ At(p, Len(p) + 1) = 0
  BY <1>1 DEF At
<1>4. \A i \in 0 .. Len(p) + 1 : i = 0 \/ i = Len(p) + 1 \/ i \in 1 .. Len(p)
  BY <1>1
<1>5. \A i \in 0 .. Len(p) + 1 : At(p, i) \in RingNodes
  <2>1. 0 \in RingNodes /\ ListNodes \subseteq RingNodes
    BY DEF RingNodes, ListNodes
  <2> QED
    BY <1>2, <1>3, <1>4, <2>1
<1>6. ASSUME NEW i \in 0 .. Len(p) + 1, NEW j \in 0 .. Len(p) + 1, i < j, At(p, i) = At(p, j)
      PROVE  i = 0 /\ j = Len(p) + 1
  <2>1. i # Len(p) + 1 /\ j # 0
    BY <1>1, <1>6
  <2>2. ~(i \in 1 .. Len(p) /\ j \in 1 .. Len(p))
    <3>1. i \in 1 .. Len(p) /\ j \in 1 .. Len(p) => i = j
      BY <1>1, <1>2, <1>6
    <3> QED
      BY <1>6, <3>1
  <2> QED
    BY <1>2, <1>3, <1>4, <1>6, <2>1, <2>2
<1> QED
  BY <1>1, <1>2, <1>3, <1>5, <1>6

LEMMA WithFacts ==
  ASSUME MaxNodes \in Nat, NEW p, Order(p), NEW n \in ListNodes, \A i \in 1 .. Len(p) : p[i] # n, NEW j \in 0 .. Len(p)
  PROVE  /\ Order(With(p, j, n)) /\ Len(With(p, j, n)) = Len(p) + 1
         /\ \A i \in 0 .. Len(p) + 2 :
              At(With(p, j, n), i) = IF i <= j THEN At(p, i) ELSE IF i = j + 1 THEN n ELSE At(p, i - 1)
<1> DEFINE k == Len(p)
           q == With(p, j, n)
<1>1. k \in Nat /\ p \in Seq(ListNodes) /\ \A a, b \in 1 .. k : p[a] = p[b] => a = b
  BY DEF Order
<1>2. \A i \in 1 .. k + 1 : /\ i <= j => i \in 1 .. k
                            /\ i > j + 1 => i - 1 \in 1 .. k
                            /\ i <= j \/ i = j + 1 \/ i > j + 1
  BY <1>1
<1>3. \A i \in 1 .. k : p[i] \in ListNodes /\ p[i] # n
  BY <1>1
<1>4. q = [i \in 1 .. k + 1 |-> IF i <= j THEN p[i] ELSE IF i = j + 1 THEN n ELSE p[i - 1]]
  BY DEF With
<1>5. \A i \in 1 .. k + 1 : q[i] \in ListNodes
  <2> HIDE DEF q, k
  <2> SUFFICES ASSUME NEW i \in 1 .. k + 1 PROVE q[i] \in ListNodes
    OBVIOUS
  <2>1. q[i] = IF i <= j THEN p[i] ELSE IF i = j + 1 THEN n ELSE p[i - 1]
    BY <1>4
  <2> QED
    BY <1>1, <1>2, <1>3, <2>1 DEF k
<1>6. q \in Seq(ListNodes) /\ Len(q) = k + 1
  <2> HIDE DEF q, k
  <2> QED
    BY <1>1, <1>4, <1>5
<1>7. ASSUME NEW a \in 1 .. k + 1, NEW b \in 1 .. k + 1, a < b PROVE q[a] # q[b]
  <2> HIDE DEF q, k
  <2>1. /\ q[a] = IF a <= j THEN p[a] ELSE IF a = j + 1 THEN n ELSE p[a - 1]
        /\ q[b] = IF b <= j THEN p[b] ELSE IF b = j + 1 THEN n ELSE p[b - 1]
    BY <1>4
  <2>2. j \in 0 .. k
    BY DEF k
  <2>3. CASE b <= j
    <3>1. a <= j /\ a \in 1 .. k /\ b \in 1 .. k /\ a # b
      BY <1>1, <1>7, <2>2, <2>3
    <3> QED
      BY <1>1, <2>1, <2>3, <3>1
  <2>4. CASE b = j + 1
    <3>1. a <= j /\ a \in 1 .. k /\ ~(b <= j)
      BY <1>1, <1>7, <2>2, <2>4
    <3> QED
      BY <1>3, <2>1, <2>4, <3>1
  <2>5. CASE b > j + 1
    <3>1. b - 1 \in 1 .. k /\ ~(b <= j) /\ b # j + 1
      BY <1>1, <2>2, <2>5
    <3>2. CASE a <= j
      <4>1. a \in 1 .. k /\ a # b - 1
        BY <1>1, <2>2, <2>5, <3>2
      <4> QED
        BY <1>1, <2>1, <3>1, <3>2, <4>1
    <3>3. CASE a = j + 1
      <4>1. ~(a <= j)
        BY <2>2, <3>3
      <4> QED
        BY <1>3, <2>1, <3>1, <3>3, <4>1
    <3>4. CASE a > j + 1
      <4>1. a - 1 \in 1 .. k /\ ~(a <= j) /\ a # j + 1 /\ a - 1 # b - 1
        BY <1>1, <1>7, <2>2, <3>4
      <4> QED
        BY <1>1, <2>1, <3>1, <4>1
    <3> QED
      BY <2>2, <3>2, <3>3, <3>4
  <2> QED
    BY <2>2, <2>3, <2>4, <2>5
<1>8. \A a, b \in 1 .. k + 1 : q[a] = q[b] => a = b
  <2> HIDE DEF q, k
  <2> SUFFICES ASSUME NEW a \in 1 .. k + 1, NEW b \in 1 .. k + 1, a # b PROVE q[a] # q[b]
    OBVIOUS
  <2>1. a < b \/ b < a
    OBVIOUS
  <2> QED
    BY <1>7, <2>1
<1>9. ASSUME NEW i \in 0 .. k + 2
      PROVE  At(q, i) = IF i <= j THEN At(p, i) ELSE IF i = j + 1 THEN n ELSE At(p, i - 1)
  <2>1. i = 0 \/ i = k + 2 \/ i \in 1 .. k + 1
    BY <1>1
  <2>2. At(q, i) = IF i \in 1 .. k + 1 THEN q[i] ELSE 0
    BY <1>6 DEF At
  <2> HIDE DEF q, k
  <2>3. j \in 0 .. k /\ At(p, 0) = 0 /\ At(p, k + 1) = 0 /\ \A a \in 1 .. k : At(p, a) = p[a]
    BY AtFacts DEF k
  <2>4. CASE i = 0
    BY <1>1, <2>2, <2>3, <2>4
  <2>5. CASE i = k + 2
    <3>1. ~(i <= j) /\ i # j + 1 /\ i - 1 = k + 1 /\ i \notin 1 .. k + 1
      BY <1>1, <2>3, <2>5
    <3> QED
      BY <2>2, <2>3, <3>1
  <2>6. CASE i \in 1 .. k + 1
    <3>1. q[i] = IF i <= j THEN p[i] ELSE IF i = j + 1 THEN n ELSE p[i - 1]
      BY <1>4, <2>6
    <3>2. /\ i <= j => At(p, i) = p[i]
          /\ i > j + 1 => At(p, i - 1) = p[i - 1]
          /\ i <= j \/ i = j + 1 \/ i > j + 1
      BY <1>2, <2>3, <2>6
    <3> QED
      BY <2>2, <2>6, <3>1, <3>2
  <2> QED
    BY <2>1, <2>4, <2>5, <2>6
<1> QED
  BY <1>6, <1>8, <1>9 DEF Order

LEMMA WithoutFacts ==
  ASSUME MaxNodes \in Nat, NEW p, Order(p), NEW j \in 1 .. Len(p)
  PROVE  /\ Order(Without(p, j)) /\ Len(Without(p, j)) = Len(p) - 1
         /\ \A i \in 0 .. Len(p) : At(Without(p, j), i) = IF i < j THEN At(p, i) ELSE At(p, i + 1)
         /\ \A i \in 1 .. Len(p) - 1 : Without(p, j)[i] # p[j]
         /\ \A i \in 1 .. Len(p) : p[i] = p[j] \/ \E a \in 1 .. Len(p) - 1 : Without(p, j)[a] = p[i]
<1> DEFINE k == Len(p)
           q == Without(p, j)
<1>1. k \in Nat /\ p \in Seq(ListNodes) /\ \A a, b \in 1 .. k : p[a] = p[b] => a = b
  BY DEF Order
<1>2. \A i \in 1 .. k - 1 : i \in 1 .. k /\ i + 1 \in 1 .. k
  BY <1>1
<1>3. \A i \in 1 .. k : p[i] \in ListNodes
  BY <1>1
<1>4. q = [i \in 1 .. k - 1 |-> IF i < j THEN p[i] ELSE p[i + 1]]
  BY DEF Without
<1>5. q \in Seq(ListNodes) /\ Len(q) = k - 1
  <2> HIDE DEF q, k
  <2>1. \A i \in 1 .. k - 1 : q[i] \in ListNodes
    BY <1>2, <1>3, <1>4
  <2>2. k - 1 \in Nat
    BY <1>1 DEF k
  <2> QED
    BY <1>4, <2>1, <2>2
<1>6. \A i \in 1 .. k - 1 : \E a \in 1 .. k : q[i] = p[a] /\ a # j /\ (i < j => a = i) /\ (~(i < j) => a = i + 1)
  <2> HIDE DEF q, k
  <2> SUFFICES ASSUME NEW i \in 1 .. k - 1
               PROVE  \E a \in 1 .. k : q[i] = p[a] /\ a # j /\ (i < j => a = i) /\ (~(i < j) => a = i + 1)
    OBVIOUS
  <2>1. j \in 1 .. k
    BY DEF k
  <2>2. CASE i < j
    BY <1>2, <1>4, <2>1, <2>2
  <2>3. CASE ~(i < j)
    <3>1. i + 1 # j /\ i + 1 \in 1 .. k
      BY <1>2, <2>1, <2>3
    <3> QED
      BY <1>4, <2>3, <3>1
  <2> QED
    BY <2>2, <2>3
<1>7. \A a, b \in 1 .. k - 1 : q[a] = q[b] => a = b
  <2> HIDE DEF q, k
  <2> SUFFICES ASSUME NEW a \in 1 .. k - 1, NEW b \in 1 .. k - 1, q[a] = q[b] PROVE a = b
    OBVIOUS
  <2>1. PICK c \in 1 .. k : q[a] = p[c] /\ c # j /\ (a < j => c = a) /\ (~(a < j) => c = a + 1)
    BY <1>6
  <2>2. PICK d \in 1 .. k : q[b] = p[d] /\ d # j /\ (b < j => d = b) /\ (~(b < j) => d = b + 1)
    BY <1>6
  <2>3. c = d
    BY <1>1, <2>1, <2>2
  <2>4. a \in Nat /\ b \in Nat /\ j \in Nat
    BY <1>1 DEF k
  <2> QED
    BY <2>1, <2>2, <2>3, <2>4
<1>8. \A i \in 1 .. k - 1 : q[i] # p[j]
  <2> HIDE DEF q, k
  <2>1. j \in 1 .. k
    BY DEF k
  <2> QED
    BY <1>1, <1>6, <2>1
<1>9. ASSUME NEW i \in 1 .. k, p[i] # p[j] PROVE \E a \in 1 .. k - 1 : q[a] = p[i]
  <2> HIDE DEF q, k
  <2>1. i # j /\ j \in 1 .. k
    BY <1>9 DEF k
  <2>2. CASE i < j
    <3>1. i \in 1 .. k - 1
      BY <1>1, <2>1, <2>2
    <3> QED
      BY <1>4, <2>2, <3>1
  <2>3. CASE j < i
    <3>1. i - 1 \in 1 .. k - 1 /\ ~(i - 1 < j) /\ (i - 1) + 1 = i
      BY <1>1, <2>1, <2>3
    <3>2. q[i - 1] = p[(i - 1) + 1]
      BY <1>4, <3>1
    <3> QED
      BY <3>1, <3>2
  <2> QED
    BY <1>1, <2>1, <2>2, <2>3
<1>10. ASSUME NEW i \in 0 .. k PROVE At(q, i) = IF i < j THEN At(p, i) ELSE At(p, i + 1)
  <2>2. At(q, i) = IF i \in 1 .. k - 1 THEN q[i] ELSE 0
    BY <1>5 DEF At
  <2> HIDE DEF q, k
  <2>1. i = 0 \/ i = k \/ i \in 1 .. k - 1
    BY <1>1
  <2>3. j \in 1 .. k /\ At(p, 0) = 0 /\ At(p, k + 1) = 0 /\ \A a \in 1 .. k : At(p, a) = p[a]
    BY AtFacts DEF k
  <2>4. CASE i = 0
    BY <1>1, <2>2, <2>3, <2>4
  <2>5. CASE i = k /\ i # 0
    <3>1. ~(i < j) /\ i \notin 1 .. k - 1
      BY <1>1, <2>3, <2>5
    <3> QED
      BY <2>2, <2>3, <2>5, <3>1
  <2>6. CASE i \in 1 .. k - 1
    <3>1. q[i] = IF i < j THEN p[i] ELSE p[i + 1]
      BY <1>4, <2>6
    <3> QED
      BY <1>2, <2>2, <2>3, <2>6, <3>1
  <2> QED
    BY <2>1, <2>4, <2>5, <2>6
<1> QED
  BY <1>5, <1>7, <1>8, <1>9, <1>10 DEF Order

\* _insert_between.
LEMMA RingTakes ==
  ASSUME MaxNodes \in Nat, NEW nx, NEW pv, NEW p, Linked(nx, pv, p),
         NEW n \in ListNodes, \A i \in 1 .. Len(p) : p[i] # n, NEW j \in 0 .. Len(p)
  PROVE  Linked([nx EXCEPT ![n] = At(p, j + 1), ![At(p, j)] = n],
                [pv EXCEPT ![At(p, j + 1)] = n, ![n] = At(p, j)], With(p, j, n))
<1> DEFINE k == Len(p)
           q == With(p, j, n)
           A(i) == At(p, i)
           B(i) == At(q, i)
           nx2 == [nx EXCEPT ![n] = A(j + 1), ![A(j)] = n]
           pv2 == [pv EXCEPT ![A(j + 1)] = n, ![n] = A(j)]
<1>1. /\ nx \in [RingNodes -> RingNodes] /\ pv \in [RingNodes -> RingNodes] /\ Order(p)
      /\ \A i \in 0 .. k : nx[A(i)] = A(i + 1) /\ pv[A(i + 1)] = A(i)
  BY DEF Linked
<1>2. /\ k \in Nat /\ j \in 0 .. k /\ n \in RingNodes /\ n # 0
      /\ \A i \in 0 .. k + 1 : A(i) \in RingNodes /\ A(i) # n
      /\ \A a, b \in 0 .. k + 1 : a < b /\ A(a) = A(b) => a = 0 /\ b = k + 1
  <2>1. n \in RingNodes /\ n # 0
    BY DEF ListNodes, RingNodes
  <2>2. k \in Nat /\ (\A i \in 0 .. k + 1 : A(i) \in RingNodes)
        /\ \A a, b \in 0 .. k + 1 : a < b /\ A(a) = A(b) => a = 0 /\ b = k + 1
    BY <1>1, AtFacts
  <2>3. \A i \in 0 .. k + 1 : A(i) = 0 \/ \E a \in 1 .. k : A(i) = p[a]
    BY DEF At
  <2> QED
    BY <2>1, <2>2, <2>3
<1>3. /\ Order(q) /\ Len(q) = k + 1
      /\ \A i \in 0 .. k + 2 : B(i) = IF i <= j THEN A(i) ELSE IF i = j + 1 THEN n ELSE A(i - 1)
  BY <1>1, WithFacts
<1> HIDE DEF k, A, B, q
<1>4. A(j) \in RingNodes /\ A(j + 1) \in RingNodes /\ A(j) # n /\ A(j + 1) # n
  BY <1>2
<1>5. /\ nx2 \in [RingNodes -> RingNodes] /\ pv2 \in [RingNodes -> RingNodes]
      /\ nx2[n] = A(j + 1) /\ nx2[A(j)] = n /\ pv2[n] = A(j) /\ pv2[A(j + 1)] = n
      /\ \A x \in RingNodes : /\ x # n /\ x # A(j) => nx2[x] = nx[x]
                              /\ x # n /\ x # A(j + 1) => pv2[x] = pv[x]
  BY <1>1, <1>2, <1>4
<1> HIDE DEF nx2, pv2
<1>6. ASSUME NEW i \in 0 .. k + 1 PROVE nx2[B(i)] = B(i + 1) /\ pv2[B(i + 1)] = B(i)
  <2>1. /\ B(i) = IF i <= j THEN A(i) ELSE IF i = j + 1 THEN n ELSE A(i - 1)
        /\ B(i + 1) = IF i + 1 <= j THEN A(i + 1) ELSE IF i = j THEN n ELSE A(i)
    <3>1. i + 1 \in 0 .. k + 2 /\ i \in 0 .. k + 2 /\ (i + 1) - 1 = i /\ (i + 1 = j + 1 <=> i = j)
      BY <1>2
    <3> QED
      BY <1>3, <3>1
  <2>2. CASE i < j
    <3>1. i \in 0 .. k /\ i + 1 \in 0 .. k + 1 /\ i + 1 < j + 1 /\ i + 1 <= j /\ i <= j /\ j \in 0 .. k + 1 /\ j + 1 \in 0 .. k + 1
          /\ i + 1 # 0 /\ j # k + 1
      BY <1>2, <2>2
    <3>2. A(i) # A(j) /\ A(i + 1) # A(j + 1)
      BY <1>2, <2>2, <3>1
    <3> QED
      BY <1>1, <1>2, <1>5, <2>1, <3>1, <3>2
  <2>3. CASE i = j
    <3>1. ~(i + 1 <= j) /\ i <= j
      BY <1>2, <2>3
    <3> QED
      BY <1>5, <2>1, <2>3, <3>1
  <2>4. CASE i = j + 1
    <3>1. ~(i + 1 <= j) /\ ~(i <= j) /\ i # j
      BY <1>2, <2>4
    <3> QED
      BY <1>5, <2>1, <2>4, <3>1
  <2>5. CASE i > j + 1
    <3>1. /\ ~(i + 1 <= j) /\ ~(i <= j) /\ i # j /\ i # j + 1 /\ (i - 1) + 1 = i
          /\ i - 1 \in 0 .. k /\ j < i - 1 /\ j + 1 < i /\ i \in 0 .. k + 1 /\ j \in 0 .. k + 1 /\ j + 1 \in 0 .. k + 1
          /\ i - 1 \in 0 .. k + 1 /\ i - 1 # k + 1 /\ j + 1 # 0
      BY <1>2, <2>5
    <3>2. A(i - 1) # A(j) /\ A(i) # A(j + 1)
      BY <1>2, <3>1
    <3>3. nx[A(i - 1)] = A(i) /\ pv[A(i)] = A(i - 1)
      BY <1>1, <3>1
    <3> QED
      BY <1>2, <1>5, <2>1, <3>1, <3>2, <3>3
  <2> QED
    BY <1>2, <2>2, <2>3, <2>4, <2>5
<1> QED
  BY <1>3, <1>5, <1>6 DEF Linked, nx2, pv2, q, A, B, k

\* _unlink.
LEMMA RingDrops ==
  ASSUME MaxNodes \in Nat, NEW nx, NEW pv, NEW p, Linked(nx, pv, p), NEW j \in 1 .. Len(p)
  PROVE  Linked([nx EXCEPT ![At(p, j - 1)] = At(p, j + 1)],
                [pv EXCEPT ![At(p, j + 1)] = At(p, j - 1)], Without(p, j))
<1> DEFINE k == Len(p)
           q == Without(p, j)
           A(i) == At(p, i)
           B(i) == At(q, i)
           nx2 == [nx EXCEPT ![A(j - 1)] = A(j + 1)]
           pv2 == [pv EXCEPT ![A(j + 1)] = A(j - 1)]
<1>1. /\ nx \in [RingNodes -> RingNodes] /\ pv \in [RingNodes -> RingNodes] /\ Order(p)
      /\ \A i \in 0 .. k : nx[A(i)] = A(i + 1) /\ pv[A(i + 1)] = A(i)
  BY DEF Linked
<1>2. /\ k \in Nat /\ j \in 1 .. k /\ A(j) = p[j]
      /\ \A i \in 0 .. k + 1 : A(i) \in RingNodes
      /\ \A a, b \in 0 .. k + 1 : a < b /\ A(a) = A(b) => a = 0 /\ b = k + 1
  BY <1>1, AtFacts
<1>3. /\ Order(q) /\ Len(q) = k - 1
      /\ \A i \in 0 .. k : B(i) = IF i < j THEN A(i) ELSE A(i + 1)
  BY <1>1, WithoutFacts
<1> HIDE DEF k, A, B, q
<1>4. j - 1 \in 0 .. k + 1 /\ j + 1 \in 0 .. k + 1 /\ j \in 0 .. k /\ j \in 0 .. k + 1 /\ j - 1 \in 0 .. k
      /\ j - 1 < j /\ j < j + 1 /\ (j - 1) + 1 = j /\ j # 0 /\ j # k + 1
  BY <1>2
<1>5. A(j - 1) \in RingNodes /\ A(j + 1) \in RingNodes /\ A(j - 1) # A(j) /\ A(j + 1) # A(j)
  BY <1>2, <1>4
<1>7. /\ nx2 \in [RingNodes -> RingNodes] /\ pv2 \in [RingNodes -> RingNodes]
      /\ nx2[A(j - 1)] = A(j + 1) /\ pv2[A(j + 1)] = A(j - 1)
      /\ \A x \in RingNodes : /\ x # A(j - 1) => nx2[x] = nx[x]
                              /\ x # A(j + 1) => pv2[x] = pv[x]
  BY <1>1, <1>5
<1> HIDE DEF nx2, pv2
<1>8. ASSUME NEW i \in 0 .. k - 1 PROVE nx2[B(i)] = B(i + 1) /\ pv2[B(i + 1)] = B(i)
  <2>1. /\ B(i) = IF i < j THEN A(i) ELSE A(i + 1)
        /\ B(i + 1) = IF i + 1 < j THEN A(i + 1) ELSE A((i + 1) + 1)
    BY <1>2, <1>3
  <2>2. CASE i < j - 1
    <3>1. /\ i < j /\ i + 1 < j /\ i \in 0 .. k /\ i \in 0 .. k + 1 /\ i + 1 \in 0 .. k + 1
          /\ i + 1 < j + 1 /\ j - 1 # k + 1 /\ i + 1 # 0
      BY <1>2, <2>2
    <3>2. A(i) # A(j - 1) /\ A(i + 1) # A(j + 1)
      BY <1>2, <1>4, <2>2, <3>1
    <3> QED
      BY <1>1, <1>2, <1>7, <2>1, <3>1, <3>2
  <2>3. CASE i = j - 1
    <3>1. i < j /\ ~(i + 1 < j) /\ (i + 1) + 1 = j + 1
      BY <1>2, <2>3
    <3> QED
      BY <1>7, <2>1, <2>3, <3>1
  <2>4. CASE i > j - 1
    <3>1. /\ ~(i < j) /\ ~(i + 1 < j) /\ i + 1 \in 0 .. k /\ i + 1 \in 0 .. k + 1 /\ (i + 1) + 1 \in 0 .. k + 1
          /\ j - 1 < i + 1 /\ j + 1 < (i + 1) + 1 /\ i + 1 # k + 1 /\ j + 1 # 0
      BY <1>2, <2>4
    <3>2. A(i + 1) # A(j - 1) /\ A((i + 1) + 1) # A(j + 1)
      BY <1>2, <1>4, <3>1
    <3> QED
      BY <1>1, <1>2, <1>7, <2>1, <3>1, <3>2
  <2> QED
    BY <1>2, <2>2, <2>3, <2>4
<1> QED
  BY <1>2, <1>3, <1>5, <1>7, <1>8 DEF Linked, nx2, pv2, q, A, B, k

LEMMA Neighbours ==
  ASSUME MaxNodes \in Nat, NEW nx, NEW pv, NEW p, Linked(nx, pv, p), NEW j \in 1 .. Len(p)
  PROVE  /\ nx[p[j]] = At(p, j + 1) /\ pv[p[j]] = At(p, j - 1)
         /\ At(p, j - 1) \in RingNodes /\ At(p, j - 1) # p[j]
         /\ At(p, j + 1) \in RingNodes /\ At(p, j + 1) # p[j]
<1> DEFINE k == Len(p)
           A(i) == At(p, i)
<1>1. Order(p) /\ \A i \in 0 .. k : nx[A(i)] = A(i + 1) /\ pv[A(i + 1)] = A(i)
  BY DEF Linked
<1>2. /\ k \in Nat /\ j \in 1 .. k /\ A(j) = p[j]
      /\ \A i \in 0 .. k + 1 : A(i) \in RingNodes
      /\ \A a, b \in 0 .. k + 1 : a < b /\ A(a) = A(b) => a = 0 /\ b = k + 1
  BY <1>1, AtFacts
<1> HIDE DEF k, A
<1>3. j - 1 \in 0 .. k + 1 /\ j + 1 \in 0 .. k + 1 /\ j \in 0 .. k /\ j \in 0 .. k + 1 /\ j - 1 \in 0 .. k
      /\ j - 1 < j /\ j < j + 1 /\ (j - 1) + 1 = j /\ j # 0 /\ j # k + 1
  BY <1>2
<1>4. A(j - 1) \in RingNodes /\ A(j + 1) \in RingNodes /\ A(j - 1) # A(j) /\ A(j + 1) # A(j)
  BY <1>2, <1>3
<1>5. nx[A(j)] = A(j + 1) /\ pv[A(j)] = A(j - 1)
  BY <1>1, <1>3
<1> QED
  BY <1>2, <1>4, <1>5 DEF A

RingConstants == MaxNodes \in Nat /\ 0 \notin Vals

\* The nodes of p have values, and no others are allocated.
Owning(vals, p) ==
  /\ Order(p) /\ vals \in [RingNodes -> Vals \cup {0}]
  /\ \A n \in ListNodes : vals[n] = 0 <=> \A i \in 1 .. Len(p) : p[i] # n

\* The list holds the nodes of p, in that order.
Held(p) == Linked(ringNext, ringPrev, p) /\ Owning(ringVal, p) /\ ringSize = Len(p)

RingInv == \E p : Held(p)

\* The nodes from place i on.
From(p, i) == [a \in 1 .. Len(p) + 1 - i |-> p[a + i - 1]]

\* How a sequence is recognized, item by item.
LEMMA SameItems ==
  ASSUME NEW S, NEW s \in Seq(S), NEW t \in Seq(S), Len(s) = Len(t), \A i \in 1 .. Len(t) : s[i] = t[i]
  PROVE  s = t
<1>1. s = [i \in 1 .. Len(s) |-> s[i]] /\ t = [i \in 1 .. Len(t) |-> t[i]]
  OBVIOUS
<1> QED
  BY <1>1

LEMMA SeqCons ==
  ASSUME NEW S, NEW s \in Seq(S), NEW t \in Seq(S), NEW v \in S, Len(s) = Len(t) + 1,
         s[1] = v, \A i \in 1 .. Len(t) : s[i + 1] = t[i]
  PROVE  s = <<v>> \o t
<1> DEFINE u == <<v>> \o t
           k == Len(t)
<1>1. u \in Seq(S) /\ Len(u) = k + 1 /\ k \in Nat
  OBVIOUS
<1>2. \A i \in 1 .. k + 1 : u[i] = IF i = 1 THEN v ELSE t[i - 1]
  OBVIOUS
<1>3. ASSUME NEW i \in 1 .. k + 1 PROVE s[i] = u[i]
  <2> HIDE DEF u
  <2>1. CASE i = 1
    BY <1>2, <2>1
  <2>2. CASE i # 1
    <3>1. i - 1 \in 1 .. k /\ (i - 1) + 1 = i
      BY <1>1, <2>2
    <3>2. s[(i - 1) + 1] = t[i - 1]
      BY <3>1
    <3> QED
      BY <1>2, <2>2, <3>1, <3>2
  <2> QED
    BY <2>1, <2>2
<1> HIDE DEF u
<1>4. s = u
  BY <1>1, <1>3, SameItems
<1> QED
  BY <1>4 DEF u

LEMMA FromFacts ==
  ASSUME NEW S, NEW p \in Seq(S)
  PROVE  /\ From(p, 1) = p /\ From(p, Len(p) + 1) = <<>>
         /\ \A i \in 1 .. Len(p) : From(p, i) = <<p[i]>> \o From(p, i + 1)
<1> DEFINE k == Len(p)
<1>1. k \in Nat /\ p = [a \in 1 .. k |-> p[a]] /\ \A i \in 1 .. k : p[i] \in S
  OBVIOUS
<1> HIDE DEF k
<1>2. From(p, 1) = p
  <2>1. From(p, 1) = [a \in 1 .. k + 1 - 1 |-> p[a + 1 - 1]]
    BY DEF From, k
  <2>2. k + 1 - 1 = k /\ \A a \in 1 .. k : a + 1 - 1 = a
    BY <1>1
  <2> QED
    BY <1>1, <2>1, <2>2
<1>3. From(p, k + 1) = <<>>
  <2>1. 1 .. k + 1 - (k + 1) = {}
    BY <1>1
  <2>2. From(p, k + 1) = [a \in {} |-> p[a + (k + 1) - 1]]
    BY <2>1 DEF From, k
  <2> QED
    BY <2>2
<1>4. ASSUME NEW i \in 1 .. k PROVE From(p, i) = <<p[i]>> \o From(p, i + 1)
  <2> DEFINE n == k - i
             s == From(p, i)
             t == From(p, i + 1)
  <2>1. n \in Nat /\ k + 1 - i = n + 1 /\ k + 1 - (i + 1) = n
    BY <1>1
  <2>2. s = [a \in 1 .. n + 1 |-> p[a + i - 1]] /\ t = [a \in 1 .. n |-> p[a + (i + 1) - 1]]
    BY <2>1 DEF From, k
  <2>3. \A a \in 1 .. n + 1 : a + i - 1 \in 1 .. k
    BY <1>1
  <2>4. \A a \in 1 .. n : a + (i + 1) - 1 \in 1 .. k /\ a + 1 + i - 1 = a + (i + 1) - 1 /\ a + 1 \in 1 .. n + 1
    BY <1>1
  <2>5. 1 + i - 1 = i /\ 1 \in 1 .. n + 1
    BY <2>1
  <2> HIDE DEF n, s, t
  <2>6. s[1] = p[i] /\ \A a \in 1 .. n : s[a + 1] = t[a]
    BY <2>2, <2>4, <2>5
  <2>7. s \in Seq(S) /\ Len(s) = n + 1 /\ t \in Seq(S) /\ Len(t) = n
    <3>1. \A a \in 1 .. n + 1 : s[a] \in S
      BY <1>1, <2>2, <2>3
    <3>2. \A a \in 1 .. n : t[a] \in S
      BY <1>1, <2>2, <2>4
    <3> QED
      BY <2>1, <2>2, <3>1, <3>2
  <2>8. s = <<p[i]>> \o t
    <3>1. \A a \in 1 .. Len(t) : s[a + 1] = t[a]
      BY <2>6, <2>7
    <3>2. p[i] \in S
      BY <1>1
    <3> QED
      BY <2>6, <2>7, <3>1, <3>2, SeqCons
  <2> QED
    BY <2>8 DEF s, t
<1> QED
  BY <1>2, <1>3, <1>4 DEF k

\* The recursive function of Walk.
NextBody(n, f) == IF n \in Ring!Free \cup {0} THEN <<>> ELSE <<n>> \o f[ringNext[n]]

LEMMA WalkIsChoice == Ring!Walk = (CHOOSE f : f = [n \in RingNodes |-> NextBody(n, f)])[ringNext[0]]
BY DEF Ring!Walk, NextBody, RingNodes, Ring!Sentinel

\* A walk meets the nodes of the list.
LEMMA WalkIs ==
  ASSUME RingConstants, NEW p, Held(p)
  PROVE  Ring!Walk = p
<1> DEFINE D == RingNodes
           V == Seq(ListNodes)
           k == Len(p)
           Stop == Ring!Free \cup {0}
           A(i) == At(p, i)
           Loop(f) == [n \in D |-> NextBody(n, f)]
           walk == CHOOSE f : f = Loop(f)
           place == [n \in D |-> CHOOSE i \in 1 .. k : p[i] = n]
           m == [n \in D |-> IF n \in Stop THEN 0 ELSE k + 1 - place[n]]
           b == [n \in D |-> <<>>]
           c == [z \in D \X V |-> IF z[1] = 0 THEN <<>> ELSE <<z[1]>> \o z[2]]
<1>1. /\ MaxNodes \in Nat /\ k \in Nat /\ p \in V
      /\ ringNext \in [D -> D] /\ (\A i \in 0 .. k : ringNext[A(i)] = A(i + 1))
      /\ Order(p) /\ \A i, j \in 1 .. k : p[i] = p[j] => i = j
  BY DEF RingConstants, Held, Owning, Linked, Order
<1>2. /\ \A i \in 1 .. k : A(i) = p[i] /\ p[i] \in ListNodes /\ p[i] # 0
      /\ A(0) = 0 /\ A(k + 1) = 0 /\ (\A i \in 0 .. k + 1 : A(i) \in D)
  BY <1>1, AtFacts
<1>3. 0 \in D /\ ListNodes \subseteq D /\ \A n \in D : n # 0 => n \in ListNodes
  BY <1>1 DEF RingNodes, ListNodes
<1>4. Ring!Free = {n \in ListNodes : ringVal[n] = 0}
  BY DEF Ring!Free, Ring!Nodes, ListNodes
<1>5. \A n \in ListNodes : ringVal[n] = 0 <=> \A i \in 1 .. k : p[i] # n
  BY DEF Held, Owning
<1>6. \A i \in 1 .. k : p[i] \notin Stop
  BY <1>2, <1>4, <1>5
<1>7. \A n \in D : n \notin Stop => n \in ListNodes /\ \E i \in 1 .. k : p[i] = n
  BY <1>3, <1>4, <1>5
<1> HIDE DEF D, V, k, Stop, A
<1>8. \A i \in 1 .. k : place[p[i]] = i
  <2> SUFFICES ASSUME NEW i \in 1 .. k PROVE place[p[i]] = i
    OBVIOUS
  <2>1. p[i] \in D
    BY <1>2, <1>3
  <2>2. place[p[i]] = CHOOSE j \in 1 .. k : p[j] = p[i]
    BY <2>1
  <2>3. \A j \in 1 .. k : p[j] = p[i] <=> j = i
    BY <1>1
  <2> QED
    BY <2>2, <2>3
<1> HIDE DEF place
<1>9. m \in [D -> Nat]
  <2> SUFFICES ASSUME NEW n \in D PROVE (IF n \in Stop THEN 0 ELSE k + 1 - place[n]) \in Nat
    OBVIOUS
  <2>1. CASE n \notin Stop
    <3>1. PICK i \in 1 .. k : p[i] = n
      BY <1>7, <2>1
    <3>2. place[n] = i /\ k + 1 - i \in Nat
      BY <1>1, <1>8, <3>1
    <3> QED
      BY <2>1, <3>2
  <2> QED
    BY <2>1
<1>10. b \in [D -> V] /\ c \in [D \X V -> V]
  <2>1. <<>> \in V
    BY DEF V
  <2>2. \A z \in D \X V : (IF z[1] = 0 THEN <<>> ELSE <<z[1]>> \o z[2]) \in V
    <3> SUFFICES ASSUME NEW z \in D \X V, z[1] # 0 PROVE <<z[1]>> \o z[2] \in V
      BY <2>1
    <3>1. z[1] \in ListNodes /\ z[2] \in V
      BY <1>3
    <3>2. <<z[1]>> \in Seq(ListNodes)
      BY <3>1
    <3> QED
      BY <3>1, <3>2 DEF V
  <2> QED
    BY <2>1, <2>2
<1>11. ASSUME NEW n \in D PROVE /\ m[n] = 0 <=> n \in Stop
                                /\ m[n] # 0 => m[ringNext[n]] < m[n]
  <2>1. CASE n \in Stop
    BY <2>1
  <2>2. CASE n \notin Stop
    <3>1. PICK i \in 1 .. k : p[i] = n
      BY <1>7, <2>2
    <3>2. m[n] = k + 1 - i
      BY <1>8, <2>2, <3>1
    <3>3. ringNext[n] = A(i + 1) /\ A(i + 1) \in D
      <4>1. i \in 0 .. k /\ i + 1 \in 0 .. k + 1
        BY <1>1
      <4> QED
        BY <1>1, <1>2, <3>1, <4>1
    <3>4. m[A(i + 1)] = 0 \/ (i + 1 \in 1 .. k /\ m[A(i + 1)] = k + 1 - (i + 1))
      <4>1. CASE i = k
        <5>1. A(i + 1) = 0 /\ 0 \in Stop
          BY <1>2, <4>1 DEF Stop
        <5> QED
          BY <1>3, <5>1
      <4>2. CASE i # k
        <5>1. i + 1 \in 1 .. k
          BY <1>1, <4>2
        <5>2. A(i + 1) = p[i + 1] /\ A(i + 1) \notin Stop /\ place[A(i + 1)] = i + 1
          BY <1>2, <1>6, <1>8, <5>1
        <5> QED
          BY <3>3, <5>1, <5>2
      <4> QED
        BY <4>1, <4>2
    <3> HIDE DEF m
    <3>5. m[ringNext[n]] < m[n] /\ m[n] # 0
      BY <1>1, <3>2, <3>3, <3>4
    <3> QED
      BY <2>2, <3>5
  <2> QED
    BY <2>1, <2>2
<1>12. ASSUME NEW f \in [D -> V], NEW n \in D
       PROVE  NextBody(n, f) = IF m[n] = 0 THEN b[n] ELSE c[<<n, f[ringNext[n]]>>]
  <2>1. CASE n \in Stop
    BY <1>11, <2>1 DEF NextBody, Stop
  <2>2. CASE n \notin Stop
    <3>1. ringNext[n] \in D /\ f[ringNext[n]] \in V /\ n # 0
      BY <1>1, <2>2 DEF Stop
    <3>2. c[<<n, f[ringNext[n]]>>] = <<n>> \o f[ringNext[n]]
      BY <3>1
    <3> QED
      BY <1>11, <2>2, <3>2 DEF NextBody, Stop
  <2> QED
    BY <2>1, <2>2
<1> HIDE DEF m, b, c
<1>13. PICK f \in [D -> V] : Solves(f, D, m, b, ringNext, c)
  BY <1>1, <1>9, <1>10, <1>11, Recursion
<1>14. f = Loop(f)
  BY <1>12, <1>13 DEF Solves
<1>15. walk = Loop(walk)
  <2> HIDE DEF Loop
  <2> QED
    BY <1>14
<1>16. \A n \in D : walk[n] = NextBody(n, walk)
  <2> HIDE DEF walk
  <2> QED
    BY <1>15
<1>17. Ring!Walk = walk[ringNext[0]]
  BY WalkIsChoice DEF D
<1> HIDE DEF walk, Loop
<1>18. /\ From(p, 1) = p /\ From(p, k + 1) = <<>>
       /\ \A i \in 1 .. k : From(p, i) = <<p[i]>> \o From(p, i + 1)
  BY <1>1, FromFacts DEF V, k
<1>19. walk[A(k + 1)] = From(p, k + 1)
  <2>1. walk[0] = <<>>
    BY <1>3, <1>16 DEF NextBody
  <2> QED
    BY <1>2, <1>18, <2>1
<1>20. ASSUME NEW i \in 1 .. k, walk[A(i + 1)] = From(p, i + 1) PROVE walk[A(i)] = From(p, i)
  <2>1. A(i) = p[i] /\ A(i) \in D /\ A(i) \notin Stop
    BY <1>2, <1>3, <1>6
  <2>2. ringNext[A(i)] = A(i + 1)
    BY <1>1
  <2>3. walk[A(i)] = <<p[i]>> \o walk[A(i + 1)]
    BY <1>16, <2>1, <2>2 DEF NextBody, Stop
  <2> QED
    BY <1>18, <1>20, <2>3
<1> DEFINE W == {j \in Nat : \A i \in 1 .. k + 1 : k + 1 - i < j => walk[A(i)] = From(p, i)}
<1>21. 0 \in W
  BY <1>1
<1>22. ASSUME NEW j \in Nat, j \in W PROVE j + 1 \in W
  <2> SUFFICES ASSUME NEW i \in 1 .. k + 1, k + 1 - i < j + 1 PROVE walk[A(i)] = From(p, i)
    OBVIOUS
  <2>1. i = k + 1 \/ (i \in 1 .. k /\ i + 1 \in 1 .. k + 1 /\ k + 1 - (i + 1) < j)
    BY <1>1
  <2>2. CASE i = k + 1
    BY <1>19, <2>2
  <2>3. CASE i \in 1 .. k /\ i + 1 \in 1 .. k + 1 /\ k + 1 - (i + 1) < j
    <3>1. walk[A(i + 1)] = From(p, i + 1)
      BY <1>22, <2>3
    <3> QED
      BY <1>20, <2>3, <3>1
  <2> QED
    BY <2>1, <2>2, <2>3
<1> HIDE DEF W
<1>23. Nat \subseteq W
  BY <1>21, <1>22, Induction
<1>24. k + 1 \in W /\ 1 \in 1 .. k + 1 /\ k + 1 - 1 < k + 1
  BY <1>1, <1>23
<1>25. walk[A(1)] = From(p, 1)
  BY <1>24 DEF W
<1>26. ringNext[0] = A(1)
  BY <1>1, <1>2
<1> QED
  BY <1>17, <1>18, <1>25, <1>26

LEMMA HeldItems ==
  ASSUME RingConstants, NEW p, Held(p)
  PROVE  /\ Ring!Walk = p
         /\ Ring!Items \in Seq(Vals) /\ Len(Ring!Items) = Len(p)
         /\ \A i \in 1 .. Len(p) : Ring!Items[i] = ringVal[p[i]]
<1>1. Ring!Walk = p /\ p \in Seq(ListNodes) /\ Len(p) \in Nat /\ DOMAIN p = 1 .. Len(p)
  BY WalkIs DEF Held, Linked, Order
<1>2. Ring!Items = [i \in 1 .. Len(p) |-> ringVal[p[i]]]
  BY <1>1 DEF Ring!Items
<1>3. \A i \in 1 .. Len(p) : ringVal[p[i]] \in Vals
  <2>1. \A i \in 1 .. Len(p) : p[i] \in ListNodes /\ p[i] \in RingNodes /\ ringVal[p[i]] # 0
    <3>1. ListNodes \subseteq RingNodes
      BY DEF RingNodes, ListNodes
    <3>2. \A n \in ListNodes : ringVal[n] = 0 <=> \A i \in 1 .. Len(p) : p[i] # n
      BY DEF Held, Owning
    <3>3. \A i \in 1 .. Len(p) : p[i] \in ListNodes
      BY <1>1
    <3> QED
      BY <3>1, <3>2, <3>3
  <2> QED
    BY <2>1 DEF Held, Owning
<1> QED
  BY <1>1, <1>2, <1>3

\* The pointers of a list.
Pointing(ptr, p) == ptr = [next |-> ptr.next, prev |-> ptr.prev] /\ Linked(ptr.next, ptr.prev, p)

LEMMA InsertedFirstIs ==
  ASSUME MaxNodes \in Nat, NEW ptr, NEW p, Pointing(ptr, p),
         NEW n \in ListNodes, \A i \in 1 .. Len(p) : p[i] # n
  PROVE  Pointing(Ring!InsertedFirst(ptr, n), With(p, 0, n))
<1> DEFINE nx == ptr.next
           pv == ptr.prev
           r == Ring!InsertedFirst(ptr, n)
<1>1. Linked(nx, pv, p)
  BY DEF Pointing
<1>2. Len(p) \in Nat /\ 0 \in 0 .. Len(p) /\ At(p, 0) = 0 /\ nx[At(p, 0)] = At(p, 0 + 1) /\ 0 + 1 = 1
  <2>1. Order(p)
    BY <1>1 DEF Linked
  <2>2. Len(p) \in Nat /\ At(p, 0) = 0
    BY <2>1, AtFacts
  <2>3. 0 \in 0 .. Len(p)
    BY <2>2
  <2> QED
    BY <1>1, <2>2, <2>3 DEF Linked
<1>3. r = [next |-> [nx EXCEPT ![n] = nx[0], ![0] = n], prev |-> [pv EXCEPT ![nx[0]] = n, ![n] = 0]]
  BY DEF Ring!InsertedFirst, Ring!Sentinel
<1>4. Linked([nx EXCEPT ![n] = At(p, 0 + 1), ![At(p, 0)] = n],
             [pv EXCEPT ![At(p, 0 + 1)] = n, ![n] = At(p, 0)], With(p, 0, n))
  BY <1>1, <1>2, RingTakes
<1> HIDE DEF r, nx, pv
<1>5. r.next = [nx EXCEPT ![n] = nx[0], ![0] = n] /\ r.prev = [pv EXCEPT ![nx[0]] = n, ![n] = 0]
  BY <1>3
<1>6. r = [next |-> r.next, prev |-> r.prev]
  BY <1>3, <1>5
<1>7. r.next = [nx EXCEPT ![n] = At(p, 0 + 1), ![At(p, 0)] = n]
      /\ r.prev = [pv EXCEPT ![At(p, 0 + 1)] = n, ![n] = At(p, 0)]
  BY <1>2, <1>5
<1> QED
  BY <1>4, <1>6, <1>7 DEF Pointing, r

LEMMA InsertedLastIs ==
  ASSUME MaxNodes \in Nat, NEW ptr, NEW p, Pointing(ptr, p),
         NEW n \in ListNodes, \A i \in 1 .. Len(p) : p[i] # n
  PROVE  Pointing(Ring!InsertedLast(ptr, n), With(p, Len(p), n))
<1> DEFINE nx == ptr.next
           pv == ptr.prev
           r == Ring!InsertedLast(ptr, n)
           k == Len(p)
<1>1. Linked(nx, pv, p)
  BY DEF Pointing
<1>2. k \in 0 .. k /\ At(p, k + 1) = 0 /\ pv[At(p, k + 1)] = At(p, k) /\ At(p, k) \in RingNodes /\ At(p, k) # n
      /\ 0 # n /\ 0 \in RingNodes
  <2>1. Order(p)
    BY <1>1 DEF Linked
  <2>2. k \in Nat /\ At(p, k + 1) = 0 /\ \A i \in 0 .. k + 1 : At(p, i) \in RingNodes
    BY <2>1, AtFacts
  <2>3. k \in 0 .. k /\ k \in 0 .. k + 1
    BY <2>2
  <2>4. At(p, k) = 0 \/ (At(p, k) = p[k] /\ k \in 1 .. k)
    BY DEF At
  <2>5. 0 # n /\ 0 \in RingNodes
    BY DEF ListNodes, RingNodes
  <2>6. pv[At(p, k + 1)] = At(p, k)
    BY <1>1, <2>3 DEF Linked
  <2>7. At(p, k) # n
    BY <2>4, <2>5
  <2> QED
    BY <2>2, <2>3, <2>5, <2>6, <2>7
<1>3. r = [next |-> [nx EXCEPT ![n] = 0, ![pv[0]] = n], prev |-> [pv EXCEPT ![0] = n, ![n] = pv[0]]]
  BY DEF Ring!InsertedLast, Ring!Sentinel
<1>4. Linked([nx EXCEPT ![n] = At(p, k + 1), ![At(p, k)] = n],
             [pv EXCEPT ![At(p, k + 1)] = n, ![n] = At(p, k)], With(p, k, n))
  BY <1>1, <1>2, RingTakes
<1> HIDE DEF r, nx, pv, k
<1>5. r.next = [nx EXCEPT ![n] = 0, ![pv[0]] = n] /\ r.prev = [pv EXCEPT ![0] = n, ![n] = pv[0]]
  BY <1>3
<1>6. r = [next |-> r.next, prev |-> r.prev]
  BY <1>3, <1>5
<1>7. pv[0] = At(p, k)
  BY <1>2
<1>8. r.next = [nx EXCEPT ![n] = At(p, k + 1), ![At(p, k)] = n]
      /\ r.prev = [pv EXCEPT ![At(p, k + 1)] = n, ![n] = At(p, k)]
  BY <1>2, <1>5, <1>7
<1> QED
  BY <1>4, <1>6, <1>8 DEF Pointing, r, k

LEMMA UnlinkedIs ==
  ASSUME MaxNodes \in Nat, NEW ptr, NEW p, Pointing(ptr, p), NEW j \in 1 .. Len(p)
  PROVE  Pointing(Ring!Unlinked(ptr, p[j]), Without(p, j))
<1> DEFINE nx == ptr.next
           pv == ptr.prev
           n == p[j]
           a == At(p, j - 1)
           z == At(p, j + 1)
           nx2 == [nx EXCEPT ![a] = z]
           pv2 == [pv EXCEPT ![z] = a]
           step1 == [ptr EXCEPT !.next[ptr.prev[n]] = ptr.next[n]]
           r == Ring!Unlinked(ptr, n)
<1>1. Linked(nx, pv, p) /\ ptr = [next |-> nx, prev |-> pv]
  BY DEF Pointing
<1>2. Linked(nx2, pv2, Without(p, j)) /\ nx[n] = z /\ pv[n] = a /\ a # n
  <2> HIDE DEF nx, pv
  <2>1. Linked([nx EXCEPT ![At(p, j - 1)] = At(p, j + 1)],
               [pv EXCEPT ![At(p, j + 1)] = At(p, j - 1)], Without(p, j))
    BY <1>1, RingDrops
  <2>2. nx[p[j]] = At(p, j + 1) /\ pv[p[j]] = At(p, j - 1) /\ At(p, j - 1) # p[j]
    BY <1>1, Neighbours
  <2> QED
    BY <2>1, <2>2
<1>3. nx \in [RingNodes -> RingNodes] /\ n \in RingNodes
  <2>1. p[j] \in ListNodes
    BY <1>1 DEF Linked, Order
  <2> QED
    BY <1>1, <2>1 DEF Linked, ListNodes, RingNodes
<1>4. r = [step1 EXCEPT !.prev[step1.next[n]] = step1.prev[n]]
  BY DEF Ring!Unlinked
<1> HIDE DEF nx, pv, n, a, z, r
<1>5. step1 = [next |-> nx2, prev |-> pv]
  <2>1. ptr.next = nx /\ ptr.prev = pv
    BY DEF nx, pv
  <2> QED
    BY <1>1, <1>2, <2>1
<1>6. nx2[n] = z
  BY <1>2, <1>3
<1> HIDE DEF step1, nx2, pv2
<1>7. r = [next |-> nx2, prev |-> [pv EXCEPT ![z] = a]]
  BY <1>2, <1>4, <1>5, <1>6
<1>8. r = [next |-> nx2, prev |-> pv2] /\ r.next = nx2 /\ r.prev = pv2
  BY <1>7 DEF pv2
<1> QED
  BY <1>2, <1>8 DEF Pointing, r, n

LEMMA FreedIs ==
  ASSUME MaxNodes \in Nat, NEW ptr, NEW p, Pointing(ptr, p),
         NEW n \in ListNodes, \A i \in 1 .. Len(p) : p[i] # n
  PROVE  Pointing(Ring!Freed(ptr, n), p)
<1> DEFINE nx == ptr.next
           pv == ptr.prev
           nx2 == [nx EXCEPT ![n] = n]
           pv2 == [pv EXCEPT ![n] = n]
           r == Ring!Freed(ptr, n)
<1>1. /\ nx \in [RingNodes -> RingNodes] /\ pv \in [RingNodes -> RingNodes] /\ Order(p)
      /\ \A i \in 0 .. Len(p) : nx[At(p, i)] = At(p, i + 1) /\ pv[At(p, i + 1)] = At(p, i)
  BY DEF Pointing, Linked
<1>2. r = [next |-> nx2, prev |-> pv2]
  BY DEF Ring!Freed
<1>3. n \in RingNodes /\ n # 0
  BY DEF ListNodes, RingNodes
<1>4. \A i \in 0 .. Len(p) + 1 : At(p, i) # n /\ At(p, i) \in RingNodes
  <2>1. \A i \in 0 .. Len(p) + 1 : At(p, i) = 0 \/ (At(p, i) = p[i] /\ i \in 1 .. Len(p))
    BY DEF At
  <2> QED
    BY <1>1, <1>3, <2>1, AtFacts
<1>5. Len(p) \in Nat
  BY <1>1, AtFacts
<1> HIDE DEF r, nx, pv
<1>6. /\ nx2 \in [RingNodes -> RingNodes] /\ pv2 \in [RingNodes -> RingNodes]
      /\ \A x \in RingNodes : x # n => nx2[x] = nx[x] /\ pv2[x] = pv[x]
  BY <1>1, <1>3
<1> HIDE DEF nx2, pv2
<1>7. \A i \in 0 .. Len(p) : nx2[At(p, i)] = At(p, i + 1) /\ pv2[At(p, i + 1)] = At(p, i)
  <2>1. \A i \in 0 .. Len(p) : i \in 0 .. Len(p) + 1 /\ i + 1 \in 0 .. Len(p) + 1
    BY <1>5
  <2> QED
    BY <1>1, <1>4, <1>6, <2>1
<1>8. r.next = nx2 /\ r.prev = pv2
  BY <1>2
<1> QED
  BY <1>1, <1>2, <1>6, <1>7, <1>8 DEF Pointing, Linked, r

LEMMA SeqSnoc ==
  ASSUME NEW S, NEW s \in Seq(S), NEW t \in Seq(S), NEW v \in S, Len(s) = Len(t) + 1,
         s[Len(t) + 1] = v, \A i \in 1 .. Len(t) : s[i] = t[i]
  PROVE  s = Append(t, v)
<1> DEFINE u == Append(t, v)
           k == Len(t)
<1>1. u \in Seq(S) /\ Len(u) = k + 1 /\ k \in Nat
  OBVIOUS
<1>2. \A i \in 1 .. k + 1 : u[i] = IF i = k + 1 THEN v ELSE t[i]
  OBVIOUS
<1>3. ASSUME NEW i \in 1 .. k + 1 PROVE s[i] = u[i]
  <2> HIDE DEF u
  <2>1. CASE i = k + 1
    BY <1>2, <2>1
  <2>2. CASE i # k + 1
    <3>1. i \in 1 .. k
      BY <1>1, <2>2
    <3> QED
      BY <1>2, <2>2, <3>1
  <2> QED
    BY <2>1, <2>2
<1> HIDE DEF u
<1>4. s = u
  BY <1>1, <1>3, SameItems
<1> QED
  BY <1>4 DEF u

\* s is t without its item at j.
Shorter(s, t, j) ==
  /\ Len(s) = Len(t) - 1
  /\ \A i \in 1 .. Len(t) - 1 : s[i] = IF i < j THEN t[i] ELSE t[i + 1]

LEMMA SeqRemove ==
  ASSUME NEW S, NEW s \in Seq(S), NEW t \in Seq(S), NEW j \in 1 .. Len(t), Shorter(s, t, j)
  PROVE  s = SubSeq(t, 1, j - 1) \o SubSeq(t, j + 1, Len(t))
<1> DEFINE k == Len(t)
           x == SubSeq(t, 1, j - 1)
           y == SubSeq(t, j + 1, k)
           u == x \o y
<1>1. k \in Nat /\ j \in 1 .. k
  OBVIOUS
<1>2. x \in Seq(S) /\ Len(x) = j - 1 /\ \A i \in 1 .. j - 1 : x[i] = t[i]
  OBVIOUS
<1>3. y \in Seq(S) /\ Len(y) = k - j /\ \A i \in 1 .. k - j : y[i] = t[i + j]
  <2>1. j + 1 \in Int /\ k \in Int /\ \A i \in j + 1 .. k : t[i] \in S
    BY <1>1
  <2>2. y \in Seq(S) /\ Len(y) = (IF j + 1 <= k THEN k - (j + 1) + 1 ELSE 0)
        /\ \A i \in 1 .. k - (j + 1) + 1 : y[i] = t[(j + 1) + i - 1]
    BY <2>1, SubSeqProperties
  <2> HIDE DEF y, k
  <2>3. k - (j + 1) + 1 = k - j /\ (j + 1 <= k \/ k - j = 0) /\ \A i \in 1 .. k - j : (j + 1) + i - 1 = i + j
    BY <1>1
  <2> QED
    BY <2>2, <2>3
<1> HIDE DEF x, y
<1>4. u \in Seq(S) /\ Len(u) = k - 1
  <2>1. u \in Seq(S) /\ Len(u) = Len(x) + Len(y)
    BY <1>2, <1>3, ConcatProperties
  <2> HIDE DEF u, k
  <2> QED
    BY <1>1, <1>2, <1>3, <2>1
<1>5. \A i \in 1 .. k - 1 : u[i] = IF i < j THEN t[i] ELSE t[i + 1]
  <2> SUFFICES ASSUME NEW i \in 1 .. k - 1 PROVE u[i] = IF i < j THEN t[i] ELSE t[i + 1]
    OBVIOUS
  <2>1. u[i] = IF i <= Len(x) THEN x[i] ELSE y[i - Len(x)]
    <3>1. Len(x) + Len(y) = k - 1
      <4> HIDE DEF k
      <4> QED
        BY <1>1, <1>2, <1>3
    <3> QED
      BY <1>2, <1>3, <3>1, ConcatProperties
  <2> HIDE DEF u, k
  <2>2. CASE i < j
    <3>1. i <= j - 1 /\ i \in 1 .. j - 1
      BY <1>1, <2>2
    <3> QED
      BY <1>2, <2>1, <2>2, <3>1
  <2>3. CASE ~(i < j)
    <3>1. ~(i <= j - 1) /\ i - (j - 1) \in 1 .. k - j /\ (i - (j - 1)) + j = i + 1
      BY <1>1, <2>3
    <3> QED
      BY <1>2, <1>3, <2>1, <2>3, <3>1
  <2> QED
    BY <2>2, <2>3
<1> HIDE DEF u
<1>6. s = u
  BY <1>4, <1>5, SameItems DEF Shorter
<1> QED
  BY <1>6 DEF u, x, y

LEMMA SeqTail ==
  ASSUME NEW S, NEW s \in Seq(S), NEW t \in Seq(S), 1 <= Len(t), Shorter(s, t, 1)
  PROVE  s = Tail(t) /\ Head(t) = t[1] /\ t # <<>>
<1> DEFINE k == Len(t)
           u == Tail(t)
<1>1. k \in Nat \ {0} /\ t # <<>> /\ Head(t) = t[1]
  OBVIOUS
<1>2. u \in Seq(S) /\ Len(u) = k - 1 /\ \A i \in 1 .. k - 1 : u[i] = t[i + 1]
  BY <1>1
<1> HIDE DEF u
<1>3. \A i \in 1 .. k - 1 : s[i] = t[i + 1]
  BY <1>1 DEF Shorter
<1>4. s = u
  BY <1>2, <1>3, SameItems DEF Shorter
<1> QED
  BY <1>1, <1>4 DEF u

LEMMA SeqFront ==
  ASSUME NEW S, NEW s \in Seq(S), NEW t \in Seq(S), 1 <= Len(t), Shorter(s, t, Len(t))
  PROVE  s = SubSeq(t, 1, Len(t) - 1) /\ t # <<>>
<1> DEFINE k == Len(t)
           u == SubSeq(t, 1, k - 1)
<1>1. k \in Nat \ {0} /\ t # <<>>
  OBVIOUS
<1>2. u \in Seq(S) /\ Len(u) = k - 1 /\ \A i \in 1 .. k - 1 : u[i] = t[i]
  <2>1. 1 \in Int /\ k - 1 \in Int /\ \A i \in 1 .. k - 1 : t[i] \in S
    BY <1>1
  <2>2. u \in Seq(S) /\ Len(u) = (IF 1 <= k - 1 THEN (k - 1) - 1 + 1 ELSE 0)
        /\ \A i \in 1 .. (k - 1) - 1 + 1 : u[i] = t[1 + i - 1]
    BY <2>1, SubSeqProperties
  <2> HIDE DEF u, k
  <2>3. (k - 1) - 1 + 1 = k - 1 /\ (1 <= k - 1 \/ k - 1 = 0) /\ \A i \in 1 .. k - 1 : 1 + i - 1 = i
    BY <1>1
  <2> QED
    BY <2>2, <2>3
<1> HIDE DEF u
<1>3. \A i \in 1 .. k - 1 : s[i] = t[i]
  BY <1>1 DEF Shorter
<1>4. s = u
  BY <1>2, <1>3, SameItems DEF Shorter
<1> QED
  BY <1>1, <1>4 DEF u

\* The values of the nodes p.
ItemsOf(vals, p) == [i \in 1 .. Len(p) |-> vals[p[i]]]

LEMMA OwnedItems ==
  ASSUME RingConstants, NEW vals, NEW p, Owning(vals, p)
  PROVE  /\ ItemsOf(vals, p) \in Seq(Vals) /\ Len(ItemsOf(vals, p)) = Len(p) /\ Len(p) \in Nat
         /\ \A i \in 1 .. Len(p) : ItemsOf(vals, p)[i] = vals[p[i]]
         /\ \A i \in 1 .. Len(p) : p[i] \in ListNodes /\ p[i] \in RingNodes /\ vals[p[i]] \in Vals
<1>1. p \in Seq(ListNodes) /\ Len(p) \in Nat
  BY DEF Owning, Order
<1>2. \A i \in 1 .. Len(p) : p[i] \in ListNodes
  BY <1>1
<1>3. ListNodes \subseteq RingNodes
  BY DEF ListNodes, RingNodes
<1>4. \A i \in 1 .. Len(p) : vals[p[i]] \in Vals
  BY <1>2, <1>3 DEF Owning
<1> QED
  BY <1>1, <1>2, <1>3, <1>4 DEF ItemsOf

\* x is not among the nodes.
Avoids(p, x) == \A i \in 1 .. Len(p) : p[i] # x

LEMMA WithMembers ==
  ASSUME NEW p, Len(p) \in Nat, NEW n, NEW j \in 0 .. Len(p)
  PROVE  /\ Len(With(p, j, n)) = Len(p) + 1
         /\ With(p, j, n)[j + 1] = n
         /\ \A i \in 1 .. Len(p) : i <= j => With(p, j, n)[i] = p[i]
         /\ \A i \in 1 .. Len(p) : i > j => With(p, j, n)[i + 1] = p[i]
         /\ \A x : Avoids(With(p, j, n), x) <=> x # n /\ Avoids(p, x)
<1> DEFINE k == Len(p)
           q == With(p, j, n)
<1>1. q = [i \in 1 .. k + 1 |-> IF i <= j THEN p[i] ELSE IF i = j + 1 THEN n ELSE p[i - 1]]
  BY DEF With
<1>2. k \in Nat /\ j \in 0 .. k
  OBVIOUS
<1> HIDE DEF q, k
<1>3. Len(q) = k + 1
  BY <1>1, <1>2
<1>4. q[j + 1] = n /\ j + 1 \in 1 .. k + 1
  BY <1>1, <1>2
<1>5. \A i \in 1 .. k : i <= j => i \in 1 .. k + 1 /\ q[i] = p[i]
  BY <1>1, <1>2
<1>6. \A i \in 1 .. k : i > j => i + 1 \in 1 .. k + 1 /\ q[i + 1] = p[i]
  <2> SUFFICES ASSUME NEW i \in 1 .. k, i > j PROVE i + 1 \in 1 .. k + 1 /\ q[i + 1] = p[i]
    OBVIOUS
  <2>1. i + 1 \in 1 .. k + 1 /\ ~(i + 1 <= j) /\ i + 1 # j + 1 /\ (i + 1) - 1 = i
    BY <1>2
  <2> QED
    BY <1>1, <2>1
<1>7. ASSUME NEW i \in 1 .. k + 1 PROVE q[i] = n \/ \E a \in 1 .. k : q[i] = p[a]
  <2>1. q[i] = IF i <= j THEN p[i] ELSE IF i = j + 1 THEN n ELSE p[i - 1]
    BY <1>1
  <2>2. i <= j => i \in 1 .. k
    BY <1>2
  <2>3. i > j + 1 => i - 1 \in 1 .. k
    BY <1>2
  <2>4. i <= j \/ i = j + 1 \/ i > j + 1
    BY <1>2
  <2> QED
    BY <1>2, <2>1, <2>2, <2>3, <2>4
<1>8. ASSUME NEW x PROVE (\A i \in 1 .. k + 1 : q[i] # x) <=> x # n /\ \A i \in 1 .. k : p[i] # x
  <2>1. ASSUME \A i \in 1 .. k + 1 : q[i] # x PROVE x # n /\ \A i \in 1 .. k : p[i] # x
    <3>1. \A i \in 1 .. k : i <= j \/ i > j
      BY <1>2
    <3> QED
      BY <1>4, <1>5, <1>6, <2>1, <3>1
  <2>2. ASSUME x # n, \A i \in 1 .. k : p[i] # x PROVE \A i \in 1 .. k + 1 : q[i] # x
    BY <1>7, <2>2
  <2> QED
    BY <2>1, <2>2
<1> QED
  BY <1>3, <1>4, <1>5, <1>6, <1>8 DEF q, k, Avoids

LEMMA OwnMore ==
  ASSUME RingConstants, NEW vals, NEW p, Owning(vals, p), NEW v \in Vals, NEW n \in ListNodes, vals[n] = 0,
         NEW j \in 0 .. Len(p)
  PROVE  /\ Owning([vals EXCEPT ![n] = v], With(p, j, n))
         /\ \A i \in 1 .. Len(p) : p[i] # n
<1> DEFINE q == With(p, j, n)
           vals2 == [vals EXCEPT ![n] = v]
<1>1. Order(p) /\ vals \in [RingNodes -> Vals \cup {0}] /\ n \in RingNodes /\ v # 0 /\ MaxNodes \in Nat
      /\ \A x \in ListNodes : vals[x] = 0 <=> \A i \in 1 .. Len(p) : p[i] # x
  BY DEF Owning, RingConstants, ListNodes, RingNodes
<1>2. \A i \in 1 .. Len(p) : p[i] # n
  BY <1>1
<1>3. Order(q) /\ Len(q) = Len(p) + 1
  BY <1>1, <1>2, WithFacts
<1>4. \A x : Avoids(q, x) <=> x # n /\ Avoids(p, x)
  <2>1. Len(p) \in Nat
    BY <1>1 DEF Order
  <2> QED
    BY <2>1, WithMembers
<1>5. /\ vals2 \in [RingNodes -> Vals \cup {0}] /\ vals2[n] = v
      /\ \A x \in RingNodes : x # n => vals2[x] = vals[x]
  BY <1>1
<1> HIDE DEF q, vals2
<1>6. ASSUME NEW x \in ListNodes PROVE vals2[x] = 0 <=> \A i \in 1 .. Len(q) : q[i] # x
  <2>1. x \in RingNodes
    BY DEF ListNodes, RingNodes
  <2> QED
    BY <1>1, <1>3, <1>4, <1>5, <2>1 DEF Avoids
<1> QED
  BY <1>2, <1>3, <1>5, <1>6 DEF Owning, q, vals2

LEMMA OwnLess ==
  ASSUME RingConstants, NEW vals, NEW p, Owning(vals, p), NEW j \in 1 .. Len(p)
  PROVE  Owning([vals EXCEPT ![p[j]] = 0], Without(p, j))
<1> DEFINE q == Without(p, j)
           n == p[j]
           vals2 == [vals EXCEPT ![n] = 0]
<1>1. Order(p) /\ vals \in [RingNodes -> Vals \cup {0}] /\ n \in RingNodes /\ MaxNodes \in Nat
      /\ \A x \in ListNodes : vals[x] = 0 <=> \A i \in 1 .. Len(p) : p[i] # x
  BY OwnedItems DEF Owning, RingConstants
<1>2. /\ Order(q) /\ Len(q) = Len(p) - 1
      /\ \A i \in 1 .. Len(p) - 1 : q[i] # n
      /\ \A i \in 1 .. Len(p) : p[i] = n \/ \E a \in 1 .. Len(p) - 1 : q[a] = p[i]
  <2> HIDE DEF vals2
  <2>1. Order(q) /\ Len(q) = Len(p) - 1
    BY <1>1, WithoutFacts
  <2>2. \A i \in 1 .. Len(p) - 1 : q[i] # n
    BY <1>1, WithoutFacts
  <2>3. \A i \in 1 .. Len(p) : p[i] = n \/ \E a \in 1 .. Len(p) - 1 : q[a] = p[i]
    BY <1>1, WithoutFacts
  <2> QED
    BY <2>1, <2>2, <2>3
<1>3. \A i \in 1 .. Len(p) - 1 : \E a \in 1 .. Len(p) : q[i] = p[a]
  <2> SUFFICES ASSUME NEW i \in 1 .. Len(p) - 1 PROVE \E a \in 1 .. Len(p) : q[i] = p[a]
    OBVIOUS
  <2>1. q[i] = IF i < j THEN p[i] ELSE p[i + 1]
    BY DEF Without
  <2>2. Len(p) \in Nat
    BY <1>1 DEF Order
  <2>3. i \in 1 .. Len(p) /\ i + 1 \in 1 .. Len(p)
    BY <2>2
  <2> HIDE DEF q
  <2> QED
    BY <2>1, <2>3
<1>4. /\ vals2 \in [RingNodes -> Vals \cup {0}] /\ vals2[n] = 0
      /\ \A x \in RingNodes : x # n => vals2[x] = vals[x]
  BY <1>1
<1> HIDE DEF q, vals2, n
<1>5. ASSUME NEW x \in ListNodes PROVE vals2[x] = 0 <=> \A i \in 1 .. Len(q) : q[i] # x
  <2>1. x \in RingNodes
    BY DEF ListNodes, RingNodes
  <2>2. CASE x = n
    BY <1>2, <1>4, <2>2
  <2>3. CASE x # n
    <3>1. (\A i \in 1 .. Len(p) : p[i] # x) <=> \A i \in 1 .. Len(p) - 1 : q[i] # x
      BY <1>2, <1>3, <2>3, ZenonT(40)
    <3> QED
      BY <1>1, <1>2, <1>4, <2>1, <2>3, <3>1
  <2> QED
    BY <2>2, <2>3
<1> QED
  BY <1>2, <1>4, <1>5 DEF Owning, q, vals2, n

LEMMA OwnMoved ==
  ASSUME RingConstants, NEW vals, NEW p, Owning(vals, p), NEW j \in 1 .. Len(p)
  PROVE  Owning(vals, With(Without(p, j), 0, p[j])) /\ \A i \in 1 .. Len(Without(p, j)) : Without(p, j)[i] # p[j]
<1> DEFINE n == p[j]
           vals2 == [vals EXCEPT ![n] = 0]
           v == vals[n]
           q == Without(p, j)
<1>1. /\ vals \in [RingNodes -> Vals \cup {0}] /\ n \in RingNodes /\ n \in ListNodes /\ v \in Vals
  <2>1. vals \in [RingNodes -> Vals \cup {0}]
    BY DEF Owning
  <2>2. \A i \in 1 .. Len(p) : p[i] \in ListNodes /\ p[i] \in RingNodes /\ vals[p[i]] \in Vals
    BY OwnedItems
  <2> QED
    BY <2>1, <2>2
<1>2. Owning(vals2, q)
  BY OwnLess
<1>3. vals2[n] = 0 /\ 0 \in 0 .. Len(q)
  <2>1. Len(q) \in Nat
    BY <1>2 DEF Owning, Order
  <2> QED
    BY <1>1, <2>1
<1>4. [vals2 EXCEPT ![n] = v] = vals
  BY <1>1
<1> HIDE DEF vals2, n, v, q
<1>5. Owning([vals2 EXCEPT ![n] = v], With(q, 0, n)) /\ \A i \in 1 .. Len(q) : q[i] # n
  BY <1>1, <1>2, <1>3, OwnMore
<1> QED
  BY <1>4, <1>5 DEF q, n

LEMMA WithoutShorter ==
  ASSUME NEW S, NEW t \in Seq(S), NEW j \in 1 .. Len(t)
  PROVE  Without(t, j) \in Seq(S) /\ Shorter(Without(t, j), t, j) /\ Len(Without(t, j)) = Len(t) - 1
<1> DEFINE k == Len(t)
           s == Without(t, j)
<1>1. s = [i \in 1 .. k - 1 |-> IF i < j THEN t[i] ELSE t[i + 1]] /\ k \in Nat /\ j \in 1 .. k
  BY DEF Without
<1> HIDE DEF s
<1>2. \A i \in 1 .. k : t[i] \in S
  OBVIOUS
<1> HIDE DEF k
<1>3. \A i \in 1 .. k - 1 : s[i] = IF i < j THEN t[i] ELSE t[i + 1]
  BY <1>1
<1>4. \A i \in 1 .. k - 1 : s[i] \in S
  <2>1. \A i \in 1 .. k - 1 : i \in 1 .. k /\ i + 1 \in 1 .. k
    BY <1>1
  <2> QED
    BY <1>2, <1>3, <2>1
<1>5. s \in Seq(S) /\ Len(s) = k - 1
  <2>1. k - 1 \in Nat
    BY <1>1
  <2> QED
    BY <1>1, <1>4, <2>1
<1> QED
  BY <1>3, <1>5 DEF Shorter, s, k

\* s is t with v inserted after place j.
Longer(s, t, j, v) ==
  /\ s[j + 1] = v
  /\ \A i \in 1 .. Len(t) : i <= j => s[i] = t[i]
  /\ \A i \in 1 .. Len(t) : i > j => s[i + 1] = t[i]

LEMMA WithLonger ==
  ASSUME NEW p, Len(p) \in Nat, NEW n, NEW j \in 0 .. Len(p)
  PROVE  Len(With(p, j, n)) = Len(p) + 1 /\ Longer(With(p, j, n), p, j, n)
<1>1. Len(With(p, j, n)) = Len(p) + 1
  BY WithMembers
<1>2. With(p, j, n)[j + 1] = n
  BY WithMembers
<1>3. \A i \in 1 .. Len(p) : i <= j => With(p, j, n)[i] = p[i]
  BY WithMembers
<1>4. \A i \in 1 .. Len(p) : i > j => With(p, j, n)[i + 1] = p[i]
  BY WithMembers
<1> QED
  BY ONLY <1>1, <1>2, <1>3, <1>4 DEF Longer

\* A new node after place j, with the value v.
LEMMA ItemsMore ==
  ASSUME RingConstants, NEW vals, NEW p, Owning(vals, p), NEW v \in Vals, NEW n \in ListNodes, vals[n] = 0,
         NEW j \in 0 .. Len(p)
  PROVE  /\ ItemsOf([vals EXCEPT ![n] = v], With(p, j, n)) \in Seq(Vals)
         /\ Len(ItemsOf([vals EXCEPT ![n] = v], With(p, j, n))) = Len(p) + 1
         /\ Longer(ItemsOf([vals EXCEPT ![n] = v], With(p, j, n)), ItemsOf(vals, p), j, v)
<1> DEFINE k == Len(p)
           vals2 == [vals EXCEPT ![n] = v]
           t == ItemsOf(vals, p)
           q == With(p, j, n)
           s == ItemsOf(vals2, q)
<1>1. /\ t \in Seq(Vals) /\ Len(t) = k /\ k \in Nat /\ (\A i \in 1 .. k : t[i] = vals[p[i]])
      /\ \A i \in 1 .. k : p[i] \in ListNodes /\ p[i] \in RingNodes
  BY OwnedItems
<1>2. vals \in [RingNodes -> Vals \cup {0}] /\ n \in RingNodes
  BY DEF Owning, ListNodes, RingNodes
<1>3. ASSUME NEW i \in 1 .. k PROVE p[i] # n
  <2>1. vals[n] = 0 <=> \A a \in 1 .. Len(p) : p[a] # n
    BY DEF Owning
  <2> QED
    BY <2>1
<1>4. vals2[n] = v /\ \A i \in 1 .. k : vals2[p[i]] = t[i]
  BY <1>1, <1>2, <1>3
<1>5. Owning(vals2, q)
  BY OwnMore
<1>6. Len(q) = k + 1 /\ Longer(q, p, j, n)
  BY <1>1, WithLonger
<1> HIDE DEF q, vals2
<1>7. s \in Seq(Vals) /\ Len(s) = k + 1 /\ \A i \in 1 .. k + 1 : s[i] = vals2[q[i]]
  BY <1>5, <1>6, OwnedItems
<1>8. q[j + 1] = n /\ (\A i \in 1 .. k : i <= j => q[i] = p[i]) /\ \A i \in 1 .. k : i > j => q[i + 1] = p[i]
  BY <1>6 DEF Longer
<1>9. j + 1 \in 1 .. k + 1 /\ \A i \in 1 .. k : i \in 1 .. k + 1 /\ i + 1 \in 1 .. k + 1
  BY <1>1
<1> HIDE DEF s, k, t
<1>10. s[j + 1] = v
  BY <1>4, <1>7, <1>8, <1>9
<1>11. \A i \in 1 .. k : i <= j => s[i] = t[i]
  BY <1>4, <1>7, <1>8, <1>9
<1>12. \A i \in 1 .. k : i > j => s[i + 1] = t[i]
  BY <1>4, <1>7, <1>8, <1>9
<1>13. Longer(s, t, j, v)
  BY <1>1, <1>10, <1>11, <1>12 DEF Longer
<1> QED
  BY <1>7, <1>13 DEF s, q, vals2, t, k

\* At the front.
LEMMA ItemsPushedFront ==
  ASSUME RingConstants, NEW vals, NEW p, Owning(vals, p), NEW v \in Vals, NEW n \in ListNodes, vals[n] = 0
  PROVE  ItemsOf([vals EXCEPT ![n] = v], With(p, 0, n)) = <<v>> \o ItemsOf(vals, p)
<1> DEFINE k == Len(p)
           t == ItemsOf(vals, p)
           s == ItemsOf([vals EXCEPT ![n] = v], With(p, 0, n))
<1>1. t \in Seq(Vals) /\ Len(t) = k /\ k \in Nat
  BY OwnedItems
<1>2. 0 \in 0 .. Len(p)
  BY <1>1
<1>3. s \in Seq(Vals) /\ Len(s) = k + 1 /\ Longer(s, t, 0, v)
  BY <1>2, ItemsMore
<1> HIDE DEF s, t, k
<1>4. s[1] = v /\ \A i \in 1 .. k : s[i + 1] = t[i]
  <2>1. 0 + 1 = 1 /\ \A i \in 1 .. k : i > 0
    BY <1>1
  <2> QED
    BY <1>1, <1>3, <2>1 DEF Longer
<1>5. s = <<v>> \o t
  BY <1>1, <1>3, <1>4, SeqCons
<1> QED
  BY <1>5 DEF s, t

\* At the back.
LEMMA ItemsPushedBack ==
  ASSUME RingConstants, NEW vals, NEW p, Owning(vals, p), NEW v \in Vals, NEW n \in ListNodes, vals[n] = 0
  PROVE  ItemsOf([vals EXCEPT ![n] = v], With(p, Len(p), n)) = Append(ItemsOf(vals, p), v)
<1> DEFINE k == Len(p)
           t == ItemsOf(vals, p)
           s == ItemsOf([vals EXCEPT ![n] = v], With(p, Len(p), n))
<1>1. t \in Seq(Vals) /\ Len(t) = k /\ k \in Nat
  BY OwnedItems
<1>2. Len(p) \in 0 .. Len(p)
  BY <1>1
<1>3. s \in Seq(Vals) /\ Len(s) = k + 1 /\ Longer(s, t, k, v)
  <2>1. ASSUME NEW j \in 0 .. Len(p)
        PROVE  /\ ItemsOf([vals EXCEPT ![n] = v], With(p, j, n)) \in Seq(Vals)
               /\ Len(ItemsOf([vals EXCEPT ![n] = v], With(p, j, n))) = Len(p) + 1
               /\ Longer(ItemsOf([vals EXCEPT ![n] = v], With(p, j, n)), ItemsOf(vals, p), j, v)
    BY ItemsMore
  <2> QED
    BY <1>2, <2>1, Zenon
<1> HIDE DEF s, t, k
<1>4. s[k + 1] = v /\ \A i \in 1 .. k : s[i] = t[i]
  <2>1. \A i \in 1 .. k : i <= k
    BY <1>1
  <2> QED
    BY <1>1, <1>3, <2>1 DEF Longer
<1>5. s = Append(t, v)
  BY <1>1, <1>3, <1>4, SeqSnoc
<1> QED
  BY <1>5 DEF s, t

\* Without the node at j; its value may have gone.
LEMMA ItemsLess ==
  ASSUME RingConstants, NEW vals, NEW p, Owning(vals, p), NEW j \in 1 .. Len(p)
  PROVE  /\ ItemsOf([vals EXCEPT ![p[j]] = 0], Without(p, j)) = Without(ItemsOf(vals, p), j)
         /\ ItemsOf(vals, Without(p, j)) = Without(ItemsOf(vals, p), j)
<1> DEFINE k == Len(p)
           n == p[j]
           q == Without(p, j)
           t == ItemsOf(vals, p)
           vals2 == [vals EXCEPT ![n] = 0]
<1>1. /\ t \in Seq(Vals) /\ Len(t) = k /\ k \in Nat /\ (\A i \in 1 .. k : t[i] = vals[p[i]])
      /\ \A i \in 1 .. k : p[i] \in RingNodes
  BY OwnedItems
<1>2. vals \in [RingNodes -> Vals \cup {0}] /\ Order(p) /\ MaxNodes \in Nat
  BY DEF Owning, RingConstants
<1>3. Len(q) = k - 1 /\ \A i \in 1 .. k - 1 : q[i] # n
  BY <1>2, WithoutFacts
<1>4. \A i \in 1 .. k - 1 : q[i] = IF i < j THEN p[i] ELSE p[i + 1]
  BY DEF Without
<1>5. \A i \in 1 .. k - 1 : i \in 1 .. k /\ i + 1 \in 1 .. k
  BY <1>1
<1>6. \A x \in RingNodes : x # n => vals2[x] = vals[x]
  BY <1>2
<1>7. Without(t, j) = [i \in 1 .. k - 1 |-> IF i < j THEN t[i] ELSE t[i + 1]]
  BY <1>1 DEF Without
<1> HIDE DEF k, q, t, n, vals2
<1>8. \A i \in 1 .. k - 1 : vals[q[i]] = (IF i < j THEN t[i] ELSE t[i + 1]) /\ vals2[q[i]] = vals[q[i]]
  BY <1>1, <1>3, <1>4, <1>5, <1>6
<1>9. ItemsOf(vals, q) = Without(t, j)
  BY <1>3, <1>7, <1>8 DEF ItemsOf
<1>10. ItemsOf(vals2, q) = Without(t, j)
  BY <1>3, <1>7, <1>8 DEF ItemsOf
<1> QED
  BY <1>9, <1>10 DEF k, q, t, n, vals2

\* With the node at j in front.
LEMMA ItemsMoved ==
  ASSUME RingConstants, NEW vals, NEW p, Owning(vals, p), NEW j \in 1 .. Len(p)
  PROVE  ItemsOf(vals, With(Without(p, j), 0, p[j])) = <<ItemsOf(vals, p)[j]>> \o Without(ItemsOf(vals, p), j)
<1> DEFINE n == p[j]
           v == vals[n]
           vals2 == [vals EXCEPT ![n] = 0]
           q == Without(p, j)
<1>1. /\ vals \in [RingNodes -> Vals \cup {0}] /\ n \in RingNodes /\ n \in ListNodes /\ v \in Vals
      /\ ItemsOf(vals, p)[j] = v
  BY OwnedItems DEF Owning
<1>2. Owning(vals2, q)
  BY OwnLess
<1>3. vals2[n] = 0 /\ [vals2 EXCEPT ![n] = v] = vals
  BY <1>1
<1>4. ItemsOf(vals2, q) = Without(ItemsOf(vals, p), j)
  BY ItemsLess
<1> HIDE DEF n, v, vals2, q
<1>5. ItemsOf([vals2 EXCEPT ![n] = v], With(q, 0, n)) = <<v>> \o ItemsOf(vals2, q)
  BY <1>1, <1>2, <1>3, ItemsPushedFront, ZenonT(40)
<1> QED
  BY <1>1, <1>3, <1>4, <1>5 DEF n, q

\* No more nodes than there are.
LEMMA OrderBounded ==
  ASSUME MaxNodes \in Nat, NEW p, Order(p)
  PROVE  Len(p) <= MaxNodes
<1> DEFINE k == Len(p)
<1>1. k \in Nat /\ p \in [1 .. k -> ListNodes] /\ \A a, b \in 1 .. k : p[a] = p[b] => a = b
  BY DEF Order
<1>2. p \in Injection(1 .. k, ListNodes)
  BY <1>1 DEF Injection, IsInjective
<1>3. 1 \in Int /\ k \in Int /\ MaxNodes \in Int
  BY <1>1
<1>4. IsFiniteSet(ListNodes) /\ Cardinality(ListNodes) = IF 1 > MaxNodes THEN 0 ELSE MaxNodes - 1 + 1
  BY <1>3, FS_Interval DEF ListNodes
<1>5. Cardinality(1 .. k) = IF 1 > k THEN 0 ELSE k - 1 + 1
  BY <1>3, FS_Interval
<1>6. Cardinality(1 .. k) <= Cardinality(ListNodes)
  BY <1>2, <1>4, FS_Injection
<1> HIDE DEF k
<1>7. k <= MaxNodes
  BY <1>1, <1>4, <1>5, <1>6
<1> QED
  BY <1>7 DEF k

(***************************************************************************)
(* The steps: what the list holds afterwards.                              *)
(***************************************************************************)

\* The list holds the items t after the step.
Becomes(t) == \E q : Held(q)' /\ ItemsOf(ringVal', q) = t

\* What Items means while p is held.
RingFinds == \A p : Held(p) => Ring!Walk = p /\ Ring!Items = ItemsOf(ringVal, p)

LEMMA FindsAlways ==
  ASSUME RingConstants
  PROVE  RingFinds
<1> SUFFICES ASSUME NEW p, Held(p) PROVE Ring!Walk = p /\ Ring!Items = ItemsOf(ringVal, p)
  BY DEF RingFinds
<1>1. Ring!Walk = p /\ p \in Seq(ListNodes) /\ Len(p) \in Nat /\ DOMAIN p = 1 .. Len(p)
  BY HeldItems DEF Held, Linked, Order
<1> QED
  BY <1>1 DEF Ring!Items, ItemsOf

LEMMA PointersPoint ==
  ASSUME NEW p, Held(p)
  PROVE  Pointing(Ring!Pointers, p)
BY DEF Held, Pointing, Ring!Pointers

\* The pointers ptr and the values vals hold the nodes q and the k items t.
Arranged(ptr, vals, q, k, t) == Pointing(ptr, q) /\ Owning(vals, q) /\ Len(q) = k /\ ItemsOf(vals, q) = t

LEMMA NowHeld ==
  ASSUME NEW ptr, NEW q, NEW vals, NEW k, NEW t, Arranged(ptr, vals, q, k, t), Ring!Set(ptr), ringVal' = vals,
         ringSize' = k
  PROVE  Becomes(t)
<1>1. ringNext' = ptr.next /\ ringPrev' = ptr.prev
  BY DEF Ring!Set
<1>2. Linked(ringNext', ringPrev', q)
  BY <1>1 DEF Arranged, Pointing
<1>3. Owning(ringVal', q) /\ ItemsOf(ringVal', q) = t /\ ringSize' = Len(q)
  BY DEF Arranged
<1>4. Held(q)'
  BY <1>2, <1>3 DEF Held
<1> QED
  BY <1>3, <1>4 DEF Becomes

LEMMA NewIs ==
  ASSUME Ring!Free # {}
  PROVE  Ring!New \in ListNodes /\ ringVal[Ring!New] = 0
<1>1. Ring!New \in Ring!Free
  BY DEF Ring!New
<1> QED
  BY <1>1 DEF Ring!Free, Ring!Nodes, ListNodes

LEMMA OwnedAvoid ==
  ASSUME NEW vals, NEW p, Owning(vals, p), NEW n \in ListNodes, vals[n] = 0
  PROVE  \A i \in 1 .. Len(p) : p[i] # n
BY DEF Owning

\* A node put in front of the list or after it.
LEMMA PutFront ==
  ASSUME RingConstants, NEW ptr, NEW vals, NEW p, Pointing(ptr, p), Owning(vals, p),
         NEW v \in Vals, NEW n \in ListNodes, vals[n] = 0
  PROVE  /\ Arranged(Ring!InsertedFirst(ptr, n), [vals EXCEPT ![n] = v], With(p, 0, n), Len(p) + 1, <<v>> \o ItemsOf(vals, p))
         /\ Len(p) + 1 <= MaxNodes
<1>1. MaxNodes \in Nat /\ \A i \in 1 .. Len(p) : p[i] # n
  BY OwnedAvoid DEF RingConstants
<1>2. Len(p) \in Nat /\ 0 \in 0 .. Len(p)
  BY OwnedItems
<1>3. Pointing(Ring!InsertedFirst(ptr, n), With(p, 0, n))
  BY <1>1, InsertedFirstIs
<1>4. Owning([vals EXCEPT ![n] = v], With(p, 0, n))
  BY <1>2, OwnMore
<1>5. Len(With(p, 0, n)) = Len(p) + 1
  BY <1>2, WithMembers
<1>6. Order(With(p, 0, n))
  BY <1>4 DEF Owning
<1>7. Len(p) + 1 <= MaxNodes
  BY <1>1, <1>5, <1>6, OrderBounded
<1>8. ItemsOf([vals EXCEPT ![n] = v], With(p, 0, n)) = <<v>> \o ItemsOf(vals, p)
  BY ItemsPushedFront
<1> QED
  BY <1>3, <1>4, <1>5, <1>7, <1>8 DEF Arranged

LEMMA PutBack ==
  ASSUME RingConstants, NEW ptr, NEW vals, NEW p, Pointing(ptr, p), Owning(vals, p),
         NEW v \in Vals, NEW n \in ListNodes, vals[n] = 0
  PROVE  /\ Arranged(Ring!InsertedLast(ptr, n), [vals EXCEPT ![n] = v], With(p, Len(p), n), Len(p) + 1, Append(ItemsOf(vals, p), v))
         /\ Len(p) + 1 <= MaxNodes
<1>1. MaxNodes \in Nat /\ \A i \in 1 .. Len(p) : p[i] # n
  BY OwnedAvoid DEF RingConstants
<1>2. Len(p) \in Nat /\ Len(p) \in 0 .. Len(p)
  BY OwnedItems
<1>3. Pointing(Ring!InsertedLast(ptr, n), With(p, Len(p), n))
  BY <1>1, InsertedLastIs
<1>4. Owning([vals EXCEPT ![n] = v], With(p, Len(p), n))
  BY <1>2, OwnMore, Zenon
<1>5. Len(With(p, Len(p), n)) = Len(p) + 1
  <2>1. ASSUME NEW j \in 0 .. Len(p) PROVE Len(With(p, j, n)) = Len(p) + 1
    BY <1>2, WithMembers
  <2> QED
    BY <1>2, <2>1, Zenon
<1>6. Order(With(p, Len(p), n))
  BY <1>4 DEF Owning
<1>7. Len(p) + 1 <= MaxNodes
  BY <1>1, <1>5, <1>6, OrderBounded
<1>8. ItemsOf([vals EXCEPT ![n] = v], With(p, Len(p), n)) = Append(ItemsOf(vals, p), v)
  BY ItemsPushedBack
<1> QED
  BY <1>3, <1>4, <1>5, <1>7, <1>8 DEF Arranged

\* A node taken out and freed.
LEMMA TakenOut ==
  ASSUME RingConstants, NEW ptr, NEW vals, NEW p, Pointing(ptr, p), Owning(vals, p), NEW j \in 1 .. Len(p)
  PROVE  Arranged(Ring!Freed(Ring!Unlinked(ptr, p[j]), p[j]), [vals EXCEPT ![p[j]] = 0], Without(p, j), Len(p) - 1,
                 Without(ItemsOf(vals, p), j))
<1>1. MaxNodes \in Nat /\ Order(p) /\ p[j] \in ListNodes
  BY OwnedItems DEF Owning, RingConstants
<1>2. Len(Without(p, j)) = Len(p) - 1 /\ \A i \in 1 .. Len(p) - 1 : Without(p, j)[i] # p[j]
  BY <1>1, WithoutFacts
<1>3. Pointing(Ring!Unlinked(ptr, p[j]), Without(p, j))
  BY <1>1, UnlinkedIs
<1>4. Pointing(Ring!Freed(Ring!Unlinked(ptr, p[j]), p[j]), Without(p, j))
  BY <1>1, <1>2, <1>3, FreedIs
<1>5. Owning([vals EXCEPT ![p[j]] = 0], Without(p, j))
  BY OwnLess
<1>6. ItemsOf([vals EXCEPT ![p[j]] = 0], Without(p, j)) = Without(ItemsOf(vals, p), j)
  BY ItemsLess
<1> QED
  BY <1>2, <1>4, <1>5, <1>6 DEF Arranged

\* A node moved to the front.
LEMMA BroughtForward ==
  ASSUME RingConstants, NEW ptr, NEW vals, NEW p, Pointing(ptr, p), Owning(vals, p), NEW j \in 1 .. Len(p)
  PROVE  Arranged(Ring!InsertedFirst(Ring!Unlinked(ptr, p[j]), p[j]), vals, With(Without(p, j), 0, p[j]), Len(p),
                 <<ItemsOf(vals, p)[j]>> \o Without(ItemsOf(vals, p), j))
<1>1. MaxNodes \in Nat /\ Order(p) /\ p[j] \in ListNodes /\ Len(p) \in Nat
  BY OwnedItems DEF Owning, RingConstants
<1>2. Len(Without(p, j)) = Len(p) - 1 /\ \A i \in 1 .. Len(p) - 1 : Without(p, j)[i] # p[j]
  BY <1>1, WithoutFacts
<1>3. Pointing(Ring!Unlinked(ptr, p[j]), Without(p, j))
  BY <1>1, UnlinkedIs
<1>4. Pointing(Ring!InsertedFirst(Ring!Unlinked(ptr, p[j]), p[j]), With(Without(p, j), 0, p[j]))
  BY <1>1, <1>2, <1>3, InsertedFirstIs
<1>5. Len(With(Without(p, j), 0, p[j])) = Len(p)
  <2> DEFINE q == Without(p, j)
  <2>1. Len(q) \in Nat /\ Len(q) = Len(p) - 1 /\ 0 \in 0 .. Len(q)
    BY <1>1, <1>2
  <2>2. Len(With(q, 0, p[j])) = Len(q) + 1
    BY <2>1, WithMembers
  <2> HIDE DEF q
  <2>3. Len(With(q, 0, p[j])) = Len(p)
    BY <1>1, <2>1, <2>2
  <2> QED
    BY <2>3 DEF q
<1>6. Owning(vals, With(Without(p, j), 0, p[j]))
  BY OwnMoved
<1>7. ItemsOf(vals, With(Without(p, j), 0, p[j])) = <<ItemsOf(vals, p)[j]>> \o Without(ItemsOf(vals, p), j)
  BY ItemsMoved
<1> QED
  BY <1>4, <1>5, <1>6, <1>7 DEF Arranged

LEMMA PushFrontStep ==
  ASSUME RingConstants, NEW p, Held(p), NEW v \in Vals, Ring!PushFront(v)
  PROVE  Becomes(<<v>> \o ItemsOf(ringVal, p)) /\ Len(p) + 1 <= MaxNodes
<1> DEFINE n == Ring!New
           q == With(p, 0, n)
<1>1. n \in ListNodes /\ ringVal[n] = 0 /\ Pointing(Ring!Pointers, p) /\ Owning(ringVal, p) /\ ringSize = Len(p)
  BY NewIs, PointersPoint DEF Ring!PushFront, Held
<1>2. Ring!Set(Ring!InsertedFirst(Ring!Pointers, n)) /\ ringVal' = [ringVal EXCEPT ![n] = v] /\ ringSize' = ringSize + 1
  BY DEF Ring!PushFront
<1> HIDE DEF n
<1>3. /\ Arranged(Ring!InsertedFirst(Ring!Pointers, n), [ringVal EXCEPT ![n] = v], q, Len(p) + 1, <<v>> \o ItemsOf(ringVal, p))
      /\ Len(p) + 1 <= MaxNodes
  BY <1>1, PutFront
<1> HIDE DEF q
<1> QED
  BY <1>1, <1>2, <1>3, NowHeld

LEMMA PushBackStep ==
  ASSUME RingConstants, NEW p, Held(p), NEW v \in Vals, Ring!PushBack(v)
  PROVE  Becomes(Append(ItemsOf(ringVal, p), v)) /\ Len(p) + 1 <= MaxNodes
<1> DEFINE n == Ring!New
           q == With(p, Len(p), n)
<1>1. n \in ListNodes /\ ringVal[n] = 0 /\ Pointing(Ring!Pointers, p) /\ Owning(ringVal, p) /\ ringSize = Len(p)
  BY NewIs, PointersPoint DEF Ring!PushBack, Held
<1>2. Ring!Set(Ring!InsertedLast(Ring!Pointers, n)) /\ ringVal' = [ringVal EXCEPT ![n] = v] /\ ringSize' = ringSize + 1
  BY DEF Ring!PushBack
<1> HIDE DEF n
<1>3. /\ Arranged(Ring!InsertedLast(Ring!Pointers, n), [ringVal EXCEPT ![n] = v], q, Len(p) + 1, Append(ItemsOf(ringVal, p), v))
      /\ Len(p) + 1 <= MaxNodes
  BY <1>1, PutBack
<1> HIDE DEF q
<1> QED
  BY <1>1, <1>2, <1>3, NowHeld

LEMMA DropStep ==
  ASSUME RingConstants, NEW p, Held(p), NEW j \in 1 .. Len(p), Ring!Drop(p[j])
  PROVE  Becomes(Without(ItemsOf(ringVal, p), j))
<1> DEFINE n == p[j]
           q == Without(p, j)
           ptr == Ring!Freed(Ring!Unlinked(Ring!Pointers, n), n)
           vals == [ringVal EXCEPT ![n] = 0]
<1>1. Pointing(Ring!Pointers, p) /\ Owning(ringVal, p) /\ ringSize = Len(p)
  BY PointersPoint DEF Held
<1>2. Ring!Set(ptr) /\ ringVal' = vals /\ ringSize' = ringSize - 1
  BY DEF Ring!Drop
<1>3. Arranged(ptr, vals, q, Len(p) - 1, Without(ItemsOf(ringVal, p), j))
  BY <1>1, TakenOut
<1> HIDE DEF q, ptr, vals
<1> QED
  BY <1>1, <1>2, <1>3, NowHeld

LEMMA ToFrontStep ==
  ASSUME RingConstants, NEW p, Held(p), NEW j \in 1 .. Len(p), Ring!ToFront(p[j]), UNCHANGED <<ringVal, ringSize>>
  PROVE  Becomes(<<ItemsOf(ringVal, p)[j]>> \o Without(ItemsOf(ringVal, p), j))
<1> DEFINE n == p[j]
           q == With(Without(p, j), 0, n)
           ptr == Ring!InsertedFirst(Ring!Unlinked(Ring!Pointers, n), n)
<1>1. Pointing(Ring!Pointers, p) /\ Owning(ringVal, p) /\ ringSize = Len(p)
  BY PointersPoint DEF Held
<1>2. Ring!Set(ptr) /\ ringVal' = ringVal /\ ringSize' = ringSize
  BY DEF Ring!ToFront
<1>3. Arranged(ptr, ringVal, q, Len(p), <<ItemsOf(ringVal, p)[j]>> \o Without(ItemsOf(ringVal, p), j))
  BY <1>1, BroughtForward
<1> HIDE DEF q, ptr
<1> QED
  BY <1>1, <1>2, <1>3, NowHeld

\* The first and the last node.
LEMMA RingEnds ==
  ASSUME MaxNodes \in Nat, NEW nx, NEW pv, NEW p, Linked(nx, pv, p), 1 <= Len(p)
  PROVE  nx[0] = p[1] /\ pv[0] = p[Len(p)] /\ 1 \in 1 .. Len(p) /\ Len(p) \in 1 .. Len(p)
<1>1. Len(p) \in Nat /\ At(p, 0) = 0 /\ At(p, Len(p) + 1) = 0 /\ \A i \in 1 .. Len(p) : At(p, i) = p[i]
  BY AtFacts DEF Linked
<1>2. 0 \in 0 .. Len(p) /\ Len(p) \in 0 .. Len(p) /\ 1 \in 1 .. Len(p) /\ Len(p) \in 1 .. Len(p) /\ 0 + 1 = 1
  BY <1>1
<1>3. nx[At(p, 0)] = At(p, 0 + 1)
  BY <1>2 DEF Linked
<1>4. pv[At(p, Len(p) + 1)] = At(p, Len(p))
  BY <1>2 DEF Linked
<1> QED
  BY <1>1, <1>2, <1>3, <1>4

\* A miss of the cache that is full: the node that came in front may be the
\* last one, which goes.
Evicts(v, n, pushed, last, vals) ==
  /\ Ring!Free # {} /\ n = Ring!New /\ pushed = Ring!InsertedFirst(Ring!Pointers, n)
  /\ last = pushed.prev[0] /\ vals = [ringVal EXCEPT ![n] = v]
  /\ Ring!Set(Ring!Freed(Ring!Unlinked(pushed, last), last)) /\ ringVal' = [vals EXCEPT ![last] = 0]
  /\ UNCHANGED ringSize

LEMMA EvictStep ==
  ASSUME RingConstants, NEW p, Held(p), NEW v \in Vals, NEW n, NEW pushed, NEW last, NEW vals,
         Evicts(v, n, pushed, last, vals)
  PROVE  /\ Becomes(Without(<<v>> \o ItemsOf(ringVal, p), Len(p) + 1))
         /\ vals[last] = (<<v>> \o ItemsOf(ringVal, p))[Len(p) + 1]
<1>0. /\ Ring!Free # {} /\ n = Ring!New /\ pushed = Ring!InsertedFirst(Ring!Pointers, n)
      /\ last = pushed.prev[0] /\ vals = [ringVal EXCEPT ![n] = v]
      /\ Ring!Set(Ring!Freed(Ring!Unlinked(pushed, last), last)) /\ ringVal' = [vals EXCEPT ![last] = 0]
      /\ UNCHANGED ringSize
  BY DEF Evicts
<1> DEFINE q == With(p, 0, n)
           t == <<v>> \o ItemsOf(ringVal, p)
           k == Len(p) + 1
<1>1. n \in ListNodes /\ ringVal[n] = 0 /\ Pointing(Ring!Pointers, p) /\ Owning(ringVal, p) /\ ringSize = Len(p)
      /\ Len(p) \in Nat /\ MaxNodes \in Nat
  BY <1>0, NewIs, PointersPoint, OwnedItems DEF Held, RingConstants
<1>2. Arranged(pushed, vals, q, k, t)
  BY <1>0, <1>1, PutFront
<1>3. Pointing(pushed, q) /\ Owning(vals, q) /\ Len(q) = k /\ ItemsOf(vals, q) = t
  BY <1>2 DEF Arranged
<1>4. k \in 1 .. k /\ 1 <= k
  BY <1>1
<1> HIDE DEF q, t, k
<1>5. last = q[k] /\ k \in 1 .. Len(q)
  <2>1. Linked(pushed.next, pushed.prev, q) /\ 1 <= Len(q)
    BY <1>3, <1>4 DEF Pointing
  <2>2. pushed.prev[0] = q[Len(q)] /\ Len(q) \in 1 .. Len(q)
    BY <1>1, <2>1, RingEnds
  <2> QED
    BY <1>0, <1>3, <2>2
<1>6. vals[last] = t[k]
  <2>1. \A i \in 1 .. Len(q) : ItemsOf(vals, q)[i] = vals[q[i]]
    BY DEF ItemsOf
  <2> QED
    BY <1>3, <1>5, <2>1
<1>7. Arranged(Ring!Freed(Ring!Unlinked(pushed, q[k]), q[k]), [vals EXCEPT ![q[k]] = 0], Without(q, k), Len(q) - 1,
               Without(ItemsOf(vals, q), k))
  BY <1>3, <1>5, TakenOut
<1>8. Arranged(Ring!Freed(Ring!Unlinked(pushed, last), last), [vals EXCEPT ![last] = 0], Without(q, k), Len(q) - 1,
               Without(t, k))
  BY <1>3, <1>5, <1>7
<1>9. ringSize' = Len(q) - 1
  BY <1>0, <1>1, <1>3 DEF k
<1>10. Becomes(Without(t, k))
  BY <1>0, <1>8, <1>9, NowHeld
<1> QED
  BY <1>6, <1>10 DEF t, k

(***************************************************************************)
(* The refinement.                                                         *)
(***************************************************************************)
Abs == INSTANCE Sequence WITH Capacity <- MaxNodes, items <- Ring!Items, call <- ringCall

LEMMA RemovedIs ==
  ASSUME NEW t \in Seq(Vals), NEW j \in 1 .. Len(t)
  PROVE  Without(t, j) = Abs!RemoveAt(t, j)
<1>1. Without(t, j) \in Seq(Vals) /\ Shorter(Without(t, j), t, j)
  BY WithoutShorter
<1>2. Without(t, j) = SubSeq(t, 1, j - 1) \o SubSeq(t, j + 1, Len(t))
  BY <1>1, SeqRemove
<1> QED
  BY <1>2 DEF Abs!RemoveAt

LEMMA TailIs ==
  ASSUME NEW t \in Seq(Vals), 1 <= Len(t)
  PROVE  Without(t, 1) = Tail(t) /\ Head(t) = t[1] /\ t # <<>>
<1>1. 1 \in 1 .. Len(t)
  OBVIOUS
<1>2. Without(t, 1) \in Seq(Vals) /\ Shorter(Without(t, 1), t, 1)
  BY <1>1, WithoutShorter
<1> QED
  BY <1>2, SeqTail

LEMMA FrontIs ==
  ASSUME NEW t \in Seq(Vals), 1 <= Len(t)
  PROVE  Without(t, Len(t)) = Abs!Front(t) /\ Abs!Last(t) = t[Len(t)] /\ t # <<>>
<1>1. Len(t) \in 1 .. Len(t)
  OBVIOUS
<1>2. Without(t, Len(t)) \in Seq(Vals) /\ Shorter(Without(t, Len(t)), t, Len(t))
  BY <1>1, WithoutShorter
<1>3. Without(t, Len(t)) = SubSeq(t, 1, Len(t) - 1) /\ t # <<>>
  BY <1>2, SeqFront
<1> QED
  BY <1>3 DEF Abs!Front, Abs!Last

\* The first place of v in t.
Place(t, v) == LET I == {j \in 1 .. Len(t) : t[j] = v} IN IF I # {} THEN Abs!Min(I) ELSE 0

LEMMA PlaceIs ==
  ASSUME NEW t \in Seq(Vals), NEW v, NEW i \in 1 .. Len(t), t[i] = v, \A j \in 1 .. Len(t) : t[j] = v => i <= j
  PROVE  Abs!Contains(t, v) /\ Place(t, v) = i
<1> DEFINE I == {j \in 1 .. Len(t) : t[j] = v}
<1>1. i \in I /\ I \subseteq Int /\ \A j \in I : i <= j
  OBVIOUS
<1>2. Abs!Contains(t, v)
  BY DEF Abs!Contains
<1>3. Place(t, v) = IF I # {} THEN Abs!Min(I) ELSE 0
  BY DEF Place
<1> HIDE DEF I
<1>4. Abs!Min(I) = CHOOSE x \in I : \A y \in I : x <= y
  BY DEF Abs!Min
<1>5. \A x \in I : (\A y \in I : x <= y) => x = i
  BY <1>1
<1>6. Abs!Min(I) = i
  BY <1>1, <1>4, <1>5
<1> QED
  BY <1>1, <1>2, <1>3, <1>6

LEMMA BecomesMeans ==
  ASSUME NEW t, Becomes(t), RingFinds'
  PROVE  RingInv' /\ Ring!Items' = t
BY DEF Becomes, RingFinds, RingInv

\* What is held before a step.
LEMMA HeldMeans ==
  ASSUME RingConstants, NEW p, Held(p)
  PROVE  /\ Ring!Walk = p /\ Ring!Items = ItemsOf(ringVal, p)
         /\ Ring!Items \in Seq(Vals) /\ Len(Ring!Items) = Len(p) /\ Len(p) \in Nat /\ Len(p) <= MaxNodes
         /\ ringSize = Len(p) /\ \A i \in 1 .. Len(p) : Ring!Items[i] = ringVal[p[i]]
<1>1. Ring!Walk = p /\ Ring!Items = ItemsOf(ringVal, p)
  BY FindsAlways DEF RingFinds
<1>2. Owning(ringVal, p) /\ ringSize = Len(p) /\ Order(p)
  BY DEF Held, Owning
<1>3. Len(p) <= MaxNodes
  BY <1>2, OrderBounded DEF RingConstants
<1> QED
  BY <1>1, <1>2, <1>3, OwnedItems

LEMMA PushFrontRefines ==
  ASSUME RingConstants, NEW p, Held(p), RingFinds', NEW v \in Vals, Ring!PushFront(v)
  PROVE  RingInv' /\ Abs!PushFront(v)
<1>1. Ring!Items = ItemsOf(ringVal, p) /\ Len(Ring!Items) = Len(p) /\ Len(p) \in Nat
  BY HeldMeans
<1>2. Becomes(<<v>> \o Ring!Items) /\ Len(p) + 1 <= MaxNodes
  BY <1>1, PushFrontStep
<1>3. RingInv' /\ Ring!Items' = <<v>> \o Ring!Items
  BY <1>2, BecomesMeans
<1>4. Abs!Called("push_front", v, 1)
  BY DEF Ring!PushFront, Ring!Called, Abs!Called
<1>5. Len(Ring!Items) < MaxNodes
  BY <1>1, <1>2 DEF RingConstants
<1> QED
  BY <1>3, <1>4, <1>5 DEF Abs!PushFront

LEMMA PushBackRefines ==
  ASSUME RingConstants, NEW p, Held(p), RingFinds', NEW v \in Vals, Ring!PushBack(v)
  PROVE  RingInv' /\ Abs!PushBack(v)
<1>1. Ring!Items = ItemsOf(ringVal, p) /\ Len(Ring!Items) = Len(p) /\ Len(p) \in Nat
  BY HeldMeans
<1>2. Becomes(Append(Ring!Items, v)) /\ Len(p) + 1 <= MaxNodes
  BY <1>1, PushBackStep
<1>3. RingInv' /\ Ring!Items' = Append(Ring!Items, v)
  BY <1>2, BecomesMeans
<1>4. Abs!Called("push_back", v, 1)
  BY DEF Ring!PushBack, Ring!Called, Abs!Called
<1>5. Len(Ring!Items) < MaxNodes
  BY <1>1, <1>2 DEF RingConstants
<1> QED
  BY <1>3, <1>4, <1>5 DEF Abs!PushBack

LEMMA PopFrontRefines ==
  ASSUME RingConstants, NEW p, Held(p), RingFinds', Ring!PopFront
  PROVE  RingInv' /\ Abs!PopFront
<1>1. /\ Ring!Items = ItemsOf(ringVal, p) /\ Ring!Items \in Seq(Vals) /\ Len(Ring!Items) = Len(p)
      /\ Len(p) \in Nat /\ ringSize = Len(p) /\ \A i \in 1 .. Len(p) : Ring!Items[i] = ringVal[p[i]]
  BY HeldMeans
<1>2. 1 <= Len(p) /\ 1 \in 1 .. Len(p)
  BY <1>1 DEF Ring!PopFront
<1>3. ringNext[0] = p[1]
  BY <1>2, RingEnds DEF Held, RingConstants
<1>4. Ring!Drop(p[1]) /\ Ring!Called("pop_front", 0, ringVal[p[1]])
  BY <1>3 DEF Ring!PopFront, Ring!Sentinel
<1>5. Becomes(Without(Ring!Items, 1))
  BY <1>1, <1>2, <1>4, DropStep
<1>6. RingInv' /\ Ring!Items' = Without(Ring!Items, 1)
  BY <1>5, BecomesMeans
<1>7. Without(Ring!Items, 1) = Tail(Ring!Items) /\ Head(Ring!Items) = Ring!Items[1] /\ Ring!Items # <<>>
  BY <1>1, <1>2, TailIs
<1>8. Abs!Called("pop_front", 0, Head(Ring!Items))
  BY <1>1, <1>2, <1>4, <1>7 DEF Ring!Called, Abs!Called
<1> QED
  BY <1>6, <1>7, <1>8 DEF Abs!PopFront

LEMMA PopBackRefines ==
  ASSUME RingConstants, NEW p, Held(p), RingFinds', Ring!PopBack
  PROVE  RingInv' /\ Abs!PopBack
<1>1. /\ Ring!Items = ItemsOf(ringVal, p) /\ Ring!Items \in Seq(Vals) /\ Len(Ring!Items) = Len(p)
      /\ Len(p) \in Nat /\ ringSize = Len(p) /\ \A i \in 1 .. Len(p) : Ring!Items[i] = ringVal[p[i]]
  BY HeldMeans
<1>2. 1 <= Len(p) /\ Len(p) \in 1 .. Len(p)
  BY <1>1 DEF Ring!PopBack
<1>3. ringPrev[0] = p[Len(p)]
  BY <1>2, RingEnds DEF Held, RingConstants
<1>4. Ring!Drop(p[Len(p)]) /\ Ring!Called("pop_back", 0, ringVal[p[Len(p)]])
  BY <1>3 DEF Ring!PopBack, Ring!Sentinel
<1>5. Becomes(Without(Ring!Items, Len(p)))
  BY <1>1, <1>2, <1>4, DropStep
<1>6. RingInv' /\ Ring!Items' = Without(Ring!Items, Len(p))
  BY <1>5, BecomesMeans
<1>7. Without(Ring!Items, Len(p)) = Abs!Front(Ring!Items) /\ Abs!Last(Ring!Items) = Ring!Items[Len(p)] /\ Ring!Items # <<>>
  BY <1>1, <1>2, FrontIs
<1>8. Abs!Called("pop_back", 0, Abs!Last(Ring!Items))
  BY <1>1, <1>2, <1>4, <1>7 DEF Ring!Called, Abs!Called
<1> QED
  BY <1>6, <1>7, <1>8 DEF Abs!PopBack

LEMMA DeleteAtRefines ==
  ASSUME RingConstants, NEW p, Held(p), RingFinds', NEW i \in 1 .. ringSize, Ring!DeleteAt(i)
  PROVE  RingInv' /\ Abs!DeleteAt(i) /\ i \in 1 .. MaxNodes
<1>1. /\ Ring!Walk = p /\ Ring!Items = ItemsOf(ringVal, p) /\ Ring!Items \in Seq(Vals) /\ Len(Ring!Items) = Len(p)
      /\ Len(p) \in Nat /\ Len(p) <= MaxNodes /\ ringSize = Len(p)
  BY HeldMeans
<1>2. i \in 1 .. Len(p) /\ i \in DOMAIN Ring!Items /\ i \in 1 .. Len(Ring!Items) /\ i \in 1 .. MaxNodes
  BY <1>1 DEF RingConstants
<1>3. Ring!Drop(p[i]) /\ Ring!Called("delete_at", i, 0)
  BY <1>1 DEF Ring!DeleteAt
<1>4. Becomes(Without(Ring!Items, i))
  BY <1>1, <1>2, <1>3, DropStep
<1>5. RingInv' /\ Ring!Items' = Without(Ring!Items, i)
  BY <1>4, BecomesMeans
<1>6. Without(Ring!Items, i) = Abs!RemoveAt(Ring!Items, i)
  BY <1>1, <1>2, RemovedIs
<1>7. Abs!Called("delete_at", i, 0)
  BY <1>3 DEF Ring!Called, Abs!Called
<1> QED
  BY <1>2, <1>5, <1>6, <1>7 DEF Abs!DeleteAt

LEMMA MoveToFrontRefines ==
  ASSUME RingConstants, NEW p, Held(p), RingFinds', NEW i \in 1 .. ringSize, Ring!MoveToFront(i)
  PROVE  RingInv' /\ Abs!MoveToFront(i) /\ i \in 1 .. MaxNodes
<1>1. /\ Ring!Walk = p /\ Ring!Items = ItemsOf(ringVal, p) /\ Ring!Items \in Seq(Vals) /\ Len(Ring!Items) = Len(p)
      /\ Len(p) \in Nat /\ Len(p) <= MaxNodes /\ ringSize = Len(p)
  BY HeldMeans
<1>2. i \in 1 .. Len(p) /\ i \in DOMAIN Ring!Items /\ i \in 1 .. Len(Ring!Items) /\ i \in 1 .. MaxNodes
  BY <1>1 DEF RingConstants
<1>3. Ring!ToFront(p[i]) /\ Ring!Called("move_to_front", i, 0) /\ UNCHANGED <<ringVal, ringSize>>
  BY <1>1 DEF Ring!MoveToFront
<1>4. Becomes(<<Ring!Items[i]>> \o Without(Ring!Items, i))
  BY <1>1, <1>2, <1>3, ToFrontStep
<1>5. RingInv' /\ Ring!Items' = <<Ring!Items[i]>> \o Without(Ring!Items, i)
  BY <1>4, BecomesMeans
<1>6. Without(Ring!Items, i) = Abs!RemoveAt(Ring!Items, i)
  BY <1>1, <1>2, RemovedIs
<1>7. Abs!Called("move_to_front", i, 0)
  BY <1>3 DEF Ring!Called, Abs!Called
<1> QED
  BY <1>2, <1>5, <1>6, <1>7 DEF Abs!MoveToFront

\* The places that hold v, and the first of them.
LEMMA HoldingIs ==
  ASSUME RingConstants, NEW p, Held(p), NEW v
  PROVE  Ring!Holding(v) = {i \in 1 .. Len(p) : Ring!Items[i] = v}
<1>1. Ring!Walk = p /\ \A i \in 1 .. Len(p) : Ring!Items[i] = ringVal[p[i]]
  BY HeldMeans
<1>2. DOMAIN p = 1 .. Len(p)
  BY DEF Held, Linked, Order
<1> QED
  BY <1>1, <1>2 DEF Ring!Holding

LEMMA AccessHitRefines ==
  ASSUME RingConstants, NEW p, Held(p), RingFinds', NEW v \in Vals, NEW max, Ring!AccessHit(v)
  PROVE  RingInv' /\ Abs!Access(v, max)
<1>1. /\ Ring!Walk = p /\ Ring!Items = ItemsOf(ringVal, p) /\ Ring!Items \in Seq(Vals) /\ Len(Ring!Items) = Len(p)
      /\ Len(p) \in Nat
  BY HeldMeans
<1>2. PICK i \in Ring!Holding(v) : /\ \A j \in Ring!Holding(v) : i <= j
                                   /\ Ring!ToFront(p[i]) /\ Ring!Called("access", v, -1)
                                   /\ UNCHANGED <<ringVal, ringSize>>
  BY <1>1 DEF Ring!AccessHit
<1>3. i \in 1 .. Len(p) /\ Ring!Items[i] = v /\ \A j \in 1 .. Len(p) : Ring!Items[j] = v => i <= j
  BY <1>2, HoldingIs
<1>4. Becomes(<<Ring!Items[i]>> \o Without(Ring!Items, i))
  BY <1>1, <1>2, <1>3, ToFrontStep
<1>5. RingInv' /\ Ring!Items' = <<v>> \o Without(Ring!Items, i)
  BY <1>3, <1>4, BecomesMeans
<1>6. Without(Ring!Items, i) = Abs!RemoveAt(Ring!Items, i)
  BY <1>1, <1>3, RemovedIs
<1>7. Abs!Contains(Ring!Items, v) /\ Place(Ring!Items, v) = i
  BY <1>1, <1>3, PlaceIs
<1>8. Abs!Called("access", v, -1)
  BY <1>2 DEF Ring!Called, Abs!Called
<1>9. Ring!Items' = <<v>> \o Abs!RemoveAt(Ring!Items, Place(Ring!Items, v))
  BY <1>5, <1>6, <1>7
<1>10. Abs!Access(v, max)
  BY <1>7, <1>8, <1>9 DEF Abs!Access, Abs!SelectInSeq, Place
<1> QED
  BY <1>5, <1>10

\* A miss that finds room.
LEMMA AccessRoomStep ==
  ASSUME RingConstants, NEW p, Held(p), NEW v \in Vals, Ring!Free # {},
         Ring!Set(Ring!InsertedFirst(Ring!Pointers, Ring!New)), ringVal' = [ringVal EXCEPT ![Ring!New] = v],
         ringSize' = ringSize + 1
  PROVE  Becomes(<<v>> \o ItemsOf(ringVal, p))
<1> DEFINE n == Ring!New
           q == With(p, 0, n)
<1>1. n \in ListNodes /\ ringVal[n] = 0 /\ Pointing(Ring!Pointers, p) /\ Owning(ringVal, p) /\ ringSize = Len(p)
  BY NewIs, PointersPoint DEF Held
<1> HIDE DEF n
<1>2. Arranged(Ring!InsertedFirst(Ring!Pointers, n), [ringVal EXCEPT ![n] = v], q, Len(p) + 1, <<v>> \o ItemsOf(ringVal, p))
  BY <1>1, PutFront
<1> HIDE DEF q
<1>3. Ring!Set(Ring!InsertedFirst(Ring!Pointers, n)) /\ ringVal' = [ringVal EXCEPT ![n] = v] /\ ringSize' = Len(p) + 1
  BY <1>1 DEF n
<1> QED
  BY <1>2, <1>3, NowHeld

LEMMA AccessMissRefines ==
  ASSUME RingConstants, NEW p, Held(p), RingFinds', NEW v \in Vals, NEW max \in 0 .. MaxNodes, Ring!AccessMiss(v, max)
  PROVE  RingInv' /\ Abs!Access(v, max)
<1> DEFINE n == Ring!New
           pushed == Ring!InsertedFirst(Ring!Pointers, n)
           last == pushed.prev[0]
           vals == [ringVal EXCEPT ![n] = v]
           t == <<v>> \o Ring!Items
<1>1. /\ Ring!Walk = p /\ Ring!Items = ItemsOf(ringVal, p) /\ Ring!Items \in Seq(Vals) /\ Len(Ring!Items) = Len(p)
      /\ Len(p) \in Nat /\ ringSize = Len(p)
  BY HeldMeans
<1>2. ~Abs!Contains(Ring!Items, v)
  <2>1. Ring!Holding(v) = {}
    BY DEF Ring!AccessMiss
  <2>2. \A i \in 1 .. Len(p) : Ring!Items[i] # v
    BY <2>1, HoldingIs
  <2> QED
    BY <1>1, <2>2 DEF Abs!Contains
<1>3. Ring!Free # {}
  BY DEF Ring!AccessMiss
<1>4. \/ /\ ringSize + 1 > max
         /\ Ring!Set(Ring!Freed(Ring!Unlinked(pushed, last), last)) /\ ringVal' = [vals EXCEPT ![last] = 0]
         /\ Ring!Called("access", v, vals[last]) /\ UNCHANGED ringSize
      \/ /\ ringSize + 1 <= max
         /\ Ring!Set(pushed) /\ ringVal' = vals /\ ringSize' = ringSize + 1 /\ Ring!Called("access", v, -1)
  BY DEF Ring!AccessMiss, Ring!Sentinel
<1>5. CASE /\ ringSize + 1 > max
           /\ Ring!Set(Ring!Freed(Ring!Unlinked(pushed, last), last)) /\ ringVal' = [vals EXCEPT ![last] = 0]
           /\ Ring!Called("access", v, vals[last]) /\ UNCHANGED ringSize
  <2>1. Becomes(Without(t, Len(p) + 1)) /\ vals[last] = t[Len(p) + 1]
    <3>1. /\ Becomes(Without(<<v>> \o ItemsOf(ringVal, p), Len(p) + 1))
          /\ vals[last] = (<<v>> \o ItemsOf(ringVal, p))[Len(p) + 1]
      <4>1. Evicts(v, n, pushed, last, vals)
        BY <1>3, <1>5 DEF Evicts
      <4> HIDE DEF n, pushed, last, vals
      <4> QED
        BY <4>1, EvictStep, ZenonT(40)
    <3> QED
      BY <1>1, <3>1
  <2>2. t \in Seq(Vals) /\ Len(t) = Len(p) + 1 /\ 1 <= Len(t)
    BY <1>1
  <2> HIDE DEF t
  <2>3. Without(t, Len(t)) = Abs!Front(t) /\ Abs!Last(t) = t[Len(t)]
    BY <2>2, FrontIs
  <2>4. RingInv' /\ Ring!Items' = Abs!Front(t)
    BY <2>1, <2>2, <2>3, BecomesMeans
  <2>5. Abs!Called("access", v, Abs!Last(t))
    BY <1>5, <2>1, <2>2, <2>3 DEF Ring!Called, Abs!Called
  <2>6. Len(Ring!Items) >= max
    BY <1>1, <1>5 DEF RingConstants
  <2> QED
    BY <1>2, <2>4, <2>5, <2>6 DEF Abs!Access, t
<1>6. CASE /\ ringSize + 1 <= max
           /\ Ring!Set(pushed) /\ ringVal' = vals /\ ringSize' = ringSize + 1 /\ Ring!Called("access", v, -1)
  <2>1. Becomes(t)
    <3>1. Becomes(<<v>> \o ItemsOf(ringVal, p))
      BY <1>3, <1>6, AccessRoomStep
    <3> QED
      BY <1>1, <3>1
  <2> HIDE DEF t
  <2>2. RingInv' /\ Ring!Items' = t
    BY <2>1, BecomesMeans
  <2>3. Abs!Called("access", v, -1)
    BY <1>6 DEF Ring!Called, Abs!Called
  <2>4. Len(Ring!Items) < max
    BY <1>1, <1>6 DEF RingConstants
  <2> QED
    BY <1>2, <2>2, <2>3, <2>4 DEF Abs!Access, t
<1> QED
  BY <1>4, <1>5, <1>6

LEMMA RingStarts ==
  ASSUME RingConstants, Ring!Init
  PROVE  RingInv /\ Abs!Init
<1> DEFINE p == <<>>
<1>1. MaxNodes \in Nat /\ p \in Seq(ListNodes) /\ Len(p) = 0 /\ \A i \in 1 .. Len(p) : FALSE
  BY DEF RingConstants
<1>2. /\ ringNext = [n \in RingNodes |-> n] /\ ringPrev = [n \in RingNodes |-> n]
      /\ ringVal = [n \in RingNodes |-> 0] /\ ringSize = 0
      /\ ringCall = [op |-> "create", arg |-> 0, answer |-> 0]
  BY DEF Ring!Init, RingNodes
<1> HIDE DEF p
<1>3. Order(p)
  BY <1>1 DEF Order
<1>4. Linked(ringNext, ringPrev, p)
  <2>1. \A i \in 0 .. Len(p) : At(p, i) = 0 /\ At(p, i + 1) = 0 /\ 0 \in RingNodes
    BY <1>1 DEF At, RingNodes
  <2> QED
    BY <1>2, <1>3, <2>1 DEF Linked
<1>5. Owning(ringVal, p)
  <2>1. ListNodes \subseteq RingNodes
    BY DEF ListNodes, RingNodes
  <2> QED
    BY <1>1, <1>2, <1>3, <2>1 DEF Owning
<1>6. Held(p)
  BY <1>1, <1>2, <1>4, <1>5 DEF Held
<1>7. Ring!Items = <<>>
  <2>1. Ring!Items \in Seq(Vals) /\ Len(Ring!Items) = 0
    BY <1>1, <1>6, HeldMeans
  <2> QED
    BY <2>1
<1> QED
  BY <1>2, <1>6, <1>7 DEF RingInv, Abs!Init

LEMMA RingSteps ==
  ASSUME RingConstants, RingInv, RingFinds, RingFinds', [Ring!Next]_(Ring!vars)
  PROVE  RingInv' /\ [Abs!Next]_(Abs!vars)
<1>1. PICK p : Held(p)
  BY DEF RingInv
<1>2. CASE UNCHANGED Ring!vars
  <2>1. Held(p)' /\ ringVal' = ringVal /\ ringCall' = ringCall
    BY <1>1, <1>2 DEF Ring!vars, Held
  <2>2. Ring!Items' = ItemsOf(ringVal', p) /\ Ring!Items = ItemsOf(ringVal, p)
    BY <1>1, <2>1 DEF RingFinds
  <2>3. UNCHANGED Abs!vars
    BY <2>1, <2>2 DEF Abs!vars
  <2> QED
    BY <2>1, <2>3 DEF RingInv
<1>3. ASSUME NEW v \in Vals, Ring!PushFront(v) \/ Ring!PushBack(v) \/ Ring!AccessHit(v)
      PROVE  RingInv' /\ Abs!Next
  <2>1. CASE Ring!PushFront(v)
    <3>1. RingInv' /\ Abs!PushFront(v)
      BY <1>1, <2>1, PushFrontRefines
    <3> QED
      BY <3>1 DEF Abs!Next
  <2>2. CASE Ring!PushBack(v)
    <3>1. RingInv' /\ Abs!PushBack(v)
      BY <1>1, <2>2, PushBackRefines
    <3> QED
      BY <3>1 DEF Abs!Next
  <2>3. CASE Ring!AccessHit(v)
    <3>1. RingInv' /\ Abs!Access(v, 0)
      BY <1>1, <2>3, AccessHitRefines
    <3>2. 0 \in 0 .. MaxNodes
      BY DEF RingConstants
    <3> QED
      BY <3>1, <3>2 DEF Abs!Next
  <2> QED
    BY <1>3, <2>1, <2>2, <2>3
<1>4. ASSUME NEW v \in Vals, NEW max \in 0 .. MaxNodes, Ring!AccessMiss(v, max)
      PROVE  RingInv' /\ Abs!Next
  <2>1. RingInv' /\ Abs!Access(v, max)
    BY <1>1, <1>4, AccessMissRefines
  <2> QED
    BY <2>1 DEF Abs!Next
<1>5. CASE Ring!PopFront
  <2>1. RingInv' /\ Abs!PopFront
    BY <1>1, <1>5, PopFrontRefines
  <2> QED
    BY <2>1 DEF Abs!Next
<1>6. CASE Ring!PopBack
  <2>1. RingInv' /\ Abs!PopBack
    BY <1>1, <1>6, PopBackRefines
  <2> QED
    BY <2>1 DEF Abs!Next
<1>7. ASSUME NEW i \in 1 .. ringSize, Ring!DeleteAt(i) \/ Ring!MoveToFront(i)
      PROVE  RingInv' /\ Abs!Next
  <2>1. CASE Ring!DeleteAt(i)
    <3>1. RingInv' /\ Abs!DeleteAt(i) /\ i \in 1 .. MaxNodes
      BY <1>1, <2>1, DeleteAtRefines
    <3> QED
      BY <3>1 DEF Abs!Next
  <2>2. CASE Ring!MoveToFront(i)
    <3>1. RingInv' /\ Abs!MoveToFront(i) /\ i \in 1 .. MaxNodes
      BY <1>1, <2>2, MoveToFrontRefines
    <3> QED
      BY <3>1 DEF Abs!Next
  <2> QED
    BY <1>7, <2>1, <2>2
<1> QED
  BY <1>2, <1>3, <1>4, <1>5, <1>6, <1>7 DEF Ring!Next

\* The nodes of the circular list that are reached from the sentinel by the
\* next pointers are exactly the ones that are not free, each once, the prev
\* pointers are the mirror of the next pointers, and size is their number.
THEOREM RingInvHolds ==
  ASSUME RingConstants
  PROVE  Ring!Spec => []RingInv
<1>1. RingFinds
  BY FindsAlways
<1>2. Ring!Init => RingInv
  BY RingStarts
<1>3. RingInv /\ RingFinds /\ RingFinds' /\ [Ring!Next]_(Ring!vars) => RingInv'
  BY RingSteps
<1> QED
  BY <1>1, <1>2, <1>3, PTL DEF Ring!Spec

\* What a user of the list sees, and of the LRU cache on it, is a sequence.
THEOREM CircularListRefinesSequence ==
  ASSUME RingConstants
  PROVE  Ring!Spec => Abs!Spec
<1>1. RingFinds
  BY FindsAlways
<1>2. Ring!Init => Abs!Init
  BY RingStarts
<1>3. RingInv /\ RingFinds /\ RingFinds' /\ [Ring!Next]_(Ring!vars) => [Abs!Next]_(Abs!vars)
  BY RingSteps
<1> QED
  BY <1>1, <1>2, <1>3, RingInvHolds, PTL DEF Ring!Spec, Abs!Spec

\* The node before the successor of a node is the node itself, for the sentinel
\* and every node that is allocated, and size is the number of items.
Mirrored ==
  /\ \A n \in Ring!Nodes \cup {Ring!Sentinel} : n = 0 \/ ringVal[n] # 0 => ringPrev[ringNext[n]] = n
  /\ ringSize = Len(Ring!Items)

LEMMA HeldMirrors ==
  ASSUME RingConstants, RingInv
  PROVE  Mirrored
<1>1. PICK p : Held(p)
  BY DEF RingInv
<1>2. ringSize = Len(Ring!Items) /\ Len(p) \in Nat
  BY <1>1, HeldMeans
<1>3. \A i \in 0 .. Len(p) : ringPrev[ringNext[At(p, i)]] = At(p, i)
  BY <1>1 DEF Held, Linked
<1>4. ASSUME NEW n \in Ring!Nodes \cup {Ring!Sentinel}, n = 0 \/ ringVal[n] # 0
      PROVE  \E i \in 0 .. Len(p) : n = At(p, i)
  <2>1. CASE n = 0
    BY <1>2, <2>1 DEF At
  <2>2. CASE n # 0
    <3>1. n \in ListNodes /\ ringVal[n] # 0
      BY <1>4, <2>2 DEF Ring!Nodes, Ring!Sentinel, ListNodes
    <3>2. PICK i \in 1 .. Len(p) : p[i] = n
      BY <1>1, <3>1 DEF Held, Owning
    <3>3. At(p, i) = n /\ i \in 0 .. Len(p)
      BY <1>2, <3>2 DEF At
    <3> QED
      BY <3>3
  <2> QED
    BY <2>1, <2>2
<1> QED
  BY <1>2, <1>3, <1>4 DEF Mirrored

\* The links of the circular list are mirrors of each other after any calls,
\* those of the cache included, and size counts the items.
THEOREM CircularListMirrored ==
  ASSUME RingConstants
  PROVE  Ring!Spec => []Mirrored
<1>1. RingInv => Mirrored
  BY HeldMirrors
<1> QED
  BY <1>1, RingInvHolds, PTL
==============================================================================
