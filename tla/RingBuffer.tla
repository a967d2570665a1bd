----------------------------- MODULE RingBuffer ------------------------------
(***************************************************************************)
(* The lock-free single-producer single-consumer ring of                   *)
(* src/linear/ring_buffer.c.  One thread calls rb_produce, one thread      *)
(* calls rb_consume, and each may ask rb_size (rb_is_full, rb_is_empty).   *)
(*                                                                         *)
(* Every access to shared memory is a step of its own.  head and tail are  *)
(* size_t counters that wrap around modulo WordSize.  A thread reads its   *)
(* own counter exactly; an acquire load of the other thread's counter may  *)
(* return any value from the one it returned last up to the newest (C11    *)
(* coherence), so pHead and cTail, the values last loaded, are state.      *)
(***************************************************************************)
EXTENDS Integers, Sequences

CONSTANTS
  Values,    \* the ints a producer hands in
  Junk,      \* what malloc leaves in a slot nobody has written
  Capacity,  \* rb->capacity
  WordSize   \* 2^(bits of size_t)

ASSUME CapacityAssumption == Capacity \in Nat \ {0}

\* Both are powers of two, and malloc keeps the ring below half of memory.
ASSUME WordAssumption ==
  /\ WordSize \in Nat
  /\ \E k \in 2 .. WordSize : WordSize = k * Capacity

ASSUME JunkAssumption == Junk \notin Values

VARIABLES
  buf,       \* rb->buf
  head,      \* rb->head, stored by the consumer only
  tail,      \* rb->tail, stored by the producer only
  pPC,       \* the producer's next access: idle, write (the slot), store (tail)
  pVal,      \* its argument val, during a call
  pHead,     \* the value its last load of head returned
  pRet,      \* what its last call returned: ok, full, or size for rb_size
  pSize,     \* the result of rb_size, while that is its last call
  given,     \* history: the last value rb_produce returned true for
  cPC,       \* the consumer's next access: idle, read (the slot), store (head)
  cOut,      \* its *out
  cTail,     \* the value its last load of tail returned
  cRet,      \* what its last call returned: ok, empty, or size for rb_size
  cSize      \* the result of rb_size, while that is its last call

producerVars == <<tail, pPC, pVal, pHead, pRet, pSize, given>>
consumerVars == <<head, cPC, cOut, cTail, cRet, cSize>>
vars == <<buf, producerVars, consumerVars>>

Counter == 0 .. WordSize - 1
Slots == 0 .. Capacity - 1

\* tail + 1 and head + 1 in size_t.
Inc(x) == IF x = WordSize - 1 THEN 0 ELSE x + 1

\* to - from in size_t: how far `to' is ahead of `from'.
Dist(from, to) == IF from <= to THEN to - from ELSE (WordSize - from) + to

\* x + k in size_t, for k <= WordSize.
Plus(x, k) == IF x + k < WordSize THEN x + k ELSE x + k - WordSize

\* index & (capacity - 1), capacity being a power of two.
Slot(x) == x % Capacity

\* What an acquire load may return: a value no older than `seen'.
Visible(seen, newest) == {x \in Counter : Dist(seen, x) <= Dist(seen, newest)}

Init ==
  /\ buf = [i \in Slots |-> Junk]
  /\ head = 0 /\ tail = 0
  /\ pPC = "idle" /\ pVal = Junk /\ pHead = 0 /\ pRet = "none" /\ pSize = 0
  /\ given = Junk
  /\ cPC = "idle" /\ cOut = Junk /\ cTail = 0 /\ cRet = "none" /\ cSize = 0
------------------------------------------------------------------------------
\* The producer thread.

\* Mutants: the bound of the ring one too high, and one too low.
IsFullTooLate(h, t) == Dist(h, t) > Capacity
IsFullTooEarly(h, t) == Dist(h, t) >= Capacity - 1

IsFull(h, t) == Dist(h, t) >= Capacity

ProduceRefused ==
  /\ pPC = "idle"
  /\ \E h \in Visible(pHead, head) : IsFull(h, tail) /\ pHead' = h
  /\ pRet' = "full" /\ pSize' = 0
  /\ UNCHANGED <<buf, tail, pPC, pVal, given, consumerVars>>

ProduceLoad(v) ==
  /\ pPC = "idle"
  /\ \E h \in Visible(pHead, head) : ~IsFull(h, tail) /\ pHead' = h
  /\ pPC' = "write"
  /\ pVal' = v
  /\ pRet' = "none" /\ pSize' = 0
  /\ UNCHANGED <<buf, tail, given, consumerVars>>

\* Mutant: the value is written behind the slot the tail points at.
ProduceWriteBehind ==
  /\ pPC = "write"
  /\ buf' = [buf EXCEPT ![Slot(Inc(tail))] = pVal]
  /\ pPC' = "store"
  /\ UNCHANGED <<tail, pVal, pHead, pRet, pSize, given, consumerVars>>

ProduceWrite ==
  /\ pPC = "write"
  /\ buf' = [buf EXCEPT ![Slot(tail)] = pVal]
  /\ pPC' = "store"
  /\ UNCHANGED <<tail, pVal, pHead, pRet, pSize, given, consumerVars>>

ProduceStore ==
  /\ pPC = "store"
  /\ tail' = Inc(tail)
  /\ pPC' = "idle"
  /\ pVal' = Junk
  /\ pRet' = "ok"
  /\ given' = pVal
  /\ UNCHANGED <<buf, pHead, pSize, consumerVars>>

\* Mutant: the size is one too low.
ProducerSizeLow ==
  /\ pPC = "idle"
  /\ \E h \in Visible(pHead, head) : pHead' = h /\ pSize' = Dist(Inc(h), tail)
  /\ pRet' = "size"
  /\ UNCHANGED <<buf, tail, pPC, pVal, given, consumerVars>>

\* rb_size on the producer's thread.  tail is its own, so loading it first
\* and head second is one step.
ProducerSize ==
  /\ pPC = "idle"
  /\ \E h \in Visible(pHead, head) : pHead' = h /\ pSize' = Dist(h, tail)
  /\ pRet' = "size"
  /\ UNCHANGED <<buf, tail, pPC, pVal, given, consumerVars>>
------------------------------------------------------------------------------
\* The consumer thread.

ConsumeRefused ==
  /\ cPC = "idle"
  /\ head \in Visible(cTail, tail)
  /\ cTail' = head
  /\ cRet' = "empty" /\ cSize' = 0
  /\ UNCHANGED <<buf, head, cPC, cOut, producerVars>>

\* Mutant: the counters are compared as if they did not wrap around.
ConsumeLoadIfBelow ==
  /\ cPC = "idle"
  /\ \E t \in Visible(cTail, tail) : head < t /\ cTail' = t
  /\ cPC' = "read"
  /\ cRet' = "none" /\ cSize' = 0
  /\ UNCHANGED <<buf, head, cOut, producerVars>>

ConsumeLoad ==
  /\ cPC = "idle"
  /\ \E t \in Visible(cTail, tail) : t # head /\ cTail' = t
  /\ cPC' = "read"
  /\ cRet' = "none" /\ cSize' = 0
  /\ UNCHANGED <<buf, head, cOut, producerVars>>

ConsumeRead ==
  /\ cPC = "read"
  /\ cOut' = buf[Slot(head)]
  /\ cPC' = "store"
  /\ UNCHANGED <<buf, head, cTail, cRet, cSize, producerVars>>

\* Mutant: the value is read, but its slot is not given back.
ConsumeStoreForgotten ==
  /\ cPC = "store"
  /\ cPC' = "idle"
  /\ cRet' = "ok"
  /\ UNCHANGED <<buf, head, cOut, cTail, cSize, producerVars>>

ConsumeStore ==
  /\ cPC = "store"
  /\ head' = Inc(head)
  /\ cPC' = "idle"
  /\ cRet' = "ok"
  /\ UNCHANGED <<buf, cOut, cTail, cSize, producerVars>>

\* rb_size on the consumer's thread; head is its own.
ConsumerSize ==
  /\ cPC = "idle"
  /\ \E t \in Visible(cTail, tail) : cTail' = t /\ cSize' = Dist(head, t)
  /\ cRet' = "size"
  /\ UNCHANGED <<buf, head, cPC, cOut, producerVars>>
------------------------------------------------------------------------------
Producer ==
  \/ ProduceRefused
  \/ \E v \in Values : ProduceLoad(v)
  \/ ProduceWrite
  \/ ProduceStore
  \/ ProducerSize

Consumer ==
  \/ ConsumeRefused
  \/ ConsumeLoad
  \/ ConsumeRead
  \/ ConsumeStore
  \/ ConsumerSize

Next == Producer \/ Consumer

Spec == Init /\ [][Next]_vars

\* A thread inside a call is scheduled again; both clients call again and
\* again; and a store is not hidden from the other thread for ever.
Fairness ==
  /\ WF_vars(ProduceWrite) /\ WF_vars(ProduceStore)
  /\ WF_vars(ConsumeRead) /\ WF_vars(ConsumeStore)
  /\ SF_vars((\E v \in Values : ProduceLoad(v)) /\ pHead' = head)
  /\ SF_vars(ConsumeLoad /\ cTail' = tail)

FairSpec == Spec /\ Fairness
------------------------------------------------------------------------------
TypeOK ==
  /\ buf \in [Slots -> Values \cup {Junk}]
  /\ head \in Counter /\ tail \in Counter
  /\ pPC \in {"idle", "write", "store"}
  /\ pVal \in Values \cup {Junk}
  /\ pHead \in Counter
  /\ pRet \in {"none", "ok", "full", "size"}
  /\ pSize \in Counter
  /\ given \in Values \cup {Junk}
  /\ cPC \in {"idle", "read", "store"}
  /\ cOut \in Values \cup {Junk}
  /\ cTail \in Counter
  /\ cRet \in {"none", "ok", "empty", "size"}
  /\ cSize \in Counter

\* Going once round the ring of counter values one meets, in this order, the
\* head the producer knows, head, the tail the consumer knows and tail, and
\* all of them lie within one capacity: however stale, no thread's knowledge
\* of the other lets it overrun the other.  A producer inside rb_produce has
\* room for one more value; a consumer inside rb_consume knows of a value.
Ordered ==
  /\ Dist(pHead, head) + Dist(head, cTail) + Dist(cTail, tail)
       <= (IF pPC = "idle" THEN Capacity ELSE Capacity - 1)
  /\ cPC # "idle" => head # cTail

\* The reads of the consumer that do not happen before the producer's next
\* access: it has not loaded a head stored after them.
UnorderedReads ==
  {Plus(pHead, k) : k \in 0 .. Dist(pHead, head) - 1}
    \cup (IF cPC \in {"read", "store"} THEN {head} ELSE {})

UnorderedWrites ==
  {Plus(cTail, k) : k \in 0 .. Dist(cTail, tail) - 1}
    \cup (IF pPC \in {"write", "store"} THEN {tail} ELSE {})

\* The plain accesses to a slot never race: when a thread is about to access
\* a slot, every access of the other thread to that slot happens before it,
\* by the acquire and release of the two counters.
NoDataRace ==
  /\ pPC = "write" => \A s \in UnorderedReads : Slot(s) # Slot(tail)
  /\ cPC = "read" => \A s \in UnorderedWrites : Slot(s) # Slot(head)

\* rb_size errs on the safe side on either thread: the producer never sees
\* fewer values than the ring holds nor more than its capacity, and the
\* consumer never sees more than the ring holds, also after the other thread
\* has gone on.
SizeIsConservative ==
  /\ pRet = "size" => pSize \in Dist(head, tail) .. Capacity
  /\ cRet = "size" => cSize <= Dist(head, tail)

\* A thread may act on rb_is_full and rb_is_empty: after rb_is_full was false
\* the producer's next rb_produce is not refused, and after rb_is_empty was
\* false the consumer's next rb_consume is not.
PollIsHonoured ==
  [][ /\ pRet = "size" /\ pSize # Capacity => pRet' # "full"
      /\ cRet = "size" /\ cSize # 0 => cRet' # "empty" ]_vars

\* The oldest value not yet read out.
FirstUnread == IF cPC = "store" THEN Inc(head) ELSE head

Unread ==
  [i \in 1 .. Dist(FirstUnread, tail) |-> buf[Slot(Plus(FirstUnread, i - 1))]]

FIFO == INSTANCE BoundedFIFO
          WITH queue <- Unread, taken <- cOut, Nothing <- Junk

\* The ring is a bounded first-in first-out queue: rb_consume hands out the
\* values rb_produce accepted, once each and in order, whatever the threads'
\* interleaving, however stale their loads and across counter wrap-around.
ImplementsFIFO == FIFO!Spec

\* Every value accepted is consumed as long as the consumer keeps polling: the
\* ring becomes empty again and again, or values go on leaving it, and they
\* leave in order.
Delivered == []<>(head = tail) \/ []<><<ConsumeStore>>_vars

\* A producer that keeps retrying after "full" gets its value in.
RefusedThenAccepted == (pRet = "full") ~> (pRet = "ok")
==============================================================================
