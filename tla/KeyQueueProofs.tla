--------------------------- MODULE KeyQueueProofs ---------------------------
(***************************************************************************)
(* The ring of input.c is a bounded first-in first-out queue, whatever its *)
(* size: the theorem behind KEY_QUEUE_SIZE = 16.                           *)
(***************************************************************************)
EXTENDS KeyQueue, NumberLemmas, TLAPS

-----------------------------------------------------------------------------
(* The modular indices without the modulus. *)

\* The next slot is in the ring, and is the first after the last.
LEMMA NextSlotCases ==
  ASSUME NEW i \in Slots
  PROVE  /\ NextSlot(i) \in Slots
         /\ NextSlot(i) = IF i = QueueSize - 1 THEN 0 ELSE i + 1
<1>1. QueueSize \in Nat \ {0} /\ i \in Nat /\ i <= QueueSize - 1
  BY QueueAssumption DEF Slots
<1>2. CASE i = QueueSize - 1
  <2>1. ((0 + QueueSize) % QueueSize) = 0
    BY <1>1, ModBack
  <2>2. i + 1 = 0 + QueueSize
    BY <1>1, <1>2
  <2> QED BY <1>1, <1>2, <2>1, <2>2 DEF NextSlot, Slots
<1>3. CASE i # QueueSize - 1
  <2>1. i + 1 \in Nat /\ i + 1 < QueueSize
    BY <1>1, <1>3
  <2>2. ((i + 1) % QueueSize) = i + 1
    BY <1>1, <2>1, ModSmall
  <2> QED BY <1>1, <1>3, <2>1, <2>2 DEF NextSlot, Slots
<1> QED BY <1>2, <1>3

\* The slot of the i-th waiting key wraps at most once.
LEMMA SlotOfCases ==
  ASSUME NEW q, q.head \in Slots, NEW i \in 1 .. QueueSize
  PROVE  SlotOf(q, i) = IF q.head + i - 1 < QueueSize
                          THEN q.head + i - 1
                          ELSE q.head + i - 1 - QueueSize
<1> DEFINE s == q.head + i - 1
<1>1. QueueSize \in Nat \ {0} /\ s \in Nat /\ s < QueueSize + QueueSize
  BY QueueAssumption DEF Slots
<1>2. SlotOf(q, i) = (s % QueueSize)
  BY DEF SlotOf
<1> HIDE DEF s
<1>3. SlotOf(q, i) = IF s < QueueSize THEN s ELSE s - QueueSize
  <2>1. CASE s < QueueSize
    BY <1>1, <1>2, <2>1, ModSmall
  <2>2. CASE ~(s < QueueSize)
    <3>1. /\ s - QueueSize \in Nat /\ s - QueueSize < QueueSize
          /\ s = (s - QueueSize) + QueueSize
      BY <1>1, <2>2
    <3>2. (s % QueueSize) = s - QueueSize
      BY <1>1, <3>1, ModBack
    <3> QED BY <1>2, <2>2, <3>2
  <2> QED BY <2>1, <2>2
<1>4. q.head \in Int /\ i \in Int /\ QueueSize \in Int
  BY QueueAssumption DEF Slots
<1> QED BY <1>3, <1>4 DEF s

\* The indices show an empty ring and a full one apart, and any count between.
LEMMA CountBounds ==
  ASSUME NEW q, q.head \in Slots, q.tail \in Slots
  PROVE  /\ Count(q) \in 0 .. QueueSize - 1
         /\ Count(q) = 0 <=> ~Waiting(q)
         /\ Count(q) = QueueSize - 1 <=> NextSlot(q.tail) = q.head
  BY QueueAssumption, NextSlotCases DEF Count, Slots, Waiting

-----------------------------------------------------------------------------
\* Both operations make a ring of a ring.
LEMMA InjectTyped ==
  ASSUME NEW q \in Rings, NEW a \in Actions
  PROVE  Inject(q, a) \in Rings
BY NextSlotCases DEF Rings, Inject

LEMMA TakeTyped ==
  ASSUME NEW q \in Rings
  PROVE  /\ WithoutOldest(q) \in Rings
         /\ Oldest(q) \in Actions \cup {KeyNone}
BY NextSlotCases DEF Rings, WithoutOldest, Oldest

LEMMA EmptyTyped == EmptyRing \in Rings
BY QueueAssumption DEF EmptyRing, Rings, Slots

\* The ring's indices stay in the array that input.c declares, and what is taken
\* from it was injected or is KEY_NONE.
THEOREM TypeCorrect == Spec => []TypeOK
<1>1. Init => TypeOK
  BY EmptyTyped DEF Init, TypeOK
<1>2. TypeOK /\ [Next]_keys => TypeOK'
  <2> SUFFICES ASSUME TypeOK, [Next]_keys PROVE TypeOK'
    OBVIOUS
  <2>1. CASE \E a \in Actions : InjectKey(a)
    BY <2>1, InjectTyped DEF TypeOK, InjectKey
  <2>2. CASE TakeKey
    BY <2>2, TakeTyped DEF TypeOK, TakeKey
  <2>3. CASE UNCHANGED keys
    BY <2>3 DEF TypeOK
  <2> QED BY <2>1, <2>2, <2>3 DEF Next
<1> QED BY <1>1, <1>2, PTL DEF Spec

-----------------------------------------------------------------------------
(* What the two operations do to the contents. *)

\* Injecting into a ring that is not full appends to the waiting keys.
LEMMA InjectAppends ==
  ASSUME NEW q \in Rings, NEW a \in Actions, NextSlot(q.tail) # q.head
  PROVE  /\ Count(q) < QueueSize - 1
         /\ Contents(Inject(q, a)) = Append(Contents(q), a)
<1> DEFINE n == Inject(q, a)
           c == Count(q)
<1>1. /\ q.head \in Slots /\ q.tail \in Slots
      /\ q.queue \in [Slots -> Actions \cup {KeyNone}]
  BY DEF Rings
<1>2. /\ n.queue = [q.queue EXCEPT ![q.tail] = a]
      /\ n.head = q.head
      /\ n.tail = NextSlot(q.tail) /\ n.tail \in Slots
  BY <1>1, NextSlotCases DEF Inject
<1>3. c \in 0 .. QueueSize - 2
  BY <1>1, CountBounds, QueueAssumption
<1>4. Count(n) = c + 1
  <2>1. n.tail = IF q.tail = QueueSize - 1 THEN 0 ELSE q.tail + 1
    BY <1>1, <1>2, NextSlotCases
  <2>2. n.tail # n.head
    BY <1>2
  <2> HIDE DEF n
  <2> QED BY <1>1, <1>2, <2>1, <2>2, QueueAssumption DEF Count, Slots
<1>5. \A i \in 1 .. c : SlotOf(n, i) = SlotOf(q, i) /\ SlotOf(q, i) \in Slots
                        /\ SlotOf(q, i) # q.tail
  <2> SUFFICES ASSUME NEW i \in 1 .. c
               PROVE  /\ SlotOf(n, i) = SlotOf(q, i)
                      /\ SlotOf(q, i) \in Slots
                      /\ SlotOf(q, i) # q.tail
    OBVIOUS
  <2>1. SlotOf(n, i) = SlotOf(q, i)
    BY <1>2 DEF SlotOf
  <2>2. SlotOf(q, i) = IF q.head + i - 1 < QueueSize
                            THEN q.head + i - 1
                            ELSE q.head + i - 1 - QueueSize
    BY <1>1, <1>3, SlotOfCases, QueueAssumption
  <2>3. c = IF q.head <= q.tail THEN q.tail - q.head
            ELSE q.tail + QueueSize - q.head
    BY DEF Count
  <2> HIDE DEF n, c
  <2>4. /\ q.head \in 0 .. QueueSize - 1 /\ q.tail \in 0 .. QueueSize - 1
        /\ QueueSize \in Nat
    BY <1>1, QueueAssumption DEF Slots
  <2>5. i \in Int /\ 1 <= i /\ i <= c /\ c \in Int
    BY <1>3
  <2>6. SlotOf(q, i) \in 0 .. QueueSize - 1
    BY <2>2, <2>3, <2>4, <2>5
  <2>7. SlotOf(q, i) # q.tail
    BY <2>2, <2>3, <2>4, <2>5, <1>3
  <2> QED BY <2>1, <2>6, <2>7 DEF Slots
<1>6. SlotOf(n, c + 1) = q.tail
  <2>1. SlotOf(n, c + 1) = SlotOf(q, c + 1)
    BY <1>2 DEF SlotOf
  <2>2. SlotOf(q, c + 1) = IF q.head + c < QueueSize
                                THEN q.head + c
                                ELSE q.head + c - QueueSize
    <3> DEFINE i == c + 1
    <3> HIDE DEF c, n
    <3>1. i \in 1 .. QueueSize /\ q.head + i - 1 = q.head + c
      BY <1>1, <1>3, QueueAssumption DEF Slots
    <3> HIDE DEF i
    <3>2. SlotOf(q, i) = IF q.head + i - 1 < QueueSize
                              THEN q.head + i - 1
                              ELSE q.head + i - 1 - QueueSize
      BY <1>1, <3>1, SlotOfCases
    <3>3. q.head \in Int /\ QueueSize \in Int
      BY <1>1, QueueAssumption DEF Slots
    <3>4. c \in Int
      BY <1>3
    <3> QED BY <3>1, <3>2, <3>3, <3>4 DEF i
  <2> HIDE DEF n
  <2>3. q.head \in 0 .. QueueSize - 1 /\ q.tail \in 0 .. QueueSize - 1
    BY <1>1 DEF Slots
  <2>4. c = IF q.head <= q.tail THEN q.tail - q.head
            ELSE q.tail + QueueSize - q.head
    BY DEF Count
  <2> HIDE DEF c
  <2> QED BY <1>3, <2>1, <2>2, <2>3, <2>4, QueueAssumption
<1> HIDE DEF n, c
<1>7. \A i \in 1 .. c + 1 :
        n.queue[SlotOf(n, i)] = IF i = c + 1 THEN a ELSE q.queue[SlotOf(q, i)]
  BY <1>1, <1>2, <1>3, <1>5, <1>6
<1>8. Contents(n) = [i \in 1 .. c + 1 |->
                       IF i = c + 1 THEN a ELSE q.queue[SlotOf(q, i)]]
  BY <1>4, <1>7 DEF Contents
<1>9. Contents(q) = [i \in 1 .. c |-> q.queue[SlotOf(q, i)]]
  BY DEF Contents, c
<1>10. Len(Contents(q)) = c
  BY <1>3, <1>9
<1>11. Append(Contents(q), a)
         = [i \in 1 .. c + 1 |-> IF i = c + 1 THEN a ELSE Contents(q)[i]]
  BY <1>3, <1>9, <1>10
<1>12. Contents(n) = Append(Contents(q), a)
  BY <1>3, <1>8, <1>9, <1>11
<1> QED BY <1>3, <1>12, QueueAssumption DEF n, c

\* Taking removes the first of the waiting keys.
LEMMA TakeRemoves ==
  ASSUME NEW q \in Rings, Waiting(q)
  PROVE  /\ Contents(q) # << >>
         /\ Contents(WithoutOldest(q)) = Tail(Contents(q))
<1> DEFINE n == WithoutOldest(q)
           c == Count(q)
<1>1. q.head \in Slots /\ q.tail \in Slots
  BY DEF Rings
<1>2. /\ n.queue = q.queue /\ n.tail = q.tail
      /\ n.head = NextSlot(q.head) /\ n.head \in Slots
  BY <1>1, NextSlotCases DEF WithoutOldest
<1>3. c \in 1 .. QueueSize - 1
  BY <1>1, CountBounds, QueueAssumption
<1>4. n.head = IF q.head = QueueSize - 1 THEN 0 ELSE q.head + 1
  BY <1>1, <1>2, NextSlotCases
<1>5. Count(n) = c - 1
  <2> HIDE DEF n
  <2> QED BY <1>1, <1>2, <1>4, QueueAssumption DEF Count, Slots, Waiting
<1>6. ASSUME NEW i \in 1 .. c - 1
      PROVE  SlotOf(n, i) = SlotOf(q, i + 1)
  <2> HIDE DEF n, c
  <2>1. i \in 1 .. QueueSize /\ i + 1 \in 1 .. QueueSize
    BY <1>3, QueueAssumption
  <2>2. SlotOf(n, i) = IF n.head + i - 1 < QueueSize
                         THEN n.head + i - 1 ELSE n.head + i - 1 - QueueSize
    BY <1>2, <2>1, SlotOfCases
  <2>3. SlotOf(q, i + 1) = IF q.head + (i + 1) - 1 < QueueSize
                                THEN q.head + (i + 1) - 1
                                ELSE q.head + (i + 1) - 1 - QueueSize
    BY <1>1, <2>1, SlotOfCases
  <2> QED BY <1>1, <1>2, <1>3, <1>4, <2>1, <2>2, <2>3, QueueAssumption DEF Slots
<1> HIDE DEF n, c
<1>7. Contents(n) = [i \in 1 .. c - 1 |-> q.queue[SlotOf(q, i + 1)]]
  BY <1>2, <1>5, <1>6 DEF Contents
<1>8. Contents(q) = [i \in 1 .. c |-> q.queue[SlotOf(q, i)]]
  BY DEF Contents, c
<1>9. Contents(q) # << >> /\ Len(Contents(q)) = c
  BY <1>3, <1>8
<1>10. Tail(Contents(q)) = [i \in 1 .. c - 1 |-> q.queue[SlotOf(q, i + 1)]]
  BY <1>3, <1>8, <1>9
<1> QED BY <1>7, <1>9, <1>10 DEF n

\* The waiting keys are a sequence of actions, as long as the count of them.
LEMMA ContentsTyped ==
  ASSUME NEW q \in Rings
  PROVE  /\ Contents(q) \in Seq(Actions \cup {KeyNone})
         /\ Len(Contents(q)) = Count(q)
<1>1. Count(q) \in 0 .. QueueSize - 1 /\ QueueSize \in Nat
  BY CountBounds, QueueAssumption DEF Rings
<1>2. ASSUME NEW i \in 1 .. Count(q)
      PROVE  q.queue[SlotOf(q, i)] \in Actions \cup {KeyNone}
  <2>1. i \in 1 .. QueueSize /\ q.head \in Slots
    BY <1>1 DEF Rings
  <2>2. SlotOf(q, i) \in Slots
    BY <1>1, <2>1, SlotOfCases DEF Slots
  <2> QED BY <2>2 DEF Rings
<1> QED BY <1>1, <1>2 DEF Contents

\* Injecting adds at most one key, and taking removes one.
LEMMA CountSteps ==
  ASSUME NEW q \in Rings, NEW a \in Actions
  PROVE  /\ Count(Inject(q, a)) <= Count(q) + 1
         /\ Waiting(q) => Count(WithoutOldest(q)) = Count(q) - 1
<1>1. q.head \in Slots /\ q.tail \in Slots
  BY DEF Rings
<1>2. Count(Inject(q, a)) <= Count(q) + 1
  <2> DEFINE next == NextSlot(q.tail)
             filled == [queue |-> [q.queue EXCEPT ![q.tail] = a], head |-> q.head, tail |-> next]
  <2>1. /\ q.head \in Nat /\ q.tail \in Nat /\ QueueSize \in Nat
        /\ q.head < QueueSize /\ q.tail < QueueSize
    BY <1>1, QueueAssumption DEF Slots
  <2>2. next = q.tail + 1 \/ (q.tail = QueueSize - 1 /\ next = 0)
    BY <1>1, NextSlotCases
  <2>3. filled.head = q.head /\ filled.tail = next
    OBVIOUS
  <2>4. Inject(q, a) \in {q, filled} /\ (next = q.head => Inject(q, a) = q)
    BY DEF Inject
  <2> HIDE DEF next, filled
  <2>5. next # q.head => Count(filled) = Count(q) + 1
    BY <2>1, <2>2, <2>3 DEF Count
  <2>6. Count(q) \in Nat
    BY <2>1 DEF Count
  <2> QED BY <2>4, <2>5, <2>6
<1>3. Waiting(q) => Count(WithoutOldest(q)) = Count(q) - 1
  BY <1>1, NextSlotCases, QueueAssumption DEF WithoutOldest, Waiting, Count, Slots
<1> QED BY <1>2, <1>3

\* Every operation on the ring is the operation of the abstract queue: no
\* wrap of the indices loses, repeats or reorders a key.
THEOREM FifoRefinement == Spec => FifoSpec
<1>1. Init => Fifo!Init
  <2> SUFFICES ASSUME Init PROVE Contents(keys) = << >>
    BY DEF Fifo!Init
  <2>1. Count(keys) = 0
    BY DEF Init, EmptyRing, Count
  <2> QED BY <2>1 DEF Contents
<1>2. TypeOK /\ [Next]_keys => [Fifo!Next]_(Contents(keys))
  <2> SUFFICES ASSUME TypeOK, [Next]_keys
               PROVE  Fifo!Next \/ UNCHANGED Contents(keys)
    OBVIOUS
  <2>1. ASSUME NEW a \in Actions, InjectKey(a)
        PROVE  Fifo!Next
    <3>1. CASE NextSlot(keys.tail) = keys.head
      <4>1. keys' = keys
        BY <2>1, <3>1 DEF InjectKey, Inject
      <4>2. Len(Contents(keys)) = QueueSize - 1
        BY <3>1, ContentsTyped, CountBounds DEF TypeOK, Rings
      <4>3. Fifo!DropFull
        BY <4>1, <4>2 DEF Fifo!DropFull, Contents, Count, SlotOf
      <4> QED BY <4>3 DEF Fifo!Next
    <3>2. CASE NextSlot(keys.tail) # keys.head
      <4>1. Contents(keys)' = Append(Contents(keys), a)
        <5>1. Contents(keys)' = Contents(Inject(keys, a))
          BY <2>1 DEF InjectKey, Contents, Count, SlotOf
        <5> QED BY <3>2, <5>1, InjectAppends DEF TypeOK
      <4>2. Len(Contents(keys)) < QueueSize - 1
        BY <3>2, ContentsTyped, InjectAppends DEF TypeOK
      <4>3. Fifo!Put(a)
        BY <4>1, <4>2 DEF Fifo!Put
      <4> QED BY <4>3 DEF Fifo!Next
    <3> QED BY <3>1, <3>2
  <2>2. CASE TakeKey
    <3>1. /\ Contents(keys) # << >>
          /\ Contents(keys)' = Tail(Contents(keys))
      <4>1. Waiting(keys) /\ Contents(keys)' = Contents(WithoutOldest(keys))
        BY <2>2 DEF TakeKey, Contents, Count, SlotOf
      <4> QED BY <4>1, TakeRemoves DEF TypeOK
    <3>2. Fifo!Get
      BY <3>1 DEF Fifo!Get
    <3> QED BY <3>2 DEF Fifo!Next
  <2>3. CASE UNCHANGED keys
    BY <2>3 DEF Contents, Count, SlotOf
  <2> QED BY <2>1, <2>2, <2>3 DEF Next
<1> QED BY <1>1, <1>2, TypeCorrect, PTL DEF Spec, FifoSpec, Fifo!Spec
=============================================================================
