------------------------------ MODULE KeyQueue ------------------------------
(***************************************************************************)
(* The key ring of input.c.  It is filled by input_inject_key and emptied  *)
(* by poll_keyboard; one slot stays free so that head = tail means empty.  *)
(* The operators on a ring are what Input composes with the PS/2 and USB   *)
(* sides; the little specification here states the ring's own promise.     *)
(***************************************************************************)
EXTENDS Integers, Sequences

CONSTANTS QueueSize,   \* KEY_QUEUE_SIZE
          Actions,     \* enum key_action without KEY_NONE
          KeyNone      \* KEY_NONE, 0: what the ring holds at first

\* The indices are uint8_t.
ASSUME QueueAssumption == QueueSize \in 2 .. 256

VARIABLE keys   \* [queue, head, tail]: key_queue, key_head, key_tail

Slots == 0 .. QueueSize - 1

Rings == [queue : [Slots -> Actions \cup {KeyNone}], head : Slots, tail : Slots]

NextSlot(i) == (i + 1) % QueueSize

\* Mutant of Inject: it does not ask whether the ring is full.
InjectUnchecked(q, action) ==
  [queue |-> [q.queue EXCEPT ![q.tail] = action],
   head  |-> q.head,
   tail  |-> NextSlot(q.tail)]

\* input_inject_key on a ring: the newest key is dropped when it is full.
Inject(q, action) ==
  IF NextSlot(q.tail) = q.head
    THEN q
    ELSE [queue |-> [q.queue EXCEPT ![q.tail] = action],
          head  |-> q.head,
          tail  |-> NextSlot(q.tail)]

Waiting(q) == q.head # q.tail

Oldest(q) == q.queue[q.head]

\* What poll_keyboard leaves when a key waits.
WithoutOldest(q) ==
  [queue |-> q.queue, head |-> NextSlot(q.head), tail |-> q.tail]

\* The statics start as zero.
EmptyRing == [queue |-> [i \in Slots |-> KeyNone], head |-> 0, tail |-> 0]

-----------------------------------------------------------------------------
Init == keys = EmptyRing

InjectKey(a) == keys' = Inject(keys, a)

TakeKey == Waiting(keys) /\ keys' = WithoutOldest(keys)

Next == (\E a \in Actions : InjectKey(a)) \/ TakeKey

Spec == Init /\ [][Next]_keys

-----------------------------------------------------------------------------
TypeOK == keys \in Rings

\* How many keys wait, and which, oldest first.
Count(q) ==
  IF q.head <= q.tail THEN q.tail - q.head ELSE q.tail + QueueSize - q.head

SlotOf(q, i) == (q.head + i - 1) % QueueSize

Contents(q) == [i \in 1 .. Count(q) |-> q.queue[SlotOf(q, i)]]

\* The ring is a first-in first-out queue of QueueSize - 1 keys that drops
\* only what arrives when it is full, through every wrap of its indices.
Fifo == INSTANCE KeyFifo WITH
          Capacity <- QueueSize - 1,
          fifo     <- Contents(keys)
FifoSpec == Fifo!Spec
=============================================================================
