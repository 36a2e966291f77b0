------------------------------- MODULE KeyFifo -------------------------------
(***************************************************************************)
(* What the key queue of input.c promises: keys come out in the order they *)
(* went in, each of them once; a key that finds the queue full is dropped  *)
(* and disturbs none of those that wait.                                   *)
(***************************************************************************)
EXTENDS Integers, Sequences

CONSTANTS Actions,   \* key actions
          Capacity   \* how many keys can wait

VARIABLE fifo

Init == fifo = << >>

Put(a) == Len(fifo) < Capacity /\ fifo' = Append(fifo, a)

DropFull == Len(fifo) = Capacity /\ UNCHANGED fifo

Get == fifo # << >> /\ fifo' = Tail(fifo)

Next == \/ \E a \in Actions : Put(a)
        \/ DropFull
        \/ Get

Spec == Init /\ [][Next]_fifo
=============================================================================
