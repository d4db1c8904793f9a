------------------------------- MODULE ByteFifo -------------------------------
(***************************************************************************)
(* What a stream buffer promises: a bounded first-in first-out queue of    *)
(* the bytes of a stream.  A byte is its position in the stream.           *)
(***************************************************************************)
EXTENDS Integers, Sequences

CONSTANT Capacity

VARIABLES queue, next     \* the bytes held; the position of the next byte to come

fifoVars == <<queue, next>>

FifoInit == queue = <<>> /\ next = 0

Put(k) ==
    /\ Len(queue) + k <= Capacity
    /\ queue' = queue \o [i \in 1 .. k |-> next + i - 1]
    /\ next' = next + k

Get(k) ==
    /\ k <= Len(queue)
    /\ queue' = SubSeq(queue, k + 1, Len(queue))
    /\ UNCHANGED next

FifoNext == \E k \in 1 .. Capacity : Put(k) \/ Get(k)

FifoSpec == FifoInit /\ [][FifoNext]_fifoVars
===============================================================================
