---------------------------- MODULE BufferListSpec ----------------------------
(***************************************************************************)
(* One BufferList of redis_ae/tcpproxy driven the way ReadIncome and       *)
(* SendOutcome of tcpproxy.c drive it: receive into the space it offers,   *)
(* send from the data it offers.                                           *)
(***************************************************************************)
EXTENDS BufferList, Sequences

CONSTANT MaxBytes     \* bound: bytes received in one behaviour

ASSUME MaxBytesAssumption == MaxBytes \in Nat

VARIABLES
    blist,      \* the buffer
    pushed,     \* bytes received so far; the next byte received is byte number pushed
    popped,     \* bytes sent so far
    exited      \* the process took the exit(0) of BufferListPop

vars == <<blist, pushed, popped, exited>>

Init ==
    /\ blist = AllocBufferList
    /\ pushed = 0
    /\ popped = 0
    /\ exited = FALSE

\* One iteration of ReadIncome's loop in which recv returns k > 0 bytes.  With an
\* offered length of 0 recv returns 0 and nothing is pushed.
Receive(k) ==
    /\ ~exited
    /\ ~SpaceNull(blist)
    /\ k <= SpaceLen(blist)
    /\ pushed + k <= MaxBytes
    /\ blist' = BufferListPush(StoreBytes(blist, pushed, k), k)
    /\ pushed' = pushed + k
    /\ UNCHANGED <<popped, exited>>

\* One iteration of SendOutcome's loop in which send takes k > 0 bytes.
Send(k) ==
    /\ ~exited
    /\ ~DataNull(blist)
    /\ k <= DataLen(blist)
    /\ blist' = BufferListPop(blist, k)
    /\ popped' = popped + k
    /\ exited' = PopExits(blist, k)
    /\ UNCHANGED pushed

Next == \E k \in 1 .. ChunkSize : Receive(k) \/ Send(k)

Spec == Init /\ [][Next]_vars
-------------------------------------------------------------------------------
\* The buffer is well formed: sizes, positions and counters have their types.
TypeOK ==
    /\ blist \in Buffer
    /\ pushed \in Nat
    /\ popped \in Nat
    /\ exited \in BOOLEAN

\* BufferListGetData points at exactly the next bytes of the stream: whatever was
\* received, in whatever pieces and through however many recycled chunks, send()
\* is given the bytes in order, none lost, none twice, none stale.
SendsNextBytes ==
    \A o \in Offset :
        (o >= blist.read_pos /\ o < HeadNode(blist).size)
            => HeadNode(blist).data[o] = popped + (o - blist.read_pos)

\* BufferListGetData returns NULL exactly when everything received has been sent,
\* and otherwise at least one byte: SendOutcome neither closes a CLOSE_AFTER_SENT
\* client too early nor calls send() with length 0 and stalls.
NullIffDrained ==
    /\ DataNull(blist) <=> popped = pushed
    /\ ~DataNull(blist) => DataLen(blist) > 0

\* The exit(0) of BufferListPop ("only one chunk in buffer list") is never taken.
NeverExits == ~exited

\* The write node is full and is not the tail: BufferListGetSpace returns a
\* pointer with *len = 0, not NULL.
Wedged(b) == b.write_node # NChunks /\ WriteNode(b).size = ChunkSize

\* A buffer that has filled up completely and then recycled a chunk is wedged for
\* good: nothing BufferListPush and BufferListPop do makes it offer space again,
\* not even after all of its data has been sent.
WedgeIsPermanent == [][Wedged(blist) => Wedged(blist') /\ pushed' = pushed]_vars

\* The bytes held, in stream order, read out of the chunks.
Pending ==
    [i \in 1 .. pushed - popped |->
        LET p == blist.read_pos + i - 1
        IN  blist.nodes[(p \div ChunkSize) + 1].data[p % ChunkSize]]

\* The chunk list implements a FIFO queue of NChunks * ChunkSize bytes.
Fifo == INSTANCE ByteFifo
            WITH Capacity <- NChunks * ChunkSize, queue <- Pending, next <- pushed
ImplementsFifo == Fifo!FifoSpec
===============================================================================
