--------------------------- MODULE BufferListProofs ---------------------------
(***************************************************************************)
(* Proofs about the chunked buffer of tcpproxy, for every number and size  *)
(* of chunks and every bound on the bytes received.                        *)
(***************************************************************************)
EXTENDS BufferListSpec, BufferListLemmas, SequenceTheorems

USE BufferListAssumption, MaxBytesAssumption

\* The inductive invariant: the chunks are filled from the head on and hold, in
\* order, exactly the bytes popped .. pushed - 1 of the stream.
IndInv == Holds(blist, popped, pushed) /\ exited \in BOOLEAN /\ NeverExits

\* IndInv is an inductive invariant of the buffer.
THEOREM Invariance == Spec => []IndInv
<1>1. ASSUME Init PROVE IndInv
  BY <1>1, AllocHolds DEF Init, IndInv, NeverExits
<1>2. ASSUME IndInv, [Next]_vars PROVE IndInv'
  <2>1. ASSUME NEW k \in 1 .. ChunkSize, Receive(k) PROVE IndInv'
    <3>1. Holds(BufferListPush(StoreBytes(blist, pushed, k), k), popped, pushed + k)
      BY <1>2, <2>1, PushHolds DEF IndInv, Receive
    <3> QED
      BY <1>2, <2>1, <3>1 DEF IndInv, NeverExits, Receive
  <2>2. ASSUME NEW k \in 1 .. ChunkSize, Send(k) PROVE IndInv'
    <3>1. Holds(BufferListPop(blist, k), popped + k, pushed) /\ ~PopExits(blist, k)
      BY <1>2, <2>2, PopHolds DEF IndInv, Send
    <3>2. ~exited' /\ exited' \in BOOLEAN
      BY <2>2, <3>1 DEF Send, PopExits
    <3> QED
      BY <2>2, <3>1, <3>2 DEF IndInv, NeverExits, Send
  <2>3. CASE UNCHANGED vars
    BY <1>2, <2>3 DEF IndInv, NeverExits, vars
  <2> QED
    BY <1>2, <2>1, <2>2, <2>3 DEF Next
<1> QED
  BY <1>1, <1>2, PTL DEF Spec

\* The buffer's fields and counters keep their types (no chunk ever overflows
\* its BUFFER_CHUNK_SIZE bytes).
THEOREM TypeCorrect == Spec => []TypeOK
<1>1. IndInv => TypeOK
  BY DEF IndInv, Holds, TypeOK
<1> QED
  BY <1>1, Invariance, PTL

\* send() is always given the next bytes of the stream, for lists of any length.
THEOREM SendsInOrder == Spec => []SendsNextBytes
<1>1. IndInv => SendsNextBytes
  BY HeadIsNext DEF IndInv, SendsNextBytes
<1> QED
  BY <1>1, Invariance, PTL

\* BufferListGetData returns NULL exactly when the buffer is drained.
THEOREM NullMeansDrained == Spec => []NullIffDrained
<1>1. IndInv => NullIffDrained
  BY NullIsEmpty DEF IndInv, NullIffDrained
<1> QED
  BY <1>1, Invariance, PTL

\* The exit(0) of BufferListPop is dead code for every length of the list.
THEOREM ExitIsDead == Spec => []NeverExits
<1>1. IndInv => NeverExits
  BY DEF IndInv
<1> QED
  BY <1>1, Invariance, PTL

\* Once the write node is full and is not the tail, no sequence of receives and
\* sends brings the buffer back to offering space.
THEOREM WedgeStays == Spec => WedgeIsPermanent
<1>1. ASSUME IndInv, [Next]_vars, Wedged(blist), ~UNCHANGED vars
      PROVE  Wedged(blist') /\ pushed' = pushed
  <2> DEFINE w == blist.write_node
  <2>1. w \in 1 .. NChunks /\ w # NChunks /\ blist.nodes[w].size = ChunkSize
    BY <1>1 DEF IndInv, Holds, Buffer, Wedged, WriteNode
  <2>2. ASSUME NEW k \in 1 .. ChunkSize PROVE ~Receive(k)
    <3>1. SpaceLen(blist) = 0
      BY <2>1 DEF SpaceLen, SpaceNull, WriteNode
    <3> QED
      BY <3>1 DEF Receive
  <2>3. PICK k \in 1 .. ChunkSize : Send(k)
    BY <1>1, <2>2 DEF Next
  <2>4. CASE Recycles(blist, k)
    <3>1. w \in 2 .. NChunks - 1
      BY <2>1, <2>4 DEF Recycles
    <3>2. blist' = RotateHead(blist)
      BY <2>3, <2>4 DEF Send, BufferListPop
    <3>3. blist'.write_node = w - 1 /\ blist'.nodes[w - 1] = blist.nodes[w]
      BY <3>1, <3>2 DEF RotateHead
    <3> QED
      BY <2>1, <2>3, <3>1, <3>3 DEF Wedged, WriteNode, Send
  <2>5. CASE ~Recycles(blist, k)
    <3>1. blist'.write_node = w /\ blist'.nodes = blist.nodes
      BY <1>1, <2>3, <2>5 DEF Send, BufferListPop, IndInv, Holds, Buffer
    <3> QED
      BY <2>1, <2>3, <3>1 DEF Wedged, WriteNode, Send
  <2> QED
    BY <2>4, <2>5
<1> QED
  BY <1>1, Invariance, PTL DEF Spec, WedgeIsPermanent

-------------------------------------------------------------------------------
(* The chunk list is a FIFO queue of bytes *)

\* Quotient and remainder by the chunk size: the chunk and the offset of a byte.
LEMMA DivMod ==
  ASSUME NEW p \in Nat
  PROVE  /\ p \div ChunkSize \in Nat
         /\ p % ChunkSize \in Offset
         /\ p = (p \div ChunkSize) * ChunkSize + (p % ChunkSize)
  BY DEF Offset

\* A larger index reaches at least as far into the buffer.
LEMMA Scaled ==
  ASSUME NEW i \in Int, NEW j \in Int, i <= j
  PROVE  i * ChunkSize <= j * ChunkSize
  OBVIOUS

\* Read out in order, the chunks hold the consecutive bytes popped .. pushed - 1.
LEMMA PendingIsStream ==
  IndInv => Pending = [i \in 1 .. pushed - popped |-> popped + i - 1]
<1> SUFFICES ASSUME IndInv, NEW i \in 1 .. pushed - popped
             PROVE  LET p == blist.read_pos + i - 1
                    IN  blist.nodes[(p \div ChunkSize) + 1].data[p % ChunkSize]
                            = popped + i - 1
  BY DEF Pending
<1> DEFINE w == blist.write_node
           s == blist.nodes[w].size
           p == blist.read_pos + i - 1
<1>1. /\ w \in 1 .. NChunks /\ blist.read_pos \in 0 .. ChunkSize
      /\ pushed \in Nat /\ popped \in Nat
      /\ s \in 0 .. ChunkSize /\ p \in Nat
  BY DEF IndInv, Holds, Buffer, Node
<1>2. PICK q \in Nat, m \in Offset :
        q = p \div ChunkSize /\ m = p % ChunkSize /\ p = q * ChunkSize + m
  BY <1>1, DivMod
<1>3. PICK before \in Int : before = q * ChunkSize
  OBVIOUS
<1>4. p = before + m
  BY <1>2, <1>3
<1>5. PICK full \in Int : full = (w - 1) * ChunkSize
  BY <1>1
<1>6. p < full + s
  <2>1. pushed - popped = full + s - blist.read_pos
    BY <1>5 DEF IndInv, Holds, Count, WriteNode
  <2> QED
    BY <1>1, <2>1
<1>7. q + 1 <= w
  <2> SUFFICES ASSUME w <= q PROVE FALSE
    BY <1>1
  <2>1. w * ChunkSize <= before
    BY <1>1, <1>3, Scaled
  <2>2. w * ChunkSize = full + ChunkSize
    BY <1>1, <1>5
  <2>3. full + ChunkSize <= before
    BY <2>1, <2>2
  <2> QED
    BY <1>1, <1>4, <1>6, <2>3 DEF Offset
<1>8. m < blist.nodes[q + 1].size
  <2>1. CASE q + 1 < w
    BY <1>1, <2>1 DEF IndInv, Holds, Shape, Offset
  <2>2. CASE q + 1 = w
    <3>1. q = w - 1
      BY <1>1, <2>2
    <3>2. before = full
      BY <1>5, <1>3, <3>1
    <3>3. m < s
      BY <1>1, <1>4, <1>6, <3>2 DEF Offset
    <3> QED
      BY <2>2, <3>3
  <2> QED
    BY <1>1, <1>7, <2>1, <2>2
<1>9. blist.nodes[q + 1].data[m] =
        popped - blist.read_pos + ((q + 1) - 1) * ChunkSize + m
  BY <1>1, <1>7, <1>8 DEF IndInv, Holds, Order
<1>10. popped - blist.read_pos + ((q + 1) - 1) * ChunkSize + m = popped + i - 1
  <2>1. ((q + 1) - 1) * ChunkSize = before
    BY <1>3
  <2>2. popped - blist.read_pos + before + m = popped + i - 1
    BY <1>1, <1>4 DEF Offset
  <2> QED
    BY <2>1, <2>2
<1> QED
  BY <1>2, <1>9, <1>10

\* The chunks never hold more than NChunks * ChunkSize bytes, and never a negative
\* number of them.
LEMMA PendingBounded == IndInv => pushed - popped \in 0 .. NChunks * ChunkSize
<1> SUFFICES ASSUME IndInv PROVE pushed - popped \in 0 .. NChunks * ChunkSize
  OBVIOUS
<1> DEFINE w == blist.write_node
           s == blist.nodes[w].size
<1>1. /\ w \in 1 .. NChunks /\ blist.read_pos \in 0 .. ChunkSize
      /\ pushed \in Nat /\ popped \in Nat /\ s \in 0 .. ChunkSize
  BY DEF IndInv, Holds, Buffer, Node
<1>2. PICK full \in Int : full = (w - 1) * ChunkSize
  BY <1>1
<1>3. pushed - popped = full + s - blist.read_pos
  BY <1>2 DEF IndInv, Holds, Count, WriteNode
<1>4. PICK all \in Int : all = NChunks * ChunkSize
  OBVIOUS
<1>5. full + ChunkSize <= all
  <2>1. (w - 1) * ChunkSize <= (NChunks - 1) * ChunkSize
    BY <1>1, Scaled
  <2>2. (NChunks - 1) * ChunkSize = all - ChunkSize
    BY <1>4
  <2> QED
    BY <1>2, <1>4, <2>1, <2>2
<1>6. pushed - popped >= 0
  <2>1. CASE w = 1
    BY <1>1, <1>2, <1>3, <2>1 DEF IndInv, Holds, Shape, HeadNode
  <2>2. CASE w > 1
    <3>1. 1 * ChunkSize <= (w - 1) * ChunkSize
      BY <1>1, <2>2, Scaled
    <3> QED
      BY <1>1, <1>2, <1>3, <3>1
  <2> QED
    BY <1>1, <2>1, <2>2
<1> QED
  BY <1>1, <1>3, <1>4, <1>5, <1>6

\* BufferListPush after a recv of k bytes is a Put of those bytes.
LEMMA ReceiveIsPut ==
  ASSUME IndInv, IndInv', NEW k \in 1 .. ChunkSize, Receive(k)
  PROVE  Fifo!Put(k)
<1> DEFINE n == pushed - popped
<1>1. /\ pushed \in Nat /\ popped \in Nat /\ pushed' = pushed + k /\ popped' = popped
      /\ n \in Nat
  BY PendingBounded DEF IndInv, Holds, Receive
<1>2. Pending = [i \in 1 .. n |-> popped + i - 1]
  BY PendingIsStream
<1>3. Pending' = [i \in 1 .. n + k |-> popped + i - 1]
  <2>1. (Pending = [i \in 1 .. pushed - popped |-> popped + i - 1])'
    BY PendingIsStream, PTL
  <2>2. pushed' - popped' = n + k
    BY <1>1
  <2> QED
    BY <1>1, <2>1, <2>2
<1>4. n + k <= NChunks * ChunkSize
  <2>1. (pushed - popped \in 0 .. NChunks * ChunkSize)'
    BY PendingBounded, PTL
  <2> QED
    BY <1>1, <2>1
<1>5. Len(Pending) = n
  BY <1>1, <1>2
<1>6. Pending' = Pending \o [i \in 1 .. k |-> pushed + i - 1]
  <2> DEFINE new == [i \in 1 .. k |-> pushed + i - 1]
  <2>1. Pending \in Seq(Int) /\ new \in Seq(Int) /\ Len(new) = k
    BY <1>1, <1>2
  <2>2. /\ Pending \o new \in Seq(Int) /\ Len(Pending \o new) = n + k
        /\ \A i \in 1 .. n + k :
              (Pending \o new)[i] = IF i <= n THEN Pending[i] ELSE new[i - n]
    BY <1>5, <2>1, ConcatProperties
  <2>3. ASSUME NEW i \in 1 .. n + k
        PROVE  (IF i <= n THEN Pending[i] ELSE new[i - n]) = popped + i - 1
    BY <1>1, <1>2
  <2>4. Pending' \in Seq(Int) /\ Len(Pending') = n + k
    BY <1>1, <1>3
  <2> QED
    BY <1>3, <2>2, <2>3, <2>4, SeqEqual
<1> QED
  BY <1>1, <1>4, <1>5, <1>6 DEF Fifo!Put

\* BufferListPop after a send of k bytes is a Get of the oldest k bytes, whether
\* the head chunk is recycled or not.
LEMMA SendIsGet ==
  ASSUME IndInv, IndInv', NEW k \in 1 .. ChunkSize, Send(k)
  PROVE  Fifo!Get(k)
<1> DEFINE n == pushed - popped
<1>1. /\ pushed \in Nat /\ popped \in Nat /\ pushed' = pushed /\ popped' = popped + k
      /\ n \in Nat
  BY PendingBounded DEF IndInv, Holds, Send
<1>2. Pending = [i \in 1 .. n |-> popped + i - 1]
  BY PendingIsStream
<1>3. Pending' = [i \in 1 .. n - k |-> popped + k + i - 1]
  <2>1. (Pending = [i \in 1 .. pushed - popped |-> popped + i - 1])'
    BY PendingIsStream, PTL
  <2>2. pushed' - popped' = n - k
    BY <1>1
  <2> QED
    BY <1>1, <2>1, <2>2
<1>4. k <= n
  <2>1. (pushed - popped \in 0 .. NChunks * ChunkSize)'
    BY PendingBounded, PTL
  <2> QED
    BY <1>1, <2>1
<1>5. Len(Pending) = n
  BY <1>1, <1>2
<1>6. Pending' = SubSeq(Pending, k + 1, n)
  <2>1. SubSeq(Pending, k + 1, n) = [i \in 1 .. n - k |-> Pending[i + k]]
    <3>1. (k + 1) .. n \subseteq 1 .. n /\ n - (k + 1) + 1 = n - k
      BY <1>1
    <3>2. Pending \in Seq(Int)
      BY <1>1, <1>2
    <3> QED
      BY <1>1, <1>4, <1>5, <3>1, <3>2
  <2>2. ASSUME NEW i \in 1 .. n - k
        PROVE  Pending[i + k] = popped + k + i - 1
    BY <1>1, <1>2
  <2> QED
    BY <1>3, <2>1, <2>2
<1> QED
  BY <1>1, <1>4, <1>5, <1>6 DEF Fifo!Get

\* The list of chunks of util.c implements a bounded FIFO queue of bytes, for
\* every number and size of chunks: BufferListPush puts, BufferListPop gets.
THEOREM ImplementsByteFifo == Spec => ImplementsFifo
<1>1. ASSUME Init PROVE Fifo!FifoInit
  <2>1. pushed = 0 /\ popped = 0
    BY <1>1 DEF Init
  <2>2. Pending = <<>>
    BY <2>1 DEF Pending
  <2> QED
    BY <2>1, <2>2 DEF Fifo!FifoInit
<1>2. ASSUME IndInv, IndInv', [Next]_vars PROVE [Fifo!FifoNext]_(Fifo!fifoVars)
  <2>1. ASSUME NEW k \in 1 .. ChunkSize PROVE k \in 1 .. NChunks * ChunkSize
    <3>1. 1 * ChunkSize <= NChunks * ChunkSize
      BY Scaled
    <3> QED
      BY <3>1
  <2>2. ASSUME NEW k \in 1 .. ChunkSize, Receive(k) PROVE Fifo!FifoNext
    BY <1>2, <2>1, <2>2, ReceiveIsPut DEF Fifo!FifoNext
  <2>3. ASSUME NEW k \in 1 .. ChunkSize, Send(k) PROVE Fifo!FifoNext
    BY <1>2, <2>1, <2>3, SendIsGet DEF Fifo!FifoNext
  <2>4. CASE UNCHANGED vars
    <3>1. Pending' = Pending
      BY <2>4 DEF Pending, vars
    <3> QED
      BY <2>4, <3>1 DEF Fifo!fifoVars, vars
  <2> QED
    BY <1>2, <2>2, <2>3, <2>4 DEF Next
<1> QED
  BY <1>1, <1>2, Invariance, PTL DEF Spec, ImplementsFifo, Fifo!FifoSpec
===============================================================================
