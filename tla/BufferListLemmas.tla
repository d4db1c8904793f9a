--------------------------- MODULE BufferListLemmas ---------------------------
(***************************************************************************)
(* What BufferListPush and BufferListPop keep of a buffer's contents, for  *)
(* every number and size of chunks.  The proofs about one buffer and about *)
(* the proxy, which keeps one for each direction, rest on these lemmas.    *)
(***************************************************************************)
EXTENDS BufferList, TLAPS

USE BufferListAssumption

\* Between two calls every chunk before the write node is full, every chunk after
\* it is empty, and a head chunk that is not the write node has unsent bytes.
Shape(b) ==
    /\ \A i \in 1 .. NChunks :
          /\ i < b.write_node => b.nodes[i].size = ChunkSize
          /\ i > b.write_node => b.nodes[i].size = 0
    /\ b.read_pos <= HeadNode(b).size
    /\ b.write_node > 1 => b.read_pos < ChunkSize

\* The chunks hold as many bytes as the stream has between first and next.
Count(b, first, next) ==
    next - first = (b.write_node - 1) * ChunkSize + WriteNode(b).size - b.read_pos

\* Chunk i holds the stream from position first - read_pos + (i-1) * ChunkSize on.
Order(b, first) ==
    \A i \in 1 .. NChunks : \A o \in Offset :
        o < b.nodes[i].size
            => b.nodes[i].data[o] = first - b.read_pos + (i - 1) * ChunkSize + o

\* The buffer holds the bytes first .. next - 1 of a stream.
Holds(b, first, next) ==
    /\ b \in Buffer /\ first \in Nat /\ next \in Nat
    /\ Shape(b) /\ Count(b, first, next) /\ Order(b, first)

-------------------------------------------------------------------------------
\* AllocBufferList makes an empty buffer.
LEMMA AllocHolds == Holds(AllocBufferList, 0, 0)
<1> DEFINE b == AllocBufferList
<1>1. /\ b.write_node = 1 /\ b.read_pos = 0
      /\ b.nodes = [i \in 1 .. NChunks |->
                      [data |-> [o \in Offset |-> Garbage], size |-> 0]]
  BY DEF AllocBufferList
<1>2. [data |-> [o \in Offset |-> Garbage], size |-> 0] \in Node
  BY DEF Node, Garbage
<1>3. b \in Buffer
  BY <1>2 DEF AllocBufferList, Buffer
<1> HIDE DEF b
<1>4. \A i \in 1 .. NChunks : b.nodes[i].size = 0
  BY <1>1
<1>5. Shape(b) /\ Count(b, 0, 0) /\ Order(b, 0)
  BY <1>1, <1>4 DEF Shape, Count, Order, HeadNode, WriteNode, Offset
<1> QED
  BY <1>3, <1>5 DEF Holds, b

\* The buffer after k bytes have been received into it and pushed, field by field.
LEMMA PushEffect ==
  ASSUME NEW b \in Buffer, NEW next \in Nat,
         NEW k \in 1 .. ChunkSize, ~SpaceNull(b), k <= SpaceLen(b),
         NEW c, c = BufferListPush(StoreBytes(b, next, k), k)
  PROVE  LET w == b.write_node
             s == b.nodes[w].size
         IN  /\ s + k <= ChunkSize
             /\ c \in Buffer
             /\ c.read_pos = b.read_pos
             /\ c.write_node = IF s + k = ChunkSize /\ w # NChunks THEN w + 1 ELSE w
             /\ c.nodes[w].size = s + k
             /\ \A o \in Offset : c.nodes[w].data[o] =
                    IF o \in s .. s + k - 1 THEN next + (o - s) ELSE b.nodes[w].data[o]
             /\ \A i \in 1 .. NChunks : i # w => c.nodes[i] = b.nodes[i]
<1> DEFINE w == b.write_node
           s == b.nodes[w].size
           d == [o \in Offset |-> IF o \in s .. s + k - 1 THEN next + (o - s)
                                                          ELSE b.nodes[w].data[o]]
           n == [b.nodes EXCEPT ![w] = [data |-> d, size |-> s + k]]
<1>1. /\ w \in 1 .. NChunks /\ s \in 0 .. ChunkSize
      /\ b.nodes \in [1 .. NChunks -> Node]
      /\ b.nodes[w].data \in [Offset -> Int]
      /\ b.read_pos \in 0 .. ChunkSize
  BY DEF Buffer, Node
<1>2. s + k <= ChunkSize
  BY <1>1 DEF SpaceLen, SpaceNull, WriteNode
<1>3. d \in [Offset -> Int]
  <2> SUFFICES ASSUME NEW o \in Offset
               PROVE  (IF o \in s .. s + k - 1 THEN next + (o - s)
                                               ELSE b.nodes[w].data[o]) \in Int
    OBVIOUS
  <2>1. PICK v \in Int : v = b.nodes[w].data[o]
    BY <1>1
  <2>2. (IF o \in s .. s + k - 1 THEN next + (o - s) ELSE v) \in Int
    <3> HIDE DEF w, s
    <3> QED
      BY <1>1, <2>1 DEF Offset
  <2> QED
    BY <2>1, <2>2
<1>4. n \in [1 .. NChunks -> Node]
  <2> HIDE DEF w, s, d
  <2>1. [data |-> d, size |-> s + k] \in Node
    BY <1>1, <1>2, <1>3 DEF Node
  <2>2. PICK r \in Node : r = [data |-> d, size |-> s + k]
    BY <2>1
  <2>3. [b.nodes EXCEPT ![w] = r] \in [1 .. NChunks -> Node]
    BY <1>1
  <2> QED
    BY <2>2, <2>3
<1>5. c.read_pos = b.read_pos
  BY DEF BufferListPush, StoreBytes, Buffer
<1>6. PICK e : e = StoreBytes(b, next, k)
  OBVIOUS
<1>7. /\ e.nodes = [b.nodes EXCEPT ![w].data = d]
      /\ e.write_node = w /\ e.read_pos = b.read_pos
  BY <1>6 DEF StoreBytes, Buffer, WriteNode
<1>8. e.nodes[w].size = s
  BY <1>7, <1>1 DEF Node
<1>9. c.nodes = n
  <2>1. e.nodes[w] = [data |-> d, size |-> s]
    <3>1. b.nodes[w] = [data |-> b.nodes[w].data, size |-> s]
      BY <1>1 DEF Node
    <3>2. e.nodes[w] = [b.nodes[w] EXCEPT !.data = d]
      BY <1>1, <1>7
    <3> HIDE DEF d, s
    <3> QED
      BY <3>1, <3>2
  <2>2. e.nodes \in [1 .. NChunks -> Node]
    <3>1. [b.nodes[w] EXCEPT !.data = d] \in Node
      BY <1>1, <1>3 DEF Node
    <3> HIDE DEF d
    <3> QED
      BY <1>1, <1>7, <3>1
  <2>3. c.nodes = [e.nodes EXCEPT ![w].size = s + k]
    <3>1. e = [nodes |-> e.nodes, write_node |-> w, read_pos |-> b.read_pos]
      BY <1>6 DEF StoreBytes, Buffer
    <3>2. PICK m : m = e.nodes
      OBVIOUS
    <3>3. e = [nodes |-> m, write_node |-> w, read_pos |-> b.read_pos] /\ m[w].size = s
      BY <3>1, <3>2, <1>8
    <3> HIDE DEF w, s
    <3>4. c.nodes = [m EXCEPT ![w].size = s + k]
      <4>1. c = BufferListPush(e, k)
        BY <1>6
      <4>2. c = [e EXCEPT !.nodes[w].size = s + k,
                          !.write_node = IF s + k = ChunkSize /\ @ # NChunks THEN @ + 1 ELSE @]
        BY ONLY <4>1, <3>3 DEF BufferListPush, WriteNode
      <4> QED
        BY ONLY <4>2, <3>3
    <3> QED
      BY <3>2, <3>4
  <2>4. [e.nodes[w] EXCEPT !.size = s + k] = [data |-> d, size |-> s + k]
    <3> HIDE DEF d, s, w
    <3> QED
      BY <2>1
  <2>5. \A i \in 1 .. NChunks : i # w => e.nodes[i] = b.nodes[i]
    <3> HIDE DEF d
    <3> QED
      BY <1>1, <1>7
  <2> HIDE DEF d, s, w
  <2>6. c.nodes = [e.nodes EXCEPT ![w] = [data |-> d, size |-> s + k]]
    BY <2>3, <2>4
  <2>7. PICK r : r = [data |-> d, size |-> s + k]
    OBVIOUS
  <2>8. PICK m : m = e.nodes
    OBVIOUS
  <2>9. PICK q : q = b.nodes
    OBVIOUS
  <2>10. [m EXCEPT ![w] = r] = [q EXCEPT ![w] = r]
    BY <1>1, <2>2, <2>5, <2>8, <2>9
  <2> QED
    BY <2>6, <2>7, <2>8, <2>9, <2>10
<1>10. c.write_node = IF s + k = ChunkSize /\ w # NChunks THEN w + 1 ELSE w
  BY <1>1 DEF BufferListPush, StoreBytes, Buffer, WriteNode, Node
<1>11. c = [nodes |-> n, write_node |-> c.write_node, read_pos |-> b.read_pos]
  BY <1>5, <1>9 DEF BufferListPush, StoreBytes, Buffer
<1>12. c \in Buffer
  <2>1. PICK v : v = c.write_node
    OBVIOUS
  <2>2. v \in 1 .. NChunks
    BY <1>1, <1>10, <2>1
  <2>3. c = [nodes |-> n, write_node |-> v, read_pos |-> b.read_pos]
    BY <1>11, <2>1
  <2> HIDE DEF n
  <2> QED
    BY <1>1, <1>4, <2>2, <2>3 DEF Buffer
<1>13. c.nodes[w].size = s + k /\ c.nodes[w].data = d
  BY <1>1, <1>9
<1> QED
  BY <1>1, <1>2, <1>5, <1>9, <1>10, <1>12, <1>13

\* Receiving k bytes into the space BufferListGetSpace offers and pushing them
\* appends them to the stream held.
LEMMA PushHolds ==
  ASSUME NEW b, NEW first, NEW next, Holds(b, first, next),
         NEW k \in 1 .. ChunkSize, ~SpaceNull(b), k <= SpaceLen(b)
  PROVE  Holds(BufferListPush(StoreBytes(b, next, k), k), first, next + k)
<1> DEFINE w == b.write_node
           s == b.nodes[w].size
<1>1. /\ w \in 1 .. NChunks /\ s \in 0 .. ChunkSize
      /\ next \in Nat /\ first \in Nat /\ b \in Buffer
      /\ b.read_pos \in 0 .. ChunkSize
      /\ ChunkSize \in Nat /\ NChunks \in Nat
  BY DEF Holds, Buffer, Node
<1>2. PICK c : c = BufferListPush(StoreBytes(b, next, k), k)
  OBVIOUS
<1>3. /\ s + k <= ChunkSize
      /\ c \in Buffer
      /\ c.read_pos = b.read_pos
      /\ c.write_node = IF s + k = ChunkSize /\ w # NChunks THEN w + 1 ELSE w
      /\ c.nodes[w].size = s + k
      /\ \A o \in Offset : c.nodes[w].data[o] =
             IF o \in s .. s + k - 1 THEN next + (o - s) ELSE b.nodes[w].data[o]
      /\ \A i \in 1 .. NChunks : i # w => c.nodes[i] = b.nodes[i]
  <2>1. b \in Buffer /\ next \in Nat
    BY <1>1
  <2> QED
    BY <1>2, <2>1, PushEffect
<1>4. PICK full \in Int : full = (w - 1) * ChunkSize
  BY <1>1
<1>5. next - first = full + s - b.read_pos
  BY <1>4 DEF Holds, Count, WriteNode
<1>6. Shape(c)
  BY <1>1, <1>3 DEF Holds, Shape, HeadNode
<1>7. Count(c, first, next + k)
  <2>1. CASE s + k = ChunkSize /\ w # NChunks
    <3>1. c.write_node = w + 1
      BY <1>3, <2>1
    <3>2. w + 1 \in 1 .. NChunks /\ w + 1 # w
      BY <1>1, <2>1
    <3>3. c.nodes[w + 1] = b.nodes[w + 1]
      BY <1>3, <3>2
    <3>4. b.nodes[w + 1].size = 0
      BY <1>1, <3>2 DEF Holds, Shape
    <3>5. ((w + 1) - 1) * ChunkSize = full + ChunkSize
      BY <1>4, <1>1
    <3>6. (next + k) - first = (full + ChunkSize) + 0 - b.read_pos
      BY <1>1, <1>5, <2>1
    <3> QED
      BY <1>3, <3>1, <3>3, <3>4, <3>5, <3>6 DEF Count, WriteNode
  <2>2. CASE ~(s + k = ChunkSize /\ w # NChunks)
    <3>1. c.write_node = w /\ c.nodes[w].size = s + k
      BY <1>3, <2>2
    <3>2. (next + k) - first = full + (s + k) - b.read_pos
      BY <1>1, <1>5
    <3> QED
      BY <1>4, <1>3, <3>1, <3>2 DEF Count, WriteNode
  <2> QED
    BY <2>1, <2>2
<1>8. Order(c, first)
  <2> SUFFICES ASSUME NEW i \in 1 .. NChunks, NEW o \in Offset, o < c.nodes[i].size
               PROVE  c.nodes[i].data[o] = first - b.read_pos + (i - 1) * ChunkSize + o
    BY <1>3 DEF Order
  <2>1. CASE i # w
    <3>1. c.nodes[i] = b.nodes[i]
      BY <1>3, <2>1
    <3> QED
      BY <3>1 DEF Holds, Order
  <2>2. CASE i = w /\ o < s
    <3>1. c.nodes[w].data[o] = b.nodes[w].data[o]
      BY <1>1, <1>3, <2>2 DEF Offset
    <3> QED
      BY <2>2, <3>1 DEF Holds, Order
  <2>3. CASE i = w /\ ~(o < s)
    <3>1. o \in s .. s + k - 1
      BY <1>1, <1>3, <2>3 DEF Offset
    <3>2. c.nodes[w].data[o] = next + (o - s)
      BY <1>3, <3>1
    <3>3. next + (o - s) = first - b.read_pos + full + o
      BY <1>1, <1>5 DEF Offset
    <3> QED
      BY <1>4, <2>3, <3>2, <3>3
  <2> QED
    BY <2>1, <2>2, <2>3
<1>9. next + k \in Nat
  BY <1>1
<1> QED
  BY <1>1, <1>2, <1>3, <1>6, <1>7, <1>8, <1>9 DEF Holds

\* Sending k bytes when that empties a head chunk that is not the write node: the
\* chunk is recycled.
LEMMA RecycleHolds ==
  ASSUME NEW b, NEW first, NEW next, Holds(b, first, next),
         NEW k \in 1 .. ChunkSize, Recycles(b, k)
  PROVE  Holds(RotateHead(b), first + k, next) /\ NChunks # 1
<1> DEFINE w == b.write_node
           r == b.read_pos
<1>1. /\ w \in 2 .. NChunks /\ r \in 0 .. ChunkSize
      /\ next \in Nat /\ first \in Nat
      /\ ChunkSize \in Nat /\ NChunks \in Nat
      /\ b.nodes \in [1 .. NChunks -> Node]
  BY DEF Holds, Buffer, Recycles
<1>2. r + k = ChunkSize
  BY <1>1 DEF Holds, Shape, Recycles, HeadNode
<1>3. PICK c : c = RotateHead(b)
  OBVIOUS
<1>4. /\ c.write_node = w - 1 /\ c.read_pos = 0
      /\ \A i \in 1 .. NChunks - 1 : c.nodes[i] = b.nodes[i + 1]
      /\ c.nodes[NChunks] = [b.nodes[1] EXCEPT !.size = 0]
  <2>1. /\ c.write_node = w - 1 /\ c.read_pos = 0
        /\ c.nodes = [i \in 1 .. NChunks |->
                IF i < NChunks THEN b.nodes[i + 1] ELSE [b.nodes[1] EXCEPT !.size = 0]]
    BY <1>3 DEF RotateHead, HeadNode
  <2>2. ASSUME NEW i \in 1 .. NChunks - 1 PROVE c.nodes[i] = b.nodes[i + 1]
    BY <2>1
  <2>3. c.nodes[NChunks] = [b.nodes[1] EXCEPT !.size = 0]
    BY <2>1
  <2> QED
    BY <2>1, <2>2, <2>3
<1>5. [b.nodes[1] EXCEPT !.size = 0] \in Node /\ c.nodes[NChunks].size = 0
  <2>1. b.nodes[1] \in Node
    BY <1>1
  <2> QED
    BY <1>4, <2>1 DEF Node
<1>6. c \in Buffer
  <2> DEFINE n == [i \in 1 .. NChunks |->
                     IF i < NChunks THEN b.nodes[i + 1] ELSE [b.nodes[1] EXCEPT !.size = 0]]
  <2>1. n \in [1 .. NChunks -> Node]
    BY <1>1, <1>5
  <2>2. c = [nodes |-> n, write_node |-> w - 1, read_pos |-> 0]
    BY <1>3 DEF RotateHead, HeadNode
  <2>3. w - 1 \in 1 .. NChunks /\ 0 \in 0 .. ChunkSize
    BY <1>1
  <2> HIDE DEF n
  <2> QED
    BY <2>1, <2>2, <2>3 DEF Buffer
<1>7. Shape(c)
  <2>1. ASSUME NEW i \in 1 .. NChunks
        PROVE  /\ i < w - 1 => c.nodes[i].size = ChunkSize
               /\ i > w - 1 => c.nodes[i].size = 0
    <3>1. CASE i = NChunks
      BY <1>1, <1>5, <3>1
    <3>2. CASE i < NChunks
      <4>1. c.nodes[i] = b.nodes[i + 1] /\ i + 1 \in 1 .. NChunks
        BY <1>1, <1>4, <3>2
      <4> QED
        BY <1>1, <4>1 DEF Holds, Shape
    <3> QED
      BY <1>1, <3>1, <3>2
  <2>2. c.nodes[1].size \in 0 .. ChunkSize
    <3>1. c.nodes \in [1 .. NChunks -> Node] /\ 1 \in 1 .. NChunks
      BY <1>1, <1>6 DEF Buffer
    <3> QED
      BY <3>1 DEF Node
  <2> QED
    BY <1>1, <1>4, <2>1, <2>2 DEF Shape, HeadNode
<1>8. Count(c, first + k, next)
  <2>1. PICK full \in Int : full = (w - 1) * ChunkSize
    BY <1>1
  <2>2. PICK sz \in Int : sz = b.nodes[w].size
    <3>1. b.nodes[w] \in Node
      BY <1>1
    <3> QED
      BY <3>1 DEF Node
  <2>3. ((w - 1) - 1) * ChunkSize = full - ChunkSize
    BY <1>1, <2>1
  <2>4. c.nodes[w - 1] = b.nodes[w]
    <3>1. w - 1 \in 1 .. NChunks - 1 /\ (w - 1) + 1 = w
      BY <1>1
    <3> QED
      BY <1>4, <3>1
  <2>5. next - first = full + sz - r
    BY <2>1, <2>2 DEF Holds, Count, WriteNode
  <2>6. next - (first + k) = (full - ChunkSize) + sz - 0
    BY <1>1, <1>2, <2>5
  <2> QED
    BY <1>4, <2>2, <2>3, <2>4, <2>6 DEF Count, WriteNode
<1>9. Order(c, first + k)
  <2> SUFFICES ASSUME NEW i \in 1 .. NChunks, NEW o \in Offset, o < c.nodes[i].size
               PROVE  c.nodes[i].data[o] = (first + k) - 0 + (i - 1) * ChunkSize + o
    BY <1>1, <1>4 DEF Order
  <2>1. i < NChunks
    BY <1>1, <1>5 DEF Offset
  <2>2. c.nodes[i] = b.nodes[i + 1] /\ i + 1 \in 1 .. NChunks
    BY <1>1, <1>4, <2>1
  <2>3. PICK before \in Int : before = (i - 1) * ChunkSize
    BY <1>1
  <2>4. ((i + 1) - 1) * ChunkSize = before + ChunkSize
    BY <1>1, <2>3
  <2>5. b.nodes[i + 1].data[o] = first - r + (before + ChunkSize) + o
    BY <2>2, <2>4 DEF Holds, Order
  <2>6. first - r + (before + ChunkSize) + o = (first + k) - 0 + before + o
    <3> HIDE DEF r
    <3> QED
      BY <1>1, <1>2 DEF Offset
  <2> HIDE DEF r
  <2> QED
    BY <2>2, <2>3, <2>5, <2>6
<1>10. first + k \in Nat /\ NChunks # 1
  BY <1>1
<1> QED
  BY <1>1, <1>3, <1>6, <1>7, <1>8, <1>9, <1>10 DEF Holds

\* Sending k bytes when only read_pos moves.
LEMMA AdvanceHolds ==
  ASSUME NEW b, NEW first, NEW next, Holds(b, first, next),
         NEW k \in 1 .. ChunkSize, ~DataNull(b), k <= DataLen(b), ~Recycles(b, k)
  PROVE  Holds([b EXCEPT !.read_pos = @ + k], first + k, next)
<1> DEFINE w == b.write_node
           r == b.read_pos
<1>1. /\ w \in 1 .. NChunks /\ r \in 0 .. ChunkSize
      /\ next \in Nat /\ first \in Nat /\ b \in Buffer
      /\ ChunkSize \in Nat /\ NChunks \in Nat
      /\ b.nodes[1].size \in 0 .. ChunkSize /\ b.nodes[w].size \in 0 .. ChunkSize
      /\ b \in Buffer
  BY DEF Holds, Buffer, Node
<1>2. r + k <= b.nodes[1].size
  BY <1>1 DEF DataLen, DataNull, HeadNode
<1>3. PICK c : c = [b EXCEPT !.read_pos = @ + k]
  OBVIOUS
<1>4. c.nodes = b.nodes /\ c.write_node = w /\ c.read_pos = r + k
  BY <1>1, <1>3 DEF Buffer
<1>5. c \in Buffer
  <2>1. r + k \in 0 .. ChunkSize
    BY <1>1, <1>2
  <2>2. PICK q \in 0 .. ChunkSize : q = r + k
    BY <2>1
  <2>3. c = [b EXCEPT !.read_pos = q]
    BY <1>3, <2>2
  <2> QED
    BY ONLY <1>1, <2>3 DEF Buffer
<1>6. Shape(c)
  BY <1>1, <1>2, <1>4 DEF Holds, Shape, HeadNode, Recycles
<1>7. Count(c, first + k, next)
  <2>1. PICK full \in Int : full = (w - 1) * ChunkSize
    BY <1>1
  <2>2. next - first = full + b.nodes[w].size - r
    BY <2>1 DEF Holds, Count, WriteNode
  <2>3. next - (first + k) = full + b.nodes[w].size - (r + k)
    BY <1>1, <2>2
  <2> QED
    BY <1>4, <2>1, <2>3 DEF Count, WriteNode
<1>8. Order(c, first + k)
  <2>1. (first + k) - c.read_pos = first - r
    BY <1>1, <1>4
  <2> QED
    BY <1>4, <2>1 DEF Holds, Order
<1>9. first + k \in Nat
  BY <1>1
<1> QED
  BY <1>1, <1>3, <1>5, <1>6, <1>7, <1>8, <1>9 DEF Holds

\* Sending k of the bytes BufferListGetData offers and popping them takes the
\* oldest k bytes off the stream held; the exit(0) is not reached.
LEMMA PopHolds ==
  ASSUME NEW b, NEW first, NEW next, Holds(b, first, next),
         NEW k \in 1 .. ChunkSize, ~DataNull(b), k <= DataLen(b)
  PROVE  Holds(BufferListPop(b, k), first + k, next) /\ ~PopExits(b, k)
  BY RecycleHolds, AdvanceHolds DEF BufferListPop, PopExits

\* BufferListGetData points at the next bytes of the stream.
LEMMA HeadIsNext ==
  ASSUME NEW b, NEW first, NEW next, Holds(b, first, next),
         NEW o \in Offset, o < HeadNode(b).size
  PROVE  HeadNode(b).data[o] = first + (o - b.read_pos)
<1>1. b.nodes[1].data[o] = first - b.read_pos + (1 - 1) * ChunkSize + o
  BY DEF Holds, Order, HeadNode
<1>2. first \in Int /\ b.read_pos \in Int /\ o \in Int /\ (1 - 1) * ChunkSize = 0
  BY DEF Holds, Buffer, Offset
<1> QED
  BY <1>1, <1>2 DEF HeadNode

\* BufferListGetData returns NULL exactly when the stream held is empty, and
\* otherwise offers at least one byte, no more than a chunk.
LEMMA NullIsEmpty ==
  ASSUME NEW b, NEW first, NEW next, Holds(b, first, next)
  PROVE  /\ DataNull(b) <=> first = next
         /\ DataLen(b) \in 0 .. ChunkSize
         /\ ~DataNull(b) => DataLen(b) > 0
<1> DEFINE w == b.write_node
<1>1. /\ w \in 1 .. NChunks /\ b.read_pos \in 0 .. ChunkSize
      /\ next \in Nat /\ first \in Nat
      /\ b.nodes[w].size \in 0 .. ChunkSize
  BY DEF Holds, Buffer, Node
<1>2. CASE w = 1
  <2>1. next - first = b.nodes[1].size - b.read_pos
    BY <1>1, <1>2 DEF Holds, Count, WriteNode
  <2> QED
    BY <1>1, <1>2, <2>1 DEF Holds, Shape, DataNull, DataLen, HeadNode
<1>3. CASE w > 1
  <2>1. b.nodes[1].size = ChunkSize /\ b.read_pos < ChunkSize
    BY <1>1, <1>3 DEF Holds, Shape
  <2>2. PICK full \in Int : full = (w - 1) * ChunkSize
    BY <1>1
  <2>3. full >= ChunkSize
    BY <1>1, <1>3, <2>2
  <2>4. next - first = full + b.nodes[w].size - b.read_pos
    BY <2>2 DEF Holds, Count, WriteNode
  <2>5. first # next
    BY <1>1, <2>1, <2>3, <2>4
  <2> QED
    BY <1>1, <1>3, <2>1, <2>5 DEF DataNull, DataLen, HeadNode
<1> QED
  BY <1>1, <1>2, <1>3
===============================================================================
