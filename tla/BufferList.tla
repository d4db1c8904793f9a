------------------------------ MODULE BufferList ------------------------------
(***************************************************************************)
(* The chunked byte buffer of redis_ae/tcpproxy (util.c, util.h): n chunks *)
(* in a singly linked list.  Data is received into write_node, data is     *)
(* sent from head, and a head chunk that has been sent completely is       *)
(* emptied and moved behind tail.                                          *)
(*                                                                         *)
(* A buffer is a record.  The linked list is the sequence nodes, from head *)
(* (index 1) to tail (index NChunks); write_node is the position of the    *)
(* write node in it; read_pos is the offset of the first unsent byte of    *)
(* the head chunk.  A chunk keeps its ChunkSize slots, the stale ones too. *)
(***************************************************************************)
EXTENDS Integers

CONSTANTS
    NChunks,    \* the argument of AllocBufferList: 3 in tcpproxy.c
    ChunkSize   \* BUFFER_CHUNK_SIZE: 16 in util.h

ASSUME BufferListAssumption ==
    /\ NChunks \in Nat \ {0}
    /\ ChunkSize \in Nat \ {0}

Offset == 0 .. ChunkSize - 1

Node == [data : [Offset -> Int], size : 0 .. ChunkSize]

Buffer == [nodes : [1 .. NChunks -> Node],
           write_node : 1 .. NChunks,
           read_pos : 0 .. ChunkSize]

\* What a chunk holds before anything was received into it.
Garbage == -1

AllocBufferList ==
    [nodes |-> [i \in 1 .. NChunks |-> [data |-> [o \in Offset |-> Garbage], size |-> 0]],
     write_node |-> 1,
     read_pos |-> 0]

WriteNode(b) == b.nodes[b.write_node]
HeadNode(b) == b.nodes[1]

\* BufferListGetSpace: NULL, or a pointer to *len free slots of the write node.
SpaceNull(b) == b.write_node = NChunks /\ WriteNode(b).size = ChunkSize
SpaceLen(b) == IF SpaceNull(b) THEN 0 ELSE ChunkSize - WriteNode(b).size

\* BufferListGetData: NULL, or a pointer to *len unsent bytes of the head chunk.
DataNull(b) == b.write_node = 1 /\ b.read_pos = HeadNode(b).size
DataLen(b) == IF DataNull(b) THEN 0 ELSE HeadNode(b).size - b.read_pos

\* recv() storing the k bytes of the stream that start at position first where
\* BufferListGetSpace pointed.
StoreBytes(b, first, k) ==
    LET s == WriteNode(b).size IN
    [b EXCEPT !.nodes[b.write_node].data =
        [o \in Offset |-> IF o \in s .. s + k - 1 THEN first + (o - s) ELSE @[o]]]

BufferListPush(b, len) ==
    LET s == WriteNode(b).size + len IN
    [b EXCEPT !.nodes[b.write_node].size = s,
              !.write_node = IF s = ChunkSize /\ @ # NChunks THEN @ + 1 ELSE @]

\* Mutant: the head chunk is recycled even when it is also the write node.
RecyclesWriteNode(b, len) == b.read_pos + len = HeadNode(b).size

\* Is the head chunk recycled by BufferListPop(b, len)?
Recycles(b, len) == b.read_pos + len = HeadNode(b).size /\ b.write_node # 1

\* head := head->next; the old head, emptied, becomes the tail.
RotateHead(b) ==
    [nodes |-> [i \in 1 .. NChunks |->
                    IF i < NChunks THEN b.nodes[i + 1] ELSE [HeadNode(b) EXCEPT !.size = 0]],
     write_node |-> b.write_node - 1,
     read_pos |-> 0]

\* Mutant: a recycled chunk leaves read_pos where it was.
PopKeepsReadPos(b, len) ==
    IF Recycles(b, len) THEN [RotateHead(b) EXCEPT !.read_pos = b.read_pos]
                        ELSE [b EXCEPT !.read_pos = @ + len]

\* Mutant: a write node that has been sent completely is emptied in place.
PopResetsDrained(b, len) ==
    IF Recycles(b, len) THEN RotateHead(b)
    ELSE IF b.read_pos + len = HeadNode(b).size
         THEN [b EXCEPT !.nodes[1].size = 0, !.read_pos = 0]
         ELSE [b EXCEPT !.read_pos = @ + len]

BufferListPop(b, len) ==
    IF Recycles(b, len) THEN RotateHead(b) ELSE [b EXCEPT !.read_pos = @ + len]

\* The exit(0) of BufferListPop: the recycled chunk had no successor.
PopExits(b, len) == Recycles(b, len) /\ NChunks = 1
===============================================================================
