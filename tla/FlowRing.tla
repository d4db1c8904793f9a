------------------------------- MODULE FlowRing -------------------------------
(***************************************************************************)
(* The flow recorder of unp/tcpflow: store_packet (tcpip.c) writes every   *)
(* TCP segment to its place in the file of its flow; flow.c keeps a ring   *)
(* of the flows whose files are open, closes old ones to make room, and    *)
(* makes the ring smaller when the system refuses another file.            *)
(*                                                                         *)
(* A byte is named by its position in its stream.  A segment is a flow, a  *)
(* position and a length; its sequence number is computed modulo 2^32      *)
(* (here SeqSpace).  last_access is the rank of a flow in the order of last *)
(* accesses, which is all that current_time++ is used for.                 *)
(***************************************************************************)
EXTENDS Integers, FiniteSets

CONSTANTS
    Flow,           \* the flows seen
    NULL,
    RingSize,       \* get_max_fds() - NUM_RESERVED_FDS
    FdLimit,        \* files the process can really have open besides the reserved ones
    bytes_per_flow, \* the -b option; 0 is no limit
    SeqSpace,       \* 2^32
    Guard,          \* 2^16: offsets from SeqSpace - Guard on are taken as negative
    FirstSeq,       \* sequence number of position 0
    MaxPos,         \* bound: positions of a stream
    MaxLen,         \* bound: length of a segment
    Traffic         \* bound: the segments that may be captured

\* A segment of a flow, by the position of its first byte in the stream.
Segment == [flow : Flow, pos : 0 .. MaxPos, len : 1 .. MaxLen]

ASSUME FlowRingAssumption ==
    /\ RingSize \in Nat \ {0}
    /\ {FdLimit, bytes_per_flow, SeqSpace, Guard, FirstSeq, MaxPos, MaxLen} \subseteq Nat
    /\ Guard < SeqSpace /\ MaxLen <= Guard
    /\ NULL \notin Flow
    /\ Traffic \subseteq Segment
    /\ IsFiniteSet(Flow)

\* The recorder has no counter of the wraps of the sequence number: what is shown is
\* shown for streams shorter than the sequence space (4 GB).
ASSUME StreamAssumption == MaxPos < SeqSpace

Pos == 0 .. MaxPos
Hole == -1
Offset == 0 .. MaxPos + MaxLen
SeqNumber(p) == (FirstSeq + p) % SeqSpace

VARIABLES
    \* per flow: flow_state_t
    known,          \* flows in the hash table
    isn, fp, pos, finished, exists, last_access,
    \* flow.c
    fd_ring, max_fds, next_slot,
    \* the call in progress
    pc, seg,
    \* files and system
    file,           \* contents: the stream position stored at each offset
    fpos,           \* file position of the stdio stream
    sysfull,        \* the system's file table is full
    \* auxiliary
    first,          \* stream position of the first segment seen
    damaged         \* flows one of whose writes failed

state == <<known, isn, fp, pos, finished, exists, last_access>>
ring == <<fd_ring, max_fds, next_slot>>
disk == <<file, fpos, first, damaged>>
vars == <<state, ring, pc, seg, disk, sysfull>>

Init ==
    /\ known = {} /\ finished = {} /\ exists = {}
    /\ fp = {}                              \* flows with fp # NULL
    /\ isn = [f \in Flow |-> 0]
    /\ pos = [f \in Flow |-> 0]
    /\ last_access = [f \in Flow |-> 0]
    /\ fd_ring = [i \in 0 .. RingSize - 1 |-> NULL]
    /\ max_fds = RingSize
    /\ next_slot = -1
    /\ pc = "pcap_loop"
    /\ seg \in {s \in Traffic : s.pos = 0 /\ s.len = 1}
    /\ file = [f \in Flow |-> [o \in Offset |-> Hole]]
    /\ fpos = [f \in Flow |-> 0]
    /\ sysfull = FALSE
    /\ first = [f \in Flow |-> 0]
    /\ damaged = {}
-------------------------------------------------------------------------------
(* Finding and creating the state of a flow *)

Touch(f) ==
    [g \in Flow |->
        IF g = f THEN Cardinality(known \cup {f})
        ELSE IF f \in known /\ last_access[g] > last_access[f] THEN last_access[g] - 1
        ELSE last_access[g]]

\* seq - isn in 32 bits, and -1 for what the guard takes as older than the isn.
FlowOffset(s, i) == LET o == (SeqNumber(s.pos) - i) % SeqSpace IN IF o >= SeqSpace - Guard THEN -1 ELSE o

\* store_packet up to the decision whether there is something to write.  A segment
\* starts at most Guard positions before the first one seen: the window.
StorePacket(s) ==
    /\ pc = "pcap_loop"
    /\ s.flow \in known => s.pos >= first[s.flow] - Guard
    /\ LET f == s.flow
           i == IF f \in known THEN isn[f] ELSE SeqNumber(s.pos)
           offset == FlowOffset(s, i)
           outside == bytes_per_flow # 0 /\ offset > bytes_per_flow
       IN  /\ known' = known \cup {f}
           /\ isn' = [isn EXCEPT ![f] = i]
           /\ first' = [first EXCEPT ![f] = IF f \in known THEN @ ELSE s.pos]
           /\ last_access' = Touch(f)
           /\ pc' = IF f \in finished \/ offset = -1 \/ outside THEN "update_files"
                    ELSE IF f \in fp THEN "write" ELSE "fopen"
           /\ seg' = s
    /\ UNCHANGED <<fp, pos, finished, exists, ring, file, fpos, damaged, sysfull>>
-------------------------------------------------------------------------------
(* flow.c: opening a file *)

Before(x, y) == x # NULL /\ (y = NULL \/ last_access[x] < last_access[y])

\* What qsort may make of the first n entries of the ring.
sort_fds(n) ==
    LET slots == 0 .. n - 1
    IN  {[i \in 0 .. RingSize - 1 |-> IF i \in slots THEN fd_ring[pi[i]] ELSE fd_ring[i]] :
            pi \in {q \in [slots -> slots] :
                      /\ \A i, j \in slots : q[i] = q[j] => i = j
                      /\ \A i, j \in slots : i < j => ~Before(fd_ring[q[j]], fd_ring[q[i]])}}

CanOpen == ~sysfull /\ Cardinality(fp) < FdLimit

\* Mutant: an existing file is opened with "w" again.
FopenTruncates(f) == [o \in Offset |-> Hole]

\* attempt_fopen: "w" empties the file, "r+" leaves it.
FopenContents(f) == IF f \in exists THEN file[f] ELSE [o \in Offset |-> Hole]

\* Mutant: the ring wraps one slot late.
WrapsLate(slot) == slot > max_fds

RingWraps(slot) == slot = max_fds

\* fopen succeeds: take the next slot, close the file of the flow found there.  A
\* slot behind the array overruns it; a flow that finds itself in its slot closes
\* its own file and FGETPOS is given NULL.
OpenSucceeds ==
    /\ pc = "fopen"
    /\ CanOpen
    /\ LET f == seg.flow
           wrap == RingWraps(next_slot + 1)
           slot == IF wrap THEN 0 ELSE next_slot + 1
       IN  /\ file' = [file EXCEPT ![f] = FopenContents(f)]
           /\ fpos' = [fpos EXCEPT ![f] = 0]
           /\ next_slot' = slot
           /\ IF slot >= RingSize
              THEN /\ pc' = "overrun"
                   /\ fp' = fp \cup {f}
                   /\ UNCHANGED <<fd_ring, exists, pos>>
              ELSE \E r \in IF wrap THEN sort_fds(max_fds) ELSE {fd_ring} :
                      LET old == r[slot]
                      IN  /\ fp' = (fp \cup {f}) \ {old}
                          /\ fd_ring' = [r EXCEPT ![slot] = f]
                          /\ exists' = exists \cup {f}
                          /\ pos' = [g \in Flow |-> IF g \in {f, old} THEN 0 ELSE pos[g]]
                          /\ pc' = IF old = f THEN "null_file" ELSE "write"
    /\ UNCHANGED <<known, isn, finished, last_access, max_fds, seg, first, damaged, sysfull>>

\* Where the loop that shifts the sorted ring stops: behind it or at a NULL.
ShiftStop(r) ==
    LET stops == {i \in 1 .. max_fds : i = max_fds \/ r[i] = NULL}
    IN  IF max_fds = 0 THEN 1 ELSE CHOOSE i \in stops : \A j \in stops : i <= j

SizeAfterShift(i) == i - 1

\* fopen fails with EMFILE or ENFILE: contract_fd_ring, then try again.
OpenTooMany ==
    /\ pc = "fopen"
    /\ ~CanOpen
    /\ \E r \in sort_fds(max_fds) :
          IF r[0] = NULL
          THEN pc' = "died" /\ UNCHANGED <<fp, pos, ring>>
          ELSE /\ fp' = fp \ {r[0]}
               /\ pos' = [pos EXCEPT ![r[0]] = IF r[0] \in fp THEN 0 ELSE @]
               /\ max_fds' = SizeAfterShift(ShiftStop(r))
               /\ fd_ring' = [i \in 0 .. RingSize - 1 |->
                                IF i + 1 < ShiftStop(r) THEN r[i + 1] ELSE r[i]]
               /\ next_slot' = -1
               /\ pc' = pc
    /\ UNCHANGED <<known, isn, finished, exists, last_access, seg, disk, sysfull>>

\* fopen fails for another reason: the flow is given up.
OpenFails ==
    /\ pc = "fopen"
    /\ finished' = finished \cup {seg.flow}
    /\ pc' = "update_files"
    /\ UNCHANGED <<known, isn, fp, pos, exists, last_access, ring, seg, disk, sysfull>>
-------------------------------------------------------------------------------
(* store_packet: the write *)

ClipLength(offset, len) ==
    IF bytes_per_flow # 0 /\ offset + len > bytes_per_flow THEN bytes_per_flow - offset ELSE len

\* Mutant: a file that has just been opened is taken to be in place.
SeekUnlessFresh(f, offset) == IF offset # pos[f] /\ pos[f] # 0 THEN offset ELSE fpos[f]

\* Where fwrite writes: at offset, by seeking there unless pos says it is there.
SeekTo(f, offset) == IF offset # pos[f] THEN offset ELSE fpos[f]

\* fwrite writes n bytes, all of them or what an error leaves it.
Write(n) ==
    /\ pc = "write"
    /\ LET f == seg.flow
           offset == FlowOffset(seg, isn[f])
           len == ClipLength(offset, seg.len)
           start == SeekTo(f, offset)
           done == bytes_per_flow # 0 /\ offset + seg.len > bytes_per_flow
       IN  /\ n <= len
           /\ damaged' = IF n < len THEN damaged \cup {f} ELSE damaged
           /\ file' = [file EXCEPT ![f] =
                 [o \in Offset |-> IF o \in start .. start + n - 1
                                   THEN seg.pos + (o - start) ELSE @[o]]]
           /\ fpos' = [fpos EXCEPT ![f] = start + n]
           /\ pos' = [pos EXCEPT ![f] = IF done THEN 0 ELSE offset + len]
           /\ finished' = IF done THEN finished \cup {f} ELSE finished
           /\ fp' = IF done THEN fp \ {f} ELSE fp
    /\ pc' = "update_files"
    /\ UNCHANGED <<known, isn, exists, last_access, ring, seg, first, sysfull>>

\* The end of process_ip: update_summary_file and update_tcp_conver_file open their
\* files one after the other, and exit(0) if they cannot.
UpdateFiles ==
    /\ pc = "update_files"
    /\ pc' = IF CanOpen THEN "pcap_loop" ELSE "exited"
    /\ UNCHANGED <<state, ring, seg, disk, sysfull>>

\* Other processes fill the system's file table and free it again.
SystemFills ==
    /\ sysfull' = ~sysfull
    /\ UNCHANGED <<state, ring, pc, seg, disk>>
-------------------------------------------------------------------------------
WriteAny == \E n \in 0 .. MaxLen : Write(n)

Program == OpenSucceeds \/ OpenTooMany \/ OpenFails \/ WriteAny \/ UpdateFiles

Next == Program \/ SystemFills \/ \E s \in Traffic : StorePacket(s)

Spec == Init /\ [][Next]_vars

\* The program runs; packets and the file table do what they like.
FairSpec == Spec /\ WF_vars(OpenSucceeds \/ OpenTooMany \/ WriteAny \/ UpdateFiles)
-------------------------------------------------------------------------------
TypeOK ==
    /\ known \subseteq Flow /\ fp \subseteq known
    /\ finished \subseteq known /\ exists \subseteq known
    /\ isn \in [Flow -> 0 .. SeqSpace - 1]
    /\ pos \in [Flow -> Offset] /\ fpos \in [Flow -> Offset]
    /\ last_access \in [Flow -> 0 .. Cardinality(Flow)]
    /\ fd_ring \in [0 .. RingSize - 1 -> Flow \cup {NULL}]
    /\ max_fds \in 0 .. RingSize
    /\ next_slot \in -1 .. RingSize
    /\ seg \in Traffic
    /\ file \in [Flow -> [Offset -> Pos \cup {Hole} \cup 0 .. MaxPos + MaxLen]]

Dead == pc \in {"overrun", "null_file"}

\* Every open file can be found again to be closed: while the ring has a slot left,
\* each flow with an open file is in exactly one slot of it, no flow is in two, and
\* the next slot to be used is in it, however often the ring wrapped, was sorted
\* and was contracted.
RingTracksOpen ==
    max_fds > 0 /\ ~Dead =>
        /\ \A f \in fp : \E i \in 0 .. max_fds - 1 : fd_ring[i] = f
        /\ \A i, j \in 0 .. max_fds - 1 : fd_ring[i] = fd_ring[j] /\ i # j => fd_ring[i] = NULL
        /\ next_slot < max_fds

\* A flow whose file was closed to make room can be opened again: only flows that
\* are finished are closed and still in the ring.
ClosedInRingIsFinished ==
    max_fds > 0 =>
        \A i \in 0 .. max_fds - 1 : fd_ring[i] \in Flow \ fp => fd_ring[i] \in finished

\* The ring, the open files and the flow table agree after any sequence of
\* open_file, close_file, sort_fds and contract_fd_ring.
RingConsistent == TypeOK /\ RingTracksOpen /\ ClosedInRingIsFinished

\* Each byte is stored at its distance from the first byte of the flow that was
\* seen, for segments in any order, repeated, overlapping, older than the first
\* one, across the wrap of the sequence number, and through closing and reopening,
\* as long as no write to the flow's file failed: pos is set to where the write
\* should have ended.  Nothing is stored at or beyond "-b: max number of bytes
\* per flow to save".
StoredInPlace ==
    \A f \in Flow, o \in Offset :
        file[f][o] # Hole =>
            /\ f \notin damaged => file[f][o] = first[f] + o
            /\ bytes_per_flow # 0 => o < bytes_per_flow

\* What was stored stays stored.
NothingTruncated ==
    [][\A f \in Flow, o \in Offset : file[f][o] # Hole => file'[f][o] # Hole]_vars

\* Contraction ends: a file is opened, given up, or the program dies "completely out
\* of file descriptors".
OpenEnds == pc = "fopen" ~> pc # "fopen"
===============================================================================
