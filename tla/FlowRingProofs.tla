---------------------------- MODULE FlowRingProofs ----------------------------
(***************************************************************************)
(* Proofs about the flow recorder of tcpflow, for any number of flows, any *)
(* size of the ring, any limit on open files and any segments: the ring    *)
(* finds every open file, and every byte is stored in its place.           *)
(***************************************************************************)
EXTENDS FlowRing, FiniteSetTheorems, FunctionTheorems, WellFoundedInduction, TLAPS

USE FlowRingAssumption, StreamAssumption DEF Segment

-------------------------------------------------------------------------------
(* The inductive invariant *)

\* TypeOK, and the types of what it leaves out.
Typed ==
    /\ TypeOK
    /\ first \in [Flow -> Pos]
    /\ pc \in {"pcap_loop", "fopen", "write", "update_files",
               "overrun", "null_file", "died", "exited"}

\* What store_packet has found out about the segment it opens a file for or writes:
\* it belongs to a flow that is not finished and not beyond the limit, and its
\* offset in 32 bits is its distance from the first segment of the flow.
Calling ==
    /\ pc \in {"fopen", "write"} =>
          /\ seg.flow \in known \ finished
          /\ seg.pos >= first[seg.flow]
          /\ FlowOffset(seg, isn[seg.flow]) = seg.pos - first[seg.flow]
          /\ bytes_per_flow # 0 => seg.pos - first[seg.flow] <= bytes_per_flow
    /\ pc = "fopen" => seg.flow \notin fp
    /\ pc = "write" => seg.flow \in fp

\* The program only runs off its ring, or into its own slot, once the ring has
\* been contracted to nothing.
RingSound ==
    /\ RingTracksOpen
    /\ ClosedInRingIsFinished
    /\ Dead => max_fds = 0
    /\ pc # "overrun" => next_slot < RingSize

\* The file position of an open file is where pos says, unless a write failed and
\* left it short of that; what was stored is in a file that exists.
FilesSound ==
    /\ StoredInPlace
    /\ \A f \in Flow, o \in Offset : file[f][o] # Hole => f \in exists
    /\ \A f \in known : isn[f] = SeqNumber(first[f])
    /\ pc # "overrun" => \A f \in fp :
          f \in exists /\ fpos[f] <= pos[f] /\ (f \notin damaged => fpos[f] = pos[f])

IndInv == Typed /\ Calling /\ RingSound /\ FilesSound

-------------------------------------------------------------------------------
(* The operators *)

\* A set of naturals that is not empty has a smallest element.
LEMMA SmallestElement ==
  ASSUME NEW S, S \subseteq Nat, S # {}
  PROVE  \E x \in S : \A y \in S : x <= y
<1>1. PICK x \in S : \A y \in S : ~(<<y, x>> \in OpToRel(<, Nat))
  BY WFMin, NatLessThanWellFounded, Zenon
<1>2. ASSUME NEW y \in S PROVE ~(y < x)
  BY <1>1, Zenon DEF OpToRel
<1> QED
  BY <1>2

\* The difference of two sequence numbers, taken modulo the sequence space, is the
\* distance of the positions, also when the number wrapped between them.
LEMMA WrappedDistance ==
  ASSUME NEW p \in Pos, NEW q \in Pos
  PROVE  /\ (SeqNumber(p) - SeqNumber(q)) % SeqSpace \in 0 .. SeqSpace - 1
         /\ p >= q => (SeqNumber(p) - SeqNumber(q)) % SeqSpace = p - q
         /\ p < q  => (SeqNumber(p) - SeqNumber(q)) % SeqSpace = SeqSpace + p - q
<1>1. PICK K : K = SeqSpace /\ K \in Nat /\ K > 0
  OBVIOUS
<1>2. p \in Nat /\ q \in Nat /\ p < K /\ q < K
  BY <1>1 DEF Pos
<1>3. PICK m \in Nat, n \in Nat : m = FirstSeq + p /\ n = FirstSeq + q /\ m - n = p - q
  <2>1. FirstSeq \in Nat
    OBVIOUS
  <2>2. FirstSeq + p \in Nat /\ FirstSeq + q \in Nat /\ (FirstSeq + p) - (FirstSeq + q) = p - q
    BY ONLY <1>2, <2>1
  <2> QED
    BY <2>2
<1>4. ASSUME NEW k \in Nat
      PROVE  \E c \in Nat, r \in 0 .. K - 1 : r = (k % K) /\ k = c * K + r
  <2>1. k \div K \in Nat /\ k % K \in 0 .. K - 1 /\ k = (k \div K) * K + (k % K)
    BY <1>1
  <2> QED
    BY <2>1
<1>5. PICK c \in Nat, a \in 0 .. K - 1 : a = (m % K) /\ m = c * K + a
  BY <1>4
<1>6. PICK d \in Nat, b \in 0 .. K - 1 : b = (n % K) /\ n = d * K + b
  BY <1>4
<1>7. p - q = (c * K - d * K) + (a - b)
  <2>1. PICK x \in Nat, y \in Nat : x = c * K /\ y = d * K
    BY <1>1
  <2>2. p - q = (x - y) + (a - b)
    BY ONLY <1>1, <1>2, <1>3, <1>5, <1>6, <2>1, x \in Nat, y \in Nat,
            a \in 0 .. K - 1, b \in 0 .. K - 1, m \in Nat, n \in Nat
  <2> QED
    BY <2>1, <2>2
<1>8. \/ c = d /\ c * K - d * K = 0
      \/ c = d + 1 /\ c * K - d * K = K
      \/ d = c + 1 /\ c * K - d * K = -K
  <2>1. ASSUME NEW u \in Nat, NEW v \in Nat, v >= u + 2 PROVE v * K - u * K >= 2 * K
    <3>1. PICK w \in Nat : v = (u + w) + 2
      BY <2>1
    <3>2. v * K = (u * K + w * K) + 2 * K /\ w * K \in Nat /\ u * K \in Nat
      BY <1>1, <3>1
    <3> QED
      BY <1>1, <3>2
  <2>2. ~(c >= d + 2)
    <3> SUFFICES ASSUME c >= d + 2 PROVE FALSE
      OBVIOUS
    <3>1. c * K - d * K >= 2 * K
      BY <2>1
    <3>2. PICK x \in Nat, y \in Nat : x = c * K /\ y = d * K
      BY <1>1
    <3> QED
      BY <1>1, <1>2, <1>5, <1>6, <1>7, <3>1, <3>2
  <2>3. ~(d >= c + 2)
    <3> SUFFICES ASSUME d >= c + 2 PROVE FALSE
      OBVIOUS
    <3>1. d * K - c * K >= 2 * K
      BY <2>1
    <3>2. PICK x \in Nat, y \in Nat : x = c * K /\ y = d * K
      BY <1>1
    <3> QED
      BY <1>1, <1>2, <1>5, <1>6, <1>7, <3>1, <3>2
  <2>4. c = d \/ c = d + 1 \/ d = c + 1
    BY <2>2, <2>3
  <2> QED
    BY <1>1, <2>4
<1>9. PICK e \in Int : /\ e = c * K - d * K
                       /\ e = 0 \/ e = K \/ e = -K
                       /\ p - q = e + (a - b)
  BY <1>1, <1>7, <1>8
<1>10. (a - b) % K = IF p >= q THEN p - q ELSE K + p - q
  <2>1. ASSUME NEW x \in Int, x \in 0 .. K - 1 PROVE x % K = x /\ (x - K) % K = x
    BY <1>1, <2>1
  <2>2. CASE p >= q
    <3>1. p - q \in 0 .. K - 1 /\ (a - b = p - q \/ a - b = (p - q) - K)
      BY <1>1, <1>2, <1>9, <2>2
    <3> QED
      BY <2>1, <2>2, <3>1
  <2>3. CASE p < q
    <3>1. (K + p) - q \in 0 .. K - 1 /\ (a - b = (K + p) - q \/ a - b = ((K + p) - q) - K)
      BY <1>1, <1>2, <1>9, <2>3
    <3> QED
      BY <1>1, <1>2, <2>1, <2>3, <3>1
  <2> QED
    BY <1>2, <2>2, <2>3
<1>11. (SeqNumber(p) - SeqNumber(q)) % SeqSpace = ((a - b) % K)
  BY <1>1, <1>3, <1>5, <1>6 DEF SeqNumber
<1> QED
  BY <1>1, <1>2, <1>10, <1>11

\* A segment whose offset store_packet accepts starts at or behind the first one of
\* its flow, and the offset is its distance from that.
LEMMA OffsetIsDistance ==
  ASSUME NEW s \in Traffic, NEW q \in Pos, s.pos >= q - Guard,
         FlowOffset(s, SeqNumber(q)) # -1
  PROVE  s.pos >= q /\ FlowOffset(s, SeqNumber(q)) = s.pos - q
<1>1. PICK p \in Pos : p = s.pos
  BY DEF Pos
<1>2. PICK o : o = ((SeqNumber(p) - SeqNumber(q)) % SeqSpace)
  OBVIOUS
<1>3. /\ p >= q => o = p - q
      /\ p < q => o = SeqSpace + p - q
  BY <1>2, WrappedDistance
<1>4. FlowOffset(s, SeqNumber(q)) = IF o >= SeqSpace - Guard THEN -1 ELSE o
  BY <1>1, <1>2 DEF FlowOffset
<1>5. p >= q
  <2> SUFFICES ASSUME p < q PROVE FALSE
    BY DEF Pos
  <2>1. o >= SeqSpace - Guard
    BY <1>1, <1>3 DEF Pos
  <2> QED
    BY <1>4, <2>1
<1> QED
  BY <1>1, <1>3, <1>4, <1>5

Slots == 0 .. RingSize - 1

\* r is the ring after the first n slots were sorted: they hold what they held, no
\* flow twice, and the empty ones are behind the others.
Sorted(r, n) ==
    /\ r \in [Slots -> Flow \cup {NULL}]
    /\ \A i \in 0 .. n - 1 : \E j \in 0 .. n - 1 : r[i] = fd_ring[j]
    /\ \A j \in 0 .. n - 1 : \E i \in 0 .. n - 1 : r[i] = fd_ring[j]
    /\ (\A i, j \in 0 .. n - 1 : fd_ring[i] = fd_ring[j] /\ i # j => fd_ring[i] = NULL)
          => \A i, j \in 0 .. n - 1 : r[i] = r[j] /\ i # j => r[i] = NULL
    /\ \A i, j \in 0 .. n - 1 : i < j /\ r[i] = NULL => r[j] = NULL

\* sort_fds permutes the slots it sorts, and moves the empty ones behind.
LEMMA SortEffect ==
  ASSUME fd_ring \in [Slots -> Flow \cup {NULL}], NEW n \in 0 .. RingSize,
         NEW r \in sort_fds(n)
  PROVE  Sorted(r, n)
<1> DEFINE S == 0 .. n - 1
<1>1. PICK q \in [S -> S] :
          /\ \A i, j \in S : q[i] = q[j] => i = j
          /\ \A i, j \in S : i < j => ~Before(fd_ring[q[j]], fd_ring[q[i]])
          /\ r = [i \in Slots |-> IF i \in S THEN fd_ring[q[i]] ELSE fd_ring[i]]
  BY DEF sort_fds, Slots
<1>2. S \subseteq Slots
  BY DEF Slots
<1>3. IsFiniteSet(S)
  BY FS_Interval
<1> HIDE DEF S
<1>4. \A t \in S : \E i \in S : q[i] = t
  <2>1. q \in Injection(S, S)
    BY <1>1, Fun_IsInj
  <2>2. q \in Surjection(S, S)
    BY <1>3, <2>1, FS_Injection
  <2> QED
    BY <2>2, Fun_SurjectionProperties
<1>5. \A i \in S : r[i] = fd_ring[q[i]] /\ q[i] \in S
  BY <1>1, <1>2
<1>6. r \in [Slots -> Flow \cup {NULL}]
  BY <1>1, <1>2
<1>7. \A i \in S : \E j \in S : r[i] = fd_ring[j]
  BY <1>5
<1>8. \A j \in S : \E i \in S : r[i] = fd_ring[j]
  BY <1>4, <1>5
<1>9. ASSUME \A i, j \in S : fd_ring[i] = fd_ring[j] /\ i # j => fd_ring[i] = NULL,
             NEW i \in S, NEW j \in S, r[i] = r[j], i # j
      PROVE  r[i] = NULL
  BY <1>1, <1>5, <1>9
<1>10. ASSUME NEW i \in S, NEW j \in S, i < j, r[i] = NULL PROVE r[j] = NULL
  BY <1>1, <1>5, <1>10 DEF Before
<1> QED
  BY <1>6, <1>7, <1>8, <1>9, <1>10 DEF Sorted, S

\* The loop of contract_fd_ring stops at the first empty slot behind slot 0, or
\* behind the last slot: it has passed no empty slot, and leaves none in use.
LEMMA ShiftStopFound ==
  ASSUME max_fds \in 1 .. RingSize, NEW r, Sorted(r, max_fds), NEW k, k = ShiftStop(r)
  PROVE  /\ k \in 1 .. max_fds
         /\ \A i \in 1 .. k - 1 : r[i] # NULL
         /\ \A i \in k .. max_fds - 1 : r[i] = NULL
<1> DEFINE stops == {i \in 1 .. max_fds : i = max_fds \/ r[i] = NULL}
<1>1. stops \subseteq Nat /\ max_fds \in stops
  OBVIOUS
<1>2. k = CHOOSE i \in stops : \A j \in stops : i <= j
  BY DEF ShiftStop
<1>3. \E i \in stops : \A j \in stops : i <= j
  <2> HIDE DEF stops
  <2> QED
    BY <1>1, SmallestElement
<1>4. k \in stops /\ \A j \in stops : k <= j
  <2> HIDE DEF stops
  <2> QED
    BY <1>2, <1>3
<1>5. ASSUME NEW i \in 1 .. k - 1, r[i] = NULL PROVE FALSE
  <2>1. i \in stops /\ i < k
    BY <1>4, <1>5
  <2> QED
    BY <1>4, <2>1
<1>6. ASSUME NEW i \in k .. max_fds - 1 PROVE r[i] = NULL
  <2>1. k \in 0 .. max_fds - 1 /\ i \in 0 .. max_fds - 1 /\ (i = k \/ k < i)
    BY <1>4, <1>6
  <2>2. r[k] = NULL
    BY <1>4, <2>1
  <2>3. ASSUME k < i PROVE r[i] = NULL
    BY <2>1, <2>2, <2>3 DEF Sorted
  <2> QED
    BY <2>1, <2>2, <2>3
<1> QED
  BY <1>4, <1>5, <1>6

\* current_time++: the ranks of the last accesses stay below the number of flows.
LEMMA TouchTyped ==
  ASSUME last_access \in [Flow -> 0 .. Cardinality(Flow)], known \subseteq Flow,
         NEW f \in Flow
  PROVE  Touch(f) \in [Flow -> 0 .. Cardinality(Flow)]
<1>1. Cardinality(Flow) \in Nat
  BY FS_CardinalityType
<1>2. Cardinality(known \cup {f}) \in 0 .. Cardinality(Flow)
  <2>1. PICK T \in SUBSET Flow : T = known \cup {f}
    OBVIOUS
  <2>2. IsFiniteSet(T) /\ Cardinality(T) <= Cardinality(Flow)
    BY FS_Subset
  <2> QED
    BY <1>1, <2>1, <2>2, FS_CardinalityType
<1>3. ASSUME NEW g \in Flow, last_access[g] > last_access[f]
      PROVE  last_access[g] - 1 \in 0 .. Cardinality(Flow)
  BY <1>1, <1>3
<1> QED
  BY <1>2, <1>3 DEF Touch

-------------------------------------------------------------------------------
(* The steps *)

\* The recorder starts with an empty ring and empty files.
LEMMA InitHolds == Init => IndInv
<1> SUFFICES ASSUME Init PROVE IndInv
  OBVIOUS
<1> USE DEF Init
<1>1. Typed
  BY FS_CardinalityType DEF Typed, TypeOK, Pos, Offset, Hole
<1>2. Calling
  BY DEF Calling
<1>3. RingSound
  BY DEF RingSound, RingTracksOpen, ClosedInRingIsFinished, Dead
<1>4. FilesSound
  BY DEF FilesSound, StoredInPlace
<1> QED
  BY <1>1, <1>2, <1>3, <1>4 DEF IndInv

\* store_packet, up to the decision what to do with the segment.
LEMMA StoreStep ==
  ASSUME IndInv, NEW s \in Traffic, StorePacket(s)
  PROVE  IndInv'
<1> DEFINE f == s.flow
           i == IF f \in known THEN isn[f] ELSE SeqNumber(s.pos)
           o == FlowOffset(s, i)
<1>1. f \in Flow /\ s.pos \in Pos
  BY DEF Pos
<1>2. PICK q \in Pos :
          /\ q = IF f \in known THEN first[f] ELSE s.pos
          /\ i = SeqNumber(q)
          /\ s.pos >= q - Guard
  <2>1. CASE f \in known
    BY <1>1, <2>1 DEF IndInv, Typed, FilesSound, StorePacket
  <2>2. CASE f \notin known
    BY <1>1, <2>2 DEF Pos
  <2> QED
    BY <2>1, <2>2
<1>3. /\ known' = known \cup {f}
      /\ isn' = [isn EXCEPT ![f] = SeqNumber(q)]
      /\ first' = [first EXCEPT ![f] = q]
      /\ last_access' = Touch(f)
      /\ seg' = s
      /\ pc' = IF f \in finished \/ o = -1 \/ (bytes_per_flow # 0 /\ o > bytes_per_flow)
               THEN "update_files" ELSE IF f \in fp THEN "write" ELSE "fopen"
      /\ UNCHANGED <<fp, pos, finished, exists, ring, file, fpos, damaged, sysfull>>
  BY <1>2 DEF StorePacket
<1>4. o = -1 \/ (s.pos >= q /\ o = s.pos - q)
  BY <1>2, OffsetIsDistance
<1>5. \A g \in Flow : /\ isn'[g] = IF g = f THEN SeqNumber(q) ELSE isn[g]
                      /\ first'[g] = IF g = f THEN q ELSE first[g]
  BY <1>1, <1>3 DEF IndInv, Typed, TypeOK
<1>6. Typed'
  <2>1. SeqNumber(q) \in 0 .. SeqSpace - 1
    BY DEF SeqNumber, Pos
  <2>2. last_access' \in [Flow -> 0 .. Cardinality(Flow)]
    BY <1>1, <1>3, TouchTyped DEF IndInv, Typed, TypeOK
  <2>3. isn' \in [Flow -> 0 .. SeqSpace - 1] /\ first' \in [Flow -> Pos]
    BY <1>1, <1>3, <2>1 DEF IndInv, Typed, TypeOK
  <2> QED
    BY <1>1, <1>3, <2>2, <2>3 DEF IndInv, Typed, TypeOK, ring
<1>7. Calling'
  <2> SUFFICES ASSUME pc' \in {"fopen", "write"} PROVE Calling'
    BY <1>3 DEF Calling
  <2>1. f \notin finished /\ o # -1 /\ (bytes_per_flow # 0 => o <= bytes_per_flow)
    BY <1>1, <1>3, <1>4 DEF Pos
  <2>2. isn'[f] = SeqNumber(q) /\ first'[f] = q
    BY <1>1, <1>5
  <2>3. FlowOffset(seg', isn'[seg'.flow]) = s.pos - q
    BY <1>2, <1>3, <1>4, <2>1, <2>2
  <2>4. FlowOffset(seg, isn[seg.flow])' = s.pos - q
    BY <2>3 DEF FlowOffset, SeqNumber
  <2>5. pc' = IF f \in fp THEN "write" ELSE "fopen"
    BY <1>3
  <2> QED
    BY <1>3, <1>4, <2>1, <2>2, <2>4, <2>5 DEF Calling
<1>8. RingSound'
  BY <1>3 DEF IndInv, RingSound, RingTracksOpen, ClosedInRingIsFinished, Dead, ring, StorePacket
<1>9. FilesSound'
  <2>1. ASSUME NEW g \in Flow, NEW x \in Offset, file[g][x] # Hole
        PROVE  g \in known
    BY <2>1 DEF IndInv, FilesSound, Typed, TypeOK
  <2>2. ASSUME NEW g \in known PROVE first'[g] = first[g]
    BY <1>2, <1>5, <2>2 DEF IndInv, Typed, TypeOK
  <2>3. StoredInPlace'
    BY <1>3, <2>1, <2>2 DEF IndInv, FilesSound, StoredInPlace
  <2>4. \A g \in known' : isn'[g] = SeqNumber(first'[g])
    BY <1>1, <1>3, <1>5 DEF IndInv, FilesSound, Typed, TypeOK
  <2>5. \A g \in known' : (isn[g] = SeqNumber(first[g]))'
    BY <2>4 DEF SeqNumber
  <2>6. pc # "overrun"
    BY DEF StorePacket
  <2> QED
    BY <1>3, <2>3, <2>5, <2>6 DEF IndInv, FilesSound
<1> QED
  BY <1>6, <1>7, <1>8, <1>9 DEF IndInv

\* open_file empties no file: what "w" would lose was never written.
LEMMA ReopenKeeps ==
  ASSUME IndInv, OpenSucceeds
  PROVE  file' = file
<1> DEFINE f == seg.flow
<1>1. f \in Flow /\ file' = [file EXCEPT ![f] = FopenContents(f)]
  BY DEF IndInv, Typed, TypeOK, OpenSucceeds
<1>2. FopenContents(f) = file[f]
  <2>1. CASE f \in exists
    BY <2>1 DEF FopenContents
  <2>2. CASE f \notin exists
    <3>1. \A o \in Offset : file[f][o] = Hole
      BY <1>1, <2>2 DEF IndInv, FilesSound
    <3>2. file[f] = [o \in Offset |-> Hole]
      BY <1>1, <3>1 DEF IndInv, Typed, TypeOK
    <3> QED
      BY <2>2, <3>2 DEF FopenContents
  <2> QED
    BY <2>1, <2>2
<1> QED
  BY <1>1, <1>2 DEF IndInv, Typed, TypeOK

\* open_file gets its file: a slot of the ring is given to the flow and the file of
\* the flow found there is closed.
LEMMA OpenStep ==
  ASSUME IndInv, OpenSucceeds
  PROVE  IndInv'
<1> DEFINE f == seg.flow
           wrap == RingWraps(next_slot + 1)
           slot == IF wrap THEN 0 ELSE next_slot + 1
<1>1. /\ pc = "fopen"
      /\ f \in Flow /\ f \in known /\ f \notin finished /\ f \notin fp
      /\ file' = [file EXCEPT ![f] = FopenContents(f)]
      /\ fpos' = [fpos EXCEPT ![f] = 0]
      /\ next_slot' = slot
      /\ UNCHANGED <<known, isn, finished, last_access, max_fds, seg, first, damaged, sysfull>>
  BY DEF IndInv, Calling, OpenSucceeds, Typed, TypeOK
<1>2. /\ max_fds \in 0 .. RingSize /\ next_slot \in -1 .. RingSize /\ next_slot < RingSize
      /\ slot \in 0 .. RingSize
      /\ max_fds > 0 => slot \in 0 .. max_fds - 1
  BY <1>1 DEF IndInv, Typed, TypeOK, RingSound, RingTracksOpen, Dead, RingWraps
<1>3. file' = file
  BY ReopenKeeps
<1>4. \A g \in Flow : fpos'[g] = IF g = f THEN 0 ELSE fpos[g]
  BY <1>1 DEF IndInv, Typed, TypeOK
<1>5. 0 \in Offset /\ fpos' \in [Flow -> Offset]
  <2>1. 0 \in Offset
    BY DEF Offset
  <2> QED
    BY <1>1, <2>1 DEF IndInv, Typed, TypeOK
<1>6. \A g \in known' : (isn[g] = SeqNumber(first[g]))'
  BY <1>1 DEF IndInv, FilesSound, SeqNumber
<1>7. CASE slot >= RingSize
  <2>1. /\ pc' = "overrun"
        /\ fp' = fp \cup {f}
        /\ UNCHANGED <<fd_ring, exists, pos>>
    BY <1>7 DEF OpenSucceeds
  <2>2. max_fds = 0
    BY <1>2, <1>7
  <2>3. Typed'
    <3>0. fp \subseteq known
      BY DEF IndInv, Typed, TypeOK
    <3>1. fp' \subseteq known' /\ next_slot' \in -1 .. RingSize
      <4> HIDE DEF f, slot
      <4> QED
        BY <1>1, <1>2, <2>1, <3>0
    <3> QED
      BY <1>1, <1>3, <1>5, <2>1, <3>1 DEF IndInv, Typed, TypeOK
  <2>4. Calling'
    BY <2>1 DEF Calling
  <2>5. RingSound'
    BY <1>1, <2>1, <2>2 DEF RingSound, RingTracksOpen, ClosedInRingIsFinished, Dead
  <2>6. FilesSound'
    <3>1. StoredInPlace' /\ \A g \in Flow, o \in Offset : file'[g][o] # Hole => g \in exists'
      BY <1>1, <1>3, <2>1 DEF IndInv, FilesSound, StoredInPlace
    <3> QED
      BY <1>6, <2>1, <3>1 DEF FilesSound
  <2> QED
    BY <2>3, <2>4, <2>5, <2>6 DEF IndInv
<1>8. CASE slot < RingSize
  <2>1. PICK r \in IF wrap THEN sort_fds(max_fds) ELSE {fd_ring} :
            /\ fp' = (fp \cup {f}) \ {r[slot]}
            /\ fd_ring' = [r EXCEPT ![slot] = f]
            /\ exists' = exists \cup {f}
            /\ pos' = [g \in Flow |-> IF g \in {f, r[slot]} THEN 0 ELSE pos[g]]
            /\ pc' = IF r[slot] = f THEN "null_file" ELSE "write"
    BY <1>2, <1>8 DEF OpenSucceeds
  <2>2. /\ r \in [Slots -> Flow \cup {NULL}]
        /\ \A i \in 0 .. max_fds - 1 : \E j \in 0 .. max_fds - 1 : r[i] = fd_ring[j]
        /\ \A j \in 0 .. max_fds - 1 : \E i \in 0 .. max_fds - 1 : r[i] = fd_ring[j]
        /\ max_fds > 0 =>
             \A i, j \in 0 .. max_fds - 1 : r[i] = r[j] /\ i # j => r[i] = NULL
    <3>1. fd_ring \in [Slots -> Flow \cup {NULL}]
      BY DEF IndInv, Typed, TypeOK, Slots
    <3>2. max_fds > 0 =>
            \A i, j \in 0 .. max_fds - 1 : fd_ring[i] = fd_ring[j] /\ i # j => fd_ring[i] = NULL
      BY <1>1 DEF IndInv, RingSound, RingTracksOpen, Dead
    <3>3. CASE wrap
      <4>1. Sorted(r, max_fds)
        BY <1>2, <2>1, <3>1, <3>3, SortEffect
      <4> QED
        BY <3>2, <4>1 DEF Sorted
    <3>4. CASE ~wrap
      BY <2>1, <3>1, <3>2, <3>4
    <3> QED
      BY <3>3, <3>4
  <2>3. slot \in Slots
    BY <1>2, <1>8 DEF Slots
  <2>4. PICK k \in Slots, old \in Flow \cup {NULL} : k = slot /\ old = r[k]
    BY <2>2, <2>3
  <2>5. \A i \in Slots : fd_ring'[i] = IF i = k THEN f ELSE r[i]
    BY <2>1, <2>2, <2>4
  <2>6. /\ \A g : g \in fp' <=> (g \in fp \/ g = f) /\ g # old
        /\ \A g \in Flow : pos'[g] = IF g = f \/ g = old THEN 0 ELSE pos[g]
        /\ pc' = IF old = f THEN "null_file" ELSE "write"
    <3>1. r[slot] = old
      BY <2>4
    <3> HIDE DEF slot, f
    <3> QED
      BY <2>1, <3>1
  <2>7. max_fds > 0 => \A i \in 0 .. max_fds - 1 : r[i] # f
    <3> HIDE DEF f
    <3>1. max_fds > 0 => \A j \in 0 .. max_fds - 1 : fd_ring[j] # f
      BY <1>1 DEF IndInv, RingSound, ClosedInRingIsFinished
    <3> QED
      BY ONLY <2>2, <3>1
  <2>8. Typed'
    <3>1. fd_ring' \in [Slots -> Flow \cup {NULL}]
      BY <1>1, <2>1, <2>2
    <3>2. pos' \in [Flow -> Offset] /\ fpos' \in [Flow -> Offset]
      BY <1>5, <2>1 DEF IndInv, Typed, TypeOK
    <3>3. next_slot' \in -1 .. RingSize
      BY <1>1, <1>2
    <3>4. exists' \subseteq known' /\ fp' \subseteq known'
      BY <1>1, <2>1 DEF IndInv, Typed, TypeOK
    <3>5. pc' \in {"null_file", "write"}
      BY <2>6
    <3> HIDE DEF f
    <3> QED
      BY <1>1, <1>3, <3>1, <3>2, <3>3, <3>4, <3>5 DEF IndInv, Typed, TypeOK, Slots
  <2>9. Calling'
    <3>1. FlowOffset(seg, isn[seg.flow])' = FlowOffset(seg, isn[seg.flow])
      BY <1>1 DEF FlowOffset, SeqNumber
    <3>2. pc' = "write" => f \in fp'
      BY <2>6
    <3> QED
      BY <1>1, <2>6, <3>1, <3>2 DEF IndInv, Calling
  <2>10. RingSound'
    <3>1. max_fds' = max_fds /\ next_slot' = k /\ (max_fds > 0 => k \in 0 .. max_fds - 1)
      BY <1>1, <1>2, <2>4
    <3>2. max_fds > 0 => old # f /\ pc' = "write"
      BY <2>4, <2>6, <2>7, <3>1
    <3>3. ASSUME max_fds > 0, NEW g \in fp' PROVE \E i \in 0 .. max_fds - 1 : fd_ring'[i] = g
      <4>1. CASE g = f
        BY <2>4, <2>5, <3>1, <3>3, <4>1
      <4>2. CASE g # f
        <5>1. PICK j \in 0 .. max_fds - 1 : fd_ring[j] = g
          BY <1>1, <2>6, <3>3, <4>2 DEF IndInv, RingSound, RingTracksOpen, Dead
        <5>2. PICK i \in 0 .. max_fds - 1 : r[i] = g
          BY <2>2, <5>1
        <5>3. i # k /\ i \in Slots
          BY <1>2, <2>4, <2>6, <3>3, <5>2 DEF Slots
        <5> QED
          BY <2>5, <5>2, <5>3
      <4> QED
        BY <4>1, <4>2
    <3>4. ASSUME max_fds > 0, NEW i \in 0 .. max_fds - 1, NEW j \in 0 .. max_fds - 1,
                 fd_ring'[i] = fd_ring'[j], i # j
          PROVE  fd_ring'[i] = NULL
      <4>1. i \in Slots /\ j \in Slots
        BY <1>2 DEF Slots
      <4>2. CASE i = k
        BY <2>5, <2>7, <3>4, <4>1, <4>2
      <4>3. CASE j = k
        BY <2>5, <2>7, <3>4, <4>1, <4>3
      <4>4. CASE i # k /\ j # k
        <5>1. fd_ring'[i] = r[i] /\ fd_ring'[j] = r[j]
          BY <2>5, <4>1, <4>4
        <5>2. r[i] = r[j] /\ i # j
          BY <3>4, <5>1
        <5>3. r[i] = NULL
          BY <2>2, <3>4, <5>2
        <5> QED
          BY <5>1, <5>3
      <4> QED
        BY <4>2, <4>3, <4>4
    <3>5. ASSUME max_fds > 0, NEW i \in 0 .. max_fds - 1, fd_ring'[i] \in Flow \ fp'
          PROVE  fd_ring'[i] \in finished
      <4>1. i \in Slots /\ k \in 0 .. max_fds - 1
        BY <1>2, <3>1, <3>5 DEF Slots
      <4>2. i # k
        BY <2>5, <2>6, <3>2, <3>5, <4>1
      <4>3. fd_ring'[i] = r[i] /\ r[i] # old
        <5>1. fd_ring'[i] = r[i] /\ r[i] \in Flow
          BY <2>5, <3>5, <4>1, <4>2
        <5>2. r[i] # NULL
          BY <5>1, FlowRingAssumption
        <5>3. r[i] # r[k]
          BY ONLY <2>2, <3>5, <4>1, <4>2, <5>2
        <5> QED
          BY <2>4, <5>1, <5>3
      <4>4. r[i] \notin fp
        BY <2>6, <3>5, <4>3
      <4>5. PICK j \in 0 .. max_fds - 1 : r[i] = fd_ring[j]
        BY <2>2
      <4> QED
        BY <3>5, <4>3, <4>4, <4>5 DEF IndInv, RingSound, ClosedInRingIsFinished
    <3>6. RingTracksOpen'
      BY <1>2, <3>1, <3>3, <3>4 DEF RingTracksOpen
    <3>7. ClosedInRingIsFinished'
      BY <1>1, <3>1, <3>5 DEF ClosedInRingIsFinished
    <3>8. max_fds = 0 \/ max_fds > 0
      BY <1>2
    <3>9. Dead' => max_fds' = 0
      BY <3>1, <3>2, <3>8 DEF Dead
    <3>10. next_slot' < RingSize
      BY <1>8, <2>4, <3>1
    <3> QED
      BY <3>6, <3>7, <3>9, <3>10 DEF RingSound
  <2>11. FilesSound'
    <3>1. StoredInPlace' /\ \A g \in Flow, o \in Offset : file'[g][o] # Hole => g \in exists'
      BY <1>1, <1>3, <2>1 DEF IndInv, FilesSound, StoredInPlace
    <3>2. fp' \subseteq exists'
      BY <1>1, <2>1 DEF IndInv, FilesSound
    <3>3. \A g \in known' : (isn[g] = SeqNumber(first[g]))'
      BY <1>6
    <3>4. ASSUME NEW g \in fp'
          PROVE  fpos'[g] <= pos'[g] /\ (g \notin damaged' => fpos'[g] = pos'[g])
      <4>1. (g \in fp \/ g = f) /\ g # old
        BY <2>6, <3>4
      <4>2. fp \subseteq Flow
        BY DEF IndInv, Typed, TypeOK
      <4>3. CASE g = f
        <5>1. fpos'[g] = 0 /\ pos'[g] = 0
          BY <1>1, <1>4, <2>6, <4>3
        <5> QED
          BY <5>1
      <4>4. CASE g # f
        <5>1. fpos'[g] = fpos[g] /\ pos'[g] = pos[g] /\ damaged' = damaged
          BY <1>1, <1>4, <2>6, <4>1, <4>2, <4>4
        <5>2. fpos[g] <= pos[g] /\ (g \notin damaged => fpos[g] = pos[g])
          BY <1>1, <4>1, <4>4 DEF IndInv, FilesSound
        <5> QED
          BY <5>1, <5>2
      <4> QED
        BY <4>3, <4>4
    <3> QED
      BY <3>1, <3>2, <3>3, <3>4 DEF FilesSound
  <2> QED
    BY <2>8, <2>9, <2>10, <2>11 DEF IndInv
<1> QED
  BY <1>2, <1>7, <1>8

\* contract_fd_ring: the file used longest ago is closed, the others move up one
\* slot, and the ring ends where they do.
LEMMA ContractStep ==
  ASSUME IndInv, OpenTooMany
  PROVE  IndInv'
<1>1. /\ pc = "fopen"
      /\ UNCHANGED <<known, isn, finished, exists, last_access, seg, disk, sysfull>>
      /\ file' = file /\ fpos' = fpos /\ first' = first /\ damaged' = damaged
  BY DEF OpenTooMany, disk
<1>2. PICK r \in sort_fds(max_fds) :
         IF r[0] = NULL
         THEN pc' = "died" /\ UNCHANGED <<fp, pos, ring>>
         ELSE /\ fp' = fp \ {r[0]}
              /\ pos' = [pos EXCEPT ![r[0]] = IF r[0] \in fp THEN 0 ELSE @]
              /\ max_fds' = SizeAfterShift(ShiftStop(r))
              /\ fd_ring' = [i \in 0 .. RingSize - 1 |->
                               IF i + 1 < ShiftStop(r) THEN r[i + 1] ELSE r[i]]
              /\ next_slot' = -1
              /\ pc' = pc
  BY DEF OpenTooMany
<1>3. max_fds \in 0 .. RingSize /\ Sorted(r, max_fds)
  BY SortEffect DEF IndInv, Typed, TypeOK, Slots
<1>4. \A g \in known' : (isn[g] = SeqNumber(first[g]))'
  BY <1>1 DEF IndInv, FilesSound, SeqNumber
<1>5. FlowOffset(seg, isn[seg.flow])' = FlowOffset(seg, isn[seg.flow])
  BY <1>1 DEF FlowOffset, SeqNumber
<1>6. CASE r[0] = NULL
  <2>1. pc' = "died" /\ UNCHANGED <<fp, pos, fd_ring, max_fds, next_slot>>
    BY <1>2, <1>6 DEF ring
  <2>2. Typed'
    BY <1>1, <2>1 DEF IndInv, Typed, TypeOK
  <2>3. Calling'
    BY <2>1 DEF Calling
  <2>4. RingSound'
    BY <1>1, <2>1 DEF IndInv, RingSound, RingTracksOpen, ClosedInRingIsFinished, Dead
  <2>5. FilesSound'
    BY <1>1, <1>4, <2>1 DEF IndInv, FilesSound, StoredInPlace
  <2> QED
    BY <2>2, <2>3, <2>4, <2>5 DEF IndInv
<1>7. CASE r[0] # NULL
  <2>1. PICK k, old : k = ShiftStop(r) /\ old = r[0]
    OBVIOUS
  <2>2. /\ \A g : g \in fp' <=> g \in fp /\ g # old
        /\ pos' = [pos EXCEPT ![old] = IF old \in fp THEN 0 ELSE @]
        /\ max_fds' = k - 1
        /\ fd_ring' = [i \in Slots |-> IF i + 1 < k THEN r[i + 1] ELSE r[i]]
        /\ next_slot' = -1
        /\ pc' = pc
    BY <1>2, <1>7, <2>1 DEF SizeAfterShift, Slots
  <2>3. /\ max_fds = 0 => k = 1
        /\ max_fds > 0 => /\ k \in 1 .. max_fds
                          /\ \A i \in 1 .. k - 1 : r[i] # NULL
                          /\ \A i \in k .. max_fds - 1 : r[i] = NULL
    <3>1. CASE max_fds = 0
      BY <2>1, <3>1 DEF ShiftStop
    <3>2. CASE max_fds > 0
      <4>1. max_fds \in 1 .. RingSize
        BY <1>3, <3>2
      <4> QED
        BY <1>3, <2>1, <3>2, <4>1, ShiftStopFound
    <3> QED
      BY <1>3, <3>1, <3>2
  <2>4. k \in 1 .. RingSize /\ max_fds' \in 0 .. RingSize
    BY <1>3, <2>2, <2>3
  <2>5. 0 \in Slots /\ r \in [Slots -> Flow \cup {NULL}] /\ old \in Flow
    BY <1>3, <1>7, <2>1 DEF Sorted, Slots
  <2>6. pos' \in [Flow -> Offset] /\ \A g \in Flow : g # old => pos'[g] = pos[g]
    <3>1. 0 \in Offset
      BY DEF Offset
    <3> QED
      BY <2>2, <2>5, <3>1 DEF IndInv, Typed, TypeOK
  <2>7. Typed'
    <3>1. ASSUME NEW i \in Slots, i + 1 < k PROVE i + 1 \in Slots
      BY <2>4, <3>1 DEF Slots
    <3>2. fd_ring' \in [Slots -> Flow \cup {NULL}]
      BY <2>2, <2>5, <3>1
    <3>3. fp' \subseteq known'
      BY <1>1, <2>2 DEF IndInv, Typed, TypeOK
    <3>4. next_slot' \in -1 .. RingSize
      BY <2>2
    <3>5. TypeOK'
      BY <1>1, <2>4, <2>6, <3>2, <3>3, <3>4 DEF IndInv, Typed, TypeOK, Slots
    <3> QED
      BY <1>1, <2>2, <3>5 DEF IndInv, Typed
  <2>8. Calling'
    BY <1>1, <1>5, <2>2 DEF IndInv, Calling
  <2>9. RingSound'
    <3>1. ~Dead /\ ~Dead' /\ next_slot' = -1
      BY <1>1, <2>2 DEF Dead
    <3> SUFFICES ASSUME max_fds' > 0 PROVE RingTracksOpen' /\ ClosedInRingIsFinished'
      <4>1. RingTracksOpen' /\ ClosedInRingIsFinished'
        BY DEF RingTracksOpen, ClosedInRingIsFinished
      <4>2. next_slot' < RingSize
        BY <3>1
      <4> QED
        BY <3>1, <4>1, <4>2 DEF RingSound
    <3>2. max_fds > 0 /\ k \in 2 .. max_fds /\ max_fds' = k - 1
      BY <1>3, <2>2, <2>3, <2>4
    <3>3. ASSUME NEW i \in 0 .. k - 2
          PROVE  /\ i \in Slots /\ i + 1 \in 1 .. k - 1 /\ i + 1 \in 0 .. max_fds - 1
                 /\ fd_ring'[i] = r[i + 1]
      <4>1. i \in Slots /\ i + 1 < k /\ i + 1 \in 1 .. k - 1 /\ i + 1 \in 0 .. max_fds - 1
        BY <1>3, <3>2, <3>3 DEF Slots
      <4> QED
        BY <2>2, <4>1
    <3>4. \A i, j \in 0 .. max_fds - 1 : r[i] = r[j] /\ i # j => r[i] = NULL
      BY <1>3, <3>1, <3>2 DEF IndInv, RingSound, RingTracksOpen, Sorted
    <3>5. ASSUME NEW g \in fp' PROVE \E i \in 0 .. max_fds' - 1 : fd_ring'[i] = g
      <4>1. g \in fp /\ g # old /\ g # NULL
        BY <2>2, <3>5 DEF IndInv, Typed, TypeOK
      <4>2. PICK j \in 0 .. max_fds - 1 : fd_ring[j] = g
        BY <3>1, <3>2, <4>1 DEF IndInv, RingSound, RingTracksOpen
      <4>3. PICK i \in 0 .. max_fds - 1 : r[i] = g
        BY <1>3, <4>2 DEF Sorted
      <4>4. i \in 1 .. k - 1
        <5>1. i # 0
          BY <2>1, <4>1, <4>3
        <5>2. ~(i \in k .. max_fds - 1)
          BY <2>3, <3>2, <4>1, <4>3
        <5> QED
          BY <3>2, <5>1, <5>2
      <4>5. i - 1 \in 0 .. k - 2 /\ (i - 1) + 1 = i
        BY <3>2, <4>4
      <4>6. fd_ring'[i - 1] = g
        BY <3>3, <4>3, <4>5
      <4> QED
        BY <3>2, <4>5, <4>6
    <3>6. ASSUME NEW i \in 0 .. max_fds' - 1, NEW j \in 0 .. max_fds' - 1,
                 fd_ring'[i] = fd_ring'[j], i # j
          PROVE  FALSE
      <4>1. i \in 0 .. k - 2 /\ j \in 0 .. k - 2
        BY <3>2
      <4>2. r[i + 1] = r[j + 1] /\ i + 1 # j + 1 /\ r[i + 1] # NULL
        BY <2>3, <3>2, <3>3, <3>6, <4>1
      <4> QED
        BY <3>3, <3>4, <4>1, <4>2
    <3>7. ASSUME NEW i \in 0 .. max_fds' - 1, fd_ring'[i] \in Flow \ fp'
          PROVE  fd_ring'[i] \in finished
      <4>1. PICK x \in 0 .. max_fds - 1 : x = i + 1 /\ x # 0 /\ fd_ring'[i] = r[x]
        BY <3>2, <3>3
      <4>2. r[x] # old
        <5>1. 0 \in 0 .. max_fds - 1 /\ r[0] # NULL
          BY <1>3, <1>7, <3>2
        <5> QED
          BY <2>1, <3>4, <4>1, <5>1
      <4>3. r[x] \in Flow \ fp
        BY <2>2, <3>7, <4>1, <4>2
      <4>4. PICK j \in 0 .. max_fds - 1 : r[x] = fd_ring[j]
        BY <1>3 DEF Sorted
      <4> QED
        BY <3>2, <4>1, <4>3, <4>4 DEF IndInv, RingSound, ClosedInRingIsFinished
    <3>8. RingTracksOpen'
      BY <3>1, <3>2, <3>5, <3>6 DEF RingTracksOpen
    <3>9. ClosedInRingIsFinished'
      BY <1>1, <3>7 DEF ClosedInRingIsFinished
    <3> QED
      BY <3>8, <3>9
  <2>10. FilesSound'
    <3>1. StoredInPlace' /\ \A g \in Flow, o \in Offset : file'[g][o] # Hole => g \in exists'
      BY <1>1 DEF IndInv, FilesSound, StoredInPlace
    <3>2. ASSUME NEW g \in fp'
          PROVE  g \in exists' /\ fpos'[g] <= pos'[g] /\ (g \notin damaged' => fpos'[g] = pos'[g])
      BY <1>1, <2>2, <2>6 DEF IndInv, FilesSound, Typed, TypeOK
    <3> QED
      BY <1>4, <3>1, <3>2 DEF FilesSound
  <2> QED
    BY <2>7, <2>8, <2>9, <2>10 DEF IndInv
<1> QED
  BY <1>6, <1>7

\* fwrite: the segment, or the part of it below the limit and before an error, goes
\* to its place.
LEMMA WriteStep ==
  ASSUME IndInv, NEW n \in 0 .. MaxLen, Write(n)
  PROVE  IndInv'
<1>1. PICK f, offset, len, start, done :
        /\ f = seg.flow
        /\ offset = FlowOffset(seg, isn[f])
        /\ len = ClipLength(offset, seg.len)
        /\ start = SeekTo(f, offset)
        /\ done = (bytes_per_flow # 0 /\ offset + seg.len > bytes_per_flow)
  OBVIOUS
<1>2. /\ pc = "write" /\ pc' = "update_files"
      /\ n <= len
      /\ damaged' = IF n < len THEN damaged \cup {f} ELSE damaged
      /\ file' = [file EXCEPT ![f] =
             [o \in Offset |-> IF o \in start .. start + n - 1
                               THEN seg.pos + (o - start) ELSE file[f][o]]]
      /\ fpos' = [fpos EXCEPT ![f] = start + n]
      /\ pos' = [pos EXCEPT ![f] = IF done THEN 0 ELSE offset + len]
      /\ finished' = IF done THEN finished \cup {f} ELSE finished
      /\ fp' = IF done THEN fp \ {f} ELSE fp
      /\ UNCHANGED <<known, isn, exists, last_access, ring, seg, first, sysfull>>
  BY <1>1 DEF Write, IndInv, Typed, TypeOK
<1>3. /\ f \in Flow /\ f \in known /\ f \in fp /\ f \in exists
      /\ seg.pos \in 0 .. MaxPos /\ seg.len \in 1 .. MaxLen
      /\ first[f] \in 0 .. MaxPos
      /\ seg.pos >= first[f] /\ offset = seg.pos - first[f]
      /\ bytes_per_flow # 0 => offset <= bytes_per_flow
      /\ fpos[f] <= pos[f] /\ (f \notin damaged => fpos[f] = pos[f])
  BY <1>1, <1>2 DEF IndInv, Calling, Typed, TypeOK, Pos, FilesSound
<1>4. PICK limit \in Nat : limit = bytes_per_flow
  OBVIOUS
<1>5. /\ offset \in 0 .. MaxPos
      /\ len \in 0 .. MaxLen
      /\ start \in 0 .. offset
      /\ f \notin damaged => start = offset
      /\ limit # 0 => offset + len <= limit
  <2>1. offset \in 0 .. MaxPos
    BY <1>3
  <2>2. len = IF limit # 0 /\ offset + seg.len > limit THEN limit - offset ELSE seg.len
    BY <1>1, <1>4 DEF ClipLength
  <2>3. len \in 0 .. MaxLen /\ (limit # 0 => offset + len <= limit)
    <3>1. CASE limit # 0 /\ offset + seg.len > limit
      BY <1>3, <1>4, <2>1, <2>2, <3>1
    <3>2. CASE ~(limit # 0 /\ offset + seg.len > limit)
      BY <1>3, <1>4, <2>1, <2>2, <3>2
    <3> QED
      BY <3>1, <3>2
  <2>4. pos[f] \in Nat /\ fpos[f] \in Nat
    BY <1>3 DEF IndInv, Typed, TypeOK, Offset
  <2>5. start = IF offset # pos[f] THEN offset ELSE fpos[f]
    BY <1>1 DEF SeekTo
  <2> QED
    BY <1>3, <2>1, <2>3, <2>4, <2>5
<1>6. PICK end \in Nat : end = start + n /\ end <= offset + len /\ end \in Offset
                         /\ (f \notin damaged /\ n = len => end = offset + len)
  BY <1>2, <1>5 DEF Offset
<1>7. \A g \in Flow, o \in Offset :
         file'[g][o] = IF g = f /\ o >= start /\ o < end THEN seg.pos + (o - start)
                       ELSE file[g][o]
  <2>1. ASSUME NEW o \in Offset PROVE o \in start .. start + n - 1 <=> o >= start /\ o < end
    BY <1>5, <1>6 DEF Offset
  <2> QED
    BY <1>2, <1>3, <2>1 DEF IndInv, Typed, TypeOK
<1>8. Typed'
  <2>1. fpos' \in [Flow -> Offset]
    BY <1>2, <1>6 DEF IndInv, Typed, TypeOK
  <2>2. 0 \in Offset /\ offset + len \in Offset
    BY <1>5 DEF Offset
  <2>3. pos' \in [Flow -> Offset]
    BY <1>2, <2>2 DEF IndInv, Typed, TypeOK
  <2>4. ASSUME NEW o \in Offset, o >= start, o < end
        PROVE  seg.pos + (o - start) \in 0 .. MaxPos + MaxLen
    BY <1>3, <1>5, <1>6, <2>4 DEF Offset
  <2>5. file' \in [Flow -> [Offset -> Pos \cup {Hole} \cup 0 .. MaxPos + MaxLen]]
    <3>1. [o \in Offset |-> IF o \in start .. start + n - 1
                            THEN seg.pos + (o - start) ELSE file[f][o]]
             \in [Offset -> Pos \cup {Hole} \cup 0 .. MaxPos + MaxLen]
      <4>1. ASSUME NEW o \in Offset, o \in start .. start + n - 1
            PROVE  o >= start /\ o < end
        BY <1>5, <1>6, <4>1 DEF Offset
      <4>2. file[f] \in [Offset -> Pos \cup {Hole} \cup 0 .. MaxPos + MaxLen]
        BY <1>3 DEF IndInv, Typed, TypeOK
      <4>3. PICK V : V = Pos \cup {Hole} \cup 0 .. MaxPos + MaxLen
        OBVIOUS
      <4>4. ASSUME NEW o \in Offset
            PROVE  (IF o \in start .. start + n - 1
                    THEN seg.pos + (o - start) ELSE file[f][o]) \in V
        <5>1. file[f][o] \in V
          BY <4>2, <4>3
        <5>2. ASSUME o \in start .. start + n - 1 PROVE seg.pos + (o - start) \in V
          BY <2>4, <4>1, <4>3, <5>2
        <5> QED
          BY <5>1, <5>2
      <4> QED
        BY <4>3, <4>4
    <3> QED
      BY <1>2, <1>3, <3>1 DEF IndInv, Typed, TypeOK
  <2>6. fp' \subseteq known' /\ finished' \subseteq known'
    BY <1>2, <1>3 DEF IndInv, Typed, TypeOK
  <2> QED
    BY <1>2, <2>1, <2>3, <2>5, <2>6 DEF IndInv, Typed, TypeOK, ring
<1>9. Calling'
  BY <1>2 DEF Calling
<1>10. RingSound'
  <2>1. \A g : g \in fp' => g \in fp
    BY <1>2
  <2>2. \A g : g \notin fp' /\ g \notin finished' => g \notin fp /\ g \notin finished
    BY <1>2
  <2> QED
    BY <1>2, <2>1, <2>2 DEF IndInv, RingSound, RingTracksOpen, ClosedInRingIsFinished, Dead, ring
<1>11. FilesSound'
  <2>1. ASSUME NEW g \in Flow, NEW o \in Offset, file'[g][o] # Hole
        PROVE  /\ g \notin damaged' => file'[g][o] = first'[g] + o
               /\ bytes_per_flow # 0 => o < bytes_per_flow
               /\ g \in exists'
    <3>1. CASE g = f /\ o >= start /\ o < end
      <4>1. g \notin damaged' => f \notin damaged /\ start = offset
        BY <1>2, <1>5, <3>1
      <4>2. file'[g][o] = seg.pos + (o - start)
        BY <1>7, <3>1
      <4>3. g \notin damaged' => file'[g][o] = first[f] + o
        BY <1>3, <4>1, <4>2 DEF Offset
      <4>4. bytes_per_flow # 0 => o < bytes_per_flow
        BY <1>4, <1>5, <1>6, <3>1 DEF Offset
      <4> QED
        BY <1>2, <1>3, <3>1, <4>3, <4>4
    <3>2. CASE ~(g = f /\ o >= start /\ o < end)
      <4>1. file'[g][o] = file[g][o] /\ (g \notin damaged' => g \notin damaged)
        BY <1>2, <1>7, <3>2
      <4> QED
        BY <1>2, <2>1, <4>1 DEF IndInv, FilesSound, StoredInPlace
    <3> QED
      BY <3>1, <3>2
  <2>2. ASSUME NEW g \in fp'
        PROVE  g \in exists' /\ fpos'[g] <= pos'[g] /\ (g \notin damaged' => fpos'[g] = pos'[g])
    <3>1. g \in fp /\ g \in Flow
      BY <1>2 DEF IndInv, Typed, TypeOK
    <3>2. CASE g = f
      <4>1. ~done
        BY <1>2, <2>2, <3>2
      <4>2. fpos'[g] = end /\ pos'[g] = offset + len
        BY <1>2, <1>3, <1>6, <3>2, <4>1 DEF IndInv, Typed, TypeOK
      <4>3. g \notin damaged' => f \notin damaged /\ n = len
        BY <1>2, <1>5, <3>2
      <4> QED
        BY <1>2, <1>3, <1>6, <3>2, <4>2, <4>3
    <3>3. CASE g # f
      <4>1. fpos'[g] = fpos[g] /\ pos'[g] = pos[g] /\ (g \notin damaged' => g \notin damaged)
        BY <1>2, <3>1, <3>3 DEF IndInv, Typed, TypeOK
      <4> QED
        BY <1>2, <3>1, <4>1 DEF IndInv, FilesSound
    <3> QED
      BY <3>2, <3>3
  <2>3. StoredInPlace' /\ \A g \in Flow, o \in Offset : file'[g][o] # Hole => g \in exists'
    BY <2>1 DEF StoredInPlace
  <2>4. \A g \in known' : (isn[g] = SeqNumber(first[g]))'
    BY <1>2 DEF IndInv, FilesSound, SeqNumber
  <2> QED
    BY <2>2, <2>3, <2>4 DEF FilesSound
<1> QED
  BY <1>8, <1>9, <1>10, <1>11 DEF IndInv

\* IndInv is an inductive invariant of the recorder.
THEOREM Invariance == Spec => []IndInv
<1>1. ASSUME IndInv, [Next]_vars PROVE IndInv'
  <2>1. CASE OpenSucceeds
    BY <1>1, <2>1, OpenStep
  <2>2. CASE OpenTooMany
    BY <1>1, <2>2, ContractStep
  <2>3. CASE WriteAny
    BY <1>1, <2>3, WriteStep DEF WriteAny
  <2>4. ASSUME NEW s \in Traffic, StorePacket(s) PROVE IndInv'
    BY <1>1, <2>4, StoreStep
  <2>5. CASE OpenFails \/ UpdateFiles \/ SystemFills \/ UNCHANGED vars
    <3>1. /\ UNCHANGED <<known, isn, fp, pos, exists, last_access, fd_ring, max_fds,
                         next_slot, seg, file, fpos, first, damaged>>
          /\ \/ finished' = finished
             \/ seg.flow \in known /\ finished' = finished \cup {seg.flow} /\ pc' = "update_files"
          /\ pc' = pc \/ (pc' \in {"update_files", "pcap_loop", "exited"} /\ pc # "overrun")
      BY <1>1, <2>5 DEF OpenFails, UpdateFiles, SystemFills, vars, state, ring, disk, IndInv, Calling
    <3>2. Typed'
      BY <1>1, <3>1 DEF IndInv, Typed, TypeOK
    <3>3. FlowOffset(seg, isn[seg.flow])' = FlowOffset(seg, isn[seg.flow])
      BY <3>1 DEF FlowOffset, SeqNumber
    <3>4. Calling'
      BY <1>1, <3>1, <3>3 DEF IndInv, Calling
    <3>5. finished \subseteq finished' /\ (Dead' <=> Dead)
      BY <1>1, <2>5, <3>1 DEF Dead, OpenFails, UpdateFiles, SystemFills, vars, state
    <3>6. RingSound'
      BY <1>1, <3>1, <3>5 DEF IndInv, RingSound, RingTracksOpen, ClosedInRingIsFinished
    <3>7. \A g \in known' : (isn[g] = SeqNumber(first[g]))'
      BY <1>1, <3>1 DEF IndInv, FilesSound, SeqNumber
    <3>8. FilesSound'
      BY <1>1, <3>1, <3>7 DEF IndInv, FilesSound, StoredInPlace
    <3> QED
      BY <3>2, <3>4, <3>6, <3>8 DEF IndInv
  <2> QED
    BY <1>1, <2>1, <2>2, <2>3, <2>4, <2>5 DEF Next, Program
<1> QED
  BY <1>1, InitHolds, PTL DEF Spec

\* However often the ring wraps, is sorted and is contracted, it holds every flow
\* with an open file once, and a closed flow that is still in it is finished.
THEOREM RingHolds == Spec => []RingConsistent
<1>1. IndInv => RingConsistent
  BY DEF IndInv, Typed, RingSound, RingConsistent
<1> QED
  BY <1>1, Invariance, PTL

\* Every byte is stored at its distance from the first byte seen of its flow, and
\* none beyond the limit of -b.
THEOREM BytesInPlace == Spec => []StoredInPlace
<1>1. IndInv => StoredInPlace
  BY DEF IndInv, FilesSound
<1> QED
  BY <1>1, Invariance, PTL

\* No step of the recorder loses a byte that was stored: reopening a file never
\* empties it.
THEOREM BytesStay == Spec => NothingTruncated
<1>1. ASSUME IndInv, [Next]_vars, NEW f \in Flow, NEW o \in Offset, file[f][o] # Hole
      PROVE  file'[f][o] # Hole
  <2>1. CASE OpenSucceeds
    BY <1>1, <2>1, ReopenKeeps
  <2>2. ASSUME NEW n \in 0 .. MaxLen, Write(n) PROVE file'[f][o] # Hole
    <3>1. PICK start : start = SeekTo(seg.flow, FlowOffset(seg, isn[seg.flow]))
      OBVIOUS
    <3>2. start \in Int /\ seg.flow \in Flow /\ seg.pos \in Nat
      <4>1. seg.flow \in Flow /\ seg.pos \in Nat /\ first[seg.flow] \in Nat
        BY <1>1 DEF IndInv, Typed, TypeOK, Pos
      <4>2. FlowOffset(seg, isn[seg.flow]) = seg.pos - first[seg.flow] /\ fpos[seg.flow] \in Nat
        BY <1>1, <2>2, <4>1 DEF IndInv, Calling, Write, Typed, TypeOK, Offset
      <4> QED
        BY <3>1, <4>1, <4>2 DEF SeekTo
    <3>3. file' = [file EXCEPT ![seg.flow] =
             [x \in Offset |-> IF x \in start .. start + n - 1
                               THEN seg.pos + (x - start) ELSE file[seg.flow][x]]]
      BY <1>1, <2>2, <3>1, <3>2 DEF Write, IndInv, Typed, TypeOK
    <3>4. \/ file'[f][o] = file[f][o]
          \/ o \in start .. start + n - 1 /\ file'[f][o] = seg.pos + (o - start)
      BY <1>1, <3>2, <3>3 DEF IndInv, Typed, TypeOK
    <3> QED
      BY <1>1, <3>2, <3>4 DEF Offset, Hole
  <2>3. CASE \/ OpenTooMany \/ OpenFails \/ UpdateFiles \/ SystemFills
             \/ (\E s \in Traffic : StorePacket(s)) \/ UNCHANGED vars
    BY <1>1, <2>3 DEF OpenTooMany, OpenFails, UpdateFiles, SystemFills, StorePacket, vars, disk
  <2> QED
    BY <1>1, <2>1, <2>2, <2>3 DEF Next, Program, WriteAny
<1>2. IndInv /\ [Next]_vars
        => [\A f \in Flow, o \in Offset : file[f][o] # Hole => file'[f][o] # Hole]_vars
  BY <1>1
<1> QED
  BY <1>2, Invariance, PTL DEF Spec, NothingTruncated
===============================================================================
