-------------------------- MODULE AeFileEventsProofs --------------------------
(***************************************************************************)
(* What aeCreateFileEvent and aeDeleteFileEvent do to the event table, for *)
(* every size of the table: the facts the proofs about the event loop and  *)
(* about the proxy on it rest on.                                          *)
(***************************************************************************)
EXTENDS AeFileEvents, WellFoundedInduction, TLAPS

USE AeFileEventsAssumption

\* events[], the kernel's epoll list and maxfd agree.
TableSound(t) ==
    /\ t \in EventTable
    /\ \A fd \in Slot : t.interest[fd] = t.mask[fd]
    /\ \A fd \in Slot : t.mask[fd] # {} => fd <= t.maxfd
    /\ t.maxfd # -1 => t.mask[t.maxfd] # {}

\* A set of naturals that is not empty has a smallest element.
LEMMA Smallest ==
  ASSUME NEW S, S \subseteq Nat, S # {}
  PROVE  \E x \in S : \A y \in S : x <= y
<1>1. PICK x \in S : \A y \in S : ~(<<y, x>> \in OpToRel(<, Nat))
  BY WFMin, NatLessThanWellFounded, Zenon
<1>2. ASSUME NEW y \in S PROVE ~(y < x)
  BY <1>1, Zenon DEF OpToRel
<1> QED
  BY <1>2

\* The downward scan of aeDeleteFileEvent finds the highest registered descriptor
\* below n, or -1.
LEMMA HighestBelowFound ==
  ASSUME NEW masks \in [Slot -> SUBSET Direction], NEW n \in Slot
  PROVE  LET h == HighestBelow(masks, n)
         IN  /\ h \in -1 .. n - 1
             /\ h # -1 => masks[h] # {}
             /\ \A i \in h + 1 .. n - 1 : masks[i] = {}
<1> DEFINE Hit(j) == j # -1 => masks[j] # {}
           S == {d \in 0 .. n : Hit(n - 1 - d)}
<1>1. n \in Nat
  BY DEF Slot
<1>2. n \in S /\ S \subseteq Nat
  BY <1>1
<1>3. PICK d \in S : \A y \in S : d <= y
  <2> HIDE DEF S
  <2> QED
    BY <1>2, Smallest
<1> DEFINE j == n - 1 - d
<1>4. j \in -1 .. n - 1 /\ Hit(j)
  BY <1>1, <1>3
<1>5. ASSUME NEW i \in j + 1 .. n - 1, masks[i] # {} PROVE FALSE
  <2>1. n - 1 - i \in 0 .. n /\ n - 1 - (n - 1 - i) = i
    BY <1>1, <1>3, <1>5
  <2>2. n - 1 - i \in S
    BY <1>5, <2>1
  <2>3. d <= n - 1 - i
    BY <1>3, <2>2
  <2> QED
    BY <1>1, <1>3, <1>5, <2>3
<1>6. \A i \in j + 1 .. n - 1 : masks[i] = {}
  BY <1>5
<1>7. \E h \in -1 .. n - 1 : Hit(h) /\ \A i \in h + 1 .. n - 1 : masks[i] = {}
  BY <1>4, <1>6
<1> QED
  BY <1>7 DEF HighestBelow

\* aeCreateEventLoop makes an empty table.
LEMMA EmptyTableSound == TableSound(aeCreateEventLoop)
<1>1. aeCreateEventLoop \in EventTable
  BY DEF aeCreateEventLoop, EventTable, Slot
<1> QED
  BY <1>1 DEF TableSound, aeCreateEventLoop

\* u is the table t after a handler was registered: one slot has changed, in which
\* the mask was added, and events[], kernel and maxfd agree.
Created(t, u, fd, mask, proc, data) ==
    /\ TableSound(u)
    /\ \A x \in Slot : x # fd => u.mask[x] = t.mask[x]
    /\ \A d \in Direction : d \in u.mask[fd] <=> d \in t.mask[fd] \/ d \in mask
    /\ \A x \in Slot : u.data[x] = IF x = fd THEN data ELSE t.data[x]
    /\ \A x \in Slot : u.rproc[x] = IF x = fd /\ "READABLE" \in mask THEN proc ELSE t.rproc[x]
    /\ \A x \in Slot : u.wproc[x] = IF x = fd /\ "WRITABLE" \in mask THEN proc ELSE t.wproc[x]

\* aeCreateFileEvent registers a handler, and nothing else.
LEMMA CreateEffect ==
  ASSUME NEW t, TableSound(t), NEW fd \in Slot, NEW mask \in SUBSET Direction, mask # {},
         NEW proc \in Proc, NEW data \in Data,
         NEW u, u = aeCreateFileEvent(t, fd, mask, proc, data)
  PROVE  Created(t, u, fd, mask, proc, data)
<1>1. /\ u.mask = [t.mask EXCEPT ![fd] = @ \cup mask]
      /\ u.data = [t.data EXCEPT ![fd] = data]
      /\ u.rproc = [t.rproc EXCEPT ![fd] = IF "READABLE" \in mask THEN proc ELSE @]
      /\ u.wproc = [t.wproc EXCEPT ![fd] = IF "WRITABLE" \in mask THEN proc ELSE @]
      /\ u.maxfd = IF fd > t.maxfd THEN fd ELSE t.maxfd
      /\ u.interest = [t.interest EXCEPT ![fd] = t.mask[fd] \cup mask]
      /\ u = [mask |-> u.mask, rproc |-> u.rproc, wproc |-> u.wproc, data |-> u.data,
              maxfd |-> u.maxfd, interest |-> u.interest]
  BY DEF aeCreateFileEvent, TableSound, EventTable
<1>2. /\ t.mask \in [Slot -> SUBSET Direction] /\ t.interest \in [Slot -> SUBSET Direction]
      /\ t.rproc \in [Slot -> Proc \cup {Unset}] /\ t.wproc \in [Slot -> Proc \cup {Unset}]
      /\ t.data \in [Slot -> Data \cup {Unset}] /\ t.maxfd \in -1 .. SetSize - 1
  BY DEF TableSound, EventTable
<1>3. u \in EventTable
  <2>1. u.mask \in [Slot -> SUBSET Direction] /\ u.interest \in [Slot -> SUBSET Direction]
    BY <1>1, <1>2
  <2>2. u.rproc \in [Slot -> Proc \cup {Unset}] /\ u.wproc \in [Slot -> Proc \cup {Unset}]
    BY <1>1, <1>2
  <2>3. u.data \in [Slot -> Data \cup {Unset}] /\ u.maxfd \in -1 .. SetSize - 1
    BY <1>1, <1>2 DEF Slot
  <2> QED
    BY <1>1, <2>1, <2>2, <2>3 DEF EventTable
<1>4. \A x \in Slot : u.interest[x] = u.mask[x]
  BY <1>1, <1>2 DEF TableSound
<1>5. \A x \in Slot : u.mask[x] # {} => x <= u.maxfd
  BY <1>1, <1>2 DEF TableSound, Slot
<1>6. u.maxfd # -1 => u.mask[u.maxfd] # {}
  BY <1>1, <1>2 DEF TableSound, Slot
<1>7. ASSUME NEW x \in Slot
      PROVE  /\ x # fd => u.mask[x] = t.mask[x]
             /\ u.data[x] = IF x = fd THEN data ELSE t.data[x]
             /\ u.rproc[x] = IF x = fd /\ "READABLE" \in mask THEN proc ELSE t.rproc[x]
             /\ u.wproc[x] = IF x = fd /\ "WRITABLE" \in mask THEN proc ELSE t.wproc[x]
  <2>1. x # fd => u.mask[x] = t.mask[x]
    BY <1>1, <1>2
  <2>2. u.data[x] = IF x = fd THEN data ELSE t.data[x]
    BY <1>1, <1>2
  <2>3. u.rproc[x] = IF x = fd /\ "READABLE" \in mask THEN proc ELSE t.rproc[x]
    BY <1>1, <1>2
  <2>4. u.wproc[x] = IF x = fd /\ "WRITABLE" \in mask THEN proc ELSE t.wproc[x]
    BY <1>1, <1>2
  <2> QED
    BY <2>1, <2>2, <2>3, <2>4
<1>8. TableSound(u)
  BY <1>3, <1>4, <1>5, <1>6 DEF TableSound
<1>9. u.mask[fd] = t.mask[fd] \cup mask
  BY <1>1, <1>2
<1> QED
  BY <1>7, <1>8, <1>9 DEF Created

\* aeDeleteFileEvent, field by field: it removes the mask from one slot, leaves the
\* handlers and pointers of every slot, and keeps events[], kernel and maxfd in
\* agreement.
LEMMA DeleteEffect ==
  ASSUME NEW t, TableSound(t), NEW fd \in Nat, NEW mask \in SUBSET Direction,
         NEW u, u = aeDeleteFileEvent(t, fd, mask)
  PROVE  /\ TableSound(u)
         /\ u.mask = [x \in Slot |-> IF x = fd THEN t.mask[x] \ mask ELSE t.mask[x]]
         /\ u.rproc = t.rproc /\ u.wproc = t.wproc /\ u.data = t.data
<1>1. /\ t.mask \in [Slot -> SUBSET Direction] /\ t.interest \in [Slot -> SUBSET Direction]
      /\ t.rproc \in [Slot -> Proc \cup {Unset}] /\ t.wproc \in [Slot -> Proc \cup {Unset}]
      /\ t.data \in [Slot -> Data \cup {Unset}] /\ t.maxfd \in -1 .. SetSize - 1
  BY DEF TableSound, EventTable
<1>2. CASE fd >= SetSize \/ t.mask[fd] = {}
  <2>1. u = t
    BY <1>2 DEF aeDeleteFileEvent
  <2>2. \A x \in Slot : x = fd => t.mask[x] \ mask = t.mask[x]
    BY <1>2 DEF Slot
  <2>3. t.mask = [x \in Slot |-> IF x = fd THEN t.mask[x] \ mask ELSE t.mask[x]]
    BY <1>1, <2>2
  <2> QED
    BY <2>1, <2>3
<1>3. CASE ~(fd >= SetSize \/ t.mask[fd] = {})
  <2> DEFINE rest == t.mask[fd] \ mask
             masks == [t.mask EXCEPT ![fd] = rest]
  <2>1. fd \in Slot
    BY <1>3 DEF Slot
  <2>2. /\ u.mask = masks
        /\ u.maxfd = IF fd = t.maxfd /\ rest = {} THEN HighestBelow(masks, t.maxfd)
                                                  ELSE t.maxfd
        /\ u.interest = [t.interest EXCEPT ![fd] = rest]
        /\ u.rproc = t.rproc /\ u.wproc = t.wproc /\ u.data = t.data
        /\ u = [mask |-> u.mask, rproc |-> u.rproc, wproc |-> u.wproc, data |-> u.data,
                maxfd |-> u.maxfd, interest |-> u.interest]
    BY <1>3 DEF aeDeleteFileEvent, TableSound, EventTable
  <2>3. masks \in [Slot -> SUBSET Direction]
    BY <1>1, <2>1
  <2>4. \A x \in Slot : u.interest[x] = u.mask[x]
    BY <1>1, <2>1, <2>2 DEF TableSound
  <2>5. /\ u.maxfd \in -1 .. SetSize - 1
        /\ \A x \in Slot : u.mask[x] # {} => x <= u.maxfd
        /\ u.maxfd # -1 => u.mask[u.maxfd] # {}
    <3>1. CASE fd = t.maxfd /\ rest = {}
      <4>1. t.maxfd \in Slot
        BY <2>1, <3>1
      <4>2. PICK h : h = HighestBelow(masks, t.maxfd)
        OBVIOUS
      <4>3. /\ h \in -1 .. t.maxfd - 1 /\ (h # -1 => masks[h] # {})
            /\ \A i \in h + 1 .. t.maxfd - 1 : masks[i] = {}
        BY <2>3, <4>1, <4>2, HighestBelowFound
      <4>4. u.maxfd = h /\ u.mask = masks
        BY <2>2, <3>1, <4>2
      <4>5. ASSUME NEW x \in Slot, masks[x] # {} PROVE x <= h
        <5>1. x # fd
          BY <1>1, <2>1, <3>1, <4>5
        <5>2. x <= t.maxfd
          BY <1>1, <2>1, <4>5, <5>1 DEF TableSound
        <5> QED
          BY <3>1, <4>1, <4>3, <4>5, <5>1, <5>2 DEF Slot
      <4> QED
        BY <4>1, <4>3, <4>4, <4>5 DEF Slot
    <3>2. CASE ~(fd = t.maxfd /\ rest = {})
      <4>1. u.maxfd = t.maxfd /\ u.mask = masks
        BY <2>2, <3>2
      <4> QED
        BY <1>1, <1>3, <2>1, <3>2, <4>1 DEF TableSound, Slot
    <3> QED
      BY <3>1, <3>2
  <2>6. u.interest \in [Slot -> SUBSET Direction]
    BY <1>1, <2>1, <2>2
  <2>7. u \in EventTable
    BY <1>1, <2>2, <2>3, <2>5, <2>6 DEF EventTable
  <2>8. masks = [x \in Slot |-> IF x = fd THEN t.mask[x] \ mask ELSE t.mask[x]]
    BY <1>1, <2>1
  <2> QED
    BY <2>2, <2>4, <2>5, <2>7, <2>8 DEF TableSound
<1> QED
  BY <1>2, <1>3
===============================================================================
