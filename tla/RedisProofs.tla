----------------------------- MODULE RedisProofs -----------------------------
(***************************************************************************)
(* Proofs about the two libraries of redis that the programs use: the ae   *)
(* event loop, for every table size, clock, number of timers and number of *)
(* calls made by handlers; and the doubly linked list adlist, for every    *)
(* number of nodes, lists and values and every order of operations.        *)
(***************************************************************************)
EXTENDS AeLoop, Adlist, AeFileEventsProofs, FiniteSetTheorems, FunctionTheorems, SequenceTheorems

USE AeLoopAssumption

Timer == [id : Nat, when : Nat]

\* aeCreateTimeEvent inserts at the head and numbers upwards: along the list the
\* ids fall, so that each is there once.
Falling(list) ==
    /\ list \in Seq(Timer)
    /\ \A i, j \in 1 .. Len(list) : i < j => list[i].id > list[j].id

\* A pass over the timers runs only those that existed when it began (ids up to
\* maxId); behind te, where the ids are higher, none of them is left that was due.
PassSound ==
    /\ maxId \in -1 .. nextId - 1
    /\ \A id \in born : id \in Nat /\ id > maxId
    /\ pc = "timeProc" => te \in 0 .. maxId
    /\ pc = "time" =>
          \A i \in 1 .. Len(timers) :
              timers[i].id > te /\ timers[i].id <= maxId => timers[i].when > passStart

\* The inductive invariant.
IndInv == LoopConsistent /\ TimersOnTime /\ Falling(timers) /\ PassSound

-------------------------------------------------------------------------------
(* The list of timers *)

\* The events of the list have their types.
LEMMA TimerTyped ==
  ASSUME NEW list \in Seq(Timer), NEW i \in 1 .. Len(list)
  PROVE  list[i] \in Timer /\ list[i].id \in Nat /\ list[i].when \in Nat
<1>1. list[i] \in Timer
  OBVIOUS
<1> QED
  BY <1>1 DEF Timer

\* The search of aeDeleteTimeEvent finds an event that is on the list.
LEMMA PositionFound ==
  ASSUME timers \in Seq(Timer), NEW id, Has(id)
  PROVE  Position(id) \in 1 .. Len(timers) /\ timers[Position(id)].id = id
<1>1. DOMAIN timers = 1 .. Len(timers)
  OBVIOUS
<1> QED
  BY <1>1 DEF Has, Position

\* aeDeleteTimeEvent keeps the order of the list and adds nothing to it.
LEMMA WithoutEffect ==
  ASSUME Falling(timers), NEW id, NEW s, s = Without(id)
  PROVE  /\ Falling(s)
         /\ \A j \in 1 .. Len(s) : \E i \in 1 .. Len(timers) : s[j] = timers[i]
<1>1. CASE ~Has(id)
  BY <1>1 DEF Without
<1>2. CASE Has(id)
  <2> DEFINE n == Len(timers)
             p == Position(id)
             before == SubSeq(timers, 1, p - 1)
             after == SubSeq(timers, p + 1, n)
  <2>1. p \in 1 .. n /\ n \in Nat /\ timers \in Seq(Timer)
    BY <1>2, PositionFound DEF Falling
  <2>2. /\ before \in Seq(Timer) /\ Len(before) = p - 1
        /\ \A j \in 1 .. p - 1 : before[j] = timers[j]
    BY <2>1
  <2>3. /\ after \in Seq(Timer) /\ Len(after) = n - p
        /\ \A j \in 1 .. n - p : after[j] = timers[j + p]
    BY <2>1
  <2>4. s = before \o after
    BY <1>2 DEF Without
  <2> HIDE DEF before, after, p, n
  <2>5. /\ s \in Seq(Timer) /\ Len(s) = n - 1
        /\ \A j \in 1 .. n - 1 : s[j] = IF j <= p - 1 THEN before[j] ELSE after[j - (p - 1)]
    <3>1. /\ s \in Seq(Timer) /\ Len(s) = Len(before) + Len(after)
          /\ \A j \in 1 .. Len(before) + Len(after) :
                s[j] = IF j <= Len(before) THEN before[j] ELSE after[j - Len(before)]
      BY <2>2, <2>3, <2>4, ConcatProperties
    <3>2. Len(before) + Len(after) = n - 1
      BY <2>1, <2>2, <2>3
    <3> QED
      BY <2>2, <3>1, <3>2
  <2>6. ASSUME NEW j \in 1 .. n - 1
        PROVE  s[j] = IF j < p THEN timers[j] ELSE timers[j + 1]
    <3>1. CASE j < p
      BY <2>1, <2>2, <2>5, <3>1
    <3>2. CASE ~(j < p)
      <4>1. s[j] = after[j - (p - 1)] /\ j - (p - 1) \in 1 .. n - p
        BY <2>1, <2>5, <3>2
      <4>2. (j - (p - 1)) + p = j + 1
        BY <2>1
      <4> QED
        BY <2>3, <3>2, <4>1, <4>2
    <3> QED
      BY <3>1, <3>2
  <2>7. \A i, j \in 1 .. n - 1 : i < j => s[i].id > s[j].id
    BY <2>1, <2>6 DEF Falling, n
  <2>8. \A j \in 1 .. n - 1 : \E i \in 1 .. n : s[j] = timers[i]
    BY <2>1, <2>6
  <2> QED
    BY <2>5, <2>7, <2>8 DEF Falling, n
<1> QED
  BY <1>1, <1>2

\* te starts at the newest timer: none has a higher id.
LEMMA HeadIsHighest ==
  ASSUME NEW list, Falling(list)
  PROVE  /\ \A i \in 1 .. Len(list) : list[i].id <= HeadId(list)
         /\ HeadId(list) # NoTimer => \E i \in 1 .. Len(list) : list[i].id = HeadId(list)
         /\ HeadId(list) = NoTimer => list = <<>>
<1>1. CASE list = <<>>
  BY <1>1 DEF HeadId, NoTimer
<1>2. CASE list # <<>>
  <2>1. Len(list) \in Nat /\ Len(list) >= 1 /\ HeadId(list) = list[1].id
    BY <1>2 DEF HeadId, Falling
  <2>2. ASSUME NEW i \in 1 .. Len(list) PROVE list[i].id \in Nat
    BY TimerTyped DEF Falling
  <2> QED
    BY <2>1, <2>2 DEF Falling, NoTimer
<1> QED
  BY <1>1, <1>2

\* te := te->next goes to the next lower id, or off the list below every id.
LEMMA NextIsLower ==
  ASSUME Falling(timers), NEW id \in Nat, Has(id)
  PROVE  /\ NextOf(id) # NoTimer => Has(NextOf(id))
         /\ \A i \in 1 .. Len(timers) : timers[i].id > NextOf(id) => timers[i].id >= id
<1> DEFINE n == Len(timers)
           p == Position(id)
<1>1. p \in 1 .. n /\ n \in Nat /\ timers[p].id = id /\ DOMAIN timers = 1 .. n
  BY PositionFound DEF Falling
<1>2. ASSUME NEW i \in 1 .. n PROVE timers[i].id \in Nat
  BY TimerTyped DEF Falling
<1>3. CASE p = n
  <2>1. NextOf(id) = NoTimer
    BY <1>3 DEF NextOf
  <2>2. ASSUME NEW i \in 1 .. n PROVE timers[i].id >= id
    BY <1>1, <1>2, <1>3 DEF Falling
  <2> QED
    BY <2>1, <2>2
<1>4. CASE p # n
  <2>1. NextOf(id) = timers[p + 1].id /\ p + 1 \in 1 .. n
    BY <1>1, <1>4 DEF NextOf
  <2>2. Has(NextOf(id))
    BY <1>1, <2>1 DEF Has
  <2>3. ASSUME NEW i \in 1 .. n, timers[i].id > NextOf(id) PROVE timers[i].id >= id
    <3>1. i < p + 1
      <4> SUFFICES ASSUME i >= p + 1 PROVE FALSE
        BY <1>1
      <4>1. timers[i].id <= timers[p + 1].id
        BY <1>1, <1>2, <2>1 DEF Falling
      <4> QED
        BY <1>2, <2>1, <2>3, <4>1
    <3> QED
      BY <1>1, <1>2, <3>1 DEF Falling
  <2> QED
    BY <2>2, <2>3
<1> QED
  BY <1>3, <1>4

-------------------------------------------------------------------------------
(* The timeout of aeApiPoll *)

\* The subtraction of seconds and milliseconds with a borrow is exact for a moment
\* that is not past, and short of a second for one that is.
LEMMA TimeToSleepExact ==
  ASSUME NEW when \in Nat, NEW clock \in Nat
  PROVE  /\ TimeToSleep(when, clock) \in Nat
         /\ when >= clock => TimeToSleep(when, clock) = when - clock
         /\ when < clock => TimeToSleep(when, clock) < MsPerSec
<1> DEFINE a == when \div MsPerSec
           b == when % MsPerSec
           c == clock \div MsPerSec
           d == clock % MsPerSec
           sec == a - c - (IF b < d THEN 1 ELSE 0)
           ms == b - d + (IF b < d THEN MsPerSec ELSE 0)
<1>1. /\ a \in Nat /\ b \in 0 .. MsPerSec - 1 /\ when = a * MsPerSec + b
      /\ c \in Nat /\ d \in 0 .. MsPerSec - 1 /\ clock = c * MsPerSec + d
  OBVIOUS
<1>2. TimeToSleep(when, clock) = (IF sec < 0 THEN 0 ELSE sec) * MsPerSec + ms
  BY DEF TimeToSleep
<1> HIDE DEF a, b, c, d
<1>3. sec \in Int /\ ms \in 0 .. MsPerSec - 1
  BY <1>1
<1>4. sec * MsPerSec + ms = when - clock
  <2>1. PICK x \in Int, y \in Int : x = a * MsPerSec /\ y = c * MsPerSec
    BY <1>1
  <2>2. CASE b < d
    <3>1. sec = a - c - 1
      BY <2>2
    <3>2. (a - c - 1) * MsPerSec = x - y - MsPerSec
      BY <1>1, <2>1
    <3>3. when - clock = x + b - y - d
      BY <1>1, <2>1
    <3> QED
      BY <1>1, <2>2, <3>1, <3>2, <3>3
  <2>3. CASE ~(b < d)
    <3>1. sec = a - c
      BY <1>1, <2>3
    <3>2. (a - c) * MsPerSec = x - y
      BY <1>1, <2>1
    <3>3. when - clock = x + b - y - d
      BY <1>1, <2>1
    <3> QED
      BY <1>1, <2>3, <3>1, <3>2, <3>3
  <2> QED
    BY <2>2, <2>3
<1> HIDE DEF sec, ms
<1>5. CASE sec < 0
  <2>1. TimeToSleep(when, clock) = ms
    BY <1>2, <1>3, <1>5
  <2>2. sec * MsPerSec <= (-1) * MsPerSec
    BY <1>3, <1>5
  <2>3. when - clock < 0
    BY <1>3, <1>4, <2>2
  <2> QED
    BY <1>3, <2>1, <2>3
<1>6. CASE ~(sec < 0)
  <2>1. TimeToSleep(when, clock) = when - clock
    BY <1>2, <1>4, <1>6
  <2>2. sec * MsPerSec \in Nat
    BY <1>3, <1>6
  <2>3. when - clock >= 0
    BY <1>3, <1>4, <2>2
  <2> QED
    BY <2>1, <2>3
<1> QED
  BY <1>5, <1>6

\* aeSearchNearestTimer finds a moment of the list.
LEMMA NearestIsTyped ==
  ASSUME timers \in Seq(Timer), timers # <<>>
  PROVE  NearestWhen \in Nat
<1> DEFINE S == {timers[i].when : i \in DOMAIN timers}
<1>1. DOMAIN timers = 1 .. Len(timers) /\ 1 \in 1 .. Len(timers)
  OBVIOUS
<1>2. S \subseteq Nat /\ timers[1].when \in S
  BY <1>1, TimerTyped
<1>3. PICK w \in S : \A y \in S : w <= y
  <2> HIDE DEF S
  <2> QED
    BY <1>2, Smallest
<1>4. \E w1 \in S : \A i \in DOMAIN timers : w1 <= timers[i].when
  BY <1>3
<1>5. NearestWhen \in S
  BY <1>4 DEF NearestWhen
<1> QED
  BY <1>2, <1>5

-------------------------------------------------------------------------------
(* The invariant *)

\* The agreement of table, kernel and maxfd, as the lemmas on the table state it.
LEMMA TableParts ==
  TableSound(table) <=> (table \in EventTable /\ KernelAgrees /\ MaxfdExact)
  BY DEF TableSound, KernelAgrees, MaxfdExact

\* What main registered is a sound state of the loop.
LEMMA InitInv == Init => IndInv
<1> SUFFICES ASSUME Init PROVE IndInv
  OBVIOUS
<1>1. TableSound(table)
  <2>1. CASE table = aeCreateEventLoop
    BY <2>1, EmptyTableSound
  <2>2. CASE \E fd \in Slot, p \in Proc, d \in Data :
                table = aeCreateFileEvent(aeCreateEventLoop, fd, {"READABLE"}, p, d)
    <3>1. PICK fd \in Slot, p \in Proc, d \in Data :
              table = aeCreateFileEvent(aeCreateEventLoop, fd, {"READABLE"}, p, d)
      BY <2>2
    <3>2. Created(aeCreateEventLoop, table, fd, {"READABLE"}, p, d)
      BY <3>1, EmptyTableSound, CreateEffect DEF Direction
    <3> QED
      BY <3>2 DEF Created
  <2> QED
    BY <2>1, <2>2 DEF Init
<1>2. Falling(timers) /\ (\A i \in DOMAIN timers : timers[i] \in [id : 0 .. nextId - 1, when : Nat])
      /\ nextId \in 0 .. MaxTimers
  <2>1. CASE timers = <<>> /\ nextId = 0
    BY <2>1 DEF Falling
  <2>2. CASE MaxTimers > 0 /\ \E d \in Delay : timers = <<[id |-> 0, when |-> d]>> /\ nextId = 1
    <3>1. PICK d \in Delay : timers = <<[id |-> 0, when |-> d]>> /\ nextId = 1
      BY <2>2
    <3> QED
      BY <2>2, <3>1 DEF Falling, Timer
  <2> QED
    BY <2>1, <2>2 DEF Init
<1>3. TypeOK
  <2>1. stop \in BOOLEAN /\ rfired \in BOOLEAN
    BY DEF Init
  <2>2. /\ now \in 0 .. MaxClock /\ entered \in 0 .. now /\ passStart \in 0 .. now
        /\ te \in -1 .. nextId - 1
    BY <1>2 DEF Init, NoTimer
  <2>3. pc = "aeMain"
    BY DEF Init
  <2> QED
    BY <1>1, <1>2, <2>1, <2>2, <2>3 DEF TypeOK, TableSound
<1>4. WalkOnList /\ NewTimersWait /\ SleepLateBound
  BY DEF Init, WalkOnList, NewTimersWait, SleepLateBound
<1>5. PassSound
  BY <1>2 DEF Init, PassSound
<1> QED
  BY <1>1, <1>2, <1>3, <1>4, <1>5, TableParts DEF IndInv, LoopConsistent, TimersOnTime

\* No step, in particular no registration by a handler, makes the table, the kernel
\* and maxfd disagree.
LEMMA TableStep ==
  ASSUME TableSound(table), [Next]_vars
  PROVE  TableSound(table)'
<1>1. CASE CallCreateFileEvent
  <2>1. PICK fd \in Fd, mask \in {{"READABLE"}, {"WRITABLE"}}, p \in Proc, d \in Data :
            table' = IF CreateFails(table, fd) THEN table
                     ELSE aeCreateFileEvent(table, fd, mask, p, d)
    BY <1>1 DEF CallCreateFileEvent
  <2>2. CASE CreateFails(table, fd)
    BY <2>1, <2>2
  <2>3. CASE ~CreateFails(table, fd)
    <3>1. fd \in Slot
      BY <2>3, AeFileEventsAssumption DEF CreateFails, Slot
    <3>2. mask \in SUBSET Direction /\ mask # {}
      BY DEF Direction
    <3>3. Created(table, table', fd, mask, p, d)
      BY <2>1, <2>3, <3>1, <3>2, CreateEffect
    <3> QED
      BY <3>3 DEF Created, TableSound
  <2> QED
    BY <2>2, <2>3
<1>2. CASE CallDeleteFileEvent
  <2>1. PICK fd \in Fd, mask \in {{"READABLE"}, {"WRITABLE"}, Direction} :
            table' = aeDeleteFileEvent(table, fd, mask)
    BY <1>2 DEF CallDeleteFileEvent
  <2>2. fd \in Nat /\ mask \in SUBSET Direction
    BY AeFileEventsAssumption DEF Direction
  <2> QED
    BY <2>1, <2>2, DeleteEffect
<1>3. CASE table' = table
  BY <1>3
<1>4. CallCreateFileEvent \/ CallDeleteFileEvent \/ table' = table
  BY DEF Next, LoopStep, HandlerStep, aeMain, TestStop, ComputeTimeout, PollTimesOut,
         DispatchReadable, DispatchWritable, FileProcReturns, processTimeEvents, VisitTimer,
         TimeProcReturns, TimeEventsDone, aeCreateTimeEvent, aeDeleteTimeEvent,
         PollReturns, aeStop, Tick, vars
<1> QED
  BY <1>1, <1>2, <1>3, <1>4

\* The list after the steps that change it: it still falls, and its ids are below
\* timeEventNextId.
LEMMA TimersStep ==
  ASSUME IndInv, [Next]_vars
  PROVE  /\ Falling(timers)'
         /\ nextId' \in 0 .. MaxTimers
         /\ \A i \in DOMAIN timers' : timers'[i] \in [id : 0 .. nextId' - 1, when : Nat]
<1> DEFINE Listed(list, n) == \A i \in DOMAIN list : list[i] \in [id : 0 .. n - 1, when : Nat]
<1>1. /\ Falling(timers) /\ Listed(timers, nextId) /\ nextId \in 0 .. MaxTimers
      /\ now \in Nat /\ MaxTimers \in Nat /\ timers \in Seq(Timer)
  BY DEF IndInv, LoopConsistent, TypeOK, Falling
<1>2. ASSUME NEW id, timers' = Without(id)
      PROVE  Falling(timers') /\ Listed(timers', nextId)
  <2>1. /\ Falling(timers')
        /\ \A j \in 1 .. Len(timers') : \E i \in 1 .. Len(timers) : timers'[j] = timers[i]
    <3>1. PICK s : s = timers' /\ s = Without(id)
      BY <1>2
    <3>2. /\ Falling(s)
          /\ \A j \in 1 .. Len(s) : \E i \in 1 .. Len(timers) : s[j] = timers[i]
      BY <1>1, <3>1, WithoutEffect
    <3> QED
      BY <3>1, <3>2
  <2>2. DOMAIN timers' = 1 .. Len(timers') /\ DOMAIN timers = 1 .. Len(timers)
    BY <1>1, <2>1 DEF Falling
  <2> QED
    BY <1>1, <2>1, <2>2
<1>3. CASE TimeProcReturns
  <2>1. nextId' = nextId
    BY <1>3 DEF TimeProcReturns
  <2>2. CASE timers' = Without(te)
    BY <1>1, <1>2, <2>1, <2>2
  <2>3. CASE Has(te) /\ \E p \in Period : timers' = [timers EXCEPT ![Position(te)].when = now + p]
    <3>1. PICK p \in Period : timers' = [timers EXCEPT ![Position(te)].when = now + p]
      BY <2>3
    <3>2. Position(te) \in 1 .. Len(timers) /\ p \in Nat
      BY <1>1, <2>3, PositionFound
    <3>3. PICK x \in 1 .. Len(timers) : x = Position(te)
      BY <3>2
    <3>4. timers[x] \in Timer /\ timers[x] \in [id : 0 .. nextId - 1, when : Nat]
      BY <1>1, TimerTyped
    <3>5. PICK moved : moved = [timers[x] EXCEPT !.when = now + p]
      OBVIOUS
    <3>6. /\ moved \in Timer /\ moved \in [id : 0 .. nextId - 1, when : Nat]
          /\ moved.id = timers[x].id
      <4>1. moved = [id |-> timers[x].id, when |-> now + p]
        BY <3>4, <3>5
      <4>2. timers[x].id \in 0 .. nextId - 1 /\ timers[x].id \in Nat /\ now + p \in Nat
        BY <1>1, <3>2, <3>4
      <4> QED
        BY <4>1, <4>2 DEF Timer
    <3>7. timers' = [timers EXCEPT ![x] = moved]
      BY <3>1, <3>3, <3>5
    <3>8. timers' \in Seq(Timer) /\ Len(timers') = Len(timers)
      BY <1>1, <3>6, <3>7, ExceptSeq
    <3>9. \A i \in 1 .. Len(timers) : timers'[i] = IF i = x THEN moved ELSE timers[i]
      BY <1>1, <3>7
    <3>10. ASSUME NEW i \in 1 .. Len(timers)
           PROVE  /\ timers'[i].id = timers[i].id
                  /\ timers'[i] \in [id : 0 .. nextId - 1, when : Nat]
      <4>1. timers[i] \in [id : 0 .. nextId - 1, when : Nat]
        BY <1>1
      <4> QED
        BY <3>6, <3>9, <4>1
    <3> QED
      BY <1>1, <2>1, <3>8, <3>10 DEF Falling
  <2> QED
    BY <1>3, <2>2, <2>3 DEF TimeProcReturns
<1>4. CASE aeCreateTimeEvent
  <2>1. PICK d \in Delay : timers' = <<[id |-> nextId, when |-> now + d]>> \o timers
    BY <1>4 DEF aeCreateTimeEvent
  <2>2. nextId' = nextId + 1 /\ nextId' \in 0 .. MaxTimers
    BY <1>1, <1>4 DEF aeCreateTimeEvent
  <2> DEFINE new == [id |-> nextId, when |-> now + d]
  <2>3. new \in Timer /\ new \in [id : 0 .. nextId, when : Nat] /\ new.id = nextId
    BY <1>1 DEF Timer
  <2> HIDE DEF new
  <2>4. <<new>> \in Seq(Timer) /\ Len(<<new>>) = 1 /\ <<new>>[1] = new
    BY <2>3
  <2>5. /\ timers' \in Seq(Timer) /\ Len(timers') = 1 + Len(timers)
        /\ \A i \in 1 .. 1 + Len(timers) :
              timers'[i] = IF i <= 1 THEN <<new>>[i] ELSE timers[i - 1]
    BY <1>1, <2>1, <2>4, ConcatProperties DEF new
  <2>6. \A i \in 1 .. Len(timers') : timers'[i] = IF i = 1 THEN new ELSE timers[i - 1]
    BY <1>1, <2>4, <2>5
  <2>7. \A i \in 1 .. Len(timers) : timers[i] \in [id : 0 .. nextId - 1, when : Nat]
    BY <1>1
  <2>8. \A i \in 1 .. Len(timers') : timers'[i] \in [id : 0 .. nextId, when : Nat]
    <3>1. PICK n \in Nat, m \in Nat : n = Len(timers) /\ m = nextId
      BY <1>1
    <3>2. ASSUME NEW i \in 1 .. 1 + n PROVE timers'[i] \in [id : 0 .. m, when : Nat]
      <4>1. CASE i = 1
        BY <2>3, <2>5, <2>6, <3>1, <4>1
      <4>2. CASE i # 1
        <5>1. i - 1 \in 1 .. n
          BY <4>2
        <5>2. timers'[i] = timers[i - 1]
          BY <2>5, <2>6, <3>1, <4>2
        <5>3. timers[i - 1] \in [id : 0 .. m - 1, when : Nat]
          BY <2>7, <3>1, <5>1
        <5> QED
          BY <5>2, <5>3
      <4> QED
        BY <4>1, <4>2
    <3> QED
      BY <2>5, <3>1, <3>2
  <2>9. \A i, j \in 1 .. Len(timers') : i < j => timers'[i].id > timers'[j].id
    <3> SUFFICES ASSUME NEW i \in 1 .. Len(timers'), NEW j \in 1 .. Len(timers'), i < j
                 PROVE  timers'[i].id > timers'[j].id
      OBVIOUS
    <3>1. j - 1 \in 1 .. Len(timers) /\ timers'[j] = timers[j - 1]
      BY <1>1, <2>5, <2>6
    <3>2. timers[j - 1].id < nextId /\ timers[j - 1].id \in Nat
      BY <1>1, <2>7, <3>1
    <3>3. CASE i = 1
      BY <1>1, <2>3, <2>6, <3>1, <3>2, <3>3
    <3>4. CASE i # 1
      <4>1. i - 1 \in 1 .. Len(timers) /\ timers'[i] = timers[i - 1] /\ i - 1 < j - 1
        BY <1>1, <2>5, <2>6, <3>4
      <4> QED
        BY <1>1, <3>1, <4>1 DEF Falling
    <3> QED
      BY <3>3, <3>4
  <2>10. Falling(timers')
    BY <2>5, <2>9 DEF Falling
  <2>11. nextId' - 1 = nextId /\ DOMAIN timers' = 1 .. Len(timers')
    BY <1>1, <2>2, <2>5
  <2> QED
    BY <2>2, <2>8, <2>10, <2>11
<1>5. CASE aeDeleteTimeEvent
  BY <1>1, <1>2, <1>5 DEF aeDeleteTimeEvent
<1>6. CASE UNCHANGED <<timers, nextId>>
  BY <1>1, <1>6
<1>7. TimeProcReturns \/ aeCreateTimeEvent \/ aeDeleteTimeEvent \/ UNCHANGED <<timers, nextId>>
  BY DEF Next, LoopStep, HandlerStep, aeMain, TestStop, ComputeTimeout, PollTimesOut,
         DispatchReadable, DispatchWritable, FileProcReturns, processTimeEvents, VisitTimer,
         TimeEventsDone, CallCreateFileEvent, CallDeleteFileEvent,
         PollReturns, aeStop, Tick, vars
<1> QED
  BY <1>3, <1>4, <1>5, <1>6, <1>7

\* Flags, moments and the place of the loop keep their types.
LEMMA ScalarsStep ==
  ASSUME IndInv, [Next]_vars
  PROVE  /\ stop' \in BOOLEAN /\ rfired' \in BOOLEAN
         /\ now' \in 0 .. MaxClock /\ entered' \in 0 .. now' /\ passStart' \in 0 .. now'
         /\ pc' \in Handler \cup {"aeMain", "while", "aeProcessEvents", "epoll_wait",
                                  "dispatch", "writable?", "time", "returned"}
<1>1. /\ stop \in BOOLEAN /\ rfired \in BOOLEAN
      /\ now \in 0 .. MaxClock /\ entered \in 0 .. now /\ passStart \in 0 .. now
      /\ pc \in Handler \cup {"aeMain", "while", "aeProcessEvents", "epoll_wait",
                              "dispatch", "writable?", "time", "returned"}
  BY DEF IndInv, LoopConsistent, TypeOK
<1> USE DEF Next, LoopStep, HandlerStep, aeMain, TestStop, ComputeTimeout, PollTimesOut,
            DispatchReadable, DispatchWritable, FileProcReturns, processTimeEvents,
            VisitTimer, TimeProcReturns, TimeEventsDone, CallCreateFileEvent,
            CallDeleteFileEvent, aeCreateTimeEvent, aeDeleteTimeEvent, HandlerCalls,
            PollReturns, aeStop, Tick, vars, loopVars
<1>2. stop' \in BOOLEAN /\ rfired' \in BOOLEAN
  <2>1. stop' = stop \/ stop' = TRUE \/ stop' = FALSE
    OBVIOUS
  <2>2. (\E e \in fired : rfired' = ("READABLE" \in table.mask[e.fd] \cap e.mask)) \/ rfired' = rfired
    OBVIOUS
  <2>3. stop' \in BOOLEAN
    BY <1>1, <2>1
  <2>4. rfired' \in BOOLEAN
    <3>1. CASE rfired' = rfired
      BY <1>1, <3>1
    <3>2. CASE \E e \in fired : rfired' = ("READABLE" \in table.mask[e.fd] \cap e.mask)
      BY ONLY <3>2
    <3> QED
      BY <2>2, <3>1, <3>2
  <2> QED
    BY <2>3, <2>4
<1>3. now' = now \/ (now' = now + 1 /\ now < MaxClock)
  BY <1>1
<1>4. (entered' = entered \/ entered' = now) /\ (passStart' = passStart \/ passStart' = now)
  BY <1>1
<1>5. pc' \in Handler \cup {"aeMain", "while", "aeProcessEvents", "epoll_wait",
                            "dispatch", "writable?", "time", "returned"}
  BY <1>1 DEF Handler
<1> QED
  BY <1>1, <1>2, <1>3, <1>4, <1>5

\* The walk of processTimeEvents stays on the list, runs no timer of its own pass
\* and leaves none behind that was due.
LEMMA PassStep ==
  ASSUME IndInv, [Next]_vars
  PROVE  te' \in -1 .. nextId' - 1 /\ WalkOnList' /\ PassSound'
<1>1. /\ Falling(timers) /\ timers \in Seq(Timer) /\ DOMAIN timers = 1 .. Len(timers)
      /\ nextId \in Nat /\ now \in Nat /\ passStart \in 0 .. now /\ te \in -1 .. nextId - 1
      /\ \A i \in 1 .. Len(timers) : timers[i].id \in 0 .. nextId - 1
      /\ \A i \in 1 .. Len(timers) : timers[i].when \in Nat
      /\ maxId \in -1 .. nextId - 1
      /\ PassSound /\ WalkOnList
  <2>1. Falling(timers) /\ PassSound /\ WalkOnList /\ TypeOK
    BY DEF IndInv, LoopConsistent
  <2>2. timers \in Seq(Timer) /\ DOMAIN timers = 1 .. Len(timers)
    BY <2>1 DEF Falling
  <2>3. nextId \in Nat /\ now \in Nat /\ passStart \in 0 .. now /\ te \in -1 .. nextId - 1
    BY <2>1 DEF TypeOK
  <2>4. \A i \in 1 .. Len(timers) : timers[i].id \in 0 .. nextId - 1 /\ timers[i].when \in Nat
    BY <2>1, <2>2 DEF TypeOK
  <2>5. maxId \in -1 .. nextId - 1
    BY <2>1 DEF PassSound
  <2> QED
    BY <2>1, <2>2, <2>3, <2>4, <2>5
<1>2. /\ Falling(timers') /\ timers' \in Seq(Timer) /\ DOMAIN timers' = 1 .. Len(timers')
      /\ nextId' \in Nat
      /\ \A i \in 1 .. Len(timers') : timers'[i].id \in 0 .. nextId' - 1
  BY TimersStep DEF Falling
<1>3. ASSUME te' = HeadId(timers'), pc' = "time", born' \subseteq born, maxId' = maxId \/ born' = {},
             maxId' \in -1 .. nextId' - 1
      PROVE  te' \in -1 .. nextId' - 1 /\ WalkOnList' /\ PassSound'
  <2>1. /\ \A i \in 1 .. Len(timers') : timers'[i].id <= te'
        /\ te' # NoTimer => \E i \in 1 .. Len(timers') : timers'[i].id = te'
    BY <1>2, <1>3, HeadIsHighest
  <2>2. te' \in -1 .. nextId' - 1
    BY <1>2, <2>1 DEF NoTimer
  <2>3. WalkOnList'
    BY <1>2, <2>1 DEF WalkOnList, Has
  <2>4. \A i \in 1 .. Len(timers') : ~(timers'[i].id > te')
    BY <1>2, <2>1, <2>2
  <2>5. PassSound'
    BY <1>1, <1>3, <2>4 DEF PassSound
  <2> QED
    BY <2>2, <2>3, <2>5
<1>4. CASE processTimeEvents
  BY <1>1, <1>2, <1>3, <1>4 DEF processTimeEvents
<1>5. CASE TimeProcReturns
  BY <1>1, <1>2, <1>3, <1>5 DEF TimeProcReturns
<1>6. CASE VisitTimer
  <2>1. /\ te \in Nat /\ Has(te) /\ pc = "time"
        /\ UNCHANGED <<timers, nextId, maxId, passStart, born>>
    BY <1>1, <1>6 DEF VisitTimer, WalkOnList, NoTimer
  <2>2. Position(te) \in 1 .. Len(timers) /\ timers[Position(te)].id = te
    BY <1>1, <2>1, PositionFound
  <2>3. CASE te > maxId \/ now < timers[Position(te)].when
    <3>1. te' = NextOf(te) /\ pc' = pc
      BY <1>6, <2>3 DEF VisitTimer
    <3>2. /\ te' # NoTimer => Has(te')
          /\ \A i \in 1 .. Len(timers) : timers[i].id > te' => timers[i].id >= te
      BY <1>1, <2>1, <3>1, NextIsLower
    <3>3. te' \in -1 .. nextId - 1
      BY <1>1, <3>2 DEF Has, NoTimer
    <3>4. ASSUME NEW i \in 1 .. Len(timers), timers[i].id > te', timers[i].id <= maxId
          PROVE  timers[i].when > passStart
      <4>1. CASE timers[i].id > te
        BY <1>1, <2>1, <3>4, <4>1 DEF PassSound
      <4>2. CASE timers[i].id = te
        <5>1. i = Position(te)
          BY <1>1, <2>2, <4>2 DEF Falling
        <5> QED
          BY <1>1, <2>3, <3>4, <4>2, <5>1
      <4> QED
        BY <1>1, <3>2, <3>4, <4>1, <4>2
    <3>5. WalkOnList'
      BY <2>1, <3>2 DEF WalkOnList, Has
    <3>6. PassSound'
      BY <1>1, <2>1, <3>1, <3>4 DEF PassSound
    <3> QED
      BY <2>1, <3>3, <3>5, <3>6
  <2>4. CASE ~(te > maxId \/ now < timers[Position(te)].when)
    <3>1. te' = te /\ pc' = "timeProc"
      BY <1>6, <2>4 DEF VisitTimer
    <3>2. te \in 0 .. maxId
      BY <1>1, <2>1, <2>4
    <3> QED
      BY <1>1, <2>1, <3>1, <3>2 DEF PassSound, WalkOnList
  <2> QED
    BY <2>3, <2>4
<1>7. CASE aeCreateTimeEvent
  <2>1. /\ pc' = pc /\ pc # "time" /\ nextId' = nextId + 1
        /\ UNCHANGED <<te, maxId, passStart>>
        /\ born' = born \/ born' = born \cup {nextId}
    BY <1>7 DEF aeCreateTimeEvent, HandlerCalls, Handler
  <2>2. \A id \in born' : id \in Nat /\ id > maxId
    BY <1>1, <2>1 DEF PassSound
  <2> QED
    BY <1>1, <2>1, <2>2 DEF PassSound, WalkOnList
<1>8. CASE aeDeleteTimeEvent
  <2>1. pc' = pc /\ pc # "time" /\ UNCHANGED <<nextId, te, maxId, passStart, born>>
    BY <1>8 DEF aeDeleteTimeEvent, HandlerCalls, Handler
  <2> QED
    BY <1>1, <2>1 DEF PassSound, WalkOnList
<1>9. CASE /\ UNCHANGED <<timers, nextId, te, maxId, passStart, born>>
           /\ pc' = pc \/ pc' \notin {"time", "timeProc"}
  <2>1. PassSound'
    BY <1>1, <1>9 DEF PassSound
  <2>2. WalkOnList'
    BY <1>1, <1>9 DEF WalkOnList, Has
  <2> QED
    BY <1>1, <1>9, <2>1, <2>2
<1>10. \/ processTimeEvents \/ TimeProcReturns \/ VisitTimer
       \/ aeCreateTimeEvent \/ aeDeleteTimeEvent
       \/ /\ UNCHANGED <<timers, nextId, te, maxId, passStart, born>>
          /\ pc' = pc \/ pc' \notin {"time", "timeProc"}
  BY DEF Next, LoopStep, HandlerStep, aeMain, TestStop, ComputeTimeout, PollTimesOut,
         DispatchReadable, DispatchWritable, FileProcReturns, TimeEventsDone,
         CallCreateFileEvent, CallDeleteFileEvent, HandlerCalls,
         PollReturns, aeStop, Tick, vars, loopVars
<1> QED
  BY <1>4, <1>5, <1>6, <1>7, <1>8, <1>9, <1>10

\* The timeout computed for aeApiPoll stays right while the loop is in epoll_wait.
LEMMA SleepStep ==
  ASSUME IndInv, [Next]_vars
  PROVE  SleepLateBound'
<1> USE DEF SleepLateBound
<1>1. CASE ComputeTimeout
  <2>1. /\ entered' = now /\ timers' = timers /\ now \in Nat /\ timers \in Seq(Timer)
        /\ wake' = IF timers = <<>> THEN Forever ELSE now + TimeToSleep(NearestWhen, now)
    BY <1>1 DEF ComputeTimeout, IndInv, LoopConsistent, TypeOK, Falling
  <2>2. NearestWhen' = NearestWhen
    BY <2>1 DEF NearestWhen
  <2>3. CASE timers # <<>>
    <3>1. NearestWhen \in Nat
      BY <2>1, <2>3, NearestIsTyped
    <3>2. PICK t \in Nat : t = TimeToSleep(NearestWhen, now)
      BY <2>1, <3>1, TimeToSleepExact
    <3>3. /\ NearestWhen >= now => t = NearestWhen - now
          /\ NearestWhen < now => t < MsPerSec
      BY <2>1, <3>1, <3>2, TimeToSleepExact
    <3> QED
      BY <2>1, <2>2, <2>3, <3>1, <3>2, <3>3
  <2> QED
    BY <2>1, <2>3
<1>2. CASE pc' # "epoll_wait"
  BY <1>2
<1>3. CASE pc = "epoll_wait" /\ UNCHANGED <<timers, entered, wake>>
  <2>1. NearestWhen' = NearestWhen
    BY <1>3 DEF NearestWhen
  <2> QED
    BY <1>3, <2>1 DEF IndInv, TimersOnTime
<1>4. \/ ComputeTimeout \/ pc' # "epoll_wait"
      \/ pc = "epoll_wait" /\ UNCHANGED <<timers, entered, wake>>
  BY DEF Next, LoopStep, HandlerStep, aeMain, TestStop, PollTimesOut,
         DispatchReadable, DispatchWritable, FileProcReturns, processTimeEvents, VisitTimer,
         TimeProcReturns, TimeEventsDone, CallCreateFileEvent, CallDeleteFileEvent,
         aeCreateTimeEvent, aeDeleteTimeEvent, HandlerCalls, Handler,
         PollReturns, aeStop, Tick, vars, loopVars
<1> QED
  BY <1>1, <1>2, <1>3, <1>4

\* IndInv is an inductive invariant of the event loop.
THEOREM Invariance == Spec => []IndInv
<1>1. ASSUME IndInv, [Next]_vars PROVE IndInv'
  <2>1. TableSound(table)'
    BY <1>1, TableParts, TableStep DEF IndInv, LoopConsistent, TypeOK
  <2>2. (table \in EventTable /\ KernelAgrees /\ MaxfdExact)'
    BY <2>1, TableParts, PTL
  <2>3. TypeOK'
    BY <1>1, <2>2, TimersStep, ScalarsStep, PassStep DEF TypeOK
  <2>4. NewTimersWait'
    <3>1. PassSound'
      BY <1>1, PassStep
    <3> QED
      BY <3>1 DEF PassSound, NewTimersWait
  <2> QED
    BY <1>1, <2>2, <2>3, <2>4, TimersStep, PassStep, SleepStep
    DEF IndInv, LoopConsistent, TimersOnTime
<1> QED
  BY <1>1, InitInv, PTL DEF Spec

\* Whatever handlers register and delete, in whatever order and however many, the
\* table, the epoll list and maxfd agree, and processTimeEvents never stands on a
\* freed event.
THEOREM LoopStaysConsistent == Spec => []LoopConsistent
<1>1. IndInv => LoopConsistent
  BY DEF IndInv
<1> QED
  BY <1>1, Invariance, PTL

\* No timer runs in the pass that created it and aeApiPoll never sleeps past the
\* nearest timer, for clocks of any resolution.
THEOREM TimersKeepTime == Spec => []TimersOnTime
<1>1. IndInv => TimersOnTime
  BY DEF IndInv
<1> QED
  BY <1>1, Invariance, PTL

\* A pass of processTimeEvents leaves no timer behind that was due when it began,
\* although it starts again at the head after every timeProc.
THEOREM DueTimersRun == Spec => NoDueTimerSkipped
<1>1. ASSUME IndInv, [Next]_vars, pc = "time", pc' = "while"
      PROVE  \A i \in DOMAIN timers : timers[i].id <= maxId => timers[i].when > passStart
  <2>1. te = NoTimer
    BY <1>1 DEF Next, LoopStep, HandlerStep, aeMain, TestStop, ComputeTimeout, PollTimesOut,
         DispatchReadable, DispatchWritable, FileProcReturns, processTimeEvents, VisitTimer,
         TimeProcReturns, TimeEventsDone, CallCreateFileEvent, CallDeleteFileEvent,
         aeCreateTimeEvent, aeDeleteTimeEvent, HandlerCalls, Handler,
         PollReturns, aeStop, Tick, vars, loopVars
  <2>2. DOMAIN timers = 1 .. Len(timers)
    BY <1>1 DEF IndInv, Falling
  <2>3. \A i \in 1 .. Len(timers) : timers[i].id > te
    BY <1>1, <2>1, <2>2 DEF IndInv, LoopConsistent, TypeOK, NoTimer
  <2> QED
    BY <1>1, <2>2, <2>3 DEF IndInv, PassSound
<1> QED
  BY <1>1, Invariance, PTL DEF Spec, NoDueTimerSkipped

HIDE AeLoopAssumption

-------------------------------------------------------------------------------
(* Lists as rows of nodes *)

\* A set with 0 and with the successor of each of its numbers has all numbers.
LEMMA Induction ==
  ASSUME NEW S, 0 \in S, \A n \in Nat : n \in S => n + 1 \in S
  PROVE  \A n \in Nat : n \in S
<1> DEFINE T == Nat \ S
<1> SUFFICES ASSUME T # {} PROVE FALSE
  OBVIOUS
<1>1. T \subseteq Nat
  OBVIOUS
<1>2. PICK x \in T : \A y \in T : x <= y
  <2> HIDE DEF T
  <2> QED
    BY <1>1, Smallest
<1>3. x \in Nat /\ x # 0
  OBVIOUS
<1>4. x - 1 \in Nat /\ ~(x <= x - 1) /\ (x - 1) + 1 = x
  BY <1>3
<1>5. x - 1 \in S
  BY <1>2, <1>4
<1>6. (x - 1) + 1 \in S
  BY <1>4, <1>5
<1> QED
  BY <1>4, <1>6

\* The nodes of a list from head to tail, each of them once.
Row == {s \in Seq(Nodes) : IsInjective(s)}

\* What is at place k: NULL in front of the head and behind the tail.
Place(s, k) == IF k \in 1 .. Len(s) THEN s[k] ELSE NULL

Pointer == Nodes \cup {NULL}

\* No row is longer than there are nodes.
LEMMA RowFacts ==
  ASSUME NEW s \in Row
  PROVE  /\ Len(s) \in Nat /\ DOMAIN s = 1 .. Len(s) /\ Len(s) <= Cardinality(Nodes)
         /\ Cardinality(Nodes) \in Nat
         /\ \A k \in 1 .. Len(s) : s[k] \in Nodes /\ s[k] # NULL
         /\ \A j, k \in 1 .. Len(s) : s[j] = s[k] => j = k
<1>1. s \in Seq(Nodes) /\ IsInjective(s)
  BY DEF Row
<1>2. PICK n \in Nat : n = Len(s)
  BY <1>1
<1>3. s \in [1 .. n -> Nodes] /\ DOMAIN s = 1 .. n
  BY <1>1, <1>2
<1>4. s \in Injection(1 .. n, Nodes)
  BY <1>1, <1>3 DEF Injection, IsInjective
<1>5. Cardinality(1 .. n) = n
  BY FS_Interval
<1>6. Cardinality(1 .. n) <= Cardinality(Nodes)
  BY <1>4, FS_Injection, AdlistAssumption
<1>7. Cardinality(Nodes) \in Nat
  BY FS_CardinalityType, AdlistAssumption
<1>8. ASSUME NEW k \in 1 .. n PROVE s[k] \in Nodes /\ s[k] # NULL
  BY <1>3, AdlistAssumption
<1>9. ASSUME NEW j \in 1 .. n, NEW k \in 1 .. n, s[j] = s[k] PROVE j = k
  BY <1>1, <1>3, <1>9 DEF IsInjective
<1> QED
  BY <1>2, <1>3, <1>5, <1>6, <1>7, <1>8, <1>9

\* Distinct nodes, numbered from 1, are a row.
LEMMA MakeRow ==
  ASSUME NEW n \in Nat, NEW s, s = [k \in 1 .. n |-> s[k]], \A k \in 1 .. n : s[k] \in Nodes,
         \A j, k \in 1 .. n : s[j] = s[k] => j = k
  PROVE  s \in Row /\ Len(s) = n /\ DOMAIN s = 1 .. n
<1>1. s \in [1 .. n -> Nodes]
  OBVIOUS
<1>2. s \in Seq(Nodes) /\ DOMAIN s = 1 .. n
  BY <1>1, SeqDef
<1>3. Len(s) = n
  BY <1>2, LenProperties
<1> QED
  BY <1>2, <1>3 DEF Row, IsInjective

\* The rows' two ends.
LEMMA PlaceFacts ==
  ASSUME NEW s \in Row
  PROVE  /\ \A k \in Int : Place(s, k) \in Pointer
         /\ \A k \in 1 .. Len(s) : Place(s, k) = s[k] /\ Place(s, k) # NULL
         /\ \A k \in Int : k \notin 1 .. Len(s) => Place(s, k) = NULL
BY RowFacts DEF Place, Pointer

-------------------------------------------------------------------------------
(* The loops of adlist.c that follow next or prev *)

\* The field step leads from each node of a row to the next.
Follows(step, s) == \A k \in 1 .. Len(s) : step[s[k]] = Place(s, k + 1)

\* The row from place a on.
Rest(s, a) == [k \in 1 .. Len(s) + 1 - a |-> s[a + k - 1]]

WalkStep(w, first, step, k) ==
    IF k = 0 THEN first ELSE IF w[k - 1] = NULL THEN NULL ELSE step[w[k - 1]]
IsWalk(w, first, step) ==
    w = [k \in 0 .. Cardinality(Nodes) |-> WalkStep(w, first, step, k)]

\* Walk, which follows a field as the loop of listIndex does, as the choice its
\* recursive definition stands for.
LEMMA WalkDef ==
  ASSUME NEW first, NEW step
  PROVE  Walk(first, step) = CHOOSE w : IsWalk(w, first, step)
BY DEF Walk, IsWalk, WalkStep

\* A loop that starts at place i of a row is at place i + k after k steps.
LEMMA WalkAlong ==
  ASSUME NEW s \in Row, NEW step, Follows(step, s),
         NEW a \in 1 .. Len(s) + 1
  PROVE  \A k \in 0 .. Cardinality(Nodes) : Walk(Place(s, a), step)[k] = Place(s, a + k)
<1>1. PICK N \in Nat : N = Cardinality(Nodes)
  BY RowFacts
<1>2. PICK n \in Nat : n = Len(s)
  BY RowFacts
<1>3. PICK first : first = Place(s, a)
  OBVIOUS
<1>4. ASSUME NEW k \in Nat, k > 0
      PROVE  Place(s, a + k) = IF Place(s, a + (k - 1)) = NULL THEN NULL ELSE step[Place(s, a + (k - 1))]
  <2>1. PICK j \in Int : j = a + (k - 1) /\ a + k = j + 1 /\ j >= 1
    BY <1>2, <1>4
  <2>2. CASE j \in 1 .. n
    BY <1>2, <2>1, <2>2, PlaceFacts DEF Follows
  <2>3. CASE j \notin 1 .. n
    BY <1>2, <2>1, <2>3, PlaceFacts
  <2> QED
    BY <2>2, <2>3
<1>5. PICK v : v = [k \in 0 .. N |-> Place(s, a + k)]
  OBVIOUS
<1>6. IsWalk(v, first, step)
  <2>1. ASSUME NEW k \in 0 .. N PROVE v[k] = WalkStep(v, first, step, k)
    <3>1. CASE k = 0
      BY <1>2, <1>3, <1>5, <3>1 DEF WalkStep
    <3>2. CASE k # 0
      <4>1. k - 1 \in 0 .. N /\ k > 0 /\ k \in Nat
        BY <3>2
      <4>2. v[k] = Place(s, a + k) /\ v[k - 1] = Place(s, a + (k - 1))
        BY <1>5, <4>1
      <4> QED
        BY <1>4, <3>2, <4>1, <4>2 DEF WalkStep
    <3> QED
      BY <3>1, <3>2
  <2> QED
    BY <1>1, <1>5, <2>1 DEF IsWalk
<1>7. PICK w : w = Walk(first, step) /\ IsWalk(w, first, step)
  <2>1. IsWalk(CHOOSE u : IsWalk(u, first, step), first, step)
    BY <1>6
  <2> QED
    BY <2>1, WalkDef
<1>8. \A k \in 0 .. N : w[k] = WalkStep(w, first, step, k)
  BY <1>1, <1>7 DEF IsWalk
<1> DEFINE G == {k \in Nat : k <= N => w[k] = Place(s, a + k)}
<1>9. 0 \in G
  BY <1>2, <1>3, <1>8 DEF WalkStep
<1>10. ASSUME NEW k \in Nat, k \in G PROVE k + 1 \in G
  <2> SUFFICES ASSUME k + 1 <= N PROVE w[k + 1] = Place(s, a + (k + 1))
    OBVIOUS
  <2>1. k + 1 \in 0 .. N /\ k + 1 # 0 /\ (k + 1) - 1 = k /\ k <= N /\ k + 1 > 0 /\ k + 1 \in Nat
    OBVIOUS
  <2>2. w[k] = Place(s, a + k)
    BY <1>10, <2>1
  <2>3. w[k + 1] = IF w[k] = NULL THEN NULL ELSE step[w[k]]
    BY <1>8, <2>1 DEF WalkStep
  <2>4. Place(s, a + (k + 1)) = IF Place(s, a + k) = NULL THEN NULL ELSE step[Place(s, a + k)]
    BY <1>4, <2>1
  <2> QED
    BY <2>2, <2>3, <2>4
<1>11. \A k \in Nat : k \in G
  <2> HIDE DEF G
  <2> QED
    BY <1>9, <1>10, Induction
<1> QED
  BY <1>1, <1>3, <1>7, <1>11

\* A loop that starts at place i of a row and stops at NULL meets the rest of it.
LEMMA TraversedRest ==
  ASSUME NEW s \in Row, NEW step, Follows(step, s),
         NEW a \in 1 .. Len(s) + 1
  PROVE  Traversed(Place(s, a), step) = Rest(s, a)
<1>1. PICK N \in Nat : N = Cardinality(Nodes)
  BY RowFacts
<1>2. PICK n \in Nat : n = Len(s) /\ n <= N
  BY <1>1, RowFacts
<1>3. PICK w : w = Walk(Place(s, a), step)
  OBVIOUS
<1>4. \A k \in 0 .. N : w[k] = Place(s, a + k)
  <2>1. \A k \in 0 .. Cardinality(Nodes) : Walk(Place(s, a), step)[k] = Place(s, a + k)
    BY WalkAlong
  <2> QED
    BY <1>1, <1>3, <2>1
<1>5. ASSUME NEW k \in 1 .. N + 1 PROVE w[k - 1] # NULL <=> k \in 1 .. n + 1 - a
  <2>1. k - 1 \in 0 .. N /\ a + (k - 1) \in Int
    BY <1>2
  <2>2. w[k - 1] = Place(s, a + (k - 1))
    BY <1>4, <2>1
  <2>3. a + (k - 1) \in 1 .. n <=> k \in 1 .. n + 1 - a
    BY <1>2
  <2> QED
    BY <1>2, <2>1, <2>2, <2>3, PlaceFacts
<1>6. {j \in 1 .. N + 1 : w[j - 1] # NULL} = 1 .. n + 1 - a
  BY <1>2, <1>5
<1>7. ASSUME NEW k \in 1 .. n + 1 - a PROVE w[k - 1] = s[a + k - 1]
  <2>1. k - 1 \in 0 .. N /\ a + (k - 1) \in 1 .. n /\ a + (k - 1) = a + k - 1
    BY <1>2
  <2>2. w[k - 1] = Place(s, a + (k - 1))
    BY <1>4, <2>1
  <2>3. Place(s, a + (k - 1)) = s[a + (k - 1)]
    BY <1>2, <2>1, PlaceFacts
  <2> QED
    BY <2>1, <2>2, <2>3
<1>8. Traversed(Place(s, a), step) = [k \in {j \in 1 .. N + 1 : w[j - 1] # NULL} |-> w[k - 1]]
  BY <1>1, <1>3 DEF Traversed
<1> QED
  BY <1>2, <1>6, <1>7, <1>8 DEF Rest

\* In heap h the fields of list l and of its nodes chain the row s.
Linked(h, l, s) ==
    /\ h.len[l] = Len(s)
    /\ h.head[l] = Place(s, 1) /\ h.tail[l] = Place(s, Len(s))
    /\ \A k \in 1 .. Len(s) : h.next[s[k]] = Place(s, k + 1) /\ h.prev[s[k]] = Place(s, k - 1)

\* A loop from the first node of a row on meets all of it.
LEMMA TraversedAll ==
  ASSUME NEW s \in Row, NEW step, Follows(step, s)
  PROVE  Traversed(Place(s, 1), step) = s
<1>1. PICK n \in Nat : n = Len(s) /\ DOMAIN s = 1 .. n
  BY RowFacts
<1>2. PICK b \in 1 .. Len(s) + 1 : b = 1
  BY <1>1
<1>3. Traversed(Place(s, b), step) = Rest(s, b)
  BY TraversedRest
<1>4. s = [k \in 1 .. n |-> s[k]]
  BY <1>1 DEF Row
<1>5. Rest(s, b) = [k \in 1 .. n |-> s[k]]
  BY <1>1, <1>2 DEF Rest
<1> QED
  BY <1>2, <1>3, <1>4, <1>5

\* listpretraval meets the row,
LEMMA ForwardWalk ==
  ASSUME NEW h, NEW l, NEW s \in Row, Linked(h, l, s)
  PROVE  Traversed(h.head[l], h.next) = s
<1>1. PICK f : f = h.next
  OBVIOUS
<1>2. Follows(f, s)
  BY <1>1 DEF Linked, Follows
<1>3. Traversed(Place(s, 1), f) = s
  BY <1>2, TraversedAll
<1> QED
  BY <1>1, <1>3 DEF Linked

\* and listposttraval meets it in the other order.
LEMMA Reversed ==
  ASSUME NEW s \in Row
  PROVE  /\ Reverse(s) \in Row /\ Len(Reverse(s)) = Len(s)
         /\ \A k \in 1 .. Len(s) : Reverse(s)[k] = s[Len(s) + 1 - k]
         /\ \A k \in Int : Place(Reverse(s), k) = Place(s, Len(s) + 1 - k)
<1>1. PICK n \in Nat : n = Len(s)
  BY RowFacts
<1>2. PICK r : r = Reverse(s)
  OBVIOUS
<1>3. r = [k \in 1 .. n |-> s[(n - k) + 1]]
  BY <1>1, <1>2 DEF Reverse
<1>4. \A k \in 1 .. n : (n - k) + 1 \in 1 .. n /\ (n - k) + 1 = n + 1 - k
  BY <1>1
<1>5. \A k \in 1 .. n : r[k] = s[n + 1 - k] /\ r[k] \in Nodes
  BY <1>1, <1>3, <1>4, RowFacts
<1>6. \A j, k \in 1 .. n : r[j] = r[k] => j = k
  <2> SUFFICES ASSUME NEW j \in 1 .. n, NEW k \in 1 .. n, r[j] = r[k] PROVE j = k
    OBVIOUS
  <2>1. n + 1 - j \in 1 .. n /\ n + 1 - k \in 1 .. n /\ s[n + 1 - j] = s[n + 1 - k]
    BY <1>5
  <2>2. n + 1 - j = n + 1 - k
    BY <1>1, <2>1, RowFacts
  <2> QED
    BY <2>2
<1>7. r = [k \in 1 .. n |-> r[k]]
  BY <1>3
<1>8. r \in Row /\ Len(r) = n
  BY <1>5, <1>6, <1>7, MakeRow
<1>9. ASSUME NEW k \in Int PROVE Place(r, k) = Place(s, n + 1 - k)
  <2>1. k \in 1 .. n <=> n + 1 - k \in 1 .. n
    BY <1>1
  <2> QED
    BY <1>1, <1>5, <1>8, <2>1 DEF Place
<1> QED
  BY <1>1, <1>2, <1>5, <1>8, <1>9

\* listposttraval, from the tail by prev, meets the row reversed.
LEMMA BackwardWalk ==
  ASSUME NEW h, NEW l, NEW s \in Row, Linked(h, l, s)
  PROVE  Traversed(h.tail[l], h.prev) = Reverse(s)
<1>1. PICK n \in Nat : n = Len(s)
  BY RowFacts
<1>2. PICK f : f = h.prev
  OBVIOUS
<1>3. PICK r \in Row : r = Reverse(s) /\ Len(r) = n
  BY <1>1, Reversed
<1>4. ASSUME NEW k \in 1 .. n PROVE f[r[k]] = Place(r, k + 1)
  <2>0. n + 1 - k \in 1 .. n
    BY <1>1
  <2>1. PICK j \in 1 .. n : j = n + 1 - k
    BY <2>0
  <2>2. r[k] = s[j]
    BY <1>1, <1>3, <2>1, Reversed
  <2>3. f[s[j]] = Place(s, j - 1)
    BY <1>1, <1>2 DEF Linked
  <2>4. Place(r, k + 1) = Place(s, n + 1 - (k + 1)) /\ n + 1 - (k + 1) = j - 1
    BY <1>1, <1>3, <2>1, Reversed
  <2> QED
    BY <2>2, <2>3, <2>4
<1>5. Place(r, 1) = Place(s, n)
  <2>1. Place(r, 1) = Place(s, n + 1 - 1) /\ n + 1 - 1 = n
    BY <1>1, <1>3, Reversed
  <2> QED
    BY <2>1
<1>6. Traversed(Place(r, 1), f) = r
  <2>1. Follows(f, r)
    BY <1>3, <1>4 DEF Follows
  <2> QED
    BY <2>1, TraversedAll
<1> QED
  BY <1>1, <1>2, <1>3, <1>5, <1>6 DEF Linked

-------------------------------------------------------------------------------
(* Rows with a node more and with one less *)

With(s, a, x) ==
    [k \in 1 .. Len(s) + 1 |-> IF k < a THEN s[k] ELSE IF k = a THEN x ELSE s[k - 1]]

Removed(s, a) == [k \in 1 .. Len(s) - 1 |-> IF k < a THEN s[k] ELSE s[k + 1]]

\* The nodes of a row are those at its places.
LEMMA RangeOf ==
  ASSUME NEW s \in Row
  PROVE  \A x : x \in Range(s) <=> \E k \in 1 .. Len(s) : s[k] = x
BY RowFacts DEF Range

\* With one node more, a row is a row.
LEMMA WithRow ==
  ASSUME NEW s \in Row, NEW x \in Nodes, x \notin Range(s), NEW a \in 1 .. Len(s) + 1
  PROVE  /\ With(s, a, x) \in Row /\ Len(With(s, a, x)) = Len(s) + 1
         /\ Range(With(s, a, x)) = Range(s) \cup {x}
<1>1. PICK n \in Nat : n = Len(s)
  BY RowFacts
<1>2. PICK t : t = With(s, a, x)
  OBVIOUS
<1>3. t = [k \in 1 .. n + 1 |-> IF k < a THEN s[k] ELSE IF k = a THEN x ELSE s[k - 1]]
  BY <1>1, <1>2 DEF With
<1>4. /\ \A k \in 1 .. n : k < a => t[k] = s[k]
      /\ t[a] = x
      /\ \A k \in 1 .. n : k >= a => t[k + 1] = s[k]
  BY <1>1, <1>3
<1>5. ASSUME NEW k \in 1 .. n + 1
      PROVE  k = a \/ \E j \in 1 .. n : k = (IF j < a THEN j ELSE j + 1) /\ t[k] = s[j]
  <2>1. CASE k < a
    BY <1>1, <1>4, <2>1
  <2>2. CASE k > a
    <3>1. k - 1 \in 1 .. n /\ ~(k - 1 < a) /\ k = (k - 1) + 1
      BY <1>1, <2>2
    <3>2. t[k] = s[k - 1]
      BY <1>3, <2>2
    <3> QED
      BY <3>1, <3>2
  <2> QED
    BY <1>1, <2>1, <2>2
<1>6. \A k \in 1 .. n : s[k] \in Nodes /\ s[k] # x
  BY <1>1, RowFacts, RangeOf
<1>7. \A k \in 1 .. n + 1 : t[k] \in Nodes
  BY <1>4, <1>5, <1>6
<1>8. ASSUME NEW j \in 1 .. n + 1, NEW k \in 1 .. n + 1, t[j] = t[k] PROVE j = k
  <2>1. CASE j = a
    <3>1. CASE k = a
      BY <2>1, <3>1
    <3>2. CASE k # a
      BY <1>4, <1>5, <1>6, <1>8, <2>1, <3>2
    <3> QED
      BY <3>1, <3>2
  <2>2. CASE k = a /\ j # a
    BY <1>4, <1>5, <1>6, <1>8, <2>2
  <2>3. CASE j # a /\ k # a
    <3>1. PICK p \in 1 .. n : j = (IF p < a THEN p ELSE p + 1) /\ t[j] = s[p]
      BY <1>4, <1>5, <2>3
    <3>2. PICK q \in 1 .. n : k = (IF q < a THEN q ELSE q + 1) /\ t[k] = s[q]
      BY <1>4, <1>5, <2>3
    <3>3. p = q
      BY <1>1, <1>8, <3>1, <3>2, RowFacts
    <3> QED
      BY <3>1, <3>2, <3>3
  <2> QED
    BY <2>1, <2>2, <2>3
<1>9. t = [k \in 1 .. n + 1 |-> t[k]]
  BY <1>3
<1>10. t \in Row /\ Len(t) = n + 1
  <2>1. n + 1 \in Nat
    OBVIOUS
  <2> QED
    BY <1>7, <1>8, <1>9, <2>1, MakeRow
<1>11. ASSUME NEW y PROVE y \in Range(t) <=> y \in Range(s) \cup {x}
  <2>1. ASSUME y \in Range(t) PROVE y \in Range(s) \cup {x}
    <3>1. PICK k \in 1 .. n + 1 : t[k] = y
      BY <1>10, <2>1, RangeOf
    <3> QED
      BY <1>1, <1>4, <1>5, <3>1, RangeOf
  <2>2. ASSUME y \in Range(s) PROVE y \in Range(t)
    <3>1. PICK k \in 1 .. n : s[k] = y
      BY <1>1, <2>2, RangeOf
    <3>2. CASE k < a
      <4>1. k \in 1 .. n + 1 /\ t[k] = y
        BY <1>4, <3>1, <3>2
      <4> QED
        BY <1>10, <4>1, RangeOf
    <3>3. CASE ~(k < a)
      <4>1. k + 1 \in 1 .. n + 1 /\ t[k + 1] = y
        BY <1>1, <1>4, <3>1, <3>3
      <4> QED
        BY <1>10, <4>1, RangeOf
    <3> QED
      BY <3>2, <3>3
  <2>3. x \in Range(t)
    <3>1. a \in 1 .. n + 1 /\ t[a] = x
      BY <1>1, <1>4
    <3> QED
      BY <1>10, <3>1, RangeOf
  <2> QED
    BY <2>1, <2>2, <2>3
<1> QED
  BY <1>1, <1>2, <1>10, <1>11

\* With one node less, too.
LEMMA RemovedRow ==
  ASSUME NEW s \in Row, NEW a \in 1 .. Len(s)
  PROVE  /\ Removed(s, a) \in Row /\ Len(Removed(s, a)) = Len(s) - 1
         /\ Range(Removed(s, a)) = Range(s) \ {s[a]}
<1>1. PICK n \in Nat : n = Len(s)
  BY RowFacts
<1>2. PICK t : t = Removed(s, a)
  OBVIOUS
<1>3. t = [k \in 1 .. n - 1 |-> IF k < a THEN s[k] ELSE s[k + 1]]
  BY <1>1, <1>2 DEF Removed
<1>4. ASSUME NEW k \in 1 .. n - 1
      PROVE  \E j \in 1 .. n : j # a /\ j = (IF k < a THEN k ELSE k + 1) /\ t[k] = s[j]
  BY <1>1, <1>3
<1>5. \A k \in 1 .. n - 1 : t[k] \in Nodes
  BY <1>1, <1>4, RowFacts
<1>6. ASSUME NEW j \in 1 .. n - 1, NEW k \in 1 .. n - 1, t[j] = t[k] PROVE j = k
  <2>1. PICK p \in 1 .. n : p = (IF j < a THEN j ELSE j + 1) /\ t[j] = s[p]
    BY <1>4
  <2>2. PICK q \in 1 .. n : q = (IF k < a THEN k ELSE k + 1) /\ t[k] = s[q]
    BY <1>4
  <2>3. p = q
    BY <1>1, <1>6, <2>1, <2>2, RowFacts
  <2> QED
    BY <1>1, <2>1, <2>2, <2>3
<1>7. t \in Row /\ Len(t) = n - 1
  <2>1. n - 1 \in Nat
    BY <1>1
  <2>2. t = [k \in 1 .. n - 1 |-> t[k]]
    BY <1>3
  <2> QED
    BY <1>5, <1>6, <2>1, <2>2, MakeRow
<1>8. ASSUME NEW y PROVE y \in Range(t) <=> y \in Range(s) \ {s[a]}
  <2>1. ASSUME y \in Range(t) PROVE y \in Range(s) \ {s[a]}
    <3>1. PICK k \in 1 .. n - 1 : t[k] = y
      BY <1>7, <2>1, RangeOf
    <3>2. PICK j \in 1 .. n : j # a /\ s[j] = y
      BY <1>4, <3>1
    <3>3. y \in Range(s)
      BY <1>1, <3>2, RangeOf
    <3>4. y # s[a]
      BY <1>1, <3>2, RowFacts
    <3> QED
      BY <3>3, <3>4
  <2>2. ASSUME y \in Range(s) \ {s[a]} PROVE y \in Range(t)
    <3>1. PICK k \in 1 .. n : s[k] = y /\ k # a
      BY <1>1, <2>2, RangeOf
    <3>2. PICK j \in 1 .. n - 1 : k = IF j < a THEN j ELSE j + 1
      <4>1. CASE k < a
        BY <1>1, <4>1
      <4>2. CASE k > a
        <5>1. k - 1 \in 1 .. n - 1 /\ ~(k - 1 < a) /\ k = (k - 1) + 1
          BY <1>1, <4>2
        <5> QED
          BY <5>1
      <4> QED
        BY <1>1, <3>1, <4>1, <4>2
    <3>3. t[j] = y
      BY <1>3, <3>1, <3>2
    <3> QED
      BY <1>7, <3>3, RangeOf
  <2> QED
    BY <2>1, <2>2
<1> QED
  BY <1>1, <1>2, <1>7, <1>8

-------------------------------------------------------------------------------
(* What the operations do to the links *)

Heap == [prev : [Nodes -> Pointer], next : [Nodes -> Pointer],
         value : [Nodes -> Elements \cup {NULL}],
         head : [Lists -> Pointer], tail : [Lists -> Pointer], len : [Lists -> Int]]

\* g is h with the node x put between p and q in list l.
Spliced(h, g, l, x, p, q) ==
    /\ g.next[x] = q /\ g.prev[x] = p
    /\ \A n \in Nodes \ {x} : /\ g.next[n] = IF n = p THEN x ELSE h.next[n]
                             /\ g.prev[n] = IF n = q THEN x ELSE h.prev[n]
    /\ g.head[l] = IF p = NULL THEN x ELSE h.head[l]
    /\ g.tail[l] = IF q = NULL THEN x ELSE h.tail[l]
    /\ g.len[l] = h.len[l] + 1
    /\ \A m \in Lists \ {l} :
          g.head[m] = h.head[m] /\ g.tail[m] = h.tail[m] /\ g.len[m] = h.len[m]

\* g is h with the node x, which was between p and q, taken out of list l.
Cut(h, g, l, x, p, q) ==
    /\ \A n \in Nodes \ {x} : /\ g.next[n] = IF n = p THEN q ELSE h.next[n]
                             /\ g.prev[n] = IF n = q THEN p ELSE h.prev[n]
    /\ g.head[l] = IF p = NULL THEN q ELSE h.head[l]
    /\ g.tail[l] = IF q = NULL THEN p ELSE h.tail[l]
    /\ g.len[l] = h.len[l] - 1
    /\ \A m \in Lists \ {l} :
          g.head[m] = h.head[m] /\ g.tail[m] = h.tail[m] /\ g.len[m] = h.len[m]

\* The places of the row with the new node.
LEMMA WithPlaces ==
  ASSUME NEW s \in Row, NEW x \in Nodes, x \notin Range(s), NEW a \in 1 .. Len(s) + 1
  PROVE  /\ Place(With(s, a, x), a) = x
         /\ \A k \in Int : k < a => Place(With(s, a, x), k) = Place(s, k)
         /\ \A k \in Int : k > a => Place(With(s, a, x), k) = Place(s, k - 1)
<1>1. PICK n \in Nat : n = Len(s)
  BY RowFacts
<1>2. PICK t : t = With(s, a, x)
  OBVIOUS
<1>3. t = [k \in 1 .. n + 1 |-> IF k < a THEN s[k] ELSE IF k = a THEN x ELSE s[k - 1]]
  BY <1>1, <1>2 DEF With
<1>4. Len(t) = n + 1
  BY <1>1, <1>2, WithRow
<1>5. Place(t, a) = x
  BY <1>1, <1>3, <1>4 DEF Place
<1>6. ASSUME NEW k \in Int, k < a PROVE Place(t, k) = Place(s, k)
  BY <1>1, <1>3, <1>4, <1>6 DEF Place
<1>7. ASSUME NEW k \in Int, k > a PROVE Place(t, k) = Place(s, k - 1)
  <2>1. k \in 1 .. n + 1 <=> k - 1 \in 1 .. n
    BY <1>1, <1>7
  <2>2. CASE k \in 1 .. n + 1
    <3>1. t[k] = s[k - 1]
      BY <1>3, <1>7, <2>2
    <3> QED
      BY <1>1, <1>4, <2>1, <2>2, <3>1 DEF Place
  <2>3. CASE k \notin 1 .. n + 1
    BY <1>1, <1>4, <2>1, <2>3 DEF Place
  <2> QED
    BY <2>2, <2>3
<1> QED
  BY <1>2, <1>5, <1>6, <1>7

\* The fields written when a node goes in between its neighbours chain the row
\* with it.
LEMMA SplicedLinked ==
  ASSUME NEW h, NEW g, NEW l, NEW s \in Row, Linked(h, l, s), NEW x \in Nodes, x \notin Range(s),
         NEW a \in 1 .. Len(s) + 1, Spliced(h, g, l, x, Place(s, a - 1), Place(s, a))
  PROVE  Linked(g, l, With(s, a, x))
<1>1. PICK n \in Nat : n = Len(s)
  BY RowFacts
<1>2. PICK t \in Row : t = With(s, a, x) /\ Len(t) = n + 1
  BY <1>1, WithRow
<1>3. /\ Place(t, a) = x
      /\ \A k \in Int : k < a => Place(t, k) = Place(s, k)
      /\ \A k \in Int : k > a => Place(t, k) = Place(s, k - 1)
  BY <1>2, WithPlaces
<1>4. /\ \A k \in 1 .. n : Place(s, k) = s[k] /\ s[k] # NULL /\ s[k] # x /\ s[k] \in Nodes
      /\ \A k \in Int : k \notin 1 .. n => Place(s, k) = NULL
      /\ \A j, k \in 1 .. n : s[j] = s[k] => j = k
  BY <1>1, PlaceFacts, RowFacts, RangeOf
<1>5. a - 1 \in Int /\ a \in Int /\ a \in 1 .. n + 1
  BY <1>1
<1>6. g.len[l] = Len(t)
  BY <1>1, <1>2 DEF Linked, Spliced
<1>7. g.head[l] = Place(t, 1)
  <2>1. CASE a = 1
    BY <1>3, <1>4, <2>1 DEF Spliced
  <2>2. CASE a > 1
    <3>1. a - 1 \in 1 .. n
      BY <1>5, <2>2
    <3> QED
      BY <1>3, <1>4, <2>2, <3>1 DEF Spliced, Linked
  <2> QED
    BY <1>5, <2>1, <2>2
<1>8. g.tail[l] = Place(t, Len(t))
  <2>1. CASE a = n + 1
    BY <1>2, <1>3, <1>4, <2>1 DEF Spliced
  <2>2. CASE a < n + 1
    <3>1. a \in 1 .. n /\ n + 1 > a /\ (n + 1) - 1 = n
      BY <1>5, <2>2
    <3>2. Place(t, n + 1) = Place(s, n)
      BY <1>3, <3>1
    <3> QED
      BY <1>1, <1>2, <1>4, <3>1, <3>2 DEF Spliced, Linked
  <2> QED
    BY <1>5, <2>1, <2>2
<1>9. ASSUME NEW k \in 1 .. n + 1
      PROVE  g.next[t[k]] = Place(t, k + 1) /\ g.prev[t[k]] = Place(t, k - 1)
  <2>1. t[k] = Place(t, k)
    BY <1>2, PlaceFacts
  <2>2. CASE k = a
    <3>1. Place(t, k + 1) = Place(s, a) /\ Place(t, k - 1) = Place(s, a - 1)
      <4>1. k + 1 > a /\ (k + 1) - 1 = a /\ k - 1 < a /\ k - 1 = a - 1 /\ k + 1 \in Int /\ k - 1 \in Int
        BY <1>5, <2>2
      <4> QED
        BY <1>3, <4>1
    <3> QED
      BY <1>3, <2>1, <2>2, <3>1 DEF Spliced
  <2>3. CASE k < a
    <3>1. k \in 1 .. n /\ k - 1 < a /\ k - 1 \in Int /\ k + 1 \in Int
      BY <1>5, <2>3
    <3>2. t[k] = s[k] /\ Place(t, k - 1) = Place(s, k - 1)
      BY <1>3, <1>4, <2>1, <2>3, <3>1
    <3>3. h.next[s[k]] = Place(s, k + 1) /\ h.prev[s[k]] = Place(s, k - 1)
      BY <1>1, <3>1 DEF Linked
    <3>4. s[k] # Place(s, a)
      <4>1. CASE a \in 1 .. n
        BY <1>4, <2>3, <3>1, <4>1
      <4>2. CASE a \notin 1 .. n
        BY <1>4, <1>5, <3>1, <4>2
      <4> QED
        BY <4>1, <4>2
    <3>5. g.prev[s[k]] = h.prev[s[k]]
      BY <1>4, <3>1, <3>4 DEF Spliced
    <3>6. g.next[s[k]] = Place(t, k + 1)
      <4>1. CASE k = a - 1
        <5>1. s[k] = Place(s, a - 1) /\ k + 1 = a
          BY <1>4, <3>1, <4>1
        <5> QED
          BY <1>3, <1>4, <3>1, <5>1 DEF Spliced
      <4>2. CASE k # a - 1
        <5>1. k + 1 < a /\ a - 1 \in 1 .. n
          BY <1>5, <2>3, <4>2
        <5>2. s[k] # Place(s, a - 1)
          BY <1>4, <3>1, <4>2, <5>1
        <5>3. g.next[s[k]] = h.next[s[k]]
          BY <1>4, <3>1, <5>2 DEF Spliced
        <5> QED
          BY <1>3, <3>1, <3>3, <5>1, <5>3
      <4> QED
        BY <4>1, <4>2
    <3> QED
      BY <3>2, <3>3, <3>5, <3>6
  <2>4. CASE k > a
    <3>1. PICK j \in 1 .. n : j = k - 1
      <4>1. k - 1 \in 1 .. n
        BY <1>5, <2>4
      <4> QED
        BY <4>1
    <3>2. t[k] = s[j] /\ Place(t, k + 1) = Place(s, j + 1)
      <4>1. k + 1 > a /\ (k + 1) - 1 = j + 1 /\ k + 1 \in Int /\ k \in Int
        BY <1>5, <2>4, <3>1
      <4> QED
        BY <1>3, <1>4, <2>1, <2>4, <3>1, <4>1
    <3>3. h.next[s[j]] = Place(s, j + 1) /\ h.prev[s[j]] = Place(s, j - 1)
      BY <1>1 DEF Linked
    <3>4. s[j] # Place(s, a - 1)
      <4>1. CASE a - 1 \in 1 .. n
        BY <1>4, <1>5, <2>4, <3>1, <4>1
      <4>2. CASE a - 1 \notin 1 .. n
        BY <1>4, <1>5, <3>1, <4>2
      <4> QED
        BY <4>1, <4>2
    <3>5. g.next[s[j]] = h.next[s[j]]
      BY <1>4, <3>4 DEF Spliced
    <3>6. g.prev[s[j]] = Place(t, k - 1)
      <4>1. CASE j = a
        <5>1. s[j] = Place(s, a) /\ k - 1 = a
          BY <1>4, <3>1, <4>1
        <5> QED
          BY <1>3, <1>4, <5>1 DEF Spliced
      <4>2. CASE j # a
        <5>1. k - 1 > a /\ a \in 1 .. n /\ (k - 1) - 1 = j - 1 /\ k - 1 \in Int
          BY <1>5, <2>4, <3>1, <4>2
        <5>2. s[j] # Place(s, a)
          BY <1>4, <4>2, <5>1
        <5>3. g.prev[s[j]] = h.prev[s[j]]
          BY <1>4, <5>2 DEF Spliced
        <5>4. Place(t, k - 1) = Place(s, j - 1)
          BY <1>3, <5>1
        <5> QED
          BY <3>3, <5>3, <5>4
      <4> QED
        BY <4>1, <4>2
    <3> QED
      BY <3>2, <3>3, <3>5, <3>6
  <2> QED
    BY <1>5, <2>2, <2>3, <2>4
<1> QED
  BY <1>2, <1>6, <1>7, <1>8, <1>9 DEF Linked

\* The places of the row without one of its nodes.
LEMMA RemovedPlaces ==
  ASSUME NEW s \in Row, NEW a \in 1 .. Len(s)
  PROVE  /\ \A k \in Int : k < a => Place(Removed(s, a), k) = Place(s, k)
         /\ \A k \in Int : k >= a => Place(Removed(s, a), k) = Place(s, k + 1)
<1>1. PICK n \in Nat : n = Len(s)
  BY RowFacts
<1>2. PICK t : t = Removed(s, a)
  OBVIOUS
<1>3. t = [k \in 1 .. n - 1 |-> IF k < a THEN s[k] ELSE s[k + 1]]
  BY <1>1, <1>2 DEF Removed
<1>4. Len(t) = n - 1
  BY <1>1, <1>2, RemovedRow
<1>5. ASSUME NEW k \in Int, k < a PROVE Place(t, k) = Place(s, k)
  BY <1>1, <1>3, <1>4, <1>5 DEF Place
<1>6. ASSUME NEW k \in Int, k >= a PROVE Place(t, k) = Place(s, k + 1)
  <2>1. k \in 1 .. n - 1 <=> k + 1 \in 1 .. n
    BY <1>1, <1>6
  <2>2. CASE k \in 1 .. n - 1
    <3>1. t[k] = s[k + 1]
      BY <1>1, <1>3, <1>6, <2>2
    <3> QED
      BY <1>1, <1>4, <2>1, <2>2, <3>1 DEF Place
  <2>3. CASE k \notin 1 .. n - 1
    BY <1>1, <1>4, <2>1, <2>3 DEF Place
  <2> QED
    BY <2>2, <2>3
<1> QED
  BY <1>2, <1>5, <1>6

\* The fields listDelNode writes chain the row without the node.
LEMMA CutLinked ==
  ASSUME NEW h, NEW g, NEW l, NEW s \in Row, Linked(h, l, s), NEW a \in 1 .. Len(s),
         Cut(h, g, l, s[a], Place(s, a - 1), Place(s, a + 1))
  PROVE  Linked(g, l, Removed(s, a))
<1>1. PICK n \in Nat : n = Len(s)
  BY RowFacts
<1>2. PICK t \in Row : t = Removed(s, a) /\ Len(t) = n - 1
  BY <1>1, RemovedRow
<1>3. /\ \A k \in Int : k < a => Place(t, k) = Place(s, k)
      /\ \A k \in Int : k >= a => Place(t, k) = Place(s, k + 1)
  BY <1>2, RemovedPlaces
<1>4. /\ \A k \in 1 .. n : Place(s, k) = s[k] /\ s[k] # NULL /\ s[k] \in Nodes
      /\ \A k \in Int : k \notin 1 .. n => Place(s, k) = NULL
      /\ \A j, k \in 1 .. n : s[j] = s[k] => j = k
  BY <1>1, PlaceFacts, RowFacts
<1>5. a - 1 \in Int /\ a \in Int /\ a \in 1 .. n /\ a + 1 \in Int
  BY <1>1
<1>6. g.len[l] = Len(t)
  BY <1>1, <1>2 DEF Linked, Cut
<1>7. g.head[l] = Place(t, 1)
  <2>1. CASE a = 1
    <3>1. Place(s, a - 1) = NULL /\ Place(t, 1) = Place(s, a + 1)
      BY <1>3, <1>4, <2>1
    <3> QED
      BY <3>1 DEF Cut
  <2>2. CASE a > 1
    <3>1. a - 1 \in 1 .. n
      BY <1>5, <2>2
    <3>2. Place(s, a - 1) # NULL
      BY <1>4, <3>1
    <3>3. Place(t, 1) = Place(s, 1)
      BY <1>3, <2>2
    <3>4. g.head[l] = h.head[l]
      BY <3>2 DEF Cut
    <3> QED
      BY <3>3, <3>4 DEF Linked
  <2> QED
    BY <1>5, <2>1, <2>2
<1>8. g.tail[l] = Place(t, Len(t))
  <2>1. CASE a = n
    <3>1. Place(s, a + 1) = NULL /\ Place(t, n - 1) = Place(s, a - 1)
      BY <1>3, <1>4, <1>5, <2>1
    <3> QED
      BY <1>2, <3>1 DEF Cut
  <2>2. CASE a < n
    <3>1. a + 1 \in 1 .. n /\ n - 1 >= a /\ (n - 1) + 1 = n /\ n - 1 \in Int
      BY <1>5, <2>2
    <3>2. Place(t, n - 1) = Place(s, n)
      BY <1>3, <3>1
    <3> QED
      BY <1>1, <1>2, <1>4, <3>1, <3>2 DEF Cut, Linked
  <2> QED
    BY <1>5, <2>1, <2>2
<1>9. ASSUME NEW k \in 1 .. n - 1
      PROVE  g.next[t[k]] = Place(t, k + 1) /\ g.prev[t[k]] = Place(t, k - 1)
  <2>1. t[k] = Place(t, k)
    BY <1>2, PlaceFacts
  <2>2. CASE k < a
    <3>1. k \in 1 .. n /\ k - 1 < a /\ k - 1 \in Int /\ k + 1 \in Int
      BY <1>5, <2>2
    <3>2. t[k] = s[k] /\ Place(t, k - 1) = Place(s, k - 1)
      <4>0. Place(t, k - 1) = Place(s, k - 1)
        BY <1>3, <3>1
      <4>1. Place(t, k) = Place(s, k)
        BY <1>3, <2>2, <3>1
      <4>2. Place(s, k) = s[k]
        BY <1>4, <3>1
      <4> QED
        BY <2>1, <4>0, <4>1, <4>2
    <3>3. h.next[s[k]] = Place(s, k + 1) /\ h.prev[s[k]] = Place(s, k - 1)
      BY <1>1, <3>1 DEF Linked
    <3>4. s[k] # Place(s, a + 1)
      <4>1. CASE a + 1 \in 1 .. n
        BY <1>4, <1>5, <2>2, <3>1, <4>1
      <4>2. CASE a + 1 \notin 1 .. n
        BY <1>4, <1>5, <3>1, <4>2
      <4> QED
        BY <4>1, <4>2
    <3>5. s[k] # s[a]
      BY <1>4, <1>5, <2>2, <3>1
    <3>6. g.prev[s[k]] = h.prev[s[k]]
      BY <1>4, <3>1, <3>4, <3>5 DEF Cut
    <3>7. g.next[s[k]] = Place(t, k + 1)
      <4>1. CASE k = a - 1
        <5>1. s[k] = Place(s, a - 1) /\ k + 1 = a /\ k + 1 >= a
          BY <1>4, <3>1, <4>1
        <5>2. Place(t, k + 1) = Place(s, a + 1)
          BY <1>3, <1>5, <5>1
        <5> QED
          BY <1>4, <3>1, <3>5, <5>1, <5>2 DEF Cut
      <4>2. CASE k # a - 1
        <5>1. k + 1 < a /\ a - 1 \in 1 .. n
          BY <1>5, <2>2, <4>2
        <5>2. s[k] # Place(s, a - 1)
          BY <1>4, <3>1, <4>2, <5>1
        <5>3. g.next[s[k]] = h.next[s[k]]
          BY <1>4, <3>1, <3>5, <5>2 DEF Cut
        <5> QED
          BY <1>3, <3>1, <3>3, <5>1, <5>3
      <4> QED
        BY <4>1, <4>2
    <3> QED
      BY <3>2, <3>3, <3>6, <3>7
  <2>3. CASE k >= a
    <3>1. PICK j \in 1 .. n : j = k + 1
      <4>1. k + 1 \in 1 .. n
        BY <1>1
      <4> QED
        BY <4>1
    <3>2. t[k] = s[j] /\ Place(t, k + 1) = Place(s, j + 1)
      <4>1. k + 1 >= a /\ (k + 1) + 1 = j + 1 /\ k + 1 \in Int /\ k \in Int
        BY <1>5, <2>3, <3>1
      <4> QED
        BY <1>3, <1>4, <2>1, <2>3, <3>1, <4>1
    <3>3. h.next[s[j]] = Place(s, j + 1) /\ h.prev[s[j]] = Place(s, j - 1)
      BY <1>1 DEF Linked
    <3>4. s[j] # Place(s, a - 1)
      <4>1. CASE a - 1 \in 1 .. n
        BY <1>4, <1>5, <2>3, <3>1, <4>1
      <4>2. CASE a - 1 \notin 1 .. n
        BY <1>4, <1>5, <3>1, <4>2
      <4> QED
        BY <4>1, <4>2
    <3>5. s[j] # s[a]
      BY <1>4, <1>5, <2>3, <3>1
    <3>6. g.next[s[j]] = h.next[s[j]]
      BY <1>4, <3>4, <3>5 DEF Cut
    <3>7. g.prev[s[j]] = Place(t, k - 1)
      <4>1. CASE k = a
        <5>1. s[j] = Place(s, a + 1) /\ k - 1 = a - 1 /\ k - 1 < a
          BY <1>4, <1>5, <3>1, <4>1
        <5>2. Place(t, k - 1) = Place(s, a - 1)
          BY <1>3, <1>5, <5>1
        <5> QED
          BY <1>4, <3>5, <5>1, <5>2 DEF Cut
      <4>2. CASE k # a
        <5>1. k - 1 >= a /\ a + 1 \in 1 .. n /\ (k - 1) + 1 = j - 1 /\ k - 1 \in Int /\ j # a + 1
          BY <1>5, <2>3, <3>1, <4>2
        <5>2. s[j] # Place(s, a + 1)
          BY <1>4, <5>1
        <5>3. g.prev[s[j]] = h.prev[s[j]]
          BY <1>4, <3>5, <5>2 DEF Cut
        <5>4. Place(t, k - 1) = Place(s, j - 1)
          BY <1>3, <5>1
        <5> QED
          BY <3>3, <5>3, <5>4
      <4> QED
        BY <4>1, <4>2
    <3> QED
      BY <3>2, <3>3, <3>6, <3>7
  <2> QED
    BY <1>5, <2>2, <2>3
<1> QED
  BY <1>2, <1>6, <1>7, <1>8, <1>9 DEF Linked

\* A row none of whose nodes and ends changes is linked as before.
LEMMA Elsewhere ==
  ASSUME NEW h, NEW g, NEW m, NEW s \in Row, Linked(h, m, s),
         g.head[m] = h.head[m], g.tail[m] = h.tail[m], g.len[m] = h.len[m],
         \A k \in 1 .. Len(s) : g.next[s[k]] = h.next[s[k]] /\ g.prev[s[k]] = h.prev[s[k]]
  PROVE  Linked(g, m, s)
BY DEF Linked

\* Putting a node into one list or taking it out leaves the others alone.
LEMMA OthersLinked ==
  ASSUME NEW h, NEW g, NEW l, NEW s \in Row, NEW m \in Lists, m # l, NEW t \in Row, Linked(h, m, t),
         Range(s) \cap Range(t) = {}, NEW x \in Nodes, x \notin Range(t), NEW i \in Int, NEW j \in Int,
         \/ Spliced(h, g, l, x, Place(s, i), Place(s, j))
         \/ Cut(h, g, l, x, Place(s, i), Place(s, j))
  PROVE  Linked(g, m, t)
<1>1. ASSUME NEW k \in 1 .. Len(t), NEW a \in Int PROVE t[k] # Place(s, a)
  <2>1. t[k] \in Range(t) /\ t[k] # NULL
    BY RowFacts, RangeOf
  <2>2. CASE a \in 1 .. Len(s)
    <3>1. Place(s, a) \in Range(s)
      BY <2>2, PlaceFacts, RangeOf
    <3> QED
      BY <2>1, <3>1
  <2>3. CASE a \notin 1 .. Len(s)
    BY <2>1, <2>3, PlaceFacts
  <2> QED
    BY <2>2, <2>3
<1>2. ASSUME NEW k \in 1 .. Len(t) PROVE t[k] \in Nodes /\ t[k] # x
  BY RowFacts, RangeOf
<1>3. \A k \in 1 .. Len(t) : g.next[t[k]] = h.next[t[k]] /\ g.prev[t[k]] = h.prev[t[k]]
  <2>1. CASE Spliced(h, g, l, x, Place(s, i), Place(s, j))
    BY <1>1, <1>2, <2>1 DEF Spliced
  <2>2. CASE Cut(h, g, l, x, Place(s, i), Place(s, j))
    BY <1>1, <1>2, <2>2 DEF Cut
  <2> QED
    BY <2>1, <2>2
<1>4. g.head[m] = h.head[m] /\ g.tail[m] = h.tail[m] /\ g.len[m] = h.len[m]
  BY DEF Spliced, Cut
<1> QED
  BY <1>3, <1>4, Elsewhere

\* The rows R are the lists of heap h, and together they have the nodes N.
Rowed(h, N, R) ==
    /\ R \in [Lists -> Row]
    /\ \A l \in Lists : Linked(h, l, R[l])
    /\ \A l, m \in Lists : l # m => Range(R[l]) \cap Range(R[m]) = {}
    /\ N \subseteq Nodes
    /\ \A x \in Nodes : x \in N <=> \E l \in Lists : x \in Range(R[l])

\* The rows R with the one of list l replaced.
Put(R, l, s) == [m \in Lists |-> IF m = l THEN s ELSE R[m]]

\* A list is given another row, and the others stay as they are.
LEMMA PutRowed ==
  ASSUME NEW h, NEW N, NEW R, Rowed(h, N, R), NEW l \in Lists, NEW s \in Row,
         NEW g, Linked(g, l, s), \A m \in Lists : m # l => Linked(g, m, R[m]),
         \A x \in Range(s) : x \in Range(R[l]) \/ x \notin N
  PROVE  Rowed(g, (N \ Range(R[l])) \cup Range(s), Put(R, l, s))
<1>1. PICK Q : Q = Put(R, l, s)
  OBVIOUS
<1>2. Q \in [Lists -> Row] /\ Q[l] = s /\ \A m \in Lists : m # l => Q[m] = R[m]
  BY <1>1 DEF Put, Rowed
<1>3. ASSUME NEW m \in Lists PROVE Linked(g, m, Q[m])
  <2>1. CASE m = l
    BY <1>2, <2>1
  <2>2. CASE m # l
    BY <1>2, <2>2
  <2> QED
    BY <2>1, <2>2
<1>4. ASSUME NEW m \in Lists PROVE Range(R[m]) \subseteq N
  <2>1. R[m] \in Row
    BY DEF Rowed
  <2>2. Range(R[m]) \subseteq Nodes
    BY <2>1, RangeOf, RowFacts
  <2> QED
    BY <2>2 DEF Rowed
<1>5. ASSUME NEW m \in Lists, m # l PROVE Range(R[m]) \cap Range(s) = {}
  <2>1. Range(R[m]) \cap Range(R[l]) = {}
    BY <1>5 DEF Rowed
  <2> QED
    BY <1>4, <2>1
<1>6. ASSUME NEW k \in Lists, NEW m \in Lists, k # m PROVE Range(Q[k]) \cap Range(Q[m]) = {}
  <2>1. CASE k = l
    BY <1>2, <1>5, <1>6, <2>1
  <2>2. CASE m = l
    BY <1>2, <1>5, <1>6, <2>2
  <2>3. CASE k # l /\ m # l
    BY <1>2, <1>6, <2>3 DEF Rowed
  <2> QED
    BY <2>1, <2>2, <2>3
<1>7. Range(s) \subseteq Nodes
  BY RangeOf, RowFacts
<1>8. PICK B : B = (N \ Range(R[l])) \cup Range(s)
  OBVIOUS
<1>9. B \subseteq Nodes
  BY <1>7, <1>8 DEF Rowed
<1>10. ASSUME NEW x \in Nodes PROVE x \in B <=> \E m \in Lists : x \in Range(Q[m])
  <2>1. ASSUME x \in Range(s) PROVE \E m \in Lists : x \in Range(Q[m])
    BY <1>2, <2>1
  <2>2. ASSUME x \in N, x \notin Range(R[l]) PROVE \E m \in Lists : x \in Range(Q[m])
    <3>1. PICK m \in Lists : x \in Range(R[m])
      BY <2>2 DEF Rowed
    <3>2. m # l
      BY <2>2, <3>1
    <3> QED
      BY <1>2, <3>1, <3>2
  <2>3. ASSUME NEW m \in Lists, x \in Range(Q[m]) PROVE x \in B
    <3>1. CASE m = l
      BY <1>2, <1>8, <2>3, <3>1
    <3>2. CASE m # l
      <4>1. x \in Range(R[m]) /\ x \in N
        BY <1>2, <1>4, <2>3, <3>2
      <4>2. x \notin Range(R[l])
        BY <3>2, <4>1 DEF Rowed
      <4> QED
        BY <1>8, <4>1, <4>2
    <3> QED
      BY <3>1, <3>2
  <2> QED
    BY <1>8, <2>1, <2>2, <2>3
<1>11. Rowed(g, B, Q)
  BY <1>2, <1>3, <1>6, <1>9, <1>10 DEF Rowed
<1> QED
  BY <1>1, <1>8, <1>11

\* A node that is in no list is put into one of them.
LEMMA PutIn ==
  ASSUME NEW h, NEW N, NEW R, Rowed(h, N, R), NEW l \in Lists, NEW s, s = R[l],
         NEW x \in Nodes, x \notin N, NEW a \in 1 .. Len(s) + 1,
         NEW g, Spliced(h, g, l, x, Place(s, a - 1), Place(s, a))
  PROVE  Rowed(g, N \cup {x}, Put(R, l, With(s, a, x)))
<1>1. s \in Row /\ Linked(h, l, s)
  BY DEF Rowed
<1>2. Range(s) \subseteq N
  <2>1. Range(s) \subseteq Nodes
    BY <1>1, RangeOf, RowFacts
  <2> QED
    BY <2>1 DEF Rowed
<1>3. x \notin Range(s)
  BY <1>2
<1>4. PICK t \in Row : t = With(s, a, x) /\ Range(t) = Range(s) \cup {x}
  BY <1>1, <1>3, WithRow
<1>5. Linked(g, l, t)
  BY <1>1, <1>3, <1>4, SplicedLinked
<1>6. PICK i \in Int, j \in Int : i = a - 1 /\ j = a
  <2>1. a \in Int /\ a - 1 \in Int
    BY <1>1, RowFacts
  <2> QED
    BY <2>1
<1>7. ASSUME NEW m \in Lists, m # l PROVE Linked(g, m, R[m])
  <2>1. PICK r \in Row : r = R[m]
    BY DEF Rowed
  <2>2. Linked(h, m, r) /\ Range(s) \cap Range(r) = {}
    BY <1>7, <2>1 DEF Rowed
  <2>3. x \notin Range(r)
    BY <2>1 DEF Rowed
  <2>4. Spliced(h, g, l, x, Place(s, i), Place(s, j))
    BY <1>6
  <2>5. Linked(g, m, r)
    BY <1>1, <1>7, <2>2, <2>3, <2>4, OthersLinked
  <2> QED
    BY <2>1, <2>5
<1>8. \A y \in Range(t) : y \in Range(R[l]) \/ y \notin N
  BY <1>4
<1>9. Rowed(g, (N \ Range(R[l])) \cup Range(t), Put(R, l, t))
  BY <1>5, <1>7, <1>8, PutRowed
<1>10. (N \ Range(R[l])) \cup Range(t) = N \cup {x}
  BY <1>2, <1>4
<1> QED
  BY <1>4, <1>9, <1>10

\* A node is taken out of its list.
LEMMA TakeOut ==
  ASSUME NEW h, NEW N, NEW R, Rowed(h, N, R), NEW l \in Lists, NEW s, s = R[l],
         NEW a \in 1 .. Len(s),
         NEW g, Cut(h, g, l, s[a], Place(s, a - 1), Place(s, a + 1))
  PROVE  Rowed(g, N \ {s[a]}, Put(R, l, Removed(s, a)))
<1>1. s \in Row /\ Linked(h, l, s)
  BY DEF Rowed
<1>2. PICK x \in Nodes : x = s[a]
  BY <1>1, RowFacts
<1>3. Range(s) \subseteq N /\ x \in Range(s)
  <2>1. Range(s) \subseteq Nodes
    BY <1>1, RangeOf, RowFacts
  <2> QED
    BY <1>1, <1>2, <2>1, RangeOf DEF Rowed
<1>4. PICK t \in Row : t = Removed(s, a) /\ Range(t) = Range(s) \ {x}
  BY <1>1, <1>2, RemovedRow
<1>5. Linked(g, l, t)
  BY <1>1, <1>4, CutLinked
<1>6. PICK i \in Int, j \in Int : i = a - 1 /\ j = a + 1
  <2>1. a + 1 \in Int /\ a - 1 \in Int
    BY <1>1, RowFacts
  <2> QED
    BY <2>1
<1>7. ASSUME NEW m \in Lists, m # l PROVE Linked(g, m, R[m])
  <2>1. PICK r \in Row : r = R[m]
    BY DEF Rowed
  <2>2. Linked(h, m, r) /\ Range(s) \cap Range(r) = {}
    BY <1>7, <2>1 DEF Rowed
  <2>3. x \notin Range(r)
    BY <1>3, <2>2
  <2>4. Cut(h, g, l, x, Place(s, i), Place(s, j))
    BY <1>2, <1>6
  <2>5. Linked(g, m, r)
    BY <1>1, <1>7, <2>2, <2>3, <2>4, OthersLinked
  <2> QED
    BY <2>1, <2>5
<1>8. \A y \in Range(t) : y \in Range(R[l]) \/ y \notin N
  BY <1>4
<1>9. Rowed(g, (N \ Range(R[l])) \cup Range(t), Put(R, l, t))
  BY <1>5, <1>7, <1>8, PutRowed
<1>10. (N \ Range(R[l])) \cup Range(t) = N \ {x}
  BY <1>3, <1>4
<1> QED
  BY <1>2, <1>4, <1>9, <1>10

-------------------------------------------------------------------------------
(* Each operation on the heap *)

Value == Elements \cup {NULL}

\* The fields of a heap have their types.
LEMMA HeapFields ==
  ASSUME NEW h \in Heap
  PROVE  /\ h.prev \in [Nodes -> Pointer] /\ h.next \in [Nodes -> Pointer] /\ h.value \in [Nodes -> Value]
         /\ h.head \in [Lists -> Pointer] /\ h.tail \in [Lists -> Pointer] /\ h.len \in [Lists -> Int]
BY DEF Heap, Value

\* Typed fields make a heap.
LEMMA MakeHeap ==
  ASSUME NEW P \in [Nodes -> Pointer], NEW X \in [Nodes -> Pointer], NEW V \in [Nodes -> Value],
         NEW H \in [Lists -> Pointer], NEW T \in [Lists -> Pointer], NEW K \in [Lists -> Int]
  PROVE  [prev |-> P, next |-> X, value |-> V, head |-> H, tail |-> T, len |-> K] \in Heap
BY DEF Heap, Value

\* list->len stays an integer when it is counted up, down or cleared.
LEMMA Counted ==
  ASSUME NEW f \in [Lists -> Int], NEW l \in Lists
  PROVE  /\ [f EXCEPT ![l] = @ + 1] \in [Lists -> Int] /\ [f EXCEPT ![l] = @ - 1] \in [Lists -> Int]
         /\ [f EXCEPT ![l] = 0] \in [Lists -> Int]
OBVIOUS

\* What a list knows of its ends.
LEMMA EndFacts ==
  ASSUME NEW h, NEW l, NEW s \in Row, Linked(h, l, s)
  PROVE  /\ h.len[l] = Len(s) /\ h.head[l] = Place(s, 1) /\ h.tail[l] = Place(s, Len(s))
         /\ Place(s, 0) = NULL /\ Place(s, Len(s) + 1) = NULL
         /\ Len(s) = 0 => h.head[l] = NULL /\ h.tail[l] = NULL
         /\ Len(s) # 0 => h.head[l] \in Range(s) /\ h.tail[l] \in Range(s)
         /\ Range(s) \subseteq Nodes
<1>1. PICK n \in Nat : n = Len(s)
  BY RowFacts
<1>2. Place(s, 0) = NULL /\ Place(s, n + 1) = NULL
  BY <1>1, PlaceFacts
<1>3. h.len[l] = n /\ h.head[l] = Place(s, 1) /\ h.tail[l] = Place(s, n)
  BY <1>1 DEF Linked
<1>4. CASE n = 0
  <2>1. Place(s, 1) = NULL /\ Place(s, n) = NULL
    BY <1>1, <1>4 DEF Place
  <2>2. Range(s) \subseteq Nodes
    BY RangeOf, RowFacts
  <2> QED
    BY <1>1, <1>2, <1>3, <1>4, <2>1, <2>2
<1>5. CASE n # 0
  <2>1. 1 \in 1 .. n /\ n \in 1 .. n
    BY <1>5
  <2>2. Place(s, 1) = s[1] /\ Place(s, n) = s[n]
    BY <1>1, <2>1, PlaceFacts
  <2>3. s[1] \in Range(s) /\ s[n] \in Range(s)
    BY <1>1, <2>1, RangeOf
  <2>4. Range(s) \subseteq Nodes
    BY RangeOf, RowFacts
  <2> QED
    BY <1>1, <1>2, <1>3, <1>5, <2>2, <2>3, <2>4
<1> QED
  BY <1>4, <1>5

\* The first node of an empty list.
LEMMA FirstNodeSplices ==
  ASSUME NEW h \in Heap, NEW l \in Lists, NEW x \in Nodes, NEW v \in Value
  PROVE  /\ FirstNode(h, l, x, v) \in Heap
         /\ Spliced(h, FirstNode(h, l, x, v), l, x, NULL, NULL)
<1>1. PICK P \in [Nodes -> Pointer] : P = [h.prev EXCEPT ![x] = NULL]
  BY HeapFields DEF Pointer
<1>2. PICK X \in [Nodes -> Pointer] : X = [h.next EXCEPT ![x] = NULL]
  BY HeapFields DEF Pointer
<1>3. PICK V \in [Nodes -> Value] : V = [h.value EXCEPT ![x] = v]
  BY HeapFields
<1>4. PICK H \in [Lists -> Pointer] : H = [h.head EXCEPT ![l] = x]
  BY HeapFields DEF Pointer
<1>5. PICK T \in [Lists -> Pointer] : T = [h.tail EXCEPT ![l] = x]
  BY HeapFields DEF Pointer
<1>6. PICK K \in [Lists -> Int] : K = [h.len EXCEPT ![l] = @ + 1]
  BY HeapFields, Counted
<1>7. PICK g : g = [prev |-> P, next |-> X, value |-> V, head |-> H, tail |-> T, len |-> K]
  OBVIOUS
<1>8. g \in Heap
  BY <1>7, MakeHeap
<1>9. NULL \notin Nodes
  BY AdlistAssumption
<1>10. Spliced(h, g, l, x, NULL, NULL)
  BY <1>1, <1>2, <1>4, <1>5, <1>6, <1>7, <1>9, HeapFields DEF Spliced
<1> QED
  BY <1>1, <1>2, <1>3, <1>4, <1>5, <1>6, <1>7, <1>8, <1>10 DEF FirstNode

\* listAddNodeHead puts the node in front.
LEMMA AddNodeHeadSplices ==
  ASSUME NEW h \in Heap, NEW l \in Lists, NEW s \in Row, Linked(h, l, s),
         NEW x \in Nodes, x \notin Range(s), NEW v \in Value
  PROVE  /\ AddNodeHead(h, l, x, v) \in Heap
         /\ Spliced(h, AddNodeHead(h, l, x, v), l, x, Place(s, 0), Place(s, 1))
<1>1. CASE h.len[l] = 0
  BY <1>1, EndFacts, FirstNodeSplices DEF AddNodeHead
<1>2. CASE h.len[l] # 0
  <2>1. PICK q \in Nodes : q = h.head[l] /\ q # x /\ q = Place(s, 1)
    BY <1>2, EndFacts
  <2>2. PICK P \in [Nodes -> Pointer] : P = Relinked(h.prev, x, NULL, q, x)
    BY HeapFields DEF Pointer, Relinked
  <2>3. PICK X \in [Nodes -> Pointer] : X = [h.next EXCEPT ![x] = q]
    BY HeapFields DEF Pointer
  <2>4. PICK V \in [Nodes -> Value] : V = [h.value EXCEPT ![x] = v]
    BY HeapFields
  <2>5. PICK H \in [Lists -> Pointer] : H = [h.head EXCEPT ![l] = x]
    BY HeapFields DEF Pointer
  <2>6. PICK T \in [Lists -> Pointer] : T = h.tail
    BY HeapFields
  <2>7. PICK K \in [Lists -> Int] : K = [h.len EXCEPT ![l] = @ + 1]
    BY HeapFields, Counted
  <2>8. PICK g : g = [prev |-> P, next |-> X, value |-> V, head |-> H, tail |-> T, len |-> K]
    OBVIOUS
  <2>9. g \in Heap
    BY <2>8, MakeHeap
  <2>10. NULL \notin Nodes
    BY AdlistAssumption
  <2>11. Spliced(h, g, l, x, NULL, q)
    BY <2>1, <2>2, <2>3, <2>5, <2>6, <2>7, <2>8, <2>10, HeapFields DEF Spliced, Relinked
  <2>12. g = AddNodeHead(h, l, x, v)
    BY <1>2, <2>1, <2>2, <2>3, <2>4, <2>5, <2>6, <2>7, <2>8 DEF AddNodeHead
  <2> QED
    BY <2>1, <2>9, <2>11, <2>12, EndFacts
<1> QED
  BY <1>1, <1>2

\* listAddNodeTail puts it behind.
LEMMA AddNodeTailSplices ==
  ASSUME NEW h \in Heap, NEW l \in Lists, NEW s \in Row, Linked(h, l, s),
         NEW x \in Nodes, x \notin Range(s), NEW v \in Value
  PROVE  /\ AddNodeTail(h, l, x, v) \in Heap
         /\ Spliced(h, AddNodeTail(h, l, x, v), l, x, Place(s, Len(s)), Place(s, Len(s) + 1))
<1>1. CASE h.len[l] = 0
  BY <1>1, EndFacts, FirstNodeSplices DEF AddNodeTail
<1>2. CASE h.len[l] # 0
  <2>1. PICK p \in Nodes : p = h.tail[l] /\ p # x /\ p = Place(s, Len(s))
    BY <1>2, EndFacts
  <2>2. PICK P \in [Nodes -> Pointer] : P = [h.prev EXCEPT ![x] = p]
    BY HeapFields DEF Pointer
  <2>3. PICK X \in [Nodes -> Pointer] : X = Relinked(h.next, x, NULL, p, x)
    BY HeapFields DEF Pointer, Relinked
  <2>4. PICK V \in [Nodes -> Value] : V = [h.value EXCEPT ![x] = v]
    BY HeapFields
  <2>5. PICK H \in [Lists -> Pointer] : H = h.head
    BY HeapFields
  <2>6. PICK T \in [Lists -> Pointer] : T = [h.tail EXCEPT ![l] = x]
    BY HeapFields DEF Pointer
  <2>7. PICK K \in [Lists -> Int] : K = [h.len EXCEPT ![l] = @ + 1]
    BY HeapFields, Counted
  <2>8. PICK g : g = [prev |-> P, next |-> X, value |-> V, head |-> H, tail |-> T, len |-> K]
    OBVIOUS
  <2>9. g \in Heap
    BY <2>8, MakeHeap
  <2>10. NULL \notin Nodes
    BY AdlistAssumption
  <2>11. Spliced(h, g, l, x, p, NULL)
    BY <2>1, <2>2, <2>3, <2>5, <2>6, <2>7, <2>8, <2>10, HeapFields DEF Spliced, Relinked
  <2>12. g = AddNodeTail(h, l, x, v)
    BY <1>2, <2>1, <2>2, <2>3, <2>4, <2>5, <2>6, <2>7, <2>8 DEF AddNodeTail
  <2> QED
    BY <2>1, <2>9, <2>11, <2>12, EndFacts
<1> QED
  BY <1>1, <1>2

\* listInsertNode puts it behind the node at place a, or in front of it.
LEMMA InsertNodeSplices ==
  ASSUME NEW h \in Heap, NEW l \in Lists, NEW s \in Row, Linked(h, l, s),
         NEW x \in Nodes, x \notin Range(s), NEW v \in Value, NEW a \in 1 .. Len(s),
         NEW after \in BOOLEAN, NEW b, b = IF after THEN a + 1 ELSE a
  PROVE  /\ InsertNode(h, l, s[a], x, v, after) \in Heap
         /\ Spliced(h, InsertNode(h, l, s[a], x, v, after), l, x, Place(s, b - 1), Place(s, b))
<1>0. PICK n \in Nat : n = Len(s)
  BY RowFacts
<1>1. PICK old \in Nodes : old = s[a] /\ old # x /\ old # NULL
  BY RowFacts, RangeOf
<1>2. h.prev[old] = Place(s, a - 1) /\ h.next[old] = Place(s, a + 1) /\ Place(s, a) = old
  BY <1>1, PlaceFacts DEF Linked
<1>3. \A k \in Int : Place(s, k) \in Pointer /\ Place(s, k) # x
  <2>1. ASSUME NEW k \in Int PROVE Place(s, k) # x
    <3>1. CASE k \in 1 .. n
      BY <1>0, <3>1, PlaceFacts, RangeOf
    <3>2. CASE k \notin 1 .. n
      BY <1>0, <3>2, PlaceFacts, AdlistAssumption
    <3> QED
      BY <3>1, <3>2
  <2> QED
    BY <2>1, PlaceFacts
<1>4. a \in Int /\ b \in Int /\ a - 1 \in Int /\ b - 1 \in Int /\ (after => b - 1 = a) /\ b \in 1 .. n + 1
  BY <1>0
<1>5. PICK p \in Pointer : p = (IF after THEN old ELSE h.prev[old]) /\ p = Place(s, b - 1) /\ p # x
  BY <1>2, <1>3, <1>4
<1>6. PICK q \in Pointer : q = (IF after THEN h.next[old] ELSE old) /\ q = Place(s, b) /\ q # x
  BY <1>2, <1>3, <1>4
<1>7. h.head[l] = old <=> a = 1
  BY <1>0, <1>1, RowFacts, PlaceFacts DEF Linked
<1>8. h.tail[l] = old <=> a = n
  BY <1>0, <1>1, RowFacts, PlaceFacts DEF Linked
<1>9. p = NULL <=> ~after /\ h.head[l] = old
  <2>1. p = NULL <=> b - 1 \notin 1 .. n
    BY <1>0, <1>4, <1>5, PlaceFacts
  <2>2. b - 1 \notin 1 .. n <=> ~after /\ a = 1
    BY <1>0
  <2> QED
    BY <1>7, <2>1, <2>2
<1>10. q = NULL <=> after /\ h.tail[l] = old
  <2>1. q = NULL <=> b \notin 1 .. n
    BY <1>0, <1>4, <1>6, PlaceFacts
  <2>2. b \notin 1 .. n <=> after /\ a = n
    BY <1>0
  <2> QED
    BY <1>8, <2>1, <2>2
<1>11. PICK P \in [Nodes -> Pointer] : P = Relinked(h.prev, x, p, q, x)
  BY HeapFields DEF Pointer, Relinked
<1>12. PICK X \in [Nodes -> Pointer] : X = Relinked(h.next, x, q, p, x)
  BY HeapFields DEF Pointer, Relinked
<1>13. PICK V \in [Nodes -> Value] : V = [h.value EXCEPT ![x] = v]
  BY HeapFields
<1>14. PICK H \in [Lists -> Pointer] : H = [h.head EXCEPT ![l] = IF ~after /\ @ = old THEN x ELSE @]
  BY HeapFields DEF Pointer
<1>15. PICK T \in [Lists -> Pointer] : T = [h.tail EXCEPT ![l] = IF after /\ @ = old THEN x ELSE @]
  BY HeapFields DEF Pointer
<1>16. PICK K \in [Lists -> Int] : K = [h.len EXCEPT ![l] = @ + 1]
  BY HeapFields, Counted
<1>17. PICK g : g = [prev |-> P, next |-> X, value |-> V, head |-> H, tail |-> T, len |-> K]
  OBVIOUS
<1>18. g \in Heap
  BY <1>17, MakeHeap
<1>19. Spliced(h, g, l, x, p, q)
  <2>1. g.next[x] = q /\ g.prev[x] = p
    BY <1>11, <1>12, <1>17 DEF Relinked
  <2>2. ASSUME NEW m \in Nodes \ {x}
        PROVE  /\ g.next[m] = IF m = p THEN x ELSE h.next[m]
               /\ g.prev[m] = IF m = q THEN x ELSE h.prev[m]
    BY <1>11, <1>12, <1>17 DEF Relinked
  <2>3. g.head[l] = IF p = NULL THEN x ELSE h.head[l]
    BY <1>9, <1>14, <1>17, HeapFields
  <2>4. g.tail[l] = IF q = NULL THEN x ELSE h.tail[l]
    BY <1>10, <1>15, <1>17, HeapFields
  <2>5. g.len[l] = h.len[l] + 1
    BY <1>16, <1>17, HeapFields
  <2>6. ASSUME NEW m \in Lists \ {l}
        PROVE  g.head[m] = h.head[m] /\ g.tail[m] = h.tail[m] /\ g.len[m] = h.len[m]
    BY <1>14, <1>15, <1>16, <1>17, HeapFields
  <2> QED
    BY <2>1, <2>2, <2>3, <2>4, <2>5, <2>6 DEF Spliced
<1>20. g = InsertNode(h, l, old, x, v, after)
  BY <1>5, <1>6, <1>11, <1>12, <1>13, <1>14, <1>15, <1>16, <1>17 DEF InsertNode
<1> QED
  BY <1>1, <1>5, <1>6, <1>18, <1>19, <1>20

\* listDelNode takes the node at place a out.
LEMMA DelNodeCuts ==
  ASSUME NEW h \in Heap, NEW l \in Lists, NEW s \in Row, Linked(h, l, s), NEW a \in 1 .. Len(s)
  PROVE  /\ DelNode(h, l, s[a]) \in Heap
         /\ Cut(h, DelNode(h, l, s[a]), l, s[a], Place(s, a - 1), Place(s, a + 1))
<1>1. PICK x \in Nodes : x = s[a]
  BY RowFacts
<1>2. a - 1 \in Int /\ a + 1 \in Int
  BY RowFacts
<1>3. PICK p \in Pointer : p = h.prev[x] /\ p = Place(s, a - 1)
  BY <1>1, <1>2, PlaceFacts DEF Linked
<1>4. PICK q \in Pointer : q = h.next[x] /\ q = Place(s, a + 1)
  BY <1>1, <1>2, PlaceFacts DEF Linked
<1>5. PICK P \in [Nodes -> Pointer] :
         P = [m \in Nodes |-> IF m \in {x} THEN NULL ELSE [k \in Nodes |-> IF k = q THEN p ELSE h.prev[k]][m]]
  BY HeapFields DEF Pointer
<1>6. PICK X \in [Nodes -> Pointer] :
         X = [m \in Nodes |-> IF m \in {x} THEN NULL ELSE [k \in Nodes |-> IF k = p THEN q ELSE h.next[k]][m]]
  BY HeapFields DEF Pointer
<1>7. PICK V \in [Nodes -> Value] : V = [m \in Nodes |-> IF m \in {x} THEN NULL ELSE h.value[m]]
  BY HeapFields DEF Value
<1>8. PICK H \in [Lists -> Pointer] : H = [h.head EXCEPT ![l] = IF p = NULL THEN q ELSE @]
  BY HeapFields
<1>9. PICK T \in [Lists -> Pointer] : T = [h.tail EXCEPT ![l] = IF q = NULL THEN p ELSE @]
  BY HeapFields
<1>10. PICK K \in [Lists -> Int] : K = [h.len EXCEPT ![l] = @ - 1]
  BY HeapFields, Counted
<1>11. PICK g : g = [prev |-> P, next |-> X, value |-> V, head |-> H, tail |-> T, len |-> K]
  OBVIOUS
<1>12. g \in Heap
  BY <1>11, MakeHeap
<1>13. Cut(h, g, l, x, p, q)
  <2>1. ASSUME NEW m \in Nodes \ {x}
        PROVE  /\ g.next[m] = IF m = p THEN q ELSE h.next[m]
               /\ g.prev[m] = IF m = q THEN p ELSE h.prev[m]
    BY <1>5, <1>6, <1>11
  <2>2. g.head[l] = (IF p = NULL THEN q ELSE h.head[l]) /\ g.tail[l] = (IF q = NULL THEN p ELSE h.tail[l])
    BY <1>8, <1>9, <1>11, HeapFields
  <2>3. g.len[l] = h.len[l] - 1
    BY <1>10, <1>11, HeapFields
  <2>4. ASSUME NEW m \in Lists \ {l}
        PROVE  g.head[m] = h.head[m] /\ g.tail[m] = h.tail[m] /\ g.len[m] = h.len[m]
    BY <1>8, <1>9, <1>10, <1>11, HeapFields
  <2> QED
    BY <2>1, <2>2, <2>3, <2>4 DEF Cut
<1>14. g = DelNode(h, l, x)
  BY <1>3, <1>4, <1>5, <1>6, <1>7, <1>8, <1>9, <1>10, <1>11 DEF DelNode, Freed
<1> QED
  BY <1>1, <1>3, <1>4, <1>12, <1>13, <1>14

\* The empty list.
LEMMA EmptyRow == <<>> \in Row /\ Len(<<>>) = 0 /\ Range(<<>>) = {} /\ \A k \in Int : Place(<<>>, k) = NULL
<1>1. <<>> \in Seq(Nodes) /\ Len(<<>>) = 0 /\ DOMAIN <<>> = {}
  OBVIOUS
<1>2. <<>> \in Row
  BY <1>1 DEF Row, IsInjective
<1>3. Range(<<>>) = {}
  BY <1>1 DEF Range
<1>4. ASSUME NEW k \in Int PROVE Place(<<>>, k) = NULL
  <2>1. k \notin 1 .. 0
    OBVIOUS
  <2> QED
    BY <1>1, <2>1 DEF Place
<1> QED
  BY <1>1, <1>2, <1>3, <1>4

\* Putting back the row of a list changes nothing.
LEMMA PutSame ==
  ASSUME NEW R \in [Lists -> Row], NEW l \in Lists
  PROVE  Put(R, l, R[l]) = R
BY DEF Put

\* listRotate takes the last node out and puts it in front.
LEMMA RotatedRowed ==
  ASSUME NEW h \in Heap, NEW N, NEW R, Rowed(h, N, R), NEW l \in Lists, h.len[l] > 1
  PROVE  /\ Rotated(h, l) \in Heap
         /\ \E r \in Row : Rowed(Rotated(h, l), N, Put(R, l, r)) /\ Range(r) = Range(R[l])
<1>1. PICK s \in Row : s = R[l] /\ Linked(h, l, s)
  BY DEF Rowed
<1>2. PICK n \in Nat : n = Len(s) /\ n > 1
  BY <1>1, EndFacts, RowFacts
<1>3. n \in 1 .. Len(s) /\ 1 \in 1 .. Len(s) /\ 1 # n
  BY <1>2
<1>4. PICK x \in Nodes : x = s[n] /\ x = h.tail[l] /\ x \in N /\ x \in Range(s)
  <2>1. s[n] = h.tail[l] /\ s[n] \in Nodes /\ s[n] \in Range(s)
    BY <1>1, <1>2, <1>3, EndFacts, PlaceFacts, RowFacts, RangeOf
  <2> QED
    BY <1>1, <2>1 DEF Rowed
<1>5. PICK first \in Nodes : first = s[1] /\ first = h.head[l] /\ first # x /\ first # NULL
  BY <1>1, <1>3, <1>4, EndFacts, PlaceFacts, RowFacts
<1>6. n - 1 \in 1 .. Len(s)
  BY <1>2
<1>7. PICK p \in Nodes : p = h.prev[x] /\ p = Place(s, n - 1) /\ p # x /\ p # NULL
  <2>1. h.prev[x] = Place(s, n - 1)
    BY <1>1, <1>3, <1>4 DEF Linked
  <2>2. Place(s, n - 1) = s[n - 1] /\ s[n - 1] \in Nodes /\ s[n - 1] # NULL
    BY <1>6, PlaceFacts, RowFacts
  <2>3. s[n - 1] # s[n]
    BY <1>2, <1>3, <1>6, RowFacts
  <2> QED
    BY <1>4, <2>1, <2>2, <2>3
<1>8. PICK c \in Heap : c = DelNode(h, l, x) /\ Cut(h, c, l, x, p, NULL)
  <2>1. Place(s, n + 1) = NULL
    BY <1>1, <1>2, EndFacts
  <2> QED
    BY <1>1, <1>3, <1>4, <1>7, <2>1, DelNodeCuts
<1>9. PICK t \in Row : t = Removed(s, n) /\ Len(t) = n - 1 /\ Range(t) = Range(s) \ {x}
  <2>1. /\ Removed(s, n) \in Row /\ Len(Removed(s, n)) = Len(s) - 1
        /\ Range(Removed(s, n)) = Range(s) \ {s[n]}
    BY <1>3, RemovedRow
  <2> QED
    BY <1>2, <1>4, <2>1
<1>10. Place(t, 1) = first /\ Place(t, 0) = NULL
  <2>1. Place(t, 1) = Place(s, 1)
    <3>1. \A k \in Int : k < n => Place(t, k) = Place(s, k)
      BY <1>3, <1>9, RemovedPlaces
    <3> QED
      BY <1>2, <3>1
  <2>2. Place(s, 1) = s[1]
    BY <1>3, PlaceFacts
  <2>3. Place(t, 0) = NULL
    BY RowFacts DEF Place
  <2> QED
    BY <1>5, <2>1, <2>2, <2>3
<1>11. PICK Q : Q = Put(R, l, t)
  OBVIOUS
<1>12. Rowed(c, N \ {x}, Q)
  <2>1. Place(s, n + 1) = NULL
    BY <1>1, <1>2, EndFacts
  <2>2. Cut(h, c, l, s[n], Place(s, n - 1), Place(s, n + 1))
    BY <1>4, <1>7, <1>8, <2>1
  <2>3. Rowed(c, N \ {s[n]}, Put(R, l, Removed(s, n)))
    BY <1>1, <1>3, <2>2, TakeOut
  <2> QED
    BY <1>4, <1>9, <1>11, <2>3
<1>13. Q[l] = t
  BY <1>11 DEF Put
<1>14. PICK g : g = Rotated(h, l)
  OBVIOUS
<1>15. g \in Heap /\ Spliced(c, g, l, x, NULL, first)
  <2>1. PICK P \in [Nodes -> Pointer] : P = Relinked(h.prev, x, NULL, first, x)
    BY HeapFields DEF Pointer, Relinked
  <2>2. PICK X \in [Nodes -> Pointer] : X = Relinked(h.next, x, first, p, NULL)
    BY HeapFields DEF Pointer, Relinked
  <2>3. PICK H \in [Lists -> Pointer] : H = [h.head EXCEPT ![l] = x]
    BY HeapFields DEF Pointer
  <2>4. PICK T \in [Lists -> Pointer] : T = [h.tail EXCEPT ![l] = p]
    BY HeapFields DEF Pointer
  <2>5. PICK K \in [Lists -> Int], V \in [Nodes -> Value] : K = h.len /\ V = h.value
    BY HeapFields
  <2>6. g = [prev |-> P, next |-> X, value |-> V, head |-> H, tail |-> T, len |-> K]
    BY <1>4, <1>5, <1>7, <1>14, <2>1, <2>2, <2>3, <2>4, <2>5 DEF Rotated
  <2>7. g \in Heap
    BY <2>6, MakeHeap
  <2>8. g.next[x] = first /\ g.prev[x] = NULL
    BY <2>1, <2>2, <2>6 DEF Relinked
  <2>9. ASSUME NEW m \in Nodes \ {x}
        PROVE  /\ g.next[m] = IF m = NULL THEN x ELSE c.next[m]
               /\ g.prev[m] = IF m = first THEN x ELSE c.prev[m]
    <3>1. m # NULL
      BY AdlistAssumption
    <3>2. c.next[m] = (IF m = p THEN NULL ELSE h.next[m]) /\ c.prev[m] = h.prev[m]
      BY <1>8, <3>1 DEF Cut
    <3>3. g.next[m] = (IF m = p THEN NULL ELSE h.next[m]) /\ g.prev[m] = (IF m = first THEN x ELSE h.prev[m])
      BY <2>1, <2>2, <2>6 DEF Relinked
    <3> QED
      BY <3>1, <3>2, <3>3
  <2>10. c.tail[l] = p /\ c.len[l] = h.len[l] - 1 /\ h.len[l] \in Int
    BY <1>8, HeapFields DEF Cut
  <2>11. g.head[l] = x /\ g.tail[l] = p /\ g.len[l] = h.len[l]
    BY <2>3, <2>4, <2>5, <2>6, HeapFields
  <2>12. ASSUME NEW m \in Lists \ {l}
         PROVE  g.head[m] = c.head[m] /\ g.tail[m] = c.tail[m] /\ g.len[m] = c.len[m]
    <3>1. g.head[m] = h.head[m] /\ g.tail[m] = h.tail[m] /\ g.len[m] = h.len[m]
      BY <2>3, <2>4, <2>5, <2>6, HeapFields
    <3> QED
      BY <1>8, <3>1 DEF Cut
  <2>13. Spliced(c, g, l, x, NULL, first)
    BY <1>5, <2>8, <2>9, <2>10, <2>11, <2>12 DEF Spliced
  <2> QED
    BY <2>7, <2>13
<1>16. PICK b \in 1 .. Len(t) + 1 : b = 1 /\ b - 1 = 0
  BY RowFacts
<1>17. Spliced(c, g, l, x, Place(t, b - 1), Place(t, b))
  BY <1>10, <1>15, <1>16
<1>18. PICK M : M = N \ {x}
  OBVIOUS
<1>19. Rowed(g, M \cup {x}, Put(Q, l, With(t, b, x)))
  <2>1. x \notin M
    BY <1>18
  <2> QED
    BY <1>12, <1>13, <1>17, <1>18, <2>1, PutIn
<1>20. PICK r \in Row : r = With(t, b, x) /\ Range(r) = Range(t) \cup {x}
  BY <1>9, WithRow
<1>21. M \cup {x} = N /\ Range(r) = Range(s)
  BY <1>4, <1>9, <1>18, <1>20
<1>22. Rowed(g, N, Put(R, l, r))
  <2>1. Put(Q, l, r) = Put(R, l, r)
    BY <1>11 DEF Put
  <2> QED
    BY <1>19, <1>20, <1>21, <2>1
<1> QED
  BY <1>1, <1>14, <1>15, <1>21, <1>22

\* The fields listCreate writes are those of an empty list.
LEMMA EmptiedHeap ==
  ASSUME NEW h \in Heap, NEW l \in Lists
  PROVE  Emptied(h, l) \in Heap /\ Linked(Emptied(h, l), l, <<>>)
<1>1. PICK P \in [Nodes -> Pointer], X \in [Nodes -> Pointer], V \in [Nodes -> Value] :
         P = h.prev /\ X = h.next /\ V = h.value
  BY HeapFields
<1>2. PICK H \in [Lists -> Pointer] : H = [h.head EXCEPT ![l] = NULL]
  BY HeapFields DEF Pointer
<1>3. PICK T \in [Lists -> Pointer] : T = [h.tail EXCEPT ![l] = NULL]
  BY HeapFields DEF Pointer
<1>4. PICK K \in [Lists -> Int] : K = [h.len EXCEPT ![l] = 0]
  BY HeapFields, Counted
<1>5. PICK g : g = [prev |-> P, next |-> X, value |-> V, head |-> H, tail |-> T, len |-> K]
  OBVIOUS
<1>6. g \in Heap
  BY <1>5, MakeHeap
<1>7. g = Emptied(h, l)
  BY <1>1, <1>2, <1>3, <1>4, <1>5 DEF Emptied
<1>8. g.len[l] = 0 /\ g.head[l] = NULL /\ g.tail[l] = NULL
  BY <1>2, <1>3, <1>4, <1>5, HeapFields
<1>9. Linked(g, l, <<>>)
  BY <1>8, EmptyRow DEF Linked
<1> QED
  BY <1>6, <1>7, <1>9

\* They leave the other lists alone.
LEMMA EmptiedOthers ==
  ASSUME NEW h \in Heap, NEW l \in Lists, NEW m \in Lists, m # l, NEW s \in Row, Linked(h, m, s)
  PROVE  Linked(Emptied(h, l), m, s)
<1>1. PICK g : g = Emptied(h, l)
  OBVIOUS
<1>2. g.head[m] = h.head[m] /\ g.tail[m] = h.tail[m] /\ g.len[m] = h.len[m]
  BY <1>1, HeapFields DEF Emptied
<1>3. g.next = h.next /\ g.prev = h.prev
  BY <1>1 DEF Emptied
<1> QED
  BY <1>1, <1>2, <1>3, Elsewhere

\* listCreate makes a list without nodes, whatever was in its memory.
LEMMA CreatedRowed ==
  ASSUME NEW h \in Heap, NEW N, NEW R, Rowed(h, N, R), NEW l \in Lists, R[l] = <<>>
  PROVE  Emptied(h, l) \in Heap /\ Rowed(Emptied(h, l), N, R)
<1>1. PICK g : g = Emptied(h, l) /\ g \in Heap /\ Linked(g, l, <<>>)
  BY EmptiedHeap
<1>2. ASSUME NEW m \in Lists PROVE Linked(g, m, R[m])
  <2>1. CASE m = l
    BY <1>1, <2>1
  <2>2. CASE m # l
    <3>1. PICK s \in Row : s = R[m] /\ Linked(h, m, s)
      BY DEF Rowed
    <3> QED
      BY <1>1, <2>2, <3>1, EmptiedOthers
  <2> QED
    BY <2>1, <2>2
<1>3. Rowed(g, N, R)
  BY <1>2 DEF Rowed
<1> QED
  BY <1>1, <1>3

\* listRelease frees the nodes of one list and leaves the others alone.
LEMMA ReleasedRowed ==
  ASSUME NEW h \in Heap, NEW N, NEW R, Rowed(h, N, R), NEW l \in Lists, NEW ns, ns = Range(R[l])
  PROVE  /\ Emptied(Freed(h, ns), l) \in Heap
         /\ Rowed(Emptied(Freed(h, ns), l), N \ ns, Put(R, l, <<>>))
<1>1. PICK P \in [Nodes -> Pointer] : P = [n \in Nodes |-> IF n \in ns THEN NULL ELSE h.prev[n]]
  BY HeapFields DEF Pointer
<1>2. PICK X \in [Nodes -> Pointer] : X = [n \in Nodes |-> IF n \in ns THEN NULL ELSE h.next[n]]
  BY HeapFields DEF Pointer
<1>3. PICK V \in [Nodes -> Value] : V = [n \in Nodes |-> IF n \in ns THEN NULL ELSE h.value[n]]
  BY HeapFields DEF Value
<1>4. PICK H \in [Lists -> Pointer], T \in [Lists -> Pointer], K \in [Lists -> Int] :
         H = h.head /\ T = h.tail /\ K = h.len
  BY HeapFields
<1>5. PICK f : f = [prev |-> P, next |-> X, value |-> V, head |-> H, tail |-> T, len |-> K]
  OBVIOUS
<1>6. f \in Heap /\ f = Freed(h, ns)
  BY <1>1, <1>2, <1>3, <1>4, <1>5, MakeHeap DEF Freed
<1>7. PICK g : g = Emptied(f, l) /\ g \in Heap /\ Linked(g, l, <<>>)
  BY <1>6, EmptiedHeap
<1>8. ASSUME NEW m \in Lists, m # l PROVE Linked(g, m, R[m])
  <2>1. PICK s \in Row : s = R[m] /\ Linked(h, m, s) /\ Range(s) \cap ns = {}
    BY <1>8 DEF Rowed
  <2>2. \A k \in 1 .. Len(s) : s[k] \in Nodes /\ s[k] \notin ns
    BY <2>1, RowFacts, RangeOf
  <2>3. \A k \in 1 .. Len(s) : f.next[s[k]] = h.next[s[k]] /\ f.prev[s[k]] = h.prev[s[k]]
    BY <1>1, <1>2, <1>5, <2>2
  <2>4. f.head[m] = h.head[m] /\ f.tail[m] = h.tail[m] /\ f.len[m] = h.len[m]
    BY <1>4, <1>5
  <2>5. Linked(f, m, s)
    BY <2>1, <2>3, <2>4, Elsewhere
  <2> QED
    BY <1>6, <1>7, <1>8, <2>1, <2>5, EmptiedOthers
<1>9. PICK e \in Row : e = <<>> /\ Range(e) = {}
  BY EmptyRow
<1>10. Rowed(g, (N \ Range(R[l])) \cup Range(e), Put(R, l, e))
  BY <1>7, <1>8, <1>9, PutRowed
<1>11. (N \ Range(R[l])) \cup Range(e) = N \ ns
  BY <1>9
<1> QED
  BY <1>6, <1>7, <1>9, <1>10, <1>11

\* A list gets one node more at its end.
LEMMA AppendedRowed ==
  ASSUME NEW h \in Heap, NEW N, NEW R, Rowed(h, N, R), NEW l \in Lists,
         NEW x \in Nodes, x \notin N, NEW v \in Value
  PROVE  /\ AddNodeTail(h, l, x, v) \in Heap
         /\ \E a \in 1 .. Len(R[l]) + 1 :
               Rowed(AddNodeTail(h, l, x, v), N \cup {x}, Put(R, l, With(R[l], a, x)))
<1>1. PICK s \in Row : s = R[l] /\ Linked(h, l, s)
  BY DEF Rowed
<1>2. x \notin Range(s)
  BY <1>1 DEF Rowed
<1>3. PICK a \in 1 .. Len(s) + 1 : a = Len(s) + 1 /\ a - 1 = Len(s)
  BY RowFacts
<1>4. PICK g \in Heap : g = AddNodeTail(h, l, x, v) /\ Spliced(h, g, l, x, Place(s, a - 1), Place(s, a))
  BY <1>1, <1>2, <1>3, AddNodeTailSplices
<1>5. Rowed(g, N \cup {x}, Put(R, l, With(s, a, x)))
  BY <1>1, <1>4, PutIn
<1> QED
  BY <1>1, <1>4, <1>5

DupStep(d, h, copy, new, values, k) ==
    IF k = 0 THEN h ELSE AddNodeTail(d[k - 1], copy, new[k], values[k])
IsDup(d, m, h, copy, new, values) ==
    d = [k \in 0 .. m |-> DupStep(d, h, copy, new, values, k)]

\* The heap after the loop of listDup, as the choice its recursive definition
\* stands for.
LEMMA DupDef ==
  ASSUME NEW h, NEW copy, NEW new, NEW values
  PROVE  Dup(h, copy, new, values) =
           (CHOOSE d : IsDup(d, Len(values), h, copy, new, values))[Len(values)]
BY DEF Dup, IsDup, DupStep

\* The loop of listDup has a heap after each of its rounds.
LEMMA DupRounds ==
  ASSUME NEW h, NEW copy, NEW new, NEW values, NEW m \in Nat
  PROVE  \E d : IsDup(d, m, h, copy, new, values)
<1> DEFINE G == {k \in Nat : \E d : IsDup(d, k, h, copy, new, values)}
<1>1. 0 \in G
  <2>1. PICK d : d = [k \in 0 .. 0 |-> h]
    OBVIOUS
  <2>2. \A k \in 0 .. 0 : DupStep(d, h, copy, new, values, k) = h
    BY DEF DupStep
  <2>3. IsDup(d, 0, h, copy, new, values)
    BY <2>1, <2>2 DEF IsDup
  <2> QED
    BY <2>3
<1>2. ASSUME NEW n \in Nat, n \in G PROVE n + 1 \in G
  <2>1. PICK d : IsDup(d, n, h, copy, new, values)
    BY <1>2
  <2>2. PICK z : z = AddNodeTail(d[n], copy, new[n + 1], values[n + 1])
    OBVIOUS
  <2>3. PICK e : e = [k \in 0 .. n + 1 |-> IF k = n + 1 THEN z ELSE d[k]]
    OBVIOUS
  <2>4. ASSUME NEW k \in 0 .. n + 1 PROVE e[k] = DupStep(e, h, copy, new, values, k)
    <3>1. CASE k = n + 1
      <4>1. e[k] = z /\ k # 0 /\ k - 1 = n /\ n \in 0 .. n + 1 /\ n # n + 1
        BY <2>3, <3>1
      <4>2. e[n] = d[n]
        BY <2>3, <4>1
      <4> QED
        BY <2>2, <3>1, <4>1, <4>2 DEF DupStep
    <3>2. CASE k # n + 1
      <4>1. k \in 0 .. n
        BY <3>2
      <4>2. d[k] = DupStep(d, h, copy, new, values, k)
        BY <2>1, <4>1 DEF IsDup
      <4>3. e[k] = d[k]
        BY <2>3, <3>2
      <4>4. k # 0 => e[k - 1] = d[k - 1]
        BY <2>3, <4>1
      <4> QED
        BY <4>2, <4>3, <4>4 DEF DupStep
    <3> QED
      BY <3>1, <3>2
  <2>5. IsDup(e, n + 1, h, copy, new, values)
    BY <2>3, <2>4 DEF IsDup
  <2> QED
    BY <2>5
<1>3. \A k \in Nat : k \in G
  <2> HIDE DEF G
  <2> QED
    BY <1>1, <1>2, Induction
<1> QED
  BY <1>3

\* listDup fills the copy with as many new nodes as the original has.
LEMMA DupRowed ==
  ASSUME NEW h \in Heap, NEW N, NEW R, Rowed(h, N, R), NEW copy \in Lists,
         NEW m \in Nat, NEW new \in [1 .. m -> Nodes \ N], IsInjective(new),
         NEW values, Len(values) = m, \A k \in 1 .. m : values[k] \in Value
  PROVE  /\ Dup(h, copy, new, values) \in Heap
         /\ \E r \in Row : Rowed(Dup(h, copy, new, values), N \cup Range(new), Put(R, copy, r))
<1>1. PICK d : d = (CHOOSE u : IsDup(u, m, h, copy, new, values)) /\ IsDup(d, m, h, copy, new, values)
  BY DupRounds
<1>2. Dup(h, copy, new, values) = d[m]
  BY <1>1, DupDef
<1>3. \A k \in 0 .. m : d[k] = DupStep(d, h, copy, new, values, k)
  BY <1>1 DEF IsDup
<1> DEFINE U(k) == N \cup {new[i] : i \in 1 .. k}
           Good(k) == d[k] \in Heap /\ \E r \in Row : Rowed(d[k], U(k), Put(R, copy, r))
           G == {k \in Nat : k <= m => Good(k)}
<1>4. 0 \in G
  <2>1. d[0] = h
    BY <1>3 DEF DupStep
  <2>2. U(0) = N
    OBVIOUS
  <2>3. PICK r \in Row : r = R[copy]
    BY DEF Rowed
  <2>4. Put(R, copy, r) = R
    BY <2>3, PutSame DEF Rowed
  <2>5. Good(0)
    BY <2>1, <2>2, <2>4
  <2> QED
    BY <2>5
<1>5. ASSUME NEW k \in Nat, k \in G PROVE k + 1 \in G
  <2> HIDE DEF Good
  <2> SUFFICES ASSUME k + 1 <= m PROVE Good(k + 1)
    OBVIOUS
  <2>1. k + 1 \in 1 .. m /\ k + 1 \in 0 .. m /\ (k + 1) - 1 = k /\ k <= m /\ k + 1 # 0
    OBVIOUS
  <2>2. Good(k)
    BY <1>5, <2>1
  <2> USE DEF Good
  <2>3. PICK c, r, Q : c \in Heap /\ r \in Row /\ c = d[k] /\ Q = Put(R, copy, r) /\ Rowed(c, U(k), Q)
    BY <2>2
  <2>4. PICK x \in Nodes : x = new[k + 1] /\ x \notin N
    BY <2>1
  <2>5. x \notin U(k)
    <3>1. ASSUME NEW i \in 1 .. k PROVE new[i] # x
      <4>1. i \in DOMAIN new /\ k + 1 \in DOMAIN new /\ i # k + 1
        BY <2>1
      <4> QED
        BY <2>4, <4>1 DEF IsInjective
    <3> QED
      BY <2>4, <3>1
  <2>6. PICK v \in Value : v = values[k + 1]
    BY <2>1
  <2>7. PICK M : M = U(k)
    OBVIOUS
  <2>8. PICK g \in Heap : g = AddNodeTail(c, copy, x, v) /\ \E a \in 1 .. Len(Q[copy]) + 1 :
               Rowed(g, M \cup {x}, Put(Q, copy, With(Q[copy], a, x)))
    <3>1. Rowed(c, M, Q) /\ x \notin M
      BY <2>3, <2>5, <2>7
    <3> QED
      BY <2>3, <3>1, AppendedRowed
  <2>9. PICK t : Rowed(g, M \cup {x}, Put(Q, copy, t))
    BY <2>8
  <2>10. d[k + 1] = g
    BY <1>3, <2>1, <2>3, <2>4, <2>6, <2>8 DEF DupStep
  <2>11. M \cup {x} = U(k + 1)
    <3>1. \A i \in 1 .. k + 1 : i \in 1 .. k \/ i = k + 1
      OBVIOUS
    <3>2. \A i \in 1 .. k : i \in 1 .. k + 1
      OBVIOUS
    <3>3. k + 1 \in 1 .. k + 1
      OBVIOUS
    <3> QED
      BY <2>4, <2>7, <3>1, <3>2, <3>3
  <2>12. Put(Q, copy, t) = Put(R, copy, t)
    BY <2>3 DEF Put
  <2>13. t \in Row
    <3>1. Put(Q, copy, t) \in [Lists -> Row]
      BY <2>9 DEF Rowed
    <3>2. Put(Q, copy, t)[copy] = t
      BY DEF Put
    <3> QED
      BY <3>1, <3>2
  <2> HIDE DEF U
  <2> QED
    BY <2>9, <2>10, <2>11, <2>12, <2>13
<1>6. \A k \in Nat : k \in G
  <2> HIDE DEF G
  <2> QED
    BY <1>4, <1>5, Induction
<1>7. Good(m)
  <2> HIDE DEF Good
  <2> QED
    BY <1>6
<1>8. U(m) = N \cup Range(new)
  BY DEF Range
<1> QED
  BY <1>2, <1>7, <1>8

-------------------------------------------------------------------------------
(* The iterator *)

\* What an iterator at node x has in front of it.
Ahead(s, d, x) ==
    {y \in Nodes : \E i, j \in 1 .. Len(s) :
                      s[i] = x /\ s[j] = y /\ (IF d = Forward THEN i <= j ELSE j <= i)}

\* Where the node at place j goes when another comes in at place a.
Moved(a, j) == IF j < a THEN j ELSE j + 1

\* An insertion keeps the order of the nodes that were there.
LEMMA WithIndex ==
  ASSUME NEW s \in Row, NEW x \in Nodes, x \notin Range(s), NEW a \in 1 .. Len(s) + 1
  PROVE  /\ \A j \in 1 .. Len(s) : Moved(a, j) \in 1 .. Len(s) + 1 /\ With(s, a, x)[Moved(a, j)] = s[j]
         /\ \A k \in 1 .. Len(s) + 1 : With(s, a, x)[k] # x => \E j \in 1 .. Len(s) : k = Moved(a, j)
<1>1. PICK n \in Nat : n = Len(s)
  BY RowFacts
<1>2. PICK t : t = With(s, a, x)
  OBVIOUS
<1>3. t = [k \in 1 .. n + 1 |-> IF k < a THEN s[k] ELSE IF k = a THEN x ELSE s[k - 1]]
  BY <1>1, <1>2 DEF With
<1>4. ASSUME NEW j \in 1 .. n PROVE Moved(a, j) \in 1 .. n + 1 /\ t[Moved(a, j)] = s[j]
  <2>1. CASE j < a
    BY <1>1, <1>3, <2>1 DEF Moved
  <2>2. CASE ~(j < a)
    <3>1. j + 1 \in 1 .. n + 1 /\ ~(j + 1 < a) /\ j + 1 # a /\ (j + 1) - 1 = j
      BY <1>1, <2>2
    <3>2. t[j + 1] = s[j]
      BY <1>3, <3>1
    <3> QED
      BY <2>2, <3>1, <3>2 DEF Moved
  <2> QED
    BY <2>1, <2>2
<1>5. ASSUME NEW k \in 1 .. n + 1, t[k] # x PROVE \E j \in 1 .. n : k = Moved(a, j)
  <2>1. CASE k < a
    BY <1>1, <2>1 DEF Moved
  <2>2. CASE k = a
    BY <1>1, <1>3, <1>5, <2>2
  <2>3. CASE k > a
    <3>1. k - 1 \in 1 .. n /\ ~(k - 1 < a) /\ (k - 1) + 1 = k
      BY <1>1, <2>3
    <3> QED
      BY <3>1 DEF Moved
  <2> QED
    BY <1>1, <2>1, <2>2, <2>3
<1> QED
  BY <1>1, <1>2, <1>4, <1>5

\* An insertion changes nothing for the nodes that were ahead, or were not.
LEMMA AheadWith ==
  ASSUME NEW s \in Row, NEW x \in Nodes, x \notin Range(s), NEW a \in 1 .. Len(s) + 1,
         NEW d, NEW z, z # x
  PROVE  \A y \in Nodes : y # x => (y \in Ahead(With(s, a, x), d, z) <=> y \in Ahead(s, d, z))
<1>1. PICK n \in Nat : n = Len(s)
  BY RowFacts
<1>2. PICK t \in Row : t = With(s, a, x) /\ Len(t) = n + 1
  BY <1>1, WithRow
<1>3. /\ \A j \in 1 .. n : Moved(a, j) \in 1 .. n + 1 /\ t[Moved(a, j)] = s[j]
      /\ \A k \in 1 .. n + 1 : t[k] # x => \E j \in 1 .. n : k = Moved(a, j)
  <2>1. /\ \A j \in 1 .. Len(s) : Moved(a, j) \in 1 .. Len(s) + 1 /\ With(s, a, x)[Moved(a, j)] = s[j]
        /\ \A k \in 1 .. Len(s) + 1 : With(s, a, x)[k] # x => \E j \in 1 .. Len(s) : k = Moved(a, j)
    BY WithIndex
  <2> QED
    BY <1>1, <1>2, <2>1, Zenon
<1>4. \A i, j \in 1 .. n : i <= j <=> Moved(a, i) <= Moved(a, j)
  BY <1>1 DEF Moved
<1>5. ASSUME NEW y \in Nodes, y # x PROVE y \in Ahead(t, d, z) <=> y \in Ahead(s, d, z)
  <2>1. ASSUME y \in Ahead(s, d, z) PROVE y \in Ahead(t, d, z)
    <3>1. PICK i \in 1 .. n, j \in 1 .. n : s[i] = z /\ s[j] = y /\ (IF d = Forward THEN i <= j ELSE j <= i)
      BY <1>1, <2>1 DEF Ahead
    <3>2. PICK k \in 1 .. n + 1, m \in 1 .. n + 1 : k = Moved(a, i) /\ m = Moved(a, j)
      BY <1>3
    <3>3. t[k] = z /\ t[m] = y
      BY <1>3, <3>1, <3>2
    <3>4. IF d = Forward THEN k <= m ELSE m <= k
      BY <1>4, <3>1, <3>2
    <3> QED
      BY <1>2, <3>3, <3>4 DEF Ahead
  <2>2. ASSUME y \in Ahead(t, d, z) PROVE y \in Ahead(s, d, z)
    <3>1. PICK k \in 1 .. n + 1, m \in 1 .. n + 1 : t[k] = z /\ t[m] = y /\ (IF d = Forward THEN k <= m ELSE m <= k)
      BY <1>2, <2>2 DEF Ahead
    <3>2. PICK i \in 1 .. n : k = Moved(a, i)
      BY <1>3, <3>1
    <3>3. PICK j \in 1 .. n : m = Moved(a, j)
      BY <1>3, <1>5, <3>1
    <3>4. s[i] = z /\ s[j] = y
      BY <1>3, <3>1, <3>2, <3>3
    <3>5. IF d = Forward THEN i <= j ELSE j <= i
      BY <1>4, <3>1, <3>2, <3>3
    <3> QED
      BY <1>1, <3>4, <3>5 DEF Ahead
  <2> QED
    BY <2>1, <2>2
<1> QED
  BY <1>2, <1>5

\* The row without its node at place a is the one it came into there.
LEMMA RemovedIndex ==
  ASSUME NEW s \in Row, NEW a \in 1 .. Len(s)
  PROVE  /\ \A j \in 1 .. Len(s) - 1 : Moved(a, j) \in 1 .. Len(s) /\ s[Moved(a, j)] = Removed(s, a)[j]
         /\ \A k \in 1 .. Len(s) : k # a => \E j \in 1 .. Len(s) - 1 : k = Moved(a, j)
<1>1. PICK n \in Nat : n = Len(s)
  BY RowFacts
<1>2. PICK t : t = Removed(s, a)
  OBVIOUS
<1>3. t = [k \in 1 .. n - 1 |-> IF k < a THEN s[k] ELSE s[k + 1]]
  BY <1>1, <1>2 DEF Removed
<1>4. ASSUME NEW j \in 1 .. n - 1 PROVE Moved(a, j) \in 1 .. n /\ s[Moved(a, j)] = t[j]
  BY <1>1, <1>3 DEF Moved
<1>5. ASSUME NEW k \in 1 .. n, k # a PROVE \E j \in 1 .. n - 1 : k = Moved(a, j)
  <2>1. CASE k < a
    <3>1. k \in 1 .. n - 1
      BY <1>1, <2>1
    <3> QED
      BY <2>1, <3>1 DEF Moved
  <2>2. CASE k > a
    <3>1. k - 1 \in 1 .. n - 1 /\ ~(k - 1 < a) /\ (k - 1) + 1 = k
      BY <1>1, <2>2
    <3> QED
      BY <3>1 DEF Moved
  <2> QED
    BY <1>1, <1>5, <2>1, <2>2
<1> QED
  BY <1>1, <1>2, <1>4, <1>5

\* A deletion, of another node than the iterator's, takes that node away only.
LEMMA AheadRemoved ==
  ASSUME NEW s \in Row, NEW a \in 1 .. Len(s), NEW d, NEW z, z # s[a]
  PROVE  Ahead(Removed(s, a), d, z) = Ahead(s, d, z) \ {s[a]}
<1>1. PICK n \in Nat : n = Len(s)
  BY RowFacts
<1>2. PICK t \in Row : t = Removed(s, a) /\ Len(t) = n - 1
  BY <1>1, RemovedRow
<1>3. /\ \A j \in 1 .. n - 1 : Moved(a, j) \in 1 .. n /\ s[Moved(a, j)] = t[j]
      /\ \A k \in 1 .. n : k # a => \E j \in 1 .. n - 1 : k = Moved(a, j)
  BY <1>1, <1>2, RemovedIndex
<1>4. \A i, j \in 1 .. n - 1 : i <= j <=> Moved(a, i) <= Moved(a, j)
  BY <1>1 DEF Moved
<1>5. ASSUME NEW y \in Nodes PROVE y \in Ahead(t, d, z) <=> y \in Ahead(s, d, z) /\ y # s[a]
  <2>1. ASSUME y \in Ahead(s, d, z), y # s[a] PROVE y \in Ahead(t, d, z)
    <3>1. PICK k \in 1 .. n, m \in 1 .. n : s[k] = z /\ s[m] = y /\ (IF d = Forward THEN k <= m ELSE m <= k)
      BY <1>1, <2>1 DEF Ahead
    <3>2. PICK i \in 1 .. n - 1 : k = Moved(a, i)
      BY <1>3, <3>1
    <3>3. PICK j \in 1 .. n - 1 : m = Moved(a, j)
      BY <1>3, <2>1, <3>1
    <3>4. t[i] = z /\ t[j] = y
      BY <1>3, <3>1, <3>2, <3>3
    <3>5. IF d = Forward THEN i <= j ELSE j <= i
      BY <1>4, <3>1, <3>2, <3>3
    <3> QED
      BY <1>2, <3>4, <3>5 DEF Ahead
  <2>2. ASSUME y \in Ahead(t, d, z) PROVE y \in Ahead(s, d, z) /\ y # s[a]
    <3>1. PICK i \in 1 .. n - 1, j \in 1 .. n - 1 : t[i] = z /\ t[j] = y /\ (IF d = Forward THEN i <= j ELSE j <= i)
      BY <1>2, <2>2 DEF Ahead
    <3>2. PICK k \in 1 .. n, m \in 1 .. n : k = Moved(a, i) /\ m = Moved(a, j)
      BY <1>3
    <3>3. s[k] = z /\ s[m] = y
      BY <1>3, <3>1, <3>2
    <3>4. IF d = Forward THEN k <= m ELSE m <= k
      BY <1>4, <3>1, <3>2
    <3>5. m # a
      BY <1>1, <3>2 DEF Moved
    <3>6. y # s[a]
      BY <1>1, <3>3, <3>5, RowFacts
    <3> QED
      BY <1>1, <3>3, <3>4, <3>6 DEF Ahead
  <2> QED
    BY <2>1, <2>2
<1>6. Ahead(t, d, z) \subseteq Nodes /\ Ahead(s, d, z) \subseteq Nodes
  BY DEF Ahead
<1> QED
  BY <1>2, <1>5, <1>6

\* listGetIterator has the whole list ahead,
LEMMA AheadAll ==
  ASSUME NEW s \in Row
  PROVE  Ahead(s, Forward, Place(s, 1)) = Range(s) /\ Ahead(s, Backward, Place(s, Len(s))) = Range(s)
<1>1. PICK n \in Nat : n = Len(s)
  BY RowFacts
<1>2. Range(s) \subseteq Nodes
  BY RangeOf, RowFacts
<1>3. ASSUME NEW y \in Nodes
      PROVE  /\ y \in Ahead(s, Forward, Place(s, 1)) <=> y \in Range(s)
             /\ y \in Ahead(s, Backward, Place(s, n)) <=> y \in Range(s)
  <2>1. ASSUME y \in Range(s)
        PROVE  y \in Ahead(s, Forward, Place(s, 1)) /\ y \in Ahead(s, Backward, Place(s, n))
    <3>1. PICK j \in 1 .. n : s[j] = y
      BY <1>1, <2>1, RangeOf
    <3>2. 1 \in 1 .. n /\ n \in 1 .. n /\ 1 <= j /\ j <= n
      OBVIOUS
    <3>3. s[1] = Place(s, 1) /\ s[n] = Place(s, n)
      BY <1>1, <3>2, PlaceFacts
    <3>4. y \in Ahead(s, Forward, Place(s, 1))
      BY <1>1, <3>1, <3>2, <3>3 DEF Ahead
    <3>5. y \in Ahead(s, Backward, Place(s, n))
      BY <1>1, <3>1, <3>2, <3>3 DEF Ahead, Forward, Backward
    <3> QED
      BY <3>4, <3>5
  <2>2. ASSUME NEW d, NEW z, y \in Ahead(s, d, z) PROVE y \in Range(s)
    BY <2>2, RangeOf DEF Ahead
  <2> QED
    BY <2>1, <2>2
<1>4. \A d, z : Ahead(s, d, z) \subseteq Nodes
  BY DEF Ahead
<1> QED
  BY <1>1, <1>2, <1>3, <1>4

\* and listNext takes the node it returns, and no other, from what is ahead.
LEMMA AheadNext ==
  ASSUME NEW s \in Row, NEW i \in 1 .. Len(s), NEW d \in {Forward, Backward},
         NEW z, z = Place(s, IF d = Forward THEN i + 1 ELSE i - 1)
  PROVE  Ahead(s, d, z) = Ahead(s, d, s[i]) \ {s[i]} /\ z \in Range(s) \cup {NULL}
<1>1. PICK n \in Nat : n = Len(s)
  BY RowFacts
<1>2. PICK k \in Int : k = IF d = Forward THEN i + 1 ELSE i - 1
  BY <1>1
<1>3. z = Place(s, k)
  BY <1>2
<1>4. \A j, m \in 1 .. n : s[j] = s[m] => j = m
  BY <1>1, RowFacts
<1>5. ASSUME NEW y \in Nodes PROVE y \in Ahead(s, d, z) <=> y \in Ahead(s, d, s[i]) /\ y # s[i]
  <2>1. ASSUME y \in Ahead(s, d, z) PROVE y \in Ahead(s, d, s[i]) /\ y # s[i]
    <3>1. PICK p \in 1 .. n, j \in 1 .. n : s[p] = z /\ s[j] = y /\ (IF d = Forward THEN p <= j ELSE j <= p)
      BY <1>1, <2>1 DEF Ahead
    <3>2. z # NULL
      BY <1>1, <3>1, RowFacts
    <3>3. k \in 1 .. n
      BY <1>1, <1>3, <3>2, PlaceFacts
    <3>4. z = s[k]
      BY <1>1, <1>3, <3>3, PlaceFacts
    <3>5. p = k
      BY <1>4, <3>1, <3>3, <3>4
    <3>6. (IF d = Forward THEN i <= j ELSE j <= i) /\ i # j
      BY <1>1, <1>2, <3>1, <3>5 DEF Forward, Backward
    <3>7. y # s[i]
      BY <1>1, <1>4, <3>1, <3>6
    <3> QED
      BY <1>1, <3>1, <3>6, <3>7 DEF Ahead
  <2>2. ASSUME y \in Ahead(s, d, s[i]), y # s[i] PROVE y \in Ahead(s, d, z)
    <3>1. PICK p \in 1 .. n, j \in 1 .. n : s[p] = s[i] /\ s[j] = y /\ (IF d = Forward THEN p <= j ELSE j <= p)
      BY <1>1, <2>2 DEF Ahead
    <3>2. p = i /\ j # i
      BY <1>1, <1>4, <2>2, <3>1
    <3>3. k \in 1 .. n /\ (IF d = Forward THEN k <= j ELSE j <= k)
      BY <1>1, <1>2, <3>1, <3>2 DEF Forward, Backward
    <3>4. s[k] = z
      BY <1>1, <1>3, <3>3, PlaceFacts
    <3> QED
      BY <1>1, <3>1, <3>3, <3>4 DEF Ahead
  <2> QED
    BY <2>1, <2>2
<1>6. Ahead(s, d, z) \subseteq Nodes /\ Ahead(s, d, s[i]) \subseteq Nodes
  BY DEF Ahead
<1>7. z \in Range(s) \cup {NULL}
  <2>1. CASE k \in 1 .. n
    BY <1>1, <1>3, <2>1, PlaceFacts, RangeOf
  <2>2. CASE k \notin 1 .. n
    BY <1>1, <1>3, <2>2, PlaceFacts
  <2> QED
    BY <2>1, <2>2
<1> QED
  BY <1>5, <1>6, <1>7

\* What repeated listNext calls return is what is ahead.
LEMMA AheadTraversed ==
  ASSUME NEW h, NEW l, NEW s \in Row, Linked(h, l, s), NEW d \in {Forward, Backward},
         NEW z \in Range(s) \cup {NULL}
  PROVE  Range(Traversed(z, IF d = Forward THEN h.next ELSE h.prev)) = Ahead(s, d, z)
<1>1. PICK n \in Nat : n = Len(s)
  BY RowFacts
<1>2. Ahead(s, d, z) \subseteq Nodes
  BY DEF Ahead
<1>3. PICK a \in 1 .. n + 1 : z = (IF d = Forward THEN Place(s, a) ELSE Place(s, n + 1 - a))
  <2>1. CASE z = NULL
    <3>1. Place(s, n + 1) = NULL /\ Place(s, n + 1 - (n + 1)) = NULL
      BY <1>1, PlaceFacts
    <3> QED
      BY <2>1, <3>1
  <2>2. CASE z # NULL
    <3>1. PICK i \in 1 .. n : s[i] = z
      BY <1>1, <2>2, RangeOf
    <3>2. Place(s, i) = z
      BY <1>1, <3>1, PlaceFacts
    <3>3. n + 1 - i \in 1 .. n + 1 /\ i \in 1 .. n + 1 /\ n + 1 - (n + 1 - i) = i
      BY <1>1
    <3> QED
      BY <3>2, <3>3
  <2> QED
    BY <2>1, <2>2
<1>4. PICK f : f = IF d = Forward THEN h.next ELSE h.prev
  OBVIOUS
<1>5. PICK r \in Row : /\ r = (IF d = Forward THEN s ELSE Reverse(s)) /\ Len(r) = n /\ Follows(f, r)
                       /\ z = Place(r, a)
  <2>1. CASE d = Forward
    BY <1>1, <1>3, <1>4, <2>1 DEF Linked, Follows
  <2>2. CASE d # Forward
    <3>1. PICK r \in Row : r = Reverse(s) /\ Len(r) = n
      BY <1>1, Reversed
    <3>2. /\ \A k \in 1 .. n : r[k] = s[n + 1 - k]
          /\ \A k \in Int : Place(r, k) = Place(s, n + 1 - k)
      BY <1>1, <3>1, Reversed
    <3>3. ASSUME NEW k \in 1 .. n PROVE f[r[k]] = Place(r, k + 1)
      <4>1. PICK j \in 1 .. n : j = n + 1 - k
        <5>1. n + 1 - k \in 1 .. n
          BY <1>1
        <5> QED
          BY <5>1
      <4>2. r[k] = s[j] /\ Place(r, k + 1) = Place(s, n + 1 - (k + 1)) /\ n + 1 - (k + 1) = j - 1
        BY <3>2, <4>1
      <4>3. f[s[j]] = Place(s, j - 1)
        BY <1>1, <1>4, <2>2 DEF Linked
      <4> QED
        BY <4>2, <4>3
    <3>4. Follows(f, r)
      BY <3>1, <3>3 DEF Follows
    <3>5. z = Place(r, a)
      BY <1>3, <2>2, <3>2
    <3> QED
      BY <2>2, <3>1, <3>4, <3>5
  <2> QED
    BY <2>1, <2>2
<1>6. Traversed(z, f) = Rest(r, a)
  BY <1>5, TraversedRest
<1>7. ASSUME NEW y PROVE y \in Range(Rest(r, a)) <=> \E j \in 1 .. n : a <= j /\ r[j] = y
  <2>1. PICK u : u = Rest(r, a)
    OBVIOUS
  <2>2. u = [k \in 1 .. n + 1 - a |-> r[a + k - 1]]
    BY <1>5, <2>1 DEF Rest
  <2>3. y \in Range(u) <=> \E k \in 1 .. n + 1 - a : r[a + k - 1] = y
    BY <2>2 DEF Range
  <2>4. ASSUME NEW k \in 1 .. n + 1 - a PROVE a + k - 1 \in 1 .. n /\ a <= a + k - 1
    BY <1>1
  <2>5. ASSUME NEW j \in 1 .. n, a <= j PROVE j - a + 1 \in 1 .. n + 1 - a /\ a + (j - a + 1) - 1 = j
    BY <1>1, <2>5
  <2> QED
    BY <2>1, <2>3, <2>4, <2>5
<1>8. ASSUME NEW y \in Nodes PROVE y \in Ahead(s, d, z) <=> \E j \in 1 .. n : a <= j /\ r[j] = y
  <2>1. CASE d = Forward
    <3>1. ASSUME y \in Ahead(s, d, z) PROVE \E j \in 1 .. n : a <= j /\ r[j] = y
      <4>1. PICK i \in 1 .. n, j \in 1 .. n : s[i] = z /\ s[j] = y /\ i <= j
        BY <1>1, <2>1, <3>1 DEF Ahead
      <4>2. a = i
        BY <1>1, <1>3, <2>1, <4>1, PlaceFacts, RowFacts
      <4> QED
        BY <1>5, <2>1, <4>1, <4>2
    <3>2. ASSUME NEW j \in 1 .. n, a <= j, r[j] = y PROVE y \in Ahead(s, d, z)
      <4>1. a \in 1 .. n
        BY <3>2
      <4>2. s[a] = z /\ s[j] = y
        BY <1>1, <1>3, <1>5, <2>1, <3>2, <4>1, PlaceFacts
      <4> QED
        BY <1>1, <2>1, <3>2, <4>1, <4>2 DEF Ahead
    <3> QED
      BY <3>1, <3>2
  <2>2. CASE d # Forward
    <3>0. r = Reverse(s)
      BY <1>5, <2>2
    <3>3. \A k \in 1 .. n : r[k] = s[n + 1 - k]
      BY <1>1, <3>0, Reversed
    <3>1. ASSUME y \in Ahead(s, d, z) PROVE \E j \in 1 .. n : a <= j /\ r[j] = y
      <4>1. PICK i \in 1 .. n, j \in 1 .. n : s[i] = z /\ s[j] = y /\ j <= i
        BY <1>1, <2>2, <3>1 DEF Ahead
      <4>2. z # NULL
        BY <1>1, <4>1, RowFacts
      <4>3. n + 1 - a \in 1 .. n /\ z = Place(s, n + 1 - a)
        <5>1. z = Place(s, n + 1 - a) /\ n + 1 - a \in Int
          BY <1>1, <1>3, <2>2
        <5> QED
          BY <1>1, <4>2, <5>1, PlaceFacts
      <4>4. n + 1 - a = i
        BY <1>1, <4>1, <4>3, PlaceFacts, RowFacts
      <4>5. n + 1 - j \in 1 .. n /\ a <= n + 1 - j /\ n + 1 - (n + 1 - j) = j
        BY <1>1, <4>1, <4>4
      <4>6. r[n + 1 - j] = y
        BY <3>3, <4>1, <4>5
      <4> QED
        BY <4>5, <4>6
    <3>2. ASSUME NEW j \in 1 .. n, a <= j, r[j] = y PROVE y \in Ahead(s, d, z)
      <4>1. PICK i \in 1 .. n, k \in 1 .. n : i = n + 1 - a /\ k = n + 1 - j /\ k <= i
        <5>1. n + 1 - a \in 1 .. n /\ n + 1 - j \in 1 .. n /\ n + 1 - j <= n + 1 - a
          BY <1>1, <3>2
        <5> QED
          BY <5>1
      <4>2. s[i] = z
        BY <1>1, <1>3, <2>2, <4>1, PlaceFacts
      <4>3. s[k] = y
        BY <3>2, <3>3, <4>1
      <4> QED
        BY <1>1, <2>2, <4>1, <4>2, <4>3 DEF Ahead
    <3> QED
      BY <3>1, <3>2
  <2> QED
    BY <2>1, <2>2
<1>9. \A y : y \in Range(Rest(r, a)) => y \in Nodes
  <2>1. \A j \in 1 .. n : r[j] \in Nodes
    BY <1>5, RowFacts
  <2> QED
    BY <1>7, <2>1
<1>10. ASSUME NEW y PROVE y \in Range(Rest(r, a)) <=> y \in Ahead(s, d, z)
  <2>1. CASE y \in Nodes
    BY <1>7, <1>8, <2>1
  <2>2. CASE y \notin Nodes
    BY <1>2, <1>9, <2>2
  <2> QED
    BY <2>1, <2>2
<1> QED
  BY <1>4, <1>6, <1>10

IterType == [list : Lists, direction : {Forward, Backward}, next : Pointer,
             due : SUBSET Nodes, seen : SUBSET Nodes, turned : BOOLEAN]

\* The iterator stands on its row and, unless the list was rotated, has what
\* it owes ahead and nothing it has returned.
OnRow(s, it) ==
    /\ it.next \in Range(s) \cup {NULL}
    /\ ~it.turned => /\ it.due \subseteq Ahead(s, it.direction, it.next)
                     /\ it.seen \cap Ahead(s, it.direction, it.next) = {}

IterRight(R, N, M, it) ==
    it # NoIter => /\ it \in IterType /\ it.list \in M
                   /\ it.due \subseteq N /\ it.seen \subseteq N
                   /\ OnRow(R[it.list], it)

\* An iterator of a list is not the absence of one.
LEMMA IterIsOne ==
  ASSUME NEW it \in IterType
  PROVE  it # NoIter
<1>1. it.list \in Lists
  BY DEF IterType
<1>2. NoIter.list = NULL
  BY DEF NoIter
<1> QED
  BY <1>1, <1>2, AdlistAssumption

\* What is done to another list does not touch the iterator.
LEMMA IterElsewhere ==
  ASSUME NEW R, NEW N, NEW M, NEW it, IterRight(R, N, M, it), NEW l \in Lists,
         it # NoIter => it.list # l, NEW r, NEW B, NEW K, N \subseteq B,
         it # NoIter => it.list \in K
  PROVE  IterRight(Put(R, l, r), B, K, it)
<1> SUFFICES ASSUME it # NoIter
             PROVE  /\ it \in IterType /\ it.list \in K
                    /\ it.due \subseteq B /\ it.seen \subseteq B
                    /\ OnRow(Put(R, l, r)[it.list], it)
  BY DEF IterRight
<1>1. it \in IterType /\ it.due \subseteq N /\ it.seen \subseteq N /\ OnRow(R[it.list], it)
  BY DEF IterRight
<1>2. it.list \in Lists
  BY <1>1 DEF IterType
<1>3. Put(R, l, r)[it.list] = R[it.list]
  BY <1>2 DEF Put
<1> QED
  BY <1>1, <1>3

\* A node is put into a list, the iterator's or another.
LEMMA IterPut ==
  ASSUME NEW R \in [Lists -> Row], NEW N \in SUBSET Nodes, NEW M, NEW it, IterRight(R, N, M, it), NEW l \in Lists,
         NEW s, s = R[l], Range(s) \subseteq N,
         NEW x \in Nodes, x \notin N, NEW a \in 1 .. Len(s) + 1
  PROVE  IterRight(Put(R, l, With(s, a, x)), N \cup {x}, M, it)
<1> SUFFICES ASSUME it # NoIter PROVE IterRight(Put(R, l, With(s, a, x)), N \cup {x}, M, it)
  BY DEF IterRight
<1>1. it \in IterType /\ it.list \in M /\ it.due \subseteq N /\ it.seen \subseteq N /\ OnRow(R[it.list], it)
  BY DEF IterRight
<1>2. CASE it.list # l
  BY <1>1, <1>2, IterElsewhere
<1>3. CASE it.list = l
  <2>1. s \in Row /\ x \notin Range(s)
    OBVIOUS
  <2>2. PICK t \in Row : t = With(s, a, x) /\ Range(t) = Range(s) \cup {x}
    BY <2>1, WithRow
  <2>3. PICK d, z : d = it.direction /\ z = it.next
    OBVIOUS
  <2>4. z \in Range(s) \cup {NULL}
    BY <1>1, <1>3, <2>3 DEF OnRow
  <2>5. z # x
    BY <2>1, <2>4, AdlistAssumption
  <2>6. \A y \in Nodes : y # x => (y \in Ahead(t, d, z) <=> y \in Ahead(s, d, z))
    BY <2>1, <2>2, <2>5, AheadWith
  <2>7. x \notin it.due /\ x \notin it.seen /\ it.due \subseteq Nodes /\ it.seen \subseteq Nodes
    BY <1>1
  <2>8. ASSUME ~it.turned PROVE it.due \subseteq Ahead(t, d, z) /\ it.seen \cap Ahead(t, d, z) = {}
    <3>1. it.due \subseteq Ahead(s, d, z) /\ it.seen \cap Ahead(s, d, z) = {}
      BY <1>1, <1>3, <2>3, <2>8 DEF OnRow
    <3> QED
      BY <2>6, <2>7, <3>1
  <2>9. OnRow(t, it)
    BY <2>2, <2>3, <2>4, <2>8 DEF OnRow
  <2>10. Put(R, l, t)[it.list] = t
    BY <1>3 DEF Put
  <2> QED
    BY <1>1, <2>2, <2>9, <2>10 DEF IterRight
<1> QED
  BY <1>2, <1>3

\* A freed node is dropped from what the iterator owes and has returned.
Dropped(it, ns) == IF it = NoIter THEN it ELSE [it EXCEPT !.due = @ \ ns, !.seen = @ \ ns]

\* Only what the iterator owes and has returned changes.
LEMMA DroppedFacts ==
  ASSUME NEW it \in IterType, NEW ns
  PROVE  /\ Dropped(it, ns) \in IterType
         /\ Dropped(it, ns).due = it.due \ ns /\ Dropped(it, ns).seen = it.seen \ ns
         /\ Dropped(it, ns).list = it.list /\ Dropped(it, ns).direction = it.direction
         /\ Dropped(it, ns).next = it.next /\ (Dropped(it, ns).turned <=> it.turned)
<1>1. it # NoIter
  BY IterIsOne
<1>2. PICK o : o = [it EXCEPT !.due = @ \ ns, !.seen = @ \ ns]
  OBVIOUS
<1>3. Dropped(it, ns) = o
  BY <1>1, <1>2 DEF Dropped
<1>4. /\ o \in IterType
      /\ o.due = it.due \ ns /\ o.seen = it.seen \ ns
      /\ o.list = it.list /\ o.direction = it.direction
      /\ o.next = it.next /\ o.turned = it.turned
  BY <1>2 DEF IterType
<1> QED
  BY <1>3, <1>4

\* A node is taken out of a list, the iterator's or another, but not the one
\* the iterator returns next.
LEMMA IterTake ==
  ASSUME NEW R \in [Lists -> Row], NEW N, NEW M, NEW it, IterRight(R, N, M, it), NEW l \in Lists,
         NEW s, s = R[l], NEW a \in 1 .. Len(s), NEW x, x = s[a],
         it # NoIter /\ it.list = l => x # it.next
  PROVE  IterRight(Put(R, l, Removed(s, a)), N \ {x}, M, Dropped(it, {x}))
<1>0. CASE it = NoIter
  BY <1>0 DEF IterRight, Dropped
<1>1. CASE it # NoIter
  <2>1. it \in IterType /\ it.list \in M /\ it.due \subseteq N /\ it.seen \subseteq N /\ OnRow(R[it.list], it)
    BY <1>1 DEF IterRight
  <2>2. PICK o \in IterType : /\ o = Dropped(it, {x})
                              /\ o.due = it.due \ {x} /\ o.seen = it.seen \ {x}
                              /\ o.list = it.list /\ o.direction = it.direction
                              /\ o.next = it.next /\ (o.turned <=> it.turned)
    BY <2>1, DroppedFacts
  <2>3. o.due \subseteq N \ {x} /\ o.seen \subseteq N \ {x}
    BY <2>1, <2>2
  <2>4. PICK r, d, z : r \in Row /\ r = R[it.list] /\ d = it.direction /\ z = it.next
    <3>1. it.list \in Lists
      BY <2>1 DEF IterType
    <3> QED
      BY <3>1
  <2>5. PICK t : t = Put(R, l, Removed(s, a))[it.list]
    OBVIOUS
  <2>6. z \in Range(r) \cup {NULL}
    BY <2>1, <2>4 DEF OnRow
  <2>7. z \in Range(t) \cup {NULL} /\ Ahead(t, d, z) \subseteq Ahead(r, d, z) /\ Ahead(r, d, z) \ {x} \subseteq Ahead(t, d, z)
    <3>1. CASE it.list # l
      <4>1. t = r
        <5>1. it.list \in Lists
          BY <2>1 DEF IterType
        <5> QED
          BY <2>4, <2>5, <3>1, <5>1 DEF Put
      <4> QED
        BY <2>6, <4>1
    <3>2. CASE it.list = l
      <4>1. t = Removed(s, a) /\ r = s
        BY <2>4, <2>5, <3>2 DEF Put
      <4>2. z # x
        BY <1>1, <2>4, <3>2
      <4>3. Ahead(t, d, z) = Ahead(s, d, z) \ {s[a]} /\ Range(t) = Range(s) \ {s[a]}
        BY <4>1, <4>2, AheadRemoved, RemovedRow
      <4> QED
        BY <2>6, <4>1, <4>2, <4>3
    <3> QED
      BY <3>1, <3>2
  <2>8. ASSUME ~o.turned PROVE o.due \subseteq Ahead(t, d, z) /\ o.seen \cap Ahead(t, d, z) = {}
    <3>1. it.due \subseteq Ahead(r, d, z) /\ it.seen \cap Ahead(r, d, z) = {}
      BY <2>1, <2>2, <2>4, <2>8 DEF OnRow
    <3> QED
      BY <2>2, <2>7, <3>1
  <2>9. OnRow(t, o)
    BY <2>2, <2>4, <2>7, <2>8 DEF OnRow
  <2> QED
    BY <2>1, <2>2, <2>3, <2>5, <2>9 DEF IterRight
<1> QED
  BY <1>0, <1>1

-------------------------------------------------------------------------------
(* The program *)

Right(h, N, M, it, R) ==
    /\ h \in Heap /\ M \subseteq Lists
    /\ Rowed(h, N, R)
    /\ \A l \in Lists : l \notin M => R[l] = <<>>
    /\ IterRight(R, N, M, it)

\* The inductive invariant: the links are those of some rows of nodes.
ListInv == \E R : Right(heap, live, made, iter, R)

\* The rows are what the traversals meet.
LEMMA RowIs ==
  ASSUME NEW R, Rowed(heap, live, R), NEW l \in Lists
  PROVE  /\ R[l] \in Row /\ Linked(heap, l, R[l])
         /\ listpretraval(l) = R[l] /\ listposttraval(l) = Reverse(R[l])
         /\ heap.len[l] = Len(R[l]) /\ Range(R[l]) \subseteq live
<1>1. PICK s \in Row : s = R[l] /\ Linked(heap, l, s)
  BY DEF Rowed
<1>2. Traversed(heap.head[l], heap.next) = s
  BY <1>1, ForwardWalk
<1>3. Traversed(heap.tail[l], heap.prev) = Reverse(s)
  BY <1>1, BackwardWalk
<1>4. heap.len[l] = Len(s) /\ Range(s) \subseteq Nodes
  BY <1>1, EndFacts
<1>5. Range(s) \subseteq live
  BY <1>1, <1>4 DEF Rowed
<1> QED
  BY <1>1, <1>2, <1>3, <1>4, <1>5 DEF listpretraval, listposttraval

\* Before the first listCreate there is no list and no node.
LEMMA InitRight == AdlistInit => ListInv
<1> SUFFICES ASSUME AdlistInit PROVE ListInv
  OBVIOUS
<1>1. PICK P \in [Nodes -> Pointer], V \in [Nodes -> Value] :
         P = [n \in Nodes |-> NULL] /\ V = [n \in Nodes |-> NULL]
  BY DEF Pointer, Value
<1>2. PICK H \in [Lists -> Pointer], K \in [Lists -> Int] :
         H = [l \in Lists |-> NULL] /\ K = [l \in Lists |-> 0]
  <2>1. [l \in Lists |-> NULL] \in [Lists -> Pointer]
    BY DEF Pointer
  <2>2. [l \in Lists |-> 0] \in [Lists -> Int]
    OBVIOUS
  <2> QED
    BY <2>1, <2>2
<1>3. heap = [prev |-> P, next |-> P, value |-> V, head |-> H, tail |-> H, len |-> K]
  BY <1>1, <1>2 DEF AdlistInit
<1>4. heap \in Heap
  BY <1>3, MakeHeap
<1>5. PICK R : R = [l \in Lists |-> <<>>]
  OBVIOUS
<1>6. ASSUME NEW l \in Lists PROVE Linked(heap, l, R[l])
  <2>1. heap.len[l] = 0 /\ heap.head[l] = NULL /\ heap.tail[l] = NULL
    BY <1>2, <1>3
  <2> QED
    BY <1>5, <2>1, EmptyRow DEF Linked
<1>7. Rowed(heap, live, R)
  BY <1>5, <1>6, EmptyRow DEF Rowed, AdlistInit
<1>8. IterRight(R, live, made, iter)
  BY DEF IterRight, AdlistInit
<1> QED
  BY <1>4, <1>5, <1>7, <1>8 DEF ListInv, Right, AdlistInit

\* A new node comes into list l: the step of listAddNodeHead, listAddNodeTail
\* and listInsertNode.
LEMMA NodePut ==
  ASSUME NEW R, Right(heap, live, made, iter, R), NEW l \in made, NEW n \in Nodes, n \notin live,
         NEW s, s = R[l], NEW g \in Heap, NEW a \in 1 .. Len(s) + 1,
         Spliced(heap, g, l, n, Place(s, a - 1), Place(s, a)),
         heap' = g, live' = live \cup {n}, made' = made, iter' = iter
  PROVE  ListInv'
<1>1. PICK h, N, M, it : h = heap /\ N = live /\ M = made /\ it = iter
  OBVIOUS
<1>2. Rowed(h, N, R) /\ IterRight(R, N, M, it) /\ l \in Lists /\ M \subseteq Lists
  BY <1>1 DEF Right
<1>3. PICK Q : Q = Put(R, l, With(s, a, n))
  OBVIOUS
<1>4. Rowed(g, N \cup {n}, Q)
  BY <1>1, <1>2, <1>3, PutIn
<1>5. R \in [Lists -> Row] /\ N \in SUBSET Nodes
  BY <1>2 DEF Rowed
<1>6. Range(s) \subseteq N
  BY <1>1, <1>2, RowIs
<1>7. IterRight(Q, N \cup {n}, M, it)
  BY <1>1, <1>2, <1>3, <1>5, <1>6, IterPut
<1>8. ASSUME NEW m \in Lists, m \notin M PROVE Q[m] = <<>>
  <2>1. m # l /\ R[m] = <<>>
    BY <1>1, <1>8 DEF Right
  <2> QED
    BY <1>3, <2>1 DEF Put
<1>9. Right(g, N \cup {n}, M, it, Q)
  BY <1>2, <1>4, <1>7, <1>8 DEF Right
<1> QED
  BY <1>1, <1>9 DEF ListInv

\* listAddNodeHead keeps the invariant.
LEMMA AddNodeHeadRight ==
  ASSUME ListInv, NEW l \in Lists, NEW n \in Nodes, NEW v \in Elements, listAddNodeHead(l, n, v)
  PROVE  ListInv'
<1>1. PICK R : Right(heap, live, made, iter, R)
  BY DEF ListInv
<1>2. /\ l \in made /\ n \notin live /\ heap' = AddNodeHead(heap, l, n, v)
      /\ live' = live \cup {n} /\ made' = made /\ iter' = iter
  BY DEF listAddNodeHead
<1>3. heap \in Heap /\ Rowed(heap, live, R)
  BY <1>1 DEF Right
<1>4. PICK s \in Row : s = R[l] /\ Linked(heap, l, s) /\ n \notin Range(s)
  BY <1>2, <1>3, RowIs
<1>5. v \in Value
  BY DEF Value
<1>6. PICK a \in 1 .. Len(s) + 1 : a = 1 /\ a - 1 = 0
  BY RowFacts
<1>7. PICK g \in Heap : g = AddNodeHead(heap, l, n, v) /\ Spliced(heap, g, l, n, Place(s, a - 1), Place(s, a))
  BY <1>3, <1>4, <1>5, <1>6, AddNodeHeadSplices
<1> QED
  BY <1>1, <1>2, <1>4, <1>7, NodePut

\* listAddNodeTail keeps it.
LEMMA AddNodeTailRight ==
  ASSUME ListInv, NEW l \in Lists, NEW n \in Nodes, NEW v \in Elements, listAddNodeTail(l, n, v)
  PROVE  ListInv'
<1>1. PICK R : Right(heap, live, made, iter, R)
  BY DEF ListInv
<1>2. /\ l \in made /\ n \notin live /\ heap' = AddNodeTail(heap, l, n, v)
      /\ live' = live \cup {n} /\ made' = made /\ iter' = iter
  BY DEF listAddNodeTail
<1>3. heap \in Heap /\ Rowed(heap, live, R)
  BY <1>1 DEF Right
<1>4. PICK s \in Row : s = R[l] /\ Linked(heap, l, s) /\ n \notin Range(s)
  BY <1>2, <1>3, RowIs
<1>5. v \in Value
  BY DEF Value
<1>6. PICK a \in 1 .. Len(s) + 1 : a = Len(s) + 1 /\ a - 1 = Len(s)
  BY RowFacts
<1>7. PICK g \in Heap : g = AddNodeTail(heap, l, n, v) /\ Spliced(heap, g, l, n, Place(s, a - 1), Place(s, a))
  BY <1>3, <1>4, <1>5, <1>6, AddNodeTailSplices
<1> QED
  BY <1>1, <1>2, <1>4, <1>7, NodePut

\* listIndex counts from the head, or with a negative index from the tail, and
\* answers with a node of the list.
LEMMA IndexInRow ==
  ASSUME NEW R, Rowed(heap, live, R), NEW l \in Lists, NEW s, s = R[l],
         NEW i \in -heap.len[l] .. (heap.len[l] - 1), listIndex(l, i) # NULL
  PROVE  \E a \in 1 .. Len(s) : listIndex(l, i) = s[a]
<1>1. s \in Row /\ Linked(heap, l, s) /\ heap.len[l] = Len(s)
  BY RowIs
<1>2. PICK n \in Nat : n = Len(s) /\ n <= Cardinality(Nodes) /\ Cardinality(Nodes) \in Nat
  BY <1>1, RowFacts
<1>3. i \in Int /\ i >= -n /\ i <= n - 1
  BY <1>1, <1>2
<1>4. CASE i >= 0
  <2>1. PICK f : f = heap.next
    OBVIOUS
  <2>2. Follows(f, s)
    BY <1>1, <2>1 DEF Linked, Follows
  <2>3. PICK b \in 1 .. Len(s) + 1 : b = 1
    BY <1>2
  <2>4. \A k \in 0 .. Cardinality(Nodes) : Walk(Place(s, b), f)[k] = Place(s, b + k)
    BY <1>1, <2>2, WalkAlong
  <2>5. i \in 0 .. Cardinality(Nodes) /\ 1 + i \in 1 .. Len(s)
    BY <1>2, <1>3, <1>4
  <2>6. listIndex(l, i) = Walk(Place(s, b), f)[i]
    BY <1>1, <1>4, <1>3, <2>1, <2>3 DEF listIndex, Linked
  <2>7. listIndex(l, i) = Place(s, 1 + i)
    BY <2>3, <2>4, <2>5, <2>6
  <2>8. listIndex(l, i) = s[1 + i]
    BY <1>1, <2>5, <2>7, PlaceFacts
  <2> QED
    BY <2>5, <2>8
<1>5. CASE i < 0
  <2>1. PICK f : f = heap.prev
    OBVIOUS
  <2>2. PICK r \in Row : r = Reverse(s) /\ Len(r) = n
    BY <1>1, <1>2, Reversed
  <2>3. /\ \A k \in 1 .. n : r[k] = s[n + 1 - k]
        /\ \A k \in Int : Place(r, k) = Place(s, n + 1 - k)
    <3>1. /\ \A k \in 1 .. Len(s) : Reverse(s)[k] = s[Len(s) + 1 - k]
          /\ \A k \in Int : Place(Reverse(s), k) = Place(s, Len(s) + 1 - k)
      BY <1>1, Reversed
    <3> QED
      BY <1>2, <2>2, <3>1, Zenon
  <2>4. Follows(f, r)
    <3>1. ASSUME NEW k \in 1 .. n PROVE f[r[k]] = Place(r, k + 1)
      <4>1. PICK j \in 1 .. n : j = n + 1 - k
        <5>1. n + 1 - k \in 1 .. n
          BY <1>2
        <5> QED
          BY <5>1
      <4>2. r[k] = s[j] /\ Place(r, k + 1) = Place(s, n + 1 - (k + 1)) /\ n + 1 - (k + 1) = j - 1
        BY <2>3, <4>1
      <4>3. f[s[j]] = Place(s, j - 1)
        BY <1>1, <1>2, <2>1 DEF Linked
      <4> QED
        BY <4>2, <4>3
    <3> QED
      BY <2>2, <3>1 DEF Follows
  <2>5. PICK b \in 1 .. Len(r) + 1 : b = 1
    BY <2>2
  <2>6. \A k \in 0 .. Cardinality(Nodes) : Walk(Place(r, b), f)[k] = Place(r, b + k)
    BY <2>4, WalkAlong
  <2>7. PICK k \in 0 .. Cardinality(Nodes) : k = -i - 1 /\ 1 + k = -i /\ n + 1 - (1 + k) \in 1 .. n
    <3>1. PICK j \in Int : j = -i
      BY <1>3
    <3>2. j >= 1 /\ j <= n
      BY <1>2, <1>3, <1>5, <3>1
    <3>3. PICK C \in Nat : C = Cardinality(Nodes) /\ n <= C
      BY <1>2
    <3>4. j - 1 \in 0 .. C
      BY <3>2, <3>3
    <3>5. 1 + (j - 1) = j /\ n + 1 - j \in 1 .. n
      BY <1>2, <3>2
    <3> QED
      BY <3>1, <3>3, <3>4, <3>5
  <2>8. heap.tail[l] = Place(r, b)
    <3>1. Place(r, 1) = Place(s, n + 1 - 1) /\ n + 1 - 1 = n
      BY <1>2, <2>3
    <3> QED
      BY <1>1, <1>2, <2>5, <3>1 DEF Linked
  <2>9. listIndex(l, i) = Walk(Place(r, b), f)[k]
    BY <1>5, <2>1, <2>7, <2>8 DEF listIndex
  <2>10. listIndex(l, i) = Place(r, 1 + k)
    BY <2>5, <2>6, <2>9
  <2>11. Place(r, 1 + k) = Place(s, n + 1 - (1 + k))
    BY <2>3, <2>7
  <2>12. Place(s, n + 1 - (1 + k)) = s[n + 1 - (1 + k)]
    BY <1>1, <1>2, <2>7, PlaceFacts
  <2> QED
    BY <1>2, <2>7, <2>10, <2>11, <2>12
<1> QED
  BY <1>3, <1>4, <1>5

\* listInsertNode keeps it, whichever node listIndex has found.
LEMMA InsertNodeRight ==
  ASSUME ListInv, NEW l \in Lists, NEW n \in Nodes, NEW v \in Elements,
         NEW i \in -heap.len[l] .. (heap.len[l] - 1), NEW after \in BOOLEAN,
         listInsertNode(l, i, n, v, after)
  PROVE  ListInv'
<1>1. PICK R : Right(heap, live, made, iter, R)
  BY DEF ListInv
<1>2. PICK old : old = listIndex(l, i)
  OBVIOUS
<1>3. /\ l \in made /\ n \notin live /\ old # NULL /\ heap' = InsertNode(heap, l, old, n, v, after)
      /\ live' = live \cup {n} /\ made' = made /\ iter' = iter
  BY <1>2 DEF listInsertNode
<1>4. heap \in Heap /\ Rowed(heap, live, R)
  BY <1>1 DEF Right
<1>5. PICK s \in Row : s = R[l] /\ Linked(heap, l, s) /\ n \notin Range(s)
  BY <1>3, <1>4, RowIs
<1>6. PICK a \in 1 .. Len(s) : old = s[a]
  BY <1>2, <1>3, <1>4, <1>5, IndexInRow
<1>7. v \in Value
  BY DEF Value
<1>8. PICK b \in 1 .. Len(s) + 1 : b = IF after THEN a + 1 ELSE a
  BY RowFacts
<1>9. PICK g \in Heap : g = InsertNode(heap, l, old, n, v, after) /\ Spliced(heap, g, l, n, Place(s, b - 1), Place(s, b))
  BY <1>4, <1>5, <1>6, <1>7, <1>8, InsertNodeSplices
<1> QED
  BY <1>1, <1>3, <1>5, <1>9, NodePut

\* listSearchKey answers with a node of the list.
LEMMA SearchInRow ==
  ASSUME NEW R, Rowed(heap, live, R), NEW l \in Lists, NEW s, s = R[l], NEW key, listSearchKey(l, key) # NULL
  PROVE  \E a \in 1 .. Len(s) : listSearchKey(l, key) = s[a]
<1>1. s \in Row /\ listpretraval(l) = s
  BY RowIs
<1>2. DOMAIN s = 1 .. Len(s) /\ Len(s) \in Nat
  BY <1>1, RowFacts
<1>3. PICK found : found = {i \in DOMAIN s : heap.value[s[i]] = key}
  OBVIOUS
<1>4. found \subseteq 1 .. Len(s) /\ found \subseteq Nat
  BY <1>2, <1>3
<1>5. listSearchKey(l, key) = IF found = {} THEN NULL ELSE s[Min(found)]
  BY <1>1, <1>3 DEF listSearchKey
<1>6. found # {}
  BY <1>5
<1>7. \E x \in found : \A y \in found : x <= y
  BY <1>4, <1>6, Smallest
<1>8. Min(found) \in found
  BY <1>7 DEF Min
<1> QED
  BY <1>4, <1>5, <1>6, <1>8

\* listDelNode keeps it, unless it frees the node the iterator returns next.
LEMMA DelNodeRight ==
  ASSUME ListInv, NEW l \in Lists, NEW key \in Elements, listDelNode(l, key)
  PROVE  ListInv'
<1>1. PICK R : Right(heap, live, made, iter, R)
  BY DEF ListInv
<1>2. PICK x : x = listSearchKey(l, key)
  OBVIOUS
<1>3. /\ l \in made /\ x # NULL /\ (iter # NoIter /\ iter.list = l => x # iter.next)
      /\ heap' = DelNode(heap, l, x) /\ live' = live \ {x} /\ made' = made /\ iter' = Dropped(iter, {x})
  BY <1>2 DEF listDelNode, Iterating, IterWithout, Dropped
<1>4. PICK h, N, M, it : h = heap /\ N = live /\ M = made /\ it = iter
  OBVIOUS
<1>5. h \in Heap /\ Rowed(h, N, R) /\ IterRight(R, N, M, it) /\ M \subseteq Lists
  BY <1>1, <1>4 DEF Right
<1>6. PICK s \in Row : s = R[l] /\ Linked(h, l, s)
  BY <1>4, <1>5, RowIs
<1>7. PICK a \in 1 .. Len(s) : x = s[a]
  BY <1>2, <1>3, <1>4, <1>5, <1>6, SearchInRow
<1>8. PICK g \in Heap : g = DelNode(h, l, x) /\ Cut(h, g, l, s[a], Place(s, a - 1), Place(s, a + 1))
  BY <1>5, <1>6, <1>7, DelNodeCuts
<1>9. PICK Q : Q = Put(R, l, Removed(s, a))
  OBVIOUS
<1>10. Rowed(g, N \ {x}, Q)
  <2>1. Rowed(g, N \ {s[a]}, Put(R, l, Removed(s, a)))
    BY <1>5, <1>6, <1>8, TakeOut
  <2> QED
    BY <1>7, <1>9, <2>1
<1>11. R \in [Lists -> Row]
  BY <1>5 DEF Rowed
<1>12. IterRight(Q, N \ {x}, M, Dropped(it, {x}))
  <2>1. it # NoIter /\ it.list = l => x # it.next
    BY <1>3, <1>4
  <2> QED
    BY <1>5, <1>6, <1>7, <1>9, <1>11, <2>1, IterTake
<1>13. ASSUME NEW m \in Lists, m \notin M PROVE Q[m] = <<>>
  <2>1. m # l /\ R[m] = <<>>
    BY <1>1, <1>3, <1>4, <1>13 DEF Right
  <2> QED
    BY <1>9, <2>1 DEF Put
<1>14. Right(g, N \ {x}, M, Dropped(it, {x}), Q)
  BY <1>5, <1>10, <1>12, <1>13 DEF Right
<1> QED
  BY <1>3, <1>4, <1>8, <1>14 DEF ListInv

\* listRotate keeps it; an iterator of the list is turned.
LEMMA RotateRight ==
  ASSUME ListInv, NEW l \in Lists, listRotate(l)
  PROVE  ListInv'
<1>1. PICK R : Right(heap, live, made, iter, R)
  BY DEF ListInv
<1>2. PICK h, N, M, it : h = heap /\ N = live /\ M = made /\ it = iter
  OBVIOUS
<1>3. h \in Heap /\ Rowed(h, N, R) /\ IterRight(R, N, M, it) /\ M \subseteq Lists
  BY <1>1, <1>2 DEF Right
<1>4. PICK o : o = IF it # NoIter /\ it.list = l THEN [it EXCEPT !.turned = TRUE] ELSE it
  OBVIOUS
<1>5. l \in M /\ h.len[l] > 1 /\ heap' = Rotated(h, l) /\ live' = N /\ made' = M /\ iter' = o
  BY <1>2, <1>4 DEF listRotate, Iterating
<1>6. PICK g, r, Q :
         g \in Heap /\ r \in Row /\ g = Rotated(h, l) /\ Q = Put(R, l, r) /\ Rowed(g, N, Q) /\ Range(r) = Range(R[l])
  BY <1>3, <1>5, RotatedRowed
<1>7. IterRight(Q, N, M, o)
  <2>1. CASE it # NoIter /\ it.list = l
    <3>1. it \in IterType /\ it.list \in M /\ it.due \subseteq N /\ it.seen \subseteq N /\ OnRow(R[it.list], it)
      BY <1>3, <2>1 DEF IterRight
    <3>2. o = [it EXCEPT !.turned = TRUE]
      BY <1>4, <2>1
    <3>3. o \in IterType /\ o.list = l /\ o.due = it.due /\ o.seen = it.seen /\ o.next = it.next /\ o.turned = TRUE
      BY <2>1, <3>1, <3>2 DEF IterType
    <3>4. Q[l] = r
      BY <1>6 DEF Put
    <3>5. OnRow(r, o)
      BY <1>6, <2>1, <3>1, <3>3 DEF OnRow
    <3> QED
      BY <1>5, <3>1, <3>3, <3>4, <3>5 DEF IterRight
  <2>2. CASE it # NoIter /\ it.list # l
    <3>1. o = it /\ it.list \in M
      BY <1>3, <1>4, <2>2 DEF IterRight
    <3> QED
      BY <1>3, <1>6, <2>2, <3>1, IterElsewhere
  <2>3. CASE it = NoIter
    BY <1>4, <2>3 DEF IterRight
  <2> QED
    BY <2>1, <2>2, <2>3
<1>8. ASSUME NEW m \in Lists, m \notin M PROVE Q[m] = <<>>
  <2>1. m # l /\ R[m] = <<>>
    BY <1>1, <1>2, <1>5, <1>8 DEF Right
  <2> QED
    BY <1>6, <2>1 DEF Put
<1>9. Right(g, N, M, o, Q)
  BY <1>3, <1>6, <1>7, <1>8 DEF Right
<1> QED
  BY <1>5, <1>6, <1>9 DEF ListInv

\* listCreate keeps it.
LEMMA CreateRight ==
  ASSUME ListInv, NEW l \in Lists, listCreate(l)
  PROVE  ListInv'
<1>1. PICK R : Right(heap, live, made, iter, R)
  BY DEF ListInv
<1>2. PICK h, N, M, it : h = heap /\ N = live /\ M = made /\ it = iter
  OBVIOUS
<1>3. h \in Heap /\ Rowed(h, N, R) /\ IterRight(R, N, M, it) /\ M \subseteq Lists
  BY <1>1, <1>2 DEF Right
<1>4. l \notin M /\ heap' = Emptied(h, l) /\ live' = N /\ made' = M \cup {l} /\ iter' = it
  BY <1>2 DEF listCreate
<1>5. PICK g \in Heap : g = Emptied(h, l) /\ Rowed(g, N, R)
  BY <1>1, <1>2, <1>3, <1>4, CreatedRowed DEF Right
<1>6. IterRight(R, N, M \cup {l}, it)
  BY <1>3 DEF IterRight
<1>7. \A m \in Lists : m \notin M \cup {l} => R[m] = <<>>
  BY <1>1, <1>2 DEF Right
<1>8. Right(g, N, M \cup {l}, it, R)
  BY <1>3, <1>5, <1>6, <1>7 DEF Right
<1> QED
  BY <1>4, <1>5, <1>8 DEF ListInv

\* listRelease, which frees as many nodes as len says, frees those of the list.
LEMMA ReleaseRight ==
  ASSUME ListInv, NEW l \in Lists, listRelease(l)
  PROVE  ListInv'
<1>1. PICK R : Right(heap, live, made, iter, R)
  BY DEF ListInv
<1>2. PICK h, N, M, it : h = heap /\ N = live /\ M = made /\ it = iter
  OBVIOUS
<1>3. h \in Heap /\ Rowed(h, N, R) /\ IterRight(R, N, M, it) /\ M \subseteq Lists
  BY <1>1, <1>2 DEF Right
<1>4. PICK s \in Row : s = R[l] /\ Linked(h, l, s) /\ h.len[l] = Len(s)
  BY <1>2, <1>3, RowIs
<1>5. PICK n \in Nat : n = Len(s) /\ n <= Cardinality(Nodes) /\ Cardinality(Nodes) \in Nat
  BY RowFacts
<1>6. PICK w, ns : w = Walk(h.head[l], h.next) /\ ns = {w[k] : k \in 0 .. (h.len[l] - 1)}
  OBVIOUS
<1>7. /\ l \in M /\ ~(it # NoIter /\ it.list = l)
      /\ live' = N \ ns /\ heap' = Emptied(Freed(h, ns), l) /\ iter' = Dropped(it, ns) /\ made' = M \ {l}
  BY <1>2, <1>6 DEF listRelease, Iterating, IterWithout, Dropped
<1>8. ns = Range(s)
  <2>1. PICK f : f = h.next
    OBVIOUS
  <2>2. Follows(f, s)
    BY <1>4, <2>1 DEF Linked, Follows
  <2>3. PICK b \in 1 .. Len(s) + 1 : b = 1
    BY <1>5
  <2>4. \A k \in 0 .. Cardinality(Nodes) : Walk(Place(s, b), f)[k] = Place(s, b + k)
    BY <2>2, WalkAlong
  <2>5. w = Walk(Place(s, b), f)
    BY <1>4, <1>6, <2>1, <2>3 DEF Linked
  <2>6. ASSUME NEW k \in 0 .. n - 1 PROVE w[k] = s[k + 1] /\ k + 1 \in 1 .. n
    <3>1. k \in 0 .. Cardinality(Nodes) /\ 1 + k = k + 1 /\ k + 1 \in 1 .. n
      BY <1>5
    <3>2. w[k] = Place(s, k + 1)
      BY <2>3, <2>4, <2>5, <3>1
    <3> QED
      BY <1>5, <3>1, <3>2, PlaceFacts
  <2>7. ASSUME NEW j \in 1 .. n PROVE j - 1 \in 0 .. n - 1 /\ (j - 1) + 1 = j
    BY <1>5
  <2>8. ns = {w[k] : k \in 0 .. n - 1}
    BY <1>4, <1>5, <1>6
  <2>9. ASSUME NEW y PROVE y \in ns <=> \E j \in 1 .. n : s[j] = y
    <3>1. ASSUME y \in ns PROVE \E j \in 1 .. n : s[j] = y
      BY <2>6, <2>8, <3>1
    <3>2. ASSUME NEW j \in 1 .. n, s[j] = y PROVE y \in ns
      <4>1. w[j - 1] = s[j]
        BY <2>6, <2>7
      <4> QED
        BY <2>7, <2>8, <3>2, <4>1
    <3> QED
      BY <3>1, <3>2
  <2>10. \A y : y \in Range(s) <=> \E j \in 1 .. n : s[j] = y
    BY <1>5, RangeOf
  <2> QED
    BY <2>9, <2>10
<1>9. PICK g, Q : g \in Heap /\ g = Emptied(Freed(h, ns), l) /\ Q = Put(R, l, <<>>) /\ Rowed(g, N \ ns, Q)
  BY <1>3, <1>4, <1>8, ReleasedRowed
<1>10. IterRight(Q, N \ ns, M \ {l}, Dropped(it, ns))
  <2>1. CASE it = NoIter
    BY <2>1 DEF IterRight, Dropped
  <2>2. CASE it # NoIter
    <3>1. it \in IterType /\ it.list \in M /\ it.due \subseteq N /\ it.seen \subseteq N /\ OnRow(R[it.list], it)
      BY <1>3, <2>2 DEF IterRight
    <3>2. PICK o \in IterType : /\ o = Dropped(it, ns)
                                /\ o.due = it.due \ ns /\ o.seen = it.seen \ ns
                                /\ o.list = it.list /\ o.direction = it.direction
                                /\ o.next = it.next /\ (o.turned <=> it.turned)
      BY <3>1, DroppedFacts
    <3>3. it.list # l /\ it.list \in Lists
      BY <1>7, <2>2, <3>1 DEF IterType
    <3>4. Q[it.list] = R[it.list]
      BY <1>9, <3>3 DEF Put
    <3>5. PICK r \in Row : r = R[it.list] /\ Range(r) \cap ns = {}
      BY <1>3, <1>4, <1>8, <3>3 DEF Rowed
    <3>6. Ahead(r, it.direction, it.next) \subseteq Range(r)
      BY <3>5, RangeOf DEF Ahead
    <3>7. OnRow(r, o)
      <4>1. ASSUME ~o.turned
            PROVE  /\ o.due \subseteq Ahead(r, o.direction, o.next)
                   /\ o.seen \cap Ahead(r, o.direction, o.next) = {}
        <5>1. /\ it.due \subseteq Ahead(r, it.direction, it.next)
              /\ it.seen \cap Ahead(r, it.direction, it.next) = {}
          BY <3>1, <3>2, <3>5, <4>1 DEF OnRow
        <5> QED
          BY <3>2, <5>1
      <4>2. o.next \in Range(r) \cup {NULL}
        BY <3>1, <3>2, <3>5 DEF OnRow
      <4> QED
        BY <4>1, <4>2 DEF OnRow
    <3>8. o.due \subseteq N \ ns /\ o.seen \subseteq N \ ns /\ o.list \in M \ {l}
      BY <3>1, <3>2, <3>3
    <3> QED
      BY <3>2, <3>4, <3>5, <3>7, <3>8 DEF IterRight
  <2> QED
    BY <2>1, <2>2
<1>11. ASSUME NEW m \in Lists, m \notin M \ {l} PROVE Q[m] = <<>>
  <2>1. m = l \/ R[m] = <<>>
    BY <1>1, <1>2, <1>11 DEF Right
  <2> QED
    BY <1>9, <2>1 DEF Put
<1>12. Right(g, N \ ns, M \ {l}, Dropped(it, ns), Q)
  BY <1>3, <1>9, <1>10, <1>11 DEF Right
<1> QED
  BY <1>7, <1>9, <1>12 DEF ListInv

\* listDup keeps it: it changes no node of another list.
LEMMA DupRight ==
  ASSUME ListInv, NEW orig \in Lists, NEW copy \in Lists, listDup(orig, copy)
  PROVE  ListInv'
<1>1. PICK R : Right(heap, live, made, iter, R)
  BY DEF ListInv
<1>2. PICK h, N, M, it : h = heap /\ N = live /\ M = made /\ it = iter
  OBVIOUS
<1>3. h \in Heap /\ Rowed(h, N, R) /\ IterRight(R, N, M, it) /\ M \subseteq Lists
  BY <1>1, <1>2 DEF Right
<1>4. PICK s \in Row : s = R[orig] /\ listpretraval(orig) = s
  BY <1>2, <1>3, RowIs
<1>5. PICK n \in Nat : n = Len(s) /\ DOMAIN s = 1 .. n /\ \A k \in 1 .. n : s[k] \in Nodes
  BY RowFacts
<1>6. PICK values : values = [i \in DOMAIN s |-> h.value[s[i]]]
  OBVIOUS
<1>7. PICK new \in [1 .. n -> Nodes \ N] :
         /\ IsInjective(new)
         /\ heap' = Dup(Emptied(h, copy), copy, new, values) /\ live' = N \cup Range(new)
  BY <1>2, <1>4, <1>5, <1>6 DEF listDup
<1>8. copy \notin M /\ made' = M \cup {copy} /\ iter' = it
  BY <1>2 DEF listDup
<1>9. PICK e \in Heap : e = Emptied(h, copy) /\ Rowed(e, N, R)
  BY <1>1, <1>2, <1>3, <1>8, CreatedRowed DEF Right
<1>10. Len(values) = n /\ \A k \in 1 .. n : values[k] \in Value
  <2>1. values = [i \in 1 .. n |-> h.value[s[i]]]
    BY <1>5, <1>6
  <2>2. ASSUME NEW k \in 1 .. n PROVE h.value[s[k]] \in Value
    BY <1>3, <1>5, HeapFields
  <2>3. values \in [1 .. n -> Value]
    BY <2>1, <2>2
  <2> QED
    BY <2>3, LenProperties, SeqDef
<1>11. PICK g, r, Q, B :
          /\ g \in Heap /\ r \in Row /\ g = Dup(e, copy, new, values) /\ Q = Put(R, copy, r) /\ B = N \cup Range(new)
          /\ Rowed(g, B, Q)
  <2>1. PICK g : g = Dup(e, copy, new, values)
    OBVIOUS
  <2>2. g \in Heap /\ \E r \in Row : Rowed(g, N \cup Range(new), Put(R, copy, r))
    BY <1>7, <1>9, <1>10, <2>1, DupRowed
  <2> QED
    BY <2>1, <2>2
<1>12. IterRight(Q, B, M \cup {copy}, it)
  <2>1. it # NoIter => it.list \in M /\ it.list # copy
    BY <1>3, <1>8 DEF IterRight
  <2>2. PICK K : K = M \cup {copy}
    OBVIOUS
  <2>3. N \subseteq B
    BY <1>11
  <2> QED
    BY <1>3, <1>11, <2>1, <2>2, <2>3, IterElsewhere
<1>13. ASSUME NEW m \in Lists, m \notin M \cup {copy} PROVE Q[m] = <<>>
  <2>1. m # copy /\ R[m] = <<>>
    BY <1>1, <1>2, <1>13 DEF Right
  <2> QED
    BY <1>11, <2>1 DEF Put
<1>14. Right(g, B, M \cup {copy}, it, Q)
  BY <1>3, <1>11, <1>12, <1>13 DEF Right
<1> QED
  BY <1>7, <1>8, <1>9, <1>11, <1>14 DEF ListInv

\* A new iterator owes the whole list: the step of listGetIterator and listRewind.
LEMMA IteratorRight ==
  ASSUME ListInv, NEW l \in made, NEW d \in {Forward, Backward},
         iter' = Iterator(l, d), heap' = heap, live' = live, made' = made
  PROVE  ListInv'
<1>1. PICK R : Right(heap, live, made, iter, R)
  BY DEF ListInv
<1>2. heap \in Heap /\ Rowed(heap, live, R) /\ made \subseteq Lists /\ l \in Lists
  BY <1>1 DEF Right
<1>3. PICK s \in Row : s = R[l] /\ Linked(heap, l, s) /\ listpretraval(l) = s /\ Range(s) \subseteq live
  BY <1>2, RowIs
<1>4. Range(s) \subseteq Nodes
  BY <1>3, EndFacts
<1>5. PICK z : z = IF d = Forward THEN heap.head[l] ELSE heap.tail[l]
  OBVIOUS
<1>6. Ahead(s, d, z) = Range(s)
  BY <1>3, <1>5, AheadAll DEF Linked, Forward, Backward
<1>7. z \in Range(s) \cup {NULL} /\ z \in Pointer
  BY <1>3, <1>4, <1>5, EndFacts DEF Pointer
<1>8. PICK o : o = [list |-> l, direction |-> d, next |-> z, due |-> Range(s), seen |-> {}, turned |-> FALSE]
  OBVIOUS
<1>9. iter' = o
  BY <1>3, <1>5, <1>8 DEF Iterator
<1>10. o \in IterType
  BY <1>2, <1>4, <1>7, <1>8 DEF IterType
<1>11. o.list = l /\ o.direction = d /\ o.next = z /\ o.due = Range(s) /\ o.seen = {}
  BY <1>8
<1>12. OnRow(s, o)
  BY <1>6, <1>7, <1>11 DEF OnRow
<1>13. IterRight(R, live, made, o)
  BY <1>3, <1>10, <1>11, <1>12 DEF IterRight
<1>14. Right(heap, live, made, o, R)
  BY <1>1, <1>13 DEF Right
<1> QED
  BY <1>9, <1>14 DEF ListInv

\* listNext keeps it.
LEMMA NextRight ==
  ASSUME ListInv, listNext
  PROVE  ListInv'
<1>1. PICK R : Right(heap, live, made, iter, R)
  BY DEF ListInv
<1>2. PICK it : it = iter
  OBVIOUS
<1>3. it # NoIter /\ it.next # NULL /\ heap' = heap /\ live' = live /\ made' = made
  BY <1>2 DEF listNext
<1>4. it \in IterType /\ it.list \in made /\ it.due \subseteq live /\ it.seen \subseteq live /\ OnRow(R[it.list], it)
  BY <1>1, <1>2, <1>3 DEF Right, IterRight
<1>5. PICK l, d, x : l \in Lists /\ d \in {Forward, Backward} /\ l = it.list /\ d = it.direction /\ x = it.next
  BY <1>4 DEF IterType
<1>6. heap \in Heap /\ Rowed(heap, live, R)
  BY <1>1 DEF Right
<1>7. PICK s \in Row : s = R[l] /\ Linked(heap, l, s) /\ Range(s) \subseteq live
  BY <1>5, <1>6, RowIs
<1>8. PICK i \in 1 .. Len(s) : s[i] = x
  BY <1>3, <1>4, <1>5, <1>7, RangeOf DEF OnRow
<1>9. PICK z : z = IF d = Forward THEN heap.next[x] ELSE heap.prev[x]
  OBVIOUS
<1>10. z = Place(s, IF d = Forward THEN i + 1 ELSE i - 1)
  BY <1>7, <1>8, <1>9 DEF Linked
<1>11. Ahead(s, d, z) = Ahead(s, d, x) \ {x} /\ z \in Range(s) \cup {NULL}
  <2>1. d \in {Forward, Backward} /\ s \in Row /\ i \in 1 .. Len(s)
    BY <1>5
  <2>2. Ahead(s, d, z) = Ahead(s, d, s[i]) \ {s[i]} /\ z \in Range(s) \cup {NULL}
    BY <1>10, <2>1, AheadNext
  <2> QED
    BY <1>8, <2>2
<1>12. z \in Pointer /\ x \in Nodes /\ x \in live
  BY <1>7, <1>8, <1>11, EndFacts, RangeOf DEF Pointer
<1>13. PICK o : o = [it EXCEPT !.next = z, !.due = @ \ {x}, !.seen = @ \cup {x}]
  OBVIOUS
<1>14. iter' = o
  BY <1>2, <1>5, <1>9, <1>13 DEF listNext
<1>15. /\ o \in IterType /\ o.list = l /\ o.direction = d /\ o.next = z
       /\ o.due = it.due \ {x} /\ o.seen = it.seen \cup {x} /\ o.turned = it.turned
  BY <1>4, <1>5, <1>12, <1>13 DEF IterType
<1>16. OnRow(s, o)
  <2>1. ASSUME ~o.turned PROVE o.due \subseteq Ahead(s, d, z) /\ o.seen \cap Ahead(s, d, z) = {}
    <3>1. it.due \subseteq Ahead(s, d, x) /\ it.seen \cap Ahead(s, d, x) = {}
      BY <1>4, <1>5, <1>7, <1>15, <2>1 DEF OnRow
    <3> QED
      BY <1>11, <1>15, <3>1
  <2> QED
    BY <1>11, <1>15, <2>1 DEF OnRow
<1>17. IterRight(R, live, made, o)
  BY <1>4, <1>5, <1>7, <1>12, <1>15, <1>16 DEF IterRight
<1>18. Right(heap, live, made, o, R)
  BY <1>1, <1>17 DEF Right
<1> QED
  BY <1>3, <1>14, <1>18 DEF ListInv

\* Every operation keeps it.
LEMMA ListInvNext == ListInv /\ [AdlistNext]_adlistVars => ListInv'
<1> SUFFICES ASSUME ListInv, [AdlistNext]_adlistVars PROVE ListInv'
  OBVIOUS
<1>1. CASE listReleaseIterator
  <2>1. PICK R : Right(heap, live, made, iter, R)
    BY DEF ListInv
  <2>2. Right(heap, live, made, NoIter, R)
    BY <2>1 DEF Right, IterRight
  <2> QED
    BY <1>1, <2>2 DEF listReleaseIterator, ListInv
<1>2. CASE listNext
  BY <1>2, NextRight
<1>3. ASSUME NEW l \in Lists, listCreate(l) \/ listRelease(l) \/ listRotate(l) PROVE ListInv'
  BY <1>3, CreateRight, ReleaseRight, RotateRight
<1>4. ASSUME NEW l \in Lists, NEW d \in {Forward, Backward}, listGetIterator(l, d) \/ listRewind(l, d)
      PROVE  ListInv'
  <2>1. l \in made /\ iter' = Iterator(l, d) /\ heap' = heap /\ live' = live /\ made' = made
    BY <1>4 DEF listGetIterator, listRewind
  <2> QED
    BY <2>1, IteratorRight
<1>5. ASSUME NEW l \in Lists, NEW v \in Elements, listDelNode(l, v) PROVE ListInv'
  BY <1>5, DelNodeRight
<1>6. ASSUME NEW l \in Lists, NEW n \in Nodes, NEW v \in Elements,
             listAddNodeHead(l, n, v) \/ listAddNodeTail(l, n, v)
      PROVE  ListInv'
  BY <1>6, AddNodeHeadRight, AddNodeTailRight
<1>7. ASSUME NEW l \in Lists, NEW n \in Nodes, NEW v \in Elements,
             NEW i \in -heap.len[l] .. (heap.len[l] - 1), NEW after \in BOOLEAN,
             listInsertNode(l, i, n, v, after)
      PROVE  ListInv'
  BY <1>7, InsertNodeRight
<1>8. ASSUME NEW l \in Lists, NEW k \in Lists, listDup(l, k) PROVE ListInv'
  BY <1>8, DupRight
<1>9. CASE UNCHANGED adlistVars
  BY <1>9 DEF adlistVars, ListInv
<1> QED
  BY <1>1, <1>2, <1>3, <1>4, <1>5, <1>6, <1>7, <1>8, <1>9 DEF AdlistNext

\* ListInv is an inductive invariant: whatever the operations and their order,
\* prev, next, head, tail and len chain rows of distinct nodes, one row for each
\* list, and an iterator stands on its list with what it owes in front of it.
THEOREM ListInvHolds == AdlistSpec => []ListInv
BY InitRight, ListInvNext, PTL DEF AdlistSpec

\* The links lead to nodes or are NULL, len never exceeds the number of nodes, and
\* the iterator's next node is an allocated one (no use after free by listNext).
THEOREM ListsTyped == AdlistSpec => []AdlistTypeOK
<1>1. ListInv => AdlistTypeOK
  <2> SUFFICES ASSUME ListInv PROVE AdlistTypeOK
    OBVIOUS
  <2>1. PICK R : Right(heap, live, made, iter, R)
    BY DEF ListInv
  <2>2. heap \in Heap /\ Rowed(heap, live, R) /\ made \subseteq Lists /\ IterRight(R, live, made, iter)
    BY <2>1 DEF Right
  <2>3. PICK C \in Nat : C = Cardinality(Nodes)
    BY FS_CardinalityType, AdlistAssumption
  <2>4. ASSUME NEW l \in Lists PROVE heap.len[l] \in 0 .. C
    BY <2>2, <2>3, RowIs, RowFacts
  <2>5. heap.len \in [Lists -> 0 .. C]
    BY <2>2, <2>4, HeapFields
  <2>6. heap \in [prev : [Nodes -> Nodes \cup {NULL}], next : [Nodes -> Nodes \cup {NULL}],
                  value : [Nodes -> Elements \cup {NULL}], head : [Lists -> Nodes \cup {NULL}],
                  tail : [Lists -> Nodes \cup {NULL}], len : [Lists -> 0 .. C]]
    BY <2>2, <2>5 DEF Heap, Pointer
  <2>7. live \subseteq Nodes
    BY <2>2 DEF Rowed
  <2>8. ASSUME iter # NoIter
        PROVE  /\ iter.list \in made /\ iter.direction \in {Forward, Backward}
               /\ iter.next \in live \cup {NULL} /\ iter.due \cup iter.seen \subseteq live
    <3>1. /\ iter \in IterType /\ iter.list \in made /\ iter.due \subseteq live /\ iter.seen \subseteq live
          /\ OnRow(R[iter.list], iter)
      BY <2>2, <2>8 DEF IterRight
    <3>2. PICK l \in Lists : l = iter.list
      BY <3>1 DEF IterType
    <3>3. Range(R[l]) \subseteq live
      BY <2>2, RowIs
    <3>4. iter.next \in Range(R[l]) \cup {NULL}
      BY <3>1, <3>2 DEF OnRow
    <3>5. iter.direction \in {Forward, Backward}
      BY <3>1 DEF IterType
    <3> QED
      BY <3>1, <3>3, <3>4, <3>5
  <2> QED
    BY <2>2, <2>3, <2>6, <2>7, <2>8 DEF AdlistTypeOK
<1> QED
  BY <1>1, ListInvHolds, PTL

\* After any sequence of insertions, deletions, rotations, copies and releases the
\* walk along prev is the walk along next reversed, both have len nodes, and every
\* allocated node is in exactly one list.
THEOREM BothWaysHold == AdlistSpec => []BothWaysAgree
<1>1. ListInv => BothWaysAgree
  <2> SUFFICES ASSUME ListInv PROVE BothWaysAgree
    OBVIOUS
  <2>1. PICK R : Right(heap, live, made, iter, R)
    BY DEF ListInv
  <2>2. Rowed(heap, live, R) /\ made \subseteq Lists
    BY <2>1 DEF Right
  <2>3. ASSUME NEW l \in made
        PROVE  /\ listpretraval(l) = R[l] /\ listposttraval(l) = Reverse(listpretraval(l))
               /\ Len(listpretraval(l)) = heap.len[l]
    BY <2>2, RowIs
  <2>4. ASSUME NEW l \in made, NEW k \in made, l # k
        PROVE  Range(listpretraval(l)) \cap Range(listpretraval(k)) = {}
    BY <2>2, <2>3, <2>4 DEF Rowed
  <2>5. live = UNION {Range(listpretraval(l)) : l \in made}
    <3>1. ASSUME NEW l \in made PROVE Range(listpretraval(l)) \subseteq live
      BY <2>2, <2>3, RowIs
    <3>2. ASSUME NEW x \in live PROVE \E l \in made : x \in Range(listpretraval(l))
      <4>1. PICK l \in Lists : x \in Range(R[l])
        BY <2>2 DEF Rowed
      <4>2. l \in made
        BY <2>1, <4>1, EmptyRow DEF Right
      <4> QED
        BY <2>3, <4>1, <4>2
    <3> QED
      BY <3>1, <3>2
  <2> QED
    BY <2>3, <2>4, <2>5 DEF BothWaysAgree
<1> QED
  BY <1>1, ListInvHolds, PTL

\* listNext returns every node that was in the list when the iteration began and
\* has not been freed, and none twice, however the list is changed meanwhile, unless
\* it is rotated or the next node itself is freed.
THEOREM IterationHolds == AdlistSpec => []IterationComplete
<1>1. ListInv => IterationComplete
  <2> SUFFICES ASSUME ListInv, iter # NoIter, ~iter.turned
               PROVE  LET ahead == Range(Traversed(iter.next, IF iter.direction = Forward THEN heap.next ELSE heap.prev))
                      IN  iter.due \subseteq ahead /\ iter.seen \cap ahead = {}
    BY DEF IterationComplete
  <2>1. PICK R : Right(heap, live, made, iter, R)
    BY DEF ListInv
  <2>2. Rowed(heap, live, R) /\ iter \in IterType /\ OnRow(R[iter.list], iter)
    BY <2>1 DEF Right, IterRight
  <2>3. PICK l, d, z : l \in Lists /\ d \in {Forward, Backward} /\ l = iter.list /\ d = iter.direction /\ z = iter.next
    BY <2>2 DEF IterType
  <2>4. PICK s \in Row : s = R[l] /\ Linked(heap, l, s)
    BY <2>2, <2>3, RowIs
  <2>5. z \in Range(s) \cup {NULL} /\ iter.due \subseteq Ahead(s, d, z) /\ iter.seen \cap Ahead(s, d, z) = {}
    BY <2>2, <2>3, <2>4 DEF OnRow
  <2>6. Range(Traversed(z, IF d = Forward THEN heap.next ELSE heap.prev)) = Ahead(s, d, z)
    BY <2>3, <2>4, <2>5, AheadTraversed
  <2> QED
    BY <2>3, <2>5, <2>6
<1> QED
  BY <1>1, ListInvHolds, PTL
==============================================================================
