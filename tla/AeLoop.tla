-------------------------------- MODULE AeLoop --------------------------------
(***************************************************************************)
(* The ae event loop of redis_ae/tcpproxy (ae.c, ae_epoll.c): aeMain,      *)
(* aeProcessEvents, processTimeEvents, and the registration calls that     *)
(* handlers make while the loop is running them.  One process runs the     *)
(* loop; the clock, the kernel and signals interleave with every step.     *)
(*                                                                         *)
(* A moment is a number of milliseconds; the pair (when_sec, when_ms) of   *)
(* ae.c is its quotient and remainder by MsPerSec.                         *)
(***************************************************************************)
EXTENDS AeFileEvents, Sequences

CONSTANTS
    MsPerSec,   \* 1000; small for checking
    Delay,      \* milliseconds a handler passes to aeCreateTimeEvent
    Period,     \* milliseconds a timeProc returns to be called again
    MaxClock,   \* bound: the clock stops here
    MaxTimers,  \* bound: timers created in one behaviour
    MaxCalls    \* bound: registration calls made by handlers in one behaviour

ASSUME AeLoopAssumption ==
    /\ MsPerSec \in Nat \ {0}
    /\ Delay \subseteq Nat
    /\ Period \subseteq Nat \ {0}
    /\ {MaxClock, MaxTimers, MaxCalls} \subseteq Nat

VARIABLES
    table,      \* file events and the kernel's interest list
    timers,     \* the time-event list, head first: [id, when]
    nextId,     \* timeEventNextId
    stop,       \* the stop flag
    now,        \* the clock
    pc,         \* where the loop is
    entered,    \* the clock when this aeProcessEvents looked at it
    wake,       \* when epoll_wait gives up
    fired,      \* entries of fired[] not yet looked at
    cur,        \* the entry being dispatched
    rfired,     \* its READABLE handler has been called
    te,         \* processTimeEvents: id of the timer te points to
    maxId,      \* processTimeEvents: the highest id it may run
    passStart,  \* auxiliary: the clock when processTimeEvents was called
    born,       \* auxiliary: timers registered since then
    calls       \* registration calls made so far

loopVars == <<pc, entered, wake, fired, cur, rfired, te, maxId, passStart, born>>
vars == <<table, timers, nextId, stop, now, calls, loopVars>>

Forever == -1
NoTimer == -1
NoEntry == [fd |-> 0, mask |-> {}]
Handler == {"rfileProc", "wfileProc", "timeProc"}

\* What main registered before it called aeMain.
Init ==
    /\ \/ table = aeCreateEventLoop
       \/ \E fd \in Slot, p \in Proc, d \in Data :
              table = aeCreateFileEvent(aeCreateEventLoop, fd, {"READABLE"}, p, d)
    /\ \/ timers = <<>> /\ nextId = 0
       \/ MaxTimers > 0 /\ \E d \in Delay : timers = <<[id |-> 0, when |-> d]>> /\ nextId = 1
    /\ stop = FALSE
    /\ now = 0
    /\ pc = "aeMain"
    /\ entered = 0
    /\ wake = Forever
    /\ fired = {}
    /\ cur = NoEntry
    /\ rfired = FALSE
    /\ te = NoTimer
    /\ maxId = -1
    /\ passStart = 0
    /\ born = {}
    /\ calls = 0
-------------------------------------------------------------------------------
(* The environment *)

Tick ==
    /\ now < MaxClock
    /\ now' = now + 1
    /\ UNCHANGED <<table, timers, nextId, stop, calls, loopVars>>

\* A signal handler, or a file or time handler, calls aeStop.  A signal that
\* finds the process in epoll_wait makes it return -1: no events.
aeStop ==
    /\ ~stop /\ pc # "returned"
    /\ stop' = TRUE
    /\ pc' = IF pc = "epoll_wait" THEN "dispatch" ELSE pc
    /\ fired' = IF pc = "epoll_wait" THEN {} ELSE fired
    /\ UNCHANGED <<table, timers, nextId, now, calls,
                   entered, wake, cur, rfired, te, maxId, passStart, born>>
-------------------------------------------------------------------------------
(* aeMain and the file-event half of aeProcessEvents *)

aeMain ==
    /\ pc = "aeMain"
    /\ stop' = FALSE
    /\ pc' = "while"
    /\ UNCHANGED <<table, timers, nextId, now, calls,
                   entered, wake, fired, cur, rfired, te, maxId, passStart, born>>

\* Mutant: the flag is not tested again once the loop has begun.
TestStopNever ==
    /\ pc = "while"
    /\ pc' = "aeProcessEvents"
    /\ UNCHANGED <<table, timers, nextId, stop, now, calls,
                   entered, wake, fired, cur, rfired, te, maxId, passStart, born>>

TestStop ==
    /\ pc = "while"
    /\ pc' = IF stop THEN "returned" ELSE "aeProcessEvents"
    /\ UNCHANGED <<table, timers, nextId, stop, now, calls,
                   entered, wake, fired, cur, rfired, te, maxId, passStart, born>>

\* aeSearchNearestTimer: the earliest moment of the list.
NearestWhen == CHOOSE w \in {timers[i].when : i \in DOMAIN timers} :
                    \A i \in DOMAIN timers : w <= timers[i].when

\* Mutant: the borrowed second is not taken off the seconds.
SleepWithoutBorrow(when, clock) ==
    LET borrow == when % MsPerSec < clock % MsPerSec
        sec == (when \div MsPerSec) - (clock \div MsPerSec)
        ms == (when % MsPerSec) - (clock % MsPerSec) + (IF borrow THEN MsPerSec ELSE 0)
    IN  (IF sec < 0 THEN 0 ELSE sec) * MsPerSec + ms

\* The struct timeval aeProcessEvents computes for a timer due at when, in
\* milliseconds: seconds and milliseconds are subtracted apart and a negative
\* second count is then replaced by 0.
TimeToSleep(when, clock) ==
    LET borrow == when % MsPerSec < clock % MsPerSec
        sec == (when \div MsPerSec) - (clock \div MsPerSec) - (IF borrow THEN 1 ELSE 0)
        ms == (when % MsPerSec) - (clock % MsPerSec) + (IF borrow THEN MsPerSec ELSE 0)
    IN  (IF sec < 0 THEN 0 ELSE sec) * MsPerSec + ms

ComputeTimeout ==
    /\ pc = "aeProcessEvents"
    /\ entered' = now
    /\ wake' = IF timers = <<>> THEN Forever ELSE now + TimeToSleep(NearestWhen, now)
    /\ pc' = "epoll_wait"
    /\ UNCHANGED <<table, timers, nextId, stop, now, calls,
                   fired, cur, rfired, te, maxId, passStart, born>>

\* aeApiPoll: epoll_wait reports, for some registered descriptors, directions the
\* kernel was asked about.
PollReturns ==
    /\ pc = "epoll_wait"
    /\ \E ready \in [Slot -> SUBSET Direction] :
          /\ \A fd \in Slot : ready[fd] \subseteq table.interest[fd]
          /\ fired' = {[fd |-> fd, mask |-> ready[fd]] : fd \in {x \in Slot : ready[x] # {}}}
          /\ fired' # {}
    /\ pc' = "dispatch"
    /\ UNCHANGED <<table, timers, nextId, stop, now, calls,
                   entered, wake, cur, rfired, te, maxId, passStart, born>>

\* The timeout expires; where the clock stops, any finite sleep ends.
PollTimesOut ==
    /\ pc = "epoll_wait"
    /\ wake # Forever /\ (now >= wake \/ now = MaxClock)
    /\ fired' = {}
    /\ pc' = "dispatch"
    /\ UNCHANGED <<table, timers, nextId, stop, now, calls,
                   entered, wake, cur, rfired, te, maxId, passStart, born>>

\* The loop over fired[], in the order the kernel chose: fe->mask & mask decides.
DispatchReadable ==
    /\ pc = "dispatch" /\ fired # {}
    /\ \E e \in fired :
          /\ cur' = e
          /\ fired' = fired \ {e}
          /\ rfired' = ("READABLE" \in table.mask[e.fd] \cap e.mask)
          /\ pc' = IF rfired' THEN "rfileProc" ELSE "writable?"
    /\ UNCHANGED <<table, timers, nextId, stop, now, calls,
                   entered, wake, te, maxId, passStart, born>>

DispatchWritable ==
    /\ pc = "writable?"
    /\ pc' = IF /\ "WRITABLE" \in table.mask[cur.fd] \cap cur.mask
                /\ ~rfired \/ table.wproc[cur.fd] # table.rproc[cur.fd]
             THEN "wfileProc" ELSE "dispatch"
    /\ UNCHANGED <<table, timers, nextId, stop, now, calls,
                   entered, wake, fired, cur, rfired, te, maxId, passStart, born>>

FileProcReturns ==
    /\ pc \in {"rfileProc", "wfileProc"}
    /\ pc' = IF pc = "rfileProc" THEN "writable?" ELSE "dispatch"
    /\ UNCHANGED <<table, timers, nextId, stop, now, calls,
                   entered, wake, fired, cur, rfired, te, maxId, passStart, born>>
-------------------------------------------------------------------------------
(* processTimeEvents *)

HeadId(list) == IF list = <<>> THEN NoTimer ELSE list[1].id
Position(id) == CHOOSE i \in DOMAIN timers : timers[i].id = id
NextOf(id) == IF Position(id) = Len(timers) THEN NoTimer ELSE timers[Position(id) + 1].id

processTimeEvents ==
    /\ pc = "dispatch" /\ fired = {}
    /\ te' = HeadId(timers)
    /\ maxId' = nextId - 1
    /\ passStart' = now
    /\ born' = {}
    /\ pc' = "time"
    /\ UNCHANGED <<table, timers, nextId, stop, now, calls,
                   entered, wake, fired, cur, rfired>>

\* Look at the timer te points to: skip it, or call its timeProc.
VisitTimer ==
    /\ pc = "time" /\ te # NoTimer
    /\ IF te > maxId \/ now < timers[Position(te)].when
       THEN te' = NextOf(te) /\ UNCHANGED pc
       ELSE pc' = "timeProc" /\ UNCHANGED te
    /\ UNCHANGED <<table, timers, nextId, stop, now, calls,
                   entered, wake, fired, cur, rfired, maxId, passStart, born>>

Has(id) == \E i \in DOMAIN timers : timers[i].id = id

\* aeDeleteTimeEvent unlinks the event with that id, or finds none.
Without(id) ==
    IF Has(id)
    THEN SubSeq(timers, 1, Position(id) - 1) \o SubSeq(timers, Position(id) + 1, Len(timers))
    ELSE timers

\* Mutant: after a call the walk goes on behind the timer instead of at the head.
TimeProcReturnsToNext ==
    /\ pc = "timeProc"
    /\ \/ timers' = Without(te)
       \/ Has(te) /\ \E p \in Period : timers' = [timers EXCEPT ![Position(te)].when = now + p]
    /\ te' = IF Has(te) THEN NextOf(te) ELSE NoTimer
    /\ pc' = "time"
    /\ UNCHANGED <<table, nextId, stop, now, calls,
                   entered, wake, fired, cur, rfired, maxId, passStart, born>>

\* timeProc returns AE_NOMORE and the event is deleted (aeDeleteTimeEvent finds
\* nothing when the handler deleted it itself), or a period and te is moved.  The
\* second writes through te: a handler that deleted its own event must not do it.
TimeProcReturns ==
    /\ pc = "timeProc"
    /\ \/ timers' = Without(te)
       \/ Has(te) /\ \E p \in Period : timers' = [timers EXCEPT ![Position(te)].when = now + p]
    /\ te' = HeadId(timers')
    /\ pc' = "time"
    /\ UNCHANGED <<table, nextId, stop, now, calls,
                   entered, wake, fired, cur, rfired, maxId, passStart, born>>

TimeEventsDone ==
    /\ pc = "time" /\ te = NoTimer
    /\ pc' = "while"
    /\ UNCHANGED <<table, timers, nextId, stop, now, calls,
                   entered, wake, fired, cur, rfired, te, maxId, passStart, born>>
-------------------------------------------------------------------------------
(* Registration calls a running handler makes *)

HandlerCalls ==
    /\ pc \in Handler /\ calls < MaxCalls
    /\ calls' = calls + 1
    /\ UNCHANGED <<stop, now, pc, entered, wake, fired, cur, rfired, te, maxId, passStart>>

CallCreateFileEvent ==
    /\ HandlerCalls
    /\ \E fd \in Fd, mask \in {{"READABLE"}, {"WRITABLE"}}, p \in Proc, d \in Data :
          table' = IF CreateFails(table, fd) THEN table
                   ELSE aeCreateFileEvent(table, fd, mask, p, d)
    /\ UNCHANGED <<timers, nextId, born>>

CallDeleteFileEvent ==
    /\ HandlerCalls
    /\ \E fd \in Fd, mask \in {{"READABLE"}, {"WRITABLE"}, Direction} :
          table' = aeDeleteFileEvent(table, fd, mask)
    /\ UNCHANGED <<timers, nextId, born>>

aeCreateTimeEvent ==
    /\ HandlerCalls
    /\ nextId < MaxTimers
    /\ \E d \in Delay : timers' = <<[id |-> nextId, when |-> now + d]>> \o timers
    /\ nextId' = nextId + 1
    /\ born' = IF pc = "timeProc" THEN born \cup {nextId} ELSE born
    /\ UNCHANGED table

aeDeleteTimeEvent ==
    /\ HandlerCalls
    /\ \E id \in 0 .. nextId - 1 : timers' = Without(id)
    /\ UNCHANGED <<table, nextId, born>>
-------------------------------------------------------------------------------
LoopStep ==
    \/ aeMain \/ TestStop \/ ComputeTimeout \/ PollTimesOut
    \/ DispatchReadable \/ DispatchWritable \/ FileProcReturns
    \/ processTimeEvents \/ VisitTimer \/ TimeProcReturns \/ TimeEventsDone

HandlerStep ==
    \/ CallCreateFileEvent \/ CallDeleteFileEvent
    \/ aeCreateTimeEvent \/ aeDeleteTimeEvent

Next == LoopStep \/ HandlerStep \/ PollReturns \/ aeStop \/ Tick

Spec == Init /\ [][Next]_vars

\* The process keeps running (every handler returns) and time passes.  No I/O is
\* promised: PollReturns and aeStop are not fair.
FairSpec == Spec /\ WF_vars(LoopStep) /\ WF_vars(Tick)
-------------------------------------------------------------------------------
TypeOK ==
    /\ table \in EventTable
    /\ \A i \in DOMAIN timers : timers[i] \in [id : 0 .. nextId - 1, when : Nat]
    /\ nextId \in 0 .. MaxTimers
    /\ stop \in BOOLEAN /\ rfired \in BOOLEAN
    /\ now \in 0 .. MaxClock /\ entered \in 0 .. now /\ passStart \in 0 .. now
    /\ pc \in Handler \cup {"aeMain", "while", "aeProcessEvents", "epoll_wait", "dispatch",
                            "writable?", "time", "returned"}
    /\ te \in -1 .. nextId - 1

\* The kernel watches exactly what events[] says: EPOLL_CTL_ADD, MOD and DEL are
\* chosen by the table's mask, so a disagreement makes a later registration fail.
KernelAgrees == \A fd \in Slot : table.interest[fd] = table.mask[fd]

\* maxfd is the highest registered descriptor after any order of registrations
\* and deletions, and -1 when there is none.
MaxfdExact ==
    /\ \A fd \in Slot : table.mask[fd] # {} => fd <= table.maxfd
    /\ table.maxfd # -1 => table.mask[table.maxfd] # {}

\* processTimeEvents never walks into a freed event: te is on the list whenever it
\* is dereferenced, although handlers create and delete timers under the walk.
WalkOnList == pc = "time" /\ te # NoTimer => Has(te)

\* The loop's own state stays consistent whatever handlers register, delete, create
\* and stop: the table, the kernel and maxfd agree (aeCreateFileEvent and
\* aeDeleteFileEvent), and processTimeEvents never stands on a freed event.
LoopConsistent == TypeOK /\ KernelAgrees /\ MaxfdExact /\ WalkOnList

\* "we make sure to don't process events registered by event handlers itself":
\* no pass runs a timer that was created during that pass.
NewTimersWait == pc = "timeProc" => te \notin born

\* A timer that was due when processTimeEvents began has been run, moved or
\* deleted when it ends, whatever the handlers did to the list in between.
NoDueTimerSkipped ==
    [][pc = "time" /\ pc' = "while" =>
          \A i \in DOMAIN timers : timers[i].id <= maxId => timers[i].when > passStart]_vars

\* A stop request that finds the loop running ends it, unless it came between the
\* test of the flag and an epoll_wait that no timer bounds.
StopEndsLoop ==
    stop /\ pc # "aeMain" ~> pc = "returned" \/ (pc = "epoll_wait" /\ wake = Forever)

\* A timer that is not yet due when the timeout is computed is never slept past;
\* one that is already due is delayed by less than a second.
SleepLateBound ==
    pc = "epoll_wait" /\ timers # <<>> =>
        /\ NearestWhen >= entered => wake = NearestWhen
        /\ NearestWhen < entered => wake < entered + MsPerSec

\* processTimeEvents and aeSearchNearestTimer keep timers to their time: none runs in
\* the pass that created it, and aeApiPoll does not sleep past the nearest one.
TimersOnTime == NewTimersWait /\ SleepLateBound
===============================================================================
