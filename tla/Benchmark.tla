------------------------------- MODULE Benchmark -------------------------------
(***************************************************************************)
(* The web benchmark of unp/benchmark (ben_core.c, ben_socket.c): the      *)
(* parent forks its clients, each of them sends requests until its alarm   *)
(* has gone off and writes its counters to a pipe, and the parent adds     *)
(* them up.  The alarm interrupts a blocking call if it finds the client   *)
(* inside one; it may also go off just before the call.                    *)
(***************************************************************************)
EXTENDS Integers, Sequences, FiniteSetsExt

CONSTANTS
    Child,      \* the clients, in the order they are forked: 1 .. n
    MaxTries    \* bound: requests a client tries

ASSUME BenchmarkAssumption ==
    /\ IsFiniteSet(Child) /\ Child = 1 .. Cardinality(Child) /\ MaxTries \in Nat

VARIABLES
    ppc,                \* the parent: "fork", "read", "done" or "failed"
    forked,             \* clients forked
    clients,            \* results still expected
    sum,                \* succeed and failed of the parent
    pipe,               \* results written and not read
    cpc,                \* each client: where it is
    ben_timeout, succeed, failed,
    armed,              \* its alarm is set and has not gone off
    tries, answered,    \* auxiliary: requests tried; answered completely,
    broken              \* and failed for another reason than the alarm

parent == <<ppc, forked, clients, sum>>
child == <<cpc, ben_timeout, succeed, failed, armed, tries, answered, broken>>
benchVars == <<parent, pipe, child>>

Zero == [c \in Child |-> 0]

BenchInit ==
    /\ ppc = "fork" /\ forked = 0
    /\ clients = Cardinality(Child)
    /\ sum = [succeed |-> 0, failed |-> 0]
    /\ pipe = <<>>
    /\ cpc = [c \in Child |-> "unborn"]
    /\ ben_timeout = {} /\ armed = {}
    /\ succeed = Zero /\ failed = Zero
    /\ tries = Zero /\ answered = Zero /\ broken = Zero
-------------------------------------------------------------------------------
(* bench_main: the parent *)

Fork ==
    /\ ppc = "fork" /\ forked < clients
    /\ forked' = forked + 1
    /\ cpc' = [cpc EXCEPT ![forked + 1] = "sleep"]
    /\ UNCHANGED <<ppc, clients, sum, pipe, ben_timeout, succeed, failed, armed, tries, answered, broken>>

\* fork() fails: the parent gives up and leaves the clients it has to themselves.
ForkFails ==
    /\ ppc = "fork" /\ forked < clients
    /\ ppc' = "failed"
    /\ UNCHANGED <<forked, clients, sum, pipe, child>>

StartReading ==
    /\ ppc = "fork" /\ forked = clients
    /\ ppc' = "read"
    /\ UNCHANGED <<forked, clients, sum, pipe, child>>

LastResult(left) == left = 0

\* fscanf() returns a result.  It cannot return EOF: the parent itself keeps the
\* pipe's write end open.
ReadResult ==
    /\ ppc = "read" /\ pipe # <<>>
    /\ sum' = [succeed |-> sum.succeed + Head(pipe).succeed, failed |-> sum.failed + Head(pipe).failed]
    /\ pipe' = Tail(pipe)
    /\ clients' = clients - 1
    /\ ppc' = IF LastResult(clients - 1) THEN "done" ELSE "read"
    /\ UNCHANGED <<forked, child>>
-------------------------------------------------------------------------------
(* bench_core: a client *)

To(c, l) == cpc' = [cpc EXCEPT ![c] = l]
Count(f, c) == [f EXCEPT ![c] = @ + 1]

SetAlarm(c) ==
    /\ cpc[c] = "sleep"
    /\ armed' = armed \cup {c}
    /\ To(c, "nexttry")
    /\ UNCHANGED <<parent, pipe, ben_timeout, succeed, failed, tries, answered, broken>>

\* Mutant: the interrupted request stays counted as a failure.
EndsWithoutCorrection(c) == failed[c]

\* The failure of the request that the alarm interrupted is taken back, whether
\* there was one or not.
FailedAtEnd(c) == IF failed[c] > 0 THEN failed[c] - 1 ELSE 0

NextTry(c) ==
    /\ cpc[c] = "nexttry"
    /\ IF c \in ben_timeout
       THEN /\ failed' = [failed EXCEPT ![c] = FailedAtEnd(c)]
            /\ To(c, "report")
            /\ UNCHANGED tries
       ELSE /\ tries[c] < MaxTries
            /\ tries' = Count(tries, c)
            /\ To(c, "connect")
            /\ UNCHANGED failed
    /\ UNCHANGED <<parent, pipe, ben_timeout, succeed, armed, answered, broken>>

\* ben_socket, write(), read() or close() fails.
Fails(c) ==
    /\ cpc[c] \in {"connect", "write", "read", "close", "cut"}
    /\ failed' = Count(failed, c)
    /\ broken' = Count(broken, c)
    /\ To(c, "nexttry")
    /\ UNCHANGED <<parent, pipe, ben_timeout, succeed, armed, tries, answered>>

Connects(c) ==
    /\ cpc[c] = "connect"
    /\ To(c, "write")
    /\ UNCHANGED <<parent, pipe, ben_timeout, succeed, failed, armed, tries, answered, broken>>

Writes(c) ==
    /\ cpc[c] = "write"
    /\ To(c, "response")
    /\ UNCHANGED <<parent, pipe, ben_timeout, succeed, failed, armed, tries, answered, broken>>

\* The test before each read().
Response(c) ==
    /\ cpc[c] = "response"
    /\ To(c, IF c \in ben_timeout THEN "cut" ELSE "read")
    /\ UNCHANGED <<parent, pipe, ben_timeout, succeed, failed, armed, tries, answered, broken>>

ReadsSome(c) ==
    /\ cpc[c] = "read"
    /\ To(c, "response")
    /\ UNCHANGED <<parent, pipe, ben_timeout, succeed, failed, armed, tries, answered, broken>>

ReadsEnd(c) ==
    /\ cpc[c] = "read"
    /\ To(c, "close")
    /\ UNCHANGED <<parent, pipe, ben_timeout, succeed, failed, armed, tries, answered, broken>>

\* close() after the end of a response, or after one cut short by the alarm.
Closes(c) ==
    /\ cpc[c] \in {"close", "cut"}
    /\ succeed' = Count(succeed, c)
    /\ answered' = IF cpc[c] = "close" THEN Count(answered, c) ELSE answered
    /\ To(c, "nexttry")
    /\ UNCHANGED <<parent, pipe, ben_timeout, failed, armed, tries, broken>>

\* Mutant: the handler does not set the flag.
AlarmForgotten(c) ==
    /\ c \in armed
    /\ armed' = armed \ {c}
    /\ UNCHANGED <<parent, pipe, cpc, ben_timeout, succeed, failed, tries, answered, broken>>

\* SIGALRM: a client that is inside a blocking call gets EINTR.
Alarm(c) ==
    /\ c \in armed
    /\ armed' = armed \ {c}
    /\ ben_timeout' = ben_timeout \cup {c}
    /\ \/ UNCHANGED <<cpc, failed>>
       \/ /\ cpc[c] \in {"connect", "write", "read"}
          /\ failed' = Count(failed, c)
          /\ To(c, "nexttry")
    /\ UNCHANGED <<parent, pipe, succeed, tries, answered, broken>>

\* The end of the client: its counters go to the pipe, also when the parent has gone,
\* for each client still holds the pipe's reading end itself.
Reports(c) ==
    /\ cpc[c] = "report"
    /\ To(c, "exited")
    /\ pipe' = Append(pipe, [succeed |-> succeed[c], failed |-> failed[c]])
    /\ UNCHANGED <<parent, ben_timeout, succeed, failed, armed, tries, answered, broken>>

Killed(c) ==
    /\ cpc[c] \notin {"unborn", "exited", "dead"}
    /\ To(c, "dead")
    /\ armed' = armed \ {c}
    /\ UNCHANGED <<parent, pipe, ben_timeout, succeed, failed, tries, answered, broken>>
-------------------------------------------------------------------------------
Parent == Fork \/ ForkFails \/ StartReading \/ ReadResult

\* What a client does by itself, and what takes an answer of the web server.
BenchStep(c) ==
    \/ SetAlarm(c) \/ NextTry(c) \/ Connects(c) \/ Writes(c) \/ Response(c)
    \/ Closes(c) \/ Reports(c)
Served(c) == ReadsSome(c) \/ ReadsEnd(c) \/ Fails(c)

BenchNext == Parent \/ \E c \in Child : BenchStep(c) \/ Served(c) \/ Alarm(c) \/ Killed(c)

BenchSpec == BenchInit /\ [][BenchNext]_benchVars
-------------------------------------------------------------------------------
BenchTypeOK ==
    /\ ppc \in {"fork", "read", "done", "failed"}
    /\ clients \in 0 .. Cardinality(Child)
    /\ {succeed, failed, tries, answered, broken} \subseteq [Child -> Nat]
    /\ armed \subseteq Child /\ ben_timeout \subseteq Child \ armed

\* What a client reports is off by at most one, for whatever the alarm interrupted:
\* one failure too few, or one answer too many that was not complete.
OffByAtMostOne ==
    \A c \in Child : cpc[c] \in {"report", "exited"} =>
        /\ failed[c] <= broken[c] /\ broken[c] <= failed[c] + 1
        /\ answered[c] <= succeed[c] /\ succeed[c] <= answered[c] + 1

Total(f) == MapThenSumSet(LAMBDA c : f[c], Child)

\* The parent prints the sum of what all clients counted, though they write to one pipe.
TotalsComplete ==
    ppc = "done" =>
        /\ sum.succeed = Total(succeed)
        /\ sum.failed = Total(failed)

\* The numbers are sound wherever the alarm strikes a client (ben_core.c:252 takes one
\* failure back, whatever it interrupted), and so is the total of those who report.
CountersConsistent == BenchTypeOK /\ OffByAtMostOne /\ TotalsComplete

\* The benchmark ends unless a client is killed, or its alarm went off between the
\* test of the flag and read() and the server never answers.
BenchEnds ==
    \/ <>(ppc \in {"done", "failed"} \/ \E c \in Child : cpc[c] = "dead")
    \/ <>[](\E c \in Child : c \in ben_timeout /\ cpc[c] = "read")
===============================================================================
