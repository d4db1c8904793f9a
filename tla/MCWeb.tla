--------------------------------- MODULE MCWeb ---------------------------------
(* The web server and the web benchmark for TLC, one at a time. *)
EXTENDS SvHttpd, Benchmark

VARIABLE program

vars == <<program, httpdVars, benchVars>>

Init ==
    /\ program \in {"sv_httpd", "benchmark"}
    /\ HttpdInit
    /\ BenchInit

Next ==
    \/ program = "sv_httpd" /\ HttpdNext /\ UNCHANGED <<program, benchVars>>
    \/ program = "benchmark" /\ BenchNext /\ UNCHANGED <<program, httpdVars>>

\* The server runs and its clients read what they are sent.  The processes of the
\* benchmark run and their alarms go off; nothing is asked of the server they test.
Fairness ==
    /\ WF_httpdVars(program = "sv_httpd" /\ Server)
    /\ \A c \in Client : WF_httpdVars(program = "sv_httpd" /\ ClientReads(c))
    /\ WF_benchVars(program = "benchmark" /\ Parent)
    /\ \A c \in Child : WF_benchVars(program = "benchmark" /\ BenchStep(c))
    /\ \A c \in Child : WF_benchVars(program = "benchmark" /\ Alarm(c))

Spec == Init /\ [][Next]_vars /\ Fairness

\* BenchEnds of Benchmark, in the behaviours in which it is the benchmark that runs.
BenchmarkEnds == program = "benchmark" => BenchEnds
===============================================================================
