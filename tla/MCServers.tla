-------------------------------- MODULE MCServers --------------------------------
(***************************************************************************)
(* The small servers, the redis client and the file transfers, one program *)
(* at a time.                                                              *)
(***************************************************************************)
EXTENDS EchoServer, EpollServer, RedisServer, RedisClient, FileTransfer

VARIABLE program

vars == <<program, echoVars, epollVars, redisVars, cliVars, ftVars>>

B(digit) == <<digit, "\r", "\n">>

\* Commands abbreviated, unknown and with missing words; a value of two digits' length.
MCCliArgs ==
    {<<>>, <<<<"g", "e", "t">>>>, <<<<"g", "e">>, <<"k">>>>, <<<<"g", "e", "t", "s">>, <<"k">>>>,
     <<<<"s">>, <<"k">>, <<"v", "w">>>>, <<<<"s", "e", "t">>, <<"k">>, <<>>>>,
     <<<<"s", "e", "t">>, <<"k">>, <<"a", "b", "c", "d", "e", "f", "g", "h", "i", "j">>>>}

\* An empty bulk, one with a line end in it, nil, a status, an error line, an error bulk.
MCCliReplies ==
    {B("0") \o CRLF, B("3") \o <<"x", "\n", "y">> \o CRLF, <<"n", "i", "l">> \o CRLF,
     <<"+", "O", "K">> \o CRLF, <<"-", "E", "R">> \o CRLF, <<"-">> \o B("3") \o <<"-", "E", "R">> \o CRLF}

\* A file and one whose name is a character longer: with the last one cut, its request is
\* for the other.
MCTypedNames == {<<>>, <<"f">>, <<"f", "x">>, <<"m">>}
MCStored == {<<"f">>}

Init ==
    /\ program \in {"tcp_udp_echo", "simple_epoll", "redis", "redis-cli", "ipc"}
    /\ EchoInit
    /\ EpollInit
    /\ RedisInit
    /\ CliInit
    /\ FtInit
    \* what is not used has one value
    /\ program # "redis" => limit = maxclients /\ nonblock
    /\ program # "redis-cli" => argv = <<>> /\ reply = B("0") \o CRLF
    /\ program # "ipc" => variant = "pipe" /\ typed = [name |-> <<>>, newline |-> TRUE]

Next ==
    \/ program = "tcp_udp_echo" /\ EchoNext /\ UNCHANGED <<program, epollVars, redisVars, cliVars, ftVars>>
    \/ program = "simple_epoll" /\ EpollNext /\ UNCHANGED <<program, echoVars, redisVars, cliVars, ftVars>>
    \/ program = "redis" /\ RedisNext /\ UNCHANGED <<program, echoVars, epollVars, cliVars, ftVars>>
    \/ program = "redis-cli" /\ CliNext /\ UNCHANGED <<program, echoVars, epollVars, redisVars, ftVars>>
    \/ program = "ipc" /\ FtNext /\ UNCHANGED <<program, echoVars, epollVars, redisVars, cliVars>>

\* Each program under its own fairness.
Fairness ==
    /\ program = "tcp_udp_echo" => EchoFairness
    /\ program = "redis" => RedisFairness
    /\ WF_cliVars(program = "redis-cli" /\ CliStep)
    /\ \A step \in {"parent", "client", "server"} : WF_ftVars(program = "ipc" /\ FtStepOf(step))

Spec == Init /\ [][Next]_vars /\ Fairness

\* The redis server, when it is the program that runs, serves its queue and its timer:
\* clients whose data nobody reads keep its loop spinning, but connections are accepted
\* as long as there are descriptors, and serverCron runs again and again unless the
\* listening socket blocks (LoopServes of RedisServer).
RedisServes == program = "redis" => LoopServes

\* No server leaves a client waiting for ever that it can serve, and the redis client ends:
\* EchoComplete of EchoServer, RedisServes, ClientEnds of RedisClient. A file that is asked
\* for arrives (TransferEnds of FileTransfer).
ServersServe == EchoComplete /\ RedisServes /\ ClientEnds /\ (program = "ipc" => TransferEnds)
================================
