------------------------------ MODULE ThreadProxy ------------------------------
(***************************************************************************)
(* python/proxy-with-mulitthrea.py: an HTTP proxy with a thread for every  *)
(* connection.  The thread takes for the request what one recv() returns,  *)
(* connects to the host of the URL in it, sends that and relays the        *)
(* answer.  An exception ends its thread, whose sockets are then           *)
(* collected; one in run() ends the program with all its threads.          *)
(***************************************************************************)
EXTENDS Integers, Sequences, SequencesExt, FiniteSets, FiniteSetsExt

CONSTANTS
    Conns,          \* connections in the order in which they are made, with the
                    \* request line of each: the digits of an explicit port, whether a
                    \* path follows the host, and the place where the first segment
                    \* ends, after so many digits if that is the port
    ReqParts,       \* segments a request comes in; two contain the request line
    AnswerParts,    \* segments of an answer
    ThreadFds       \* sockets the process has descriptors for

\* The places, by what get_req_info makes of a line that ends there: no blank, hence no
\* URL; "http:/" as the URL; no digit of a port yet; some of its digits; the whole URL.
Place == {"method", "http:/", "host", "port", "end"}

ASSUME ThreadProxyAssumption ==
    /\ Conns \in Seq([port : Seq(0 .. 9), slash : BOOLEAN, first : Place, digits : Nat])
    /\ \A c \in DOMAIN Conns : Conns[c].digits <= Len(Conns[c].port)
    /\ {ReqParts, AnswerParts, ThreadFds} \subseteq Nat

VARIABLES
    tmain,          \* run(): "accept" or "died"
    tpc,            \* a connection's thread
    held2,          \* sockets it holds: subset of {"conn", "remote"}
    tarrived,       \* segments of the request that have arrived
    tread,          \* of these, returned by the one recv()
    trelayed,       \* of these, sent to the host
    tport,          \* the port it connected to
    tanswer,        \* segments of the answer the host has sent
    tback,          \* of these, sent back
    thost,          \* the host: "none", "up" or "closed"
    tclient         \* the client: "none", "up" or "gone"

threadProc == <<tmain, tpc, held2>>
threadNet == <<tarrived, tread, trelayed, tport, tanswer, tback, thost, tclient>>
threadVars == <<threadProc, threadNet>>

Connection == DOMAIN Conns

ThreadInit ==
    /\ tmain = "accept"
    /\ tpc = [c \in Connection |-> "none"]
    /\ held2 = [c \in Connection |-> {}]
    /\ tarrived = [c \in Connection |-> 0] /\ tread = tarrived /\ trelayed = tarrived
    /\ tport = [c \in Connection |-> -1]
    /\ tanswer = tarrived /\ tback = tarrived
    /\ thost = [c \in Connection |-> "none"] /\ tclient = thost

OpenSockets == Cardinality({p \in Connection \X {"conn", "remote"} : p[2] \in held2[p[1]]})
-------------------------------------------------------------------------------
(* Clients and hosts *)

ThreadClientConnects(c) ==
    /\ tmain # "died" /\ tclient[c] = "none" /\ \A b \in 1 .. c - 1 : tclient[b] # "none"
    /\ tclient' = [tclient EXCEPT ![c] = "up"]
    /\ UNCHANGED <<threadProc, tarrived, tread, trelayed, tport, tanswer, tback, thost>>

ThreadClientSends(c) ==
    /\ tmain # "died" /\ tclient[c] = "up" /\ tpc[c] # "ended" /\ tarrived[c] < ReqParts
    /\ tarrived' = [tarrived EXCEPT ![c] = @ + 1]
    /\ UNCHANGED <<threadProc, tread, trelayed, tport, tanswer, tback, thost, tclient>>

ThreadClientGoes(c) ==
    /\ tmain # "died" /\ tclient[c] = "up"
    /\ tclient' = [tclient EXCEPT ![c] = "gone"]
    /\ UNCHANGED <<threadProc, tarrived, tread, trelayed, tport, tanswer, tback, thost>>

\* A host answers a whole request.
HostAnswers(c) ==
    /\ thost[c] = "up" /\ trelayed[c] = ReqParts /\ tanswer[c] < AnswerParts
    /\ tanswer' = [tanswer EXCEPT ![c] = @ + 1]
    /\ UNCHANGED <<threadProc, tarrived, tread, trelayed, tport, tback, thost, tclient>>

HostCloses(c) ==
    /\ thost[c] = "up"
    /\ thost' = [thost EXCEPT ![c] = "closed"]
    /\ UNCHANGED <<threadProc, tarrived, tread, trelayed, tport, tanswer, tback, tclient>>
-------------------------------------------------------------------------------
(* run *)

Starts(c) ==
    /\ tmain = "accept" /\ tclient[c] # "none" /\ tpc[c] = "none"
    /\ OpenSockets < ThreadFds
    /\ tpc' = [tpc EXCEPT ![c] = "recv"]
    /\ held2' = [held2 EXCEPT ![c] = {"conn"}]
    /\ UNCHANGED <<tmain, threadNet>>

\* accept() raises: no descriptor is left.
AcceptRaises(c) ==
    /\ tmain = "accept" /\ tclient[c] # "none" /\ tpc[c] = "none"
    /\ OpenSockets >= ThreadFds
    /\ tmain' = "died"
    /\ UNCHANGED <<tpc, held2, threadNet>>
-------------------------------------------------------------------------------
(* proxy_handler *)

\* Mutant: the handler ends and conn stays open.
EndsHoldingConn(c) ==
    /\ tpc' = [tpc EXCEPT ![c] = "ended"]
    /\ held2' = [held2 EXCEPT ![c] = @ \ {"remote"}]

\* cleanup(), or an exception and the collection of what the thread held.
Ends(c) ==
    /\ tpc' = [tpc EXCEPT ![c] = "ended"]
    /\ held2' = [held2 EXCEPT ![c] = {}]

\* What one recv() has returned of the request line u when n segments had arrived.
LineSeen(u, n) ==
    IF n = 1 /\ ReqParts > 1 /\ u.first # "end"
    THEN [place |-> u.first, slash |-> FALSE,
          port |-> IF u.first = "port" THEN SubSeq(u.port, 1, u.digits) ELSE <<>>]
    ELSE [place |-> "end", slash |-> u.slash, port |-> u.port]

\* What get_req_info makes of the digits after the colon: without a path host.find
\* returns -1 and the last character goes, and one more goes from the port.
PortDigits(l) == Front(IF l.slash THEN l.port ELSE Front(l.port))
IntOf(s) ==
    LET value[n \in 0 .. Len(s)] == IF n = 0 THEN 0 ELSE 10 * value[n - 1] + s[n]
    IN  value[Len(s)]
NoPort(l) ==        \* split(' ')[1] or int() raises
    \/ l.place \in {"method", "http:/"}
    \/ l.port # <<>> /\ Len(l.port) <= IF l.slash THEN 1 ELSE 2
get_req_info(l) == IF l.port = <<>> THEN 80 ELSE IntOf(PortDigits(l))

\* recv() returned nothing or get_req_info raises, or there is no socket to connect.
RequestRaises(c) ==
    /\ tmain # "died" /\ tpc[c] = "recv"
    /\ \/ tarrived[c] = 0 /\ tclient[c] = "gone"
       \/ tarrived[c] > 0 /\ (NoPort(LineSeen(Conns[c], tarrived[c])) \/ OpenSockets >= ThreadFds)
    /\ Ends(c)
    /\ tread' = [tread EXCEPT ![c] = tarrived[c]]
    /\ UNCHANGED <<tmain, tarrived, trelayed, tport, tanswer, tback, thost, tclient>>

\* A host and a port are found in what one recv() has returned, and there is a socket.
FindsHost(c) ==
    /\ tmain # "died" /\ tpc[c] = "recv" /\ tarrived[c] > 0
    /\ ~NoPort(LineSeen(Conns[c], tarrived[c])) /\ OpenSockets < ThreadFds
    /\ tread' = [tread EXCEPT ![c] = tarrived[c]]
    /\ tport' = [tport EXCEPT ![c] = get_req_info(LineSeen(Conns[c], tarrived[c]))]

\* connect() fails: cleanup().
HostRefuses(c) ==
    /\ FindsHost(c)
    /\ Ends(c)
    /\ UNCHANGED <<tmain, tarrived, trelayed, tanswer, tback, thost, tclient>>

\* connect() and sendall() of what has been received.
RelaysRequest(c) ==
    /\ FindsHost(c)
    /\ tpc' = [tpc EXCEPT ![c] = "relay"]
    /\ held2' = [held2 EXCEPT ![c] = {"conn", "remote"}]
    /\ trelayed' = [trelayed EXCEPT ![c] = tarrived[c]]
    /\ thost' = [thost EXCEPT ![c] = "up"]
    /\ UNCHANGED <<tmain, tarrived, tanswer, tback, tclient>>

\* Mutant: an empty recv() is not taken for the end of the answer.
AnswerWaits(c) ==
    /\ tmain # "died" /\ tpc[c] = "relay"
    /\ tback[c] < tanswer[c]
    /\ \/ tback' = [tback EXCEPT ![c] = tanswer[c]] /\ UNCHANGED <<tpc, held2>>
       \/ tclient[c] = "gone" /\ Ends(c) /\ UNCHANGED tback
    /\ UNCHANGED <<tmain, tarrived, tread, trelayed, tport, tanswer, thost, tclient>>

\* recv() from the host: data is sent back, which raises if the client has reset,
\* and the end of it is the end of the thread.
RelaysAnswer(c) ==
    /\ tmain # "died" /\ tpc[c] = "relay"
    /\ \/ /\ tback[c] < tanswer[c]
          /\ tback' = [tback EXCEPT ![c] = tanswer[c]]
          /\ UNCHANGED <<tpc, held2>>
       \/ tback[c] < tanswer[c] /\ tclient[c] = "gone" /\ Ends(c) /\ UNCHANGED tback
       \/ tback[c] = tanswer[c] /\ thost[c] = "closed" /\ Ends(c) /\ UNCHANGED tback
    /\ UNCHANGED <<tmain, tarrived, tread, trelayed, tport, tanswer, thost, tclient>>

Handler(c) == RequestRaises(c) \/ HostRefuses(c) \/ RelaysRequest(c) \/ RelaysAnswer(c)

ThreadNext ==
    \E c \in Connection :
        \/ Starts(c) \/ AcceptRaises(c) \/ Handler(c)
        \/ ThreadClientConnects(c) \/ ThreadClientSends(c) \/ ThreadClientGoes(c)
        \/ HostAnswers(c) \/ HostCloses(c)
-------------------------------------------------------------------------------
\* A thread that has ended, by whatever path, holds no socket, and a client that is
\* still there has then got all of the answer.  The host gets what one recv() returned,
\* or nothing.  The port that is connected to is made of the digits in that: it lacks
\* the last of them, or two if no path was seen behind them; where the first segment
\* ends within the port, even more are missing, and where it ends before, it is 80.
\* The program dies only for want of descriptors.
ThreadsTidy ==
    /\ \A c \in Connection :
          /\ (held2[c] = {}) <=> (tpc[c] \in {"none", "ended"})
          /\ tpc[c] = "ended" /\ tclient[c] = "up" => tback[c] = tanswer[c]
          /\ tread[c] <= tarrived[c] /\ trelayed[c] \in {0, tread[c]} /\ tback[c] <= tanswer[c]
          /\ tport[c] # -1 =>
                LET l == LineSeen(Conns[c], tread[c])
                IN  tport[c] = IF l.port = <<>> THEN 80
                               ELSE IntOf(l.port) \div (IF l.slash THEN 10 ELSE 100)
    /\ tmain = "died" => OpenSockets = ThreadFds

\* A thread whose host has closed ends, whatever the other threads do, unless the
\* program dies.
ThreadEnds ==
    \A c \in Connection : thost[c] = "closed" ~> tpc[c] = "ended" \/ tmain = "died"
===============================================================================
