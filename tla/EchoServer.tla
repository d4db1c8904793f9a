------------------------------ MODULE EchoServer ------------------------------
(***************************************************************************)
(* tcp_udp_echo.c: one thread and one epoll descriptor for a listening     *)
(* socket, a UDP socket and the accepted connections, all edge-triggered.  *)
(* The listening and the UDP socket are non-blocking and are read once per *)
(* event; accepted sockets stay blocking and are read until the peer ends. *)
(*                                                                         *)
(* Sockets, epoll and the peers are modelled from how main() uses them: an *)
(* edge is reported once, and changes before it is reported share it; a    *)
(* send() to a peer that is gone is answered by a reset, and a send()      *)
(* after that raises SIGPIPE, which nobody handles.  Clients read what is  *)
(* sent to them, so that send() does not block, and text has no NUL.       *)
(***************************************************************************)
EXTENDS Naturals, Sequences, FiniteSets

CONSTANTS
    EchoClients,    \* TCP clients, each connects once
    EchoBuf,        \* BUF_SIZE - 1: what one recv() takes
    EchoFds,        \* connections the process has descriptors for
    MaxText,        \* bytes a client sends at most
    MaxDatagrams

Listening == {"tcp_sock", "udp_sock"}

ASSUME EchoAssumption ==
    /\ EchoClients # {} /\ EchoClients \cap Listening = {}
    /\ EchoBuf \in Nat \ {0} /\ {EchoFds, MaxText, MaxDatagrams} \subseteq Nat

VARIABLES
    epc,            \* where main() is
    events,         \* events[i] and behind, not handled yet
    sockfd,         \* the connection main() reads from
    edge,           \* what epoll has to report
    backlog,        \* connections not accepted yet
    datagrams,      \* datagrams not received yet
    unannounced,    \* arrivals that got no edge, or no use of it, of their own
    conn,           \* a client's connection in the server
    unread, sent, echoed,
    peer,           \* what the client's end does
    vain            \* clients whose end a send(), or an error of recv(), has met

echoMain == <<epc, events, sockfd>>
echoNet == <<edge, backlog, datagrams, unannounced>>
echoConn == <<conn, unread, sent, echoed, peer, vain>>
echoVars == <<echoMain, echoNet, echoConn>>

EchoInit ==
    /\ epc = "epoll_wait" /\ events = {} /\ sockfd = CHOOSE c \in EchoClients : TRUE
    /\ edge = {} /\ backlog = <<>> /\ datagrams = 0
    /\ unannounced = [s \in Listening |-> 0]
    /\ conn = [c \in EchoClients |-> "none"]
    /\ unread = [c \in EchoClients |-> 0]
    /\ sent = unread /\ echoed = unread
    /\ peer = [c \in EchoClients |-> "none"]
    /\ vain = {}

OpenConns == {c \in EchoClients : conn[c] \in {"open", "leaked"}}
Ended(c) == peer[c] \in {"half", "gone", "reset"}
-------------------------------------------------------------------------------
\* An arrival on a socket that is already to be reported shares that edge.
Arrives(s) ==
    /\ edge' = edge \cup {s}
    /\ unannounced' = IF s \in edge THEN [unannounced EXCEPT ![s] = @ + 1] ELSE unannounced

Raise(c) == edge' = IF conn[c] = "open" THEN edge \cup {c} ELSE edge

EchoConnects(c) ==
    /\ peer[c] = "none"
    /\ peer' = [peer EXCEPT ![c] = "open"]
    /\ conn' = [conn EXCEPT ![c] = "queued"]
    /\ backlog' = Append(backlog, c)
    /\ Arrives("tcp_sock")
    /\ UNCHANGED <<echoMain, datagrams, unread, sent, echoed, vain>>

EchoSends(c) ==
    /\ peer[c] = "open" /\ sent[c] < MaxText
    /\ sent' = [sent EXCEPT ![c] = @ + 1]
    /\ unread' = [unread EXCEPT ![c] = @ + 1]
    /\ Raise(c)
    /\ UNCHANGED <<echoMain, backlog, datagrams, unannounced, conn, echoed, peer, vain>>

\* The client stops sending, closes, or resets the connection.
EchoEnds(c) ==
    /\ peer[c] = "open"
    /\ \E how \in {"half", "gone", "reset"} : peer' = [peer EXCEPT ![c] = how]
    /\ Raise(c)
    /\ UNCHANGED <<echoMain, backlog, datagrams, unannounced, conn, unread, sent, echoed, vain>>

\* A client that stopped sending closes.
EchoLeaves(c) ==
    /\ peer[c] = "half"
    /\ peer' = [peer EXCEPT ![c] = "gone"]
    /\ UNCHANGED <<echoMain, echoNet, conn, unread, sent, echoed, vain>>

DatagramArrives ==
    /\ datagrams < MaxDatagrams
    /\ datagrams' = datagrams + 1
    /\ Arrives("udp_sock")
    /\ UNCHANGED <<echoMain, backlog, echoConn>>
-------------------------------------------------------------------------------
EpollWait ==
    /\ epc = "epoll_wait" /\ edge # {}
    /\ events' = edge /\ edge' = {}
    /\ epc' = "events"
    /\ UNCHANGED <<sockfd, backlog, datagrams, unannounced, echoConn>>

\* The next of the events, in whatever order epoll put them.
Event(e) == epc = "events" /\ e \in events /\ events' = events \ {e}

EventsDone ==
    /\ epc = "events" /\ events = {}
    /\ epc' = "epoll_wait"
    /\ UNCHANGED <<events, sockfd, echoNet, echoConn>>

\* epoll_add_fd: a socket that is ready already is reported.
epoll_add_fd(c) == edge' = IF unread[c] > 0 \/ Ended(c) THEN edge \cup {c} ELSE edge

\* accept() once; without a descriptor the connection stays in the queue.
handle_tcp_client ==
    /\ Event("tcp_sock")
    /\ IF Cardinality(OpenConns) < EchoFds
       THEN LET c == Head(backlog)
            IN  /\ backlog' = Tail(backlog)
                /\ conn' = [conn EXCEPT ![c] = "open"]
                /\ epoll_add_fd(c)
                /\ UNCHANGED unannounced
       ELSE /\ unannounced' = [unannounced EXCEPT !["tcp_sock"] = @ + 1]
            /\ UNCHANGED <<backlog, conn, edge>>
    /\ UNCHANGED <<epc, sockfd, datagrams, unread, sent, echoed, peer, vain>>

\* recvfrom() once; the datagram is printed and not answered.
HandleUdp ==
    /\ Event("udp_sock")
    /\ datagrams' = datagrams - 1
    /\ UNCHANGED <<epc, sockfd, edge, backlog, unannounced, echoConn>>

HandleConn(c) ==
    /\ Event(c)
    /\ sockfd' = c
    /\ epc' = "recv"
    /\ UNCHANGED <<echoNet, echoConn>>

Taken == IF unread[sockfd] < EchoBuf THEN unread[sockfd] ELSE EchoBuf

\* Mutant: what recv() returned is taken for the length of a string with its NUL.
EchoLosesLast ==
    /\ epc = "recv" /\ unread[sockfd] > 0
    /\ unread' = [unread EXCEPT ![sockfd] = @ - Taken]
    /\ echoed' = [echoed EXCEPT ![sockfd] = @ + (Taken - 1)]
    /\ UNCHANGED <<epc, events, sockfd, echoNet, conn, sent, peer, vain>>

\* recv() has data and send() gives it back.
RecvAndSend ==
    /\ epc = "recv" /\ unread[sockfd] > 0
    /\ ~(peer[sockfd] = "reset" /\ sockfd \in vain)
    /\ unread' = [unread EXCEPT ![sockfd] = @ - Taken]
    /\ IF peer[sockfd] \in {"gone", "reset"}
       THEN vain' = vain \cup {sockfd} /\ UNCHANGED echoed
       ELSE echoed' = [echoed EXCEPT ![sockfd] = @ + Taken] /\ UNCHANGED vain
    /\ UNCHANGED <<epc, events, sockfd, echoNet, conn, sent, peer>>

\* The same, but a reset has come back for an earlier send(): SIGPIPE.
SendKills ==
    /\ epc = "recv" /\ unread[sockfd] > 0
    /\ sockfd \in vain
    /\ epc' = "killed"
    /\ UNCHANGED <<events, sockfd, echoNet, echoConn>>

\* recv() returns 0: the peer has ended, or an earlier send() has taken the error.
\* close() takes the socket out of epoll.
RecvZero ==
    /\ epc = "recv" /\ unread[sockfd] = 0
    /\ Ended(sockfd) /\ (peer[sockfd] = "reset" => sockfd \in vain)
    /\ conn' = [conn EXCEPT ![sockfd] = "closed"]
    /\ edge' = edge \ {sockfd}
    /\ epc' = "events"
    /\ UNCHANGED <<events, sockfd, backlog, datagrams, unannounced, unread, sent, echoed, peer, vain>>

\* recv() fails, which takes the error: the loop is left and the descriptor stays
\* open, unless another edge of it is still to come.
RecvError ==
    /\ epc = "recv" /\ unread[sockfd] = 0
    /\ peer[sockfd] = "reset" /\ sockfd \notin vain
    /\ conn' = [conn EXCEPT ![sockfd] = "leaked"]
    /\ vain' = vain \cup {sockfd}
    /\ epc' = "events"
    /\ UNCHANGED <<events, sockfd, echoNet, unread, sent, echoed, peer>>

EchoServe ==
    \/ EpollWait \/ EventsDone \/ handle_tcp_client \/ HandleUdp
    \/ \E c \in EchoClients : HandleConn(c)
    \/ RecvAndSend \/ SendKills \/ RecvZero \/ RecvError

EchoNext ==
    \/ EchoServe \/ DatagramArrives
    \/ \E c \in EchoClients : EchoConnects(c) \/ EchoSends(c) \/ EchoEnds(c) \/ EchoLeaves(c)

EchoSpec == EchoInit /\ [][EchoNext]_echoVars

\* The server runs, and clients end their connections sooner or later: while one
\* does not, the server waits in recv() for it.
EchoFairness == WF_echoVars(EchoServe) /\ \A c \in EchoClients : WF_echoVars(EchoEnds(c))
-------------------------------------------------------------------------------
\* With one accept() and one recvfrom() per edge nothing is lost and nothing is made
\* up for: when the server sleeps with nothing to report, exactly as many connections
\* and datagrams wait in the kernel as came without an edge of their own, or met a
\* full descriptor table.  Every byte a client sent before its end was echoed when
\* its connection is closed, unless a send() had come too late.
EchoAccounts ==
    /\ epc = "epoll_wait" /\ edge = {} =>
          /\ Len(backlog) = unannounced["tcp_sock"]
          /\ datagrams = unannounced["udp_sock"]
    /\ \A c \in EchoClients : conn[c] = "closed" /\ c \notin vain => echoed[c] = sent[c]

\* An accepted connection is served to its end: edges that come while the server
\* waits for another client, and data that was there before epoll_add_fd, are not
\* missed.
EchoComplete ==
    \A c \in EchoClients : conn[c] = "open" ~> conn[c] # "open" \/ epc = "killed"
===============================================================================
