----------------------------- MODULE ServerProofs -----------------------------
(***************************************************************************)
(* Proofs about the small servers and the relays.  The servers: what the   *)
(* edges of tcp_udp_echo.c leave behind (EchoAccounts), that the short     *)
(* reads of simple_epoll/server.c lose no input (EdgesSuffice), and that   *)
(* the descriptors, the event table and the list of clients of the redis   *)
(* server skeleton agree (ClientsConsistent).  The relays in Python: the   *)
(* sockets of simple_proxy.py and of the threads of                        *)
(* proxy-with-mulitthrea.py (RelaysSound), the SOCKS tunnel's two threads  *)
(* that wait for each other (GridlockIsForever), the bytes that go through *)
(* it (TunnelFaithful) and the one order of the messages in chatroom.py    *)
(* (SameOrder).  All are for any number of clients, any buffer and any     *)
(* limit of descriptors.                                                   *)
(***************************************************************************)
EXTENDS EchoServer, EpollServer, RedisServer, MCRelays, FiniteSetTheorems, SequenceTheorems,
        WellFoundedInduction, TLAPS

-----------------------------------------------------------------------------
(***************************************************************************)
(* tcp_udp_echo.c.                                                         *)
(***************************************************************************)
EchoTyped ==
    /\ epc \in {"epoll_wait", "events", "recv", "killed"}
    /\ sockfd \in EchoClients
    /\ edge \subseteq EchoClients \cup Listening
    /\ events \subseteq EchoClients \cup Listening
    /\ backlog \in Seq(EchoClients)
    /\ datagrams \in Nat
    /\ unannounced \in [Listening -> Nat]
    /\ conn \in [EchoClients -> {"none", "queued", "open", "leaked", "closed"}]
    /\ unread \in [EchoClients -> Nat]
    /\ sent \in [EchoClients -> Nat]
    /\ echoed \in [EchoClients -> Nat]
    /\ peer \in [EchoClients -> {"none", "open", "half", "gone", "reset"}]
    /\ vain \subseteq EchoClients

\* epoll_wait() is called when all of its last events have been handled.
RoundIsOver == epc = "epoll_wait" => events = {}

\* One arrival for an edge, reported or not, and the ones without a use of an edge.
EdgeOf(s, S) == IF s \in S THEN 1 ELSE 0
Accounted(s) == unannounced[s] + EdgeOf(s, edge) + EdgeOf(s, events)
AllAccounted == Len(backlog) = Accounted("tcp_sock") /\ datagrams = Accounted("udp_sock")

\* Until a send() comes too late, what was not echoed is still to be read, and there
\* is nothing to be read when the connection is closed.
BytesAccounted ==
    \A c \in EchoClients :
        /\ c \notin vain => echoed[c] + unread[c] = sent[c]
        /\ conn[c] = "closed" => unread[c] = 0 /\ peer[c] \in {"half", "gone", "reset"}

EchoInv == EchoTyped /\ RoundIsOver /\ AllAccounted /\ BytesAccounted

\* What a step that leaves main() and the sockets alone does not disturb.
LEMMA NetUntouched ==
    ASSUME AllAccounted, UNCHANGED <<backlog, datagrams, unannounced>>,
           \A s \in Listening : (s \in edge' <=> s \in edge) /\ (s \in events' <=> s \in events)
    PROVE  AllAccounted'
<1>1. \A s \in Listening : EdgeOf(s, edge)' = EdgeOf(s, edge) /\ EdgeOf(s, events)' = EdgeOf(s, events)
    BY DEF EdgeOf
<1>2. QED
    BY <1>1 DEF AllAccounted, Accounted, Listening

\* main() starts with nothing to report and nothing that waits.
LEMMA EchoInitHolds == EchoInit => EchoInv
<1>. SUFFICES ASSUME EchoInit PROVE EchoInv
    OBVIOUS
<1>1. EchoTyped
  <2>1. sockfd \in EchoClients
      BY EchoAssumption DEF EchoInit
  <2>2. backlog \in Seq(EchoClients)
      BY DEF EchoInit
  <2>. QED
      BY <2>1, <2>2 DEF EchoInit, EchoTyped, Listening
<1>2. RoundIsOver
    BY DEF EchoInit, RoundIsOver
<1>3. AllAccounted
    BY DEF EchoInit, AllAccounted, Accounted, EdgeOf, Listening
<1>4. BytesAccounted
    BY DEF EchoInit, BytesAccounted
<1>. QED
    BY <1>1, <1>2, <1>3, <1>4 DEF EchoInv

\* An arrival on a listening socket is accounted for by a new edge or as unannounced.
LEMMA ArrivalCounted ==
    ASSUME EchoTyped, NEW s \in Listening, Arrives(s), UNCHANGED events
    PROVE  /\ edge' \subseteq EchoClients \cup Listening
           /\ unannounced' \in [Listening -> Nat]
           /\ Accounted(s)' = Accounted(s) + 1
           /\ \A t \in Listening \ {s} : Accounted(t)' = Accounted(t)
<1>. USE DEF EchoTyped
<1>1. edge' \subseteq EchoClients \cup Listening
    BY DEF Arrives
<1>2. unannounced' \in [Listening -> Nat]
    BY DEF Arrives
<1>3. \A t \in Listening : EdgeOf(t, events)' = EdgeOf(t, events) /\ EdgeOf(t, events) \in Nat
    BY DEF EdgeOf
<1>4. Accounted(s)' = Accounted(s) + 1
  <2>1. CASE s \in edge
    <3>1. unannounced'[s] = unannounced[s] + 1
        BY <2>1 DEF Arrives
    <3>2. EdgeOf(s, edge)' = EdgeOf(s, edge) /\ EdgeOf(s, edge) = 1
        BY <2>1 DEF Arrives, EdgeOf
    <3>. QED
        BY <1>3, <3>1, <3>2 DEF Accounted
  <2>2. CASE s \notin edge
    <3>1. unannounced'[s] = unannounced[s]
        BY <2>2 DEF Arrives
    <3>2. EdgeOf(s, edge)' = 1 /\ EdgeOf(s, edge) = 0
        BY <2>2 DEF Arrives, EdgeOf
    <3>. QED
        BY <1>3, <3>1, <3>2 DEF Accounted
  <2>. QED
      BY <2>1, <2>2
<1>5. ASSUME NEW t \in Listening \ {s} PROVE Accounted(t)' = Accounted(t)
  <2>1. EdgeOf(t, edge)' = EdgeOf(t, edge)
      BY DEF Arrives, EdgeOf
  <2>2. unannounced'[t] = unannounced[t]
      BY DEF Arrives
  <2>. QED
      BY <1>3, <2>1, <2>2 DEF Accounted
<1>. QED
    BY <1>1, <1>2, <1>4, <1>5

\* What clients do: connect, send, end and leave, and a datagram that arrives.
LEMMA EchoPeersStep ==
    ASSUME EchoInv,
           \/ DatagramArrives
           \/ \E c \in EchoClients :
                 EchoConnects(c) \/ EchoSends(c) \/ EchoEnds(c) \/ EchoLeaves(c)
    PROVE  EchoInv'
<1>. USE EchoAssumption
<1>1. CASE DatagramArrives
  <2>1. UNCHANGED <<events, epc>> /\ Arrives("udp_sock") /\ "udp_sock" \in Listening
      BY <1>1 DEF DatagramArrives, echoMain, Listening
  <2>2. /\ edge' \subseteq EchoClients \cup Listening
        /\ unannounced' \in [Listening -> Nat]
        /\ Accounted("udp_sock")' = Accounted("udp_sock") + 1
        /\ \A t \in Listening \ {"udp_sock"} : Accounted(t)' = Accounted(t)
      BY <2>1, ArrivalCounted DEF EchoInv
  <2>3. EchoTyped'
      BY <1>1, <2>2 DEF EchoInv, EchoTyped, DatagramArrives, echoMain, echoConn
  <2>4. AllAccounted'
      BY <1>1, <2>2 DEF EchoInv, AllAccounted, DatagramArrives, Listening
  <2>5. RoundIsOver' /\ BytesAccounted'
      BY <1>1, <2>1 DEF EchoInv, RoundIsOver, BytesAccounted, DatagramArrives, echoConn
  <2>. QED
      BY <2>3, <2>4, <2>5 DEF EchoInv
<1>2. ASSUME NEW c \in EchoClients, EchoConnects(c) PROVE EchoInv'
  <2>1. UNCHANGED <<events, epc>> /\ Arrives("tcp_sock") /\ "tcp_sock" \in Listening
      BY <1>2 DEF EchoConnects, echoMain, Listening
  <2>2. /\ edge' \subseteq EchoClients \cup Listening
        /\ unannounced' \in [Listening -> Nat]
        /\ Accounted("tcp_sock")' = Accounted("tcp_sock") + 1
        /\ \A t \in Listening \ {"tcp_sock"} : Accounted(t)' = Accounted(t)
      BY <2>1, ArrivalCounted DEF EchoInv
  <2>3. backlog' \in Seq(EchoClients) /\ Len(backlog') = Len(backlog) + 1
      BY <1>2 DEF EchoInv, EchoTyped, EchoConnects
  <2>4. EchoTyped'
      BY <1>2, <2>2, <2>3 DEF EchoInv, EchoTyped, EchoConnects, echoMain
  <2>5. AllAccounted'
      BY <1>2, <2>2, <2>3 DEF EchoInv, AllAccounted, EchoConnects, Listening
  <2>6. RoundIsOver' /\ BytesAccounted'
      BY <1>2, <2>1 DEF EchoInv, EchoTyped, RoundIsOver, BytesAccounted, EchoConnects
  <2>. QED
      BY <2>4, <2>5, <2>6 DEF EchoInv
<1>3. ASSUME NEW c \in EchoClients, EchoSends(c) \/ EchoEnds(c) \/ EchoLeaves(c) PROVE EchoInv'
  <2>1. UNCHANGED <<events, epc, sockfd, backlog, datagrams, unannounced, conn, echoed, vain>>
      BY <1>3 DEF EchoSends, EchoEnds, EchoLeaves, echoMain, echoNet
  <2>2. edge' = edge \/ edge' = edge \cup {c}
      BY <1>3 DEF EchoSends, EchoEnds, EchoLeaves, Raise, echoNet
  <2>3. c \notin Listening
      OBVIOUS
  <2>4. AllAccounted'
      BY <2>1, <2>2, <2>3, NetUntouched DEF EchoInv
  <2>5. EchoTyped'
    <3>1. /\ unread' \in [EchoClients -> Nat] /\ sent' \in [EchoClients -> Nat]
          /\ peer' \in [EchoClients -> {"none", "open", "half", "gone", "reset"}]
      <4>0. /\ unread \in [EchoClients -> Nat] /\ sent \in [EchoClients -> Nat]
            /\ peer \in [EchoClients -> {"none", "open", "half", "gone", "reset"}]
          BY DEF EchoInv, EchoTyped
      <4>1. CASE EchoSends(c)
          BY <4>0, <4>1 DEF EchoSends
      <4>2. CASE EchoEnds(c)
          BY <4>0, <4>2 DEF EchoEnds
      <4>3. CASE EchoLeaves(c)
          BY <4>0, <4>3 DEF EchoLeaves
      <4>. QED
          BY <1>3, <4>1, <4>2, <4>3
    <3>2. edge' \subseteq EchoClients \cup Listening
        BY <2>2 DEF EchoInv, EchoTyped
    <3>. QED
        BY <2>1, <3>1, <3>2 DEF EchoInv, EchoTyped
  <2>6. BytesAccounted'
    <3>1. CASE EchoSends(c)
      <4>1. conn[c] # "closed"
          BY <3>1 DEF EchoInv, BytesAccounted, EchoSends
      <4>2. /\ unread'[c] = unread[c] + 1 /\ sent'[c] = sent[c] + 1
            /\ \A d \in EchoClients \ {c} : unread'[d] = unread[d] /\ sent'[d] = sent[d]
            /\ peer' = peer
          BY <3>1 DEF EchoInv, EchoTyped, EchoSends
      <4>3. \A d \in EchoClients : unread[d] \in Nat /\ sent[d] \in Nat /\ echoed[d] \in Nat
          BY DEF EchoInv, EchoTyped
      <4>. QED
          BY <2>1, <4>1, <4>2, <4>3 DEF EchoInv, BytesAccounted
    <3>2. CASE EchoEnds(c) \/ EchoLeaves(c)
        BY <3>2, <2>1 DEF EchoInv, EchoTyped, BytesAccounted, EchoEnds, EchoLeaves
    <3>. QED
        BY <1>3, <3>1, <3>2
  <2>7. RoundIsOver'
      BY <2>1 DEF EchoInv, RoundIsOver
  <2>. QED
      BY <2>4, <2>5, <2>6, <2>7 DEF EchoInv
<1>. QED
    BY <1>1, <1>2, <1>3

\* epoll_wait and the end of a round.
LEMMA EchoRoundStep ==
    ASSUME EchoInv, EpollWait \/ EventsDone
    PROVE  EchoInv'
<1>1. CASE EpollWait
  <2>1. events = {}
      BY <1>1 DEF EchoInv, RoundIsOver, EpollWait
  <2>2. \A s \in Listening : /\ EdgeOf(s, edge)' = 0 /\ EdgeOf(s, events) = 0
                             /\ EdgeOf(s, events)' = EdgeOf(s, edge)
                             /\ EdgeOf(s, edge) \in Nat
      BY <1>1, <2>1 DEF EdgeOf, EpollWait
  <2>3. AllAccounted'
      BY <1>1, <2>2 DEF EchoInv, EchoTyped, AllAccounted, Accounted, EpollWait, Listening
  <2>4. EchoTyped'
      BY <1>1 DEF EchoInv, EchoTyped, EpollWait, echoConn
  <2>5. RoundIsOver' /\ BytesAccounted'
      BY <1>1 DEF EchoInv, RoundIsOver, BytesAccounted, EpollWait, echoConn
  <2>. QED
      BY <2>3, <2>4, <2>5 DEF EchoInv
<1>2. CASE EventsDone
  <2>1. EchoTyped'
      BY <1>2 DEF EchoInv, EchoTyped, EventsDone, echoNet, echoConn
  <2>2. AllAccounted'
      BY <1>2, NetUntouched DEF EchoInv, EventsDone, echoNet
  <2>3. RoundIsOver' /\ BytesAccounted'
      BY <1>2 DEF EchoInv, RoundIsOver, BytesAccounted, EventsDone, echoConn
  <2>. QED
      BY <2>1, <2>2, <2>3 DEF EchoInv
<1>. QED
    BY <1>1, <1>2

\* The handling of one event: accept(), recvfrom() or the start of a reading loop.
LEMMA EchoEventStep ==
    ASSUME EchoInv, handle_tcp_client \/ HandleUdp \/ \E c \in EchoClients : HandleConn(c)
    PROVE  EchoInv'
<1>. USE EchoAssumption
<1>1. CASE handle_tcp_client
  <2>1. /\ epc = "events" /\ "tcp_sock" \in events /\ events' = events \ {"tcp_sock"}
        /\ UNCHANGED <<epc, sockfd, datagrams, unread, sent, echoed, peer, vain>>
      BY <1>1 DEF handle_tcp_client, Event
  <2>2. /\ EdgeOf("tcp_sock", events) = 1 /\ EdgeOf("tcp_sock", events)' = 0
        /\ EdgeOf("udp_sock", events)' = EdgeOf("udp_sock", events)
      BY <2>1 DEF EdgeOf
  <2>3. /\ EdgeOf("tcp_sock", edge) \in Nat /\ EdgeOf("udp_sock", edge) \in Nat
        /\ EdgeOf("udp_sock", events) \in Nat
        /\ unannounced["tcp_sock"] \in Nat /\ unannounced["udp_sock"] \in Nat
      BY DEF EdgeOf, EchoInv, EchoTyped, Listening
  <2>4. CASE Cardinality(OpenConns) < EchoFds
    <3>. DEFINE c == Head(backlog)
    <3>1. /\ backlog' = Tail(backlog) /\ conn' = [conn EXCEPT ![c] = "open"]
          /\ epoll_add_fd(c) /\ UNCHANGED unannounced
        BY <1>1, <2>4 DEF handle_tcp_client
    <3>2. Len(backlog) >= 1
        BY <2>2, <2>3 DEF EchoInv, AllAccounted, Accounted
    <3>3. c \in EchoClients /\ backlog' \in Seq(EchoClients) /\ Len(backlog') = Len(backlog) - 1
        BY <3>1, <3>2 DEF EchoInv, EchoTyped
    <3>4. edge' \in {edge, edge \cup {c}}
        BY <3>1 DEF epoll_add_fd
    <3>. HIDE DEF c
    <3>5. \A s \in Listening : EdgeOf(s, edge)' = EdgeOf(s, edge)
        BY <3>3, <3>4 DEF EdgeOf
    <3>6. AllAccounted'
        BY <2>1, <2>2, <2>3, <3>1, <3>3, <3>5 DEF EchoInv, AllAccounted, Accounted, Listening
    <3>7. EchoTyped'
        BY <2>1, <3>1, <3>3, <3>4 DEF EchoInv, EchoTyped
    <3>8. RoundIsOver' /\ BytesAccounted'
        BY <2>1, <3>1, <3>3 DEF EchoInv, EchoTyped, RoundIsOver, BytesAccounted
    <3>. QED
        BY <3>6, <3>7, <3>8 DEF EchoInv
  <2>5. CASE ~(Cardinality(OpenConns) < EchoFds)
    <3>1. /\ unannounced' = [unannounced EXCEPT !["tcp_sock"] = @ + 1]
          /\ UNCHANGED <<backlog, conn, edge>>
        BY <1>1, <2>5 DEF handle_tcp_client
    <3>2. /\ unannounced'["tcp_sock"] = unannounced["tcp_sock"] + 1
          /\ unannounced'["udp_sock"] = unannounced["udp_sock"]
          /\ unannounced' \in [Listening -> Nat]
        BY <3>1 DEF EchoInv, EchoTyped, Listening
    <3>3. \A s \in Listening : EdgeOf(s, edge)' = EdgeOf(s, edge)
        BY <3>1 DEF EdgeOf
    <3>4. AllAccounted'
        BY <2>1, <2>2, <2>3, <3>1, <3>2, <3>3 DEF EchoInv, AllAccounted, Accounted, Listening
    <3>5. EchoTyped'
        BY <2>1, <3>1, <3>2 DEF EchoInv, EchoTyped
    <3>6. RoundIsOver' /\ BytesAccounted'
        BY <2>1, <3>1 DEF EchoInv, RoundIsOver, BytesAccounted
    <3>. QED
        BY <3>4, <3>5, <3>6 DEF EchoInv
  <2>. QED
      BY <2>4, <2>5
<1>2. CASE HandleUdp
  <2>1. /\ epc = "events" /\ "udp_sock" \in events /\ events' = events \ {"udp_sock"}
        /\ datagrams' = datagrams - 1
        /\ UNCHANGED <<epc, sockfd, edge, backlog, unannounced, echoConn>>
      BY <1>2 DEF HandleUdp, Event
  <2>2. /\ EdgeOf("udp_sock", events) = 1 /\ EdgeOf("udp_sock", events)' = 0
        /\ EdgeOf("tcp_sock", events)' = EdgeOf("tcp_sock", events)
        /\ \A s \in Listening : EdgeOf(s, edge)' = EdgeOf(s, edge)
      BY <2>1 DEF EdgeOf
  <2>3. /\ EdgeOf("tcp_sock", edge) \in Nat /\ EdgeOf("udp_sock", edge) \in Nat
        /\ EdgeOf("tcp_sock", events) \in Nat
        /\ unannounced["tcp_sock"] \in Nat /\ unannounced["udp_sock"] \in Nat
      BY DEF EdgeOf, EchoInv, EchoTyped, Listening
  <2>4. Accounted("udp_sock")' = Accounted("udp_sock") - 1 /\ Accounted("udp_sock") \in Nat \ {0}
      BY <2>1, <2>2, <2>3 DEF Accounted, Listening
  <2>5. Accounted("tcp_sock")' = Accounted("tcp_sock")
      BY <2>1, <2>2, <2>3 DEF Accounted, Listening
  <2>6. AllAccounted'
      BY <2>1, <2>4, <2>5 DEF EchoInv, AllAccounted
  <2>7. datagrams' \in Nat
      BY <2>1, <2>4 DEF EchoInv, AllAccounted
  <2>8. EchoTyped' /\ RoundIsOver' /\ BytesAccounted'
      BY <2>1, <2>7 DEF EchoInv, EchoTyped, RoundIsOver, BytesAccounted, echoConn
  <2>. QED
      BY <2>6, <2>8 DEF EchoInv
<1>3. ASSUME NEW c \in EchoClients, HandleConn(c) PROVE EchoInv'
  <2>1. /\ events' = events \ {c} /\ sockfd' = c /\ epc' = "recv"
        /\ UNCHANGED <<echoNet, echoConn>>
      BY <1>3 DEF HandleConn, Event
  <2>2. AllAccounted'
      BY <2>1, NetUntouched DEF EchoInv, echoNet
  <2>3. EchoTyped' /\ RoundIsOver' /\ BytesAccounted'
      BY <2>1 DEF EchoInv, EchoTyped, RoundIsOver, BytesAccounted, echoNet, echoConn
  <2>. QED
      BY <2>2, <2>3 DEF EchoInv
<1>. QED
    BY <1>1, <1>2, <1>3

\* The reading loop: recv() and send(), the end of the peer, its reset, and SIGPIPE.
LEMMA EchoReadStep ==
    ASSUME EchoInv, RecvAndSend \/ SendKills \/ RecvZero \/ RecvError
    PROVE  EchoInv'
<1>. USE EchoAssumption
<1>1. CASE RecvAndSend
  <2>1. PICK n \in Nat : n = Taken /\ n <= unread[sockfd]
      BY DEF Taken, EchoInv, EchoTyped
  <2>2. UNCHANGED <<epc, events, sockfd, edge, backlog, datagrams, unannounced, conn, sent, peer>>
      BY <1>1 DEF RecvAndSend, echoNet
  <2>3. unread' = [unread EXCEPT ![sockfd] = @ - n]
      BY <1>1, <2>1 DEF RecvAndSend
  <2>4. \/ vain' = vain \cup {sockfd} /\ echoed' = echoed
        \/ echoed' = [echoed EXCEPT ![sockfd] = @ + n] /\ vain' = vain
      BY <1>1, <2>1 DEF RecvAndSend
  <2>5. AllAccounted'
      BY <2>2, NetUntouched DEF EchoInv
  <2>6. EchoTyped'
    <3>1. unread' \in [EchoClients -> Nat]
      <4>1. unread[sockfd] - n \in Nat
          BY <2>1 DEF EchoInv, EchoTyped
      <4>. QED
          BY <2>3, <4>1 DEF EchoInv, EchoTyped
    <3>2. echoed' \in [EchoClients -> Nat] /\ vain' \subseteq EchoClients
      <4>1. echoed' = echoed \/ echoed' = [echoed EXCEPT ![sockfd] = @ + n]
          BY <2>4
      <4>2. echoed' \in [EchoClients -> Nat]
          BY <2>1, <4>1 DEF EchoInv, EchoTyped
      <4>. QED
          BY <2>4, <4>2 DEF EchoInv, EchoTyped
    <3>. QED
        BY <2>2, <3>1, <3>2 DEF EchoInv, EchoTyped
  <2>7. BytesAccounted'
    <3>. SUFFICES ASSUME NEW c \in EchoClients
                  PROVE  /\ c \notin vain' => echoed'[c] + unread'[c] = sent'[c]
                         /\ conn'[c] = "closed" => /\ unread'[c] = 0
                                                   /\ peer'[c] \in {"half", "gone", "reset"}
        BY DEF BytesAccounted
    <3>1. CASE c = sockfd
      <4>1. unread'[c] = unread[c] - n
          BY <2>3, <3>1 DEF EchoInv, EchoTyped
      <4>2. c \notin vain' => echoed'[c] = echoed[c] + n /\ c \notin vain
          BY <2>4, <3>1 DEF EchoInv, EchoTyped
      <4>3. conn[c] # "closed"
          BY <1>1, <3>1 DEF RecvAndSend, EchoInv, EchoTyped, BytesAccounted
      <4>. QED
          BY <2>1, <2>2, <4>1, <4>2, <4>3 DEF EchoInv, EchoTyped, BytesAccounted
    <3>2. CASE c # sockfd
      <4>1. unread'[c] = unread[c] /\ echoed'[c] = echoed[c] /\ (c \in vain' <=> c \in vain)
          BY <2>3, <2>4, <3>2 DEF EchoInv, EchoTyped
      <4>. QED
          BY <2>2, <4>1 DEF EchoInv, BytesAccounted
    <3>. QED
        BY <3>1, <3>2
  <2>8. RoundIsOver'
      BY <2>2 DEF EchoInv, RoundIsOver
  <2>. QED
      BY <2>5, <2>6, <2>7, <2>8 DEF EchoInv
<1>2. CASE SendKills
  <2>1. AllAccounted'
      BY <1>2, NetUntouched DEF EchoInv, SendKills, echoNet
  <2>2. EchoTyped' /\ RoundIsOver' /\ BytesAccounted'
      BY <1>2 DEF EchoInv, EchoTyped, RoundIsOver, BytesAccounted, SendKills, echoNet, echoConn
  <2>. QED
      BY <2>1, <2>2 DEF EchoInv
<1>3. CASE RecvZero
  <2>1. AllAccounted'
      BY <1>3, NetUntouched DEF EchoInv, EchoTyped, RecvZero
  <2>2. EchoTyped' /\ RoundIsOver'
      BY <1>3 DEF EchoInv, EchoTyped, RoundIsOver, RecvZero
  <2>3. BytesAccounted'
      BY <1>3 DEF EchoInv, EchoTyped, BytesAccounted, RecvZero, Ended
  <2>. QED
      BY <2>1, <2>2, <2>3 DEF EchoInv
<1>4. CASE RecvError
  <2>1. AllAccounted'
      BY <1>4, NetUntouched DEF EchoInv, RecvError, echoNet
  <2>2. EchoTyped' /\ RoundIsOver'
      BY <1>4 DEF EchoInv, EchoTyped, RoundIsOver, RecvError, echoNet
  <2>3. BytesAccounted'
      BY <1>4 DEF EchoInv, EchoTyped, BytesAccounted, RecvError
  <2>. QED
      BY <2>1, <2>2, <2>3 DEF EchoInv
<1>. QED
    BY <1>1, <1>2, <1>3, <1>4

\* The invariant holds in every state of the echo server.
THEOREM EchoInvariance == EchoSpec => []EchoInv
<1>1. EchoInit => EchoInv
    BY EchoInitHolds
<1>2. EchoInv /\ [EchoNext]_echoVars => EchoInv'
  <2>1. ASSUME EchoInv, EchoNext PROVE EchoInv'
      BY <2>1, EchoPeersStep, EchoRoundStep, EchoEventStep, EchoReadStep DEF EchoNext, EchoServe
  <2>2. ASSUME EchoInv, UNCHANGED echoVars PROVE EchoInv'
    <3>1. AllAccounted'
        BY <2>2, NetUntouched DEF EchoInv, echoVars, echoMain, echoNet
    <3>2. EchoTyped' /\ RoundIsOver' /\ BytesAccounted'
        BY <2>2 DEF EchoInv, EchoTyped, RoundIsOver, BytesAccounted,
                    echoVars, echoMain, echoNet, echoConn
    <3>. QED
        BY <3>1, <3>2 DEF EchoInv
  <2>. QED
      BY <2>1, <2>2
<1>. QED
    BY <1>1, <1>2, PTL DEF EchoSpec

\* With one accept() and one recvfrom() per edge, what waits in the kernel while
\* tcp_udp_echo.c sleeps is what got no edge of its own or met a full descriptor table,
\* and a connection that was closed has had all of its bytes echoed.
THEOREM EchoKeepsAccounts == EchoSpec => []EchoAccounts
<1>1. EchoInv => EchoAccounts
  <2>. SUFFICES ASSUME EchoInv PROVE EchoAccounts
      OBVIOUS
  <2>1. ASSUME epc = "epoll_wait", edge = {}
        PROVE  Len(backlog) = unannounced["tcp_sock"] /\ datagrams = unannounced["udp_sock"]
    <3>1. \A s \in Listening : EdgeOf(s, edge) = 0 /\ EdgeOf(s, events) = 0
        BY <2>1 DEF EchoInv, RoundIsOver, EdgeOf
    <3>. QED
        BY <3>1 DEF EchoInv, EchoTyped, AllAccounted, Accounted, Listening
  <2>2. ASSUME NEW c \in EchoClients, conn[c] = "closed", c \notin vain PROVE echoed[c] = sent[c]
      BY <2>2 DEF EchoInv, EchoTyped, BytesAccounted
  <2>. QED
      BY <2>1, <2>2 DEF EchoAccounts
<1>. QED
    BY <1>1, EchoInvariance, PTL
-----------------------------------------------------------------------------
(***************************************************************************)
(* simple_epoll/server.c.                                                  *)
(***************************************************************************)
EpollTyped ==
    /\ spc \in {"epoll_wait", "events", "read", "exited"}
    /\ event_fd \in EpollClients
    /\ event_list \subseteq [fd : EpollClients \cup {Listen}, in : BOOLEAN]
    /\ ready \subseteq EpollClients
    /\ waiting \in Seq(EpollClients)
    /\ link \in [EpollClients -> {"none", "queued", "open", "closed"}]
    /\ pending \in [EpollClients -> Nat]
    /\ written \in [EpollClients -> Nat]
    /\ far \in [EpollClients -> {"none", "open", "half", "gone", "reset"}]

\* epoll_wait() is called when its last events have been handled, and accept() when a
\* connection waits: the listening socket has one event at most.
EventsInOrder ==
    /\ spc = "epoll_wait" => event_list = {}
    /\ \A e \in event_list : e.fd = Listen => e.in = TRUE /\ waiting # <<>>

\* Only who has connected is in the queue or has a connection.
OnlyConnected ==
    /\ \A j \in 1 .. Len(waiting) : far[waiting[j]] # "none"
    /\ \A c \in EpollClients : link[c] # "none" => far[c] # "none"

\* After its end a client's bytes are read in whole buffers, up to the last one.
TailIsKnown ==
    \A c \in EpollClients :
        far[c] \in {"half", "gone", "reset"} => pending[c] % BUF_SIZE = 0 \/ c \in odd

\* All is read, and the end was either seen or hidden behind a short read.
Settled(c) == pending[c] = 0 /\ (far[c] # "open" => c \in odd)

\* handler_client will be called for the connection, or is at work on it.
Attended(c) ==
    \/ c \in ready
    \/ \E e \in event_list : e.fd = c /\ e.in = TRUE
    \/ spc = "read" /\ event_fd = c

\* As long as the server runs, no open connection is forgotten.
EveryoneServed ==
    spc # "exited" => \A c \in EpollClients : link[c] = "open" => Settled(c) \/ Attended(c)

EpollInv == EpollTyped /\ EventsInOrder /\ OnlyConnected /\ TailIsKnown /\ EveryoneServed

\* A whole buffer less leaves the same rest.
LEMMA SameRest ==
    ASSUME NEW p \in Nat, NEW b \in Nat \ {0}, p >= b
    PROVE  (p - b) % b = p % b
<1>1. PICK c \in Nat, r \in 0 .. b - 1 : r = p % b /\ p = c * b + r
  <2>1. p \div b \in Nat /\ p % b \in 0 .. b - 1 /\ p = (p \div b) * b + (p % b)
      OBVIOUS
  <2>. QED
      BY <2>1
<1>2. PICK q \in Nat : q = p - b
    OBVIOUS
<1>3. PICK d \in Nat, s \in 0 .. b - 1 : s = q % b /\ q = d * b + s
  <2>1. q \div b \in Nat /\ q % b \in 0 .. b - 1 /\ q = (q \div b) * b + (q % b)
      OBVIOUS
  <2>. QED
      BY <2>1
<1>4. PICK k \in Int : k = c - d - 1
    OBVIOUS
<1>5. k * b = (c * b - d * b) - b
    BY ONLY <1>4, b \in Nat, c \in Nat, d \in Nat
<1>6. PICK x \in Nat, y \in Nat, z \in Int : x = c * b /\ y = d * b /\ z = k * b
    OBVIOUS
<1>7. z = s - r
    BY ONLY <1>1, <1>2, <1>3, <1>5, <1>6, p \in Nat, q \in Nat, b \in Nat,
            x \in Nat, y \in Nat, z \in Int, r \in 0 .. b - 1, s \in 0 .. b - 1
<1>8. z < b /\ z > -b
    BY ONLY <1>7, b \in Nat, r \in 0 .. b - 1, s \in 0 .. b - 1
<1>9. k = 0
  <2>1. k >= 1 => k * b >= b
      BY ONLY k \in Int, b \in Nat
  <2>2. k <= -1 => k * b <= -b
      BY ONLY k \in Int, b \in Nat
  <2>. QED
      BY <1>6, <1>8, <2>1, <2>2
<1>10. s = r
    BY <1>6, <1>7, <1>9
<1>. QED
    BY <1>1, <1>2, <1>3, <1>10

\* Whom handler_client is called for does not depend on the listening socket's events.
LEMMA StillAttended ==
    ASSUME NEW c, Attended(c), UNCHANGED event_fd, spc' = spc, c \in ready => c \in ready',
           \A e \in event_list : e.fd = c => e \in event_list'
    PROVE  Attended(c)'
    BY DEF Attended

\* The server starts without connections.
LEMMA EpollInitHolds == EpollInit => EpollInv
<1>. SUFFICES ASSUME EpollInit PROVE EpollInv
    OBVIOUS
<1>1. event_fd \in EpollClients
    BY EpollAssumption DEF EpollInit
<1>2. EpollTyped
    BY <1>1 DEF EpollInit, EpollTyped
<1>3. EventsInOrder /\ OnlyConnected /\ TailIsKnown
    BY DEF EpollInit, EventsInOrder, OnlyConnected, TailIsKnown
<1>4. EveryoneServed
    BY DEF EpollInit, EveryoneServed
<1>. QED
    BY <1>2, <1>3, <1>4 DEF EpollInv

\* What clients do: connect, send, end, and answer a late send() by a reset.
LEMMA EpollPeersStep ==
    ASSUME EpollInv, NEW c \in EpollClients,
           EpollConnects(c) \/ EpollSends(c) \/ EpollEnds(c) \/ ResetComesBack(c)
    PROVE  EpollInv'
<1>. USE EpollAssumption DEF EpollInv
<1>1. UNCHANGED <<spc, event_list, event_fd>>
    BY DEF EpollConnects, EpollSends, EpollEnds, ResetComesBack, serverVars
<1>2. CASE EpollConnects(c)
  <2>1. waiting' \in Seq(EpollClients) /\ waiting' # <<>>
        /\ Len(waiting') = Len(waiting) + 1 /\ waiting'[Len(waiting')] = c
        /\ \A j \in 1 .. Len(waiting) : waiting'[j] = waiting[j]
    <3>1. waiting \in Seq(EpollClients) /\ waiting' = Append(waiting, c)
        BY <1>2 DEF EpollConnects, EpollTyped
    <3>. QED
        BY <3>1, AppendProperties
  <2>2. /\ UNCHANGED <<ready, pending, written, odd>>
        /\ far' = [far EXCEPT ![c] = "open"] /\ link' = [link EXCEPT ![c] = "queued"]
      BY <1>2 DEF EpollConnects
  <2>3. EpollTyped'
      BY <1>1, <2>1, <2>2 DEF EpollTyped
  <2>4. EventsInOrder'
      BY <1>1, <2>1 DEF EventsInOrder
  <2>5. OnlyConnected'
    <3>1. ASSUME NEW j \in 1 .. Len(waiting') PROVE far'[waiting'[j]] # "none"
      <4>1. CASE j = Len(waiting')
          BY <4>1, <2>1, <2>2 DEF EpollTyped
      <4>2. CASE j # Len(waiting')
        <5>1. j \in 1 .. Len(waiting) /\ waiting[j] \in EpollClients
          <6>1. waiting \in Seq(EpollClients) /\ Len(waiting) \in Nat
              BY DEF EpollTyped
          <6>2. j \in 1 .. Len(waiting)
              BY ONLY <4>2, <6>1, <2>1, j \in 1 .. Len(waiting')
          <6>. QED
              BY <6>1, <6>2
        <5>. QED
            BY <5>1, <2>1, <2>2 DEF EpollTyped, OnlyConnected
      <4>. QED
          BY <4>1, <4>2
    <3>2. ASSUME NEW d \in EpollClients, link'[d] # "none" PROVE far'[d] # "none"
        BY <3>2, <2>2 DEF EpollTyped, OnlyConnected
    <3>. QED
        BY <3>1, <3>2 DEF OnlyConnected
  <2>6. TailIsKnown'
      BY <2>2 DEF TailIsKnown, EpollTyped
  <2>7. EveryoneServed'
    <3>. SUFFICES ASSUME spc # "exited", NEW d \in EpollClients, link'[d] = "open"
                  PROVE  Settled(d)' \/ Attended(d)'
        BY <1>1 DEF EveryoneServed
    <3>1. d # c /\ link[d] = "open" /\ far'[d] = far[d]
        BY <2>2 DEF EpollTyped
    <3>2. Settled(d) \/ Attended(d)
        BY <3>1 DEF EveryoneServed
    <3>3. Settled(d) => Settled(d)'
        BY <2>2, <3>1 DEF Settled
    <3>4. Attended(d) => Attended(d)'
        BY <1>1, <2>2, StillAttended
    <3>. QED
        BY <3>2, <3>3, <3>4
  <2>. QED
      BY <2>3, <2>4, <2>5, <2>6, <2>7
<1>3. CASE EpollSends(c) \/ EpollEnds(c) \/ ResetComesBack(c)
  <2>1. Changed(c) /\ UNCHANGED <<waiting, link>> /\ far[c] # "none"
      BY <1>3 DEF EpollSends, EpollEnds, ResetComesBack
  <2>2. ready' \subseteq EpollClients /\ ready \subseteq ready' /\ (link[c] = "open" => c \in ready')
      BY <2>1 DEF Changed, EpollTyped
  <2>3. /\ pending' \in [EpollClients -> Nat] /\ written' \in [EpollClients -> Nat]
        /\ far' \in [EpollClients -> {"none", "open", "half", "gone", "reset"}]
        /\ far'[c] # "none"
        /\ \A d \in EpollClients \ {c} : /\ pending'[d] = pending[d] /\ far'[d] = far[d]
                                         /\ d \in odd' <=> d \in odd
    <3>1. CASE EpollSends(c)
        BY <3>1 DEF EpollSends, EpollTyped
    <3>2. CASE EpollEnds(c)
        BY <3>2 DEF EpollEnds, EpollTyped
    <3>3. CASE ResetComesBack(c)
        BY <3>3 DEF ResetComesBack, EpollTyped
    <3>. QED
        BY <1>3, <3>1, <3>2, <3>3
  <2>4. EpollTyped'
      BY <1>1, <2>1, <2>2, <2>3 DEF EpollTyped
  <2>5. EventsInOrder'
      BY <1>1, <2>1 DEF EventsInOrder
  <2>6. OnlyConnected'
    <3>1. \A d \in EpollClients : far[d] # "none" => far'[d] # "none"
        BY <2>3
    <3>2. \A j \in 1 .. Len(waiting) : waiting[j] \in EpollClients
        BY DEF EpollTyped
    <3>. QED
        BY <2>1, <3>1, <3>2 DEF OnlyConnected
  <2>7. TailIsKnown'
    <3>1. far'[c] \in {"half", "gone", "reset"} => pending'[c] % BUF_SIZE = 0 \/ c \in odd'
      <4>1. CASE EpollSends(c)
          BY <4>1 DEF EpollSends
      <4>2. CASE EpollEnds(c)
          BY <4>2 DEF EpollEnds
      <4>3. CASE ResetComesBack(c)
          BY <4>3 DEF ResetComesBack, TailIsKnown
      <4>. QED
          BY <1>3, <4>1, <4>2, <4>3
    <3>. QED
        BY <2>3, <3>1 DEF TailIsKnown
  <2>8. EveryoneServed'
    <3>. SUFFICES ASSUME spc # "exited", NEW d \in EpollClients, link[d] = "open"
                  PROVE  Settled(d)' \/ Attended(d)'
        BY <1>1, <2>1 DEF EveryoneServed
    <3>1. CASE d = c
        BY <3>1, <2>2 DEF Attended
    <3>2. CASE d # c
      <4>1. Settled(d) => Settled(d)'
          BY <2>3, <3>2 DEF Settled
      <4>2. Attended(d) => Attended(d)'
          BY <1>1, <2>2, StillAttended
      <4>. QED
          BY <4>1, <4>2 DEF EveryoneServed
    <3>. QED
        BY <3>1, <3>2
  <2>. QED
      BY <2>4, <2>5, <2>6, <2>7, <2>8
<1>. QED
    BY <1>2, <1>3

\* epoll_wait and the end of a round.
LEMMA EpollRoundStep ==
    ASSUME EpollInv, epoll_wait \/ RoundDone
    PROVE  EpollInv'
<1>. USE EpollAssumption DEF EpollInv
<1>1. UNCHANGED <<event_fd, waiting, link, pending, written, far, odd>>
    BY DEF epoll_wait, RoundDone, linkVars
<1>2. OnlyConnected' /\ TailIsKnown'
    BY <1>1 DEF OnlyConnected, TailIsKnown
<1>3. CASE epoll_wait
  <2>1. /\ spc = "epoll_wait" /\ spc' = "events" /\ ready' = {} /\ event_list = {}
        /\ event_list' = [fd : IF waiting = <<>> THEN {} ELSE {Listen}, in : {TRUE}]
                         \cup {[fd |-> c, in |-> Readable(c)] : c \in ready}
      BY <1>3 DEF epoll_wait, EventsInOrder
  <2>2. \A c \in EpollClients : Readable(c) \in BOOLEAN
      BY DEF Readable
  <2>3. ASSUME NEW e \in event_list'
        PROVE  /\ e \in [fd : EpollClients \cup {Listen}, in : BOOLEAN]
               /\ e.fd = Listen => e.in = TRUE /\ waiting # <<>>
    <3>1. CASE e \in [fd : IF waiting = <<>> THEN {} ELSE {Listen}, in : {TRUE}]
        BY <3>1
    <3>2. CASE e \in {[fd |-> c, in |-> Readable(c)] : c \in ready}
      <4>1. PICK c \in ready : e = [fd |-> c, in |-> Readable(c)]
          BY <3>2
      <4>2. c \in EpollClients /\ c # Listen
          BY DEF EpollTyped
      <4>. QED
          BY <2>2, <4>1, <4>2
    <3>. QED
        BY <2>1, <3>1, <3>2
  <2>4. EpollTyped'
      BY <1>1, <2>1, <2>3 DEF EpollTyped
  <2>5. EventsInOrder'
      BY <1>1, <2>1, <2>3 DEF EventsInOrder
  <2>6. EveryoneServed'
    <3>. SUFFICES ASSUME NEW c \in EpollClients, link[c] = "open", ~Settled(c)
                  PROVE  Attended(c)'
        BY <1>1 DEF EveryoneServed, Settled
    <3>1. c \in ready
        BY <2>1 DEF EveryoneServed, Attended
    <3>2. Readable(c) = TRUE
        BY DEF Readable, Settled, EpollTyped
    <3>3. [fd |-> c, in |-> TRUE] \in event_list'
        BY <2>1, <3>1, <3>2
    <3>. QED
        BY <3>3 DEF Attended
  <2>. QED
      BY <1>2, <2>4, <2>5, <2>6
<1>4. CASE RoundDone
  <2>1. spc = "events" /\ spc' = "epoll_wait" /\ event_list = {} /\ UNCHANGED <<event_list, ready>>
      BY <1>4 DEF RoundDone, linkVars
  <2>2. EpollTyped' /\ EventsInOrder'
      BY <1>1, <2>1 DEF EpollTyped, EventsInOrder
  <2>3. EveryoneServed'
      BY <1>1, <2>1 DEF EveryoneServed, Attended, Settled
  <2>. QED
      BY <1>2, <2>2, <2>3
<1>. QED
    BY <1>3, <1>4

\* accept() is called for one event of the listening socket, and a connection waits.
LEMMA EpollAcceptStep ==
    ASSUME EpollInv, AcceptClient
    PROVE  EpollInv'
<1>. USE EpollAssumption DEF EpollInv
<1>1. PICK e \in event_list : e.fd = Listen /\ event_list' = event_list \ {e}
    BY DEF AcceptClient
<1>2. spc = "events" /\ UNCHANGED <<event_fd, pending, written, far, odd>>
    BY DEF AcceptClient
<1>3. \A f \in event_list' : f.fd # Listen
  <2>1. ASSUME NEW f \in event_list, f.fd = Listen PROVE f = e
    <3>1. f.in = TRUE /\ e.in = TRUE
        BY <1>1, <2>1 DEF EventsInOrder
    <3>2. /\ f \in [fd : EpollClients \cup {Listen}, in : BOOLEAN]
          /\ e \in [fd : EpollClients \cup {Listen}, in : BOOLEAN]
        BY <2>1 DEF EpollTyped
    <3>3. f = [fd |-> f.fd, in |-> f.in] /\ e = [fd |-> e.fd, in |-> e.in]
        BY <3>2
    <3>. QED
        BY <1>1, <2>1, <3>1, <3>3
  <2>. QED
      BY <1>1, <2>1
<1>4. waiting # <<>>
    BY <1>1 DEF EventsInOrder
<1>5. TailIsKnown'
    BY <1>2 DEF TailIsKnown
<1>6. EventsInOrder'
  <2>1. spc' # "epoll_wait"
      BY <1>2 DEF AcceptClient
  <2>. QED
      BY <1>3, <2>1 DEF EventsInOrder
<1>7. CASE Cardinality(EpollOpen) < EpollFds
  <2>. DEFINE h == Head(waiting)
  <2>1. /\ waiting' = Tail(waiting) /\ link' = [link EXCEPT ![h] = "open"]
        /\ ready' = ready \cup {h} /\ spc' = spc
      BY <1>7 DEF AcceptClient
  <2>2. /\ h = waiting[1] /\ h \in EpollClients /\ 1 \in 1 .. Len(waiting)
        /\ waiting' \in Seq(EpollClients)
        /\ Len(waiting') = Len(waiting) - 1
        /\ \A j \in 1 .. Len(waiting') : waiting'[j] = waiting[j + 1]
      BY <1>4, <2>1 DEF EpollTyped
  <2>. HIDE DEF h
  <2>3. EpollTyped'
      BY <1>1, <1>2, <2>1, <2>2 DEF EpollTyped
  <2>4. OnlyConnected'
    <3>1. far[h] # "none"
        BY <2>2 DEF OnlyConnected
    <3>2. ASSUME NEW j \in 1 .. Len(waiting') PROVE far'[waiting'[j]] # "none"
      <4>1. j + 1 \in 1 .. Len(waiting)
          BY <2>2 DEF EpollTyped
      <4>. QED
          BY <1>2, <2>2, <4>1 DEF OnlyConnected
    <3>3. ASSUME NEW d \in EpollClients, link'[d] # "none" PROVE far'[d] # "none"
        BY <1>2, <2>1, <2>2, <3>1, <3>3 DEF EpollTyped, OnlyConnected
    <3>. QED
        BY <3>2, <3>3 DEF OnlyConnected
  <2>5. EveryoneServed'
    <3>. SUFFICES ASSUME NEW d \in EpollClients, link'[d] = "open"
                  PROVE  Settled(d)' \/ Attended(d)'
        BY DEF EveryoneServed
    <3>1. CASE d = h
        BY <2>1, <3>1 DEF Attended
    <3>2. CASE d # h
      <4>1. Settled(d) => Settled(d)'
          BY <1>2 DEF Settled
      <4>2. Attended(d) => Attended(d)'
          BY <1>1, <1>2, <2>1, StillAttended
      <4>3. link[d] = "open"
          BY <2>1, <2>2, <3>2 DEF EpollTyped
      <4>. QED
          BY <1>2, <4>1, <4>2, <4>3 DEF EveryoneServed
    <3>. QED
        BY <3>1, <3>2
  <2>. QED
      BY <1>5, <1>6, <2>3, <2>4, <2>5
<1>8. CASE ~(Cardinality(EpollOpen) < EpollFds)
  <2>1. spc' = "exited" /\ UNCHANGED <<waiting, link, ready>>
      BY <1>8 DEF AcceptClient
  <2>2. EpollTyped' /\ OnlyConnected' /\ EveryoneServed'
      BY <1>1, <1>2, <2>1 DEF EpollTyped, OnlyConnected, EveryoneServed
  <2>. QED
      BY <1>5, <1>6, <2>2
<1>. QED
    BY <1>7, <1>8

\* handler_client is called for one event of a connection; without EPOLLIN it returns,
\* and then nothing was to be read when the event was reported.
LEMMA EpollHandleStep ==
    ASSUME EpollInv, HandleClient
    PROVE  EpollInv'
<1>. USE EpollAssumption DEF EpollInv
<1>1. PICK e \in event_list : /\ e.fd # Listen /\ event_list' = event_list \ {e}
                              /\ event_fd' = e.fd
                              /\ spc' = IF e.in THEN "read" ELSE "events"
    BY DEF HandleClient
<1>2. spc = "events" /\ UNCHANGED <<ready, waiting, link, pending, written, far, odd>>
    BY DEF HandleClient, linkVars
<1>3. e.fd \in EpollClients /\ e.in \in BOOLEAN
    BY <1>1 DEF EpollTyped
<1>4. EpollTyped'
    BY <1>1, <1>2, <1>3 DEF EpollTyped
<1>5. EventsInOrder'
    BY <1>1, <1>2 DEF EventsInOrder
<1>6. OnlyConnected' /\ TailIsKnown'
    BY <1>2 DEF OnlyConnected, TailIsKnown
<1>7. EveryoneServed'
  <2>. SUFFICES ASSUME NEW d \in EpollClients, link[d] = "open"
                PROVE  Settled(d)' \/ Attended(d)'
      BY <1>2 DEF EveryoneServed
  <2>1. Settled(d) => Settled(d)'
      BY <1>2 DEF Settled
  <2>2. Attended(d) => Attended(d)'
    <3>1. CASE d \in ready
        BY <1>2, <3>1 DEF Attended
    <3>2. ASSUME NEW f \in event_list, f.fd = d, f.in = TRUE PROVE Attended(d)'
      <4>1. CASE f = e
          BY <1>1, <3>2, <4>1 DEF Attended
      <4>2. CASE f # e
          BY <1>1, <3>2, <4>2 DEF Attended
      <4>. QED
          BY <4>1, <4>2
    <3>. QED
        BY <1>2, <3>1, <3>2 DEF Attended
  <2>. QED
      BY <1>2, <2>1, <2>2 DEF EveryoneServed
<1>. QED
    BY <1>4, <1>5, <1>6, <1>7

\* The reading loop of handler_client: after a short read the end of the client can be
\* hidden, but only behind bytes that did not fill their last buffer.
LEMMA EpollReadStep ==
    ASSUME EpollInv, ReadFull \/ ReadShort \/ ReadNothing \/ SendBreaks \/ ReadEnd \/ ReadWrong
    PROVE  EpollInv'
<1>. USE EpollAssumption DEF EpollInv
<1>1. spc = "read" /\ UNCHANGED <<event_list, event_fd, waiting, written, far, odd>>
    BY DEF ReadFull, ReadShort, ReadNothing, SendBreaks, ReadEnd, ReadWrong, serverVars, linkVars
<1>2. spc' \in {"read", "events", "exited"}
    BY <1>1 DEF ReadFull, ReadShort, ReadNothing, SendBreaks, ReadEnd, ReadWrong, serverVars
<1>3. EventsInOrder'
    BY <1>1, <1>2 DEF EventsInOrder
<1>4. CASE ReadFull
  <2>1. /\ UNCHANGED <<spc, ready, link>> /\ pending[event_fd] >= BUF_SIZE
        /\ pending' = [pending EXCEPT ![event_fd] = @ - BUF_SIZE]
      BY <1>4 DEF ReadFull, serverVars
  <2>2. pending[event_fd] - BUF_SIZE \in Nat
      BY <2>1 DEF EpollTyped
  <2>3. EpollTyped'
      BY <1>1, <2>1, <2>2 DEF EpollTyped
  <2>4. OnlyConnected'
      BY <1>1, <2>1 DEF OnlyConnected
  <2>5. TailIsKnown'
    <3>1. pending'[event_fd] = pending[event_fd] - BUF_SIZE
        BY <2>1 DEF EpollTyped
    <3>2. pending'[event_fd] % BUF_SIZE = pending[event_fd] % BUF_SIZE
        BY <2>1, <3>1, SameRest DEF EpollTyped
    <3>3. \A c \in EpollClients \ {event_fd} : pending'[c] = pending[c]
        BY <2>1 DEF EpollTyped
    <3>. QED
        BY <1>1, <3>2, <3>3 DEF TailIsKnown
  <2>6. EveryoneServed'
    <3>. SUFFICES ASSUME NEW d \in EpollClients, link[d] = "open"
                  PROVE  Settled(d)' \/ Attended(d)'
        BY <2>1 DEF EveryoneServed
    <3>1. CASE d = event_fd
        BY <1>1, <2>1, <3>1 DEF Attended
    <3>2. CASE d # event_fd
      <4>1. Settled(d) => Settled(d)'
          BY <1>1, <2>1, <3>2 DEF Settled, EpollTyped
      <4>2. Attended(d) => Attended(d)'
          BY <1>1, <2>1, StillAttended
      <4>. QED
          BY <1>1, <4>1, <4>2 DEF EveryoneServed
    <3>. QED
        BY <3>1, <3>2
  <2>. QED
      BY <1>3, <2>3, <2>4, <2>5, <2>6
<1>5. CASE ReadShort \/ ReadNothing
  <2>1. /\ spc' = "events" /\ UNCHANGED <<ready, link>>
        /\ pending' = [pending EXCEPT ![event_fd] = 0]
    <3>1. CASE ReadShort
        BY <3>1 DEF ReadShort
    <3>2. CASE ReadNothing
        BY <3>2 DEF ReadNothing, linkVars, EpollTyped
    <3>. QED
        BY <1>5, <3>1, <3>2
  <2>2. EpollTyped'
      BY <1>1, <2>1 DEF EpollTyped
  <2>3. OnlyConnected'
      BY <1>1, <2>1 DEF OnlyConnected
  <2>4. pending'[event_fd] = 0 /\ \A c \in EpollClients \ {event_fd} : pending'[c] = pending[c]
      BY <2>1 DEF EpollTyped
  <2>5. TailIsKnown'
    <3>1. 0 % BUF_SIZE = 0
        OBVIOUS
    <3>. QED
        BY <1>1, <2>4, <3>1 DEF TailIsKnown
  <2>6. link[event_fd] = "open" => Settled(event_fd)'
    <3>1. CASE ReadShort
      <4>1. pending[event_fd] % BUF_SIZE # 0
        <5>1. PICK p \in Nat : p = pending[event_fd] /\ p > 0 /\ p < BUF_SIZE
            BY <3>1 DEF ReadShort, EpollTyped
        <5>2. p % BUF_SIZE = p
            BY <5>1
        <5>. QED
            BY <5>1, <5>2
      <4>2. link[event_fd] = "open" /\ far[event_fd] # "open" => event_fd \in odd
          BY <4>1 DEF EpollTyped, TailIsKnown, OnlyConnected
      <4>. QED
          BY <1>1, <2>4, <4>2 DEF Settled
    <3>2. CASE ReadNothing
        BY <1>1, <2>4, <3>2 DEF Settled, ReadNothing
    <3>. QED
        BY <1>5, <3>1, <3>2
  <2>7. EveryoneServed'
    <3>. SUFFICES ASSUME NEW d \in EpollClients, link[d] = "open"
                  PROVE  Settled(d)' \/ Attended(d)'
        BY <2>1 DEF EveryoneServed
    <3>1. CASE d = event_fd
        BY <1>1, <2>6, <3>1 DEF Settled
    <3>2. CASE d # event_fd
      <4>1. Settled(d) => Settled(d)'
          BY <1>1, <2>4, <3>2 DEF Settled
      <4>2. Attended(d) => Attended(d)'
          BY <1>1, <2>1, <3>2 DEF Attended
      <4>. QED
          BY <1>1, <4>1, <4>2 DEF EveryoneServed
    <3>. QED
        BY <3>1, <3>2
  <2>. QED
      BY <1>3, <2>2, <2>3, <2>5, <2>7
<1>6. CASE SendBreaks \/ ReadWrong
  <2>1. spc' = "exited" /\ UNCHANGED <<ready, link, pending>>
      BY <1>6 DEF SendBreaks, ReadWrong, linkVars
  <2>2. EpollTyped' /\ OnlyConnected' /\ TailIsKnown' /\ EveryoneServed'
      BY <1>1, <2>1 DEF EpollTyped, OnlyConnected, TailIsKnown, EveryoneServed
  <2>. QED
      BY <1>3, <2>2
<1>7. CASE ReadEnd
  <2>1. /\ spc' = "events" /\ UNCHANGED pending /\ far[event_fd] # "none"
        /\ link' = [link EXCEPT ![event_fd] = "closed"] /\ ready' = ready \ {event_fd}
      BY <1>7 DEF ReadEnd
  <2>2. EpollTyped'
      BY <1>1, <2>1 DEF EpollTyped
  <2>3. OnlyConnected' /\ TailIsKnown'
      BY <1>1, <2>1 DEF EpollTyped, OnlyConnected, TailIsKnown
  <2>4. EveryoneServed'
    <3>. SUFFICES ASSUME NEW d \in EpollClients, link'[d] = "open"
                  PROVE  Settled(d)' \/ Attended(d)'
        BY DEF EveryoneServed
    <3>1. d # event_fd /\ link[d] = "open"
        BY <2>1 DEF EpollTyped
    <3>2. Settled(d) => Settled(d)'
        BY <1>1, <2>1 DEF Settled
    <3>3. Attended(d) => Attended(d)'
        BY <1>1, <2>1, <3>1 DEF Attended
    <3>. QED
        BY <1>1, <3>1, <3>2, <3>3 DEF EveryoneServed
  <2>. QED
      BY <1>3, <2>2, <2>3, <2>4
<1>. QED
    BY <1>4, <1>5, <1>6, <1>7

\* The invariant holds in every state of simple_epoll/server.c.
THEOREM EpollInvariance == EpollSpec => []EpollInv
<1>1. EpollInit => EpollInv
    BY EpollInitHolds
<1>2. EpollInv /\ [EpollNext]_epollVars => EpollInv'
  <2>1. ASSUME EpollInv, EpollNext PROVE EpollInv'
      BY <2>1, EpollPeersStep, EpollRoundStep, EpollAcceptStep, EpollHandleStep, EpollReadStep
         DEF EpollNext, EpollServe
  <2>2. ASSUME EpollInv, UNCHANGED epollVars PROVE EpollInv'
      BY <2>2 DEF EpollInv, EpollTyped, EventsInOrder, OnlyConnected, TailIsKnown, EveryoneServed,
                  Settled, Attended, epollVars, serverVars, linkVars
  <2>. QED
      BY <2>1, <2>2
<1>. QED
    BY <1>1, <1>2, PTL DEF EpollSpec

\* When simple_epoll/server.c sleeps, every connection without an edge has been read to
\* its last byte, and its end is missed only behind bytes that did not fill their last
\* buffer.
THEOREM ShortReadsLoseNothing == EpollSpec => []EdgesSuffice
<1>1. EpollInv => EdgesSuffice
    BY DEF EpollInv, EdgesSuffice, EpollOpen, EventsInOrder, EveryoneServed, Attended, Settled
<1>. QED
    BY <1>1, EpollInvariance, PTL
-----------------------------------------------------------------------------
(***************************************************************************)
(* The redis server skeleton.                                              *)
(***************************************************************************)
RedisTyped ==
    /\ limit \in Nat
    /\ clients \in Seq(ipfd + 1 .. maxclients - 1)

RedisInv ==
    /\ RedisTyped
    /\ IsInjective(clients)
    /\ fds = ServerFds \cup RedisClients
    /\ mask = {ipfd} \cup RedisClients /\ epfd = mask

\* A set of descriptors that is not empty has a lowest one, which Lowest names.
LEMMA LowestExists ==
    ASSUME NEW S, S \subseteq Nat, S # {}
    PROVE  Lowest(S) \in S
<1>1. PICK x \in S : \A y \in S : ~(<<y, x>> \in OpToRel(<, Nat))
    BY WFMin, NatLessThanWellFounded, Zenon
<1>2. ASSUME NEW y \in S PROVE ~(y < x)
    BY <1>1, Zenon DEF OpToRel
<1>3. \A y \in S : x <= y
    BY <1>2
<1>. QED
    BY <1>3 DEF Lowest

\* A client with a new descriptor at the end of the list leaves the list without
\* repetitions.
LEMMA NewClient ==
    ASSUME NEW T, NEW s \in Seq(T), NEW x \in T, IsInjective(s), x \notin Range(s)
    PROVE  /\ Append(s, x) \in Seq(T)
           /\ IsInjective(Append(s, x))
           /\ Range(Append(s, x)) = Range(s) \cup {x}
<1>. DEFINE t == Append(s, x)
<1>1. PICK n \in Nat : n = Len(s) /\ DOMAIN s = 1 .. n
    BY LenProperties
<1>2. /\ t \in Seq(T) /\ DOMAIN t = 1 .. n + 1 /\ t[n + 1] = x
      /\ \A j \in 1 .. n : t[j] = s[j]
    BY <1>1, AppendProperties
<1>. HIDE DEF t
<1>3. \A j \in 1 .. n : s[j] # x
    BY <1>1 DEF Range
<1>4. IsInjective(t)
  <2>. SUFFICES ASSUME NEW a \in 1 .. n + 1, NEW b \in 1 .. n + 1, t[a] = t[b] PROVE a = b
      BY <1>2 DEF IsInjective
  <2>1. CASE a \in 1 .. n /\ b \in 1 .. n
      BY <1>1, <1>2, <2>1 DEF IsInjective
  <2>2. CASE a = n + 1 \/ b = n + 1
    <3>1. \A j \in 1 .. n + 1 : j = n + 1 \/ j \in 1 .. n
        OBVIOUS
    <3>. QED
        BY <1>2, <1>3, <2>2, <3>1
  <2>. QED
      BY <2>1, <2>2
<1>5. ASSUME NEW y PROVE y \in Range(t) <=> y \in Range(s) \/ y = x
  <2>1. y \in Range(t) <=> \E j \in 1 .. n + 1 : y = t[j]
      BY <1>2 DEF Range
  <2>2. y \in Range(s) <=> \E j \in 1 .. n : y = s[j]
      BY <1>1 DEF Range
  <2>3. n + 1 \in 1 .. n + 1 /\ \A j \in 1 .. n : j \in 1 .. n + 1
      OBVIOUS
  <2>4. \A j \in 1 .. n + 1 : j = n + 1 \/ j \in 1 .. n
      OBVIOUS
  <2>. QED
      BY <1>2, <2>1, <2>2, <2>3, <2>4
<1>. QED
    BY <1>2, <1>4, <1>5 DEF t

\* A list without repetitions is not longer than the range of its descriptors.
LEMMA ListFitsTable ==
    ASSUME NEW a \in Nat, NEW b \in Nat, a <= b, NEW s \in Seq(a .. b - 1), IsInjective(s)
    PROVE  Len(s) <= b - a
<1>1. PICK n \in Nat : n = Len(s) /\ s \in [1 .. n -> a .. b - 1]
    BY LenProperties
<1>2. s \in Injection(1 .. n, a .. b - 1)
    BY <1>1 DEF Injection
<1>3. IsFiniteSet(a .. b - 1) /\ Cardinality(a .. b - 1) = b - a
  <2>1. PICK m \in Int : m = b - 1
      OBVIOUS
  <2>2. IsFiniteSet(a .. m) /\ Cardinality(a .. m) = IF a > m THEN 0 ELSE m - a + 1
      BY FS_Interval
  <2>. QED
      BY <2>1, <2>2
<1>4. Cardinality(1 .. n) = n
    BY FS_Interval
<1>5. Cardinality(1 .. n) <= Cardinality(a .. b - 1)
    BY <1>2, <1>3, FS_Injection
<1>. QED
    BY <1>1, <1>3, <1>4, <1>5

\* The invariant speaks of the descriptors, the table, epoll and the list only.
LEMMA RedisUntouched ==
    ASSUME RedisInv, UNCHANGED <<limit, fds, mask, epfd, clients>>
    PROVE  RedisInv'
    BY DEF RedisInv, RedisTyped, RedisClients

\* createClient: the lowest descriptor is new to the list, to the table and to epoll.
LEMMA CreateStep ==
    ASSUME RedisInv, createClient
    PROVE  RedisInv'
<1>. USE RedisAssumption
<1>1. CASE Refused
    BY <1>1, RedisUntouched DEF createClient, freeClient
<1>2. CASE ~Refused
  <2>1. PICK fd : fd = Lowest(Unused)
      OBVIOUS
  <2>2. /\ fd \in Nat => fd < maxclients
        /\ mask' = mask \cup {fd} /\ epfd' = epfd \cup {fd}
        /\ fds' = fds \cup {fd} /\ clients' = Append(clients, fd) /\ limit' = limit
      BY <1>2, <2>1 DEF createClient, CreateFails, aeCreateFileEvent, aeApiAddEvent
  <2>3. Unused # {} /\ Unused \subseteq Nat
      BY DEF createClient, Unused, RedisInv, RedisTyped
  <2>4. fd \in Nat /\ fd \notin fds
      BY <2>1, <2>3, LowestExists DEF Unused
  <2>5. fd \in ipfd + 1 .. maxclients - 1 /\ fd \notin Range(clients)
      BY <2>2, <2>4 DEF RedisInv, RedisClients, ServerFds, ipfd
  <2>6. /\ clients' \in Seq(ipfd + 1 .. maxclients - 1)
        /\ IsInjective(clients')
        /\ Range(clients') = Range(clients) \cup {fd}
    <3>1. PICK T : T = ipfd + 1 .. maxclients - 1
        OBVIOUS
    <3>2. clients \in Seq(T) /\ fd \in T /\ IsInjective(clients) /\ fd \notin Range(clients)
        BY <2>5, <3>1 DEF RedisInv, RedisTyped
    <3>3. /\ Append(clients, fd) \in Seq(T) /\ IsInjective(Append(clients, fd))
          /\ Range(Append(clients, fd)) = Range(clients) \cup {fd}
        BY ONLY <3>2, NewClient
    <3>. QED
        BY <2>2, <3>1, <3>3
  <2>7. RedisTyped' /\ IsInjective(clients)'
      BY <2>2, <2>6 DEF RedisInv, RedisTyped
  <2>8. (fds = ServerFds \cup RedisClients)' /\ (mask = {ipfd} \cup RedisClients)' /\ (epfd = mask)'
      BY <2>2, <2>6 DEF RedisInv, RedisClients, ServerFds, ipfd
  <2>. QED
      BY <2>7, <2>8 DEF RedisInv
<1>. QED
    BY <1>1, <1>2

\* The invariant holds in every state of the redis server skeleton.
THEOREM RedisInvariance == RedisSpec => []RedisInv
<1>1. RedisInit => RedisInv
  <2>. SUFFICES ASSUME RedisInit PROVE RedisInv
      OBVIOUS
  <2>1. clients = <<>> /\ clients \in Seq(ipfd + 1 .. maxclients - 1) /\ limit \in Nat
      BY RedisAssumption DEF RedisInit
  <2>2. IsInjective(clients) /\ Range(clients) = {}
      BY <2>1 DEF IsInjective, Range
  <2>. QED
      BY <2>1, <2>2 DEF RedisInit, RedisInv, RedisTyped, RedisClients
<1>2. RedisInv /\ [RedisNext]_redisVars => RedisInv'
  <2>. SUFFICES ASSUME RedisInv, [RedisNext]_redisVars PROVE RedisInv'
      OBVIOUS
  <2>1. CASE createClient
      BY <2>1, CreateStep
  <2>2. CASE \/ ProcessEvents \/ Poll \/ (\E fd \in fired : Dispatch(fd)) \/ DispatchEnds
             \/ AcceptReturns \/ CreateClientFails \/ serverCron \/ TimeEventsEnd
    <3>1. UNCHANGED <<limit, fds, mask, epfd, clients>>
        BY <2>2 DEF ProcessEvents, Poll, Dispatch, DispatchEnds, AcceptReturns, CreateClientFails,
                    serverCron, TimeEventsEnd, redisProc, aeVars
    <3>. QED
        BY <3>1, RedisUntouched
  <2>3. CASE Arrive \/ (\E fd \in fds : Act(fd)) \/ Passes \/ Shutdown \/ UNCHANGED redisVars
    <3>1. UNCHANGED <<limit, fds, mask, epfd, clients>>
        BY <2>3 DEF Arrive, Act, Passes, Shutdown, redisVars, redisProc, aeVars
    <3>. QED
        BY <3>1, RedisUntouched
  <2>. QED
      BY <2>1, <2>2, <2>3 DEF RedisNext, RedisLoop
<1>. QED
    BY <1>1, <1>2, PTL DEF RedisSpec

\* Descriptors, event table, epoll and client list of the redis server skeleton agree, and
\* the table is full before the list is longer than maxclients, whatever the limit of
\* descriptors is.
THEOREM ClientsHold == RedisSpec => []ClientsConsistent
<1>1. RedisInv => ClientsConsistent
  <2>. SUFFICES ASSUME RedisInv PROVE ClientsConsistent
      OBVIOUS
  <2>. USE RedisAssumption
  <2>1. Cardinality(ServerFds) = ipfd + 1
    <3>1. PICK l \in Int, h \in Int : l = 0 /\ h = ipfd
        BY DEF ipfd
    <3>2. Cardinality(l .. h) = IF l > h THEN 0 ELSE h - l + 1
        BY FS_Interval
    <3>. QED
        BY <3>1, <3>2 DEF ServerFds, ipfd
  <2>2. Len(clients) <= maxclients - (ipfd + 1) /\ Len(clients) \in Nat
      BY ListFitsTable DEF RedisInv, RedisTyped, ipfd
  <2>3. Len(clients) + Cardinality(ServerFds) <= maxclients
      BY <2>1, <2>2 DEF ipfd
  <2>4. RedisClients \subseteq ipfd + 1 .. maxclients - 1
    <3>1. PICK T : T = ipfd + 1 .. maxclients - 1
        OBVIOUS
    <3>2. clients \in Seq(T)
        BY <3>1 DEF RedisInv, RedisTyped
    <3>3. \A j \in DOMAIN clients : clients[j] \in T
        BY ONLY <3>2
    <3>. QED
        BY <3>1, <3>3 DEF RedisClients, Range
  <2>5. mask \subseteq 0 .. maxclients - 1
      BY <2>4 DEF RedisInv, ipfd
  <2>. QED
      BY <2>3, <2>5 DEF RedisInv, ClientsConsistent
<1>. QED
    BY <1>1, RedisInvariance, PTL

-------------------------------------------------------------------------------
(* The tunnel *)

\* Every hop has two directions and two ends.
TunnelShape == {DOMAIN up, DOMAIN down, DOMAIN nearEnd, DOMAIN farEnd} = {Hop}

\* No step takes a hop away.
LEMMA ShapeStays ==
  ASSUME TunnelShape, [TunnelNext]_tunnelVars
  PROVE  TunnelShape'
<1>1. DOMAIN up = Hop /\ DOMAIN down = Hop /\ DOMAIN nearEnd = Hop /\ DOMAIN farEnd = Hop
  BY DEF TunnelShape
<1>2. ASSUME NEW n \in Node, Thread(n)
      PROVE  /\ DOMAIN up' = Hop /\ DOMAIN down' = Hop
             /\ DOMAIN nearEnd' = Hop /\ DOMAIN farEnd' = Hop
  <2>1. CASE Closes(n)
    BY <1>1, <2>1 DEF Closes
  <2>2. CASE LocalGreeting
    BY <1>1, <2>2 DEF LocalGreeting, Closes, hops
  <2>3. CASE LocalRefuses \/ LocalConnectFails \/ ServerShort
    BY <1>1, <2>3 DEF LocalRefuses, LocalConnectFails, ServerShort, Closes
  <2>4. CASE LocalRequest
    BY <1>1, <2>4 DEF LocalRequest
  <2>5. CASE ServerDials
    BY <1>1, <2>5 DEF ServerDials, Closes
  <2>6. CASE RelaySelect(n)
    BY <1>1, <2>6 DEF RelaySelect, hops
  <2>7. CASE RelaySend(n)
    BY <1>1, <2>7 DEF RelaySend
  <2>8. CASE RelaySendLost(n)
    BY <1>1, <2>1, <2>8 DEF RelaySendLost, hops
  <2>9. CASE \E d \in {"up", "down"} : RelayRecv(n, d)
    BY <1>1, <2>1, <2>9 DEF RelayRecv
  <2> QED
    BY <1>2, <2>2, <2>3, <2>4, <2>5, <2>6, <2>7, <2>8, <2>9 DEF Thread
<1>3. CASE \/ ClientGreets \/ ClientSendsRest \/ ClientRequests \/ ClientSends \/ ClientReads
           \/ TargetSends \/ TargetReads
  BY <1>1, <1>3 DEF TunnelShape, ClientGreets, ClientSendsRest, ClientRequests, ClientSends,
       ClientReads, TargetSends, TargetReads
<1>4. CASE ClientEnds \/ TargetEnds
  BY <1>1, <1>4 DEF TunnelShape, ClientEnds, TargetEnds
<1>5. CASE UNCHANGED tunnelVars
  BY <1>5 DEF TunnelShape, tunnelVars, hops
<1> QED
  BY <1>2, <1>3, <1>4, <1>5 DEF TunnelNext, TunnelShape

\* While both threads are in a send() without room, no step of theirs is possible, and
\* nobody else reads or writes the hop between them.
LEMMA GridlockStays ==
  ASSUME TunnelShape, Gridlock, TunnelNext
  PROVE  Gridlock'
<1>1. DOMAIN up = Hop /\ DOMAIN down = Hop /\ DOMAIN nearEnd = Hop /\ DOMAIN farEnd = Hop
  BY DEF TunnelShape
<1>2. ASSUME NEW n \in Node PROVE ~Thread(n)
  <2>1. nodePc[n] = "send"
    BY DEF Node, Gridlock
  <2>2. ~RelaySend(n) /\ ~RelaySendLost(n)
    <3>1. CASE n = "local"
      BY <3>1 DEF RelaySend, RelaySendLost, Receiver, OutHop, Near, Far, Gridlock
    <3>2. CASE n = "server"
      BY <3>2 DEF RelaySend, RelaySendLost, Receiver, OutHop, Near, Far, Gridlock
    <3> QED
      BY <3>1, <3>2 DEF Node
  <2> QED
    BY <2>1, <2>2 DEF Thread, LocalGreeting, LocalRefuses, LocalRequest, LocalConnectFails,
         ServerDials, ServerShort, RelaySelect, RelayRecv
<1>3. /\ UNCHANGED threads
      /\ up'["ls"] = up["ls"] /\ down'["ls"] = down["ls"]
      /\ nearEnd'["ls"] = nearEnd["ls"] /\ farEnd'["ls"] = farEnd["ls"]
  <2>1. CASE \/ ClientGreets \/ ClientSendsRest \/ ClientRequests \/ ClientSends \/ ClientReads
             \/ TargetSends \/ TargetReads
    BY <1>1, <2>1 DEF Hop, ClientGreets, ClientSendsRest, ClientRequests, ClientSends,
         ClientReads, TargetSends, TargetReads
  <2>2. CASE ClientEnds \/ TargetEnds
    BY <1>1, <2>2 DEF Hop, ClientEnds, TargetEnds
  <2> QED
    BY <1>2, <2>1, <2>2 DEF TunnelNext
<1> QED
  BY <1>3 DEF Gridlock, Room, threads

\* Two threads that wait for each other in send() do so for ever, for every size of
\* the buffers, every table and whatever client and target say: local.py and
\* server.py relay one direction at a time and do not read while they send.
THEOREM GridlockStaysForever == Spec => GridlockIsForever
<1>1. Init => TunnelShape
  BY DEF Init, TunnelInit, TunnelShape, Hop
<1>2. TunnelShape /\ [Next]_vars => TunnelShape'
  BY ShapeStays DEF Next, vars
<1>3. TunnelShape /\ [Next]_vars => [Gridlock => Gridlock']_tunnelVars
  BY GridlockStays DEF Next, vars
<1> QED
  BY <1>1, <1>2, <1>3, PTL DEF Spec, GridlockIsForever
-------------------------------------------------------------------------------
(* The tunnel: the code and the pipe it is laid into *)

Relays == {"select", "up", "down", "send"}
Decoded(x) == CHOOSE b \in Byte : Table[b] = x

\* What is encoded and decoded is what it was, byte by byte.
LEMMA CodeRight ==
  ASSUME NEW s \in Seq(Byte)
  PROVE  /\ encrypt(s) \in Seq(Byte) /\ decrypt(s) \in Seq(Byte)
         /\ Len(decrypt(s)) = Len(s) /\ decrypt(encrypt(s)) = s
         /\ \A i \in 1 .. Len(s) : decrypt(s)[i] = Decoded(s[i])
<1>1. PICK n \in Nat : n = Len(s)
  BY LenProperties
<1>2. \A x \in Byte : Decoded(x) \in Byte /\ Decoded(Table[x]) = x /\ Table[x] \in Byte
  BY TableAssumption DEF Decoded
<1>3. \A i \in 1 .. n : s[i] \in Byte
  BY <1>1, ElementOfSeq
<1>4. PICK e : e = encrypt(s)
  OBVIOUS
<1>5. e = [i \in 1 .. n |-> Table[s[i]]]
  BY <1>1, <1>4 DEF encrypt
<1>6. e \in Seq(Byte) /\ Len(e) = n /\ \A i \in 1 .. n : e[i] = Table[s[i]]
  BY <1>2, <1>3, <1>5
<1>7. PICK d : d = decrypt(s)
  OBVIOUS
<1>8. d = [i \in 1 .. n |-> Decoded(s[i])]
  BY <1>1, <1>7 DEF decrypt, Decoded
<1>9. d \in Seq(Byte) /\ Len(d) = n /\ \A i \in 1 .. n : d[i] = Decoded(s[i])
  BY <1>2, <1>3, <1>8
<1>10. PICK f : f = decrypt(e)
  OBVIOUS
<1>11. f = [i \in 1 .. n |-> Decoded(e[i])]
  BY <1>6, <1>10 DEF decrypt, Decoded
<1>12. \A i \in 1 .. n : Decoded(e[i]) = s[i]
  BY <1>2, <1>3, <1>6
<1>13. f \in Seq(Byte) /\ Len(f) = n /\ \A i \in 1 .. n : f[i] = s[i]
  BY <1>3, <1>11, <1>12
<1>14. f = s
  BY <1>1, <1>13, SeqEqual
<1> QED
  BY <1>1, <1>4, <1>6, <1>7, <1>9, <1>10, <1>14

\* Decoding goes piece by piece.
LEMMA DecodeJoin ==
  ASSUME NEW s \in Seq(Byte), NEW t \in Seq(Byte)
  PROVE  decrypt(s \o t) = decrypt(s) \o decrypt(t)
<1>1. PICK m \in Nat, n \in Nat : m = Len(s) /\ n = Len(t)
  BY LenProperties
<1>2. PICK w \in Seq(Byte) : w = s \o t
  BY ConcatProperties
<1>3. Len(w) = m + n /\ \A i \in 1 .. m + n : w[i] = IF i <= m THEN s[i] ELSE t[i - m]
  BY <1>1, <1>2, ConcatProperties
<1>4. PICK a \in Seq(Byte), b \in Seq(Byte), c \in Seq(Byte) :
        a = decrypt(s) /\ b = decrypt(t) /\ c = decrypt(w)
  BY CodeRight
<1>5. /\ Len(a) = m /\ \A i \in 1 .. m : a[i] = Decoded(s[i])
      /\ Len(b) = n /\ \A i \in 1 .. n : b[i] = Decoded(t[i])
      /\ Len(c) = m + n /\ \A i \in 1 .. m + n : c[i] = Decoded(w[i])
  BY <1>1, <1>3, <1>4, CodeRight
<1>6. PICK x \in Seq(Byte) : x = a \o b
  BY ConcatProperties
<1>7. Len(x) = m + n /\ \A i \in 1 .. m + n : x[i] = IF i <= m THEN a[i] ELSE b[i - m]
  <2>1. a \in Seq(Byte) /\ b \in Seq(Byte) /\ m \in Nat /\ n \in Nat /\ m = Len(a) /\ n = Len(b)
    BY <1>5
  <2> QED
    BY ONLY <1>6, <2>1, ConcatProperties
<1>8. ASSUME NEW i \in 1 .. m + n PROVE c[i] = x[i]
  <2>1. CASE i <= m
    <3>1. i \in 1 .. m
      BY <2>1
    <3>2. w[i] = s[i] /\ x[i] = a[i]
      BY <1>3, <1>7, <2>1
    <3>3. c[i] = Decoded(w[i]) /\ a[i] = Decoded(s[i])
      BY <1>5, <3>1
    <3> QED
      BY <3>2, <3>3
  <2>2. CASE ~(i <= m)
    <3>1. PICK j \in 1 .. n : j = i - m
      BY <2>2
    <3>2. w[i] = t[j] /\ x[i] = b[j]
      BY <1>3, <1>7, <2>2, <3>1
    <3>3. c[i] = Decoded(w[i]) /\ b[j] = Decoded(t[j])
      BY <1>5
    <3> QED
      BY <3>2, <3>3
  <2> QED
    BY <2>1, <2>2
<1>9. c = x
  BY <1>5, <1>7, <1>8, SeqEqual
<1> QED
  BY <1>2, <1>4, <1>6, <1>9

\* Nothing is decoded to nothing.
LEMMA DecodeNothing == decrypt(<<>>) = <<>>
<1>1. <<>> \in Seq(Byte) /\ Len(<<>>) = 0
  OBVIOUS
<1>2. PICK d \in Seq(Byte) : d = decrypt(<<>>)
  BY <1>1, CodeRight
<1>3. Len(d) = 0
  BY <1>1, <1>2, CodeRight
<1> QED
  BY <1>2, <1>3, EmptySeq

\* A sequence is its beginning and its rest.
LEMMA TwoParts ==
  ASSUME NEW T, NEW s \in Seq(T), NEW k \in 0 .. Len(s)
  PROVE  /\ SubSeq(s, 1, k) \in Seq(T) /\ SubSeq(s, k + 1, Len(s)) \in Seq(T)
         /\ SubSeq(s, 1, k) \o SubSeq(s, k + 1, Len(s)) = s
<1>1. PICK n \in Nat : n = Len(s)
  BY LenProperties
<1>2. \A i \in 1 .. n : s[i] \in T
  BY <1>1, ElementOfSeq
<1>3. SubSeq(s, 1, k) \in Seq(T) /\ SubSeq(s, k + 1, n) \in Seq(T)
  <2>1. \A i \in 1 .. k : s[i] \in T
    BY <1>1, <1>2
  <2>2. \A i \in k + 1 .. n : s[i] \in T
    BY <1>1, <1>2
  <2>3. k \in Int /\ k + 1 \in Int /\ n \in Int /\ 1 \in Int
    BY <1>1
  <2> QED
    BY <2>1, <2>2, <2>3, SubSeqProperties
<1>4. SubSeq(s, 1, k) \o SubSeq(s, k + 1, n) = SubSeq(s, 1, n)
  <2>1. 1 \in 1 .. Len(s) + 1 /\ k \in 1 - 1 .. Len(s) /\ n \in k .. Len(s)
    BY <1>1
  <2> QED
    BY <2>1, ConcatAdjacentSubSeq
<1> QED
  BY <1>1, <1>3, <1>4, SubSeqFull

\* Element and length of two sequences put together.
LEMMA JoinFacts ==
  ASSUME NEW T, NEW s \in Seq(T), NEW t \in Seq(T), NEW m \in Nat, NEW n \in Nat,
         m = Len(s), n = Len(t), NEW w, w = s \o t
  PROVE  w \in Seq(T) /\ Len(w) = m + n /\ \A i \in 1 .. m + n : w[i] = IF i <= m THEN s[i] ELSE t[i - m]
<1>1. s \in Seq(T) /\ t \in Seq(T) /\ m \in Nat /\ n \in Nat /\ m = Len(s) /\ n = Len(t) /\ w = s \o t
  OBVIOUS
<1> QED
  BY ONLY <1>1, ConcatProperties

\* Concatenation, for the provers a name without a meaning of its own.
Cat(s, t) == s \o t

\* The rules for it.
LEMMA CatIn ==
  ASSUME NEW a \in Seq(Byte), NEW b \in Seq(Byte)
  PROVE  Cat(a, b) \in Seq(Byte) /\ Cat(a, <<>>) = a /\ Cat(<<>>, a) = a
<1>1. a \o b \in Seq(Byte)
  BY ConcatProperties
<1>2. a \o <<>> = a /\ <<>> \o a = a
  BY ConcatEmptySeq
<1> QED
  BY <1>1, <1>2 DEF Cat

\* It is associative.
LEMMA CatAssoc ==
  ASSUME NEW a \in Seq(Byte), NEW b \in Seq(Byte), NEW c \in Seq(Byte)
  PROVE  Cat(a, Cat(b, c)) = Cat(Cat(a, b), c)
<1>1. (a \o b) \o c = a \o (b \o c)
  BY ConcatAssociative
<1> QED
  BY <1>1 DEF Cat

\* Two neighbours may share what they have in another way.
LEMMA Shared ==
  ASSUME NEW a \in Seq(Byte), NEW b \in Seq(Byte), NEW c \in Seq(Byte), NEW d \in Seq(Byte),
         Cat(a, b) = Cat(c, d), NEW r \in Seq(Byte)
  PROVE  Cat(a, Cat(b, r)) = Cat(c, Cat(d, r))
BY CatAssoc


\* One direction of the tunnel: all has been sent, got has arrived; a is on the last hop
\* and b in the thread before it, c on the hop between the threads, d in the first
\* thread and e on the first hop.  end is the receiver's socket, p and q are where the
\* second and the first thread are.  What is behind a place that is closed is lost.
PipeRight(all, got, a, b, c, d, e, end, p, q) ==
    /\ \E z \in Seq(Byte) : all = Cat(got, z)
    /\ end # "closed" => \E z \in Seq(Byte) : all = Cat(got, Cat(a, z))
    /\ end # "closed" /\ p \in Relays => \E z \in Seq(Byte) :
          /\ all = Cat(got, Cat(a, Cat(b, Cat(decrypt(c), z))))
          /\ q \in Relays => z = Cat(decrypt(d), e)

\* Less is known of it when something has been closed.
LEMMA PipeWeaker ==
  ASSUME NEW all, NEW got, NEW a, NEW b, NEW c, NEW d, NEW e, NEW end, NEW p, NEW q,
         NEW a2, NEW b2, NEW c2, NEW d2, NEW e2, NEW end2, NEW p2, NEW q2,
         PipeRight(all, got, a, b, c, d, e, end, p, q),
         end2 # "closed" => end # "closed" /\ a2 = a,
         end2 # "closed" /\ p2 \in Relays => p \in Relays /\ b2 = b /\ c2 = c,
         end2 # "closed" /\ p2 \in Relays /\ q2 \in Relays => q \in Relays /\ d2 = d /\ e2 = e
  PROVE  PipeRight(all, got, a2, b2, c2, d2, e2, end2, p2, q2)
BY DEF PipeRight

\* The receiver takes what is there.
LEMMA PipeReads ==
  ASSUME NEW all \in Seq(Byte), NEW got \in Seq(Byte), NEW a \in Seq(Byte), NEW b \in Seq(Byte),
         NEW c \in Seq(Byte), NEW d, NEW e, NEW end, NEW p, NEW q, end # "closed",
         PipeRight(all, got, a, b, c, d, e, end, p, q)
  PROVE  PipeRight(all, Cat(got, a), <<>>, b, c, d, e, end, p, q)
<1>1. ASSUME NEW z \in Seq(Byte) PROVE Cat(got, Cat(a, z)) = Cat(Cat(got, a), Cat(<<>>, z))
  BY CatIn, CatAssoc
<1>2. decrypt(c) \in Seq(Byte)
  BY CodeRight
<1>3. \E z \in Seq(Byte) : all = Cat(Cat(got, a), Cat(<<>>, z))
  BY <1>1 DEF PipeRight
<1>4. \E z \in Seq(Byte) : all = Cat(Cat(got, a), z)
  BY <1>3, CatIn
<1>5. ASSUME p \in Relays
      PROVE  \E z \in Seq(Byte) :
                /\ all = Cat(Cat(got, a), Cat(<<>>, Cat(b, Cat(decrypt(c), z))))
                /\ q \in Relays => z = Cat(decrypt(d), e)
  <2>1. PICK z \in Seq(Byte) :
          /\ all = Cat(got, Cat(a, Cat(b, Cat(decrypt(c), z))))
          /\ q \in Relays => z = Cat(decrypt(d), e)
    BY <1>5 DEF PipeRight
  <2>2. Cat(b, Cat(decrypt(c), z)) \in Seq(Byte)
    BY <1>2, CatIn
  <2> QED
    BY <1>1, <2>1, <2>2
<1> QED
  BY <1>3, <1>4, <1>5 DEF PipeRight

\* The second thread puts something on the last hop, or takes what is between the threads.
LEMMA PipeNear ==
  ASSUME NEW all \in Seq(Byte), NEW got \in Seq(Byte), NEW a \in Seq(Byte), NEW b \in Seq(Byte),
         NEW c \in Seq(Byte), NEW d, NEW e, NEW end, NEW p, NEW q, end # "closed", p \in Relays,
         PipeRight(all, got, a, b, c, d, e, end, p, q),
         NEW a2 \in Seq(Byte), NEW b2 \in Seq(Byte), NEW c2 \in Seq(Byte), NEW p2,
         \/ c2 = c /\ Cat(a2, b2) = Cat(a, b)
         \/ a2 = a /\ b = <<>> /\ b2 = decrypt(c) /\ c2 = <<>>
  PROVE  PipeRight(all, got, a2, b2, c2, d, e, end, p2, q)
<1>1. PICK z \in Seq(Byte) :
        /\ all = Cat(got, Cat(a, Cat(b, Cat(decrypt(c), z))))
        /\ q \in Relays => z = Cat(decrypt(d), e)
  BY DEF PipeRight
<1>2. decrypt(c) \in Seq(Byte) /\ decrypt(c2) \in Seq(Byte) /\ decrypt(<<>>) = <<>>
  BY CodeRight, DecodeNothing
<1>3. Cat(decrypt(c), z) \in Seq(Byte) /\ Cat(decrypt(c2), z) \in Seq(Byte)
  BY <1>2, CatIn
<1>4. Cat(a2, Cat(b2, Cat(decrypt(c2), z))) = Cat(a, Cat(b, Cat(decrypt(c), z)))
  <2>1. CASE c2 = c /\ Cat(a2, b2) = Cat(a, b)
    BY <1>3, <2>1, Shared
  <2>2. CASE a2 = a /\ b = <<>> /\ b2 = decrypt(c) /\ c2 = <<>>
    <3>1. Cat(decrypt(c2), z) = z
      BY <1>2, <2>2, CatIn
    <3>2. Cat(b, Cat(decrypt(c), z)) = Cat(decrypt(c), z)
      BY <1>3, <2>2, CatIn
    <3> QED
      BY <2>2, <3>1, <3>2
  <2> QED
    BY <2>1, <2>2
<1>5. Cat(b2, Cat(decrypt(c2), z)) \in Seq(Byte) /\ all = Cat(got, Cat(a2, Cat(b2, Cat(decrypt(c2), z))))
  BY <1>1, <1>3, <1>4, CatIn
<1>6. Cat(a2, Cat(b2, Cat(decrypt(c2), z))) \in Seq(Byte)
  BY <1>5, CatIn
<1> QED
  BY <1>1, <1>5, <1>6 DEF PipeRight

\* The first thread puts something on the hop between the threads, or takes what is there.
LEMMA PipeFar ==
  ASSUME NEW all, NEW got, NEW a, NEW b,
         NEW c \in Seq(Byte), NEW d \in Seq(Byte), NEW e \in Seq(Byte), NEW end, NEW p, NEW q,
         q \in Relays, PipeRight(all, got, a, b, c, d, e, end, p, q),
         NEW x \in Seq(Byte), NEW d2 \in Seq(Byte), NEW e2 \in Seq(Byte), NEW q2,
         \/ d = Cat(x, d2) /\ e2 = e
         \/ x = <<>> /\ d = <<>> /\ d2 = encrypt(e) /\ e2 = <<>>
  PROVE  PipeRight(all, got, a, b, Cat(c, x), d2, e2, end, p, q2)
<1>1. ASSUME end # "closed", p \in Relays
      PROVE  all = Cat(got, Cat(a, Cat(b, Cat(decrypt(Cat(c, x)), Cat(decrypt(d2), e2)))))
  <2>1. all = Cat(got, Cat(a, Cat(b, Cat(decrypt(c), Cat(decrypt(d), e)))))
    BY <1>1 DEF PipeRight
  <2>2. /\ decrypt(c) \in Seq(Byte) /\ decrypt(d) \in Seq(Byte) /\ decrypt(x) \in Seq(Byte)
        /\ decrypt(d2) \in Seq(Byte)
    BY CodeRight
  <2>3. decrypt(Cat(c, x)) = Cat(decrypt(c), decrypt(x))
    BY DecodeJoin DEF Cat
  <2>4. Cat(decrypt(d), e) = Cat(decrypt(x), Cat(decrypt(d2), e2))
    <3>1. CASE d = Cat(x, d2) /\ e2 = e
      <4>1. decrypt(d) = Cat(decrypt(x), decrypt(d2))
        BY <3>1, DecodeJoin DEF Cat
      <4> QED
        BY <2>2, <3>1, <4>1, CatAssoc
    <3>2. CASE x = <<>> /\ d = <<>> /\ d2 = encrypt(e) /\ e2 = <<>>
      <4>1. decrypt(d) = <<>> /\ decrypt(x) = <<>> /\ decrypt(d2) = e
        BY <3>2, DecodeNothing, CodeRight
      <4> QED
        BY <2>2, <3>2, <4>1, CatIn
    <3> QED
      BY <3>1, <3>2
  <2>5. Cat(decrypt(d2), e2) \in Seq(Byte)
    BY <2>2, CatIn
  <2> QED
    BY <2>1, <2>2, <2>3, <2>4, <2>5, CatAssoc
<1>2. Cat(decrypt(d2), e2) \in Seq(Byte)
  BY CodeRight, CatIn
<1> QED
  BY <1>1, <1>2 DEF PipeRight

\* One more byte is sent.
LEMMA PipeSource ==
  ASSUME NEW all \in Seq(Byte), NEW got \in Seq(Byte), NEW a \in Seq(Byte), NEW b \in Seq(Byte),
         NEW c \in Seq(Byte), NEW d \in Seq(Byte), NEW e \in Seq(Byte), NEW end, NEW p, NEW q,
         PipeRight(all, got, a, b, c, d, e, end, p, q), NEW x \in Seq(Byte)
  PROVE  PipeRight(Cat(all, x), got, a, b, c, d, Cat(e, x), end, p, q)
<1>1. decrypt(c) \in Seq(Byte) /\ decrypt(d) \in Seq(Byte)
  BY CodeRight
<1>2. \E z \in Seq(Byte) : Cat(all, x) = Cat(got, z)
  <2>1. PICK z \in Seq(Byte) : all = Cat(got, z)
    BY DEF PipeRight
  <2> QED
    BY <2>1, CatIn, CatAssoc
<1>3. ASSUME end # "closed" PROVE \E z \in Seq(Byte) : Cat(all, x) = Cat(got, Cat(a, z))
  <2>1. PICK z \in Seq(Byte) : all = Cat(got, Cat(a, z))
    BY <1>3 DEF PipeRight
  <2>2. Cat(Cat(got, Cat(a, z)), x) = Cat(got, Cat(a, Cat(z, x)))
    BY CatIn, CatAssoc
  <2> QED
    BY <2>1, <2>2, CatIn
<1>4. ASSUME end # "closed", p \in Relays
      PROVE  \E z \in Seq(Byte) :
                /\ Cat(all, x) = Cat(got, Cat(a, Cat(b, Cat(decrypt(c), z))))
                /\ q \in Relays => z = Cat(decrypt(d), Cat(e, x))
  <2>1. PICK z \in Seq(Byte) :
          /\ all = Cat(got, Cat(a, Cat(b, Cat(decrypt(c), z))))
          /\ q \in Relays => z = Cat(decrypt(d), e)
    BY <1>4 DEF PipeRight
  <2>2. PICK m \in Seq(Byte) : m = decrypt(c)
    BY <1>1
  <2>3. Cat(m, z) \in Seq(Byte) /\ Cat(b, Cat(m, z)) \in Seq(Byte) /\ Cat(a, Cat(b, Cat(m, z))) \in Seq(Byte)
    BY CatIn
  <2>4. Cat(all, x) = Cat(got, Cat(a, Cat(b, Cat(m, Cat(z, x)))))
    <3>1. Cat(all, x) = Cat(got, Cat(Cat(a, Cat(b, Cat(m, z))), x))
      BY <2>1, <2>2, <2>3, CatAssoc
    <3>2. Cat(Cat(a, Cat(b, Cat(m, z))), x) = Cat(a, Cat(Cat(b, Cat(m, z)), x))
      BY <2>3, CatAssoc
    <3>3. Cat(Cat(b, Cat(m, z)), x) = Cat(b, Cat(Cat(m, z), x))
      BY <2>3, CatAssoc
    <3>4. Cat(Cat(m, z), x) = Cat(m, Cat(z, x))
      BY CatAssoc
    <3> QED
      BY <3>1, <3>2, <3>3, <3>4
  <2>5. q \in Relays => Cat(z, x) = Cat(decrypt(d), Cat(e, x))
    BY <1>1, <2>1, CatAssoc
  <2>6. Cat(z, x) \in Seq(Byte)
    BY CatIn
  <2> QED
    BY <2>2, <2>4, <2>5, <2>6
<1> QED
  BY <1>2, <1>3, <1>4 DEF PipeRight


-------------------------------------------------------------------------------
(* The tunnel: its stages *)

Rest == RestOf(script)
Asking == IF replies = 2 THEN script.request ELSE <<>>
IsAddress(a) == /\ Len(a) >= 2 /\ a[1] \in {1, 3}
                /\ Len(a) = IF a[1] = 1 THEN 7 ELSE 4 + a[2]

TunnelTyped ==
    /\ DOMAIN nodePc = Node /\ TunnelShape
    /\ nodePc["local"] \in {"greeting", "request", "closed"} \cup Relays
    /\ nodePc["server"] \in {"none", "addr", "closed"} \cup Relays
    /\ sending \in [Node -> [on : {"up", "down"}, bytes : Seq(Byte)]]
    /\ up \in [Hop -> Seq(Byte)] /\ down \in [Hop -> Seq(Byte)]
    /\ script \in Talks /\ held \in Seq(Byte)
    /\ clientGot \in Seq(Byte) /\ targetGot \in Seq(Byte)
    /\ clientSent \in 0 .. Len(script.payload) /\ targetSent \in 0 .. Len(script.payload)

\* The greeting and the request: local.py takes what is there of the greeting, and
\* what it reads as the request is the request, or comes after the greeting's rest.
Opening ==
    /\ nodePc["local"] = "greeting" =>
         /\ replies = 0 /\ clientSent = 0 /\ held \in {script.greeting, Rest, <<>>}
         /\ held = script.greeting => up["cl"] = <<>>
    /\ nodePc["local"] = "request" =>
         /\ replies \in {1, 2} /\ clientSent = 0
         /\ \/ held = Rest /\ held # <<>> /\ up["cl"] = <<>> /\ replies = 1
            \/ held = <<>> /\ up["cl"] \in {Asking, Rest \o Asking}
    /\ nodePc["local"] \in Relays => held = <<>> /\ replies = 3

\* server.py is there after local.py has connected, and nothing comes back before
\* it has connected; only the ends of the two threads close the hop between them.
Stages ==
    /\ nodePc["local"] \in {"greeting", "request"} => nodePc["server"] = "none"
    /\ farEnd["ls"] = "closed" => nodePc["server"] = "closed"
    /\ nearEnd["ls"] = "closed" => nodePc["local"] = "closed"
    /\ nodePc["server"] \in {"none", "addr"} =>
         /\ farEnd["st"] = "none" /\ up["st"] = <<>> /\ targetGot = <<>> /\ dialled = <<>>
         /\ targetSent = 0 /\ clientGot = <<>> /\ \A h \in Hop : down[h] = <<>>
         /\ nodePc["local"] = "send" => sending["local"].on = "up"

\* What has reached server.py begins with an address that may be dialled, and if that is
\* the one asked for, what the client has sent follows.
Addressed ==
    nodePc["server"] = "addr" => \E m, y \in Seq(Byte) :
        /\ up["ls"] = Cat(m, y) /\ IsAddress(decrypt(m))
        /\ decrypt(m) \in DialsOf(script)
        /\ decrypt(m) = Asked =>
               PipeRight(FirstOf(clientSent), <<>>, <<>>, <<>>, y, Buffered("local", "up"), up["cl"],
                         "open", "select", nodePc["local"])

DialledRight == dialled \in {<<>>} \cup DialsOf(script)

\* The two directions.
UpRight ==
    dialled = Asked =>
        PipeRight(FirstOf(clientSent), targetGot, up["st"], Buffered("server", "up"), up["ls"],
                  Buffered("local", "up"), up["cl"], farEnd["st"], nodePc["server"], nodePc["local"])
DownRight ==
    PipeRight(FirstOf(targetSent), clientGot, down["cl"], Buffered("local", "down"), down["ls"],
              Buffered("server", "down"), down["st"], nearEnd["cl"], nodePc["local"], nodePc["server"])

TunnelInv ==
    TunnelTyped /\ Opening /\ Stages /\ Addressed /\ DialledRight /\ UpRight /\ DownRight

\* The payload sent so far is a sequence of bytes, and one more of them makes it longer.
LEMMA PayloadGrows ==
  ASSUME TunnelTyped
  PROVE  /\ script.payload \in Seq(Byte) /\ Len(script.payload) \in Nat
         /\ \A k \in 0 .. Len(script.payload) : FirstOf(k) \in Seq(Byte)
         /\ FirstOf(0) = <<>>
         /\ \A k \in 0 .. Len(script.payload) : k < Len(script.payload) =>
               /\ script.payload[k + 1] \in Byte /\ <<script.payload[k + 1]>> \in Seq(Byte)
               /\ FirstOf(k + 1) = Cat(FirstOf(k), <<script.payload[k + 1]>>)
<1>1. PICK s \in Seq(Byte) : s = script.payload
  BY TalksAssumption DEF TunnelTyped
<1>2. PICK n \in Nat : n = Len(s)
  BY LenProperties
<1>3. \A i \in 1 .. n : s[i] \in Byte
  BY <1>2, ElementOfSeq
<1>4. ASSUME NEW k \in 0 .. n PROVE FirstOf(k) \in Seq(Byte) /\ FirstOf(k) = SubSeq(s, 1, k)
  BY <1>1, <1>2, TwoParts DEF FirstOf
<1>5. FirstOf(0) = <<>>
  BY SubSeqEmpty DEF FirstOf
<1>6. ASSUME NEW k \in 0 .. n, k < n
      PROVE  /\ s[k + 1] \in Byte /\ <<s[k + 1]>> \in Seq(Byte)
             /\ FirstOf(k + 1) = Cat(FirstOf(k), <<s[k + 1]>>)
  <2>1. k + 1 \in 1 .. n /\ k + 1 \in 0 .. n /\ (k + 1) - 1 = k
    BY <1>6
  <2>2. s[k + 1] \in Byte
    BY <1>3, <2>1
  <2>3. SubSeq(s, 1, k + 1) = SubSeq(s, 1, (k + 1) - 1) \o <<s[k + 1]>>
    <3>1. 1 \in 1 .. Len(s) /\ k + 1 \in 1 .. Len(s)
      BY <1>2, <2>1
    <3> QED
      BY <3>1, SubSeqRecursiveSecond
  <2> QED
    BY <1>4, <2>1, <2>2, <2>3 DEF Cat
<1> QED
  BY <1>1, <1>2, <1>4, <1>5, <1>6

\* What a thread has in hand is a sequence of bytes.
LEMMA InHand ==
  ASSUME TunnelTyped, NEW n \in Node, NEW d
  PROVE  /\ Buffered(n, d) \in Seq(Byte) /\ sending[n].bytes \in Seq(Byte)
         /\ sending[n].on \in {"up", "down"}
<1>1. sending[n] \in [on : {"up", "down"}, bytes : Seq(Byte)]
  BY DEF TunnelTyped
<1>2. sending[n].bytes \in Seq(Byte) /\ sending[n].on \in {"up", "down"} /\ <<>> \in Seq(Byte)
  BY <1>1
<1> QED
  BY <1>2 DEF Buffered

\* Nothing has been sent, nothing is anywhere.
LEMMA PipeEmpty ==
  ASSUME NEW e, e = <<>>, NEW end, NEW p, NEW q
  PROVE  PipeRight(<<>>, <<>>, <<>>, <<>>, <<>>, <<>>, e, end, p, q)
<1>1. <<>> \in Seq(Byte) /\ decrypt(<<>>) = <<>>
  BY DecodeNothing
<1>2. Cat(<<>>, <<>>) = <<>>
  BY <1>1, CatIn
<1> QED
  BY <1>1, <1>2 DEF PipeRight

\* Steps that leave the way up alone, but for what is closed.
LEMMA UpKeeps ==
  ASSUME UpRight, Addressed, dialled' = dialled, script' = script, clientSent' = clientSent,
         targetGot' = targetGot,
         nodePc'["server"] = "addr" => nodePc["server"] = "addr" /\ up'["ls"] = up["ls"],
         nodePc'["server"] \in Relays =>
             /\ nodePc["server"] \in Relays
             /\ farEnd'["st"] # "closed" => /\ up'["ls"] = up["ls"]
                                            /\ Buffered("server", "up")' = Buffered("server", "up"),
         nodePc'["local"] \in Relays =>
             /\ nodePc["local"] \in Relays
             /\ nodePc'["server"] # "closed" => /\ up'["cl"] = up["cl"]
                                                /\ Buffered("local", "up")' = Buffered("local", "up"),
         farEnd'["st"] # "closed" => farEnd["st"] # "closed" /\ up'["st"] = up["st"]
  PROVE  UpRight' /\ Addressed'
<1>1. Asked' = Asked /\ FirstOf(clientSent)' = FirstOf(clientSent)
  BY DEF Asked, FirstOf
<1>2. "closed" \notin Relays /\ "addr" # "closed"
  BY DEF Relays
<1>3. UpRight'
  <2> SUFFICES ASSUME dialled = Asked PROVE
        PipeRight(FirstOf(clientSent), targetGot, up'["st"], Buffered("server", "up")', up'["ls"],
                  Buffered("local", "up")', up'["cl"], farEnd'["st"], nodePc'["server"], nodePc'["local"])
    BY <1>1 DEF UpRight
  <2>1. PipeRight(FirstOf(clientSent), targetGot, up["st"], Buffered("server", "up"), up["ls"],
                  Buffered("local", "up"), up["cl"], farEnd["st"], nodePc["server"], nodePc["local"])
    BY DEF UpRight
  <2> QED
    BY <1>2, <2>1, PipeWeaker
<1>4. Addressed'
  <2> SUFFICES ASSUME nodePc'["server"] = "addr" PROVE \E m, y \in Seq(Byte) :
        /\ up["ls"] = Cat(m, y) /\ IsAddress(decrypt(m))
        /\ decrypt(m) \in DialsOf(script)
        /\ decrypt(m) = Asked =>
               PipeRight(FirstOf(clientSent), <<>>, <<>>, <<>>, y, Buffered("local", "up")', up'["cl"],
                         "open", "select", nodePc'["local"])
    BY <1>1 DEF Addressed
  <2>1. PICK m \in Seq(Byte), y \in Seq(Byte) :
        /\ up["ls"] = Cat(m, y) /\ IsAddress(decrypt(m))
        /\ decrypt(m) \in DialsOf(script)
        /\ decrypt(m) = Asked =>
               PipeRight(FirstOf(clientSent), <<>>, <<>>, <<>>, y, Buffered("local", "up"), up["cl"],
                         "open", "select", nodePc["local"])
    BY DEF Addressed
  <2>2. decrypt(m) = Asked =>
               PipeRight(FirstOf(clientSent), <<>>, <<>>, <<>>, y, Buffered("local", "up")', up'["cl"],
                         "open", "select", nodePc'["local"])
    BY <1>2, <2>1, PipeWeaker
  <2> QED
    BY <2>1, <2>2
<1> QED
  BY <1>3, <1>4

\* The same for the way down.
LEMMA DownKeeps ==
  ASSUME DownRight, script' = script, targetSent' = targetSent, clientGot' = clientGot,
         nodePc'["local"] \in Relays =>
             /\ nodePc["local"] \in Relays
             /\ nearEnd'["cl"] # "closed" => /\ down'["ls"] = down["ls"]
                                             /\ Buffered("local", "down")' = Buffered("local", "down"),
         nodePc'["server"] \in Relays =>
             /\ nodePc["server"] \in Relays
             /\ nodePc'["local"] # "closed" => /\ down'["st"] = down["st"]
                                               /\ Buffered("server", "down")' = Buffered("server", "down"),
         nearEnd'["cl"] # "closed" => nearEnd["cl"] # "closed" /\ down'["cl"] = down["cl"]
  PROVE  DownRight'
<1>1. FirstOf(targetSent)' = FirstOf(targetSent) /\ "closed" \notin Relays
  BY DEF FirstOf, Relays
<1>2. PipeRight(FirstOf(targetSent), clientGot, down["cl"], Buffered("local", "down"), down["ls"],
                Buffered("server", "down"), down["st"], nearEnd["cl"], nodePc["local"], nodePc["server"])
  BY DEF DownRight
<1>3. PipeRight(FirstOf(targetSent), clientGot, down'["cl"], Buffered("local", "down")', down'["ls"],
                Buffered("server", "down")', down'["st"], nearEnd'["cl"], nodePc'["local"], nodePc'["server"])
  BY <1>1, <1>2, PipeWeaker
<1> QED
  BY <1>1, <1>3 DEF DownRight

-------------------------------------------------------------------------------
(* The tunnel: what is read as an address *)

\* Element and length of a part of a sequence.
LEMMA Slice ==
  ASSUME NEW T, NEW s, NEW f \in Int, NEW g \in Int, \A i \in f .. g : s[i] \in T,
         NEW n \in Nat, n = g - f + 1, NEW u, u = SubSeq(s, f, g)
  PROVE  u \in Seq(T) /\ Len(u) = n /\ \A i \in 1 .. n : u[i] = s[f + i - 1]
<1>1. /\ SubSeq(s, f, g) \in Seq(T) /\ Len(SubSeq(s, f, g)) = IF f <= g THEN g - f + 1 ELSE 0
      /\ \A i \in 1 .. g - f + 1 : SubSeq(s, f, g)[i] = s[f + i - 1]
  <2>1. f \in Int /\ g \in Int /\ \A i \in f .. g : s[i] \in T
    OBVIOUS
  <2> QED
    BY ONLY <2>1, SubSeqProperties
<1>2. Len(SubSeq(s, f, g)) = n
  <2>1. CASE f <= g
    BY <1>1, <2>1
  <2>2. CASE ~(f <= g)
    BY <1>1, <2>2
  <2> QED
    BY <2>1, <2>2
<1>3. \A i \in 1 .. n : SubSeq(s, f, g)[i] = s[f + i - 1]
  BY <1>1
<1> QED
  BY <1>1, <1>2, <1>3

\* The two parts of what has been put together.
LEMMA Begins ==
  ASSUME NEW T, NEW s \in Seq(T), NEW t \in Seq(T), NEW w, w = s \o t, NEW m, m = Len(s)
  PROVE  SubSeq(w, 1, m) = s /\ SubSeq(w, m + 1, Len(w)) = t
<1>1. m \in Nat
  BY LenProperties
<1>2. PICK n \in Nat : n = Len(t)
  BY LenProperties
<1>3. w \in Seq(T) /\ Len(w) = m + n /\ \A i \in 1 .. m + n : w[i] = IF i <= m THEN s[i] ELSE t[i - m]
  BY <1>1, <1>2, JoinFacts
<1>4. \A i \in 1 .. m + n : w[i] \in T
  BY <1>3, ElementOfSeq
<1>5. PICK a : a = SubSeq(w, 1, m)
  OBVIOUS
<1>6. a \in Seq(T) /\ Len(a) = m /\ \A i \in 1 .. m : a[i] = w[i]
  <2>1. 1 \in Int /\ m \in Int /\ \A i \in 1 .. m : w[i] \in T
    BY <1>1, <1>2, <1>4
  <2>2. /\ a \in Seq(T) /\ Len(a) = IF 1 <= m THEN m - 1 + 1 ELSE 0
        /\ \A i \in 1 .. m - 1 + 1 : a[i] = w[1 + i - 1]
    BY <1>5, <2>1, SubSeqProperties
  <2> QED
    BY <1>1, <2>2
<1>7. a = s
  <2>1. \A i \in 1 .. Len(a) : a[i] = s[i]
    BY <1>1, <1>2, <1>3, <1>6
  <2> QED
    BY <1>6, <2>1, SeqEqual
<1>8. PICK f \in Int, g \in Int : f = m + 1 /\ g = m + n
  BY <1>1, <1>2
<1>81. PICK b : b = SubSeq(w, f, g)
  OBVIOUS
<1>9. b \in Seq(T) /\ Len(b) = n /\ \A i \in 1 .. n : b[i] = w[m + i]
  <2>1. \A i \in f .. g : w[i] \in T
    BY <1>1, <1>2, <1>4, <1>8
  <2>2. b \in Seq(T) /\ Len(b) = n /\ \A i \in 1 .. n : b[i] = w[f + i - 1]
    <3>1. n = g - f + 1
      BY <1>1, <1>2, <1>8
    <3> QED
      BY <1>2, <1>8, <1>81, <2>1, <3>1, Slice
  <2>5. ASSUME NEW i \in 1 .. n PROVE b[i] = w[m + i]
    <3>1. f + i - 1 = m + i
      BY <1>1, <1>2, <1>8
    <3> QED
      BY <2>2, <3>1
  <2> QED
    BY <2>2, <2>5
<1>10. b = t
  <2>1. \A i \in 1 .. Len(b) : b[i] = t[i]
    <3>1. ASSUME NEW i \in 1 .. n PROVE w[m + i] = t[i]
      <4>1. m + i \in 1 .. m + n /\ ~(m + i <= m) /\ (m + i) - m = i
        BY <1>1, <1>2
      <4> QED
        BY <1>3, <4>1
    <3> QED
      BY <1>9, <3>1
  <2> QED
    BY <1>2, <1>9, <2>1, SeqEqual
<1> QED
  BY <1>3, <1>5, <1>7, <1>8, <1>81, <1>10

\* What local.py takes for a request is an address after three bytes.
LEMMA RequestRead ==
  ASSUME NEW s \in Seq(Byte), Connects(s)
  PROVE  /\ ReqLen(s) \in 4 .. Len(s)
         /\ SubSeq(s, 4, ReqLen(s)) \in Seq(Byte) /\ IsAddress(SubSeq(s, 4, ReqLen(s)))
         /\ SubSeq(s, ReqLen(s) + 1, Len(s)) \in Seq(Byte)
<1>1. PICK l \in Nat : l = Len(s)
  BY LenProperties
<1>2. \A i \in 1 .. l : s[i] \in Byte /\ s[i] \in Nat
  BY <1>1, ElementOfSeq, TableAssumption
<1>3. PICK n : n = ReqLen(s)
  OBVIOUS
<1>4. n <= l /\ s[2] = 1 /\ s[4] \in {1, 3}
  BY <1>1, <1>3 DEF Connects
<1>5. l >= 4
  BY <1>1, <1>3, <1>4 DEF ReqLen
<1>6. n = 4 + AddrLen(s) + 2
  BY <1>1, <1>3, <1>4, <1>5 DEF ReqLen
<1>7. /\ s[4] = 1 => n = 10
      /\ s[4] = 3 => l >= 5 /\ n = 7 + s[5]
  <2>1. CASE s[4] = 1
    BY <1>6, <2>1 DEF AddrLen
  <2>2. CASE s[4] = 3
    <3>1. l >= 5
      BY <1>1, <1>4, <1>6, <2>2 DEF AddrLen
    <3> QED
      BY <1>1, <1>2, <1>6, <2>2, <3>1 DEF AddrLen
  <2> QED
    BY <1>4, <2>1, <2>2
<1>8. s[4] = 3 => s[5] \in Nat
  BY <1>2, <1>7
<1>9. n \in 4 .. l /\ n >= 7
  BY <1>4, <1>7, <1>8
<1>10. PICK a : a = SubSeq(s, 4, n)
  OBVIOUS
<1>11. a \in Seq(Byte) /\ Len(a) = n - 3 /\ \A i \in 1 .. n - 3 : a[i] = s[3 + i]
  <2>1. 4 \in Int /\ n \in Int /\ \A i \in 4 .. n : s[i] \in Byte
    BY <1>2, <1>9
  <2>2. /\ a \in Seq(Byte) /\ Len(a) = IF 4 <= n THEN n - 4 + 1 ELSE 0
        /\ \A i \in 1 .. n - 4 + 1 : a[i] = s[4 + i - 1]
    BY <1>10, <2>1, SubSeqProperties
  <2> QED
    BY <1>9, <2>2
<1>12. a[1] = s[4] /\ a[2] = s[5]
  BY <1>9, <1>11
<1>13. IsAddress(a)
  BY <1>4, <1>7, <1>8, <1>9, <1>11, <1>12 DEF IsAddress
<1>14. SubSeq(s, n + 1, l) \in Seq(Byte)
  BY <1>1, <1>9, TwoParts
<1> QED
  BY <1>1, <1>3, <1>9, <1>10, <1>11, <1>13, <1>14

\* Bytes are numbers.
LEMMA Widened ==
  ASSUME NEW s \in Seq(Byte)
  PROVE  s \in Seq(Nat)
<1>1. PICK n \in Nat : n = Len(s)
  BY LenProperties
<1>2. ASSUME NEW i \in 1 .. n PROVE s[i] \in Nat
  <2>1. s[i] \in Byte
    BY <1>1, ElementOfSeq
  <2> QED
    BY <2>1, TableAssumption
<1>3. PICK t : t = SubSeq(s, 1, n)
  OBVIOUS
<1>4. 1 \in Int /\ n \in Int
  OBVIOUS
<1>5. t \in Seq(Nat)
  BY <1>2, <1>3, <1>4, SubSeqProperties
<1> QED
  BY <1>1, <1>3, <1>5, SubSeqFull

\* server.py, which knows what the first three bytes were, reads the same address.
LEMMA AddressRead ==
  ASSUME NEW m \in Seq(Byte), NEW y \in Seq(Byte), IsAddress(decrypt(m)),
         NEW s, s = <<0, 1, 0>> \o decrypt(Cat(m, y))
  PROVE  /\ Len(s) >= ReqLen(s) /\ SubSeq(s, 4, ReqLen(s)) = decrypt(m)
         /\ SubSeq(Cat(m, y), ReqLen(s) - 2, Len(Cat(m, y))) = y
<1>1. PICK a \in Seq(Byte), b \in Seq(Byte) : a = decrypt(m) /\ b = decrypt(y)
  BY CodeRight
<1>2. decrypt(Cat(m, y)) = a \o b
  BY <1>1, DecodeJoin DEF Cat
<1>3. PICK k \in Nat, l \in Nat : k = Len(a) /\ l = Len(b)
  BY LenProperties
<1>4. a \in Seq(Nat) /\ b \in Seq(Nat)
  BY Widened
<1>50. PICK t : t = a \o b
  OBVIOUS
<1>5. PICK kl \in Nat : kl = k + l
  OBVIOUS
<1>6. t \in Seq(Nat) /\ Len(t) = kl /\ \A i \in 1 .. kl : t[i] = IF i <= k THEN a[i] ELSE b[i - k]
  BY <1>3, <1>4, <1>5, <1>50, JoinFacts
<1>7. PICK h : h = <<0, 1, 0>>
  OBVIOUS
<1>8. h \in Seq(Nat) /\ Len(h) = 3 /\ h[2] = 1
  BY <1>7
<1>9. s = h \o t
  BY <1>2, <1>50, <1>7
<1>10. PICK j \in Nat : j = 3
  OBVIOUS
<1>11. s \in Seq(Nat) /\ Len(s) = j + kl /\ \A i \in 1 .. j + kl : s[i] = IF i <= j THEN h[i] ELSE t[i - j]
  <2>1. /\ h \in Seq(Nat) /\ t \in Seq(Nat) /\ j \in Nat /\ kl \in Nat
        /\ j = Len(h) /\ kl = Len(t) /\ s = h \o t
    BY <1>5, <1>6, <1>8, <1>9, <1>10
  <2> QED
    BY ONLY <2>1, JoinFacts
<1>12. k >= 2 /\ a[1] \in {1, 3} /\ k = IF a[1] = 1 THEN 7 ELSE 4 + a[2]
  BY <1>1, <1>3 DEF IsAddress
<1>13. \A i \in 1 .. k : s[3 + i] = a[i]
  <2> SUFFICES ASSUME NEW i \in 1 .. k PROVE s[3 + i] = a[i]
    OBVIOUS
  <2>1. 3 + i \in 1 .. j + kl /\ ~(3 + i <= j) /\ (3 + i) - j = i /\ i \in 1 .. kl /\ i <= k
    BY <1>5, <1>10
  <2>2. s[3 + i] = t[i]
    BY <1>11, <2>1
  <2>3. t[i] = a[i]
    BY <1>6, <2>1
  <2> QED
    BY <2>2, <2>3
<1>14. s[2] = 1 /\ s[4] = a[1] /\ s[5] = a[2]
  <2>1. s[2] = 1
    <3>1. 2 \in 1 .. j + kl /\ 2 <= j
      BY <1>10
    <3> QED
      BY <1>8, <1>11, <3>1
  <2>2. 1 \in 1 .. k /\ 2 \in 1 .. k /\ 3 + 1 = 4 /\ 3 + 2 = 5
    BY <1>12
  <2> QED
    BY <1>13, <2>1, <2>2
<1>15. a[2] \in Nat
  <2>1. 2 \in 1 .. Len(a)
    BY <1>3, <1>12
  <2> QED
    BY <1>4, <2>1, ElementOfSeq
<1>16. Len(s) = k + l + 3 /\ Len(s) >= 5 /\ Len(s) >= k + 3
  <2>1. Len(s) = j + kl /\ k >= 2
    BY <1>11, <1>12
  <2> QED
    BY <1>3, <1>5, <1>10, <2>1
<1>17. AddrLen(s) = IF a[1] = 1 THEN 4 ELSE 1 + a[2]
  BY <1>14, <1>16 DEF AddrLen
<1>18. ReqLen(s) = k + 3
  <2>1. ReqLen(s) = 4 + AddrLen(s) + 2
    BY <1>12, <1>14, <1>16 DEF ReqLen
  <2> QED
    BY <1>12, <1>15, <1>17, <2>1
<1>19. PICK w : w = Cat(m, y)
  OBVIOUS
<1>20. SubSeq(w, k + 1, Len(w)) = y
  <2>1. k = Len(m) /\ w = m \o y
    BY <1>1, <1>3, <1>19, CodeRight DEF Cat
  <2> QED
    BY <2>1, Begins
<1>21. SubSeq(s, 4, k + 3) = a
  <2>1. PICK f \in Int, g \in Int : f = 4 /\ g = k + 3
    OBVIOUS
  <2>2. PICK u : u = SubSeq(s, f, g)
    OBVIOUS
  <2>3. \A i \in f .. g : s[i] \in Nat
    <3> SUFFICES ASSUME NEW i \in f .. g PROVE s[i] \in Nat
      OBVIOUS
    <3>1. i \in 1 .. Len(s)
      BY <1>16, <2>1
    <3> QED
      BY <1>11, <3>1, ElementOfSeq
  <2>4. u \in Seq(Nat) /\ Len(u) = k /\ \A i \in 1 .. k : u[i] = s[f + i - 1]
    <3>1. k = g - f + 1
      BY <1>3, <2>1
    <3> QED
      BY ONLY <1>3, <2>1, <2>2, <2>3, <3>1, Slice
  <2>7. ASSUME NEW i \in 1 .. k PROVE u[i] = a[i]
    <3>1. f + i - 1 = 3 + i
      BY <2>1
    <3>2. u[i] = s[f + i - 1]
      BY <2>4
    <3> QED
      BY <1>13, <3>1, <3>2
  <2>8. u = a
    BY <1>3, <1>4, <2>4, <2>7, SeqEqual
  <2> QED
    BY <2>1, <2>2, <2>8
<1>22. (k + 3) - 2 = k + 1
  OBVIOUS
<1> QED
  BY <1>1, <1>16, <1>18, <1>19, <1>20, <1>21, <1>22

\* What the talk of the client consists of.
LEMMA TalkFacts ==
  ASSUME TunnelTyped
  PROVE  /\ script.greeting \in Seq(Byte) /\ script.request \in Seq(Byte)
         /\ script.first \in 1 .. Len(script.greeting) /\ Len(script.greeting) \in Nat
         /\ SubSeq(script.greeting, 1, script.first) \in Seq(Byte)
         /\ Rest \in Seq(Byte) /\ Asking \in Seq(Byte)
         /\ Rest # script.greeting /\ script.greeting # <<>>
         /\ script.first = Len(script.greeting) => Rest = <<>>
         /\ script.first # Len(script.greeting) => script.first < Len(script.greeting)
<1>1. PICK g \in Seq(Byte), f \in 1 .. Len(script.greeting) : g = script.greeting /\ f = script.first
  BY TalksAssumption DEF TunnelTyped
<1>2. script.request \in Seq(Byte)
  BY TalksAssumption DEF TunnelTyped
<1>3. PICK n \in Nat : n = Len(g)
  BY LenProperties
<1>4. f \in 0 .. Len(g)
  BY <1>1, <1>3
<1>5. SubSeq(g, 1, f) \in Seq(Byte) /\ SubSeq(g, f + 1, Len(g)) \in Seq(Byte)
  BY <1>4, TwoParts
<1>6. Rest = SubSeq(g, f + 1, n)
  BY <1>1, <1>3 DEF Rest, RestOf
<1>7. Len(SubSeq(g, f + 1, n)) # n
  <2>1. \A i \in f + 1 .. n : g[i] \in Byte
    <3>1. \A i \in 1 .. n : g[i] \in Byte
      BY <1>3, ElementOfSeq
    <3> QED
      BY <1>1, <1>3, <3>1
  <2>2. f + 1 \in Int /\ n \in Int
    BY <1>3
  <2>3. Len(SubSeq(g, f + 1, n)) = IF f + 1 <= n THEN n - (f + 1) + 1 ELSE 0
    BY <2>1, <2>2, SubSeqProperties
  <2> QED
    BY <1>1, <1>3, <2>3
<1>8. f = n => SubSeq(g, f + 1, n) = <<>>
  BY <1>1, <1>3, SubSeqEmpty
<1>9. g # <<>>
  BY <1>1, <1>3, EmptySeq
<1>10. Asking \in Seq(Byte)
  BY <1>2 DEF Asking
<1>11. f # n => f < n
  BY <1>1, <1>3
<1> QED
  BY <1>1, <1>2, <1>3, <1>5, <1>6, <1>7, <1>8, <1>9, <1>10, <1>11

\* Of what the client has said local.py reads the request as the request, or it reads
\* something else where the rest of a greeting in two pieces comes first.
LEMMA AskedRead ==
  ASSUME TunnelTyped, NEW s, s \in {Asking, Cat(Rest, Asking)}, Connects(s)
  PROVE  /\ s \in Seq(Byte)
         /\ SubSeq(s, 4, ReqLen(s)) \in DialsOf(script)
         /\ SubSeq(s, 4, ReqLen(s)) = Asked => SubSeq(s, ReqLen(s) + 1, Len(s)) = <<>>
<1>1. s \in Seq(Byte) /\ Rest \in Seq(Byte) /\ script.request \in Seq(Byte)
  BY TalkFacts, CatIn
<1>2. PICK n \in Nat : n = ReqLen(s) /\ n >= 4 /\ n <= Len(s)
  BY <1>1, RequestRead
<1>3. Len(s) \in Nat /\ s # <<>>
  BY <1>1, <1>2, LenProperties, EmptySeq
<1>4. CASE s = script.request
  <2>1. Connects(script.request) => Len(script.request) = ReqLen(script.request)
    BY TalksAssumption DEF TunnelTyped
  <2>2. Len(s) = n
    BY <1>2, <1>4, <2>1
  <2>3. Asked = SubSeq(s, 4, n)
    BY <1>4, <2>2 DEF Asked, AskedOf
  <2>4. SubSeq(s, n + 1, Len(s)) = <<>>
    BY <1>2, <2>2, SubSeqEmpty
  <2>5. SubSeq(s, 4, ReqLen(s)) \in DialsOf(script)
    BY <1>2, <2>3 DEF DialsOf, Asked
  <2> QED
    BY <1>1, <1>2, <2>4, <2>5
<1>5. CASE s # script.request
  <2>1. s \in {Rest, Cat(Rest, script.request)}
    BY <1>1, <1>3, <1>5, CatIn DEF Asking
  <2>2. script.first # Len(script.greeting)
    BY <1>1, <1>3, <1>5, <2>1, TalkFacts, CatIn
  <2>3. script.first < Len(script.greeting)
    BY <2>2, TalkFacts
  <2>4. s \in {RestOf(script), RestOf(script) \o script.request}
    BY <2>1 DEF Rest, Cat
  <2>5. SubSeq(s, 4, ReqLen(s)) \in MisreadOf(script)
    BY <2>4 DEF MisreadOf
  <2>6. AskedOf(script) \notin MisreadOf(script)
    BY <2>3, TalksAssumption DEF TunnelTyped
  <2>7. SubSeq(s, 4, ReqLen(s)) \in DialsOf(script)
    BY <2>2, <2>5 DEF DialsOf
  <2> QED
    BY <1>1, <2>5, <2>6, <2>7 DEF Asked
<1> QED
  BY <1>4, <1>5

-------------------------------------------------------------------------------
(* The tunnel: the client and the target *)

\* The client says what it has to say before the payload.
LEMMA OpeningKeeps ==
  ASSUME TunnelInv, ClientGreets \/ ClientSendsRest \/ ClientRequests
  PROVE  TunnelInv'
<1>1. /\ UNCHANGED <<nodePc, ready2, sending, down, nearEnd, farEnd, script, dialled>>
      /\ UNCHANGED <<clientSent, targetSent, clientGot, targetGot>>
  BY DEF ClientGreets, ClientSendsRest, ClientRequests, threads, counts
<1>2. TunnelTyped /\ Opening /\ Stages /\ Addressed /\ DialledRight /\ UpRight /\ DownRight
  BY DEF TunnelInv
<1>3. up \in [Hop -> Seq(Byte)] /\ held \in Seq(Byte) /\ "cl" \in Hop /\ up["cl"] \in Seq(Byte)
  BY <1>2 DEF TunnelTyped, Hop
<1>4. PICK x : up' = [up EXCEPT !["cl"] = x]
  BY DEF ClientGreets, ClientSendsRest, ClientRequests
<1>5. nodePc["local"] \notin Relays
  <2>1. nodePc["local"] \in Relays => held = <<>> /\ replies = 3
    BY <1>2 DEF Opening
  <2>2. held # <<>> \/ replies = 1
    BY <1>2, TalkFacts DEF ClientGreets, ClientSendsRest, ClientRequests
  <2> QED
    BY <2>1, <2>2
<1>6. Rest' = Rest /\ script'.greeting = script.greeting /\ up'["cl"] = x
  BY <1>1, <1>3, <1>4 DEF Rest, RestOf
<1>7. x \in Seq(Byte) /\ held' \in Seq(Byte) /\ Opening'
  <2>1. CASE ClientGreets
    <3>1. x = SubSeq(held, 1, script.first) /\ held = script.greeting /\ held' = Rest
      BY <1>3, <1>4, <1>6, <2>1 DEF ClientGreets, Rest, RestOf
    <3>2. x \in Seq(Byte) /\ held' \in Seq(Byte)
      BY <1>2, <3>1, TalkFacts
    <3>3. nodePc["local"] # "request"
      BY <1>2, <3>1, TalkFacts DEF Opening
    <3>4. replies' = replies
      BY <2>1 DEF ClientGreets
    <3> QED
      BY <1>1, <1>2, <1>5, <1>6, <3>1, <3>2, <3>3, <3>4, TalkFacts DEF Opening
  <2>2. CASE ClientSendsRest
    <3>1. x = Cat(up["cl"], held) /\ held # <<>> /\ held # script.greeting /\ held' = <<>> /\ replies' = replies
      BY <1>3, <1>4, <1>6, <2>2 DEF ClientSendsRest, Cat
    <3>2. x \in Seq(Byte) /\ held' \in Seq(Byte)
      BY <1>3, <3>1, CatIn
    <3>3. nodePc["local"] = "request" => up'["cl"] = Rest \o Asking'
      <4> SUFFICES ASSUME nodePc["local"] = "request" PROVE up'["cl"] = Rest \o Asking'
        OBVIOUS
      <4>1. held = Rest /\ up["cl"] = <<>> /\ replies = 1
        BY <1>2, <3>1 DEF Opening
      <4>2. Asking' = <<>>
        BY <3>1, <4>1 DEF Asking
      <4>3. Cat(<<>>, Rest) = Rest /\ Cat(Rest, <<>>) = Rest
        BY <1>2, TalkFacts, CatIn
      <4> QED
        BY <1>6, <3>1, <4>1, <4>2, <4>3 DEF Cat
    <3> QED
      BY <1>1, <1>2, <1>5, <1>6, <3>1, <3>2, <3>3, TalkFacts DEF Opening
  <2>3. CASE ClientRequests
    <3>1. x = Cat(up["cl"], script.request) /\ held = <<>> /\ replies = 1 /\ replies' = 2 /\ held' = held
      BY <1>3, <1>4, <1>6, <2>3 DEF ClientRequests, Cat
    <3>2. x \in Seq(Byte) /\ held' \in Seq(Byte)
      BY <1>2, <1>3, <3>1, CatIn, TalkFacts
    <3>3. nodePc["local"] = "request" => up'["cl"] \in {Asking', Rest \o Asking'}
      <4> SUFFICES ASSUME nodePc["local"] = "request" PROVE up'["cl"] \in {Asking', Rest \o Asking'}
        OBVIOUS
      <4>1. up["cl"] \in {Asking, Rest \o Asking} /\ Asking = <<>> /\ Asking' = script.request
        BY <1>1, <1>2, <3>1 DEF Opening, Asking
      <4>2. Cat(<<>>, script.request) = script.request /\ Cat(Rest, <<>>) = Rest
        BY <1>2, TalkFacts, CatIn
      <4>3. up["cl"] = <<>> \/ up["cl"] = Rest
        BY <4>1, <4>2 DEF Cat
      <4> QED
        BY <1>6, <3>1, <4>1, <4>2, <4>3 DEF Cat
    <3> QED
      BY <1>1, <1>2, <1>5, <1>6, <3>1, <3>2, <3>3 DEF Opening
  <2> QED
    BY <2>1, <2>2, <2>3
<1>8. TunnelTyped'
  <2>1. up' \in [Hop -> Seq(Byte)]
    BY <1>3, <1>4, <1>7
  <2> QED
    BY <1>1, <1>2, <1>7, <2>1 DEF TunnelTyped, TunnelShape
<1>9. up'["ls"] = up["ls"] /\ up'["st"] = up["st"]
  BY <1>3, <1>4 DEF Hop
<1>10. \A n, d : Buffered(n, d)' = Buffered(n, d)
  BY <1>1 DEF Buffered
<1>11. UpRight' /\ Addressed'
  BY <1>1, <1>2, <1>5, <1>9, <1>10, UpKeeps
<1>12. DownRight'
  BY <1>1, <1>2, <1>10, DownKeeps
<1>13. Stages' /\ DialledRight'
  BY <1>1, <1>2, <1>9 DEF Stages, DialledRight, Asked
<1> QED
  BY <1>7, <1>8, <1>11, <1>12, <1>13 DEF TunnelInv

\* The client sends a byte of the payload.
LEMMA ClientSendsKeeps ==
  ASSUME TunnelInv, ClientSends
  PROVE  TunnelInv'
<1>1. /\ UNCHANGED <<nodePc, ready2, sending, down, nearEnd, farEnd, script, held, replies, dialled>>
      /\ UNCHANGED <<targetSent, clientGot, targetGot>>
  BY DEF ClientSends, threads, talk
<1>2. TunnelTyped /\ Opening /\ Stages /\ Addressed /\ DialledRight /\ UpRight /\ DownRight
  BY DEF TunnelInv
<1>3. up \in [Hop -> Seq(Byte)] /\ "cl" \in Hop /\ "ls" \in Hop /\ "st" \in Hop
  BY <1>2 DEF TunnelTyped, Hop
<1>4. PICK x \in Seq(Byte) : x = <<script.payload[clientSent + 1]>>
  BY <1>2, PayloadGrows DEF ClientSends, TunnelTyped
<1>5. /\ clientSent' = clientSent + 1 /\ clientSent' \in 0 .. Len(script.payload)
      /\ FirstOf(clientSent) \in Seq(Byte) /\ FirstOf(clientSent)' = Cat(FirstOf(clientSent), x)
  <2>1. clientSent < Len(script.payload) /\ clientSent \in 0 .. Len(script.payload) /\ Len(script.payload) \in Nat
    BY <1>2, PayloadGrows DEF ClientSends, TunnelTyped
  <2>2. clientSent' = clientSent + 1
    BY DEF ClientSends
  <2>3. FirstOf(clientSent)' = FirstOf(clientSent + 1)
    BY <1>1, <2>2 DEF FirstOf
  <2> QED
    BY <1>2, <1>4, <2>1, <2>2, <2>3, PayloadGrows
<1>6. up' = [up EXCEPT !["cl"] = Cat(up["cl"], x)]
  <2>1. script.payload[clientSent + 1] \in Byte /\ up["cl"] \in Seq(Byte)
    BY <1>2, <1>3, PayloadGrows DEF ClientSends, TunnelTyped
  <2>2. Append(up["cl"], script.payload[clientSent + 1]) = Cat(up["cl"], x)
    BY <1>4, <2>1, AppendIsConcat DEF Cat
  <2> QED
    BY <2>2 DEF ClientSends
<1>7. /\ up' \in [Hop -> Seq(Byte)] /\ up'["cl"] = Cat(up["cl"], x)
      /\ up'["ls"] = up["ls"] /\ up'["st"] = up["st"]
  <2>1. Cat(up["cl"], x) \in Seq(Byte)
    BY <1>3, CatIn
  <2> QED
    BY <1>3, <1>6, <2>1 DEF Hop
<1>8. TunnelTyped'
  BY <1>1, <1>2, <1>5, <1>7 DEF TunnelTyped, TunnelShape
<1>9. nodePc["local"] \notin {"greeting", "request"}
  BY <1>2 DEF Opening, ClientSends
<1>10. Opening'
  BY <1>1, <1>2, <1>9 DEF Opening
<1>11. Stages' /\ DialledRight'
  BY <1>1, <1>2, <1>7 DEF Stages, DialledRight, Asked
<1>12. /\ \A n, d : Buffered(n, d)' = Buffered(n, d)
       /\ \A n \in Node : \A d : Buffered(n, d) \in Seq(Byte)
       /\ Asked' = Asked /\ targetGot \in Seq(Byte)
  BY <1>1, <1>2, InHand DEF Buffered, Asked, TunnelTyped
<1>13. UpRight'
  <2> SUFFICES ASSUME dialled = Asked
               PROVE  PipeRight(Cat(FirstOf(clientSent), x), targetGot, up["st"], Buffered("server", "up"),
                                up["ls"], Buffered("local", "up"), Cat(up["cl"], x), farEnd["st"],
                                nodePc["server"], nodePc["local"])
    BY <1>1, <1>5, <1>7, <1>12 DEF UpRight
  <2>1. PipeRight(FirstOf(clientSent), targetGot, up["st"], Buffered("server", "up"), up["ls"],
                  Buffered("local", "up"), up["cl"], farEnd["st"], nodePc["server"], nodePc["local"])
    BY <1>2 DEF UpRight
  <2>2. Buffered("server", "up") \in Seq(Byte) /\ Buffered("local", "up") \in Seq(Byte)
    BY <1>12 DEF Node
  <2> QED
    BY <1>3, <1>5, <1>12, <2>1, <2>2, PipeSource
<1>14. Addressed'
  <2> SUFFICES ASSUME nodePc["server"] = "addr" PROVE \E m, y \in Seq(Byte) :
        /\ up["ls"] = Cat(m, y) /\ IsAddress(decrypt(m))
        /\ decrypt(m) \in DialsOf(script)
        /\ decrypt(m) = Asked =>
               PipeRight(Cat(FirstOf(clientSent), x), <<>>, <<>>, <<>>, y, Buffered("local", "up"),
                         Cat(up["cl"], x), "open", "select", nodePc["local"])
    BY <1>1, <1>5, <1>7, <1>12 DEF Addressed
  <2>1. PICK m \in Seq(Byte), y \in Seq(Byte) :
        /\ up["ls"] = Cat(m, y) /\ IsAddress(decrypt(m))
        /\ decrypt(m) \in DialsOf(script)
        /\ decrypt(m) = Asked =>
               PipeRight(FirstOf(clientSent), <<>>, <<>>, <<>>, y, Buffered("local", "up"), up["cl"],
                         "open", "select", nodePc["local"])
    BY <1>2 DEF Addressed
  <2>2. Buffered("local", "up") \in Seq(Byte) /\ <<>> \in Seq(Byte) /\ up["cl"] \in Seq(Byte)
    BY <1>3, <1>12 DEF Node
  <2>3. decrypt(m) = Asked =>
               PipeRight(Cat(FirstOf(clientSent), x), <<>>, <<>>, <<>>, y, Buffered("local", "up"),
                         Cat(up["cl"], x), "open", "select", nodePc["local"])
    BY <1>5, <2>1, <2>2, PipeSource
  <2> QED
    BY <2>1, <2>3
<1>15. DownRight'
  BY <1>1, <1>2, <1>12, DownKeeps
<1> QED
  BY <1>8, <1>10, <1>11, <1>13, <1>14, <1>15 DEF TunnelInv

\* The target sends a byte of the payload.
LEMMA TargetSendsKeeps ==
  ASSUME TunnelInv, TargetSends
  PROVE  TunnelInv'
<1>1. /\ UNCHANGED <<nodePc, ready2, sending, up, nearEnd, farEnd, script, held, replies, dialled>>
      /\ UNCHANGED <<clientSent, clientGot, targetGot>>
  BY DEF TargetSends, threads, talk
<1>2. TunnelTyped /\ Opening /\ Stages /\ Addressed /\ DialledRight /\ UpRight /\ DownRight
  BY DEF TunnelInv
<1>3. down \in [Hop -> Seq(Byte)] /\ "cl" \in Hop /\ "ls" \in Hop /\ "st" \in Hop
  BY <1>2 DEF TunnelTyped, Hop
<1>4. PICK x \in Seq(Byte) : x = <<script.payload[targetSent + 1]>>
  BY <1>2, PayloadGrows DEF TargetSends, TunnelTyped
<1>5. /\ targetSent' = targetSent + 1 /\ targetSent' \in 0 .. Len(script.payload)
      /\ FirstOf(targetSent) \in Seq(Byte) /\ FirstOf(targetSent)' = Cat(FirstOf(targetSent), x)
  <2>1. targetSent < Len(script.payload) /\ targetSent \in 0 .. Len(script.payload) /\ Len(script.payload) \in Nat
    BY <1>2, PayloadGrows DEF TargetSends, TunnelTyped
  <2>2. targetSent' = targetSent + 1
    BY DEF TargetSends
  <2>3. FirstOf(targetSent)' = FirstOf(targetSent + 1)
    BY <1>1, <2>2 DEF FirstOf
  <2> QED
    BY <1>2, <1>4, <2>1, <2>2, <2>3, PayloadGrows
<1>6. down' = [down EXCEPT !["st"] = Cat(down["st"], x)]
  <2>1. script.payload[targetSent + 1] \in Byte /\ down["st"] \in Seq(Byte)
    BY <1>2, <1>3, PayloadGrows DEF TargetSends, TunnelTyped
  <2>2. Append(down["st"], script.payload[targetSent + 1]) = Cat(down["st"], x)
    BY <1>4, <2>1, AppendIsConcat DEF Cat
  <2> QED
    BY <2>2 DEF TargetSends
<1>7. /\ down' \in [Hop -> Seq(Byte)] /\ down'["st"] = Cat(down["st"], x)
      /\ down'["ls"] = down["ls"] /\ down'["cl"] = down["cl"]
  <2>1. Cat(down["st"], x) \in Seq(Byte)
    BY <1>3, CatIn
  <2> QED
    BY <1>3, <1>6, <2>1 DEF Hop
<1>8. TunnelTyped'
  BY <1>1, <1>2, <1>5, <1>7 DEF TunnelTyped, TunnelShape
<1>9. nodePc["server"] \notin {"none", "addr"}
  BY <1>2 DEF Stages, TargetSends
<1>10. Opening' /\ Stages' /\ DialledRight' /\ Addressed'
  BY <1>1, <1>2, <1>9 DEF Opening, Asking, Rest, Stages, DialledRight, Asked, Addressed
<1>11. /\ \A n, d : Buffered(n, d)' = Buffered(n, d)
       /\ \A n \in Node : \A d : Buffered(n, d) \in Seq(Byte)
       /\ clientGot \in Seq(Byte)
  BY <1>1, <1>2, InHand DEF Buffered, TunnelTyped
<1>12. DownRight'
  <2>1. PipeRight(FirstOf(targetSent), clientGot, down["cl"], Buffered("local", "down"), down["ls"],
                  Buffered("server", "down"), down["st"], nearEnd["cl"], nodePc["local"], nodePc["server"])
    BY <1>2 DEF DownRight
  <2>2. Buffered("server", "down") \in Seq(Byte) /\ Buffered("local", "down") \in Seq(Byte)
    BY <1>11 DEF Node
  <2>3. PipeRight(Cat(FirstOf(targetSent), x), clientGot, down["cl"], Buffered("local", "down"), down["ls"],
                  Buffered("server", "down"), Cat(down["st"], x), nearEnd["cl"], nodePc["local"], nodePc["server"])
    BY <1>3, <1>5, <1>11, <2>1, <2>2, PipeSource
  <2> QED
    BY <1>1, <1>5, <1>7, <1>11, <2>3 DEF DownRight
<1>13. UpRight'
  BY <1>1, <1>2, <1>9, <1>11, UpKeeps
<1> QED
  BY <1>8, <1>10, <1>12, <1>13 DEF TunnelInv

\* The client reads what has come.
LEMMA ClientReadsKeeps ==
  ASSUME TunnelInv, ClientReads
  PROVE  TunnelInv'
<1>1. /\ UNCHANGED <<nodePc, ready2, sending, up, nearEnd, farEnd, script, held, replies, dialled>>
      /\ UNCHANGED <<clientSent, targetSent, targetGot>>
  BY DEF ClientReads, threads, talk
<1>2. TunnelTyped /\ Opening /\ Stages /\ Addressed /\ DialledRight /\ UpRight /\ DownRight
  BY DEF TunnelInv
<1>3. down \in [Hop -> Seq(Byte)] /\ "cl" \in Hop /\ "ls" \in Hop /\ "st" \in Hop /\ clientGot \in Seq(Byte)
  BY <1>2 DEF TunnelTyped, Hop
<1>4. /\ down' \in [Hop -> Seq(Byte)] /\ down'["cl"] = <<>>
      /\ down'["ls"] = down["ls"] /\ down'["st"] = down["st"]
      /\ clientGot' = Cat(clientGot, down["cl"]) /\ clientGot' \in Seq(Byte)
  <2>1. down' = [down EXCEPT !["cl"] = <<>>] /\ clientGot' = Cat(clientGot, down["cl"])
    BY DEF ClientReads, Cat
  <2>2. <<>> \in Seq(Byte) /\ Cat(clientGot, down["cl"]) \in Seq(Byte)
    BY <1>3, CatIn
  <2> QED
    BY <1>3, <2>1, <2>2
<1>5. TunnelTyped'
  BY <1>1, <1>2, <1>4 DEF TunnelTyped, TunnelShape
<1>6. nodePc["server"] \notin {"none", "addr"} /\ nearEnd["cl"] # "closed"
  BY <1>2, <1>3 DEF Stages, ClientReads
<1>7. Opening' /\ Stages' /\ DialledRight' /\ Addressed'
  BY <1>1, <1>2, <1>6 DEF Opening, Asking, Rest, Stages, DialledRight, Asked, Addressed
<1>8. /\ \A n, d : Buffered(n, d)' = Buffered(n, d)
      /\ \A n \in Node : \A d : Buffered(n, d) \in Seq(Byte)
      /\ FirstOf(targetSent)' = FirstOf(targetSent) /\ FirstOf(targetSent) \in Seq(Byte)
  BY <1>1, <1>2, InHand, PayloadGrows DEF Buffered, FirstOf, TunnelTyped
<1>9. DownRight'
  <2>1. PipeRight(FirstOf(targetSent), clientGot, down["cl"], Buffered("local", "down"), down["ls"],
                  Buffered("server", "down"), down["st"], nearEnd["cl"], nodePc["local"], nodePc["server"])
    BY <1>2 DEF DownRight
  <2>2. Buffered("server", "down") \in Seq(Byte) /\ Buffered("local", "down") \in Seq(Byte)
    BY <1>8 DEF Node
  <2>3. PipeRight(FirstOf(targetSent), Cat(clientGot, down["cl"]), <<>>, Buffered("local", "down"), down["ls"],
                  Buffered("server", "down"), down["st"], nearEnd["cl"], nodePc["local"], nodePc["server"])
    BY <1>3, <1>6, <1>8, <2>1, <2>2, PipeReads
  <2> QED
    BY <1>1, <1>4, <1>8, <2>3 DEF DownRight
<1>10. UpRight'
  BY <1>1, <1>2, <1>6, <1>8, UpKeeps
<1> QED
  BY <1>5, <1>7, <1>9, <1>10 DEF TunnelInv

\* The target reads what has come.
LEMMA TargetReadsKeeps ==
  ASSUME TunnelInv, TargetReads
  PROVE  TunnelInv'
<1>1. /\ UNCHANGED <<nodePc, ready2, sending, down, nearEnd, farEnd, script, held, replies, dialled>>
      /\ UNCHANGED <<clientSent, targetSent, clientGot>>
  BY DEF TargetReads, threads, talk
<1>2. TunnelTyped /\ Opening /\ Stages /\ Addressed /\ DialledRight /\ UpRight /\ DownRight
  BY DEF TunnelInv
<1>3. up \in [Hop -> Seq(Byte)] /\ "cl" \in Hop /\ "ls" \in Hop /\ "st" \in Hop /\ targetGot \in Seq(Byte)
  BY <1>2 DEF TunnelTyped, Hop
<1>4. /\ up' \in [Hop -> Seq(Byte)] /\ up'["st"] = <<>>
      /\ up'["ls"] = up["ls"] /\ up'["cl"] = up["cl"]
      /\ targetGot' = Cat(targetGot, up["st"]) /\ targetGot' \in Seq(Byte)
  <2>1. up' = [up EXCEPT !["st"] = <<>>] /\ targetGot' = Cat(targetGot, up["st"])
    BY DEF TargetReads, Cat
  <2>2. <<>> \in Seq(Byte) /\ Cat(targetGot, up["st"]) \in Seq(Byte)
    BY <1>3, CatIn
  <2> QED
    BY <1>3, <2>1, <2>2
<1>5. TunnelTyped'
  BY <1>1, <1>2, <1>4 DEF TunnelTyped, TunnelShape
<1>6. nodePc["server"] \notin {"none", "addr"} /\ farEnd["st"] # "closed"
  BY <1>2, <1>3 DEF Stages, TargetReads
<1>7. Opening' /\ Stages' /\ DialledRight' /\ Addressed'
  BY <1>1, <1>2, <1>4, <1>6 DEF Opening, Asking, Rest, Stages, DialledRight, Asked, Addressed
<1>8. /\ \A n, d : Buffered(n, d)' = Buffered(n, d)
      /\ \A n \in Node : \A d : Buffered(n, d) \in Seq(Byte)
      /\ FirstOf(clientSent)' = FirstOf(clientSent) /\ FirstOf(clientSent) \in Seq(Byte)
      /\ Asked' = Asked
  BY <1>1, <1>2, InHand, PayloadGrows DEF Buffered, FirstOf, TunnelTyped, Asked
<1>9. UpRight'
  <2> SUFFICES ASSUME dialled = Asked
               PROVE  PipeRight(FirstOf(clientSent), Cat(targetGot, up["st"]), <<>>, Buffered("server", "up"),
                                up["ls"], Buffered("local", "up"), up["cl"], farEnd["st"],
                                nodePc["server"], nodePc["local"])
    BY <1>1, <1>4, <1>8 DEF UpRight
  <2>1. PipeRight(FirstOf(clientSent), targetGot, up["st"], Buffered("server", "up"), up["ls"],
                  Buffered("local", "up"), up["cl"], farEnd["st"], nodePc["server"], nodePc["local"])
    BY <1>2 DEF UpRight
  <2>2. Buffered("server", "up") \in Seq(Byte) /\ Buffered("local", "up") \in Seq(Byte)
    BY <1>8 DEF Node
  <2> QED
    BY <1>3, <1>6, <1>8, <2>1, <2>2, PipeReads
<1>10. DownRight'
  BY <1>1, <1>2, <1>8, DownKeeps
<1> QED
  BY <1>5, <1>7, <1>9, <1>10 DEF TunnelInv

\* The client or the target ends its direction, or closes.
LEMMA TunnelEndsKeeps ==
  ASSUME TunnelInv, ClientEnds \/ TargetEnds
  PROVE  TunnelInv'
<1>1. /\ UNCHANGED <<nodePc, ready2, sending, script, held, replies, dialled>>
      /\ UNCHANGED <<clientSent, targetSent, clientGot, targetGot>>
  BY DEF ClientEnds, TargetEnds, threads, talk, counts
<1>2. TunnelTyped /\ Opening /\ Stages /\ Addressed /\ DialledRight /\ UpRight /\ DownRight
  BY DEF TunnelInv
<1>3. /\ up \in [Hop -> Seq(Byte)] /\ down \in [Hop -> Seq(Byte)]
      /\ DOMAIN nearEnd = Hop /\ DOMAIN farEnd = Hop
      /\ "cl" \in Hop /\ "ls" \in Hop /\ "st" \in Hop /\ <<>> \in Seq(Byte)
  <2>1. "cl" \in Hop /\ "ls" \in Hop /\ "st" \in Hop
    BY DEF Hop
  <2>2. DOMAIN nearEnd = Hop /\ DOMAIN farEnd = Hop
    BY <1>2 DEF TunnelTyped, TunnelShape
  <2>3. <<>> \in Seq(Byte)
    OBVIOUS
  <2> QED
    BY <1>2, <2>1, <2>2, <2>3 DEF TunnelTyped
<1>4. \A n, d : Buffered(n, d)' = Buffered(n, d)
  BY <1>1 DEF Buffered
<1>5. CASE ClientEnds
  <2>1. PICK how \in {"half", "closed"} :
          /\ nearEnd' = [nearEnd EXCEPT !["cl"] = how]
          /\ down' = IF how = "closed" THEN [down EXCEPT !["cl"] = <<>>] ELSE down
    BY <1>5 DEF ClientEnds
  <2>2. up' = up /\ farEnd' = farEnd /\ nearEnd["cl"] = "open"
    BY <1>5 DEF ClientEnds
  <2>3. /\ down' \in [Hop -> Seq(Byte)] /\ DOMAIN nearEnd' = Hop /\ DOMAIN down' = Hop
        /\ nearEnd'["cl"] = how /\ nearEnd'["ls"] = nearEnd["ls"]
        /\ down'["ls"] = down["ls"] /\ down'["st"] = down["st"]
        /\ how # "closed" => down' = down
    BY <1>3, <2>1
  <2>4. TunnelTyped'
    BY <1>1, <1>2, <2>2, <2>3 DEF TunnelTyped, TunnelShape
  <2>5. \A h \in Hop : down[h] = <<>> => down'[h] = <<>>
    BY <1>3, <2>1
  <2>6. Opening' /\ Stages' /\ DialledRight'
    BY <1>1, <1>2, <2>2, <2>3, <2>5 DEF Opening, Asking, Rest, Stages, DialledRight, Asked
  <2>7. UpRight' /\ Addressed'
    BY <1>1, <1>2, <1>4, <2>2, UpKeeps
  <2>8. DownRight'
    BY <1>1, <1>2, <1>4, <2>2, <2>3, DownKeeps
  <2> QED
    BY <2>4, <2>6, <2>7, <2>8 DEF TunnelInv
<1>6. CASE TargetEnds
  <2>1. PICK how \in {"half", "closed"} :
          /\ farEnd' = [farEnd EXCEPT !["st"] = how]
          /\ up' = IF how = "closed" THEN [up EXCEPT !["st"] = <<>>] ELSE up
    BY <1>6 DEF TargetEnds
  <2>2. down' = down /\ nearEnd' = nearEnd /\ farEnd["st"] = "open"
    BY <1>6 DEF TargetEnds
  <2>3. /\ up' \in [Hop -> Seq(Byte)] /\ DOMAIN farEnd' = Hop /\ DOMAIN up' = Hop
        /\ farEnd'["st"] = how /\ farEnd'["ls"] = farEnd["ls"]
        /\ up'["ls"] = up["ls"] /\ up'["cl"] = up["cl"]
        /\ how # "closed" => up' = up
    BY <1>3, <2>1
  <2>4. TunnelTyped'
    BY <1>1, <1>2, <2>2, <2>3 DEF TunnelTyped, TunnelShape
  <2>5. nodePc["server"] \notin {"none", "addr"}
    BY <1>2, <2>2 DEF Stages
  <2>6. Opening' /\ Stages' /\ DialledRight'
    BY <1>1, <1>2, <2>2, <2>3, <2>5 DEF Opening, Asking, Rest, Stages, DialledRight, Asked
  <2>7. UpRight' /\ Addressed'
    BY <1>1, <1>2, <1>4, <2>2, <2>3, UpKeeps
  <2>8. DownRight'
    BY <1>1, <1>2, <1>4, <2>2, DownKeeps
  <2> QED
    BY <2>4, <2>6, <2>7, <2>8 DEF TunnelInv
<1> QED
  BY <1>5, <1>6

-------------------------------------------------------------------------------
(* The tunnel: the two threads *)

\* A thread that ends.
LEMMA ClosingKeeps ==
  ASSUME TunnelInv, NEW n \in Node, Closes(n), UNCHANGED <<script, held, dialled, counts>>,
         n = "server" => nodePc["server"] # "none" /\ replies' = replies
  PROVE  TunnelInv'
<1>1. /\ UNCHANGED <<sending, script, held, dialled, clientSent, targetSent, clientGot, targetGot>>
      /\ nodePc' = [nodePc EXCEPT ![n] = "closed"]
      /\ farEnd' = [farEnd EXCEPT ![Near(n)] = "closed"]
      /\ nearEnd' = [nearEnd EXCEPT ![Far(n)] = IF @ = "none" THEN @ ELSE "closed"]
      /\ up' = [up EXCEPT ![Near(n)] = <<>>]
      /\ down' = [down EXCEPT ![Far(n)] = <<>>]
  BY DEF Closes, counts
<1>2. TunnelTyped /\ Opening /\ Stages /\ Addressed /\ DialledRight /\ UpRight /\ DownRight
  BY DEF TunnelInv
<1>3. /\ up \in [Hop -> Seq(Byte)] /\ down \in [Hop -> Seq(Byte)] /\ DOMAIN nodePc = Node
      /\ DOMAIN nearEnd = Hop /\ DOMAIN farEnd = Hop
      /\ "cl" \in Hop /\ "ls" \in Hop /\ "st" \in Hop /\ <<>> \in Seq(Byte)
      /\ "local" \in Node /\ "server" \in Node /\ Near(n) \in Hop /\ Far(n) \in Hop
  <2>1. "cl" \in Hop /\ "ls" \in Hop /\ "st" \in Hop /\ Near(n) \in Hop /\ Far(n) \in Hop
    BY DEF Hop, Near, Far
  <2>2. DOMAIN nearEnd = Hop /\ DOMAIN farEnd = Hop
    BY <1>2 DEF TunnelTyped, TunnelShape
  <2>3. <<>> \in Seq(Byte) /\ "local" \in Node /\ "server" \in Node
    BY DEF Node
  <2> QED
    BY <1>2, <2>1, <2>2, <2>3 DEF TunnelTyped
<1>4. /\ up' \in [Hop -> Seq(Byte)] /\ down' \in [Hop -> Seq(Byte)] /\ DOMAIN nodePc' = Node
      /\ DOMAIN nearEnd' = Hop /\ DOMAIN farEnd' = Hop
      /\ \A h \in Hop : down[h] = <<>> => down'[h] = <<>>
  BY <1>1, <1>3
<1>5. /\ nodePc'[n] = "closed" /\ \A o \in Node : o # n => nodePc'[o] = nodePc[o]
      /\ "closed" \notin Relays
  BY <1>1, <1>3 DEF Relays
<1>6. TunnelTyped'
  BY <1>1, <1>2, <1>3, <1>4, <1>5 DEF TunnelTyped, TunnelShape
<1>7. \A o \in Node : o # n => \A d : Buffered(o, d)' = Buffered(o, d)
  BY <1>1, <1>5 DEF Buffered
<1>8. DialledRight'
  BY <1>1, <1>2 DEF DialledRight, Asked
<1>9. CASE n = "local"
  <2>1. /\ nodePc'["local"] = "closed" /\ nodePc'["server"] = nodePc["server"]
        /\ farEnd'["ls"] = farEnd["ls"] /\ farEnd'["st"] = farEnd["st"]
        /\ nearEnd'["cl"] = nearEnd["cl"]
        /\ up'["ls"] = up["ls"] /\ up'["st"] = up["st"]
        /\ down'["cl"] = down["cl"]
    BY <1>1, <1>3, <1>5, <1>9 DEF Near, Far
  <2>2. Buffered("server", "up")' = Buffered("server", "up")
    BY <1>3, <1>7, <1>9
  <2>3. Opening' /\ Stages'
    BY <1>1, <1>2, <1>4, <1>5, <2>1 DEF Opening, Stages
  <2>4. UpRight' /\ Addressed'
    BY <1>1, <1>2, <1>5, <2>1, <2>2, UpKeeps
  <2>5. DownRight'
    BY <1>1, <1>2, <1>5, <2>1, DownKeeps
  <2> QED
    BY <1>6, <1>8, <2>3, <2>4, <2>5 DEF TunnelInv
<1>10. CASE n = "server"
  <2>1. /\ nodePc'["server"] = "closed" /\ nodePc'["local"] = nodePc["local"]
        /\ nearEnd'["ls"] = nearEnd["ls"] /\ farEnd'["st"] = farEnd["st"]
        /\ nearEnd'["cl"] = nearEnd["cl"]
        /\ up'["st"] = up["st"] /\ up'["cl"] = up["cl"]
        /\ down'["cl"] = down["cl"] /\ down'["ls"] = down["ls"]
    BY <1>1, <1>3, <1>5, <1>10 DEF Near, Far
  <2>2. Buffered("local", "down")' = Buffered("local", "down")
    BY <1>3, <1>7, <1>10
  <2>3. nodePc["server"] # "none" /\ replies' = replies /\ nodePc["local"] \notin {"greeting", "request"}
    BY <1>2, <1>10 DEF Stages
  <2>4. Opening' /\ Stages'
    BY <1>1, <1>2, <2>1, <2>3 DEF Opening, Stages
  <2>5. UpRight' /\ Addressed'
    BY <1>1, <1>2, <1>5, <2>1, UpKeeps
  <2>6. DownRight'
    BY <1>1, <1>2, <1>5, <2>1, <2>2, DownKeeps
  <2> QED
    BY <1>6, <1>8, <2>4, <2>5, <2>6 DEF TunnelInv
<1> QED
  BY <1>9, <1>10 DEF Node

\* The greeting.
LEMMA GreetingKeeps ==
  ASSUME TunnelInv, LocalGreeting
  PROVE  TunnelInv'
<1>1. UNCHANGED <<script, held, dialled, counts>> /\ nodePc["local"] = "greeting"
  BY DEF LocalGreeting
<1>2. CASE up["cl"] = <<>>
  BY <1>1, <1>2, ClosingKeeps DEF LocalGreeting, Node
<1>3. CASE up["cl"] # <<>>
  <2>1. /\ up' = [up EXCEPT !["cl"] = <<>>] /\ nodePc' = [nodePc EXCEPT !["local"] = "request"]
        /\ replies' = 1 /\ UNCHANGED <<ready2, sending, down, nearEnd, farEnd>>
    BY <1>3 DEF LocalGreeting
  <2>2. TunnelTyped /\ Opening /\ Stages /\ Addressed /\ DialledRight /\ UpRight /\ DownRight
    BY DEF TunnelInv
  <2>3. UNCHANGED <<clientSent, targetSent, clientGot, targetGot>>
    BY <1>1 DEF counts
  <2>4. up \in [Hop -> Seq(Byte)] /\ <<>> \in Seq(Byte) /\ DOMAIN nodePc = Node
    BY <2>2 DEF TunnelTyped
  <2>5. /\ up' \in [Hop -> Seq(Byte)] /\ up'["cl"] = <<>> /\ up'["ls"] = up["ls"] /\ up'["st"] = up["st"]
        /\ nodePc'["local"] = "request" /\ nodePc'["server"] = nodePc["server"] /\ DOMAIN nodePc' = Node
    BY <2>1, <2>4 DEF Hop, Node
  <2>6. TunnelTyped'
    BY <1>1, <2>1, <2>2, <2>3, <2>5 DEF TunnelTyped, TunnelShape
  <2>7. Opening'
    <3>1. held \in {Rest, <<>>} /\ clientSent = 0
      BY <1>1, <1>3, <2>2 DEF Opening
    <3>2. Asking' = <<>> /\ Rest' = Rest
      BY <1>1, <2>1 DEF Asking, Rest
    <3>3. "request" \notin Relays
      BY DEF Relays
    <3> QED
      BY <1>1, <2>1, <2>3, <2>5, <3>1, <3>2, <3>3 DEF Opening
  <2>8. nodePc["server"] = "none" /\ "none" \notin Relays /\ "request" \notin Relays
    BY <1>1, <2>2 DEF Stages, Relays
  <2>9. Stages' /\ DialledRight'
    BY <1>1, <2>1, <2>2, <2>3, <2>5, <2>8 DEF Stages, DialledRight, Asked
  <2>10. UpRight' /\ Addressed'
    BY <1>1, <2>1, <2>2, <2>3, <2>5, <2>8, UpKeeps
  <2>11. DownRight'
    BY <1>1, <2>1, <2>2, <2>3, <2>5, <2>8, DownKeeps
  <2> QED
    BY <2>6, <2>7, <2>9, <2>10, <2>11 DEF TunnelInv
<1> QED
  BY <1>2, <1>3

\* The request, which local.py passes on as an address.
LEMMA RequestKeeps ==
  ASSUME TunnelInv, LocalRequest
  PROVE  TunnelInv'
<1>1. /\ nodePc["local"] = "request" /\ replies' = 3
      /\ nearEnd' = [nearEnd EXCEPT !["ls"] = "open"] /\ farEnd' = [farEnd EXCEPT !["ls"] = "open"]
      /\ nodePc' = [local |-> "select", server |-> "addr"]
      /\ UNCHANGED <<ready2, sending, down, script, held, dialled>>
      /\ UNCHANGED <<clientSent, targetSent, clientGot, targetGot>>
  BY DEF LocalRequest, counts
<1>2. TunnelTyped /\ Opening /\ Stages /\ Addressed /\ DialledRight /\ UpRight /\ DownRight
  BY DEF TunnelInv
<1>3. PICK s, n, a, r : s = up["cl"] /\ n = ReqLen(s) /\ a = SubSeq(s, 4, n) /\ r = SubSeq(s, n + 1, Len(s))
  OBVIOUS
<1>4. Connects(s) /\ up' = [up EXCEPT !["cl"] = r, !["ls"] = encrypt(a)]
  BY <1>3 DEF LocalRequest
<1>5. /\ up \in [Hop -> Seq(Byte)] /\ down \in [Hop -> Seq(Byte)]
      /\ DOMAIN nearEnd = Hop /\ DOMAIN farEnd = Hop
      /\ "cl" \in Hop /\ "ls" \in Hop /\ "st" \in Hop
  BY <1>2 DEF TunnelTyped, TunnelShape, Hop
<1>6. s \in Seq(Byte) /\ a \in Seq(Byte) /\ r \in Seq(Byte) /\ IsAddress(a) /\ n \in 4 .. Len(s)
  BY <1>3, <1>4, <1>5, RequestRead
<1>7. s # <<>>
  BY <1>6, LenProperties, EmptySeq
<1>8. held = <<>> /\ clientSent = 0 /\ s \in {Asking, Cat(Rest, Asking)}
  BY <1>1, <1>2, <1>3, <1>7 DEF Opening, Cat
<1>9. a \in DialsOf(script) /\ (a = Asked => r = <<>>)
  BY <1>2, <1>3, <1>4, <1>8, AskedRead
<1>10. PICK m \in Seq(Byte) : m = encrypt(a) /\ decrypt(m) = a
  BY <1>6, CodeRight
<1>11. /\ up' \in [Hop -> Seq(Byte)] /\ up'["cl"] = r /\ up'["ls"] = m /\ up'["st"] = up["st"]
       /\ DOMAIN nearEnd' = Hop /\ DOMAIN farEnd' = Hop
       /\ nearEnd'["cl"] = nearEnd["cl"] /\ farEnd'["st"] = farEnd["st"]
       /\ nearEnd'["ls"] = "open" /\ farEnd'["ls"] = "open"
  BY <1>1, <1>4, <1>5, <1>6, <1>10
<1>12. nodePc'["local"] = "select" /\ nodePc'["server"] = "addr" /\ DOMAIN nodePc' = Node
  BY <1>1 DEF Node
<1>13. "select" \in Relays /\ "addr" \notin Relays /\ "none" \notin Relays
  BY DEF Relays
<1>14. TunnelTyped'
  BY <1>1, <1>2, <1>11, <1>12, <1>13 DEF TunnelTyped, TunnelShape
<1>15. Opening'
  BY <1>1, <1>8, <1>12 DEF Opening
<1>16. /\ nodePc["server"] = "none" /\ farEnd["st"] = "none" /\ up["st"] = <<>> /\ targetGot = <<>>
       /\ dialled = <<>> /\ targetSent = 0 /\ clientGot = <<>> /\ \A h \in Hop : down[h] = <<>>
  BY <1>1, <1>2 DEF Stages
<1>17. Stages' /\ DialledRight'
  BY <1>1, <1>2, <1>11, <1>12, <1>16 DEF Stages, DialledRight
<1>18. Buffered("local", "up")' = <<>> /\ Buffered("local", "down")' = <<>>
       /\ Buffered("server", "up")' = <<>> /\ Buffered("server", "down")' = <<>>
  BY <1>12 DEF Buffered
<1>19. FirstOf(clientSent)' = <<>> /\ FirstOf(targetSent)' = <<>> /\ Asked' = Asked
  BY <1>1, <1>2, <1>8, <1>16, PayloadGrows DEF FirstOf, Asked
<1>20. Addressed'
  <2>0. <<>> \in Seq(Byte)
    OBVIOUS
  <2>1. up'["ls"] = Cat(m, <<>>) /\ <<>> \in Seq(Byte)
    <3>1. Cat(m, <<>>) = m
      BY <2>0, CatIn
    <3> QED
      BY <1>11, <2>0, <3>1
  <2>2. a = Asked => PipeRight(<<>>, <<>>, <<>>, <<>>, <<>>, <<>>, r, "open", "select", "select")
    BY <1>9, PipeEmpty
  <2> QED
    BY <1>1, <1>6, <1>9, <1>10, <1>11, <1>12, <1>18, <1>19, <2>1, <2>2 DEF Addressed
<1>21. UpRight'
  <2>1. PipeRight(<<>>, <<>>, <<>>, <<>>, <<>>, <<>>, <<>>, "none", "none", "none")
    BY PipeEmpty
  <2>2. PipeRight(<<>>, <<>>, <<>>, <<>>, m, <<>>, r, farEnd'["st"], "addr", "select")
    BY <1>11, <1>13, <1>16, <2>1, PipeWeaker
  <2> QED
    BY <1>1, <1>11, <1>12, <1>16, <1>18, <1>19, <2>2 DEF UpRight
<1>22. DownRight'
  <2>1. PipeRight(<<>>, <<>>, <<>>, <<>>, <<>>, <<>>, <<>>, nearEnd'["cl"], "select", "addr")
    BY PipeEmpty
  <2> QED
    BY <1>1, <1>5, <1>12, <1>16, <1>18, <1>19, <2>1 DEF DownRight
<1> QED
  BY <1>14, <1>15, <1>17, <1>20, <1>21, <1>22 DEF TunnelInv

\* server.py connects to the address it reads.
LEMMA DialsKeeps ==
  ASSUME TunnelInv, ServerDials
  PROVE  TunnelInv'
<1>1. nodePc["server"] = "addr" /\ UNCHANGED <<script, held, replies, counts>>
  BY DEF ServerDials
<1>2. TunnelTyped /\ Opening /\ Stages /\ Addressed /\ DialledRight /\ UpRight /\ DownRight
  BY DEF TunnelInv
<1>3. CASE Closes("server") /\ dialled' = dialled
  BY <1>1, <1>3, ClosingKeeps DEF Node
<1>4. CASE ~(Closes("server") /\ dialled' = dialled)
  <2>1. PICK s, n : s = <<0, 1, 0>> \o decrypt(up["ls"]) /\ n = ReqLen(s)
    OBVIOUS
  <2>2. /\ dialled' = SubSeq(s, 4, n)
        /\ up' = [up EXCEPT !["ls"] = SubSeq(up["ls"], n - 2, Len(up["ls"]))]
        /\ nearEnd' = [nearEnd EXCEPT !["st"] = "open"] /\ farEnd' = [farEnd EXCEPT !["st"] = "open"]
        /\ nodePc' = [nodePc EXCEPT !["server"] = "select"]
        /\ UNCHANGED <<ready2, sending, down>>
    BY <1>4, <2>1 DEF ServerDials
  <2>3. PICK m \in Seq(Byte), y \in Seq(Byte) :
        /\ up["ls"] = Cat(m, y) /\ IsAddress(decrypt(m))
        /\ decrypt(m) \in DialsOf(script)
        /\ decrypt(m) = Asked =>
               PipeRight(FirstOf(clientSent), <<>>, <<>>, <<>>, y, Buffered("local", "up"), up["cl"],
                         "open", "select", nodePc["local"])
    BY <1>1, <1>2 DEF Addressed
  <2>4. dialled' = decrypt(m) /\ up' = [up EXCEPT !["ls"] = y]
    <3>1. s = <<0, 1, 0>> \o decrypt(Cat(m, y))
      BY <2>1, <2>3
    <3>2. SubSeq(s, 4, n) = decrypt(m) /\ SubSeq(Cat(m, y), n - 2, Len(Cat(m, y))) = y
      BY <2>1, <2>3, <3>1, AddressRead
    <3> QED
      BY <2>2, <2>3, <3>2
  <2>5. /\ up \in [Hop -> Seq(Byte)] /\ DOMAIN nearEnd = Hop /\ DOMAIN farEnd = Hop
        /\ "cl" \in Hop /\ "ls" \in Hop /\ "st" \in Hop /\ DOMAIN nodePc = Node
    BY <1>2 DEF TunnelTyped, TunnelShape, Hop
  <2>6. /\ up' \in [Hop -> Seq(Byte)] /\ up'["ls"] = y /\ up'["cl"] = up["cl"] /\ up'["st"] = up["st"]
        /\ DOMAIN nearEnd' = Hop /\ DOMAIN farEnd' = Hop
        /\ nearEnd'["cl"] = nearEnd["cl"] /\ nearEnd'["ls"] = nearEnd["ls"]
        /\ farEnd'["ls"] = farEnd["ls"] /\ farEnd'["st"] = "open"
        /\ nodePc'["server"] = "select" /\ nodePc'["local"] = nodePc["local"] /\ DOMAIN nodePc' = Node
    BY <2>2, <2>4, <2>5 DEF Node
  <2>7. UNCHANGED <<clientSent, targetSent, clientGot, targetGot, script, held, replies, sending, down>>
    BY <1>1, <2>2 DEF counts
  <2>8. "select" \in Relays
    BY DEF Relays
  <2>9. TunnelTyped'
    BY <1>2, <2>6, <2>7, <2>8 DEF TunnelTyped, TunnelShape
  <2>10. nodePc["local"] \notin {"greeting", "request"}
    BY <1>1, <1>2 DEF Stages
  <2>11. Opening' /\ Stages' /\ Addressed'
    BY <1>1, <1>2, <2>6, <2>7, <2>10 DEF Opening, Stages, Addressed
  <2>12. DialledRight'
    BY <2>3, <2>4, <2>7 DEF DialledRight, Asked
  <2>13. /\ up["st"] = <<>> /\ targetGot = <<>> /\ targetSent = 0 /\ clientGot = <<>>
         /\ \A h \in Hop : down[h] = <<>>
         /\ nodePc["local"] = "send" => sending["local"].on = "up"
    BY <1>1, <1>2 DEF Stages
  <2>14. /\ Buffered("local", "up")' = Buffered("local", "up") /\ Buffered("local", "down")' = <<>>
         /\ Buffered("server", "up")' = <<>> /\ Buffered("server", "down")' = <<>>
    BY <2>6, <2>7, <2>13 DEF Buffered
  <2>15. /\ FirstOf(clientSent)' = FirstOf(clientSent) /\ FirstOf(targetSent)' = <<>> /\ Asked' = Asked
    BY <1>2, <2>7, <2>13, PayloadGrows DEF FirstOf, Asked
  <2>16. UpRight'
    BY <2>3, <2>4, <2>6, <2>7, <2>13, <2>14, <2>15 DEF UpRight
  <2>17. DownRight'
    <3>1. PipeRight(<<>>, <<>>, <<>>, <<>>, <<>>, <<>>, <<>>, nearEnd'["cl"], nodePc["local"], "select")
      BY PipeEmpty
    <3> QED
      BY <2>5, <2>6, <2>7, <2>13, <2>14, <2>15, <3>1 DEF DownRight
  <2> QED
    BY <2>9, <2>11, <2>12, <2>16, <2>17 DEF TunnelInv
<1> QED
  BY <1>3, <1>4

\* The other ways in which the opening ends a thread.
LEMMA RefusalKeeps ==
  ASSUME TunnelInv, LocalRefuses \/ LocalConnectFails \/ ServerShort
  PROVE  TunnelInv'
<1>1. CASE LocalRefuses \/ LocalConnectFails
  <2>1. Closes("local") /\ UNCHANGED <<script, held, dialled, counts>>
    BY <1>1 DEF LocalRefuses, LocalConnectFails, talk
  <2> QED
    BY <2>1, ClosingKeeps DEF Node
<1>2. CASE ServerShort
  <2>1. /\ Closes("server") /\ UNCHANGED <<script, held, dialled, counts>>
        /\ nodePc["server"] # "none" /\ replies' = replies
    BY <1>2 DEF ServerShort, talk
  <2> QED
    BY <2>1, ClosingKeeps DEF Node
<1> QED
  BY <1>1, <1>2

\* What a thread that relays may do to the rest: it stays one that relays, and no socket
\* changes.
LEMMA RelayFrame ==
  ASSUME TunnelInv, NEW n \in Node, nodePc[n] \in Relays, NEW p \in Relays,
         nodePc' = [nodePc EXCEPT ![n] = p],
         sending' \in [Node -> [on : {"up", "down"}, bytes : Seq(Byte)]],
         \A o \in Node : o # n => sending'[o] = sending[o],
         up' \in [Hop -> Seq(Byte)], down' \in [Hop -> Seq(Byte)],
         UNCHANGED <<nearEnd, farEnd, talk, counts>>
  PROVE  /\ TunnelTyped' /\ Opening' /\ DialledRight'
         /\ nodePc'["local"] \in Relays <=> nodePc["local"] \in Relays
         /\ nodePc'["server"] \in Relays <=> nodePc["server"] \in Relays
         /\ \A o \in Node : o # n => nodePc'[o] = nodePc[o] /\ \A d : Buffered(o, d)' = Buffered(o, d)
         /\ nodePc'[n] = p
         /\ \A v \in {"none", "addr", "closed"} : nodePc'["server"] = v <=> nodePc["server"] = v
         /\ nodePc'["local"] = "closed" <=> nodePc["local"] = "closed"
         /\ UNCHANGED <<script, held, replies, dialled, clientSent, targetSent, clientGot, targetGot>>
         /\ FirstOf(clientSent)' = FirstOf(clientSent) /\ FirstOf(targetSent)' = FirstOf(targetSent)
         /\ Asked' = Asked
         /\ FirstOf(clientSent) \in Seq(Byte) /\ FirstOf(targetSent) \in Seq(Byte)
         /\ clientGot \in Seq(Byte) /\ targetGot \in Seq(Byte)
         /\ \A d : /\ Buffered("local", d) \in Seq(Byte) /\ Buffered("server", d) \in Seq(Byte)
                   /\ Buffered("local", d)' \in Seq(Byte) /\ Buffered("server", d)' \in Seq(Byte)
<1>1. UNCHANGED <<script, held, replies, dialled, clientSent, targetSent, clientGot, targetGot>>
  BY DEF talk, counts
<1>2. TunnelTyped /\ Opening /\ DialledRight
  BY DEF TunnelInv
<1>3. DOMAIN nodePc = Node /\ "local" \in Node /\ "server" \in Node /\ DOMAIN nodePc' = Node
  BY <1>2 DEF TunnelTyped, Node
<1>4. nodePc'[n] = p /\ \A o \in Node : o # n => nodePc'[o] = nodePc[o]
  BY <1>3
<1>5. \A v \in {"none", "addr", "closed", "greeting", "request"} : v \notin Relays
  BY DEF Relays
<1>6. /\ nodePc'["local"] \in Relays <=> nodePc["local"] \in Relays
      /\ nodePc'["server"] \in Relays <=> nodePc["server"] \in Relays
      /\ \A v \in {"none", "addr", "closed", "greeting", "request"} :
            /\ nodePc'["server"] = v <=> nodePc["server"] = v
            /\ nodePc'["local"] = v <=> nodePc["local"] = v
  BY <1>3, <1>4, <1>5
<1>7. TunnelTyped'
  <2>1. DOMAIN up' = Hop /\ DOMAIN down' = Hop /\ nearEnd' = nearEnd /\ farEnd' = farEnd
    OBVIOUS
  <2>2. nodePc'["local"] \in {"greeting", "request", "closed"} \cup Relays
    BY <1>2, <1>3, <1>4 DEF TunnelTyped
  <2>3. nodePc'["server"] \in {"none", "addr", "closed"} \cup Relays
    BY <1>2, <1>3, <1>4 DEF TunnelTyped
  <2> QED
    BY <1>1, <1>2, <1>3, <2>1, <2>2, <2>3 DEF TunnelTyped, TunnelShape
<1>8. Opening'
  <2>1. nodePc["local"] \notin {"greeting", "request"}
    <3>1. Stages /\ n \in {"local", "server"}
      BY DEF TunnelInv, Node
    <3> QED
      BY <1>5, <3>1 DEF Stages
  <2> QED
    BY <1>1, <1>2, <1>6, <2>1 DEF Opening
<1>9. DialledRight' /\ Asked' = Asked
  BY <1>1, <1>2 DEF DialledRight, Asked
<1>10. /\ FirstOf(clientSent)' = FirstOf(clientSent) /\ FirstOf(targetSent)' = FirstOf(targetSent)
       /\ FirstOf(clientSent) \in Seq(Byte) /\ FirstOf(targetSent) \in Seq(Byte)
       /\ clientGot \in Seq(Byte) /\ targetGot \in Seq(Byte)
  BY <1>1, <1>2, PayloadGrows DEF FirstOf, TunnelTyped
<1>11. \A o \in Node : \A d : Buffered(o, d) \in Seq(Byte) /\ Buffered(o, d)' \in Seq(Byte)
  <2>1. \A o \in Node : \A d : Buffered(o, d) \in Seq(Byte)
    BY <1>2, InHand
  <2>2. \A o \in Node : sending'[o].bytes \in Seq(Byte) /\ <<>> \in Seq(Byte)
    OBVIOUS
  <2> QED
    BY <2>1, <2>2 DEF Buffered
<1>12. \A o \in Node : o # n => \A d : Buffered(o, d)' = Buffered(o, d)
  BY <1>4 DEF Buffered
<1> QED
  BY <1>1, <1>3, <1>4, <1>6, <1>7, <1>8, <1>9, <1>10, <1>11, <1>12

\* A thread waits for either side.
LEMMA TunnelSelectKeeps ==
  ASSUME TunnelInv, NEW n \in Node, RelaySelect(n)
  PROVE  TunnelInv'
<1>1. PICK p \in {"up", "down"} : nodePc' = [nodePc EXCEPT ![n] = p]
  BY DEF RelaySelect
<1>2. nodePc[n] = "select" /\ UNCHANGED <<sending, hops, talk, counts>>
  BY DEF RelaySelect
<1>3. UNCHANGED <<sending, up, down, nearEnd, farEnd>>
  BY <1>2 DEF hops
<1>4. /\ TunnelTyped /\ Stages /\ Addressed /\ UpRight /\ DownRight
      /\ sending \in [Node -> [on : {"up", "down"}, bytes : Seq(Byte)]]
      /\ up \in [Hop -> Seq(Byte)] /\ down \in [Hop -> Seq(Byte)]
  BY DEF TunnelInv, TunnelTyped
<1>5. p \in Relays /\ nodePc[n] \in Relays /\ p # "send"
  BY <1>2 DEF Relays
<1>6. /\ TunnelTyped' /\ Opening' /\ DialledRight'
      /\ nodePc'["local"] \in Relays <=> nodePc["local"] \in Relays
      /\ nodePc'["server"] \in Relays <=> nodePc["server"] \in Relays
      /\ \A o \in Node : o # n => nodePc'[o] = nodePc[o] /\ \A d : Buffered(o, d)' = Buffered(o, d)
      /\ nodePc'[n] = p
      /\ \A v \in {"none", "addr", "closed"} : nodePc'["server"] = v <=> nodePc["server"] = v
      /\ nodePc'["local"] = "closed" <=> nodePc["local"] = "closed"
      /\ UNCHANGED <<script, held, replies, dialled, clientSent, targetSent, clientGot, targetGot>>
  BY <1>1, <1>2, <1>3, <1>4, <1>5, RelayFrame
<1>7. \A o \in Node : \A d : Buffered(o, d)' = Buffered(o, d)
  <2>1. \A d : Buffered(n, d)' = Buffered(n, d)
    BY <1>2, <1>5, <1>6 DEF Buffered
  <2> QED
    BY <1>6, <2>1
<1>8. "local" \in Node /\ "server" \in Node
  BY DEF Node
<1>9. UpRight' /\ Addressed'
  BY <1>3, <1>4, <1>6, <1>7, <1>8, UpKeeps
<1>10. DownRight'
  BY <1>3, <1>4, <1>6, <1>7, <1>8, DownKeeps
<1>11. Stages'
  <2>1. nodePc["local"] \notin {"greeting", "request"} /\ nodePc'["local"] \notin {"greeting", "request"}
    <3>1. \A q \in {"none", "greeting", "request"} : q \notin Relays
      BY DEF Relays
    <3>2. n \in {"local", "server"}
      BY DEF Node
    <3> QED
      BY <1>4, <1>5, <1>6, <1>8, <3>1, <3>2 DEF Stages
  <2>2. nodePc'["local"] = "send" => nodePc["local"] = "send"
    BY <1>5, <1>6, <1>8
  <2> QED
    BY <1>3, <1>4, <1>6, <2>1, <2>2 DEF Stages
<1> QED
  BY <1>6, <1>9, <1>10, <1>11 DEF TunnelInv

\* The second thread of a direction sends, whether or not the receiver has closed.
LEMMA PipeSends ==
  ASSUME NEW all \in Seq(Byte), NEW got \in Seq(Byte), NEW a \in Seq(Byte), NEW b \in Seq(Byte),
         NEW c \in Seq(Byte), NEW d, NEW e, NEW end, NEW p, NEW q, p \in Relays,
         PipeRight(all, got, a, b, c, d, e, end, p, q), NEW p2,
         NEW a2 \in Seq(Byte), NEW b2 \in Seq(Byte), Cat(a2, b2) = Cat(a, b)
  PROVE  PipeRight(all, got, a2, b2, c, d, e, end, p2, q)
<1>1. CASE end = "closed"
  BY <1>1, PipeWeaker
<1>2. CASE end # "closed"
  BY <1>2, PipeNear
<1> QED
  BY <1>1, <1>2

\* It takes what is between the threads.
LEMMA PipeTakes ==
  ASSUME NEW all \in Seq(Byte), NEW got \in Seq(Byte), NEW a \in Seq(Byte), NEW b \in Seq(Byte),
         NEW c \in Seq(Byte), NEW d, NEW e, NEW end, NEW p, NEW q, p \in Relays,
         PipeRight(all, got, a, b, c, d, e, end, p, q), NEW p2,
         b = <<>>, NEW b2, b2 = decrypt(c)
  PROVE  PipeRight(all, got, a, b2, <<>>, d, e, end, p2, q)
<1>1. CASE end = "closed"
  BY <1>1, PipeWeaker
<1>2. CASE end # "closed"
  <2>1. b2 \in Seq(Byte) /\ <<>> \in Seq(Byte)
    BY CodeRight
  <2> QED
    BY <1>2, <2>1, PipeNear
<1> QED
  BY <1>1, <1>2

\* A step of a thread that moves bytes up: server.py sends some or takes what is between
\* the threads, local.py sends some or takes what the client has sent.
MovedUp(n) ==
    \/ /\ n = "server" /\ up'["cl"] = up["cl"]
       /\ \/ /\ up'["ls"] = up["ls"]
             /\ Cat(up'["st"], Buffered("server", "up")') = Cat(up["st"], Buffered("server", "up"))
          \/ /\ up'["st"] = up["st"] /\ Buffered("server", "up") = <<>>
             /\ Buffered("server", "up")' = decrypt(up["ls"]) /\ up'["ls"] = <<>>
    \/ /\ n = "local" /\ up'["st"] = up["st"]
       /\ \E x \in Seq(Byte) :
             /\ up'["ls"] = Cat(up["ls"], x)
             /\ \/ Buffered("local", "up") = Cat(x, Buffered("local", "up")') /\ up'["cl"] = up["cl"]
                \/ /\ x = <<>> /\ Buffered("local", "up") = <<>>
                   /\ Buffered("local", "up")' = encrypt(up["cl"]) /\ up'["cl"] = <<>>

\* The same for the way down.
MovedDown(n) ==
    \/ /\ n = "local" /\ down'["st"] = down["st"]
       /\ \/ /\ down'["ls"] = down["ls"]
             /\ Cat(down'["cl"], Buffered("local", "down")') = Cat(down["cl"], Buffered("local", "down"))
          \/ /\ down'["cl"] = down["cl"] /\ Buffered("local", "down") = <<>>
             /\ Buffered("local", "down")' = decrypt(down["ls"]) /\ down'["ls"] = <<>>
    \/ /\ n = "server" /\ down'["cl"] = down["cl"]
       /\ \E x \in Seq(Byte) :
             /\ down'["ls"] = Cat(down["ls"], x)
             /\ \/ Buffered("server", "down") = Cat(x, Buffered("server", "down")') /\ down'["st"] = down["st"]
                \/ /\ x = <<>> /\ Buffered("server", "down") = <<>>
                   /\ Buffered("server", "down")' = encrypt(down["st"]) /\ down'["st"] = <<>>

\* A step of a thread that moves bytes on their way up.
LEMMA UpMoves ==
  ASSUME TunnelInv, NEW n \in Node, nodePc[n] \in Relays, NEW p \in Relays,
         nodePc' = [nodePc EXCEPT ![n] = p],
         sending' \in [Node -> [on : {"up", "down"}, bytes : Seq(Byte)]],
         \A o \in Node : o # n => sending'[o] = sending[o],
         up' \in [Hop -> Seq(Byte)], down' = down,
         UNCHANGED <<nearEnd, farEnd, talk, counts>>,
         Buffered(n, "down")' = Buffered(n, "down"), p = "send" => sending'[n].on = "up",
         MovedUp(n)
  PROVE  TunnelInv'
<1>1. /\ TunnelTyped /\ Stages /\ Addressed /\ UpRight /\ DownRight
      /\ up \in [Hop -> Seq(Byte)] /\ down \in [Hop -> Seq(Byte)]
  BY DEF TunnelInv, TunnelTyped
<1>2. down' \in [Hop -> Seq(Byte)] /\ nearEnd' = nearEnd /\ farEnd' = farEnd
  BY <1>1
<1>3. /\ TunnelTyped' /\ Opening' /\ DialledRight'
      /\ nodePc'["local"] \in Relays <=> nodePc["local"] \in Relays
      /\ nodePc'["server"] \in Relays <=> nodePc["server"] \in Relays
      /\ \A o \in Node : o # n => nodePc'[o] = nodePc[o] /\ \A d : Buffered(o, d)' = Buffered(o, d)
      /\ nodePc'[n] = p
      /\ \A v \in {"none", "addr", "closed"} : nodePc'["server"] = v <=> nodePc["server"] = v
      /\ nodePc'["local"] = "closed" <=> nodePc["local"] = "closed"
      /\ UNCHANGED <<script, held, replies, dialled, clientSent, targetSent, clientGot, targetGot>>
      /\ FirstOf(clientSent)' = FirstOf(clientSent) /\ Asked' = Asked
      /\ FirstOf(clientSent) \in Seq(Byte) /\ targetGot \in Seq(Byte)
      /\ \A d : /\ Buffered("local", d) \in Seq(Byte) /\ Buffered("server", d) \in Seq(Byte)
                /\ Buffered("local", d)' \in Seq(Byte) /\ Buffered("server", d)' \in Seq(Byte)
  BY <1>2, RelayFrame
<1>4. /\ "local" \in Node /\ "server" \in Node /\ n \in {"local", "server"}
      /\ "cl" \in Hop /\ "ls" \in Hop /\ "st" \in Hop
  BY DEF Node, Hop
<1>5. DownRight'
  <2>1. Buffered("local", "down")' = Buffered("local", "down") /\ Buffered("server", "down")' = Buffered("server", "down")
    BY <1>3, <1>4
  <2> QED
    BY <1>1, <1>2, <1>3, <2>1, DownKeeps
<1>6. \A v \in {"none", "addr", "greeting", "request"} : v \notin Relays
  BY DEF Relays
<1>7. Stages'
  <2>1. nodePc["local"] \notin {"greeting", "request"} /\ nodePc'["local"] \notin {"greeting", "request"}
    BY <1>1, <1>3, <1>4, <1>6 DEF Stages
  <2>2. nodePc["server"] \in {"none", "addr"} => n = "local"
    BY <1>4, <1>6
  <2>3. n = "local" => up'["st"] = up["st"]
    BY DEF MovedUp
  <2> QED
    BY <1>1, <1>2, <1>3, <2>1, <2>2, <2>3 DEF Stages
<1>8. CASE n = "server"
  <2>1. UpRight'
    <3> SUFFICES ASSUME dialled = Asked
                 PROVE  PipeRight(FirstOf(clientSent), targetGot, up'["st"], Buffered("server", "up")', up'["ls"],
                                  Buffered("local", "up"), up["cl"], farEnd["st"], p, nodePc["local"])
      BY <1>2, <1>3, <1>4, <1>8 DEF UpRight, MovedUp
    <3>1. PipeRight(FirstOf(clientSent), targetGot, up["st"], Buffered("server", "up"), up["ls"],
                    Buffered("local", "up"), up["cl"], farEnd["st"], nodePc["server"], nodePc["local"])
      BY <1>1 DEF UpRight
    <3>2. up["st"] \in Seq(Byte) /\ up["ls"] \in Seq(Byte) /\ up'["st"] \in Seq(Byte) /\ up'["ls"] \in Seq(Byte)
      BY <1>1, <1>4
    <3>3. \/ up'["ls"] = up["ls"] /\ Cat(up'["st"], Buffered("server", "up")') = Cat(up["st"], Buffered("server", "up"))
          \/ /\ up'["st"] = up["st"] /\ Buffered("server", "up") = <<>>
             /\ Buffered("server", "up")' = decrypt(up["ls"]) /\ up'["ls"] = <<>>
      BY <1>8 DEF MovedUp
    <3>4. /\ Buffered("server", "up") \in Seq(Byte) /\ Buffered("server", "up")' \in Seq(Byte)
          /\ FirstOf(clientSent) \in Seq(Byte) /\ targetGot \in Seq(Byte) /\ nodePc["server"] \in Relays
      BY <1>3, <1>8
    <3>5. PICK all \in Seq(Byte), got \in Seq(Byte), a \in Seq(Byte), b \in Seq(Byte), c \in Seq(Byte),
               a2 \in Seq(Byte), b2 \in Seq(Byte), c2 \in Seq(Byte) :
            /\ all = FirstOf(clientSent) /\ got = targetGot
            /\ a = up["st"] /\ b = Buffered("server", "up") /\ c = up["ls"]
            /\ a2 = up'["st"] /\ b2 = Buffered("server", "up")' /\ c2 = up'["ls"]
      BY <3>2, <3>4
    <3>6. PipeRight(all, got, a, b, c, Buffered("local", "up"), up["cl"], farEnd["st"],
                    nodePc["server"], nodePc["local"])
      BY <3>1, <3>5
    <3>7. (c2 = c /\ Cat(a2, b2) = Cat(a, b)) \/ (a2 = a /\ b = <<>> /\ b2 = decrypt(c) /\ c2 = <<>>)
      BY <3>3, <3>5
    <3>8. PipeRight(all, got, a2, b2, c2, Buffered("local", "up"), up["cl"], farEnd["st"],
                    p, nodePc["local"])
      <4>1. CASE c2 = c /\ Cat(a2, b2) = Cat(a, b)
        <5>1. Cat(a2, b2) = Cat(a, b)
          BY <4>1
        <5>2. PipeRight(all, got, a2, b2, c, Buffered("local", "up"), up["cl"], farEnd["st"], p, nodePc["local"])
          BY ONLY <3>4, <3>5, <3>6, <5>1, PipeSends
        <5> QED
          BY <4>1, <5>2
      <4>2. CASE a2 = a /\ b = <<>> /\ b2 = decrypt(c) /\ c2 = <<>>
        BY ONLY <3>4, <3>5, <3>6, <4>2, PipeTakes
      <4> QED
        BY <3>7, <4>1, <4>2
    <3> QED
      BY <3>5, <3>8
  <2>2. Addressed'
    BY <1>3, <1>6, <1>8 DEF Addressed
  <2> QED
    BY <1>3, <1>5, <1>7, <2>1, <2>2 DEF TunnelInv
<1>9. CASE n = "local"
  <2>1. PICK x \in Seq(Byte) :
          /\ up'["ls"] = Cat(up["ls"], x)
          /\ \/ Buffered("local", "up") = Cat(x, Buffered("local", "up")') /\ up'["cl"] = up["cl"]
             \/ /\ x = <<>> /\ Buffered("local", "up") = <<>>
                /\ Buffered("local", "up")' = encrypt(up["cl"]) /\ up'["cl"] = <<>>
    BY <1>9 DEF MovedUp
  <2>2. up["cl"] \in Seq(Byte) /\ up["ls"] \in Seq(Byte) /\ up'["cl"] \in Seq(Byte) /\ up'["st"] = up["st"]
    BY <1>1, <1>4, <1>9 DEF MovedUp
  <2>3. Buffered("local", "up") \in Seq(Byte) /\ Buffered("local", "up")' \in Seq(Byte) /\ nodePc["local"] \in Relays
    BY <1>3, <1>9
  <2>4. /\ nodePc'["server"] = nodePc["server"] /\ nodePc'["local"] = p
        /\ Buffered("server", "up")' = Buffered("server", "up")
    BY <1>3, <1>4, <1>9
  <2>5. UpRight'
    <3> SUFFICES ASSUME dialled = Asked
                 PROVE  PipeRight(FirstOf(clientSent), targetGot, up["st"], Buffered("server", "up"),
                                  Cat(up["ls"], x), Buffered("local", "up")', up'["cl"], farEnd["st"],
                                  nodePc["server"], p)
      BY <1>2, <1>3, <2>1, <2>2, <2>4 DEF UpRight
    <3>1. PipeRight(FirstOf(clientSent), targetGot, up["st"], Buffered("server", "up"), up["ls"],
                    Buffered("local", "up"), up["cl"], farEnd["st"], nodePc["server"], nodePc["local"])
      BY <1>1 DEF UpRight
    <3> QED
      BY <2>1, <2>2, <2>3, <3>1, PipeFar
  <2>6. Addressed'
    <3> SUFFICES ASSUME nodePc["server"] = "addr" PROVE \E m, y \in Seq(Byte) :
          /\ up'["ls"] = Cat(m, y) /\ IsAddress(decrypt(m))
          /\ decrypt(m) \in DialsOf(script)
          /\ decrypt(m) = Asked =>
                 PipeRight(FirstOf(clientSent), <<>>, <<>>, <<>>, y, Buffered("local", "up")', up'["cl"],
                           "open", "select", p)
      BY <1>3, <2>4 DEF Addressed
    <3>1. PICK m \in Seq(Byte), y \in Seq(Byte) :
          /\ up["ls"] = Cat(m, y) /\ IsAddress(decrypt(m))
          /\ decrypt(m) \in DialsOf(script)
          /\ decrypt(m) = Asked =>
                 PipeRight(FirstOf(clientSent), <<>>, <<>>, <<>>, y, Buffered("local", "up"), up["cl"],
                           "open", "select", nodePc["local"])
      BY <1>1 DEF Addressed
    <3>2. up'["ls"] = Cat(m, Cat(y, x)) /\ Cat(y, x) \in Seq(Byte)
      BY <2>1, <3>1, CatAssoc, CatIn
    <3>3. decrypt(m) = Asked =>
                 PipeRight(FirstOf(clientSent), <<>>, <<>>, <<>>, Cat(y, x), Buffered("local", "up")', up'["cl"],
                           "open", "select", p)
      BY <2>1, <2>2, <2>3, <3>1, PipeFar
    <3> QED
      BY <3>1, <3>2, <3>3
  <2> QED
    BY <1>3, <1>5, <1>7, <2>5, <2>6 DEF TunnelInv
<1> QED
  BY <1>4, <1>8, <1>9

\* A step of a thread that moves bytes on their way down.
LEMMA DownMoves ==
  ASSUME TunnelInv, NEW n \in Node, nodePc[n] \in Relays, NEW p \in Relays,
         nodePc["server"] \notin {"none", "addr"},
         nodePc' = [nodePc EXCEPT ![n] = p],
         sending' \in [Node -> [on : {"up", "down"}, bytes : Seq(Byte)]],
         \A o \in Node : o # n => sending'[o] = sending[o],
         down' \in [Hop -> Seq(Byte)], up' = up,
         UNCHANGED <<nearEnd, farEnd, talk, counts>>,
         Buffered(n, "up")' = Buffered(n, "up"),
         MovedDown(n)
  PROVE  TunnelInv'
<1>1. /\ TunnelTyped /\ Stages /\ Addressed /\ UpRight /\ DownRight
      /\ up \in [Hop -> Seq(Byte)] /\ down \in [Hop -> Seq(Byte)]
  BY DEF TunnelInv, TunnelTyped
<1>2. up' \in [Hop -> Seq(Byte)] /\ nearEnd' = nearEnd /\ farEnd' = farEnd
  BY <1>1
<1>3. /\ TunnelTyped' /\ Opening' /\ DialledRight'
      /\ nodePc'["local"] \in Relays <=> nodePc["local"] \in Relays
      /\ nodePc'["server"] \in Relays <=> nodePc["server"] \in Relays
      /\ \A o \in Node : o # n => nodePc'[o] = nodePc[o] /\ \A d : Buffered(o, d)' = Buffered(o, d)
      /\ nodePc'[n] = p
      /\ \A v \in {"none", "addr", "closed"} : nodePc'["server"] = v <=> nodePc["server"] = v
      /\ nodePc'["local"] = "closed" <=> nodePc["local"] = "closed"
      /\ UNCHANGED <<script, held, replies, dialled, clientSent, targetSent, clientGot, targetGot>>
      /\ FirstOf(targetSent)' = FirstOf(targetSent)
      /\ FirstOf(targetSent) \in Seq(Byte) /\ clientGot \in Seq(Byte)
      /\ \A d : /\ Buffered("local", d) \in Seq(Byte) /\ Buffered("server", d) \in Seq(Byte)
                /\ Buffered("local", d)' \in Seq(Byte) /\ Buffered("server", d)' \in Seq(Byte)
  BY <1>2, RelayFrame
<1>4. /\ "local" \in Node /\ "server" \in Node /\ n \in {"local", "server"}
      /\ "cl" \in Hop /\ "ls" \in Hop /\ "st" \in Hop
  BY DEF Node, Hop
<1>5. UpRight' /\ Addressed'
  <2>1. Buffered("local", "up")' = Buffered("local", "up") /\ Buffered("server", "up")' = Buffered("server", "up")
    BY <1>3, <1>4
  <2> QED
    BY <1>1, <1>2, <1>3, <2>1, UpKeeps
<1>6. \A v \in {"none", "addr", "greeting", "request"} : v \notin Relays
  BY DEF Relays
<1>7. Stages'
  <2>1. nodePc["local"] \notin {"greeting", "request"} /\ nodePc'["local"] \notin {"greeting", "request"}
    BY <1>1, <1>3, <1>4, <1>6 DEF Stages
  <2> QED
    BY <1>1, <1>2, <1>3, <2>1 DEF Stages
<1>8. /\ PipeRight(FirstOf(targetSent), clientGot, down["cl"], Buffered("local", "down"), down["ls"],
                   Buffered("server", "down"), down["st"], nearEnd["cl"], nodePc["local"], nodePc["server"])
      /\ down["cl"] \in Seq(Byte) /\ down["ls"] \in Seq(Byte) /\ down["st"] \in Seq(Byte)
      /\ down'["cl"] \in Seq(Byte) /\ down'["ls"] \in Seq(Byte) /\ down'["st"] \in Seq(Byte)
  BY <1>1, <1>4 DEF DownRight
<1>9. CASE n = "local"
  <2>1. \/ down'["ls"] = down["ls"] /\ Cat(down'["cl"], Buffered("local", "down")') = Cat(down["cl"], Buffered("local", "down"))
        \/ /\ down'["cl"] = down["cl"] /\ Buffered("local", "down") = <<>>
           /\ Buffered("local", "down")' = decrypt(down["ls"]) /\ down'["ls"] = <<>>
    BY <1>9 DEF MovedDown
  <2>2. Buffered("local", "down") \in Seq(Byte) /\ Buffered("local", "down")' \in Seq(Byte) /\ nodePc["local"] \in Relays
    BY <1>3, <1>9
  <2>3. PipeRight(FirstOf(targetSent), clientGot, down'["cl"], Buffered("local", "down")', down'["ls"],
                  Buffered("server", "down"), down["st"], nearEnd["cl"], p, nodePc["server"])
    <3>1. PICK all \in Seq(Byte), got \in Seq(Byte), a \in Seq(Byte), b \in Seq(Byte), c \in Seq(Byte),
               a2 \in Seq(Byte), b2 \in Seq(Byte), c2 \in Seq(Byte) :
            /\ all = FirstOf(targetSent) /\ got = clientGot
            /\ a = down["cl"] /\ b = Buffered("local", "down") /\ c = down["ls"]
            /\ a2 = down'["cl"] /\ b2 = Buffered("local", "down")' /\ c2 = down'["ls"]
      BY <1>3, <1>8, <2>2
    <3>2. PipeRight(all, got, a, b, c, Buffered("server", "down"), down["st"], nearEnd["cl"],
                    nodePc["local"], nodePc["server"])
      BY <1>8, <3>1
    <3>3. (c2 = c /\ Cat(a2, b2) = Cat(a, b)) \/ (a2 = a /\ b = <<>> /\ b2 = decrypt(c) /\ c2 = <<>>)
      BY <2>1, <3>1
    <3>4. PipeRight(all, got, a2, b2, c2, Buffered("server", "down"), down["st"], nearEnd["cl"],
                    p, nodePc["server"])
      <4>1. CASE c2 = c /\ Cat(a2, b2) = Cat(a, b)
        <5>1. Cat(a2, b2) = Cat(a, b)
          BY <4>1
        <5>2. PipeRight(all, got, a2, b2, c, Buffered("server", "down"), down["st"], nearEnd["cl"], p, nodePc["server"])
          BY ONLY <2>2, <3>1, <3>2, <5>1, PipeSends
        <5> QED
          BY <4>1, <5>2
      <4>2. CASE a2 = a /\ b = <<>> /\ b2 = decrypt(c) /\ c2 = <<>>
        BY ONLY <2>2, <3>1, <3>2, <4>2, PipeTakes
      <4> QED
        BY <3>3, <4>1, <4>2
    <3> QED
      BY <3>1, <3>4
  <2>4. /\ nodePc'["server"] = nodePc["server"] /\ nodePc'["local"] = p /\ down'["st"] = down["st"]
        /\ Buffered("server", "down")' = Buffered("server", "down")
    BY <1>3, <1>4, <1>9 DEF MovedDown
  <2>5. DownRight'
    BY <1>2, <1>3, <2>3, <2>4 DEF DownRight
  <2> QED
    BY <1>3, <1>5, <1>7, <2>5 DEF TunnelInv
<1>10. CASE n = "server"
  <2>1. PICK x \in Seq(Byte) :
          /\ down'["ls"] = Cat(down["ls"], x)
          /\ \/ Buffered("server", "down") = Cat(x, Buffered("server", "down")') /\ down'["st"] = down["st"]
             \/ /\ x = <<>> /\ Buffered("server", "down") = <<>>
                /\ Buffered("server", "down")' = encrypt(down["st"]) /\ down'["st"] = <<>>
    BY <1>10 DEF MovedDown
  <2>2. Buffered("server", "down") \in Seq(Byte) /\ Buffered("server", "down")' \in Seq(Byte) /\ nodePc["server"] \in Relays
    BY <1>3, <1>10
  <2>3. /\ nodePc'["local"] = nodePc["local"] /\ nodePc'["server"] = p /\ down'["cl"] = down["cl"]
        /\ Buffered("local", "down")' = Buffered("local", "down")
    BY <1>3, <1>4, <1>10 DEF MovedDown
  <2>4. PipeRight(FirstOf(targetSent), clientGot, down["cl"], Buffered("local", "down"), Cat(down["ls"], x),
                  Buffered("server", "down")', down'["st"], nearEnd["cl"], nodePc["local"], p)
    BY <1>8, <2>1, <2>2, PipeFar
  <2>5. DownRight'
    BY <1>2, <1>3, <2>1, <2>3, <2>4 DEF DownRight
  <2> QED
    BY <1>3, <1>5, <1>7, <2>5 DEF TunnelInv
<1> QED
  BY <1>4, <1>9, <1>10

\* What a thread has received it holds until it has sent it.
LEMMA TunnelRecvKeeps ==
  ASSUME TunnelInv, NEW n \in Node, NEW d \in {"up", "down"}, RelayRecv(n, d)
  PROVE  TunnelInv'
<1>1. PICK in : in = IF d = "up" THEN up[Near(n)] ELSE down[Far(n)]
  OBVIOUS
<1>2. nodePc[n] = d /\ UNCHANGED <<talk, counts>>
  BY DEF RelayRecv
<1>3. /\ TunnelTyped /\ Stages /\ up \in [Hop -> Seq(Byte)] /\ down \in [Hop -> Seq(Byte)]
      /\ sending \in [Node -> [on : {"up", "down"}, bytes : Seq(Byte)]]
      /\ DOMAIN nodePc = Node
  BY DEF TunnelInv, TunnelTyped
<1>4. CASE in = <<>>
  <2>1. Closes(n)
    BY <1>1, <1>4 DEF RelayRecv
  <2>2. UNCHANGED <<script, held, dialled, counts>> /\ replies' = replies
    BY <1>2 DEF talk
  <2>3. n = "server" => nodePc["server"] # "none"
    BY <1>2
  <2> QED
    BY <2>1, <2>2, <2>3, ClosingKeeps
<1>5. CASE in # <<>>
  <2>1. PICK b : b = Convert(n, d, in)
    OBVIOUS
  <2>2. /\ sending' = [sending EXCEPT ![n] = [on |-> d, bytes |-> b]]
        /\ nodePc' = [nodePc EXCEPT ![n] = "send"]
        /\ IF d = "up" THEN up' = [up EXCEPT ![Near(n)] = <<>>] /\ UNCHANGED down
           ELSE down' = [down EXCEPT ![Far(n)] = <<>>] /\ UNCHANGED up
        /\ UNCHANGED <<nearEnd, farEnd, talk, counts>>
    BY <1>1, <1>2, <1>5, <2>1 DEF RelayRecv
  <2>3. /\ Near(n) \in Hop /\ Far(n) \in Hop /\ "cl" \in Hop /\ "ls" \in Hop /\ "st" \in Hop
        /\ n \in {"local", "server"} /\ "send" \in Relays /\ d \in Relays /\ d # "send"
    BY DEF Near, Far, Hop, Node, Relays
  <2>4. in \in Seq(Byte) /\ b \in Seq(Byte)
    <3>1. in \in Seq(Byte)
      BY <1>1, <1>3, <2>3
    <3> QED
      BY <2>1, <3>1, CodeRight DEF Convert
  <2>5. /\ sending' \in [Node -> [on : {"up", "down"}, bytes : Seq(Byte)]]
        /\ sending'[n].on = d /\ sending'[n].bytes = b /\ nodePc'[n] = "send"
        /\ \A o \in Node : o # n => sending'[o] = sending[o]
    BY <1>3, <2>2, <2>4
  <2>6. /\ \A e : Buffered(n, e) = <<>> /\ (e # d => Buffered(n, e)' = <<>>)
        /\ Buffered(n, d)' = b
    BY <1>2, <2>3, <2>5 DEF Buffered
  <2>9. /\ nodePc[n] \in Relays /\ "send" \in Relays
        /\ nodePc' = [nodePc EXCEPT ![n] = "send"]
        /\ sending' \in [Node -> [on : {"up", "down"}, bytes : Seq(Byte)]] /\ sending'[n].on = d
        /\ \A o \in Node : o # n => sending'[o] = sending[o]
        /\ UNCHANGED <<nearEnd, farEnd, talk, counts>>
    BY <1>2, <2>2, <2>3, <2>5
  <2>7. CASE d = "up"
    <3>1. down' = down /\ up' = [up EXCEPT ![Near(n)] = <<>>] /\ in = up[Near(n)]
      BY <1>1, <2>2, <2>7
    <3>2. up' \in [Hop -> Seq(Byte)] /\ up'[Near(n)] = <<>> /\ \A h \in Hop : h # Near(n) => up'[h] = up[h]
      <4>1. <<>> \in Seq(Byte)
        OBVIOUS
      <4> QED
        BY <1>3, <2>3, <3>1, <4>1
    <3>3. Buffered(n, "down")' = Buffered(n, "down") /\ Buffered(n, "up") = <<>> /\ Buffered(n, "up")' = b
      BY <2>6, <2>7
    <3>4. CASE n = "server"
      <4>1. /\ b = decrypt(up["ls"]) /\ up'["ls"] = <<>> /\ up'["st"] = up["st"] /\ up'["cl"] = up["cl"]
        BY <2>1, <2>3, <2>7, <3>1, <3>2, <3>4 DEF Convert, Near
      <4>2. MovedUp(n)
        BY <3>3, <3>4, <4>1 DEF MovedUp
      <4> QED
        BY <2>7, <2>9, <3>1, <3>2, <3>3, <4>2, UpMoves
    <3>5. CASE n = "local"
      <4>1. /\ b = encrypt(up["cl"]) /\ up'["cl"] = <<>> /\ up'["st"] = up["st"] /\ up'["ls"] = up["ls"]
        BY <2>1, <2>3, <2>7, <3>1, <3>2, <3>5 DEF Convert, Near
      <4>2. up["ls"] \in Seq(Byte) /\ <<>> \in Seq(Byte)
        BY <1>3, <2>3
      <4>3. Cat(up["ls"], <<>>) = up["ls"]
        BY <4>2, CatIn
      <4>4. PICK x \in Seq(Byte) : x = <<>>
        BY <4>2
      <4>5. MovedUp(n)
        BY <3>3, <3>5, <4>1, <4>3, <4>4 DEF MovedUp
      <4> QED
        BY <2>7, <2>9, <3>1, <3>2, <3>3, <4>5, UpMoves
    <3> QED
      BY <2>3, <3>4, <3>5
  <2>8. CASE d = "down"
    <3>1. up' = up /\ down' = [down EXCEPT ![Far(n)] = <<>>] /\ in = down[Far(n)]
      BY <1>1, <2>2, <2>8
    <3>2. down' \in [Hop -> Seq(Byte)] /\ down'[Far(n)] = <<>> /\ \A h \in Hop : h # Far(n) => down'[h] = down[h]
      <4>1. <<>> \in Seq(Byte)
        OBVIOUS
      <4> QED
        BY <1>3, <2>3, <3>1, <4>1
    <3>3. Buffered(n, "up")' = Buffered(n, "up") /\ Buffered(n, "down") = <<>> /\ Buffered(n, "down")' = b
      BY <2>6, <2>8
    <3>4. nodePc["server"] \notin {"none", "addr"}
      BY <1>3, <1>5, <2>3, <3>1 DEF Stages
    <3>5. CASE n = "local"
      <4>1. /\ b = decrypt(down["ls"]) /\ down'["ls"] = <<>> /\ down'["st"] = down["st"] /\ down'["cl"] = down["cl"]
        BY <2>1, <2>3, <2>8, <3>1, <3>2, <3>5 DEF Convert, Far
      <4>2. MovedDown(n)
        BY <3>3, <3>5, <4>1 DEF MovedDown
      <4> QED
        BY <2>9, <3>1, <3>2, <3>3, <3>4, <4>2, DownMoves
    <3>6. CASE n = "server"
      <4>1. /\ b = encrypt(down["st"]) /\ down'["st"] = <<>> /\ down'["cl"] = down["cl"] /\ down'["ls"] = down["ls"]
        BY <2>1, <2>3, <2>8, <3>1, <3>2, <3>6 DEF Convert, Far
      <4>2. down["ls"] \in Seq(Byte) /\ <<>> \in Seq(Byte)
        BY <1>3, <2>3
      <4>3. Cat(down["ls"], <<>>) = down["ls"]
        BY <4>2, CatIn
      <4>4. PICK x \in Seq(Byte) : x = <<>>
        BY <4>2
      <4>5. MovedDown(n)
        BY <3>3, <3>6, <4>1, <4>3, <4>4 DEF MovedDown
      <4> QED
        BY <2>9, <3>1, <3>2, <3>3, <3>4, <4>5, DownMoves
    <3> QED
      BY <2>3, <3>5, <3>6
  <2> QED
    BY <2>7, <2>8
<1> QED
  BY <1>4, <1>5

\* What there is room for goes out, the rest stays in hand.
LEMMA TunnelSendKeeps ==
  ASSUME TunnelInv, NEW n \in Node, RelaySend(n)
  PROVE  TunnelInv'
<1>1. PICK d, h, s, k : /\ d = sending[n].on /\ h = OutHop(n, d) /\ s = sending[n].bytes
                        /\ k = IF Len(s) < Room(h, d) THEN Len(s) ELSE Room(h, d)
  OBVIOUS
<1>2. PICK x, r, p : /\ x = SubSeq(s, 1, k) /\ r = SubSeq(s, k + 1, Len(s))
                     /\ p = IF k = Len(s) THEN AfterSend(n, d) ELSE "send"
  OBVIOUS
<1>3. /\ nodePc[n] = "send" /\ Room(h, d) > 0
      /\ IF d = "up" THEN up' = [up EXCEPT ![h] = up[h] \o x] /\ UNCHANGED down
         ELSE down' = [down EXCEPT ![h] = down[h] \o x] /\ UNCHANGED up
      /\ sending' = [sending EXCEPT ![n].bytes = r]
      /\ nodePc' = [nodePc EXCEPT ![n] = p]
      /\ UNCHANGED <<nearEnd, farEnd, talk, counts>>
  BY <1>1, <1>2 DEF RelaySend
<1>4. /\ TunnelTyped /\ Stages /\ up \in [Hop -> Seq(Byte)] /\ down \in [Hop -> Seq(Byte)]
      /\ sending \in [Node -> [on : {"up", "down"}, bytes : Seq(Byte)]] /\ DOMAIN nodePc = Node
  BY DEF TunnelInv, TunnelTyped
<1>5. /\ h \in Hop /\ "cl" \in Hop /\ "ls" \in Hop /\ "st" \in Hop /\ n \in {"local", "server"}
      /\ "send" \in Relays /\ d \in {"up", "down"} /\ s \in Seq(Byte)
  <2>1. d \in {"up", "down"} /\ s \in Seq(Byte)
    BY <1>1, <1>4, InHand
  <2> QED
    BY <1>1, <2>1 DEF OutHop, Near, Far, Hop, Node, Relays
<1>6. k \in 0 .. Len(s)
  <2>1. Len(s) \in Nat /\ Len(up[h]) \in Nat /\ Len(down[h]) \in Nat /\ TunnelBuf \in Nat
    BY <1>4, <1>5, LenProperties, TalksAssumption
  <2>2. Room(h, d) \in Int
    BY <2>1 DEF Room
  <2> QED
    BY <1>1, <1>3, <2>1, <2>2
<1>7. x \in Seq(Byte) /\ r \in Seq(Byte) /\ Cat(x, r) = s
  BY <1>2, <1>5, <1>6, TwoParts DEF Cat
<1>8. k = Len(s) => r = <<>>
  <2>1. Len(s) \in Int /\ Len(s) < Len(s) + 1
    BY <1>5, LenProperties
  <2> QED
    BY <1>2, <2>1, SubSeqEmpty
<1>9. p \in Relays /\ (p # "send" => r = <<>>)
  BY <1>2, <1>8 DEF AfterSend, Relays
<1>10. /\ sending' \in [Node -> [on : {"up", "down"}, bytes : Seq(Byte)]]
       /\ sending'[n].on = d /\ sending'[n].bytes = r /\ nodePc'[n] = p
       /\ \A o \in Node : o # n => sending'[o] = sending[o]
  BY <1>1, <1>3, <1>4, <1>7
<1>11. /\ \A e : e # d => Buffered(n, e)' = Buffered(n, e)
       /\ Buffered(n, d) = s /\ Buffered(n, d)' = r
  BY <1>1, <1>3, <1>9, <1>10 DEF Buffered
<1>12. /\ nodePc[n] \in Relays /\ nodePc' = [nodePc EXCEPT ![n] = p] /\ p \in Relays
       /\ UNCHANGED <<nearEnd, farEnd, talk, counts>>
  BY <1>3, <1>5, <1>9
<1>13. CASE d = "up"
  <2>1. down' = down /\ up' = [up EXCEPT ![h] = Cat(up[h], x)]
    BY <1>3, <1>13 DEF Cat
  <2>2. up' \in [Hop -> Seq(Byte)] /\ up'[h] = Cat(up[h], x) /\ \A g \in Hop : g # h => up'[g] = up[g]
    <3>1. Cat(up[h], x) \in Seq(Byte)
      BY <1>4, <1>5, <1>7, CatIn
    <3> QED
      BY <1>4, <1>5, <2>1, <3>1
  <2>3. Buffered(n, "down")' = Buffered(n, "down") /\ Buffered(n, "up") = s /\ Buffered(n, "up")' = r
    BY <1>11, <1>13
  <2>4. CASE n = "server"
    <3>1. h = "st"
      BY <1>1, <1>13, <2>4 DEF OutHop, Far
    <3>2. up'["ls"] = up["ls"] /\ up'["cl"] = up["cl"] /\ up'["st"] = Cat(up["st"], x) /\ up["st"] \in Seq(Byte)
      BY <1>4, <1>5, <2>2, <3>1
    <3>3. Cat(up'["st"], r) = Cat(up["st"], s)
      BY <1>7, <3>2, CatAssoc
    <3>4. MovedUp(n)
      BY <2>3, <2>4, <3>2, <3>3 DEF MovedUp
    <3> QED
      BY <1>10, <1>12, <1>13, <2>1, <2>2, <2>3, <3>4, UpMoves
  <2>5. CASE n = "local"
    <3>1. h = "ls"
      BY <1>1, <1>13, <2>5 DEF OutHop, Far
    <3>2. up'["ls"] = Cat(up["ls"], x) /\ up'["cl"] = up["cl"] /\ up'["st"] = up["st"]
      BY <1>5, <2>2, <3>1
    <3>3. MovedUp(n)
      BY <1>7, <2>3, <2>5, <3>2 DEF MovedUp
    <3> QED
      BY <1>10, <1>12, <1>13, <2>1, <2>2, <2>3, <3>3, UpMoves
  <2> QED
    BY <1>5, <2>4, <2>5
<1>14. CASE d = "down"
  <2>1. up' = up /\ down' = [down EXCEPT ![h] = Cat(down[h], x)]
    BY <1>3, <1>14 DEF Cat
  <2>2. down' \in [Hop -> Seq(Byte)] /\ down'[h] = Cat(down[h], x) /\ \A g \in Hop : g # h => down'[g] = down[g]
    <3>1. Cat(down[h], x) \in Seq(Byte)
      BY <1>4, <1>5, <1>7, CatIn
    <3> QED
      BY <1>4, <1>5, <2>1, <3>1
  <2>3. Buffered(n, "up")' = Buffered(n, "up") /\ Buffered(n, "down") = s /\ Buffered(n, "down")' = r
    BY <1>11, <1>14
  <2>4. nodePc["server"] \notin {"none", "addr"}
    BY <1>1, <1>3, <1>4, <1>5, <1>14 DEF Stages
  <2>5. CASE n = "local"
    <3>1. h = "cl"
      BY <1>1, <1>14, <2>5 DEF OutHop, Near
    <3>2. down'["ls"] = down["ls"] /\ down'["st"] = down["st"] /\ down'["cl"] = Cat(down["cl"], x) /\ down["cl"] \in Seq(Byte)
      BY <1>4, <1>5, <2>2, <3>1
    <3>3. Cat(down'["cl"], r) = Cat(down["cl"], s)
      BY <1>7, <3>2, CatAssoc
    <3>4. MovedDown(n)
      BY <2>3, <2>5, <3>2, <3>3 DEF MovedDown
    <3> QED
      BY <1>10, <1>12, <2>1, <2>2, <2>3, <2>4, <3>4, DownMoves
  <2>6. CASE n = "server"
    <3>1. h = "ls"
      BY <1>1, <1>14, <2>6 DEF OutHop, Near
    <3>2. down'["ls"] = Cat(down["ls"], x) /\ down'["cl"] = down["cl"] /\ down'["st"] = down["st"]
      BY <1>5, <2>2, <3>1
    <3>3. MovedDown(n)
      BY <1>7, <2>3, <2>6, <3>2 DEF MovedDown
    <3> QED
      BY <1>10, <1>12, <2>1, <2>2, <2>3, <2>4, <3>3, DownMoves
  <2> QED
    BY <1>5, <2>5, <2>6
<1> QED
  BY <1>5, <1>13, <1>14

\* What is lost is lost to somebody who has closed.
LEMMA TunnelLostKeeps ==
  ASSUME TunnelInv, NEW n \in Node, RelaySendLost(n)
  PROVE  TunnelInv'
<1>1. PICK d : d = sending[n].on
  OBVIOUS
<1>2. nodePc[n] = "send" /\ Receiver(n, d) = "closed" /\ UNCHANGED <<talk, counts>>
  BY <1>1 DEF RelaySendLost
<1>3. CASE Closes(n)
  <2>1. UNCHANGED <<script, held, dialled, counts>> /\ replies' = replies
    BY <1>2 DEF talk
  <2>2. n = "server" => nodePc["server"] # "none"
    BY <1>2
  <2> QED
    BY <1>3, <2>1, <2>2, ClosingKeeps
<1>4. CASE ~Closes(n)
  <2>1. PICK p : p = AfterSend(n, d)
    OBVIOUS
  <2>2. /\ nodePc' = [nodePc EXCEPT ![n] = p] /\ sending' = [sending EXCEPT ![n].bytes = <<>>]
        /\ UNCHANGED <<ready2, hops>>
    BY <1>1, <1>4, <2>1 DEF RelaySendLost
  <2>3. /\ TunnelTyped /\ Stages /\ Addressed /\ UpRight /\ DownRight
        /\ up \in [Hop -> Seq(Byte)] /\ down \in [Hop -> Seq(Byte)]
        /\ sending \in [Node -> [on : {"up", "down"}, bytes : Seq(Byte)]]
        /\ DOMAIN nodePc = Node
    BY DEF TunnelInv, TunnelTyped
  <2>4. UNCHANGED <<up, down, nearEnd, farEnd>>
    BY <2>2 DEF hops
  <2>5. p \in Relays /\ p # "send" /\ "send" \in Relays
    BY <2>1 DEF AfterSend, Relays
  <2>6. /\ sending' \in [Node -> [on : {"up", "down"}, bytes : Seq(Byte)]]
        /\ \A o \in Node : o # n => sending'[o] = sending[o]
    <3>1. <<>> \in Seq(Byte)
      OBVIOUS
    <3> QED
      BY <2>2, <2>3, <3>1
  <2>7. /\ TunnelTyped' /\ Opening' /\ DialledRight'
        /\ nodePc'["local"] \in Relays <=> nodePc["local"] \in Relays
        /\ nodePc'["server"] \in Relays <=> nodePc["server"] \in Relays
        /\ \A o \in Node : o # n => nodePc'[o] = nodePc[o] /\ \A e : Buffered(o, e)' = Buffered(o, e)
        /\ nodePc'[n] = p
        /\ \A v \in {"none", "addr", "closed"} : nodePc'["server"] = v <=> nodePc["server"] = v
        /\ nodePc'["local"] = "closed" <=> nodePc["local"] = "closed"
        /\ UNCHANGED <<script, held, replies, dialled, clientSent, targetSent, clientGot, targetGot>>
    BY <1>2, <2>2, <2>3, <2>4, <2>5, <2>6, RelayFrame
  <2>8. \A e : e # d => Buffered(n, e)' = Buffered(n, e)
    BY <1>1, <2>5, <2>7 DEF Buffered
  <2>9. "local" \in Node /\ "server" \in Node /\ n \in {"local", "server"} /\ d \in {"up", "down"}
    BY <1>1, <2>3 DEF Node
  <2>10. /\ n = "local" /\ d = "up" => farEnd["ls"] = "closed"
         /\ n = "server" /\ d = "up" => farEnd["st"] = "closed"
         /\ n = "local" /\ d = "down" => nearEnd["cl"] = "closed"
         /\ n = "server" /\ d = "down" => nearEnd["ls"] = "closed"
    BY <1>2 DEF Receiver, Near, Far
  <2>11. UpRight' /\ Addressed'
    <3>1. nodePc["server"] # "closed" => Buffered("local", "up")' = Buffered("local", "up")
      BY <2>3, <2>7, <2>8, <2>9, <2>10 DEF Stages
    <3>2. farEnd["st"] # "closed" => Buffered("server", "up")' = Buffered("server", "up")
      BY <2>7, <2>8, <2>9, <2>10
    <3> QED
      BY <2>3, <2>4, <2>7, <3>1, <3>2, UpKeeps
  <2>12. DownRight'
    <3>1. nodePc["local"] # "closed" => Buffered("server", "down")' = Buffered("server", "down")
      BY <2>3, <2>7, <2>8, <2>9, <2>10 DEF Stages
    <3>2. nearEnd["cl"] # "closed" => Buffered("local", "down")' = Buffered("local", "down")
      BY <2>7, <2>8, <2>9, <2>10
    <3> QED
      BY <2>3, <2>4, <2>7, <3>1, <3>2, DownKeeps
  <2>13. Stages'
    <3>1. nodePc["local"] \notin {"greeting", "request"} /\ nodePc'["local"] \notin {"greeting", "request"}
      <4>1. \A q \in {"none", "greeting", "request"} : q \notin Relays
        BY DEF Relays
      <4> QED
        BY <1>2, <2>3, <2>5, <2>7, <2>9, <4>1 DEF Stages
    <3>2. nodePc'["local"] = "send" => nodePc["local"] = "send" /\ sending'["local"] = sending["local"]
      BY <2>5, <2>6, <2>7, <2>9
    <3> QED
      BY <2>3, <2>4, <2>7, <3>1, <3>2 DEF Stages
  <2> QED
    BY <2>7, <2>11, <2>12, <2>13 DEF TunnelInv
<1> QED
  BY <1>3, <1>4

\* Every step of the tunnel keeps the invariant.
LEMMA TunnelStepKeeps ==
  ASSUME TunnelInv, [TunnelNext]_tunnelVars
  PROVE  TunnelInv'
<1>1. CASE UNCHANGED tunnelVars
  <2>1. /\ UNCHANGED <<nodePc, ready2, sending, up, down, nearEnd, farEnd, script, held, replies, dialled>>
        /\ UNCHANGED <<clientSent, targetSent, clientGot, targetGot>>
    BY <1>1 DEF tunnelVars, threads, hops, talk, counts
  <2>2. \A n, d : Buffered(n, d)' = Buffered(n, d)
    BY <2>1 DEF Buffered
  <2>3. TunnelTyped /\ Opening /\ Stages /\ Addressed /\ DialledRight /\ UpRight /\ DownRight
    BY DEF TunnelInv
  <2>4. TunnelTyped' /\ Opening' /\ Stages' /\ DialledRight'
    BY <2>1, <2>3 DEF TunnelTyped, TunnelShape, Opening, Rest, Asking, Stages, DialledRight, Asked
  <2>5. UpRight' /\ Addressed'
    BY <2>1, <2>2, <2>3, UpKeeps
  <2>6. DownRight'
    BY <2>1, <2>2, <2>3, DownKeeps
  <2> QED
    BY <2>4, <2>5, <2>6 DEF TunnelInv
<1>2. ASSUME NEW n \in Node, Thread(n) PROVE TunnelInv'
  <2>1. CASE LocalGreeting
    BY <2>1, GreetingKeeps
  <2>2. CASE LocalRefuses \/ LocalConnectFails \/ ServerShort
    BY <2>2, RefusalKeeps
  <2>3. CASE LocalRequest
    BY <2>3, RequestKeeps
  <2>4. CASE ServerDials
    BY <2>4, DialsKeeps
  <2>5. CASE RelaySelect(n)
    BY <2>5, TunnelSelectKeeps
  <2>6. CASE RelaySend(n)
    BY <2>6, TunnelSendKeeps
  <2>7. CASE RelaySendLost(n)
    BY <2>7, TunnelLostKeeps
  <2>8. CASE \E d \in {"up", "down"} : RelayRecv(n, d)
    BY <2>8, TunnelRecvKeeps
  <2> QED
    BY <1>2, <2>1, <2>2, <2>3, <2>4, <2>5, <2>6, <2>7, <2>8 DEF Thread
<1>3. CASE ClientGreets \/ ClientSendsRest \/ ClientRequests
  BY <1>3, OpeningKeeps
<1>4. CASE ClientSends
  BY <1>4, ClientSendsKeeps
<1>5. CASE ClientReads
  BY <1>5, ClientReadsKeeps
<1>6. CASE TargetSends
  BY <1>6, TargetSendsKeeps
<1>7. CASE TargetReads
  BY <1>7, TargetReadsKeeps
<1>8. CASE ClientEnds \/ TargetEnds
  BY <1>8, TunnelEndsKeeps
<1> QED
  BY <1>1, <1>2, <1>3, <1>4, <1>5, <1>6, <1>7, <1>8 DEF TunnelNext

\* It holds when the client connects.
LEMMA TunnelStart ==
  ASSUME TunnelInit
  PROVE  TunnelInv
<1>1. /\ nodePc = [local |-> "greeting", server |-> "none"]
      /\ sending = [n \in Node |-> [on |-> "up", bytes |-> <<>>]]
      /\ up = [h \in Hop |-> <<>>] /\ down = [h \in Hop |-> <<>>]
      /\ nearEnd = [cl |-> "open", ls |-> "none", st |-> "none"] /\ farEnd = nearEnd
      /\ script \in Talks /\ held = script.greeting
      /\ replies = 0 /\ dialled = <<>>
      /\ clientSent = 0 /\ targetSent = 0 /\ clientGot = <<>> /\ targetGot = <<>>
  BY DEF TunnelInit
<1>2. script.payload \in Seq(Byte) /\ script.greeting \in Seq(Byte) /\ <<>> \in Seq(Byte)
  BY <1>1, TalksAssumption
<1>3. 0 \in 0 .. Len(script.payload)
  BY <1>2, LenProperties
<1>4. /\ nodePc["local"] = "greeting" /\ nodePc["server"] = "none" /\ DOMAIN nodePc = Node
      /\ \A h \in Hop : up[h] = <<>> /\ down[h] = <<>>
      /\ up \in [Hop -> Seq(Byte)] /\ down \in [Hop -> Seq(Byte)]
      /\ sending \in [Node -> [on : {"up", "down"}, bytes : Seq(Byte)]]
      /\ "cl" \in Hop /\ "ls" \in Hop /\ "st" \in Hop
      /\ DOMAIN nearEnd = Hop /\ DOMAIN farEnd = Hop
      /\ nearEnd["ls"] = "none" /\ farEnd["ls"] = "none" /\ farEnd["st"] = "none"
  BY <1>1, <1>2 DEF Node, Hop
<1>5. \A v \in {"greeting", "none"} : v \notin Relays
  BY DEF Relays
<1>6. TunnelTyped
  <2>1. TunnelShape
    BY <1>1, <1>4 DEF TunnelShape
  <2>2. /\ script \in Talks /\ held \in Seq(Byte) /\ clientGot \in Seq(Byte) /\ targetGot \in Seq(Byte)
        /\ clientSent \in 0 .. Len(script.payload) /\ targetSent \in 0 .. Len(script.payload)
    BY <1>1, <1>2, <1>3
  <2> QED
    BY <1>4, <2>1, <2>2 DEF TunnelTyped
<1>7. Opening /\ Stages /\ Addressed /\ DialledRight
  BY <1>1, <1>4, <1>5 DEF Opening, Stages, Addressed, DialledRight
<1>8. FirstOf(0) = <<>> /\ \A d : Buffered("local", d) = <<>> /\ Buffered("server", d) = <<>>
  BY <1>4, <1>6, PayloadGrows DEF Buffered
<1>9. UpRight /\ DownRight
  BY <1>1, <1>4, <1>8, PipeEmpty DEF UpRight, DownRight
<1> QED
  BY <1>6, <1>7, <1>9 DEF TunnelInv

\* What has come out of a pipe and its pieces, in the two ways to put them together.
Nested(got, a, b, c, d, e) == Cat(got, Cat(a, Cat(b, Cat(decrypt(c), Cat(decrypt(d), e)))))
InARow(got, a, b, c, d, e) == got \o a \o b \o decrypt(c \o d) \o e

LEMMA Chain ==
  ASSUME NEW got \in Seq(Byte), NEW a \in Seq(Byte), NEW b \in Seq(Byte),
         NEW c \in Seq(Byte), NEW d \in Seq(Byte), NEW e \in Seq(Byte)
  PROVE  Nested(got, a, b, c, d, e) = InARow(got, a, b, c, d, e)
<1>1. PICK m \in Seq(Byte), l \in Seq(Byte) : m = decrypt(c) /\ l = decrypt(d)
  BY CodeRight
<1>2. decrypt(c \o d) = Cat(m, l) /\ Cat(m, l) \in Seq(Byte)
  BY <1>1, DecodeJoin, CatIn DEF Cat
<1>3. Cat(m, Cat(l, e)) = Cat(Cat(m, l), e)
  BY CatAssoc
<1>4. PICK w \in Seq(Byte) : w = Cat(m, l)
  BY <1>2
<1>5. /\ Cat(w, e) \in Seq(Byte) /\ Cat(b, Cat(w, e)) \in Seq(Byte)
      /\ Cat(got, a) \in Seq(Byte) /\ Cat(Cat(got, a), b) \in Seq(Byte)
  BY CatIn
<1>6. Cat(got, Cat(a, Cat(b, Cat(w, e)))) = Cat(Cat(got, a), Cat(b, Cat(w, e)))
  BY <1>5, CatAssoc
<1>7. Cat(Cat(got, a), Cat(b, Cat(w, e))) = Cat(Cat(Cat(got, a), b), Cat(w, e))
  BY <1>5, CatAssoc
<1>8. Cat(Cat(Cat(got, a), b), Cat(w, e)) = Cat(Cat(Cat(Cat(got, a), b), w), e)
  BY <1>5, CatAssoc
<1>9. Cat(got, Cat(a, Cat(b, Cat(m, Cat(l, e))))) = Cat(Cat(Cat(Cat(got, a), b), Cat(m, l)), e)
  BY <1>3, <1>4, <1>6, <1>7, <1>8
<1>10. Nested(got, a, b, c, d, e) = Cat(Cat(Cat(Cat(got, a), b), decrypt(c \o d)), e)
  BY <1>1, <1>2, <1>9 DEF Nested
<1> QED
  BY <1>10 DEF Cat, InARow

\* What is followed by something is a prefix.
LEMMA PrefixOf ==
  ASSUME NEW s \in Seq(Byte), NEW z \in Seq(Byte), NEW t, t = Cat(s, z)
  PROVE  IsPrefix(s, t)
<1>1. PICK m \in Nat, n \in Nat : m = Len(s) /\ n = Len(z)
  BY LenProperties
<1>2. t = s \o z
  BY DEF Cat
<1>3. SubSeq(t, 1, m) = s
  BY <1>1, <1>2, Begins
<1>4. Len(t) = m + n
  BY <1>1, <1>2, JoinFacts
<1>5. SubSeq(s, 1, m) = s
  BY <1>1, SubSeqFull
<1> QED
  BY <1>1, <1>3, <1>4, <1>5 DEF IsPrefix

\* What the invariant says of the bytes.
LEMMA TunnelSound ==
  ASSUME TunnelInv
  PROVE  TunnelFaithful
<1>1. TunnelTyped /\ DialledRight /\ UpRight /\ DownRight
  BY DEF TunnelInv
<1>2. /\ \A h \in {"cl", "ls", "st"} : up[h] \in Seq(Byte) /\ down[h] \in Seq(Byte)
      /\ clientGot \in Seq(Byte) /\ targetGot \in Seq(Byte)
  BY <1>1 DEF TunnelTyped, Hop
<1>3. \A d : Buffered("local", d) \in Seq(Byte) /\ Buffered("server", d) \in Seq(Byte)
  BY <1>1, InHand DEF Node
<1>4. PipeRight(FirstOf(targetSent), clientGot, down["cl"], Buffered("local", "down"), down["ls"],
                Buffered("server", "down"), down["st"], nearEnd["cl"], nodePc["local"], nodePc["server"])
  BY <1>1 DEF DownRight
<1>5. dialled = Asked =>
        PipeRight(FirstOf(clientSent), targetGot, up["st"], Buffered("server", "up"), up["ls"],
                  Buffered("local", "up"), up["cl"], farEnd["st"], nodePc["server"], nodePc["local"])
  BY <1>1 DEF UpRight
<1>6. IsPrefix(clientGot, FirstOf(targetSent))
  BY <1>2, <1>4, PrefixOf DEF PipeRight
<1>7. dialled = Asked => IsPrefix(targetGot, FirstOf(clientSent))
  BY <1>2, <1>5, PrefixOf DEF PipeRight
<1>8. ASSUME nodePc["local"] \notin {"greeting", "request", "closed"},
             nodePc["server"] \notin {"none", "addr", "closed"},
             "closed" \notin {farEnd["st"], nearEnd["cl"]}
      PROVE  /\ dialled = Asked =>
                  FirstOf(clientSent) = targetGot \o up["st"] \o Buffered("server", "up")
                      \o decrypt(up["ls"] \o Buffered("local", "up")) \o up["cl"]
             /\ FirstOf(targetSent) = clientGot \o down["cl"] \o Buffered("local", "down")
                    \o decrypt(down["ls"] \o Buffered("server", "down")) \o down["st"]
  <2>1. nodePc["local"] \in Relays /\ nodePc["server"] \in Relays
    BY <1>1, <1>8 DEF TunnelTyped
  <2>2. farEnd["st"] # "closed" /\ nearEnd["cl"] # "closed"
    BY <1>8
  <2>3. FirstOf(targetSent) = Cat(clientGot, Cat(down["cl"], Cat(Buffered("local", "down"),
            Cat(decrypt(down["ls"]), Cat(decrypt(Buffered("server", "down")), down["st"])))))
    BY <1>4, <2>1, <2>2 DEF PipeRight
  <2>4. dialled = Asked =>
          FirstOf(clientSent) = Cat(targetGot, Cat(up["st"], Cat(Buffered("server", "up"),
              Cat(decrypt(up["ls"]), Cat(decrypt(Buffered("local", "up")), up["cl"])))))
    BY <1>5, <2>1, <2>2 DEF PipeRight
  <2>5. FirstOf(targetSent) = clientGot \o down["cl"] \o Buffered("local", "down")
            \o decrypt(down["ls"] \o Buffered("server", "down")) \o down["st"]
    <3>1. PICK got \in Seq(Byte), a \in Seq(Byte), b \in Seq(Byte), c \in Seq(Byte), d \in Seq(Byte), e \in Seq(Byte) :
            /\ got = clientGot /\ a = down["cl"] /\ b = Buffered("local", "down") /\ c = down["ls"]
            /\ d = Buffered("server", "down") /\ e = down["st"]
      BY <1>2, <1>3
    <3>2. Nested(got, a, b, c, d, e) = InARow(got, a, b, c, d, e)
      <4>1. /\ got \in Seq(Byte) /\ a \in Seq(Byte) /\ b \in Seq(Byte)
            /\ c \in Seq(Byte) /\ d \in Seq(Byte) /\ e \in Seq(Byte)
        BY <3>1
      <4> QED
        BY ONLY <4>1, Chain
    <3> QED
      BY <2>3, <3>1, <3>2 DEF Nested, InARow
  <2>6. ASSUME dialled = Asked
        PROVE  FirstOf(clientSent) = targetGot \o up["st"] \o Buffered("server", "up")
                   \o decrypt(up["ls"] \o Buffered("local", "up")) \o up["cl"]
    <3>1. PICK got \in Seq(Byte), a \in Seq(Byte), b \in Seq(Byte), c \in Seq(Byte), d \in Seq(Byte), e \in Seq(Byte) :
            /\ got = targetGot /\ a = up["st"] /\ b = Buffered("server", "up") /\ c = up["ls"]
            /\ d = Buffered("local", "up") /\ e = up["cl"]
      BY <1>2, <1>3
    <3>2. Nested(got, a, b, c, d, e) = InARow(got, a, b, c, d, e)
      <4>1. /\ got \in Seq(Byte) /\ a \in Seq(Byte) /\ b \in Seq(Byte)
            /\ c \in Seq(Byte) /\ d \in Seq(Byte) /\ e \in Seq(Byte)
        BY <3>1
      <4> QED
        BY ONLY <4>1, Chain
    <3> QED
      BY <2>4, <2>6, <3>1, <3>2 DEF Nested, InARow
  <2> QED
    BY <2>5, <2>6
<1> QED
  BY <1>1, <1>6, <1>7, <1>8 DEF TunnelFaithful, DialledRight

\* Between the application and the target no byte is lost, changed or moved while both
\* threads relay, and each end has always got a prefix of what the other sent; server.py
\* connects to what was asked for when the greeting came in one piece: for every table,
\* every conversation and every size of the buffers, whatever ends or closes.
THEOREM TunnelHolds == Spec => []TunnelFaithful
<1>1. Init => TunnelInv
  BY TunnelStart DEF Init
<1>2. TunnelInv /\ [Next]_vars => TunnelInv'
  <2>1. [Next]_vars => [TunnelNext]_tunnelVars
    BY DEF Next, vars
  <2> QED
    BY <2>1, TunnelStepKeeps
<1>3. TunnelInv => TunnelFaithful
  BY TunnelSound
<1> QED
  BY <1>1, <1>2, <1>3, PTL DEF Spec
-------------------------------------------------------------------------------
(* The digits of a port *)

\* A set of naturals that is not empty has a smallest element.
LEMMA SmallestOf ==
  ASSUME NEW S, S \subseteq Nat, S # {}
  PROVE  \E x \in S : \A y \in S : x <= y
<1>1. PICK x \in S : \A y \in S : ~(<<y, x>> \in OpToRel(<, Nat))
  BY WFMin, NatLessThanWellFounded, Zenon
<1>2. ASSUME NEW y \in S PROVE ~(y < x)
  BY <1>1, Zenon DEF OpToRel
<1> QED
  BY <1>2

\* A set with 0 and with the successor of each of its numbers has all numbers.
LEMMA Induction ==
  ASSUME NEW S, 0 \in S, \A n \in Nat : n \in S => n + 1 \in S
  PROVE  \A n \in Nat : n \in S
<1> DEFINE T == Nat \ S
<1> SUFFICES ASSUME T # {} PROVE FALSE
  OBVIOUS
<1>1. T \subseteq Nat
  OBVIOUS
<1>2. PICK x \in T : \A y \in T : x <= y
  <2> HIDE DEF T
  <2> QED
    BY <1>1, SmallestOf
<1>3. x \in Nat /\ x # 0
  OBVIOUS
<1>4. x - 1 \in Nat /\ ~(x <= x - 1) /\ (x - 1) + 1 = x
  BY <1>3
<1>5. x - 1 \in S
  BY <1>2, <1>4
<1>6. (x - 1) + 1 \in S
  BY <1>4, <1>5
<1> QED
  BY <1>4, <1>6

\* The function by which int() reads the digits s, and one step of it.
Digit == 0 .. 9
ValueStep(v, s, n) == IF n = 0 THEN 0 ELSE 10 * v[n - 1] + s[n]
IsValue(v, s) == v = [n \in 0 .. Len(s) |-> ValueStep(v, s, n)]

\* int() of the digits that are left of the port, one digit after the other, as
\* the choice its recursive definition stands for.
LEMMA IntOfDef ==
  ASSUME NEW s
  PROVE  IntOf(s) = (CHOOSE v : IsValue(v, s))[Len(s)]
BY DEF IntOf, IsValue, ValueStep

\* There is such a function, for any digits.
LEMMA ValueExists ==
  ASSUME NEW s \in Seq(Digit)
  PROVE  \E v : IsValue(v, s)
<1>1. PICK L \in Nat : L = Len(s)
  BY LenProperties
<1> DEFINE Upto(v, n) == \A k \in 0 .. L : k <= n => v[k] = ValueStep(v, s, k)
           N == {n \in Nat : \E v : v = [k \in 0 .. L |-> v[k]] /\ Upto(v, n)}
<1>2. 0 \in N
  <2>1. PICK v : v = [k \in 0 .. L |-> 0]
    OBVIOUS
  <2>2. v = [k \in 0 .. L |-> v[k]] /\ Upto(v, 0)
    BY <2>1 DEF ValueStep
  <2> QED
    BY <2>2
<1>3. ASSUME NEW n \in Nat, n \in N PROVE n + 1 \in N
  <2>1. PICK v : v = [k \in 0 .. L |-> v[k]] /\ Upto(v, n)
    BY <1>3
  <2>2. PICK w : w = [k \in 0 .. L |-> IF k = n + 1 THEN 10 * v[n] + s[n + 1] ELSE v[k]]
    OBVIOUS
  <2>3. w = [k \in 0 .. L |-> w[k]]
    BY <2>2
  <2>4. ASSUME NEW k \in 0 .. L, k <= n + 1 PROVE w[k] = ValueStep(w, s, k)
    <3>1. CASE k = n + 1
      <4>1. w[k] = 10 * v[n] + s[n + 1] /\ n \in 0 .. L /\ k - 1 = n /\ k # 0
        BY <2>2, <2>4, <3>1
      <4>2. w[n] = v[n]
        BY <2>2, <4>1
      <4> QED
        BY <3>1, <4>1, <4>2 DEF ValueStep
    <3>2. CASE k # n + 1
      <4>1. k <= n /\ w[k] = v[k]
        BY <2>2, <2>4, <3>2
      <4>2. v[k] = ValueStep(v, s, k)
        BY <2>1, <4>1
      <4>3. k # 0 => w[k - 1] = v[k - 1]
        <5>1. k # 0 => k - 1 \in 0 .. L /\ k - 1 # n + 1
          BY <4>1
        <5> QED
          BY <2>2, <5>1
      <4> QED
        BY <4>1, <4>2, <4>3 DEF ValueStep
    <3> QED
      BY <3>1, <3>2
  <2>5. Upto(w, n + 1)
    BY <2>4
  <2> QED
    BY <2>3, <2>5
<1>4. \A n \in Nat : n \in N
  <2> HIDE DEF N
  <2> QED
    BY <1>2, <1>3, Induction
<1>5. PICK v : v = [k \in 0 .. L |-> v[k]] /\ Upto(v, L)
  BY <1>4
<1>6. \A k \in 0 .. L : v[k] = ValueStep(v, s, k)
  BY <1>5
<1>7. v = [k \in 0 .. L |-> ValueStep(v, s, k)]
  BY <1>5, <1>6
<1> QED
  BY <1>1, <1>7 DEF IsValue

\* It depends on no more digits than it has read, and is a natural number.
LEMMA SameDigitsSameValue ==
  ASSUME NEW s \in Seq(Digit), NEW t \in Seq(Digit), NEW v, NEW u, IsValue(v, s), IsValue(u, t),
         Len(t) <= Len(s), \A k \in 1 .. Len(t) : t[k] = s[k]
  PROVE  \A k \in 0 .. Len(t) : u[k] = v[k] /\ v[k] \in Nat
<1>1. PICK L \in Nat, M \in Nat : L = Len(s) /\ M = Len(t)
  BY LenProperties
<1>2. \A k \in 0 .. L : v[k] = ValueStep(v, s, k)
  BY <1>1 DEF IsValue
<1>3. \A k \in 0 .. M : u[k] = ValueStep(u, t, k)
  BY <1>1 DEF IsValue
<1>4. \A k \in 1 .. M : t[k] = s[k] /\ s[k] \in Nat
  <2>1. \A k \in 1 .. M : t[k] \in Digit
    BY <1>1, ElementOfSeq
  <2> QED
    BY <1>1, <2>1 DEF Digit
<1> DEFINE N == {n \in Nat : n <= M => u[n] = v[n] /\ v[n] \in Nat}
<1>5. 0 \in N
  BY <1>1, <1>2, <1>3 DEF ValueStep
<1>6. ASSUME NEW n \in Nat, n \in N PROVE n + 1 \in N
  <2> SUFFICES ASSUME n + 1 <= M PROVE u[n + 1] = v[n + 1] /\ v[n + 1] \in Nat
    OBVIOUS
  <2>1. u[n] = v[n] /\ v[n] \in Nat
    BY <1>6
  <2>2. PICK k \in 1 .. M : k = n + 1
    OBVIOUS
  <2>3. k - 1 = n /\ k # 0 /\ k \in 0 .. L /\ k \in 0 .. M
    BY <1>1, <2>2
  <2>4. u[k] = 10 * u[n] + t[k] /\ v[k] = 10 * v[n] + s[k]
    BY <1>2, <1>3, <2>3 DEF ValueStep
  <2>5. 10 * v[n] + s[k] \in Nat
    BY <1>4, <2>1
  <2> QED
    BY <1>4, <2>1, <2>2, <2>4, <2>5
<1>7. \A n \in Nat : n \in N
  <2> HIDE DEF N
  <2> QED
    BY <1>5, <1>6, Induction
<1> QED
  BY <1>1, <1>7

\* Without its last digit a number is a tenth of what it was.
LEMMA DropDigit ==
  ASSUME NEW s \in Seq(Digit), Len(s) > 0
  PROVE  /\ Front(s) \in Seq(Digit) /\ Len(Front(s)) = Len(s) - 1
         /\ IntOf(s) \in Nat /\ IntOf(Front(s)) = IntOf(s) \div 10
<1>1. PICK L \in Nat : L = Len(s)
  BY LenProperties
<1>2. PICK t : t = Front(s)
  OBVIOUS
<1>3. t \in Seq(Digit) /\ Len(t) = L - 1 /\ \A k \in 1 .. L - 1 : t[k] = s[k]
  <2>1. 1 \in 1 .. L + 1 /\ L - 1 \in 1 - 1 .. L
    BY <1>1
  <2> QED
    BY <1>1, <1>2, <2>1, SubSeqProperties DEF Front
<1>4. PICK v : IsValue(v, s) /\ IntOf(s) = v[L]
  BY <1>1, ValueExists, IntOfDef
<1>5. PICK u : IsValue(u, t) /\ IntOf(t) = u[L - 1]
  BY <1>3, ValueExists, IntOfDef
<1>6. u[L - 1] = v[L - 1] /\ v[L - 1] \in Nat
  <2>1. Len(t) <= Len(s) /\ (\A k \in 1 .. Len(t) : t[k] = s[k]) /\ L - 1 \in 0 .. Len(t)
    BY <1>1, <1>3
  <2> QED
    BY <1>3, <1>4, <1>5, <2>1, SameDigitsSameValue
<1>7. v[L] = 10 * v[L - 1] + s[L]
  <2>1. L \in 0 .. L /\ L # 0
    BY <1>1
  <2> QED
    BY <1>1, <1>4, <2>1 DEF IsValue, ValueStep
<1>8. s[L] \in 0 .. 9
  <2>1. L \in 1 .. Len(s)
    BY <1>1
  <2> QED
    BY <1>1, <2>1, ElementOfSeq DEF Digit
<1>9. PICK a \in Nat, d \in 0 .. 9 : a = v[L - 1] /\ d = s[L]
  BY <1>6, <1>8
<1>10. 10 * a + d \in Nat /\ (10 * a + d) \div 10 = a
  OBVIOUS
<1> QED
  BY <1>1, <1>2, <1>3, <1>4, <1>5, <1>6, <1>7, <1>9, <1>10

\* An explicit port loses its last digit, or two if no path is seen behind it.
LessDigits(l) ==
    IF l.port = <<>> THEN 80 ELSE IntOf(l.port) \div (IF l.slash THEN 10 ELSE 100)

LEMMA PortLosesDigits ==
  ASSUME NEW l, l.port \in Seq(Digit), l.slash \in BOOLEAN, ~NoPort(l)
  PROVE  get_req_info(l) \in Nat /\ get_req_info(l) = LessDigits(l)
<1> USE DEF LessDigits
<1>1. PICK p \in Seq(Digit) : p = l.port
  OBVIOUS
<1>2. CASE p = <<>>
  BY <1>1, <1>2 DEF get_req_info
<1>3. CASE p # <<>> /\ l.slash
  <2>1. Len(p) > 0
    BY <1>3, EmptySeq
  <2>2. IntOf(p) \in Nat /\ IntOf(Front(p)) = IntOf(p) \div 10
    BY <2>1, DropDigit
  <2>3. get_req_info(l) = IntOf(Front(p))
    BY <1>1, <1>3 DEF get_req_info, PortDigits
  <2>4. IntOf(p) \div 10 \in Nat
    BY <2>2
  <2> QED
    BY <1>1, <1>3, <2>2, <2>3, <2>4
<1>4. CASE p # <<>> /\ ~l.slash
  <2>1. Len(p) > 2
    BY <1>1, <1>4, LenProperties DEF NoPort
  <2>2. Len(p) \in Nat
    BY LenProperties
  <2>3. PICK f \in Seq(Digit) : f = Front(p)
    BY <2>1, <2>2, DropDigit
  <2>4. IntOf(p) \in Nat /\ IntOf(f) = IntOf(p) \div 10 /\ Len(f) > 0
    BY <2>1, <2>2, <2>3, DropDigit
  <2>5. IntOf(Front(f)) = IntOf(f) \div 10
    BY <2>4, DropDigit
  <2>6. get_req_info(l) = IntOf(Front(f))
    BY <1>1, <1>4, <2>3 DEF get_req_info, PortDigits
  <2>7. PICK a \in Nat : a = IntOf(p)
    BY <2>4
  <2>8. a \div 100 \in Nat /\ (a \div 10) \div 10 = a \div 100
    OBVIOUS
  <2> QED
    BY <1>1, <1>4, <2>4, <2>5, <2>6, <2>7, <2>8
<1> QED
  BY <1>2, <1>3, <1>4
-------------------------------------------------------------------------------
(* The threaded proxy *)

\* Where a thread is and what it holds, for all connections.
ThreadTyped ==
    /\ tmain \in {"accept", "died"}
    /\ tpc \in [Connection -> {"none", "recv", "relay", "ended"}]
    /\ held2 \in [Connection -> SUBSET {"conn", "remote"}]
    /\ tarrived \in [Connection -> Nat] /\ tread \in [Connection -> Nat]
    /\ trelayed \in [Connection -> Nat]
    /\ tanswer \in [Connection -> Nat] /\ tback \in [Connection -> Nat]
    /\ tport \in [Connection -> Int]
    /\ thost \in [Connection -> {"none", "up", "closed"}]
    /\ tclient \in [Connection -> {"none", "up", "gone"}]

PortRight(c) == tport[c] = LessDigits(LineSeen(Conns[c], tread[c]))

\* One thread: its sockets follow from where it is; it has a host, a port and anything
\* sent only after its one recv(); and it has ended without one, or because its host had closed and all was
\* sent back, or its client had gone.
Tidy(c) ==
    /\ tpc[c] \in {"none", "ended"} => held2[c] = {}
    /\ tpc[c] = "recv" => held2[c] = {"conn"}
    /\ tpc[c] = "relay" => held2[c] = {"conn", "remote"}
    /\ tpc[c] \in {"none", "recv"} => thost[c] = "none" /\ trelayed[c] = 0 /\ tport[c] = -1
    /\ tpc[c] = "ended" =>
          thost[c] = "none" \/ tclient[c] = "gone" \/ (thost[c] = "closed" /\ tback[c] = tanswer[c])
    /\ thost[c] = "none" => tanswer[c] = 0
    /\ tread[c] <= tarrived[c] /\ trelayed[c] \in {0, tread[c]} /\ tback[c] <= tanswer[c]
    /\ tport[c] # -1 => PortRight(c)

ThreadInv ==
    /\ ThreadTyped
    /\ \A c \in Connection : Tidy(c)
    /\ OpenSockets <= ThreadFds
    /\ tmain = "died" => OpenSockets = ThreadFds

\* The sockets that threads hold, as a set.
HeldIn(h) == {p \in Connection \X {"conn", "remote"} : p[2] \in h[p[1]]}

\* The connections' sockets are finitely many.
LEMMA HeldFinite ==
  ASSUME NEW h
  PROVE  IsFiniteSet(HeldIn(h)) /\ Cardinality(HeldIn(h)) \in Nat
<1>1. IsFiniteSet(Connection)
  <2>1. PICK n \in Nat : n = Len(Conns) /\ Connection = 1 .. n
    BY ThreadProxyAssumption, LenProperties DEF Connection
  <2>2. PICK l \in Int, m \in Int : l = 1 /\ m = n
    OBVIOUS
  <2> QED
    BY <2>1, <2>2, FS_Interval
<1>2. IsFiniteSet({"conn", "remote"})
  <2>1. IsFiniteSet({"conn"})
    BY FS_Singleton
  <2>2. IsFiniteSet({"conn"} \cup {"remote"})
    BY <2>1, FS_AddElement
  <2>3. {"conn"} \cup {"remote"} = {"conn", "remote"}
    OBVIOUS
  <2> QED
    BY <2>2, <2>3
<1>3. IsFiniteSet(Connection \X {"conn", "remote"})
  BY <1>1, <1>2, FS_Product
<1>4. HeldIn(h) \in SUBSET (Connection \X {"conn", "remote"})
  BY DEF HeldIn
<1> QED
  BY <1>3, <1>4, FS_Subset, FS_CardinalityType

\* A thread that gets one more socket uses one more descriptor; one that ends, no more
\* than before.
LEMMA OneMoreSocket ==
  ASSUME NEW h \in [Connection -> SUBSET {"conn", "remote"}], NEW c \in Connection,
         NEW x \in {"conn", "remote"}, x \notin h[c], NEW g,
         g = [h EXCEPT ![c] = h[c] \cup {x}]
  PROVE  Cardinality(HeldIn(g)) = Cardinality(HeldIn(h)) + 1
<1>1. HeldIn(g) = HeldIn(h) \cup {<<c, x>>}
  BY DEF HeldIn
<1>2. <<c, x>> \notin HeldIn(h)
  BY DEF HeldIn
<1>3. PICK H, y : H = HeldIn(h) /\ y = <<c, x>>
  OBVIOUS
<1>4. IsFiniteSet(H) /\ y \notin H
  BY <1>2, <1>3, HeldFinite
<1>5. Cardinality(H \cup {y}) = Cardinality(H) + 1
  BY ONLY <1>4, FS_AddElement
<1> QED
  BY <1>1, <1>3, <1>5

\* A thread that closes what it holds, and no other thread's, lowers the count.
LEMMA FewerSockets ==
  ASSUME NEW h \in [Connection -> SUBSET {"conn", "remote"}], NEW c \in Connection, NEW g,
         g = [h EXCEPT ![c] = {}]
  PROVE  Cardinality(HeldIn(g)) <= Cardinality(HeldIn(h))
<1>1. PICK H : H = HeldIn(h)
  OBVIOUS
<1>2. PICK G \in SUBSET H : G = HeldIn(g)
  BY <1>1 DEF HeldIn
<1>3. IsFiniteSet(H)
  BY <1>1, HeldFinite
<1>4. Cardinality(G) <= Cardinality(H)
  BY ONLY <1>3, G \in SUBSET H, FS_Subset
<1> QED
  BY <1>1, <1>2, <1>4

\* A step of one thread leaves the others as they are.
LEMMA OthersTidy ==
  ASSUME ThreadInv, NEW c \in Connection, ThreadTyped', Tidy(c)',
         \A d \in Connection : d # c =>
            /\ tpc'[d] = tpc[d] /\ held2'[d] = held2[d] /\ tarrived'[d] = tarrived[d]
            /\ tread'[d] = tread[d] /\ trelayed'[d] = trelayed[d] /\ tport'[d] = tport[d] /\ tanswer'[d] = tanswer[d]
            /\ tback'[d] = tback[d] /\ thost'[d] = thost[d] /\ tclient'[d] = tclient[d],
         OpenSockets' <= ThreadFds, tmain' = "died" => OpenSockets' = ThreadFds
  PROVE  ThreadInv'
<1>1. ASSUME NEW d \in Connection, d # c PROVE Tidy(d)'
  <2>1. Tidy(d)
    BY DEF ThreadInv
  <2> QED
    BY <1>1, <2>1 DEF Tidy, PortRight
<1> QED
  BY <1>1 DEF ThreadInv

\* OpenSockets, what the descriptor limit is compared with, counts the sockets
\* that are held before and after a step.
LEMMA SocketsCount == OpenSockets = Cardinality(HeldIn(held2)) /\ OpenSockets' = Cardinality(HeldIn(held2'))
BY DEF OpenSockets, HeldIn

\* Clients and hosts: what they do leaves the threads and their sockets alone.
LEMMA ThreadNetKeeps ==
  ASSUME ThreadInv, NEW c \in Connection,
         \/ ThreadClientConnects(c) \/ ThreadClientSends(c) \/ ThreadClientGoes(c)
         \/ HostAnswers(c) \/ HostCloses(c)
  PROVE  ThreadInv'
<1>1. Tidy(c) /\ ThreadTyped
  BY DEF ThreadInv
<1>2. UNCHANGED <<tmain, tpc, held2, tread, trelayed, tport, tback>>
  BY DEF ThreadClientConnects, ThreadClientSends, ThreadClientGoes, HostAnswers, HostCloses, threadProc
<1>3. OpenSockets' <= ThreadFds /\ (tmain' = "died" => OpenSockets' = ThreadFds)
  BY <1>2, SocketsCount DEF ThreadInv
<1>4. CASE ThreadClientConnects(c)
  <2>1. ThreadTyped'
    BY <1>1, <1>2, <1>4 DEF ThreadTyped, ThreadClientConnects
  <2>2. Tidy(c)'
    BY <1>1, <1>2, <1>4 DEF ThreadTyped, ThreadClientConnects, Tidy, PortRight
  <2> QED
    BY <1>1, <1>2, <1>3, <1>4, <2>1, <2>2, OthersTidy DEF ThreadClientConnects, ThreadTyped
<1>5. CASE ThreadClientSends(c)
  <2>1. ThreadTyped'
    BY <1>1, <1>2, <1>5 DEF ThreadTyped, ThreadClientSends
  <2>2. Tidy(c)'
    BY <1>1, <1>2, <1>5 DEF ThreadTyped, ThreadClientSends, Tidy, PortRight
  <2> QED
    BY <1>1, <1>2, <1>3, <1>5, <2>1, <2>2, OthersTidy DEF ThreadClientSends, ThreadTyped
<1>6. CASE ThreadClientGoes(c)
  <2>1. ThreadTyped'
    BY <1>1, <1>2, <1>6 DEF ThreadTyped, ThreadClientGoes
  <2>2. Tidy(c)'
    BY <1>1, <1>2, <1>6 DEF ThreadTyped, ThreadClientGoes, Tidy, PortRight
  <2> QED
    BY <1>1, <1>2, <1>3, <1>6, <2>1, <2>2, OthersTidy DEF ThreadClientGoes, ThreadTyped
<1>7. CASE HostAnswers(c)
  <2>1. ThreadTyped'
    BY <1>1, <1>2, <1>7 DEF ThreadTyped, HostAnswers
  <2>2. Tidy(c)'
    BY <1>1, <1>2, <1>7 DEF ThreadTyped, HostAnswers, Tidy, PortRight
  <2> QED
    BY <1>1, <1>2, <1>3, <1>7, <2>1, <2>2, OthersTidy DEF HostAnswers, ThreadTyped
<1>8. CASE HostCloses(c)
  <2>1. ThreadTyped'
    BY <1>1, <1>2, <1>8 DEF ThreadTyped, HostCloses
  <2>2. Tidy(c)'
    BY <1>1, <1>2, <1>8 DEF ThreadTyped, HostCloses, Tidy, PortRight
  <2> QED
    BY <1>1, <1>2, <1>3, <1>8, <2>1, <2>2, OthersTidy DEF HostCloses, ThreadTyped
<1> QED
  BY <1>4, <1>5, <1>6, <1>7, <1>8

\* run(): a thread for a connection, or no descriptor for it.
LEMMA RunKeeps ==
  ASSUME ThreadInv, NEW c \in Connection, Starts(c) \/ AcceptRaises(c)
  PROVE  ThreadInv'
<1>1. Tidy(c) /\ ThreadTyped /\ OpenSockets <= ThreadFds
  BY DEF ThreadInv
<1>2. PICK m \in Nat, o \in Nat : m = ThreadFds /\ o = OpenSockets
  BY ThreadProxyAssumption, SocketsCount, HeldFinite
<1>3. CASE Starts(c)
  <2>1. /\ tpc' = [tpc EXCEPT ![c] = "recv"] /\ held2' = [held2 EXCEPT ![c] = {"conn"}]
        /\ tpc[c] = "none" /\ tmain = "accept" /\ OpenSockets < ThreadFds
        /\ UNCHANGED <<tmain, tarrived, tread, trelayed, tport, tanswer, tback, thost, tclient>>
    BY <1>3 DEF Starts, threadNet
  <2>2. held2' = [held2 EXCEPT ![c] = held2[c] \cup {"conn"}] /\ "conn" \notin held2[c]
    BY <1>1, <2>1 DEF Tidy
  <2>3. OpenSockets' = o + 1
    BY <1>1, <1>2, <2>2, SocketsCount, OneMoreSocket DEF ThreadTyped
  <2>4. OpenSockets' <= ThreadFds /\ tmain' # "died"
    BY <1>2, <2>1, <2>3
  <2>5. ThreadTyped'
    BY <1>1, <2>1 DEF ThreadTyped
  <2>6. Tidy(c)'
    BY <1>1, <2>1 DEF ThreadTyped, Tidy, PortRight
  <2> QED
    BY <1>1, <2>1, <2>4, <2>5, <2>6, OthersTidy DEF ThreadTyped
<1>4. CASE AcceptRaises(c)
  <2>1. /\ UNCHANGED <<tpc, held2, tarrived, tread, trelayed, tport, tanswer, tback, thost, tclient>>
        /\ tmain' = "died" /\ OpenSockets >= ThreadFds
    BY <1>4 DEF AcceptRaises, threadNet
  <2>2. OpenSockets' = OpenSockets /\ OpenSockets = ThreadFds
    BY <1>1, <1>2, <2>1, SocketsCount
  <2>3. ThreadTyped'
    BY <1>1, <2>1 DEF ThreadTyped
  <2>4. Tidy(c)'
    BY <1>1, <2>1 DEF Tidy, PortRight
  <2> QED
    BY <1>1, <1>2, <2>1, <2>2, <2>3, <2>4, OthersTidy
<1> QED
  BY <1>3, <1>4

\* What recv() has returned of a request line: some of the digits, or all.
LEMMA LineTyped ==
  ASSUME NEW c \in Connection, NEW n
  PROVE  LineSeen(Conns[c], n).port \in Seq(Digit) /\ LineSeen(Conns[c], n).slash \in BOOLEAN
<1>1. Conns[c] \in [port : Seq(Digit), slash : BOOLEAN, first : Place, digits : Nat]
  BY ThreadProxyAssumption, ElementOfSeq, LenProperties DEF Connection, Digit
<1>2. PICK s \in Seq(Digit), d \in Nat, b \in BOOLEAN :
         s = Conns[c].port /\ d = Conns[c].digits /\ b = Conns[c].slash
  BY <1>1
<1>3. d <= Len(s)
  BY <1>2, ThreadProxyAssumption DEF Connection
<1>4. SubSeq(s, 1, d) \in Seq(Digit)
  <2>1. 1 \in 1 .. Len(s) + 1 /\ d \in 1 - 1 .. Len(s)
    BY <1>3, LenProperties
  <2> QED
    BY <2>1, SubSeqProperties
<1>5. <<>> \in Seq(Digit)
  OBVIOUS
<1> QED
  BY <1>2, <1>4, <1>5 DEF LineSeen

\* The parse of it, for a thread that connects.
LEMMA ConnectsTo ==
  ASSUME NEW c \in Connection, ThreadTyped, FindsHost(c)
  PROVE  /\ tread' \in [Connection -> Nat] /\ tread'[c] = tarrived[c]
         /\ tport' \in [Connection -> Int] /\ PortRight(c)'
         /\ \A d \in Connection : d # c => tread'[d] = tread[d] /\ tport'[d] = tport[d]
<1>1. PICK l : l = LineSeen(Conns[c], tarrived[c])
  OBVIOUS
<1>2. /\ tread' = [tread EXCEPT ![c] = tarrived[c]]
      /\ tport' = [tport EXCEPT ![c] = get_req_info(l)] /\ ~NoPort(l)
  BY <1>1 DEF FindsHost
<1>3. get_req_info(l) \in Nat /\ get_req_info(l) = LessDigits(l)
  BY <1>1, <1>2, LineTyped, PortLosesDigits
<1>4. tport' \in [Connection -> Int] /\ tport'[c] = LessDigits(l)
  BY <1>2, <1>3 DEF ThreadTyped
<1>5. tread' \in [Connection -> Nat] /\ tread'[c] = tarrived[c]
  BY <1>2 DEF ThreadTyped
<1>6. PortRight(c)'
  BY <1>1, <1>4, <1>5 DEF PortRight
<1> QED
  BY <1>2, <1>4, <1>5, <1>6 DEF ThreadTyped

\* proxy_handler ends: its sockets are closed.
LEMMA EndsKeeps ==
  ASSUME ThreadInv, NEW c \in Connection, Ends(c), tmain # "died",
         tpc[c] \in {"recv", "relay"},
         tpc[c] = "relay" => (thost[c] = "closed" /\ tback[c] = tanswer[c]) \/ tclient[c] = "gone",
         UNCHANGED <<tmain, tarrived, trelayed, tanswer, tback, thost, tclient>>,
         tread' \in [Connection -> Nat], tport' \in [Connection -> Int],
         \A d \in Connection : d # c => tread'[d] = tread[d] /\ tport'[d] = tport[d],
         tread'[c] <= tarrived[c], trelayed[c] \in {0, tread'[c]},
         tport'[c] # -1 => PortRight(c)'
  PROVE  ThreadInv'
<1>1. Tidy(c) /\ ThreadTyped /\ OpenSockets <= ThreadFds
  BY DEF ThreadInv
<1>2. tpc' = [tpc EXCEPT ![c] = "ended"] /\ held2' = [held2 EXCEPT ![c] = {}]
  BY DEF Ends
<1>3. OpenSockets' <= OpenSockets
  BY <1>1, <1>2, SocketsCount, FewerSockets DEF ThreadTyped
<1>4. OpenSockets' <= ThreadFds
  <2>1. PICK m \in Nat, o \in Nat, q \in Nat : m = ThreadFds /\ o = OpenSockets /\ q = OpenSockets'
    BY ThreadProxyAssumption, SocketsCount, HeldFinite
  <2> QED
    BY <1>1, <1>3, <2>1
<1>5. ThreadTyped'
  BY <1>1, <1>2 DEF ThreadTyped
<1>6. Tidy(c)'
  BY <1>1, <1>2 DEF ThreadTyped, Tidy
<1> QED
  BY <1>1, <1>2, <1>4, <1>5, <1>6, OthersTidy DEF ThreadTyped

\* The steps of a handler.
LEMMA HandlerTidy ==
  ASSUME ThreadInv, NEW c \in Connection, Handler(c)
  PROVE  ThreadInv'
<1>1. Tidy(c) /\ ThreadTyped /\ OpenSockets <= ThreadFds
  BY DEF ThreadInv
<1>2. CASE RequestRaises(c)
  <2>1. /\ tpc[c] = "recv" /\ tmain # "died" /\ Ends(c)
        /\ tread' = [tread EXCEPT ![c] = tarrived[c]]
        /\ UNCHANGED <<tmain, tarrived, trelayed, tport, tanswer, tback, thost, tclient>>
    BY <1>2 DEF RequestRaises
  <2>2. /\ tread' \in [Connection -> Nat] /\ tread'[c] = tarrived[c] /\ tarrived[c] \in Nat
        /\ \A d \in Connection : d # c => tread'[d] = tread[d]
    BY <1>1, <2>1 DEF ThreadTyped
  <2>3. trelayed[c] = 0 /\ tport'[c] = -1 /\ tport' \in [Connection -> Int]
    BY <1>1, <2>1 DEF Tidy, ThreadTyped
  <2> QED
    BY <2>1, <2>2, <2>3, EndsKeeps
<1>3. CASE HostRefuses(c)
  <2>1. /\ FindsHost(c) /\ tpc[c] = "recv" /\ tmain # "died" /\ Ends(c)
        /\ UNCHANGED <<tmain, tarrived, trelayed, tanswer, tback, thost, tclient>>
    BY <1>3 DEF HostRefuses, FindsHost
  <2>2. trelayed[c] = 0 /\ tarrived[c] \in Nat
    BY <1>1, <2>1 DEF Tidy, ThreadTyped
  <2>3. tread'[c] = tarrived[c] /\ PortRight(c)'
    BY <1>1, <2>1, ConnectsTo
  <2> QED
    BY <1>1, <2>1, <2>2, <2>3, ConnectsTo, EndsKeeps
<1>4. CASE RelaysRequest(c)
  <2>1. /\ FindsHost(c) /\ tpc[c] = "recv" /\ tmain # "died" /\ OpenSockets < ThreadFds
        /\ tpc' = [tpc EXCEPT ![c] = "relay"] /\ held2' = [held2 EXCEPT ![c] = {"conn", "remote"}]
        /\ trelayed' = [trelayed EXCEPT ![c] = tarrived[c]]
        /\ thost' = [thost EXCEPT ![c] = "up"]
        /\ UNCHANGED <<tmain, tarrived, tanswer, tback, tclient>>
    BY <1>4 DEF RelaysRequest, FindsHost
  <2>2. held2' = [held2 EXCEPT ![c] = held2[c] \cup {"remote"}] /\ "remote" \notin held2[c]
    <3>1. held2[c] = {"conn"}
      BY <1>1, <2>1 DEF Tidy
    <3>2. {"conn"} \cup {"remote"} = {"conn", "remote"}
      OBVIOUS
    <3> QED
      BY <2>1, <3>1, <3>2
  <2>3. OpenSockets' <= ThreadFds
    <3>1. PICK m \in Nat, o \in Nat : m = ThreadFds /\ o = OpenSockets
      BY ThreadProxyAssumption, SocketsCount, HeldFinite
    <3>2. OpenSockets' = o + 1
      BY <1>1, <2>2, <3>1, SocketsCount, OneMoreSocket DEF ThreadTyped
    <3> QED
      BY <2>1, <3>1, <3>2
  <2>4. /\ tread' \in [Connection -> Nat] /\ tport' \in [Connection -> Int]
        /\ \A d \in Connection : d # c => tread'[d] = tread[d] /\ tport'[d] = tport[d]
    BY <1>1, <2>1, ConnectsTo
  <2>5. PortRight(c)' /\ tread'[c] = tarrived[c]
    BY <1>1, <2>1, ConnectsTo
  <2>6. ThreadTyped'
    BY <1>1, <2>1, <2>4 DEF ThreadTyped
  <2>7. Tidy(c)'
    BY <1>1, <2>1, <2>5 DEF ThreadTyped, Tidy
  <2> QED
    BY <1>1, <2>1, <2>3, <2>4, <2>6, <2>7, OthersTidy DEF ThreadTyped
<1>5. CASE RelaysAnswer(c)
  <2>1. /\ tmain # "died" /\ tpc[c] = "relay"
        /\ UNCHANGED <<tmain, tarrived, tread, trelayed, tport, tanswer, thost, tclient>>
    BY <1>5 DEF RelaysAnswer
  <2>2. CASE /\ tback[c] < tanswer[c] /\ tback' = [tback EXCEPT ![c] = tanswer[c]]
             /\ UNCHANGED <<tpc, held2>>
    <3>1. ThreadTyped'
      BY <1>1, <2>1, <2>2 DEF ThreadTyped
    <3>2. Tidy(c)'
      BY <1>1, <2>1, <2>2 DEF ThreadTyped, Tidy, PortRight
    <3>3. OpenSockets' = OpenSockets
      BY <2>2, SocketsCount
    <3> QED
      BY <1>1, <2>1, <2>2, <3>1, <3>2, <3>3, OthersTidy DEF ThreadTyped
  <2>3. CASE Ends(c) /\ UNCHANGED tback /\ (tclient[c] = "gone" \/ (tback[c] = tanswer[c] /\ thost[c] = "closed"))
    <3>1. UNCHANGED <<tread, tport>> /\ tread \in [Connection -> Nat] /\ tport \in [Connection -> Int]
      BY <1>1, <2>1 DEF ThreadTyped
    <3>2. /\ tread'[c] <= tarrived[c] /\ trelayed[c] \in {0, tread'[c]}
          /\ tport'[c] # -1 => PortRight(c)'
      BY <1>1, <3>1 DEF Tidy, PortRight
    <3> QED
      BY <2>1, <2>3, <3>1, <3>2, EndsKeeps
  <2>4. \/ /\ tback[c] < tanswer[c] /\ tback' = [tback EXCEPT ![c] = tanswer[c]]
           /\ UNCHANGED <<tpc, held2>>
        \/ tback[c] < tanswer[c] /\ tclient[c] = "gone" /\ Ends(c) /\ UNCHANGED tback
        \/ tback[c] = tanswer[c] /\ thost[c] = "closed" /\ Ends(c) /\ UNCHANGED tback
    BY <1>5, Zenon DEF RelaysAnswer
  <2> QED
    BY <2>2, <2>3, <2>4
<1> QED
  BY <1>2, <1>3, <1>4, <1>5 DEF Handler

\* Nothing is connected and nothing held.
LEMMA ThreadStart == ThreadInit => ThreadInv
<1> SUFFICES ASSUME ThreadInit PROVE ThreadInv
  OBVIOUS
<1>1. ThreadTyped
  BY DEF ThreadInit, ThreadTyped
<1>2. ASSUME NEW c \in Connection PROVE Tidy(c)
  BY <1>2 DEF ThreadInit, Tidy
<1>3. OpenSockets = 0
  <2>1. HeldIn(held2) = {}
    BY DEF ThreadInit, HeldIn
  <2> QED
    BY <2>1, SocketsCount, FS_EmptySet
<1> QED
  BY <1>1, <1>2, <1>3, ThreadProxyAssumption DEF ThreadInit, ThreadInv

\* Every step of the threaded proxy and of its peers keeps the invariant.
LEMMA ThreadStep == ThreadInv /\ [ThreadNext]_threadVars => ThreadInv'
<1> SUFFICES ASSUME ThreadInv, [ThreadNext]_threadVars PROVE ThreadInv'
  OBVIOUS
<1>1. CASE ThreadNext
  BY <1>1, ThreadNetKeeps, RunKeeps, HandlerTidy DEF ThreadNext
<1>2. CASE UNCHANGED threadVars
  <2>1. UNCHANGED <<tmain, tpc, held2, tarrived, tread, trelayed, tport, tanswer, tback, thost, tclient>>
    BY <1>2 DEF threadVars, threadProc, threadNet
  <2>2. OpenSockets' = OpenSockets
    BY <2>1, SocketsCount
  <2> QED
    BY <2>1, <2>2 DEF ThreadInv, ThreadTyped, Tidy, PortRight
<1> QED
  BY <1>1, <1>2

\* What the invariant says of the threads is what is claimed of them.
LEMMA ThreadInvTidies == ThreadInv => ThreadsTidy
<1> SUFFICES ASSUME ThreadInv PROVE ThreadsTidy
  OBVIOUS
<1>1. ASSUME NEW c \in Connection
      PROVE  /\ (held2[c] = {}) <=> (tpc[c] \in {"none", "ended"})
             /\ tpc[c] = "ended" /\ tclient[c] = "up" => tback[c] = tanswer[c]
  <2>1. Tidy(c) /\ tpc[c] \in {"none", "recv", "relay", "ended"} /\ tback[c] \in Nat
    BY DEF ThreadInv, ThreadTyped
  <2> QED
    BY <2>1 DEF Tidy
<1>2. ASSUME NEW c \in Connection
      PROVE  /\ tread[c] <= tarrived[c] /\ trelayed[c] \in {0, tread[c]} /\ tback[c] <= tanswer[c]
             /\ tport[c] # -1 => PortRight(c)
  BY DEF ThreadInv, Tidy
<1> QED
  BY <1>1, <1>2 DEF ThreadsTidy, ThreadInv, PortRight, LessDigits
-------------------------------------------------------------------------------
(* The select() relay *)

\* The other end of a pair is another end, and its other end is the first.
LEMMA PartnerOf ==
  /\ listen_sock \notin ProxyEnd
  /\ \A e \in ProxyEnd : Partner(e) \in ProxyEnd /\ Partner(e) # e /\ Partner(Partner(e)) = e
  /\ \A k \in Pair : /\ <<k, "client">> \in ProxyEnd /\ <<k, "upstream">> \in ProxyEnd
                     /\ Partner(<<k, "client">>) = <<k, "upstream">>
                     /\ Partner(<<k, "upstream">>) = <<k, "client">>
<1>1. listen_sock \notin ProxyEnd
  BY DEF listen_sock, ProxyEnd
<1>2. ASSUME NEW e \in ProxyEnd
      PROVE  Partner(e) \in ProxyEnd /\ Partner(e) # e /\ Partner(Partner(e)) = e
  <2>1. PICK k \in Pair, w \in {"client", "upstream"} : e = <<k, w>>
    BY DEF ProxyEnd
  <2>2. CASE w = "client"
    BY <2>1, <2>2 DEF ProxyEnd, Partner
  <2>3. CASE w = "upstream"
    BY <2>1, <2>3 DEF ProxyEnd, Partner
  <2> QED
    BY <2>2, <2>3
<1>3. ASSUME NEW k \in Pair
      PROVE  /\ <<k, "client">> \in ProxyEnd /\ <<k, "upstream">> \in ProxyEnd
             /\ Partner(<<k, "client">>) = <<k, "upstream">>
             /\ Partner(<<k, "upstream">>) = <<k, "client">>
  BY DEF ProxyEnd, Partner
<1> QED
  BY <1>1, <1>2, <1>3

\* No element twice.
Once(s) == \A x, y \in 1 .. Len(s) : s[x] = s[y] => x = y

\* read_socks.append() of two sockets that are not in the list.
LEMMA AppendTwo ==
  ASSUME NEW S, NEW s \in Seq(S), NEW c \in S, NEW u \in S, c # u,
         c \notin Range(s), u \notin Range(s), Once(s)
  PROVE  /\ s \o <<c, u>> \in Seq(S)
         /\ Once(s \o <<c, u>>)
         /\ Range(s \o <<c, u>>) = Range(s) \cup {c, u}
<1>1. PICK t : t = s \o <<c, u>>
  OBVIOUS
<1>2. PICK n \in Nat : n = Len(s)
  OBVIOUS
<1>3. /\ t \in Seq(S) /\ Len(t) = n + 2
      /\ \A x \in 1 .. n : t[x] = s[x]
      /\ t[n + 1] = c /\ t[n + 2] = u
  BY <1>1, <1>2
<1>4. DOMAIN t = 1 .. n + 2 /\ DOMAIN s = 1 .. n
  BY <1>2, <1>3
<1>5. \A x \in 1 .. n : s[x] \in Range(s)
  BY <1>4 DEF Range
<1>6. Once(t)
  <2> SUFFICES ASSUME NEW x \in 1 .. n + 2, NEW y \in 1 .. n + 2, t[x] = t[y] PROVE x = y
    BY <1>3 DEF Once
  <2>1. CASE x \in 1 .. n /\ y \in 1 .. n
    BY <1>2, <1>3, <2>1 DEF Once
  <2>2. CASE x \in 1 .. n /\ y \notin 1 .. n
    <3>1. y = n + 1 \/ y = n + 2
      BY <2>2
    <3> QED
      BY <1>3, <1>5, <2>2, <3>1
  <2>3. CASE x \notin 1 .. n /\ y \in 1 .. n
    <3>1. x = n + 1 \/ x = n + 2
      BY <2>3
    <3> QED
      BY <1>3, <1>5, <2>3, <3>1
  <2>4. CASE x \notin 1 .. n /\ y \notin 1 .. n
    <3>1. (x = n + 1 \/ x = n + 2) /\ (y = n + 1 \/ y = n + 2)
      BY <2>4
    <3> QED
      BY <1>3, <3>1
  <2> QED
    BY <2>1, <2>2, <2>3, <2>4
<1>7. Range(t) = Range(s) \cup {c, u}
  <2>1. ASSUME NEW v \in Range(t) PROVE v \in Range(s) \cup {c, u}
    <3>1. PICK x \in 1 .. n + 2 : v = t[x]
      BY <1>4, <2>1 DEF Range
    <3>2. x \in 1 .. n \/ x = n + 1 \/ x = n + 2
      OBVIOUS
    <3> QED
      BY <1>3, <1>5, <3>1, <3>2
  <2>2. ASSUME NEW v \in Range(s) PROVE v \in Range(t)
    <3>1. PICK x \in 1 .. n : v = s[x]
      BY <1>4, <2>2 DEF Range
    <3>2. x \in DOMAIN t /\ v = t[x]
      BY <1>3, <1>4, <3>1
    <3> QED
      BY <3>2 DEF Range
  <2>3. n + 1 \in DOMAIN t /\ n + 2 \in DOMAIN t
    BY <1>4
  <2>4. c \in Range(t) /\ u \in Range(t)
    BY <1>3, <2>3 DEF Range
  <2> QED
    BY <2>1, <2>2, <2>4
<1> QED
  BY <1>1, <1>3, <1>6, <1>7

\* read_socks.remove() of a socket that is in the list once.
LEMMA RemoveOne ==
  ASSUME NEW S, NEW s \in Seq(S), Once(s), NEW e \in Range(s)
  PROVE  /\ RemoveFirst(s, e) \in Seq(S)
         /\ Once(RemoveFirst(s, e))
         /\ Range(RemoveFirst(s, e)) = Range(s) \ {e}
<1>1. PICK t : t = RemoveFirst(s, e)
  OBVIOUS
<1>2. PICK n \in Nat : n = Len(s)
  OBVIOUS
<1>3. DOMAIN s = 1 .. n /\ \A x \in 1 .. n : s[x] \in S
  BY <1>2
<1>4. PICK i \in 1 .. n : s[i] = e
  BY <1>3 DEF Range
<1>5. ASSUME NEW x \in 1 .. n, s[x] = e PROVE x = i
  BY <1>2, <1>4, <1>5 DEF Once
<1>6. SelectInSeq(s, LAMBDA v : v = e) = i
  <2>1. {x \in 1 .. Len(s) : s[x] = e} = {i}
    BY <1>2, <1>4, <1>5
  <2>2. Min({i}) = i
    BY DEF Min
  <2> QED
    BY <2>1, <2>2 DEF SelectInSeq
<1>7. t = SubSeq(s, 1, i - 1) \o SubSeq(s, i + 1, n)
  BY <1>1, <1>2, <1>4, <1>6 DEF RemoveFirst, RemoveAt
<1>8. PICK a : a = SubSeq(s, 1, i - 1)
  OBVIOUS
<1>9. PICK b : b = SubSeq(s, i + 1, n)
  OBVIOUS
<1>10. a \in Seq(S) /\ Len(a) = i - 1 /\ \A x \in 1 .. i - 1 : a[x] = s[x]
  BY <1>3, <1>8
<1>11. b \in Seq(S) /\ Len(b) = n - i /\ \A x \in 1 .. n - i : b[x] = s[i + x]
  BY <1>3, <1>9
<1>12. /\ t \in Seq(S) /\ Len(t) = n - 1
       /\ \A x \in 1 .. n - 1 : t[x] = IF x < i THEN s[x] ELSE s[x + 1]
  <2>1. t = a \o b
    BY <1>7, <1>8, <1>9
  <2>2. t \in Seq(S) /\ Len(t) = n - 1
    <3>1. t \in Seq(S) /\ Len(t) = Len(a) + Len(b)
      BY ONLY <1>10, <1>11, <2>1, ConcatProperties
    <3> QED
      BY <1>10, <1>11, <3>1
  <2>3. ASSUME NEW x \in 1 .. n - 1 PROVE t[x] = IF x < i THEN s[x] ELSE s[x + 1]
    <3>1. CASE x < i
      <4>1. x \in 1 .. Len(a)
        BY <1>10, <3>1
      <4>2. t[x] = a[x]
        BY ONLY <1>10, <1>11, <2>1, <4>1
      <4> QED
        BY <1>10, <3>1, <4>2
    <3>2. CASE ~(x < i)
      <4>1. x \in Len(a) + 1 .. Len(a) + Len(b) /\ x - Len(a) \in 1 .. n - i
        BY <1>10, <1>11, <3>2
      <4>2. t[x] = b[x - Len(a)]
        BY ONLY <1>10, <1>11, <2>1, <4>1
      <4>3. b[x - Len(a)] = s[i + (x - Len(a))] /\ i + (x - Len(a)) = x + 1
        BY <1>10, <1>11, <4>1
      <4> QED
        BY <3>2, <4>2, <4>3
    <3> QED
      BY <3>1, <3>2
  <2> QED
    BY <2>2, <2>3
<1>13. DOMAIN t = 1 .. n - 1
  BY <1>12
<1>14. Once(t)
  <2> SUFFICES ASSUME NEW x \in 1 .. n - 1, NEW y \in 1 .. n - 1, t[x] = t[y] PROVE x = y
    BY <1>12 DEF Once
  <2>1. PICK p \in 1 .. n : p = (IF x < i THEN x ELSE x + 1) /\ t[x] = s[p]
    BY <1>12
  <2>2. PICK q \in 1 .. n : q = (IF y < i THEN y ELSE y + 1) /\ t[y] = s[q]
    BY <1>12
  <2>3. p = q
    BY <1>2, <2>1, <2>2 DEF Once
  <2> QED
    BY <2>1, <2>2, <2>3
<1>15. Range(t) = Range(s) \ {e}
  <2>1. ASSUME NEW v \in Range(t) PROVE v \in Range(s) \ {e}
    <3>1. PICK x \in 1 .. n - 1 : v = t[x]
      BY <1>13, <2>1 DEF Range
    <3>2. PICK p \in 1 .. n : p # i /\ v = s[p]
      BY <1>12, <3>1
    <3> QED
      BY <1>3, <1>5, <3>2 DEF Range
  <2>2. ASSUME NEW v \in Range(s) \ {e} PROVE v \in Range(t)
    <3>1. PICK x \in 1 .. n : v = s[x] /\ x # i
      BY <1>3, <1>4, <2>2 DEF Range
    <3>2. PICK p \in 1 .. n - 1 : p = IF x < i THEN x ELSE x - 1
      BY <3>1
    <3>3. t[p] = v
      BY <1>12, <3>1, <3>2
    <3> QED
      BY <1>13, <3>3 DEF Range
  <2> QED
    BY <2>1, <2>2
<1> QED
  BY <1>1, <1>12, <1>14, <1>15

Sock == ProxyEnd \cup {listen_sock}
Open == {e \in ProxyEnd : psock[e] = "open"}

SimpleTyped ==
    /\ ppc \in {"select", "loop", "send", "died"}
    /\ read_socks \in Seq(Sock) /\ pqueue \in Nat
    /\ psock \in [ProxyEnd -> {"none", "open", "closed"}]
    /\ ppeer \in [ProxyEnd -> {"open", "half", "gone", "reset"}]
    /\ {pavail, pgot, psent} \subseteq [ProxyEnd -> Nat]
    /\ toSend = [to |-> toSend.to, left |-> toSend.left, begun |-> toSend.begun]
    /\ toSend.left \in Nat

\* read_socks and routes hold the open sockets.
ListRight ==
    /\ Once(read_socks)
    /\ Range(read_socks) = Open \cup {listen_sock}
    /\ routes = [e \in Open |-> Partner(e)]

\* What is left of select()'s answer is still true of the sockets, as only the loop
\* itself closes and accepts.
RoundRight ==
    ppc # "died" => /\ rsocks \subseteq Range(read_socks)
                    /\ listen_sock \in rsocks => pqueue > 0

\* Clients that wait or were accepted are no more than the bound.
PairsBounded == Cardinality(Accepted) + pqueue <= ProxyPairs

\* accept_client opens both sockets of a pair, which have carried nothing before.
PairsRight ==
    \A e \in ProxyEnd :
        psock[e] = "none" => psock[Partner(e)] = "none" /\ pgot[e] = 0 /\ psent[e] = 0

\* What is received from an end is sent to its partner or being sent, but for what a
\* reset of the partner has cut off.
InFlight(e) == IF ppc = "send" /\ toSend.to = e THEN toSend.left ELSE 0
PassedOn(e) ==
    \/ psent[Partner(e)] + InFlight(Partner(e)) = pgot[e]
    \/ psent[Partner(e)] + InFlight(Partner(e)) < pgot[e] /\ WasReset(Partner(e))

SentRight ==
    /\ ppc = "send" => /\ toSend.to \in ProxyEnd /\ psock[toSend.to] # "none"
                        /\ toSend.left > 0
    /\ ppc # "died" => \A e \in Open : psock[Partner(e)] = "open" => PassedOn(e)

DiedRight ==
    ppc = "died" =>
        \/ refused
        \/ listen_sock \in rsocks /\ ~TwoLeft
        \/ \E e \in ProxyEnd : WasReset(e)
        \/ psock[toSend.to] = "closed" /\ toSend.left > 0

SimpleInv ==
    /\ SimpleTyped /\ ListRight /\ RoundRight /\ PairsBounded /\ PairsRight
    /\ SentRight /\ DiedRight

\* The inductive invariant is stronger than what the run checks.
LEMMA SimpleInvSound ==
  ASSUME SimpleInv
  PROVE  RoutesSound
<1>1. Range(read_socks) \ {listen_sock} = Open
  BY PartnerOf DEF SimpleInv, ListRight, Open
<1>2. ASSUME ppc = "select", NEW e \in DOMAIN routes, psock[Partner(e)] = "open"
      PROVE  \/ psent[Partner(e)] = pgot[e]
             \/ psent[Partner(e)] < pgot[e] /\ WasReset(Partner(e))
  <2>1. e \in Open /\ e \in ProxyEnd /\ Partner(e) \in ProxyEnd
    BY PartnerOf DEF SimpleInv, ListRight, Open
  <2>2. psent[Partner(e)] \in Nat /\ InFlight(Partner(e)) = 0
    BY <1>2, <2>1 DEF SimpleInv, SimpleTyped, InFlight
  <2>3. PassedOn(e)
    BY <1>2, <2>1 DEF SimpleInv, SentRight
  <2> QED
    BY <2>2, <2>3 DEF PassedOn
<1> QED
  BY <1>1, <1>2 DEF SimpleInv, ListRight, DiedRight, RoutesSound, Open, Once

\* The program starts with nothing accepted.
LEMMA SimpleStart ==
  ASSUME SimpleInit
  PROVE  SimpleInv
<1>1. ProxyPairs \in Nat
  BY SimpleProxyAssumption
<1>2. Open = {} /\ Accepted = {}
  BY PartnerOf DEF SimpleInit, Open, Accepted
<1>3. Cardinality(Accepted) + pqueue = 0
  <2>1. Cardinality({}) = 0
    BY FS_EmptySet
  <2> QED
    BY <1>2, <2>1 DEF SimpleInit
<1>4. SimpleTyped
  BY DEF SimpleInit, SimpleTyped, Sock
<1>5. ListRight
  <2>1. Range(<<listen_sock>>) = {listen_sock}
    BY DEF Range
  <2>2. Once(<<listen_sock>>)
    BY DEF Once
  <2>3. routes = [e \in Open |-> Partner(e)]
    BY <1>2 DEF SimpleInit
  <2> QED
    BY <1>2, <2>1, <2>2, <2>3 DEF SimpleInit, ListRight
<1>6. RoundRight /\ PairsRight /\ SentRight /\ DiedRight
  BY <1>2, PartnerOf DEF SimpleInit, RoundRight, PairsRight, SentRight, DiedRight
<1> QED
  BY <1>1, <1>3, <1>4, <1>5, <1>6 DEF SimpleInv, PairsBounded

\* The accepted pairs are finitely many.
LEMMA AcceptedFinite == IsFiniteSet(Accepted) /\ Cardinality(Accepted) \in Nat
<1>1. PICK P : P = Pair
  OBVIOUS
<1>2. IsFiniteSet(P)
  <2>1. PICK l \in Int, h \in Int : l = 1 /\ h = ProxyPairs
    BY SimpleProxyAssumption
  <2> QED
    BY <1>1, <2>1, FS_Interval DEF Pair
<1>3. Accepted \in SUBSET P
  BY <1>1 DEF Accepted
<1> QED
  BY <1>2, <1>3, FS_Subset, FS_CardinalityType

\* What the peers and the kernel may change: clients come, and who has reset has.
PeersMove ==
    /\ UNCHANGED <<ppc, read_socks, rsocks, routes, toSend, refused, pfds, psock, pgot, psent>>
    /\ pqueue' \in Nat /\ pqueue' >= pqueue
    /\ pqueue' = pqueue \/ Cardinality(Accepted) + pqueue' <= ProxyPairs
    /\ pavail' \in [ProxyEnd -> Nat]
    /\ ppeer' \in [ProxyEnd -> {"open", "half", "gone", "reset"}]
    /\ \A e \in ProxyEnd : ppeer[e] = "reset" => ppeer'[e] = "reset"
    /\ pback \subseteq pback'

\* Clients, upstream servers and the kernel.
LEMMA SimpleNetMoves ==
  ASSUME SimpleInv,
         \/ ProxyClientConnects
         \/ \E e \in ProxyEnd : \/ ProxyPeerSends(e) \/ ProxyPeerReads(e) \/ ProxyPeerEnds(e)
                                \/ ProxyResetComesBack(e)
         \/ UNCHANGED simpleVars
  PROVE  PeersMove
<1>1. /\ pqueue \in Nat /\ pavail \in [ProxyEnd -> Nat]
      /\ ppeer \in [ProxyEnd -> {"open", "half", "gone", "reset"}]
  BY DEF SimpleInv, SimpleTyped
<1>2. CASE ProxyClientConnects
  <2>1. ProxyPairs \in Nat
    BY SimpleProxyAssumption
  <2>2. PICK n \in Nat : n = Cardinality(Accepted)
    BY AcceptedFinite
  <2>3. n + pqueue < ProxyPairs /\ pqueue' = pqueue + 1
    BY <1>2, <2>2 DEF ProxyClientConnects
  <2>4. n + pqueue' <= ProxyPairs /\ pqueue' \in Nat /\ pqueue' >= pqueue
    BY <1>1, <2>1, <2>3
  <2> QED
    BY <1>1, <1>2, <2>2, <2>4 DEF ProxyClientConnects, proxyVars, PeersMove
<1>3. ASSUME NEW e \in ProxyEnd, ProxyPeerSends(e) PROVE PeersMove
  <2>1. /\ pavail' = [pavail EXCEPT ![e] = @ + 1]
        /\ UNCHANGED <<ppc, read_socks, rsocks, routes, toSend, refused, pfds, pqueue, psock,
                       ppeer, pgot, psent, pback>>
    BY <1>3, Zenon DEF ProxyPeerSends, proxyVars
  <2>2. pavail' \in [ProxyEnd -> Nat]
    BY <1>1, <1>3, <2>1
  <2> QED
    BY <1>1, <2>1, <2>2 DEF PeersMove
<1>4. ASSUME NEW e \in ProxyEnd, ProxyPeerReads(e) PROVE PeersMove
  BY <1>1, <1>4 DEF ProxyPeerReads, proxyVars, PeersMove
<1>5. ASSUME NEW e \in ProxyEnd, ProxyPeerEnds(e) PROVE PeersMove
  <2>1. PICK how \in {"half", "gone", "reset"} : ppeer' = [ppeer EXCEPT ![e] = how]
    BY <1>5 DEF ProxyPeerEnds
  <2>2. /\ ppeer' \in [ProxyEnd -> {"open", "half", "gone", "reset"}]
        /\ \A x \in ProxyEnd : ppeer[x] = "reset" => ppeer'[x] = "reset"
    BY <1>1, <1>5, <2>1 DEF ProxyPeerEnds
  <2> QED
    BY <1>1, <1>5, <2>2 DEF ProxyPeerEnds, proxyVars, PeersMove
<1>6. ASSUME NEW e \in ProxyEnd, ProxyResetComesBack(e) PROVE PeersMove
  BY <1>1, <1>6 DEF ProxyResetComesBack, proxyVars, PeersMove
<1>7. CASE UNCHANGED simpleVars
  BY <1>1, <1>7 DEF simpleVars, proxyVars, proxyNet, PeersMove
<1> QED
  BY <1>2, <1>3, <1>4, <1>5, <1>6, <1>7

\* What the peers of simple_proxy.py do changes none of its sockets and routes.
LEMMA SimpleNetKeeps ==
  ASSUME SimpleInv, PeersMove
  PROVE  SimpleInv'
<1>1. SimpleTyped' /\ Open' = Open /\ Accepted' = Accepted
  BY DEF SimpleInv, SimpleTyped, PeersMove, Open, Accepted
<1>2. ListRight'
  BY <1>1 DEF SimpleInv, ListRight, PeersMove, Once
<1>3. RoundRight'
  BY DEF SimpleInv, SimpleTyped, RoundRight, PeersMove
<1>4. PairsBounded'
  BY <1>1 DEF SimpleInv, PairsBounded, PeersMove
<1>5. PairsRight'
  BY DEF SimpleInv, PairsRight, PeersMove
<1>6. SentRight'
  <2>1. ASSUME NEW e \in ProxyEnd, PassedOn(e) PROVE PassedOn(e)'
    BY <2>1, PartnerOf DEF PassedOn, InFlight, WasReset, PeersMove
  <2> QED
    BY <1>1, <2>1 DEF SimpleInv, SentRight, Open, PeersMove
<1>7. DiedRight'
  BY DEF SimpleInv, DiedRight, PeersMove, TwoLeft, WasReset
<1> QED
  BY <1>1, <1>2, <1>3, <1>4, <1>5, <1>6, <1>7 DEF SimpleInv

\* select() and the end of a round.
LEMMA SelectKeeps ==
  ASSUME SimpleInv, ProxySelect \/ ProxyRoundDone
  PROVE  SimpleInv'
<1>0. UNCHANGED <<read_socks, routes, toSend, refused, pqueue, psock, ppeer, pavail, pgot, psent, pback>>
  BY DEF ProxySelect, ProxyRoundDone, proxyNet
<1>1. ppc \in {"select", "loop"} /\ ppc' \in {"select", "loop"}
  BY DEF ProxySelect, ProxyRoundDone
<1>2. SimpleTyped' /\ Open' = Open /\ Accepted' = Accepted
  BY <1>0, <1>1 DEF SimpleInv, SimpleTyped, Open, Accepted
<1>3. ListRight'
  BY <1>0, <1>2 DEF SimpleInv, ListRight, Once
<1>4. RoundRight'
  <2>1. CASE ProxySelect
    BY <1>0, <2>1 DEF ProxySelect, ProxyReadable, RoundRight
  <2>2. CASE ProxyRoundDone
    BY <1>0, <2>2 DEF ProxyRoundDone, RoundRight
  <2> QED
    BY <2>1, <2>2
<1>5. PairsBounded' /\ PairsRight'
  BY <1>0, <1>2 DEF SimpleInv, PairsBounded, PairsRight
<1>6. SentRight'
  BY <1>0, <1>1, <1>2 DEF SimpleInv, SentRight, PassedOn, InFlight, WasReset
<1>7. DiedRight'
  BY <1>1 DEF DiedRight
<1> QED
  BY <1>2, <1>3, <1>4, <1>5, <1>6, <1>7 DEF SimpleInv

\* An exception ends the program: accept(), socket(), connect(), recv() or send() raised.
LEMMA RaisesKeeps ==
  ASSUME SimpleInv,
         ConnectRaises \/ SocketRaises \/ SendRaises \/ \E e \in ProxyEnd : RecvRaises(e)
  PROVE  SimpleInv'
<1>0. /\ ppc' = "died"
      /\ UNCHANGED <<read_socks, routes, toSend, pqueue, psock, ppeer, pavail, pgot, psent, pback>>
  BY DEF ConnectRaises, SocketRaises, SendRaises, RecvRaises, proxyNet
<1>1. SimpleTyped' /\ Open' = Open /\ Accepted' = Accepted
  BY <1>0 DEF SimpleInv, SimpleTyped, Open, Accepted
<1>2. ListRight'
  BY <1>0, <1>1 DEF SimpleInv, ListRight, Once
<1>3. RoundRight' /\ SentRight'
  BY <1>0 DEF RoundRight, SentRight
<1>4. PairsBounded' /\ PairsRight'
  BY <1>0, <1>1 DEF SimpleInv, PairsBounded, PairsRight
<1>5. DiedRight'
  <2>1. CASE ConnectRaises
    BY <2>1 DEF ConnectRaises, DiedRight
  <2>2. CASE \E e \in ProxyEnd : RecvRaises(e)
    BY <1>0, <2>2 DEF RecvRaises, DiedRight, WasReset
  <2>3. CASE SendRaises
    BY <1>0, <2>3 DEF SendRaises, DiedRight, WasReset, SimpleInv, SentRight
  <2>4. CASE SocketRaises
    BY <1>0, <2>4 DEF SocketRaises, Serving, DiedRight, TwoLeft
  <2> QED
    BY <2>1, <2>2, <2>3, <2>4
<1> QED
  BY <1>1, <1>2, <1>3, <1>4, <1>5 DEF SimpleInv

\* accept_client: a pair with a new number, and the upstream connection made.
LEMMA AcceptKeeps ==
  ASSUME SimpleInv, accept_client
  PROVE  SimpleInv'
<1>0. /\ ppc = "loop" /\ listen_sock \in rsocks /\ pqueue > 0
      /\ rsocks' = rsocks \ {listen_sock} /\ pqueue' = pqueue - 1
      /\ UNCHANGED <<ppc, toSend, refused, ppeer, pavail, pgot, psent, pback>>
  BY DEF accept_client, Serving, SimpleInv, RoundRight
<1> DEFINE k == CHOOSE x \in Pair \ Accepted : \A y \in Pair \ Accepted : x <= y
           c == <<k, "client">>
           u == <<k, "upstream">>
<1>1. k = CHOOSE x \in Pair \ Accepted : \A y \in Pair \ Accepted : x <= y
  OBVIOUS
<1>2. c = <<k, "client">> /\ u = <<k, "upstream">>
  OBVIOUS
<1>3. /\ read_socks' = read_socks \o <<c, u>>
      /\ routes' = [e \in DOMAIN routes \cup {c, u} |->
                        IF e = c THEN u ELSE IF e = u THEN c ELSE routes[e]]
      /\ psock' = [psock EXCEPT ![c] = "open", ![u] = "open"]
  BY Zenon DEF accept_client
<1> HIDE DEF k, c, u
<1>4. PICK n \in Nat : n = Cardinality(Accepted)
  BY AcceptedFinite
<1>5. pqueue \in Nat /\ ProxyPairs \in Nat /\ n + pqueue <= ProxyPairs
  BY <1>4, SimpleProxyAssumption DEF SimpleInv, SimpleTyped, PairsBounded
<1>6. k \in Pair /\ k \notin Accepted
  <2>1. PICK S : S = Pair \ Accepted
    OBVIOUS
  <2>2. S \subseteq Nat
    BY <2>1, SimpleProxyAssumption DEF Pair
  <2>3. S # {}
    <3>1. PICK P : P = Pair
      OBVIOUS
    <3>2. Cardinality(P) = ProxyPairs
      <4>1. PICK l \in Int, h \in Int : l = 1 /\ h = ProxyPairs
        BY <1>5
      <4>2. Cardinality(l .. h) = IF l > h THEN 0 ELSE h - l + 1
        BY FS_Interval
      <4> QED
        BY <1>5, <3>1, <4>1, <4>2 DEF Pair
    <3>3. Cardinality(Accepted) # Cardinality(P)
      BY <1>0, <1>4, <1>5, <3>2
    <3>4. Accepted \subseteq P
      BY <3>1 DEF Accepted
    <3> QED
      BY <2>1, <3>1, <3>3, <3>4
  <2>4. PICK x \in S : \A y \in S : x <= y
    BY <2>2, <2>3, SmallestOf
  <2>5. k = CHOOSE z \in S : \A y \in S : z <= y
    BY <1>1, <2>1
  <2>6. k \in S
    BY <2>4, <2>5
  <2> QED
    BY <2>1, <2>6
<1>7. /\ c \in ProxyEnd /\ u \in ProxyEnd /\ c # u
      /\ Partner(c) = u /\ Partner(u) = c
  BY <1>2, <1>6, PartnerOf
<1>8. psock[c] = "none" /\ psock[u] = "none"
  <2>1. psock[c] = "none"
    BY <1>2, <1>6 DEF Accepted
  <2> QED
    BY <1>7, <2>1 DEF SimpleInv, PairsRight
<1>9. psock \in [ProxyEnd -> {"none", "open", "closed"}]
  BY DEF SimpleInv, SimpleTyped
<1>10. /\ psock' \in [ProxyEnd -> {"none", "open", "closed"}]
       /\ psock'[c] = "open" /\ psock'[u] = "open"
       /\ \A e \in ProxyEnd : e # c /\ e # u => psock'[e] = psock[e]
  BY <1>3, <1>7, <1>9
<1>11. Open' = Open \cup {c, u} /\ c \notin Open /\ u \notin Open
  BY <1>7, <1>8, <1>10 DEF Open
<1>12. Accepted' = Accepted \cup {k}
  <2>1. ASSUME NEW x \in Pair, x # k PROVE psock'[<<x, "client">>] = psock[<<x, "client">>]
    BY <1>2, <1>10, <2>1, PartnerOf
  <2> QED
    BY <1>2, <1>6, <1>10, <2>1 DEF Accepted
<1>13. /\ read_socks' \in Seq(Sock) /\ Once(read_socks')
       /\ Range(read_socks') = Range(read_socks) \cup {c, u}
  <2>1. read_socks \in Seq(Sock) /\ Once(read_socks)
    BY DEF SimpleInv, SimpleTyped, ListRight
  <2>2. c \notin Range(read_socks) /\ u \notin Range(read_socks)
    BY <1>7, <1>11, PartnerOf DEF SimpleInv, ListRight
  <2>3. c \in Sock /\ u \in Sock
    BY <1>7 DEF Sock
  <2> QED
    BY <1>3, <1>7, <2>1, <2>2, <2>3, AppendTwo
<1>14. SimpleTyped'
  <2>1. SimpleTyped
    BY DEF SimpleInv
  <2>2. pqueue' \in Nat
    BY <1>0, <1>5
  <2> QED
    BY <1>0, <1>10, <1>13, <2>1, <2>2 DEF SimpleTyped
<1>15. ListRight'
  <2>1. routes = [e \in Open |-> Partner(e)]
    BY DEF SimpleInv, ListRight
  <2>2. routes' = [e \in Open \cup {c, u} |->
                      IF e = c THEN u ELSE IF e = u THEN c ELSE routes[e]]
    BY <1>3, <2>1
  <2>3. routes' = [e \in Open \cup {c, u} |-> Partner(e)]
    BY <1>7, <1>11, <2>1, <2>2
  <2>4. routes' = [e \in Open' |-> Partner(e)]
    BY <1>11, <2>3
  <2>5. Range(read_socks') = Open' \cup {listen_sock}
    BY <1>11, <1>13 DEF SimpleInv, ListRight
  <2> QED
    BY <1>13, <2>4, <2>5 DEF ListRight
<1>16. RoundRight'
  BY <1>0, <1>13 DEF SimpleInv, RoundRight
<1>17. PairsBounded'
  <2>1. Cardinality(Accepted \cup {k}) = n + 1
    BY <1>4, <1>6, AcceptedFinite, FS_AddElement
  <2>2. (n + 1) + pqueue' <= ProxyPairs
    BY <1>0, <1>5
  <2> QED
    BY <1>12, <2>1, <2>2 DEF PairsBounded
<1>18. PairsRight'
  <2> SUFFICES ASSUME NEW e \in ProxyEnd, psock'[e] = "none"
               PROVE  psock'[Partner(e)] = "none" /\ pgot'[e] = 0 /\ psent'[e] = 0
    BY DEF PairsRight
  <2>1. e # c /\ e # u /\ psock[e] = "none"
    BY <1>10
  <2>2. Partner(e) # c /\ Partner(e) # u /\ Partner(e) \in ProxyEnd
    BY <1>7, <2>1, PartnerOf
  <2> QED
    BY <1>0, <1>10, <2>1, <2>2 DEF SimpleInv, PairsRight
<1>19. SentRight'
  <2>1. ASSUME NEW e \in Open', psock'[Partner(e)] = "open"
        PROVE  PassedOn(e)'
    <3>1. InFlight(Partner(e))' = 0 /\ InFlight(Partner(e)) = 0
      BY <1>0 DEF InFlight
    <3>2. CASE e \in {c, u}
      <4>1. Partner(e) \in ProxyEnd /\ psock[e] = "none" /\ psock[Partner(e)] = "none" /\ e \in ProxyEnd
        BY <1>7, <1>8, <3>2
      <4>2. psent[Partner(e)] = 0 /\ pgot[e] = 0
        BY <4>1 DEF SimpleInv, PairsRight
      <4> QED
        BY <1>0, <3>1, <4>2 DEF PassedOn
    <3>3. CASE e \notin {c, u}
      <4>1. e \in Open /\ e \in ProxyEnd
        BY <1>11, <3>3 DEF Open
      <4>2. Partner(e) \in ProxyEnd /\ Partner(e) # c /\ Partner(e) # u
        BY <1>7, <3>3, <4>1, PartnerOf
      <4>3. psock[Partner(e)] = "open"
        BY <1>10, <2>1, <4>2
      <4>4. PassedOn(e)
        BY <1>0, <4>1, <4>3 DEF SimpleInv, SentRight
      <4> QED
        BY <1>0, <3>1, <4>4 DEF PassedOn, WasReset
    <3> QED
      BY <3>2, <3>3
  <2> QED
    BY <1>0, <2>1 DEF SentRight
<1>20. DiedRight'
  BY <1>0 DEF DiedRight
<1> QED
  BY <1>14, <1>15, <1>16, <1>17, <1>18, <1>19, <1>20 DEF SimpleInv

\* disconnect: one socket is closed and forgotten, its partner stays.
LEMMA DisconnectKeeps ==
  ASSUME SimpleInv, NEW e \in ProxyEnd, disconnect(e)
  PROVE  SimpleInv'
<1>0. /\ ppc = "loop" /\ e \in rsocks
      /\ rsocks' = rsocks \ {e} /\ read_socks' = RemoveFirst(read_socks, e)
      /\ routes' = [s \in DOMAIN routes \ {e} |-> routes[s]]
      /\ psock' = [psock EXCEPT ![e] = "closed"]
      /\ UNCHANGED <<ppc, toSend, refused, pqueue, ppeer, pavail, pgot, psent, pback>>
  BY DEF disconnect, Serving
<1>1. e \in Range(read_socks) /\ e \in Open
  BY <1>0, PartnerOf DEF SimpleInv, RoundRight, ListRight
<1>2. /\ psock \in [ProxyEnd -> {"none", "open", "closed"}]
      /\ psock' \in [ProxyEnd -> {"none", "open", "closed"}]
      /\ psock[e] = "open" /\ psock'[e] = "closed"
      /\ \A x \in ProxyEnd : x # e => psock'[x] = psock[x]
  BY <1>0, <1>1 DEF SimpleInv, SimpleTyped, Open
<1>3. Open' = Open \ {e}
  BY <1>2 DEF Open
<1>4. Accepted' = Accepted
  <2>1. ASSUME NEW k \in Pair
        PROVE  psock'[<<k, "client">>] = "none" <=> psock[<<k, "client">>] = "none"
    BY <1>2, PartnerOf
  <2> QED
    BY <2>1 DEF Accepted
<1>5. /\ read_socks' \in Seq(Sock) /\ Once(read_socks')
      /\ Range(read_socks') = Range(read_socks) \ {e}
  <2>1. read_socks \in Seq(Sock) /\ Once(read_socks)
    BY DEF SimpleInv, SimpleTyped, ListRight
  <2> QED
    BY <1>0, <1>1, <2>1, RemoveOne
<1>6. SimpleTyped'
  BY <1>0, <1>2, <1>5 DEF SimpleInv, SimpleTyped
<1>7. ListRight'
  <2>1. routes = [x \in Open |-> Partner(x)]
    BY DEF SimpleInv, ListRight
  <2>2. routes' = [x \in Open \ {e} |-> Partner(x)]
    BY <1>0, <2>1
  <2>3. routes' = [x \in Open' |-> Partner(x)]
    BY <1>3, <2>2
  <2>4. Range(read_socks') = Open' \cup {listen_sock}
    BY <1>3, <1>5, PartnerOf DEF SimpleInv, ListRight
  <2> QED
    BY <1>5, <2>3, <2>4 DEF ListRight
<1>8. RoundRight'
  BY <1>0, <1>5 DEF SimpleInv, RoundRight
<1>9. PairsBounded'
  BY <1>0, <1>4 DEF SimpleInv, PairsBounded
<1>10. PairsRight'
  <2> SUFFICES ASSUME NEW x \in ProxyEnd, psock'[x] = "none"
               PROVE  psock'[Partner(x)] = "none" /\ pgot'[x] = 0 /\ psent'[x] = 0
    BY DEF PairsRight
  <2>1. x # e /\ psock[x] = "none"
    BY <1>2
  <2>2. psock[Partner(x)] = "none" /\ pgot[x] = 0 /\ psent[x] = 0 /\ Partner(x) \in ProxyEnd
    BY <2>1, PartnerOf DEF SimpleInv, PairsRight
  <2> QED
    BY <1>0, <1>2, <2>2
<1>11. SentRight'
  <2>1. ASSUME NEW x \in Open', psock'[Partner(x)] = "open"
        PROVE  PassedOn(x)'
    <3>1. x \in Open /\ x \in ProxyEnd /\ Partner(x) \in ProxyEnd
      BY <1>3, PartnerOf DEF Open
    <3>2. psock[Partner(x)] = "open"
      BY <1>2, <2>1, <3>1
    <3>3. InFlight(Partner(x))' = InFlight(Partner(x))
      BY <1>0 DEF InFlight
    <3>4. PassedOn(x)
      BY <1>0, <3>1, <3>2 DEF SimpleInv, SentRight
    <3> QED
      BY <1>0, <3>3, <3>4 DEF PassedOn, WasReset
  <2> QED
    BY <1>0, <2>1 DEF SentRight
<1>12. DiedRight'
  BY <1>0 DEF DiedRight
<1> QED
  BY <1>6, <1>7, <1>8, <1>9, <1>10, <1>11, <1>12 DEF SimpleInv

\* recv() takes what is there, and a send() of it to the partner starts.
LEMMA RecvKeeps ==
  ASSUME SimpleInv, NEW e \in ProxyEnd, ProxyRecv(e)
  PROVE  SimpleInv'
<1>0. /\ ppc = "loop" /\ ppc' = "send" /\ e \in rsocks /\ rsocks' = rsocks \ {e}
      /\ pgot' = [pgot EXCEPT ![e] = @ + pavail[e]]
      /\ pavail' = [pavail EXCEPT ![e] = 0] /\ pavail[e] > 0
      /\ toSend' = [to |-> routes[e], left |-> pavail[e], begun |-> FALSE]
      /\ UNCHANGED <<read_socks, routes, refused, pqueue, psock, ppeer, psent, pback>>
  BY DEF ProxyRecv, Serving
<1>1. e \in Open /\ psock[e] = "open" /\ routes[e] = Partner(e)
  <2>1. e \in Open
    BY <1>0, PartnerOf DEF SimpleInv, RoundRight, ListRight
  <2> QED
    BY <2>1 DEF Open, SimpleInv, ListRight
<1>2. {pavail, pgot, psent} \subseteq [ProxyEnd -> Nat]
  BY DEF SimpleInv, SimpleTyped
<1>3. PICK n \in Nat : n = pavail[e] /\ n > 0
  BY <1>0, <1>2
<1>4. toSend'.to = Partner(e) /\ toSend'.left = n
  BY <1>0, <1>1, <1>3
<1>5. /\ pgot' \in [ProxyEnd -> Nat] /\ pavail' \in [ProxyEnd -> Nat]
      /\ pgot'[e] = pgot[e] + n
      /\ \A x \in ProxyEnd : x # e => pgot'[x] = pgot[x]
  BY <1>0, <1>2, <1>3
<1>6. SimpleTyped'
  <2>1. toSend' = [to |-> toSend'.to, left |-> toSend'.left, begun |-> toSend'.begun]
    BY <1>0
  <2> QED
    BY <1>0, <1>2, <1>4, <1>5, <2>1 DEF SimpleInv, SimpleTyped
<1>7. Open' = Open /\ Accepted' = Accepted
  BY <1>0 DEF Open, Accepted
<1>8. ListRight' /\ RoundRight'
  BY <1>0, <1>7 DEF SimpleInv, ListRight, RoundRight, Once
<1>9. PairsBounded' /\ PairsRight'
  BY <1>0, <1>1, <1>5, <1>7 DEF SimpleInv, PairsBounded, PairsRight
<1>10. SentRight'
  <2>1. toSend'.to \in ProxyEnd /\ psock'[toSend'.to] # "none" /\ toSend'.left > 0
    <3>1. Partner(e) \in ProxyEnd /\ Partner(Partner(e)) = e
      BY PartnerOf
    <3>2. psock[Partner(e)] # "none"
      BY <1>1, <3>1 DEF SimpleInv, PairsRight
    <3> QED
      BY <1>0, <1>3, <1>4, <3>1, <3>2
  <2>2. ASSUME NEW x \in Open', psock'[Partner(x)] = "open"
        PROVE  PassedOn(x)'
    <3>1. x \in Open /\ x \in ProxyEnd /\ Partner(x) \in ProxyEnd /\ psock[Partner(x)] = "open"
      BY <1>0, <1>7, <2>2, PartnerOf DEF Open
    <3>2. InFlight(Partner(x)) = 0
      BY <1>0 DEF InFlight
    <3>3. \/ psent[Partner(x)] + 0 = pgot[x]
          \/ psent[Partner(x)] + 0 < pgot[x] /\ WasReset(Partner(x))
      BY <1>0, <3>1, <3>2 DEF SimpleInv, SentRight, PassedOn
    <3>4. WasReset(Partner(x))' = WasReset(Partner(x)) /\ psent' = psent
      BY <1>0 DEF WasReset
    <3>5. psent[Partner(x)] \in Nat /\ pgot[x] \in Nat
      BY <1>2, <3>1
    <3>6. CASE x = e
      <4>1. InFlight(Partner(x))' = n
        BY <1>0, <1>4, <3>6 DEF InFlight
      <4> QED
        BY <1>5, <3>3, <3>4, <3>5, <3>6, <4>1 DEF PassedOn
    <3>7. CASE x # e
      <4>1. Partner(x) # Partner(e)
        BY <3>1, <3>7, PartnerOf
      <4>2. InFlight(Partner(x))' = 0
        BY <1>4, <4>1 DEF InFlight
      <4> QED
        BY <1>5, <3>1, <3>3, <3>4, <3>7, <4>2 DEF PassedOn
    <3> QED
      BY <3>6, <3>7
  <2> QED
    BY <1>0, <2>1, <2>2 DEF SentRight
<1>11. DiedRight'
  BY <1>0 DEF DiedRight
<1> QED
  BY <1>6, <1>8, <1>9, <1>10, <1>11 DEF SimpleInv

\* send() hands bytes to the kernel, until none are left.
LEMMA SendKeeps ==
  ASSUME SimpleInv, SendTakes
  PROVE  SimpleInv'
<1>1. PICK e : e = toSend.to
  OBVIOUS
<1>2. PICK n \in Nat : n = toSend.left
  BY DEF SimpleInv, SimpleTyped
<1>3. PICK k \in 1 .. n :
        /\ psent' = [psent EXCEPT ![e] = @ + k]
        /\ toSend' = [to |-> e, left |-> toSend.left - k, begun |-> TRUE]
        /\ ppc' = IF k = n THEN "loop" ELSE "send"
  BY <1>1, <1>2 DEF SendTakes
<1>4. /\ ppc = "send" /\ psock[e] = "open" /\ ~WasReset(e)
      /\ UNCHANGED <<read_socks, rsocks, routes, refused, pqueue, psock, ppeer, pavail, pgot, pback>>
  BY <1>1 DEF SendTakes
<1>5. e \in ProxyEnd
  BY <1>1, <1>4 DEF SimpleInv, SentRight
<1>6. {pavail, pgot, psent} \subseteq [ProxyEnd -> Nat]
  BY DEF SimpleInv, SimpleTyped
<1>7. /\ psent' \in [ProxyEnd -> Nat] /\ psent'[e] = psent[e] + k
      /\ \A x \in ProxyEnd : x # e => psent'[x] = psent[x]
  BY <1>3, <1>5, <1>6
<1>8. toSend' = [to |-> e, left |-> n - k, begun |-> TRUE]
  BY <1>1, <1>2, <1>3
<1>9. toSend'.to = e /\ toSend'.left = n - k /\ n - k \in Nat
  BY <1>8
<1>10. SimpleTyped'
  <2>1. toSend' = [to |-> toSend'.to, left |-> toSend'.left, begun |-> toSend'.begun]
    BY <1>8
  <2>2. ppc' \in {"loop", "send"}
    BY <1>3
  <2> QED
    BY <1>4, <1>6, <1>7, <1>9, <2>1, <2>2 DEF SimpleInv, SimpleTyped
<1>11. Open' = Open /\ Accepted' = Accepted
  BY <1>4 DEF Open, Accepted
<1>12. ListRight' /\ RoundRight'
  BY <1>4, <1>11 DEF SimpleInv, ListRight, RoundRight, Once
<1>13. PairsBounded' /\ PairsRight'
  <2>1. PairsBounded'
    BY <1>4, <1>11 DEF SimpleInv, PairsBounded
  <2>2. PairsRight'
    BY <1>4, <1>7 DEF SimpleInv, PairsRight
  <2> QED
    BY <2>1, <2>2
<1>14. SentRight'
  <2>1. ppc' = "send" => toSend'.to \in ProxyEnd /\ psock'[toSend'.to] # "none" /\ toSend'.left > 0
    <3>1. ppc' = "send" => n - k > 0
      BY <1>3
    <3>2. toSend'.to \in ProxyEnd /\ psock'[toSend'.to] # "none"
      BY <1>4, <1>5, <1>9
    <3> QED
      BY <1>9, <3>1, <3>2
  <2>2. ASSUME NEW x \in Open', psock'[Partner(x)] = "open"
        PROVE  PassedOn(x)'
    <3>1. x \in Open /\ x \in ProxyEnd /\ Partner(x) \in ProxyEnd /\ psock[Partner(x)] = "open"
      BY <1>4, <1>11, <2>2, PartnerOf DEF Open
    <3>2. PassedOn(x) /\ WasReset(Partner(x))' = WasReset(Partner(x))
      BY <1>4, <3>1 DEF SimpleInv, SentRight, WasReset
    <3>3. psent[Partner(x)] \in Nat /\ pgot[x] \in Nat
      BY <1>6, <3>1
    <3>4. CASE Partner(x) = e
      <4>1. InFlight(Partner(x)) = n
        BY <1>1, <1>2, <1>4, <3>4 DEF InFlight
      <4>2. InFlight(Partner(x))' = n - k
        BY <1>3, <1>9, <3>4 DEF InFlight
      <4> QED
        BY <1>4, <1>7, <3>2, <3>3, <3>4, <4>1, <4>2 DEF PassedOn
    <3>5. CASE Partner(x) # e
      <4>1. InFlight(Partner(x)) = 0 /\ InFlight(Partner(x))' = 0
        BY <1>1, <1>9, <3>5 DEF InFlight
      <4> QED
        BY <1>4, <1>7, <3>1, <3>2, <3>5, <4>1 DEF PassedOn
    <3> QED
      BY <3>4, <3>5
  <2> QED
    BY <2>1, <2>2 DEF SentRight
<1>15. DiedRight'
  BY <1>3 DEF DiedRight
<1> QED
  BY <1>10, <1>12, <1>13, <1>14, <1>15 DEF SimpleInv

\* send() returns early: what it has not handed over is lost to a partner that has reset.
LEMMA CutKeeps ==
  ASSUME SimpleInv, SendCutShort
  PROVE  SimpleInv'
<1>1. PICK p : p = toSend.to
  OBVIOUS
<1>2. /\ ppc = "send" /\ ppc' = "loop" /\ WasReset(p)
      /\ UNCHANGED <<read_socks, rsocks, routes, toSend, refused, pqueue, psock, ppeer, pavail,
                     pgot, psent, pback>>
  BY <1>1 DEF SendCutShort, proxyNet
<1>3. PICK n \in Nat : n = toSend.left /\ n > 0
  BY <1>2 DEF SimpleInv, SimpleTyped, SentRight
<1>4. SimpleTyped' /\ Open' = Open /\ Accepted' = Accepted
  BY <1>2 DEF SimpleInv, SimpleTyped, Open, Accepted
<1>5. ListRight' /\ RoundRight'
  BY <1>2, <1>4 DEF SimpleInv, ListRight, RoundRight, Once
<1>6. PairsBounded' /\ PairsRight'
  BY <1>2, <1>4 DEF SimpleInv, PairsBounded, PairsRight
<1>7. SentRight'
  <2>1. ASSUME NEW x \in Open', psock'[Partner(x)] = "open" PROVE PassedOn(x)'
    <3>1. x \in Open /\ x \in ProxyEnd /\ Partner(x) \in ProxyEnd /\ psock[Partner(x)] = "open"
      BY <1>2, <1>4, <2>1, PartnerOf DEF Open
    <3>2. PassedOn(x) /\ WasReset(Partner(x))' = WasReset(Partner(x))
      BY <1>2, <3>1 DEF SimpleInv, SentRight, WasReset
    <3>3. psent[Partner(x)] \in Nat /\ pgot[x] \in Nat
      BY <3>1 DEF SimpleInv, SimpleTyped
    <3>4. InFlight(Partner(x))' = 0
      BY <1>2 DEF InFlight
    <3>5. CASE Partner(x) = p
      <4>1. InFlight(Partner(x)) = n
        BY <1>1, <1>2, <1>3, <3>5 DEF InFlight
      <4> QED
        BY <1>2, <1>3, <3>2, <3>3, <3>4, <3>5, <4>1 DEF PassedOn
    <3>6. CASE Partner(x) # p
      <4>1. InFlight(Partner(x)) = 0
        BY <1>1, <3>6 DEF InFlight
      <4> QED
        BY <1>2, <3>2, <3>3, <3>4, <4>1 DEF PassedOn
    <3> QED
      BY <3>5, <3>6
  <2> QED
    BY <1>2, <2>1 DEF SentRight
<1>8. DiedRight'
  BY <1>2 DEF DiedRight
<1> QED
  BY <1>4, <1>5, <1>6, <1>7, <1>8 DEF SimpleInv

\* Every step of the relay and of its peers.
LEMMA SimpleStep ==
  ASSUME SimpleInv, [SimpleNext]_simpleVars
  PROVE  SimpleInv'
<1>1. CASE ProxyStep
  <2>1. CASE ProxySelect \/ ProxyRoundDone
    BY <2>1, SelectKeeps
  <2>2. CASE accept_client
    BY <2>2, AcceptKeeps
  <2>3. CASE ConnectRaises \/ SocketRaises \/ SendRaises \/ \E e \in ProxyEnd : RecvRaises(e)
    BY <2>3, RaisesKeeps
  <2>4. CASE SendTakes
    BY <2>4, SendKeeps
  <2>5. CASE \E e \in ProxyEnd : disconnect(e)
    BY <2>5, DisconnectKeeps
  <2>6. CASE \E e \in ProxyEnd : ProxyRecv(e)
    BY <2>6, RecvKeeps
  <2>7. CASE SendCutShort
    BY <2>7, CutKeeps
  <2> QED
    BY <1>1, <2>1, <2>2, <2>3, <2>4, <2>5, <2>6, <2>7 DEF ProxyStep
<1>2. CASE ~ProxyStep
  <2>1. PeersMove
    BY <1>2, SimpleNetMoves DEF SimpleNext
  <2> QED
    BY <2>1, SimpleNetKeeps
<1> QED
  BY <1>1, <1>2

\* The select() relay and the threads are accounted for at every step, for every number
\* of connections, bytes, descriptors and digits: simple_proxy.py watches exactly the
\* sockets it has open, has sent what it received before it waits again, unless the
\* partner's reset cut a send() short, and dies of nothing but a reset, a refused
\* connection, a partner it closed or a client too many for its descriptors; no thread of
\* proxy-with-mulitthrea.py keeps a socket when it has ended, and each connects to the
\* port that get_req_info makes of the digits in what one recv() returned.
THEOREM RelaysHold == Spec => []RelaysSound
<1>1. Init => SimpleInv /\ ThreadInv
  BY SimpleStart, ThreadStart DEF Init
<1>2. SimpleInv /\ [Next]_vars => SimpleInv'
  <2>1. [Next]_vars => [SimpleNext]_simpleVars
    BY DEF Next, vars
  <2> QED
    BY <2>1, SimpleStep
<1>3. ThreadInv /\ [Next]_vars => ThreadInv'
  <2>1. [Next]_vars => [ThreadNext]_threadVars
    BY DEF Next, vars
  <2> QED
    BY <2>1, ThreadStep
<1>4. SimpleInv /\ ThreadInv => RelaysSound
  BY SimpleInvSound, ThreadInvTidies DEF RelaysSound
<1> QED
  BY <1>1, <1>2, <1>3, <1>4, PTL DEF Spec
-------------------------------------------------------------------------------
(* The chat room: what is kept of a sequence, and the record of the broadcasts *)

\* The elements of s up to the n-th that are in S, from those before it.
KeptStep(k, s, S, n) ==
    IF n = 0 THEN <<>> ELSE IF s[n] \in S THEN Append(k[n - 1], s[n]) ELSE k[n - 1]
IsKept(k, s, S) == k = [n \in 0 .. Len(s) |-> KeptStep(k, s, S, n)]

\* Sublist is the choice its recursive definition stands for.
LEMMA SublistDef ==
  ASSUME NEW s, NEW S
  PROVE  Sublist(s, S) = (CHOOSE k : IsKept(k, s, S))[Len(s)]
BY DEF Sublist, IsKept, KeptStep

\* There is such a function, for any sequence.
LEMMA KeptExists ==
  ASSUME NEW T, NEW s \in Seq(T), NEW S
  PROVE  \E k : IsKept(k, s, S)
<1>1. PICK L \in Nat : L = Len(s)
  BY LenProperties
<1> DEFINE Upto(v, n) == \A k \in 0 .. L : k <= n => v[k] = KeptStep(v, s, S, k)
           N == {n \in Nat : \E v : v = [k \in 0 .. L |-> v[k]] /\ Upto(v, n)}
<1>2. 0 \in N
  <2>1. PICK v : v = [k \in 0 .. L |-> <<>>]
    OBVIOUS
  <2>2. v = [k \in 0 .. L |-> v[k]] /\ Upto(v, 0)
    BY <2>1 DEF KeptStep
  <2> QED
    BY <2>2
<1>3. ASSUME NEW n \in Nat, n \in N PROVE n + 1 \in N
  <2>1. PICK v : v = [k \in 0 .. L |-> v[k]] /\ Upto(v, n)
    BY <1>3
  <2>2. PICK w : w = [k \in 0 .. L |-> IF k = n + 1 THEN KeptStep(v, s, S, k) ELSE v[k]]
    OBVIOUS
  <2>3. w = [k \in 0 .. L |-> w[k]]
    BY <2>2
  <2>4. ASSUME NEW k \in 0 .. L, k <= n + 1 PROVE w[k] = KeptStep(w, s, S, k)
    <3>1. k # 0 => k - 1 \in 0 .. L /\ k - 1 # n + 1
      BY <2>4
    <3>2. k # 0 => w[k - 1] = v[k - 1]
      BY <2>2, <3>1
    <3>3. KeptStep(w, s, S, k) = KeptStep(v, s, S, k)
      BY <3>2 DEF KeptStep
    <3>4. w[k] = KeptStep(v, s, S, k)
      <4>1. CASE k = n + 1
        BY <2>2, <4>1
      <4>2. CASE k # n + 1
        BY <2>1, <2>2, <2>4, <4>2
      <4> QED
        BY <4>1, <4>2
    <3> QED
      BY <3>3, <3>4
  <2>5. Upto(w, n + 1)
    BY <2>4
  <2> QED
    BY <2>3, <2>5
<1>4. \A n \in Nat : n \in N
  <2> HIDE DEF N
  <2> QED
    BY <1>2, <1>3, Induction
<1>5. PICK v : v = [k \in 0 .. L |-> v[k]] /\ Upto(v, L)
  BY <1>4
<1>6. \A k \in 0 .. L : v[k] = KeptStep(v, s, S, k)
  BY <1>5
<1>7. v = [k \in 0 .. L |-> KeptStep(v, s, S, k)]
  BY <1>5, <1>6
<1> QED
  BY <1>1, <1>7 DEF IsKept

\* It depends on no more elements than it has looked at.
LEMMA SameKept ==
  ASSUME NEW T, NEW s \in Seq(T), NEW t \in Seq(T), NEW S, NEW U, NEW k, NEW l,
         IsKept(k, s, S), IsKept(l, t, U), Len(t) <= Len(s),
         \A n \in 1 .. Len(t) : t[n] = s[n] /\ (s[n] \in S <=> t[n] \in U)
  PROVE  \A n \in 0 .. Len(t) : l[n] = k[n]
<1>1. PICK L \in Nat, M \in Nat : L = Len(s) /\ M = Len(t)
  BY LenProperties
<1>2. \A n \in 0 .. L : k[n] = KeptStep(k, s, S, n)
  BY <1>1 DEF IsKept
<1>3. \A n \in 0 .. M : l[n] = KeptStep(l, t, U, n)
  BY <1>1 DEF IsKept
<1> DEFINE N == {n \in Nat : n <= M => l[n] = k[n]}
<1>5. 0 \in N
  BY <1>1, <1>2, <1>3 DEF KeptStep
<1>6. ASSUME NEW n \in Nat, n \in N PROVE n + 1 \in N
  <2> SUFFICES ASSUME n + 1 <= M PROVE l[n + 1] = k[n + 1]
    OBVIOUS
  <2>1. l[n] = k[n]
    BY <1>6
  <2>2. PICK m \in 1 .. M : m = n + 1
    OBVIOUS
  <2>3. m - 1 = n /\ m # 0 /\ m \in 0 .. L /\ m \in 0 .. M
    BY <1>1, <2>2
  <2>4. t[m] = s[m] /\ (s[m] \in S <=> t[m] \in U)
    BY <1>1
  <2>5. k[m] = KeptStep(k, s, S, m) /\ l[m] = KeptStep(l, t, U, m)
    BY <1>2, <1>3, <2>3
  <2> QED
    BY <2>1, <2>2, <2>3, <2>4, <2>5 DEF KeptStep
<1>7. \A n \in Nat : n \in N
  <2> HIDE DEF N
  <2> QED
    BY <1>5, <1>6, Induction
<1> QED
  BY <1>1, <1>7

\* What is kept of an empty and of a longer sequence.
LEMMA SublistEmpty ==
  ASSUME NEW S
  PROVE  Sublist(<<>>, S) = <<>>
<1>1. PICK k : IsKept(k, <<>>, S) /\ Sublist(<<>>, S) = k[0]
  <2>1. <<>> \in Seq({}) /\ Len(<<>>) = 0
    OBVIOUS
  <2> QED
    BY <2>1, KeptExists, SublistDef
<1>2. k[0] = KeptStep(k, <<>>, S, 0)
  BY <1>1 DEF IsKept
<1> QED
  BY <1>1, <1>2 DEF KeptStep

\* One more element: it is kept or not, and the choice among the others is the same.
LEMMA SublistAppend ==
  ASSUME NEW T, NEW s \in Seq(T), NEW x \in T, NEW S, NEW U,
         \A n \in 1 .. Len(s) : s[n] \in S <=> s[n] \in U
  PROVE  Sublist(Append(s, x), U) = IF x \in U THEN Append(Sublist(s, S), x) ELSE Sublist(s, S)
<1>1. PICK t \in Seq(T) : t = Append(s, x)
  <2>1. Append(s, x) \in Seq(T)
    BY AppendProperties
  <2> QED
    BY <2>1
<1>2. PICK L \in Nat : L = Len(s)
  OBVIOUS
<1>3. Len(t) = L + 1 /\ t[L + 1] = x /\ \A n \in 1 .. L : t[n] = s[n]
  BY <1>1, <1>2
<1>4. PICK k : IsKept(k, s, S) /\ Sublist(s, S) = k[L]
  BY <1>2, KeptExists, SublistDef
<1>5. PICK l : IsKept(l, t, U) /\ Sublist(t, U) = l[L + 1]
  BY <1>3, KeptExists, SublistDef
<1>6. k[L] = l[L]
  <2>1. /\ Len(s) <= Len(t) /\ L \in 0 .. Len(s)
        /\ \A n \in 1 .. Len(s) : s[n] = t[n] /\ (t[n] \in U <=> s[n] \in S)
    BY <1>2, <1>3
  <2> QED
    BY <1>4, <1>5, <2>1, SameKept
<1>7. l[L + 1] = IF x \in U THEN Append(l[L], x) ELSE l[L]
  <2>1. L + 1 \in 0 .. L + 1 /\ L + 1 # 0 /\ (L + 1) - 1 = L
    OBVIOUS
  <2> QED
    BY <1>3, <1>5, <2>1 DEF IsKept, KeptStep
<1> QED
  BY <1>1, <1>4, <1>5, <1>6, <1>7

\* The same elements are kept whatever else the set has.
LEMMA SublistSame ==
  ASSUME NEW T, NEW s \in Seq(T), NEW S, NEW U,
         \A n \in 1 .. Len(s) : s[n] \in S <=> s[n] \in U
  PROVE  Sublist(s, U) = Sublist(s, S)
<1>1. PICK L \in Nat : L = Len(s)
  OBVIOUS
<1>2. PICK k : IsKept(k, s, S) /\ Sublist(s, S) = k[L]
  BY <1>1, KeptExists, SublistDef
<1>3. PICK l : IsKept(l, s, U) /\ Sublist(s, U) = l[L]
  BY <1>1, KeptExists, SublistDef
<1>4. L \in 0 .. Len(s) /\ Len(s) <= Len(s)
  BY <1>1
<1> QED
  BY <1>2, <1>3, <1>4, SameKept

\* It is a sequence of exactly those elements, each once if it was there once.
LEMMA SublistOf ==
  ASSUME NEW T, NEW s \in Seq(T), NEW S
  PROVE  /\ Sublist(s, S) \in Seq(T)
         /\ ToSet(Sublist(s, S)) = ToSet(s) \cap S
         /\ Once(s) => Once(Sublist(s, S))
<1>1. PICK L \in Nat : L = Len(s)
  OBVIOUS
<1>2. PICK k : IsKept(k, s, S) /\ Sublist(s, S) = k[L]
  BY <1>1, KeptExists, SublistDef
<1>3. \A n \in 0 .. L : k[n] = KeptStep(k, s, S, n)
  BY <1>1, <1>2 DEF IsKept
<1>4. \A n \in 1 .. L : s[n] \in T
  BY <1>1, ElementOfSeq
<1> DEFINE Before(n) == {s[i] : i \in 1 .. n}
           Good(n) == /\ k[n] \in Seq(T)
                      /\ ToSet(k[n]) = Before(n) \cap S
                      /\ Once(s) => Once(k[n])
           N == {n \in Nat : n <= L => Good(n)}
<1>5. 0 \in N
  <2>1. k[0] = <<>> /\ Before(0) = {}
    BY <1>1, <1>3 DEF KeptStep
  <2>2. ToSet(<<>>) = {} /\ Once(<<>>) /\ <<>> \in Seq(T)
    BY DEF ToSet, Once
  <2> QED
    BY <2>1, <2>2
<1>6. ASSUME NEW n \in Nat, n \in N PROVE n + 1 \in N
  <2> SUFFICES ASSUME n + 1 <= L PROVE Good(n + 1)
    OBVIOUS
  <2>1. Good(n)
    BY <1>6
  <2>2. PICK m \in 1 .. L : m = n + 1
    OBVIOUS
  <2>3. m - 1 = n /\ m # 0 /\ m \in 0 .. L
    BY <2>2
  <2>4. k[m] = IF s[m] \in S THEN Append(k[n], s[m]) ELSE k[n]
    BY <1>3, <2>3 DEF KeptStep
  <2>5. Before(m) = Before(n) \cup {s[m]}
    <3>1. 1 .. m = (1 .. n) \cup {m}
      BY <2>2
    <3> QED
      BY <3>1
  <2>6. CASE s[m] \notin S
    BY <2>1, <2>2, <2>4, <2>5, <2>6
  <2>7. CASE s[m] \in S
    <3> HIDE DEF Before, N
    <3>1. k[m] = Append(k[n], s[m]) /\ s[m] \in T
      BY <1>4, <2>4, <2>7
    <3>2. PICK M \in Nat : M = Len(k[n])
      BY <2>1, LenProperties
    <3>3. /\ k[m] \in Seq(T) /\ Len(k[m]) = M + 1 /\ k[m][M + 1] = s[m]
          /\ \A i \in 1 .. M : k[m][i] = k[n][i]
      BY <2>1, <3>1, <3>2
    <3>4. DOMAIN k[m] = 1 .. M + 1 /\ DOMAIN k[n] = 1 .. M
      BY <2>1, <3>2, <3>3
    <3>5. ToSet(k[m]) = ToSet(k[n]) \cup {s[m]}
      <4>1. 1 .. M + 1 = (1 .. M) \cup {M + 1}
        OBVIOUS
      <4>2. ToSet(k[m]) = {k[m][i] : i \in (1 .. M) \cup {M + 1}}
        BY <3>4, <4>1 DEF ToSet
      <4>3. ToSet(k[n]) = {k[n][i] : i \in 1 .. M}
        BY <3>4 DEF ToSet
      <4> QED
        BY ONLY <3>3, <4>2, <4>3
    <3>6. ASSUME Once(s) PROVE Once(k[m])
      <4>1. s[m] \notin Before(n)
        <5>1. ASSUME NEW i \in 1 .. n, s[i] = s[m] PROVE FALSE
          <6>1. i \in 1 .. Len(s) /\ m \in 1 .. Len(s) /\ i # m
            BY <1>1, <2>2
          <6> QED
            BY <3>6, <5>1, <6>1 DEF Once
        <5> QED
          BY <5>1 DEF Before
      <4>2. \A i \in 1 .. M : k[n][i] # s[m]
        <5>1. \A i \in 1 .. M : k[n][i] \in ToSet(k[n])
          BY <3>4 DEF ToSet
        <5> QED
          BY <2>1, <4>1, <5>1
      <4>3. Once(k[n])
        BY <2>1, <3>6
      <4> SUFFICES ASSUME NEW i \in 1 .. M + 1, NEW j \in 1 .. M + 1, k[m][i] = k[m][j]
                   PROVE  i = j
        BY <3>3 DEF Once
      <4>4. CASE i \in 1 .. M /\ j \in 1 .. M
        BY <3>2, <3>3, <4>3, <4>4 DEF Once
      <4>5. CASE i = M + 1
        <5>1. k[m][j] = s[m]
          BY <3>3, <4>5
        <5>2. j \in 1 .. M => k[m][j] = k[n][j]
          BY <3>3
        <5> QED
          BY <4>2, <4>5, <5>1, <5>2
      <4>6. CASE j = M + 1
        <5>1. k[m][i] = s[m]
          BY <3>3, <4>6
        <5>2. i \in 1 .. M => k[m][i] = k[n][i]
          BY <3>3
        <5> QED
          BY <4>2, <4>6, <5>1, <5>2
      <4> QED
        BY <4>4, <4>5, <4>6
    <3>7. Before(m) \cap S = (Before(n) \cap S) \cup {s[m]}
      BY <2>5, <2>7
    <3>8. Good(m)
      BY <2>1, <3>3, <3>5, <3>6, <3>7
    <3> QED
      BY <2>2, <3>8
  <2> QED
    BY <2>6, <2>7
<1>7. \A n \in Nat : n \in N
  <2> HIDE DEF N
  <2> QED
    BY <1>5, <1>6, Induction
<1>8. Good(L)
  <2>1. L \in N
    <3> HIDE DEF N
    <3> QED
      BY <1>1, <1>7
  <2>2. L <= L
    BY <1>1
  <2> QED
    BY <2>1, <2>2
<1>9. Before(L) = ToSet(s)
  BY <1>1 DEF ToSet
<1> QED
  BY <1>2, <1>8, <1>9

\* A new element at the end, and the first one taken away.
LEMMA AppendOnce ==
  ASSUME NEW T, NEW s \in Seq(T), NEW x \in T
  PROVE  /\ Append(s, x) \in Seq(T)
         /\ ToSet(Append(s, x)) = ToSet(s) \cup {x}
         /\ Once(s) /\ x \notin ToSet(s) => Once(Append(s, x))
<1>1. PICK L \in Nat : L = Len(s)
  OBVIOUS
<1>2. PICK t : t = Append(s, x)
  OBVIOUS
<1>3. t \in Seq(T) /\ Len(t) = L + 1 /\ t[L + 1] = x /\ \A n \in 1 .. L : t[n] = s[n]
  BY <1>1, <1>2, AppendProperties
<1>4. DOMAIN t = 1 .. L + 1 /\ DOMAIN s = 1 .. L
  BY <1>1, <1>3
<1>5. ToSet(t) = ToSet(s) \cup {x}
  <2>1. 1 .. L + 1 = (1 .. L) \cup {L + 1}
    OBVIOUS
  <2>2. ToSet(t) = {t[i] : i \in (1 .. L) \cup {L + 1}}
    BY <1>4, <2>1 DEF ToSet
  <2>3. ToSet(s) = {s[i] : i \in 1 .. L}
    BY <1>4 DEF ToSet
  <2> QED
    BY ONLY <1>3, <2>2, <2>3
<1>6. ASSUME Once(s), x \notin ToSet(s) PROVE Once(t)
  <2>1. \A n \in 1 .. L : s[n] # x
    BY <1>4, <1>6 DEF ToSet
  <2> SUFFICES ASSUME NEW i \in 1 .. L + 1, NEW j \in 1 .. L + 1, t[i] = t[j] PROVE i = j
    BY <1>3 DEF Once
  <2>2. CASE i \in 1 .. L /\ j \in 1 .. L
    BY <1>1, <1>3, <1>6, <2>2 DEF Once
  <2>3. CASE i = L + 1 \/ j = L + 1
    BY <1>3, <2>1, <2>3
  <2> QED
    BY <2>2, <2>3
<1> QED
  BY <1>2, <1>3, <1>5, <1>6

\* The first element is not among the rest of a sequence without repetition.
LEMMA TailOnce ==
  ASSUME NEW T, NEW s \in Seq(T), s # <<>>
  PROVE  /\ Tail(s) \in Seq(T) /\ Head(s) \in T
         /\ ToSet(s) = ToSet(Tail(s)) \cup {Head(s)}
         /\ Once(s) => Once(Tail(s)) /\ Head(s) \notin ToSet(Tail(s))
<1>1. PICK L \in Nat : Len(s) = L + 1
  <2>1. Len(s) \in Nat /\ Len(s) # 0
    OBVIOUS
  <2>2. Len(s) - 1 \in Nat /\ Len(s) = (Len(s) - 1) + 1
    BY <2>1
  <2> QED
    BY <2>2
<1>2. PICK t : t = Tail(s)
  OBVIOUS
<1>3. /\ t \in Seq(T) /\ Len(t) = L /\ (\A n \in 1 .. L : t[n] = s[n + 1])
      /\ Head(s) = s[1] /\ s[1] \in T
  BY <1>1, <1>2, HeadTailProperties, ElementOfSeq
<1>4. DOMAIN t = 1 .. L /\ DOMAIN s = 1 .. L + 1
  BY <1>1, <1>3
<1>5. ToSet(s) = ToSet(t) \cup {s[1]}
  <2>1. ASSUME NEW v \in ToSet(s) PROVE v \in ToSet(t) \cup {s[1]}
    <3>1. PICK i \in 1 .. L + 1 : v = s[i]
      BY <1>4, <2>1 DEF ToSet
    <3>2. CASE i = 1
      BY <3>1, <3>2
    <3>3. CASE i # 1
      <4>1. i - 1 \in 1 .. L /\ (i - 1) + 1 = i
        BY <3>3
      <4>2. v = t[i - 1]
        BY <1>3, <3>1, <4>1
      <4> QED
        BY <1>4, <4>1, <4>2 DEF ToSet
    <3> QED
      BY <3>2, <3>3
  <2>2. ASSUME NEW v \in ToSet(t) PROVE v \in ToSet(s)
    <3>1. PICK i \in 1 .. L : v = t[i]
      BY <1>4, <2>2 DEF ToSet
    <3>2. i + 1 \in DOMAIN s /\ v = s[i + 1]
      BY <1>3, <1>4, <3>1
    <3> QED
      BY <3>2 DEF ToSet
  <2>3. s[1] \in ToSet(s)
    <3>1. 1 \in DOMAIN s
      BY <1>4
    <3> QED
      BY <3>1 DEF ToSet
  <2> QED
    BY <2>1, <2>2, <2>3
<1>6. ASSUME Once(s) PROVE Once(t) /\ s[1] \notin ToSet(t)
  <2>1. ASSUME NEW i \in 1 .. L, NEW j \in 1 .. L, t[i] = t[j] PROVE i = j
    <3>1. i + 1 \in 1 .. Len(s) /\ j + 1 \in 1 .. Len(s) /\ s[i + 1] = s[j + 1]
      BY <1>1, <1>3, <2>1
    <3>2. i + 1 = j + 1
      BY <1>6, <3>1 DEF Once
    <3> QED
      BY <3>2
  <2>2. ASSUME NEW i \in 1 .. L, t[i] = s[1] PROVE FALSE
    <3>1. i + 1 \in 1 .. Len(s) /\ 1 \in 1 .. Len(s) /\ s[i + 1] = s[1] /\ i + 1 # 1
      BY <1>1, <1>3, <2>2
    <3> QED
      BY <1>6, <3>1 DEF Once
  <2> QED
    BY <1>3, <1>4, <2>1, <2>2 DEF Once, ToSet
<1> QED
  BY <1>2, <1>3, <1>5, <1>6

\* The concatenation of the first i sequences of q, from that of those before.
FlatStep(f, q, i) == IF i = 1 THEN q[i] ELSE f[i - 1] \o q[i]
IsFlat(f, q) == f = [i \in 1 .. Len(q) |-> FlatStep(f, q, i)]

\* FlattenSeq of the community modules is the choice its recursive definition stands for.
LEMMA FlattenDef ==
  ASSUME NEW q, Len(q) # 0
  PROVE  FlattenSeq(q) = (CHOOSE f : IsFlat(f, q))[Len(q)]
BY DEF FlattenSeq, IsFlat, FlatStep

\* There is such a function, and its values are sequences.
LEMMA FlatExists ==
  ASSUME NEW q, Len(q) \in Nat
  PROVE  \E f : IsFlat(f, q)
<1>1. PICK L \in Nat : L = Len(q)
  OBVIOUS
<1> DEFINE Upto(v, n) == \A k \in 1 .. L : k <= n => v[k] = FlatStep(v, q, k)
           N == {n \in Nat : \E v : v = [k \in 1 .. L |-> v[k]] /\ Upto(v, n)}
<1>2. 0 \in N
  <2>1. PICK v : v = [k \in 1 .. L |-> <<>>]
    OBVIOUS
  <2>2. v = [k \in 1 .. L |-> v[k]] /\ Upto(v, 0)
    BY <2>1
  <2> QED
    BY <2>2
<1>3. ASSUME NEW n \in Nat, n \in N PROVE n + 1 \in N
  <2>1. PICK v : v = [k \in 1 .. L |-> v[k]] /\ Upto(v, n)
    BY <1>3
  <2>2. PICK w : w = [k \in 1 .. L |-> IF k = n + 1 THEN FlatStep(v, q, k) ELSE v[k]]
    OBVIOUS
  <2>3. w = [k \in 1 .. L |-> w[k]]
    BY <2>2
  <2>4. ASSUME NEW k \in 1 .. L, k <= n + 1 PROVE w[k] = FlatStep(w, q, k)
    <3>1. k # 1 => k - 1 \in 1 .. L /\ k - 1 # n + 1
      BY <2>4
    <3>2. k # 1 => w[k - 1] = v[k - 1]
      BY <2>2, <3>1
    <3>3. FlatStep(w, q, k) = FlatStep(v, q, k)
      BY <3>2 DEF FlatStep
    <3>4. w[k] = FlatStep(v, q, k)
      <4>1. CASE k = n + 1
        BY <2>2, <4>1
      <4>2. CASE k # n + 1
        BY <2>1, <2>2, <2>4, <4>2
      <4> QED
        BY <4>1, <4>2
    <3> QED
      BY <3>3, <3>4
  <2>5. Upto(w, n + 1)
    BY <2>4
  <2> QED
    BY <2>3, <2>5
<1>4. \A n \in Nat : n \in N
  <2> HIDE DEF N
  <2> QED
    BY <1>2, <1>3, Induction
<1>5. PICK v : v = [k \in 1 .. L |-> v[k]] /\ Upto(v, L)
  BY <1>4
<1>6. \A k \in 1 .. L : v[k] = FlatStep(v, q, k)
  BY <1>5
<1>7. v = [k \in 1 .. L |-> FlatStep(v, q, k)]
  BY <1>5, <1>6
<1> QED
  BY <1>1, <1>7 DEF IsFlat

\* It depends on no more sequences than it has put together.
LEMMA SameFlat ==
  ASSUME NEW T, NEW q, NEW r, NEW f, NEW g, Len(q) \in Nat, Len(r) \in Nat,
         IsFlat(f, q), IsFlat(g, r), Len(r) <= Len(q),
         \A n \in 1 .. Len(r) : r[n] = q[n] /\ r[n] \in Seq(T)
  PROVE  \A n \in 1 .. Len(r) : g[n] = f[n] /\ g[n] \in Seq(T)
<1>1. PICK L \in Nat, M \in Nat : L = Len(q) /\ M = Len(r)
  OBVIOUS
<1>2. \A n \in 1 .. L : f[n] = FlatStep(f, q, n)
  BY <1>1 DEF IsFlat
<1>3. \A n \in 1 .. M : g[n] = FlatStep(g, r, n)
  BY <1>1 DEF IsFlat
<1> DEFINE N == {n \in Nat : n \in 1 .. M => g[n] = f[n] /\ g[n] \in Seq(T)}
<1>5. 0 \in N
  OBVIOUS
<1>6. ASSUME NEW n \in Nat, n \in N PROVE n + 1 \in N
  <2> SUFFICES ASSUME n + 1 \in 1 .. M PROVE g[n + 1] = f[n + 1] /\ g[n + 1] \in Seq(T)
    OBVIOUS
  <2>1. PICK m \in 1 .. M : m = n + 1
    OBVIOUS
  <2>2. m \in 1 .. L /\ m - 1 = n /\ r[m] = q[m] /\ r[m] \in Seq(T)
    BY <1>1, <2>1
  <2>3. f[m] = FlatStep(f, q, m) /\ g[m] = FlatStep(g, r, m)
    BY <1>2, <1>3, <2>2
  <2>4. CASE m = 1
    BY <2>1, <2>2, <2>3, <2>4 DEF FlatStep
  <2>5. CASE m # 1
    <3>1. n \in 1 .. M
      BY <2>1, <2>5
    <3>2. g[n] = f[n] /\ g[n] \in Seq(T)
      BY <1>6, <3>1
    <3>3. g[m] = g[n] \o r[m] /\ f[m] = f[n] \o q[m]
      BY <2>2, <2>3, <2>5 DEF FlatStep
    <3>4. g[n] \o r[m] \in Seq(T)
      BY <2>2, <3>2, ConcatProperties
    <3> QED
      BY <2>1, <2>2, <3>2, <3>3, <3>4
  <2> QED
    BY <2>4, <2>5
<1>7. \A n \in Nat : n \in N
  <2> HIDE DEF N
  <2> QED
    BY <1>5, <1>6, Induction
<1> QED
  BY <1>1, <1>7

\* One more sequence at the end.
LEMMA FlattenAppend ==
  ASSUME NEW T, NEW q \in Seq(Seq(T)), NEW x \in Seq(T)
  PROVE  FlattenSeq(q) \in Seq(T) /\ FlattenSeq(Append(q, x)) = FlattenSeq(q) \o x
<1>1. PICK L \in Nat : L = Len(q)
  BY LenProperties
<1>2. PICK r : r = Append(q, x)
  OBVIOUS
<1>3. Len(r) = L + 1 /\ r[L + 1] = x /\ \A n \in 1 .. L : r[n] = q[n]
  BY <1>1, <1>2, AppendProperties
<1>4. \A n \in 1 .. L : q[n] \in Seq(T)
  BY <1>1, ElementOfSeq
<1>5. PICK g : IsFlat(g, r) /\ FlattenSeq(r) = g[L + 1]
  <2>1. Len(r) # 0 /\ Len(r) \in Nat
    BY <1>3
  <2> QED
    BY <1>3, <2>1, FlatExists, FlattenDef
<1>6. g[L + 1] = FlatStep(g, r, L + 1)
  <2>1. L + 1 \in 1 .. L + 1
    OBVIOUS
  <2> QED
    BY <1>3, <1>5, <2>1 DEF IsFlat
<1>7. CASE L = 0
  <2>1. q = <<>>
    BY <1>1, <1>7, EmptySeq
  <2>2. FlattenSeq(q) = <<>>
    BY <1>1, <1>7, <2>1 DEF FlattenSeq
  <2>3. g[L + 1] = x
    BY <1>3, <1>6, <1>7 DEF FlatStep
  <2>4. <<>> \o x = x /\ <<>> \in Seq(T)
    OBVIOUS
  <2> QED
    BY <1>2, <1>5, <2>2, <2>3, <2>4
<1>8. CASE L # 0
  <2>1. PICK f : IsFlat(f, q) /\ FlattenSeq(q) = f[L]
    <3>1. Len(q) # 0 /\ Len(q) \in Nat
      BY <1>1, <1>8
    <3> QED
      BY <1>1, <3>1, FlatExists, FlattenDef
  <2>2. f[L] = g[L] /\ f[L] \in Seq(T)
    <3>1. /\ Len(r) \in Nat /\ Len(q) \in Nat /\ Len(q) <= Len(r) /\ L \in 1 .. Len(q)
          /\ \A n \in 1 .. Len(q) : q[n] = r[n] /\ q[n] \in Seq(T)
      BY <1>1, <1>3, <1>4, <1>8
    <3> QED
      BY <1>5, <2>1, <3>1, SameFlat
  <2>3. g[L + 1] = g[L] \o x
    <3>1. L + 1 # 1 /\ (L + 1) - 1 = L
      BY <1>8
    <3> QED
      BY <1>3, <1>6, <3>1 DEF FlatStep
  <2> QED
    BY <1>2, <1>5, <2>1, <2>2, <2>3
<1> QED
  BY <1>7, <1>8

\* What is said and what it is to be seen of it, for any record lg of the broadcasts.
Message == [kind : {"welcome", "join", "say", "leave"}, id : Nat, by : ChatClients, text : Seq(Nat)]
Hits(lg, k, c) == {i \in 1 .. Len(lg) : lg[i].kind = k /\ lg[i].by = c}
First(lg, k, c) == IF Hits(lg, k, c) # {} THEN Min(Hits(lg, k, c)) ELSE 0
Between(lg, c, a, b) == Sublist(SubSeq(lg, a + 1, b), {m \in ToSet(lg) : m.by # c})
Shown(lg, c) ==
    Between(lg, c, First(lg, "join", c), IF First(lg, "leave", c) = 0 THEN Len(lg) ELSE First(lg, "leave", c))
SaidIn(lg, c) == FlattenSeq([i \in 1 .. Len(lg) |-> IF lg[i].by = c THEN lg[i].text ELSE <<>>])

\* The model's operators are these, of the log.
LEMMA RecordOf ==
  ASSUME NEW c
  PROVE  /\ Joined(c) = First(log, "join", c) /\ Left(c) = First(log, "leave", c)
         /\ ToSee(c) = Shown(log, c) /\ Said(c) = SaidIn(log, c)
<1>1. Joined(c) = First(log, "join", c) /\ Left(c) = First(log, "leave", c)
  BY DEF Joined, Left, SelectInSeq, First, Hits
<1>2. ToSee(c) = Shown(log, c)
  BY <1>1 DEF ToSee, Shown, Between
<1>3. Said(c) = SaidIn(log, c)
  BY DEF Said, SaidIn
<1> QED
  BY <1>1, <1>2, <1>3

\* The first message of a kind by a client, if there is one.
LEMMA FirstFacts ==
  ASSUME NEW lg, Len(lg) \in Nat, NEW k, NEW c
  PROVE  /\ First(lg, k, c) \in 0 .. Len(lg)
         /\ First(lg, k, c) = 0 <=> Hits(lg, k, c) = {}
         /\ First(lg, k, c) # 0 => First(lg, k, c) \in Hits(lg, k, c)
         /\ \A i \in Hits(lg, k, c) : First(lg, k, c) <= i
<1>1. CASE Hits(lg, k, c) = {}
  BY <1>1 DEF First
<1>2. CASE Hits(lg, k, c) # {}
  <2>1. Hits(lg, k, c) \subseteq Nat /\ Hits(lg, k, c) \subseteq 1 .. Len(lg)
    BY DEF Hits
  <2>2. PICK x \in Hits(lg, k, c) : \A y \in Hits(lg, k, c) : x <= y
    BY <1>2, <2>1, SmallestOf
  <2>3. /\ Min(Hits(lg, k, c)) \in Hits(lg, k, c)
        /\ \A y \in Hits(lg, k, c) : Min(Hits(lg, k, c)) <= y
    BY <2>2, Zenon DEF Min
  <2> QED
    BY <1>2, <2>1, <2>3 DEF First
<1> QED
  BY <1>1, <1>2

\* A first message of a kind stays the first.
LEMMA FirstAppend ==
  ASSUME NEW T, NEW lg \in Seq(T), NEW m \in T, NEW k, NEW c
  PROVE  First(Append(lg, m), k, c) =
             IF First(lg, k, c) # 0 THEN First(lg, k, c)
             ELSE IF m.kind = k /\ m.by = c THEN Len(lg) + 1 ELSE 0
<1>1. PICK L \in Nat : L = Len(lg)
  BY LenProperties
<1>2. PICK t : t = Append(lg, m)
  OBVIOUS
<1>3. t \in Seq(T) /\ Len(t) = L + 1 /\ t[L + 1] = m /\ \A n \in 1 .. L : t[n] = lg[n]
  BY <1>1, <1>2, AppendProperties
<1>4. Hits(t, k, c) = Hits(lg, k, c) \cup IF m.kind = k /\ m.by = c THEN {L + 1} ELSE {}
  <2>1. 1 .. L + 1 = (1 .. L) \cup {L + 1}
    OBVIOUS
  <2> QED
    BY <1>1, <1>3, <2>1 DEF Hits
<1>5. PICK f \in 0 .. L :
        /\ f = First(lg, k, c) /\ (f = 0 <=> Hits(lg, k, c) = {})
        /\ f # 0 => f \in Hits(lg, k, c)
        /\ \A i \in Hits(lg, k, c) : f <= i
  <2>1. Len(lg) \in Nat
    BY <1>1
  <2> QED
    BY <1>1, <2>1, FirstFacts
<1>6. PICK g \in 0 .. L + 1 :
        /\ g = First(t, k, c) /\ (g = 0 <=> Hits(t, k, c) = {})
        /\ g # 0 => g \in Hits(t, k, c)
        /\ \A i \in Hits(t, k, c) : g <= i
  <2>1. Len(t) \in Nat
    BY <1>3
  <2> QED
    BY <1>3, <2>1, FirstFacts
<1>7. Hits(lg, k, c) \subseteq 1 .. L
  BY <1>1 DEF Hits
<1>8. CASE f # 0
  <2>1. f \in Hits(t, k, c) /\ g <= f /\ g # 0
    BY <1>4, <1>5, <1>6, <1>8
  <2>2. g \in Hits(lg, k, c)
    BY <1>4, <1>5, <1>6, <2>1
  <2>3. f <= g
    BY <1>5, <2>2
  <2> QED
    BY <1>2, <1>5, <1>6, <1>8, <2>1, <2>3
<1>9. CASE f = 0
  <2>1. Hits(t, k, c) = IF m.kind = k /\ m.by = c THEN {L + 1} ELSE {}
    BY <1>4, <1>5, <1>9
  <2>2. g = IF m.kind = k /\ m.by = c THEN L + 1 ELSE 0
    BY <1>6, <2>1
  <2> QED
    BY <1>1, <1>2, <1>5, <1>6, <1>9, <2>2
<1> QED
  BY <1>8, <1>9

\* The part of a record between two places.
LEMMA PartOf ==
  ASSUME NEW T, NEW lg \in Seq(T), NEW b \in 0 .. Len(lg), NEW a \in 0 .. b
  PROVE  /\ SubSeq(lg, a + 1, b) \in Seq(T) /\ Len(SubSeq(lg, a + 1, b)) = b - a
         /\ \A n \in 1 .. b - a : SubSeq(lg, a + 1, b)[n] = lg[a + n]
<1>1. PICK L \in Nat : L = Len(lg)
  BY LenProperties
<1>2. a + 1 \in 1 .. L + 1 /\ b \in (a + 1) - 1 .. L
  BY <1>1
<1>3. /\ SubSeq(lg, a + 1, b) \in Seq(T)
      /\ Len(SubSeq(lg, a + 1, b)) = b - (a + 1) + 1
      /\ \A n \in 1 .. b - (a + 1) + 1 : SubSeq(lg, a + 1, b)[n] = lg[(a + 1) + n - 1]
  BY <1>1, <1>2, SubSeqProperties
<1>4. b - (a + 1) + 1 = b - a
  BY <1>1, <1>2
<1>5. \A n \in 1 .. b - a : (a + 1) + n - 1 = a + n
  BY <1>1, <1>2
<1> QED
  BY <1>3, <1>4, <1>5

\* A message more is seen by who is to see it and is not its author; later messages do
\* not change what is between two places.
LEMMA BetweenAppend ==
  ASSUME NEW T, NEW lg \in Seq(T), NEW m \in T, NEW c, NEW b \in 0 .. Len(lg), NEW a \in 0 .. b
  PROVE  /\ Between(lg, c, a, b) \in Seq(T)
         /\ Between(Append(lg, m), c, a, b) = Between(lg, c, a, b)
         /\ b = Len(lg) => Between(Append(lg, m), c, a, b + 1) =
                IF m.by # c THEN Append(Between(lg, c, a, b), m) ELSE Between(lg, c, a, b)
<1>1. PICK L \in Nat : L = Len(lg)
  BY LenProperties
<1>2. PICK t : t = Append(lg, m)
  OBVIOUS
<1>3. t \in Seq(T) /\ Len(t) = L + 1 /\ t[L + 1] = m /\ \A n \in 1 .. L : t[n] = lg[n]
  BY <1>1, <1>2, AppendProperties
<1>4. PICK p : p = SubSeq(lg, a + 1, b)
  OBVIOUS
<1>5. b \in Nat /\ b <= L /\ a \in Nat /\ a <= b
  BY <1>1
<1>6. p \in Seq(T) /\ Len(p) = b - a /\ \A n \in 1 .. b - a : p[n] = lg[a + n]
  BY <1>4, PartOf
<1> DEFINE S == {x \in ToSet(lg) : x.by # c}
           U == {x \in ToSet(t) : x.by # c}
<1>7. ToSet(t) = ToSet(lg) \cup {m}
  BY <1>2, AppendOnce
<1>8. \A n \in 1 .. Len(p) : p[n] \in S <=> p[n] \in U
  <2>1. DOMAIN lg = 1 .. L
    BY <1>1
  <2>2. ASSUME NEW n \in 1 .. b - a PROVE p[n] \in ToSet(lg)
    <3>1. a + n \in 1 .. L
      BY <1>5
    <3> QED
      BY <1>6, <2>1, <3>1 DEF ToSet
  <2> QED
    BY <1>6, <1>7, <2>2
<1>9. Between(lg, c, a, b) = Sublist(p, S)
  BY <1>4 DEF Between
<1>10. Between(lg, c, a, b) \in Seq(T)
  <2> HIDE DEF S
  <2> QED
    BY <1>6, <1>9, SublistOf
<1>11. Between(t, c, a, b) = Between(lg, c, a, b)
  <2>1. PICK r : r = SubSeq(t, a + 1, b)
    OBVIOUS
  <2>2. r \in Seq(T) /\ Len(r) = b - a /\ \A n \in 1 .. b - a : r[n] = t[a + n]
    <3>1. b \in 0 .. Len(t)
      BY <1>3, <1>5
    <3> QED
      BY <1>3, <2>1, <3>1, PartOf
  <2>3. ASSUME NEW n \in 1 .. b - a PROVE r[n] = p[n]
    <3>1. a + n \in 1 .. L
      BY <1>5
    <3> QED
      BY <1>3, <1>6, <2>2, <3>1
  <2>4. r = p
    BY <1>6, <2>2, <2>3, SeqEqual
  <2>5. Between(t, c, a, b) = Sublist(p, U)
    BY <2>1, <2>4 DEF Between
  <2>6. Sublist(p, U) = Sublist(p, S)
    <3> HIDE DEF S, U
    <3> QED
      BY <1>6, <1>8, SublistSame
  <2> QED
    BY <1>9, <2>5, <2>6
<1>12. ASSUME b = L
       PROVE  Between(t, c, a, b + 1) =
                  IF m.by # c THEN Append(Between(lg, c, a, b), m) ELSE Between(lg, c, a, b)
  <2>1. PICK r : r = SubSeq(t, a + 1, b + 1)
    OBVIOUS
  <2>2. r \in Seq(T) /\ Len(r) = (b - a) + 1 /\ \A n \in 1 .. (b - a) + 1 : r[n] = t[a + n]
    <3>1. b + 1 \in 0 .. Len(t) /\ a \in 0 .. b + 1 /\ (b + 1) - a = (b - a) + 1
      BY <1>3, <1>5, <1>12
    <3>2. /\ SubSeq(t, a + 1, b + 1) \in Seq(T) /\ Len(SubSeq(t, a + 1, b + 1)) = (b + 1) - a
          /\ \A n \in 1 .. (b + 1) - a : SubSeq(t, a + 1, b + 1)[n] = t[a + n]
      BY <1>3, <3>1, PartOf
    <3> QED
      BY <2>1, <3>1, <3>2
  <2>3. PICK w : w = Append(p, m)
    OBVIOUS
  <2>4. w \in Seq(T) /\ Len(w) = (b - a) + 1 /\ w[(b - a) + 1] = m
        /\ \A n \in 1 .. b - a : w[n] = p[n]
    BY <1>6, <2>3, AppendProperties
  <2>5. ASSUME NEW n \in 1 .. (b - a) + 1 PROVE r[n] = w[n]
    <3>1. CASE n = (b - a) + 1
      <4>1. a + n = L + 1
        BY <1>5, <1>12, <3>1
      <4> QED
        BY <1>3, <2>2, <2>4, <3>1, <4>1
    <3>2. CASE n # (b - a) + 1
      <4>1. n \in 1 .. b - a /\ a + n \in 1 .. L
        BY <1>5, <3>2
      <4> QED
        BY <1>3, <1>6, <2>2, <2>4, <4>1
    <3> QED
      BY <3>1, <3>2
  <2>6. r = w
    BY <2>2, <2>4, <2>5, SeqEqual
  <2>7. Between(t, c, a, b + 1) = Sublist(Append(p, m), U)
    BY <2>1, <2>3, <2>6 DEF Between
  <2>8. m \in U <=> m.by # c
    BY <1>7
  <2>9. Sublist(Append(p, m), U) = IF m \in U THEN Append(Sublist(p, S), m) ELSE Sublist(p, S)
    <3> HIDE DEF S, U
    <3>1. p \in Seq(T) /\ m \in T /\ \A n \in 1 .. Len(p) : p[n] \in S <=> p[n] \in U
      BY <1>6, <1>8
    <3>2. ASSUME m \in U PROVE Sublist(Append(p, m), U) = Append(Sublist(p, S), m)
      BY <3>1, <3>2, SublistAppend
    <3>3. ASSUME m \notin U PROVE Sublist(Append(p, m), U) = Sublist(p, S)
      BY <3>1, <3>3, SublistAppend
    <3> QED
      BY <3>2, <3>3
  <2> QED
    BY <1>9, <2>7, <2>8, <2>9
<1> QED
  BY <1>1, <1>2, <1>10, <1>11, <1>12

\* What one who has joined is to see of one more message, and one who joins with it.
LEMMA ShownAppend ==
  ASSUME NEW T, NEW lg \in Seq(T), NEW m \in T, NEW c, First(lg, "join", c) # 0,
         First(lg, "leave", c) # 0 => First(lg, "join", c) <= First(lg, "leave", c)
  PROVE  /\ Shown(lg, c) \in Seq(T)
         /\ Shown(Append(lg, m), c) =
                IF First(lg, "leave", c) = 0 /\ m.by # c THEN Append(Shown(lg, c), m) ELSE Shown(lg, c)
<1>1. PICK L \in Nat : L = Len(lg)
  BY LenProperties
<1>2. PICK t : t = Append(lg, m)
  OBVIOUS
<1>3. t \in Seq(T) /\ Len(t) = L + 1
  BY <1>1, <1>2, AppendProperties
<1>4. PICK a \in 1 .. L : a = First(lg, "join", c)
  BY <1>1, FirstFacts
<1>5. PICK e \in 0 .. L : e = First(lg, "leave", c) /\ (e # 0 => a <= e)
  BY <1>1, <1>4, FirstFacts
<1>6. First(t, "join", c) = a
  BY <1>2, <1>4, FirstAppend
<1>7. First(t, "leave", c) = IF e # 0 THEN e ELSE IF m.kind = "leave" /\ m.by = c THEN L + 1 ELSE 0
  BY <1>1, <1>2, <1>5, FirstAppend
<1>8. CASE e # 0
  <2>1. a \in 0 .. e /\ e \in 0 .. Len(lg)
    BY <1>1, <1>5, <1>8
  <2>2. Between(lg, c, a, e) \in Seq(T) /\ Between(t, c, a, e) = Between(lg, c, a, e)
    BY <1>2, <2>1, BetweenAppend
  <2>3. Shown(lg, c) = Between(lg, c, a, e)
    BY <1>4, <1>5, <1>8 DEF Shown
  <2>4. Shown(t, c) = Between(t, c, a, e)
    BY <1>6, <1>7, <1>8 DEF Shown
  <2> QED
    BY <1>2, <1>5, <1>8, <2>2, <2>3, <2>4
<1>9. CASE e = 0
  <2>1. a \in 0 .. L /\ L \in 0 .. Len(lg) /\ L = Len(lg)
    BY <1>1
  <2>2. /\ Between(lg, c, a, L) \in Seq(T)
        /\ Between(t, c, a, L + 1) =
               IF m.by # c THEN Append(Between(lg, c, a, L), m) ELSE Between(lg, c, a, L)
    BY <1>2, <2>1, BetweenAppend
  <2>3. Shown(lg, c) = Between(lg, c, a, L)
    BY <1>1, <1>4, <1>5, <1>9 DEF Shown
  <2>4. Shown(t, c) = Between(t, c, a, L + 1)
    BY <1>3, <1>6, <1>7, <1>9 DEF Shown
  <2> QED
    BY <1>2, <1>5, <1>9, <2>2, <2>3, <2>4
<1> QED
  BY <1>8, <1>9

\* One who joins with the last message has nothing to see yet.
LEMMA ShownStart ==
  ASSUME NEW T, NEW lg \in Seq(T), NEW m \in T, NEW c, First(lg, "join", c) = 0,
         First(lg, "leave", c) = 0, m.kind = "join", m.by = c
  PROVE  Shown(Append(lg, m), c) = <<>>
<1>1. PICK L \in Nat : L = Len(lg)
  BY LenProperties
<1>2. PICK t : t = Append(lg, m)
  OBVIOUS
<1>3. t \in Seq(T) /\ Len(t) = L + 1
  BY <1>1, <1>2, AppendProperties
<1>4. First(t, "join", c) = L + 1 /\ First(t, "leave", c) = 0
  BY <1>1, <1>2, FirstAppend
<1>5. PICK p : p = SubSeq(t, (L + 1) + 1, L + 1)
  OBVIOUS
<1>6. p \in Seq(T) /\ Len(p) = 0
  <2>1. L + 1 \in 0 .. Len(t) /\ L + 1 \in 0 .. L + 1 /\ (L + 1) - (L + 1) = 0
    BY <1>3
  <2> QED
    BY <1>3, <1>5, <2>1, PartOf
<1>7. p = <<>>
  BY <1>6, EmptySeq
<1> QED
  BY <1>2, <1>3, <1>4, <1>5, <1>7, SublistEmpty DEF Shown, Between

\* What a client has said, one message later.
LEMMA SaidAppend ==
  ASSUME NEW lg \in Seq(Message), NEW m \in Message, NEW c
  PROVE  /\ SaidIn(lg, c) \in Seq(Nat)
         /\ SaidIn(Append(lg, m), c) = SaidIn(lg, c) \o (IF m.by = c THEN m.text ELSE <<>>)
<1>1. PICK L \in Nat : L = Len(lg)
  BY LenProperties
<1>2. PICK t : t = Append(lg, m)
  OBVIOUS
<1>3. t \in Seq(Message) /\ Len(t) = L + 1 /\ t[L + 1] = m /\ \A n \in 1 .. L : t[n] = lg[n]
  BY <1>1, <1>2, AppendProperties
<1> DEFINE text(x) == IF x.by = c THEN x.text ELSE <<>>
<1>4. ASSUME NEW x \in Message PROVE text(x) \in Seq(Nat)
  BY DEF Message
<1>5. PICK q : q = [i \in 1 .. L |-> text(lg[i])]
  OBVIOUS
<1>6. PICK r : r = [i \in 1 .. L + 1 |-> text(t[i])]
  OBVIOUS
<1> HIDE DEF text
<1>7. \A i \in 1 .. L : text(lg[i]) \in Seq(Nat)
  BY <1>1, <1>4, ElementOfSeq
<1>8. q \in Seq(Seq(Nat)) /\ Len(q) = L
  <2>1. q \in [1 .. L -> Seq(Nat)]
    BY <1>5, <1>7
  <2> QED
    BY <1>5, <2>1
<1>9. text(m) \in Seq(Nat)
  BY <1>4
<1>10. r = Append(q, text(m))
  <2>1. PICK w : w = Append(q, text(m))
    OBVIOUS
  <2>2. w \in Seq(Seq(Nat)) /\ Len(w) = L + 1 /\ w[L + 1] = text(m) /\ \A n \in 1 .. L : w[n] = q[n]
    BY <1>8, <1>9, <2>1, AppendProperties
  <2>3. DOMAIN w = 1 .. L + 1 /\ w = [i \in 1 .. L + 1 |-> w[i]]
    BY <2>2
  <2>4. \A n \in 1 .. L + 1 : w[n] = text(t[n])
    <3> TAKE n \in 1 .. L + 1
    <3>1. CASE n = L + 1
      BY <1>3, <2>2, <3>1
    <3>2. CASE n # L + 1
      <4>1. n \in 1 .. L
        BY <3>2
      <4> QED
        BY <1>3, <1>5, <2>2, <4>1
    <3> QED
      BY <3>1, <3>2
  <2> QED
    BY <1>6, <2>1, <2>3, <2>4
<1>11. FlattenSeq(q) \in Seq(Nat) /\ FlattenSeq(Append(q, text(m))) = FlattenSeq(q) \o text(m)
  BY <1>8, <1>9, FlattenAppend
<1>12. SaidIn(lg, c) = FlattenSeq(q)
  BY <1>1, <1>5 DEF SaidIn, text
<1>13. SaidIn(t, c) = FlattenSeq(r)
  BY <1>3, <1>6 DEF SaidIn, text
<1> QED
  BY <1>2, <1>10, <1>11, <1>12, <1>13 DEF text

\* The sockets of the server: its own and one per client.
ChatSock == {ChatSocket} \cup ChatClients

ChatTyped ==
    /\ hpc \in {"select", "loop", "cast", "died"}
    /\ hread \in Seq(ChatSock) /\ hready \in Seq(ChatSock)
    /\ Members \subseteq ChatClients /\ client_list \in [Members -> Nat] /\ count \in Nat
    /\ cast \in [to : SUBSET ChatClients, leavers : SUBSET ChatClients]
    /\ hqueue \in Seq(ChatClients)
    /\ line \in [ChatClients -> Seq(Nat)] /\ typed \in [ChatClients -> Nat]
    /\ chatter \in [ChatClients -> {"none", "open", "gone", "reset"}]
    /\ log \in Seq(Message) /\ seen \in [ChatClients -> Seq(Message)]

\* The server watches the members; what is left of select()'s answer are members that
\* do not leave, and the listening socket only while somebody waits.
LoopRight ==
    /\ Once(hread) /\ ToSet(hread) = {ChatSocket} \cup Members
    /\ hpc \in {"loop", "cast"} =>
          /\ Once(hready) /\ ToSet(hready) \subseteq ({ChatSocket} \cup Members) \ cast.leavers
          /\ ChatSocket \in ToSet(hready) => hqueue # <<>>
    /\ hpc \in {"select", "loop"} => cast.to = {} /\ cast.leavers = {}
    /\ Once(hqueue)

\* A client waits, joins and leaves once; a broadcast goes to members that are not the
\* author of the last message.
ClientRight(c) ==
    /\ chatter[c] = "none" => c \notin ToSet(hqueue)
    /\ chatter[c] = "none" \/ c \in ToSet(hqueue) => Joined(c) = 0
    /\ Joined(c) = 0 => /\ typed[c] = 0 /\ line[c] = <<>> /\ Left(c) = 0 /\ seen[c] = <<>>
                        /\ \A i \in 1 .. Len(log) : log[i].by # c
    /\ Joined(c) # 0 => seen[c] # <<>>
    /\ Left(c) # 0 => Joined(c) # 0 /\ Joined(c) <= Left(c)
    /\ c \in Members <=> Joined(c) # 0 /\ (Left(c) = 0 \/ c \in cast.leavers)
    /\ c \in cast.to => Joined(c) < Len(log) /\ Joined(c) # 0 /\ Left(c) = 0 /\ log[Len(log)].by # c
    /\ c \in cast.leavers => Left(c) # 0

\* What it has seen is what it is to see, but for the last message while that is sent.
SeenBy(c) ==
    /\ Joined(c) # 0 => ToSee(c) = IF c \in cast.to THEN Append(Tail(seen[c]), log[Len(log)])
                                   ELSE Tail(seen[c])
    /\ Said(c) \o line[c] = [i \in 1 .. typed[c] |-> i]

\* A member's ID is that of the message of its join.
IdsRight ==
    /\ \A i \in 1 .. Len(log) : log[i].id < count
    /\ \A i, j \in 1 .. Len(log) : log[i].id = log[j].id <=> log[i].by = log[j].by
    /\ \A c \in Members : client_list[c] = log[Joined(c)].id

\* A reset, or accept() with no descriptor left.
OutOfFds == hready # <<>> /\ Head(hready) = ChatSocket /\ Full
DeathRight == hpc = "died" => OutOfFds \/ \E c \in ChatClients : Raises(c)

ChatInv ==
    /\ ChatTyped /\ LoopRight /\ IdsRight /\ DeathRight
    /\ \A c \in ChatClients : ClientRight(c) /\ SeenBy(c)

\* After a step the model's operators are these, of the new log.
LEMMA RecordNext ==
  ASSUME NEW c
  PROVE  /\ Joined(c)' = First(log', "join", c) /\ Left(c)' = First(log', "leave", c)
         /\ ToSee(c)' = Shown(log', c) /\ Said(c)' = SaidIn(log', c)
<1>1. Joined(c)' = First(log', "join", c) /\ Left(c)' = First(log', "leave", c)
  BY DEF Joined, Left, SelectInSeq, First, Hits
<1>2. ToSee(c)' = Shown(log', c)
  BY <1>1 DEF ToSee, Shown, Between
<1>3. Said(c)' = SaidIn(log', c)
  BY DEF Said, SaidIn
<1> QED
  BY <1>1, <1>2, <1>3

\* The record is what it was when no message is added.
LEMMA SameRecord ==
  ASSUME NEW c, log' = log
  PROVE  Joined(c)' = Joined(c) /\ Left(c)' = Left(c) /\ ToSee(c)' = ToSee(c) /\ Said(c)' = Said(c)
BY RecordOf, RecordNext

\* Where the joins and leaves are recorded, and that what is said is a sequence of lines.
LEMMA JoinedFacts ==
  ASSUME ChatTyped, NEW c
  PROVE  /\ Joined(c) \in 0 .. Len(log) /\ Left(c) \in 0 .. Len(log)
         /\ Joined(c) # 0 => log[Joined(c)].by = c
         /\ Said(c) \in Seq(Nat)
<1>1. Len(log) \in Nat /\ log \in Seq(Message)
  BY LenProperties DEF ChatTyped
<1>2. Joined(c) \in 0 .. Len(log) /\ Left(c) \in 0 .. Len(log)
  BY <1>1, FirstFacts, RecordOf
<1>3. Joined(c) # 0 => log[Joined(c)].by = c
  BY <1>1, FirstFacts, RecordOf DEF Hits
<1>4. Said(c) \in Seq(Nat)
  <2>1. Said(c) = SaidIn(log, c)
    BY RecordOf
  <2>2. CASE log = <<>>
    <3>1. Said(c) = FlattenSeq([i \in 1 .. 0 |-> IF log[i].by = c THEN log[i].text ELSE <<>>])
      BY <2>1, <2>2 DEF SaidIn
    <3>2. PICK q : q = [i \in 1 .. 0 |-> IF log[i].by = c THEN log[i].text ELSE <<>>]
      OBVIOUS
    <3>3. q \in Seq(Nat) /\ Len(q) = 0
      BY <3>2
    <3> QED
      BY <3>1, <3>2, <3>3 DEF FlattenSeq
  <2>3. CASE log # <<>>
    <3>1. log[1] \in Message
      <4>1. 1 \in 1 .. Len(log)
        BY <1>1, <2>3, EmptySeq
      <4> QED
        BY <1>1, <4>1, ElementOfSeq
    <3> QED
      BY <1>1, <2>1, <3>1, SaidAppend
  <2> QED
    BY <2>2, <2>3
<1> QED
  BY <1>2, <1>3, <1>4

\* What one more message does to the record.
LEMMA Told ==
  ASSUME ChatTyped, NEW m \in Message, log' = Append(log, m), NEW c
  PROVE  /\ Joined(c)' = IF Joined(c) # 0 THEN Joined(c)
                         ELSE IF m.kind = "join" /\ m.by = c THEN Len(log) + 1 ELSE 0
         /\ Left(c)' = IF Left(c) # 0 THEN Left(c)
                       ELSE IF m.kind = "leave" /\ m.by = c THEN Len(log) + 1 ELSE 0
         /\ Said(c)' = Said(c) \o (IF m.by = c THEN m.text ELSE <<>>)
         /\ Joined(c) # 0 /\ (Left(c) # 0 => Joined(c) <= Left(c)) =>
                ToSee(c)' = IF Left(c) = 0 /\ m.by # c THEN Append(ToSee(c), m) ELSE ToSee(c)
         /\ Joined(c) = 0 /\ Left(c) = 0 /\ m.kind = "join" /\ m.by = c => ToSee(c)' = <<>>
<1>1. log \in Seq(Message)
  BY DEF ChatTyped
<1>2. /\ Joined(c) = First(log, "join", c) /\ Left(c) = First(log, "leave", c)
      /\ ToSee(c) = Shown(log, c) /\ Said(c) = SaidIn(log, c)
  BY RecordOf
<1>3. /\ Joined(c)' = First(log', "join", c) /\ Left(c)' = First(log', "leave", c)
      /\ ToSee(c)' = Shown(log', c) /\ Said(c)' = SaidIn(log', c)
  BY RecordNext
<1>4. /\ Joined(c)' = IF Joined(c) # 0 THEN Joined(c)
                      ELSE IF m.kind = "join" /\ m.by = c THEN Len(log) + 1 ELSE 0
      /\ Left(c)' = IF Left(c) # 0 THEN Left(c)
                    ELSE IF m.kind = "leave" /\ m.by = c THEN Len(log) + 1 ELSE 0
  BY <1>1, <1>2, <1>3, FirstAppend
<1>5. Said(c)' = Said(c) \o (IF m.by = c THEN m.text ELSE <<>>)
  BY <1>1, <1>2, <1>3, SaidAppend
<1>6. ASSUME Joined(c) # 0, Left(c) # 0 => Joined(c) <= Left(c)
      PROVE  ToSee(c)' = IF Left(c) = 0 /\ m.by # c THEN Append(ToSee(c), m) ELSE ToSee(c)
  BY <1>1, <1>2, <1>3, <1>6, ShownAppend
<1>7. ASSUME Joined(c) = 0, Left(c) = 0, m.kind = "join", m.by = c PROVE ToSee(c)' = <<>>
  BY <1>1, <1>2, <1>3, <1>7, ShownStart
<1> QED
  BY <1>4, <1>5, <1>6, <1>7

\* The log keeps its messages and has one more.
LEMMA LogGrows ==
  ASSUME ChatTyped, NEW m \in Message, log' = Append(log, m)
  PROVE  /\ log' \in Seq(Message) /\ Len(log) \in Nat /\ Len(log') = Len(log) + 1
         /\ log'[Len(log) + 1] = m /\ \A i \in 1 .. Len(log) : log'[i] = log[i] /\ log[i] \in Message
<1>1. log \in Seq(Message) /\ Len(log) \in Nat
  BY LenProperties DEF ChatTyped
<1>2. \A i \in 1 .. Len(log) : log[i] \in Message
  BY <1>1, ElementOfSeq
<1> QED
  BY <1>1, <1>2, AppendProperties

\* s is 1, 2, ..., n.
Counting(s, n) == s = [i \in 1 .. n |-> i]

\* Numbered from 1, the next line typed is the next number.
LEMMA SaidMore ==
  ASSUME NEW a \in Seq(Nat), NEW b \in Seq(Nat), NEW n \in Nat, Counting(a \o b, n)
  PROVE  Counting(a \o Append(b, n + 1), n + 1)
<1>1. PICK A \in Nat, B \in Nat : A = Len(a) /\ B = Len(b)
  BY LenProperties
<1>2. PICK w : w = a \o b
  OBVIOUS
<1>11. w = [i \in 1 .. n |-> i]
  BY <1>2 DEF Counting
<1>3. /\ w \in Seq(Nat) /\ Len(w) = A + B
      /\ \A i \in 1 .. A + B : w[i] = IF i <= A THEN a[i] ELSE b[i - A]
  <2>1. a \in Seq(Nat) /\ b \in Seq(Nat)
    OBVIOUS
  <2> QED
    BY ONLY <1>1, <1>2, <2>1, ConcatProperties
<1>4. A + B = n
  <2>1. DOMAIN w = 1 .. A + B /\ DOMAIN w = 1 .. n
    BY <1>3, <1>11
  <2>2. A + B \in Nat
    OBVIOUS
  <2> QED
    BY <2>1, <2>2
<1>5. PICK x : x = Append(b, n + 1)
  OBVIOUS
<1>6. /\ x \in Seq(Nat) /\ Len(x) = B + 1 /\ x[B + 1] = n + 1
      /\ \A i \in 1 .. B : x[i] = b[i]
  <2>1. n + 1 \in Nat
    OBVIOUS
  <2> QED
    BY <1>1, <1>5, <2>1, AppendProperties
<1>7. PICK v : v = a \o x
  OBVIOUS
<1>8. /\ v \in Seq(Nat) /\ Len(v) = A + (B + 1)
      /\ \A i \in 1 .. A + (B + 1) : v[i] = IF i <= A THEN a[i] ELSE x[i - A]
  <2>1. a \in Seq(Nat) /\ x \in Seq(Nat)
    BY <1>6
  <2>2. PICK X \in Nat : X = Len(x)
    BY <1>6
  <2>3. /\ v \in Seq(Nat) /\ Len(v) = A + X
        /\ \A i \in 1 .. A + X : v[i] = IF i <= A THEN a[i] ELSE x[i - A]
    BY ONLY <1>1, <1>7, <2>1, <2>2, ConcatProperties
  <2>4. X = B + 1
    BY <1>6, <2>2
  <2> QED
    BY <2>3, <2>4
<1>9. ASSUME NEW i \in 1 .. n + 1 PROVE v[i] = i
  <2>1. CASE i = n + 1
    <3>1. ~(i <= A) /\ i - A = B + 1 /\ i \in 1 .. A + (B + 1)
      BY <1>4, <2>1
    <3> QED
      BY <1>6, <1>8, <2>1, <3>1
  <2>2. CASE i # n + 1
    <3>1. i \in 1 .. A + (B + 1) /\ i \in 1 .. A + B /\ i \in 1 .. n
      BY <1>4, <2>2
    <3>2. w[i] = i
      BY <1>11, <3>1
    <3>3. ~(i <= A) => i - A \in 1 .. B
      BY <3>1
    <3> QED
      BY <1>3, <1>6, <1>8, <3>1, <3>2, <3>3
  <2> QED
    BY <2>1, <2>2
<1>10. v = [i \in 1 .. n + 1 |-> v[i]]
  <2>1. A + (B + 1) = n + 1
    BY <1>4
  <2> QED
    BY <1>8, <2>1
<1> QED
  BY <1>5, <1>7, <1>9, <1>10 DEF Counting

-------------------------------------------------------------------------------
\* Nothing is recorded and the server does not move: the clients' own steps.
LEMMA QuietRight ==
  ASSUME ChatInv, UNCHANGED <<serverChat, log, seen>>
  PROVE  /\ IdsRight'
         /\ \A c \in ChatClients : Joined(c)' = Joined(c) /\ Left(c)' = Left(c) /\ ToSee(c)' = ToSee(c)
                                   /\ Said(c)' = Said(c)
<1>1. log' = log /\ count' = count /\ client_list' = client_list
  BY DEF serverChat
<1>2. \A c : Joined(c)' = Joined(c) /\ Left(c)' = Left(c) /\ ToSee(c)' = ToSee(c) /\ Said(c)' = Said(c)
  BY <1>1, SameRecord
<1>3. IdsRight'
  BY <1>1, <1>2 DEF IdsRight, ChatInv, Members
<1> QED
  BY <1>2, <1>3

\* What clients do by themselves: connect, type, leave, and the answer of their systems.
LEMMA ClientsKeep ==
  ASSUME ChatInv, NEW c0 \in ChatClients,
         ChatConnects(c0) \/ ChatTypes(c0) \/ ChatLeaves(c0) \/ ChatResetComesBack(c0)
  PROVE  ChatInv'
<1>1. UNCHANGED <<serverChat, log, seen>> /\ hpc # "died"
  BY DEF ChatConnects, ChatTypes, ChatLeaves, ChatResetComesBack
<1>2. /\ UNCHANGED <<hpc, hread, hready, client_list, count, cast, log, seen>>
      /\ Members' = Members
  BY <1>1 DEF serverChat, Members
<1>3. /\ IdsRight'
      /\ \A c \in ChatClients : Joined(c)' = Joined(c) /\ Left(c)' = Left(c) /\ ToSee(c)' = ToSee(c)
                                /\ Said(c)' = Said(c)
  BY <1>1, QuietRight
<1>4. DeathRight'
  BY <1>1, <1>2 DEF DeathRight
<1>5. ChatTyped /\ LoopRight
  BY DEF ChatInv
<1>6. \A c \in ChatClients : ClientRight(c) /\ SeenBy(c)
  BY DEF ChatInv
<1>7. CASE ChatConnects(c0)
  <2>1. /\ chatter[c0] = "none" /\ chatter' = [chatter EXCEPT ![c0] = "open"]
        /\ hqueue' = Append(hqueue, c0) /\ UNCHANGED <<line, typed>>
    BY <1>7 DEF ChatConnects
  <2>2. c0 \notin ToSet(hqueue) /\ Joined(c0) = 0
    BY <1>6, <2>1 DEF ClientRight
  <2>3. /\ hqueue' \in Seq(ChatClients) /\ ToSet(hqueue') = ToSet(hqueue) \cup {c0}
        /\ Once(hqueue')
    BY <1>5, <2>1, <2>2, AppendOnce DEF ChatTyped, LoopRight
  <2>4. hqueue' # <<>>
    <3>1. c0 \in ToSet(hqueue')
      BY <2>3
    <3> QED
      BY <3>1 DEF ToSet
  <2>5. ChatTyped'
    BY <1>2, <1>5, <2>1, <2>3 DEF ChatTyped
  <2>6. LoopRight'
    BY <1>2, <1>5, <2>3, <2>4 DEF LoopRight
  <2>7. ASSUME NEW c \in ChatClients PROVE ClientRight(c)' /\ SeenBy(c)'
    <3>1. /\ chatter'[c] = "none" => chatter[c] = "none" /\ c # c0
          /\ c \in ToSet(hqueue') => c \in ToSet(hqueue) \/ c = c0
          /\ typed'[c] = typed[c] /\ line'[c] = line[c] /\ seen'[c] = seen[c]
      BY <1>2, <1>5, <2>1, <2>3 DEF ChatTyped
    <3>2. ClientRight(c) /\ SeenBy(c)
      BY <1>6
    <3>3. ClientRight(c)'
      BY <1>2, <1>3, <2>2, <2>3, <3>1, <3>2 DEF ClientRight
    <3>4. SeenBy(c)'
      BY <1>2, <1>3, <3>1, <3>2 DEF SeenBy
    <3> QED
      BY <3>3, <3>4
  <2> QED
    BY <1>3, <1>4, <2>5, <2>6, <2>7 DEF ChatInv
<1>8. CASE ChatTypes(c0)
  <2>1. /\ seen[c0] # <<>> /\ typed' = [typed EXCEPT ![c0] = @ + 1]
        /\ line' = [line EXCEPT ![c0] = Append(@, typed[c0] + 1)] /\ UNCHANGED <<hqueue, chatter>>
    BY <1>8 DEF ChatTypes
  <2>2. Joined(c0) # 0
    BY <1>6, <2>1 DEF ClientRight
  <2>3. line[c0] \in Seq(Nat) /\ typed[c0] \in Nat
    BY <1>5 DEF ChatTyped
  <2>4. Append(line[c0], typed[c0] + 1) \in Seq(Nat) /\ typed[c0] + 1 \in Nat
    BY <2>3, AppendProperties
  <2>5. ChatTyped'
    <3>1. line' \in [ChatClients -> Seq(Nat)]
      BY <1>5, <2>1, <2>4 DEF ChatTyped
    <3>2. typed' \in [ChatClients -> Nat]
      BY <1>5, <2>1, <2>4 DEF ChatTyped
    <3> QED
      BY <1>2, <1>5, <2>1, <3>1, <3>2 DEF ChatTyped
  <2>6. LoopRight'
    BY <1>2, <1>5, <2>1 DEF LoopRight
  <2>7. ASSUME NEW c \in ChatClients PROVE ClientRight(c)' /\ SeenBy(c)'
    <3>2. ClientRight(c) /\ SeenBy(c)
      BY <1>6
    <3>3. CASE c = c0
      <4>1. line'[c] = Append(line[c], typed[c] + 1) /\ typed'[c] = typed[c] + 1
        BY <1>5, <2>1, <3>3 DEF ChatTyped
      <4>2. Said(c) \o line'[c] = [i \in 1 .. typed[c] + 1 |-> i]
        <5>1. Said(c) \in Seq(Nat)
          BY <1>5, JoinedFacts
        <5>2. Counting(Said(c) \o line[c], typed[c])
          BY <3>2 DEF SeenBy, Counting
        <5>3. Counting(Said(c) \o Append(line[c], typed[c] + 1), typed[c] + 1)
          BY <2>3, <3>3, <5>1, <5>2, SaidMore, Zenon
        <5> QED
          BY <4>1, <5>3 DEF Counting
      <4>3. ClientRight(c)'
        BY <1>2, <1>3, <2>1, <2>2, <3>2, <3>3 DEF ClientRight
      <4>4. SeenBy(c)'
        BY <1>2, <1>3, <3>2, <4>1, <4>2 DEF SeenBy
      <4> QED
        BY <4>3, <4>4
    <3>4. CASE c # c0
      <4>1. line'[c] = line[c] /\ typed'[c] = typed[c]
        BY <1>5, <2>1, <3>4 DEF ChatTyped
      <4>3. ClientRight(c)'
        BY <1>2, <1>3, <2>1, <3>2, <4>1 DEF ClientRight
      <4>4. SeenBy(c)'
        BY <1>2, <1>3, <3>2, <4>1 DEF SeenBy
      <4> QED
        BY <4>3, <4>4
    <3> QED
      BY <3>3, <3>4
  <2> QED
    BY <1>3, <1>4, <2>5, <2>6, <2>7 DEF ChatInv
<1>9. CASE ChatLeaves(c0) \/ ChatResetComesBack(c0)
  <2>1. /\ UNCHANGED <<hqueue, line, typed>>
        /\ \/ UNCHANGED chatter
           \/ /\ chatter[c0] = "open"
              /\ \E how \in {"gone", "reset"} : chatter' = [chatter EXCEPT ![c0] = how]
    BY <1>9 DEF ChatLeaves, ChatResetComesBack
  <2>2. /\ chatter' \in [ChatClients -> {"none", "open", "gone", "reset"}]
        /\ \A c \in ChatClients : chatter'[c] = "none" => chatter[c] = "none"
    BY <1>5, <2>1 DEF ChatTyped
  <2>5. ChatTyped'
    BY <1>2, <1>5, <2>1, <2>2 DEF ChatTyped
  <2>6. LoopRight'
    BY <1>2, <1>5, <2>1 DEF LoopRight
  <2>7. ASSUME NEW c \in ChatClients PROVE ClientRight(c)' /\ SeenBy(c)'
    <3>2. ClientRight(c) /\ SeenBy(c)
      BY <1>6
    <3>3. ClientRight(c)'
      BY <1>2, <1>3, <2>1, <2>2, <3>2 DEF ClientRight
    <3>4. SeenBy(c)'
      BY <1>2, <1>3, <2>1, <3>2 DEF SeenBy
    <3> QED
      BY <3>3, <3>4
  <2> QED
    BY <1>3, <1>4, <2>5, <2>6, <2>7 DEF ChatInv
<1> QED
  BY <1>7, <1>8, <1>9

\* select() and the rest of the loop that records nothing.
LEMMA ChatSelectKeeps ==
  ASSUME ChatInv, ChatSelect \/ ChatRoundDone \/ ChatDies
  PROVE  ChatInv'
<1>1. UNCHANGED <<hread, client_list, count, hfds, cast, clientChat, log, seen>>
  BY DEF ChatSelect, ChatRoundDone, ChatDies
<1>2. /\ UNCHANGED <<hread, client_list, count, hfds, cast, log, seen>>
      /\ UNCHANGED <<hqueue, line, typed, chatter, hlate, hback>>
      /\ Members' = Members
  BY <1>1 DEF clientChat, Members
<1>3. \A c : Joined(c)' = Joined(c) /\ Left(c)' = Left(c) /\ ToSee(c)' = ToSee(c) /\ Said(c)' = Said(c)
  BY <1>2, SameRecord
<1>4. IdsRight'
  BY <1>2, <1>3 DEF IdsRight, ChatInv
<1>5. \A c \in ChatClients : ClientRight(c)' /\ SeenBy(c)'
  BY <1>2, <1>3 DEF ClientRight, SeenBy, ChatInv
<1>6. ChatTyped /\ LoopRight /\ \A c \in ChatClients : ClientRight(c)
  BY DEF ChatInv
<1>7. CASE ChatSelect
  <2>1. /\ hpc = "select" /\ hpc' = "loop"
        /\ hready' = Sublist(hread, {s \in ToSet(hread) : ChatReadable(s)})
    BY <1>7 DEF ChatSelect
  <2>2. PICK S : S = {s \in ToSet(hread) : ChatReadable(s)}
    OBVIOUS
  <2>3. /\ hready' \in Seq(ChatSock) /\ Once(hready') /\ ToSet(hready') = ToSet(hread) \cap S
    BY <1>6, <2>1, <2>2, SublistOf DEF ChatTyped, LoopRight
  <2>4. ChatSocket \in ToSet(hready') => hqueue # <<>>
    BY <2>2, <2>3 DEF ChatReadable
  <2>5. ChatTyped'
    BY <1>2, <1>6, <2>1, <2>3 DEF ChatTyped
  <2>6. LoopRight'
    BY <1>2, <1>6, <2>1, <2>3, <2>4 DEF LoopRight
  <2>7. DeathRight'
    BY <2>1 DEF DeathRight
  <2> QED
    BY <1>4, <1>5, <2>5, <2>6, <2>7 DEF ChatInv
<1>8. CASE ChatRoundDone
  <2>1. hpc = "loop" /\ hpc' = "select" /\ hready' = hready
    BY <1>8 DEF ChatRoundDone
  <2>2. ChatTyped' /\ LoopRight' /\ DeathRight'
    BY <1>2, <1>6, <2>1 DEF ChatTyped, LoopRight, DeathRight
  <2> QED
    BY <1>4, <1>5, <2>2 DEF ChatInv
<1>9. CASE ChatDies
  <2>1. hpc' = "died" /\ hready' = hready
    BY <1>9 DEF ChatDies
  <2>2. OutOfFds \/ \E c \in ChatClients : Raises(c)
    <3>1. CASE hpc = "cast" /\ \E c \in cast.to : Raises(c)
      BY <1>6, <3>1 DEF ChatTyped
    <3>2. CASE hpc = "loop" /\ hready # <<>> /\ Head(hready) = ChatSocket /\ Raises(Head(hqueue))
      <4>1. ChatSocket \in ToSet(hready)
        BY <1>6, <3>2, TailOnce DEF ChatTyped
      <4>2. hqueue # <<>>
        BY <1>6, <3>2, <4>1 DEF LoopRight
      <4>3. Head(hqueue) \in ChatClients
        BY <1>6, <4>2, TailOnce DEF ChatTyped
      <4> QED
        BY <3>2, <4>3
    <3>3. CASE /\ hpc = "loop" /\ hready # <<>> /\ Head(hready) # ChatSocket
               /\ chatter[Head(hready)] = "reset"
      <4>1. Head(hready) \in ChatClients
        BY <1>6, <3>3, TailOnce DEF ChatTyped, ChatSock
      <4> QED
        BY <3>3, <4>1 DEF Raises
    <3>4. CASE AcceptNext /\ Full
      BY <3>4 DEF AcceptNext, OutOfFds
    <3> QED
      BY <1>9, <3>1, <3>2, <3>3, <3>4 DEF ChatDies, AcceptNext
  <2>3. DeathRight'
    BY <1>2, <2>1, <2>2 DEF DeathRight, OutOfFds, Full, Raises
  <2>4. ChatTyped' /\ LoopRight'
    BY <1>2, <1>6, <2>1 DEF ChatTyped, LoopRight
  <2> QED
    BY <1>4, <1>5, <2>3, <2>4 DEF ChatInv
<1> QED
  BY <1>7, <1>8, <1>9

\* A broadcast begins: what changes for everybody but its author.
LEMMA OthersTold ==
  ASSUME ChatInv, hpc = "loop", NEW c0 \in ChatClients, NEW m \in Message, m.by = c0,
         log' = Append(log, m), cast'.to = Members \ {c0}, cast'.leavers \subseteq {c0},
         NEW c \in ChatClients, c # c0, chatter'[c] = chatter[c], typed'[c] = typed[c],
         line'[c] = line[c], seen'[c] = seen[c], c \in ToSet(hqueue') => c \in ToSet(hqueue),
         c \in Members' <=> c \in Members
  PROVE  ClientRight(c)' /\ SeenBy(c)'
<1>1. ChatTyped /\ ClientRight(c) /\ SeenBy(c)
  BY DEF ChatInv
<1>2. PICK L \in Nat : L = Len(log)
  BY <1>1, LenProperties DEF ChatTyped
<1>3. Len(log') = L + 1 /\ log'[L + 1] = m /\ \A i \in 1 .. L : log'[i] = log[i]
  BY <1>1, <1>2, LogGrows
<1>4. /\ Joined(c)' = Joined(c) /\ Left(c)' = Left(c) /\ Said(c)' = Said(c) \o <<>>
      /\ Joined(c) # 0 /\ (Left(c) # 0 => Joined(c) <= Left(c)) =>
             ToSee(c)' = IF Left(c) = 0 THEN Append(ToSee(c), m) ELSE ToSee(c)
      /\ Joined(c) \in 0 .. L
  BY <1>1, <1>2, Told, JoinedFacts
<1>5. Said(c) \in Seq(Nat)
  BY <1>1, JoinedFacts
<1>6. Said(c)' = Said(c)
  BY <1>4, <1>5
<1>7. cast.to = {} /\ cast.leavers = {}
  BY DEF ChatInv, LoopRight
<1>8. c \in Members <=> Joined(c) # 0 /\ Left(c) = 0
  BY <1>1, <1>7 DEF ClientRight
<1>9. c \in cast'.to <=> c \in Members
  OBVIOUS
<1>10. ClientRight(c)'
  <2>1. \A i \in 1 .. L + 1 : (\A j \in 1 .. L : log[j].by # c) => log'[i].by # c
    <3> TAKE i \in 1 .. L + 1
    <3>1. i = L + 1 \/ i \in 1 .. L
      OBVIOUS
    <3> QED
      BY <1>3, <3>1
  <2>2. Joined(c) = 0 => \A i \in 1 .. Len(log') : log'[i].by # c
    BY <1>1, <1>2, <1>3, <2>1 DEF ClientRight
  <2>3. c \in cast'.to => Joined(c) < Len(log') /\ log'[Len(log')].by # c
    BY <1>3, <1>4
  <2>4. c \notin cast'.leavers
    OBVIOUS
  <2> QED
    BY <1>1, <1>4, <1>7, <1>8, <1>9, <2>2, <2>3, <2>4 DEF ClientRight
<1>11. SeenBy(c)'
  <2>1. Left(c) # 0 => Joined(c) <= Left(c)
    BY <1>1 DEF ClientRight
  <2>2. Joined(c) # 0 => ToSee(c) = Tail(seen[c])
    BY <1>1, <1>7 DEF SeenBy
  <2>3. log'[Len(log')] = m
    BY <1>3
  <2>4. Joined(c)' # 0 => ToSee(c)' = IF c \in cast'.to THEN Append(Tail(seen'[c]), log'[Len(log')])
                                      ELSE Tail(seen'[c])
    BY <1>4, <1>8, <1>9, <2>1, <2>2, <2>3
  <2>5. Said(c)' \o line'[c] = [i \in 1 .. typed'[c] |-> i]
    BY <1>1, <1>6 DEF SeenBy
  <2> QED
    BY <2>4, <2>5 DEF SeenBy
<1> QED
  BY <1>10, <1>11

\* A message of a member has the member's ID.
LEMMA IdsTold ==
  ASSUME ChatInv, NEW c0 \in Members, NEW m \in Message, m.by = c0, m.id = client_list[c0],
         log' = Append(log, m), client_list' = client_list, count' = count
  PROVE  IdsRight'
<1>1. ChatTyped /\ IdsRight /\ \A c \in ChatClients : ClientRight(c)
  BY DEF ChatInv
<1>2. PICK L \in Nat : L = Len(log)
  BY <1>1, LenProperties DEF ChatTyped
<1>3. Len(log') = L + 1 /\ log'[L + 1] = m /\ \A i \in 1 .. L : log'[i] = log[i]
  BY <1>1, <1>2, LogGrows
<1>4. ASSUME NEW c \in Members
      PROVE  Joined(c)' = Joined(c) /\ Joined(c) \in 1 .. L /\ log[Joined(c)].by = c
  <2>1. c \in ChatClients /\ Joined(c) # 0
    BY <1>1 DEF ClientRight, ChatTyped
  <2> QED
    BY <1>1, <1>2, <2>1, Told, JoinedFacts
<1>5. PICK j \in 1 .. L : j = Joined(c0) /\ log[j].by = c0 /\ log[j].id = m.id
  BY <1>1, <1>4 DEF IdsRight
<1>6. \A i \in 1 .. L + 1 : log'[i].id < count
  <2> TAKE i \in 1 .. L + 1
  <2>1. i = L + 1 \/ i \in 1 .. L
    OBVIOUS
  <2> QED
    BY <1>1, <1>2, <1>3, <1>5, <2>1 DEF IdsRight
<1>7. \A i, k \in 1 .. L + 1 : log'[i].id = log'[k].id <=> log'[i].by = log'[k].by
  <2> TAKE i, k \in 1 .. L + 1
  <2>1. PICK x \in 1 .. L : log'[i].id = log[x].id /\ log'[i].by = log[x].by
    <3>1. i = L + 1 \/ i \in 1 .. L
      OBVIOUS
    <3> QED
      BY <1>3, <1>5, <3>1
  <2>2. PICK y \in 1 .. L : log'[k].id = log[y].id /\ log'[k].by = log[y].by
    <3>1. k = L + 1 \/ k \in 1 .. L
      OBVIOUS
    <3> QED
      BY <1>3, <1>5, <3>1
  <2> QED
    BY <1>1, <1>2, <2>1, <2>2 DEF IdsRight
<1>8. \A c \in Members : client_list[c] = log'[Joined(c)'].id
  BY <1>1, <1>3, <1>4 DEF IdsRight
<1>9. Members' = Members
  BY DEF Members
<1>10. (\A i \in 1 .. Len(log) : log[i].id < count)'
  BY <1>3, <1>6
<1>11. (\A i, k \in 1 .. Len(log) : log[i].id = log[k].id <=> log[i].by = log[k].by)'
  BY <1>3, <1>7
<1>12. (\A c \in Members : client_list[c] = log[Joined(c)].id)'
  BY <1>8, <1>9
<1> QED
  BY <1>10, <1>11, <1>12 DEF IdsRight

\* The rest of the loop over select()'s answer.
LEMMA NextReady ==
  ASSUME ChatInv, hpc = "loop", hready # <<>>
  PROVE  /\ Tail(hready) \in Seq(ChatSock) /\ Once(Tail(hready))
         /\ Head(hready) \in {ChatSocket} \cup Members
         /\ Head(hready) = ChatSocket => hqueue # <<>>
         /\ Head(hready) \notin ToSet(Tail(hready))
         /\ ToSet(Tail(hready)) \subseteq {ChatSocket} \cup Members
         /\ ChatSocket \in ToSet(Tail(hready)) => hqueue # <<>>
<1>1. /\ hready \in Seq(ChatSock) /\ Once(hready) /\ ToSet(hready) \subseteq {ChatSocket} \cup Members
      /\ ChatSocket \in ToSet(hready) => hqueue # <<>>
  BY DEF ChatInv, ChatTyped, LoopRight
<1> QED
  BY <1>1, TailOnce

\* handle_message() and client_leave(): a member says something, or that it leaves.
LEMMA MessageKeeps ==
  ASSUME ChatInv, NEW c0 \in ChatClients, handle_message(c0) \/ client_leave(c0)
  PROVE  ChatInv'
<1>1. /\ hpc = "loop" /\ hready # <<>> /\ Head(hready) = c0 /\ hready' = Tail(hready)
      /\ hpc' = "cast"
      /\ UNCHANGED <<client_list, hread, count, hqueue, typed, chatter, seen>>
  BY DEF handle_message, client_leave, Broadcast, clientChat
<1>2. Members' = Members
  BY <1>1 DEF Members
<1>3. /\ ChatTyped /\ LoopRight /\ cast.to = {} /\ cast.leavers = {}
      /\ \A c \in ChatClients : ClientRight(c) /\ SeenBy(c)
  BY <1>1 DEF ChatInv, LoopRight
<1>4. c0 \in Members /\ c0 # ChatSocket
  <2>1. c0 # ChatSocket
    BY ChatRoomAssumption DEF ChatSocket
  <2> QED
    BY <1>1, <2>1, NextReady
<1>5. PICK V \in SUBSET {c0}, m \in Message :
        /\ cast' = [to |-> Members \ {c0}, leavers |-> V] /\ log' = Append(log, m)
        /\ m.by = c0 /\ m.id = client_list[c0]
        /\ \/ V = {} /\ m.kind = "say" /\ m.text = line[c0] /\ line' = [line EXCEPT ![c0] = <<>>]
           \/ V = {c0} /\ m.kind = "leave" /\ m.text = <<>> /\ line' = line
  <2>1. client_list[c0] \in Nat /\ line[c0] \in Seq(Nat) /\ <<>> \in Seq(Nat)
    BY <1>3, <1>4 DEF ChatTyped
  <2>2. CASE handle_message(c0)
    <3>1. PICK m : m = [kind |-> "say", id |-> client_list[c0], by |-> c0, text |-> line[c0]]
      OBVIOUS
    <3>2. m \in Message
      BY <2>1, <3>1 DEF Message
    <3>3. /\ cast' = [to |-> Members \ {c0}, leavers |-> {}] /\ log' = Append(log, m)
          /\ line' = [line EXCEPT ![c0] = <<>>]
      BY <1>2, <2>2, <3>1 DEF handle_message, Broadcast, Members
    <3> QED
      BY <3>1, <3>2, <3>3
  <2>3. CASE client_leave(c0)
    <3>1. PICK m : m = [kind |-> "leave", id |-> client_list[c0], by |-> c0, text |-> <<>>]
      OBVIOUS
    <3>2. m \in Message
      BY <2>1, <3>1 DEF Message
    <3>3. /\ cast' = [to |-> Members \ {c0}, leavers |-> {c0}] /\ log' = Append(log, m)
          /\ line' = line
      BY <1>2, <2>3, <3>1 DEF client_leave, Broadcast, Members, clientChat
    <3> QED
      BY <3>1, <3>2, <3>3
  <2> QED
    BY <2>2, <2>3
<1>6. IdsRight'
  BY <1>1, <1>4, <1>5, IdsTold
<1>7. DeathRight'
  BY <1>1 DEF DeathRight
<1>8. /\ Tail(hready) \in Seq(ChatSock) /\ Once(Tail(hready)) /\ c0 \notin ToSet(Tail(hready))
      /\ ToSet(Tail(hready)) \subseteq {ChatSocket} \cup Members
      /\ ChatSocket \in ToSet(Tail(hready)) => hqueue # <<>>
  BY <1>1, NextReady
<1>9. ChatTyped'
  <2>1. log' \in Seq(Message)
    BY <1>3, <1>5, LogGrows
  <2>2. line' \in [ChatClients -> Seq(Nat)]
    <3>1. <<>> \in Seq(Nat)
      OBVIOUS
    <3>2. line \in [ChatClients -> Seq(Nat)]
      BY <1>3 DEF ChatTyped
    <3>3. line' = line \/ line' = [line EXCEPT ![c0] = <<>>]
      BY <1>5
    <3> QED
      BY <3>1, <3>2, <3>3
  <2>3. cast' \in [to : SUBSET ChatClients, leavers : SUBSET ChatClients]
    BY <1>3, <1>5 DEF ChatTyped
  <2> QED
    BY <1>1, <1>2, <1>3, <1>8, <2>1, <2>2, <2>3 DEF ChatTyped
<1>10. LoopRight'
  <2>1. cast'.leavers \subseteq {c0}
    BY <1>5
  <2> QED
    BY <1>1, <1>2, <1>3, <1>8, <2>1 DEF LoopRight
<1>11. ASSUME NEW c \in ChatClients, c # c0 PROVE ClientRight(c)' /\ SeenBy(c)'
  <2>1. line'[c] = line[c] /\ cast'.to = Members \ {c0} /\ cast'.leavers \subseteq {c0}
    BY <1>3, <1>5, <1>11 DEF ChatTyped
  <2>2. /\ chatter'[c] = chatter[c] /\ typed'[c] = typed[c] /\ seen'[c] = seen[c]
        /\ (c \in ToSet(hqueue') => c \in ToSet(hqueue)) /\ (c \in Members' <=> c \in Members)
    BY <1>1, <1>2
  <2>3. hpc = "loop" /\ m.by = c0 /\ log' = Append(log, m)
    BY <1>1, <1>5
  <2> QED
    BY <1>11, <2>1, <2>2, <2>3, OthersTold
<1>12. ClientRight(c0)' /\ SeenBy(c0)'
  <2>1. ClientRight(c0) /\ SeenBy(c0) /\ Joined(c0) # 0 /\ Left(c0) = 0
    BY <1>3, <1>4 DEF ClientRight
  <2>2. PICK L \in Nat : L = Len(log)
    BY <1>3, LenProperties DEF ChatTyped
  <2>3. Len(log') = L + 1
    BY <1>3, <1>5, <2>2, LogGrows
  <2>4. /\ Joined(c0)' = Joined(c0) /\ Joined(c0) \in 0 .. L
        /\ Left(c0)' = IF m.kind = "leave" THEN L + 1 ELSE 0
        /\ Said(c0)' = Said(c0) \o m.text
        /\ ToSee(c0)' = ToSee(c0)
    BY <1>3, <1>5, <2>1, <2>2, Told, JoinedFacts
  <2>5. c0 \notin cast'.to /\ cast'.leavers = V
    BY <1>5
  <2>6. ClientRight(c0)'
    BY <1>1, <1>2, <1>4, <1>5, <2>1, <2>2, <2>4, <2>5 DEF ClientRight
  <2>7. Said(c0)' \o line'[c0] = Said(c0) \o line[c0]
    <3>1. Said(c0) \in Seq(Nat) /\ line[c0] \in Seq(Nat)
      BY <1>3, JoinedFacts DEF ChatTyped
    <3>2. CASE V = {}
      <4>1. Said(c0)' = Said(c0) \o line[c0] /\ line'[c0] = <<>>
        BY <1>3, <1>5, <2>4, <3>2 DEF ChatTyped
      <4>2. Said(c0) \o line[c0] \in Seq(Nat)
        BY <3>1, ConcatProperties
      <4>3. (Said(c0) \o line[c0]) \o <<>> = Said(c0) \o line[c0]
        BY <4>2, ConcatEmptySeq
      <4> QED
        BY <4>1, <4>3
    <3>3. CASE V # {}
      <4>1. Said(c0)' = Said(c0) \o <<>> /\ line' = line
        BY <1>5, <2>4, <3>3
      <4>2. Said(c0) \o <<>> = Said(c0)
        BY <3>1, ConcatEmptySeq
      <4> QED
        BY <4>1, <4>2
    <3> QED
      BY <3>2, <3>3
  <2>8. SeenBy(c0)'
    <3>1. cast.to = {} /\ typed' = typed /\ seen' = seen
      BY <1>1, <1>3
    <3> QED
      BY <2>1, <2>4, <2>5, <2>7, <3>1 DEF SeenBy
  <2> QED
    BY <2>6, <2>8
<1> QED
  BY <1>6, <1>7, <1>9, <1>10, <1>11, <1>12 DEF ChatInv

\* client_accept(): the one that has waited longest becomes a member.
LEMMA JoinKeeps ==
  ASSUME ChatInv, client_accept
  PROVE  ChatInv'
<1>1. PICK c0 : c0 = Head(hqueue)
  OBVIOUS
<1>2. /\ hpc = "loop" /\ hready # <<>> /\ Head(hready) = ChatSocket /\ hready' = Tail(hready)
      /\ hpc' = "cast" /\ hqueue' = Tail(hqueue) /\ count' = count + 1
      /\ hread' = Append(hread, c0)
      /\ client_list' = [x \in Members \cup {c0} |-> IF x = c0 THEN count ELSE client_list[x]]
      /\ seen' = [seen EXCEPT ![c0] = <<[kind |-> "welcome", id |-> count, by |-> c0, text |-> <<>>]>>]
      /\ cast' = [to |-> DOMAIN client_list' \ {c0}, leavers |-> {}]
      /\ log' = Append(log, [kind |-> "join", id |-> count, by |-> c0, text |-> <<>>])
      /\ UNCHANGED <<line, typed, chatter>>
  BY <1>1 DEF client_accept, AcceptNext, Broadcast
<1>3. /\ ChatTyped /\ LoopRight /\ IdsRight /\ cast.to = {} /\ cast.leavers = {}
      /\ \A c \in ChatClients : ClientRight(c) /\ SeenBy(c)
  BY <1>2 DEF ChatInv, LoopRight
<1>4. /\ Tail(hready) \in Seq(ChatSock) /\ Once(Tail(hready)) /\ hqueue # <<>>
      /\ ToSet(Tail(hready)) \subseteq {ChatSocket} \cup Members
      /\ ChatSocket \notin ToSet(Tail(hready))
  BY <1>2, NextReady
<1>5. /\ c0 \in ChatClients /\ Tail(hqueue) \in Seq(ChatClients) /\ Once(Tail(hqueue))
      /\ ToSet(hqueue) = ToSet(Tail(hqueue)) \cup {c0} /\ c0 \notin ToSet(Tail(hqueue))
  BY <1>1, <1>3, <1>4, TailOnce DEF ChatTyped, LoopRight
<1>6. /\ Joined(c0) = 0 /\ Left(c0) = 0 /\ typed[c0] = 0 /\ line[c0] = <<>>
      /\ (\A i \in 1 .. Len(log) : log[i].by # c0) /\ chatter[c0] # "none" /\ c0 \notin Members
  BY <1>3, <1>5 DEF ClientRight
<1>7. Members' = Members \cup {c0} /\ cast'.to = Members \ {c0} /\ cast'.leavers = {}
  BY <1>2 DEF Members
<1>8. PICK m : m = [kind |-> "join", id |-> count, by |-> c0, text |-> <<>>]
  OBVIOUS
<1>9. m \in Message /\ log' = Append(log, m)
  <2>1. count \in Nat /\ <<>> \in Seq(Nat)
    BY <1>3 DEF ChatTyped
  <2> QED
    BY <1>2, <1>5, <1>8, <2>1 DEF Message
<1>10. PICK w : w = [kind |-> "welcome", id |-> count, by |-> c0, text |-> <<>>]
  OBVIOUS
<1>11. w \in Message /\ seen' = [seen EXCEPT ![c0] = <<w>>]
  <2>1. count \in Nat /\ <<>> \in Seq(Nat)
    BY <1>3 DEF ChatTyped
  <2> QED
    BY <1>2, <1>5, <1>10, <2>1 DEF Message
<1>12. PICK L \in Nat : L = Len(log)
  BY <1>3, LenProperties DEF ChatTyped
<1>13. /\ Len(log') = L + 1 /\ log'[L + 1] = m /\ log' \in Seq(Message)
       /\ \A i \in 1 .. L : log'[i] = log[i]
  BY <1>3, <1>9, <1>12, LogGrows
<1>14. c0 # ChatSocket
  BY <1>5, ChatRoomAssumption DEF ChatSocket
<1>15. ChatTyped'
  <2>1. hread' \in Seq(ChatSock)
    BY <1>2, <1>3, <1>5, AppendOnce DEF ChatTyped, ChatSock
  <2>2. count \in Nat /\ client_list \in [Members -> Nat] /\ Members \subseteq ChatClients
    BY <1>3 DEF ChatTyped
  <2>3. client_list' \in [Members' -> Nat] /\ count' \in Nat /\ Members' \subseteq ChatClients
    BY <1>2, <1>5, <1>7, <2>2
  <2>4. seen' \in [ChatClients -> Seq(Message)]
    <3>1. <<w>> \in Seq(Message)
      BY <1>11
    <3>2. seen \in [ChatClients -> Seq(Message)]
      BY <1>3 DEF ChatTyped
    <3> QED
      BY <1>11, <3>1, <3>2
  <2>5. cast' \in [to : SUBSET ChatClients, leavers : SUBSET ChatClients]
    BY <1>2, <1>7, <2>2 DEF Members
  <2> QED
    BY <1>2, <1>3, <1>4, <1>5, <1>13, <2>1, <2>3, <2>4, <2>5 DEF ChatTyped
<1>16. LoopRight'
  <2>1. c0 \notin ToSet(hread) /\ hread \in Seq(ChatSock) /\ c0 \in ChatSock
    BY <1>3, <1>5, <1>6, <1>14 DEF LoopRight, ChatTyped, ChatSock
  <2>2. Once(hread') /\ ToSet(hread') = ToSet(hread) \cup {c0}
    BY <1>2, <1>3, <2>1, AppendOnce DEF LoopRight
  <2> QED
    BY <1>2, <1>3, <1>4, <1>5, <1>7, <2>2 DEF LoopRight
<1>17. ASSUME NEW c \in ChatClients, c # c0 PROVE ClientRight(c)' /\ SeenBy(c)'
  <2>1. /\ chatter'[c] = chatter[c] /\ typed'[c] = typed[c] /\ seen'[c] = seen[c] /\ line'[c] = line[c]
        /\ (c \in ToSet(hqueue') => c \in ToSet(hqueue)) /\ (c \in Members' <=> c \in Members)
    BY <1>2, <1>3, <1>5, <1>7, <1>11, <1>17 DEF ChatTyped
  <2>2. hpc = "loop" /\ m.by = c0 /\ cast'.leavers \subseteq {c0}
    BY <1>2, <1>7, <1>8
  <2> QED
    BY <1>5, <1>7, <1>9, <1>17, <2>1, <2>2, OthersTold
<1>18. ClientRight(c0)' /\ SeenBy(c0)'
  <2>1. /\ Joined(c0)' = L + 1 /\ Left(c0)' = 0 /\ Said(c0)' = Said(c0) \o <<>> /\ ToSee(c0)' = <<>>
    BY <1>3, <1>6, <1>8, <1>9, <1>12, Told
  <2>2. seen'[c0] = <<w>>
    BY <1>3, <1>5, <1>11 DEF ChatTyped
  <2>3. Tail(<<w>>) = <<>> /\ <<w>> # <<>>
    OBVIOUS
  <2>4. c0 \notin cast'.to /\ c0 \in Members' /\ cast'.leavers = {} /\ L + 1 # 0
    BY <1>7
  <2>5. ClientRight(c0)'
    BY <1>2, <1>5, <1>6, <2>1, <2>2, <2>3, <2>4 DEF ClientRight
  <2>6. Said(c0)' \o line'[c0] = [i \in 1 .. typed'[c0] |-> i]
    <3>1. Said(c0) \in Seq(Nat)
      BY <1>3, JoinedFacts
    <3>2. Said(c0)' = Said(c0)
      BY <2>1, <3>1, ConcatEmptySeq
    <3> QED
      BY <1>2, <1>3, <1>5, <3>2 DEF SeenBy
  <2>7. SeenBy(c0)'
    BY <2>1, <2>2, <2>3, <2>4, <2>6 DEF SeenBy
  <2> QED
    BY <2>5, <2>7
<1>19. IdsRight'
  <2>1. m.id = count /\ m.by = c0 /\ count \in Nat /\ \A i \in 1 .. L : log[i].id \in Nat
    <3>1. \A i \in 1 .. L : log[i] \in Message
      BY <1>3, <1>9, <1>12, LogGrows
    <3> QED
      BY <1>3, <1>8, <3>1 DEF ChatTyped, Message
  <2>2. (\A i \in 1 .. Len(log) : log[i].id < count)'
    <3>1. ASSUME NEW i \in 1 .. L + 1 PROVE log'[i].id < count + 1
      <4>1. CASE i = L + 1
        BY <1>13, <2>1, <4>1
      <4>2. CASE i # L + 1
        <5>1. i \in 1 .. L /\ log'[i] = log[i]
          BY <1>13, <4>2
        <5>2. log[i].id < count
          BY <1>3, <1>12, <5>1 DEF IdsRight
        <5> QED
          BY <2>1, <5>1, <5>2
      <4> QED
        BY <4>1, <4>2
    <3> QED
      BY <1>2, <1>13, <3>1
  <2>3. (\A i, j \in 1 .. Len(log) : log[i].id = log[j].id <=> log[i].by = log[j].by)'
    <3>1. ASSUME NEW i \in 1 .. L PROVE log[i].id # count /\ log[i].by # c0
      BY <1>3, <1>6, <1>12, <2>1, <3>1 DEF IdsRight
    <3>2. ASSUME NEW i \in 1 .. L + 1, NEW j \in 1 .. L + 1
          PROVE  log'[i].id = log'[j].id <=> log'[i].by = log'[j].by
      <4>1. CASE i \in 1 .. L /\ j \in 1 .. L
        BY <1>3, <1>12, <1>13, <4>1 DEF IdsRight
      <4>2. CASE i \notin 1 .. L /\ j \in 1 .. L
        <5>1. i = L + 1
          BY <4>2
        <5> QED
          BY <1>13, <2>1, <3>1, <4>2, <5>1
      <4>3. CASE i \in 1 .. L /\ j \notin 1 .. L
        <5>1. j = L + 1
          BY <4>3
        <5> QED
          BY <1>13, <2>1, <3>1, <4>3, <5>1
      <4>4. CASE i \notin 1 .. L /\ j \notin 1 .. L
        <5>1. i = j
          BY <4>4
        <5> QED
          BY <5>1
      <4> QED
        BY <4>1, <4>2, <4>3, <4>4
    <3> QED
      BY <1>13, <3>2
  <2>4. ASSUME NEW c \in Members' PROVE client_list'[c] = log'[Joined(c)'].id
    <3>1. CASE c = c0
      <4>1. Joined(c0)' = L + 1
        BY <1>3, <1>6, <1>8, <1>9, <1>12, Told
      <4>2. client_list'[c0] = count
        BY <1>2
      <4> QED
        BY <1>13, <2>1, <3>1, <4>1, <4>2
    <3>2. CASE c # c0
      <4>1. c \in Members /\ c \in ChatClients
        BY <1>3, <1>7, <3>2 DEF ChatTyped
      <4>2. Joined(c) # 0
        BY <1>3, <4>1 DEF ClientRight
      <4>3. Joined(c)' = Joined(c) /\ Joined(c) \in 1 .. L
        BY <1>3, <1>9, <1>12, <4>2, Told, JoinedFacts
      <4>4. client_list'[c] = client_list[c]
        BY <1>2, <3>2, <4>1
      <4> QED
        BY <1>3, <1>13, <4>1, <4>3, <4>4 DEF IdsRight
    <3> QED
      BY <3>1, <3>2
  <2>5. (\A c \in Members : client_list[c] = log[Joined(c)].id)'
    BY <2>4
  <2> QED
    BY <2>2, <2>3, <2>5 DEF IdsRight
<1>20. DeathRight'
  BY <1>2 DEF DeathRight
<1> QED
  BY <1>15, <1>16, <1>17, <1>18, <1>19, <1>20 DEF ChatInv

\* One send() of a broadcast.
LEMMA CastKeeps ==
  ASSUME ChatInv, NEW c0 \in ChatClients, broadcast_client(c0)
  PROVE  ChatInv'
<1>1. /\ hpc = "cast" /\ c0 \in cast.to /\ cast' = [cast EXCEPT !.to = @ \ {c0}]
      /\ seen' = [seen EXCEPT ![c0] = Append(@, Last(log))]
      /\ UNCHANGED <<hpc, hread, hready, client_list, count, hqueue, line, typed, chatter, log>>
  BY DEF broadcast_client
<1>2. /\ ChatTyped /\ LoopRight /\ IdsRight
      /\ \A c \in ChatClients : ClientRight(c) /\ SeenBy(c)
  BY DEF ChatInv
<1>3. Members' = Members
  BY <1>1 DEF Members
<1>4. \A c : Joined(c)' = Joined(c) /\ Left(c)' = Left(c) /\ ToSee(c)' = ToSee(c) /\ Said(c)' = Said(c)
  BY <1>1, SameRecord
<1>5. /\ cast \in [to : SUBSET ChatClients, leavers : SUBSET ChatClients]
      /\ cast'.to = cast.to \ {c0} /\ cast'.leavers = cast.leavers
      /\ cast' \in [to : SUBSET ChatClients, leavers : SUBSET ChatClients]
  BY <1>1, <1>2 DEF ChatTyped
<1>6. PICK L \in Nat : L = Len(log) /\ log \in Seq(Message)
  BY <1>2, LenProperties DEF ChatTyped
<1>7. Joined(c0) # 0 /\ Joined(c0) < L /\ Joined(c0) \in 0 .. L
  BY <1>1, <1>2, <1>6, JoinedFacts DEF ClientRight
<1>8. Last(log) = log[L] /\ log[L] \in Message
  <2>1. L \in 1 .. L
    BY <1>7
  <2> QED
    BY <1>6, <2>1, ElementOfSeq DEF Last
<1>9. seen[c0] \in Seq(Message) /\ seen[c0] # <<>>
  BY <1>2, <1>7 DEF ClientRight, ChatTyped
<1>10. PICK t : t = Append(seen[c0], log[L])
  OBVIOUS
<1>11. t \in Seq(Message) /\ t # <<>> /\ Tail(t) = Append(Tail(seen[c0]), log[L])
  <2>1. PICK s \in Seq(Message) : s = seen[c0] /\ s # <<>>
    BY <1>9
  <2>2. PICK x \in Message : x = log[L]
    BY <1>8
  <2>3. t = Append(s, x)
    BY <1>10, <2>1, <2>2
  <2>4. Append(s, x) \in Seq(Message) /\ Append(s, x) # <<>> /\ Tail(Append(s, x)) = Append(Tail(s), x)
    BY ONLY <2>1
  <2> QED
    BY <2>1, <2>2, <2>3, <2>4
<1>12. seen' = [seen EXCEPT ![c0] = t]
  BY <1>1, <1>8, <1>10
<1>13. ChatTyped'
  <2>1. seen' \in [ChatClients -> Seq(Message)]
    BY <1>2, <1>11, <1>12 DEF ChatTyped
  <2> QED
    BY <1>1, <1>2, <1>3, <1>5, <2>1 DEF ChatTyped
<1>14. LoopRight'
  BY <1>1, <1>2, <1>3, <1>5 DEF LoopRight
<1>15. IdsRight'
  BY <1>1, <1>2, <1>3, <1>4 DEF IdsRight
<1>16. DeathRight'
  BY <1>1 DEF DeathRight
<1>17. ASSUME NEW c \in ChatClients PROVE ClientRight(c)' /\ SeenBy(c)'
  <2>1. ClientRight(c) /\ SeenBy(c)
    BY <1>2
  <2>2. seen'[c] = IF c = c0 THEN t ELSE seen[c]
    BY <1>2, <1>12 DEF ChatTyped
  <2>3. ClientRight(c)'
    <3>1. /\ chatter' = chatter /\ hqueue' = hqueue /\ typed' = typed /\ line' = line /\ log' = log
          /\ Members' = Members /\ cast'.leavers = cast.leavers
          /\ Joined(c)' = Joined(c) /\ Left(c)' = Left(c)
      BY <1>1, <1>3, <1>4, <1>5
    <3>2. /\ c \in cast'.to => c \in cast.to
          /\ Joined(c) # 0 => seen'[c] # <<>>
          /\ Joined(c) = 0 => seen'[c] = <<>>
      BY <1>5, <1>7, <1>11, <2>1, <2>2 DEF ClientRight
    <3>3. /\ chatter'[c] = "none" => c \notin ToSet(hqueue')
          /\ chatter'[c] = "none" \/ c \in ToSet(hqueue') => Joined(c)' = 0
          /\ Joined(c)' = 0 => /\ typed'[c] = 0 /\ line'[c] = <<>> /\ Left(c)' = 0 /\ seen'[c] = <<>>
                               /\ \A i \in 1 .. Len(log') : log'[i].by # c
          /\ Joined(c)' # 0 => seen'[c] # <<>>
      BY <2>1, <3>1, <3>2 DEF ClientRight
    <3>4. /\ Left(c)' # 0 => Joined(c)' # 0 /\ Joined(c)' <= Left(c)'
          /\ c \in Members' <=> Joined(c)' # 0 /\ (Left(c)' = 0 \/ c \in cast'.leavers)
          /\ c \in cast'.to => /\ Joined(c)' < Len(log') /\ Joined(c)' # 0 /\ Left(c)' = 0
                               /\ log'[Len(log')].by # c
          /\ c \in cast'.leavers => Left(c)' # 0
      BY <2>1, <3>1, <3>2 DEF ClientRight
    <3> QED
      BY <3>3, <3>4 DEF ClientRight
  <2>4. SeenBy(c)'
    <3>1. CASE c = c0
      <4>1. ToSee(c) = Append(Tail(seen[c]), log[L])
        BY <1>1, <1>6, <1>7, <2>1, <3>1 DEF SeenBy
      <4> QED
        BY <1>1, <1>4, <1>5, <1>11, <2>1, <2>2, <3>1, <4>1 DEF SeenBy
    <3>2. CASE c # c0
      BY <1>1, <1>4, <1>5, <2>1, <2>2, <3>2 DEF SeenBy
    <3> QED
      BY <3>1, <3>2
  <2> QED
    BY <2>3, <2>4
<1> QED
  BY <1>13, <1>14, <1>15, <1>16, <1>17 DEF ChatInv

\* The broadcast is over, and one who leaves is gone.
LEMMA CastDoneKeeps ==
  ASSUME ChatInv, CastDone
  PROVE  ChatInv'
<1>1. /\ hpc = "cast" /\ cast.to = {} /\ hpc' = "loop"
      /\ client_list' = [x \in Members \ cast.leavers |-> client_list[x]]
      /\ hread' = Sublist(hread, ToSet(hread) \ cast.leavers)
      /\ cast' = [cast EXCEPT !.leavers = {}]
      /\ UNCHANGED <<hready, count, hqueue, line, typed, chatter, log, seen>>
  BY DEF CastDone, clientChat
<1>2. /\ ChatTyped /\ LoopRight /\ IdsRight
      /\ \A c \in ChatClients : ClientRight(c) /\ SeenBy(c)
  BY DEF ChatInv
<1>3. Members' = Members \ cast.leavers
  BY <1>1 DEF Members
<1>4. \A c : Joined(c)' = Joined(c) /\ Left(c)' = Left(c) /\ ToSee(c)' = ToSee(c) /\ Said(c)' = Said(c)
  BY <1>1, SameRecord
<1>5. /\ cast \in [to : SUBSET ChatClients, leavers : SUBSET ChatClients]
      /\ cast'.to = {} /\ cast'.leavers = {}
      /\ cast' \in [to : SUBSET ChatClients, leavers : SUBSET ChatClients]
  BY <1>1, <1>2 DEF ChatTyped
<1>6. PICK S : S = ToSet(hread) \ cast.leavers
  OBVIOUS
<1>7. hread' \in Seq(ChatSock) /\ ToSet(hread') = ToSet(hread) \cap S /\ Once(hread')
  BY <1>1, <1>2, <1>6, SublistOf DEF ChatTyped, LoopRight
<1>8. ChatSocket \notin cast.leavers
  BY <1>5, ChatRoomAssumption DEF ChatSocket
<1>9. ChatTyped'
  <2>1. client_list' \in [Members' -> Nat] /\ Members' \subseteq ChatClients
    BY <1>1, <1>2, <1>3 DEF ChatTyped
  <2> QED
    BY <1>1, <1>2, <1>5, <1>7, <2>1 DEF ChatTyped
<1>10. LoopRight'
  <2>1. ToSet(hread') = {ChatSocket} \cup Members'
    BY <1>2, <1>3, <1>6, <1>7, <1>8 DEF LoopRight
  <2>2. ToSet(hready) \subseteq {ChatSocket} \cup Members'
    BY <1>1, <1>2, <1>3 DEF LoopRight
  <2> QED
    BY <1>1, <1>2, <1>5, <1>7, <2>1, <2>2 DEF LoopRight
<1>11. IdsRight'
  <2>1. \A c \in Members' : client_list'[c] = client_list[c] /\ c \in Members
    BY <1>1, <1>3
  <2>2. (\A i \in 1 .. Len(log) : log[i].id < count)'
    BY <1>1, <1>2 DEF IdsRight
  <2>3. (\A i, j \in 1 .. Len(log) : log[i].id = log[j].id <=> log[i].by = log[j].by)'
    BY <1>1, <1>2 DEF IdsRight
  <2>4. (\A c \in Members : client_list[c] = log[Joined(c)].id)'
    <3> SUFFICES ASSUME NEW c \in Members' PROVE client_list'[c] = log'[Joined(c)'].id
      OBVIOUS
    <3> QED
      BY <1>1, <1>2, <1>4, <2>1 DEF IdsRight
  <2> QED
    BY <2>2, <2>3, <2>4 DEF IdsRight
<1>12. DeathRight'
  BY <1>1 DEF DeathRight
<1>13. ASSUME NEW c \in ChatClients PROVE ClientRight(c)' /\ SeenBy(c)'
  <2>1. ClientRight(c) /\ SeenBy(c)
    BY <1>2
  <2>2. ClientRight(c)'
    BY <1>1, <1>3, <1>4, <1>5, <2>1 DEF ClientRight
  <2>3. SeenBy(c)'
    BY <1>1, <1>4, <1>5, <2>1 DEF SeenBy
  <2> QED
    BY <2>2, <2>3
<1> QED
  BY <1>9, <1>10, <1>11, <1>12, <1>13 DEF ChatInv

\* What the parts of the invariant say together.
LEMMA ChatSound ==
  ASSUME ChatInv
  PROVE  SameOrder
<1>1. /\ ChatTyped /\ LoopRight /\ IdsRight /\ DeathRight
      /\ \A c \in ChatClients : ClientRight(c) /\ SeenBy(c)
  BY DEF ChatInv
<1>2. PICK L \in Nat : L = Len(log) /\ log \in Seq(Message)
  BY <1>1, LenProperties DEF ChatTyped
<1>3. ASSUME NEW c \in ChatClients, Joined(c) > 0
      PROVE  Tail(seen[c]) = IF c \in cast.to THEN Front(ToSee(c)) ELSE ToSee(c)
  <2>1. Joined(c) # 0 /\ Joined(c) \in 0 .. L
    BY <1>1, <1>2, <1>3, JoinedFacts
  <2>2. CASE c \in cast.to
    <3>1. seen[c] \in Seq(Message) /\ seen[c] # <<>> /\ L \in 1 .. L
      BY <1>1, <1>2, <2>1, <2>2 DEF ClientRight, ChatTyped
    <3>2. PICK x \in Message : x = log[L]
      BY <1>2, <3>1, ElementOfSeq
    <3>3. PICK s \in Seq(Message) : s = Tail(seen[c])
      <4>1. \A z \in Seq(Message) : z # <<>> => Tail(z) \in Seq(Message)
        OBVIOUS
      <4> QED
        BY <3>1, <4>1
    <3>4. ToSee(c) = Append(s, x)
      BY <1>1, <1>2, <2>1, <2>2, <3>2, <3>3 DEF SeenBy
    <3>5. Front(Append(s, x)) = s
      <4>1. PICK n \in Nat : n = Len(s)
        BY LenProperties
      <4>2. /\ Append(s, x) \in Seq(Message) /\ Len(Append(s, x)) = n + 1
            /\ \A i \in 1 .. n : Append(s, x)[i] = s[i]
        BY <4>1, AppendProperties
      <4> QED
        BY <4>1, <4>2 DEF Front
    <3> QED
      BY <2>2, <3>3, <3>4, <3>5
  <2>3. CASE c \notin cast.to
    BY <1>1, <2>1, <2>3 DEF SeenBy
  <2> QED
    BY <2>2, <2>3
<1>4. \A c \in ChatClients : Said(c) \o line[c] = [i \in 1 .. typed[c] |-> i]
  BY <1>1 DEF SeenBy
<1>5. \A i, j \in 1 .. Len(log) : log[i].id = log[j].id <=> log[i].by = log[j].by
  BY <1>1 DEF IdsRight
<1>6. ToSet(hread) = {ChatSocket} \cup Members
  BY <1>1 DEF LoopRight
<1>7. /\ hpc = "died" => \/ \E c \in ChatClients : Raises(c)
                         \/ hready # <<>> /\ Head(hready) = ChatSocket /\ Full
  BY <1>1 DEF DeathRight, OutOfFds
<1> QED
  BY <1>3, <1>4, <1>5, <1>6, <1>7 DEF SameOrder

\* Before anything has been sent there is nothing to see.
LEMMA ChatStart ==
  ASSUME ChatInit
  PROVE  ChatInv
<1>1. /\ hpc = "select" /\ hread = <<ChatSocket>> /\ hready = <<>> /\ count = 0
      /\ client_list = [c \in {} |-> 0] /\ cast = [to |-> {}, leavers |-> {}]
      /\ hqueue = <<>> /\ line = [c \in ChatClients |-> <<>>]
      /\ typed = [c \in ChatClients |-> 0] /\ chatter = [c \in ChatClients |-> "none"]
      /\ log = <<>> /\ seen = [c \in ChatClients |-> <<>>]
  BY DEF ChatInit
<1>2. Members = {} /\ cast.to = {} /\ cast.leavers = {} /\ ToSet(hqueue) = {} /\ Len(log) = 0
  BY <1>1 DEF Members, ToSet
<1>3. hread \in Seq(ChatSock) /\ ToSet(hread) = {ChatSocket} /\ Once(hread)
  <2>1. Len(hread) = 1 /\ hread[1] = ChatSocket /\ DOMAIN hread = 1 .. 1
    BY <1>1
  <2> QED
    BY <1>1, <2>1 DEF ChatSock, ToSet, Once
<1>4. ChatTyped
  <2>1. \A T : <<>> \in Seq(T)
    OBVIOUS
  <2> QED
    BY <1>1, <1>2, <1>3, <2>1 DEF ChatTyped
<1>5. LoopRight
  <2>1. Once(<<>>)
    BY DEF Once
  <2> QED
    BY <1>1, <1>2, <1>3, <2>1 DEF LoopRight
<1>6. IdsRight
  BY <1>2 DEF IdsRight
<1>7. DeathRight
  BY <1>1 DEF DeathRight
<1>8. ASSUME NEW c \in ChatClients PROVE ClientRight(c) /\ SeenBy(c)
  <2>1. Joined(c) = 0 /\ Left(c) = 0 /\ Said(c) \in Seq(Nat)
    BY <1>2, <1>4, JoinedFacts
  <2>2. typed[c] = 0 /\ line[c] = <<>> /\ seen[c] = <<>>
    BY <1>1
  <2>3. Said(c) \o line[c] = [i \in 1 .. typed[c] |-> i]
    <3>1. Said(c) = FlattenSeq([i \in 1 .. 0 |-> IF log[i].by = c THEN log[i].text ELSE <<>>])
      BY <1>2 DEF Said
    <3>2. PICK q : q = [i \in 1 .. 0 |-> IF log[i].by = c THEN log[i].text ELSE <<>>]
      OBVIOUS
    <3>3. q = <<>>
      BY <3>2
    <3>4. Said(c) = <<>>
      BY <3>1, <3>2, <3>3 DEF FlattenSeq
    <3> QED
      BY <2>2, <3>4
  <2>4. ClientRight(c)
    BY <1>2, <2>1, <2>2 DEF ClientRight
  <2>5. SeenBy(c)
    BY <2>1, <2>3 DEF SeenBy
  <2> QED
    BY <2>4, <2>5
<1> QED
  BY <1>4, <1>5, <1>6, <1>7, <1>8 DEF ChatInv

\* Every step of the clients and of the server keeps the invariant.
LEMMA ChatStepKeeps ==
  ASSUME ChatInv, [ChatNext]_chatVars
  PROVE  ChatInv'
<1>1. CASE \E c \in ChatClients : ChatConnects(c) \/ ChatTypes(c) \/ ChatLeaves(c) \/ ChatResetComesBack(c)
  BY <1>1, ClientsKeep
<1>2. CASE ChatSelect \/ ChatRoundDone \/ ChatDies
  BY <1>2, ChatSelectKeeps
<1>3. CASE client_accept
  BY <1>3, JoinKeeps
<1>4. CASE CastDone
  BY <1>4, CastDoneKeeps
<1>5. CASE \E c \in ChatClients : handle_message(c) \/ client_leave(c)
  BY <1>5, MessageKeeps
<1>6. CASE \E c \in ChatClients : broadcast_client(c)
  BY <1>6, CastKeeps
<1>7. CASE UNCHANGED chatVars
  <2>1. UNCHANGED <<serverChat, log, seen>> /\ UNCHANGED <<hpc, hread, hready, client_list, count, hfds, cast>>
        /\ UNCHANGED <<hqueue, line, typed, chatter, hlate, hback>>
    BY <1>7 DEF chatVars, serverChat, clientChat
  <2>2. IdsRight' /\ \A c \in ChatClients : Joined(c)' = Joined(c) /\ Left(c)' = Left(c)
                                            /\ ToSee(c)' = ToSee(c) /\ Said(c)' = Said(c)
    BY <2>1, QuietRight
  <2>3. ChatTyped' /\ LoopRight' /\ DeathRight'
    BY <2>1 DEF ChatInv, ChatTyped, LoopRight, DeathRight, OutOfFds, Full, Members, Raises
  <2>4. ASSUME NEW c \in ChatClients PROVE ClientRight(c)' /\ SeenBy(c)'
    <3>1. ClientRight(c) /\ SeenBy(c)
      BY DEF ChatInv
    <3>2. /\ Joined(c)' = Joined(c) /\ Left(c)' = Left(c)
          /\ ToSee(c)' = ToSee(c) /\ Said(c)' = Said(c) /\ Members' = Members
      BY <2>1, <2>2 DEF Members
    <3>3. ClientRight(c)'
      BY <2>1, <3>1, <3>2 DEF ClientRight
    <3>4. SeenBy(c)'
      BY <2>1, <3>1, <3>2 DEF SeenBy
    <3> QED
      BY <3>3, <3>4
  <2> QED
    BY <2>2, <2>3, <2>4 DEF ChatInv
<1> QED
  BY <1>1, <1>2, <1>3, <1>4, <1>5, <1>6, <1>7 DEF ChatNext, ChatStep

\* Every member of the chat room sees the same messages in the same order, from its own
\* join to its own leave, and lacks at most the one that is being sent; no line is lost
\* or repeated; an ID never names two clients; the server watches its members and dies
\* only of a client's reset or for want of a descriptor: for any number of clients, of
\* lines and of leavers.
THEOREM OrderHolds == Spec => []SameOrder
<1>1. Init => ChatInv
  BY ChatStart DEF Init
<1>2. ChatInv /\ [Next]_vars => ChatInv'
  <2>1. [Next]_vars => [ChatNext]_chatVars
    BY DEF Next, vars
  <2> QED
    BY <2>1, ChatStepKeeps
<1>3. ChatInv => SameOrder
  BY ChatSound
<1> QED
  BY <1>1, <1>2, <1>3, PTL DEF Spec
===============================================================================
