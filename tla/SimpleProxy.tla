------------------------------ MODULE SimpleProxy ------------------------------
(***************************************************************************)
(* python/simple_proxy.py: one thread, select() for reading, and blocking  *)
(* sends.  Every accepted client is paired with an upstream connection; an *)
(* exception that nothing catches ends the program.                        *)
(***************************************************************************)
EXTENDS Integers, Sequences, SequencesExt, FiniteSets, FiniteSetsExt

CONSTANTS
    ProxyPairs,     \* bound: connections made to the proxy, 1 .. n
    ProxyBytes,     \* bound: bytes the peers send, all together
    ProxyEnds,      \* bound: peers that end
    ProxyBuf,       \* bytes a kernel send buffer holds
    ProxyFds        \* numbers of descriptors the program may have for connections

ASSUME SimpleProxyAssumption ==
    {ProxyPairs, ProxyBytes, ProxyEnds, ProxyBuf} \subseteq Nat /\ ProxyFds \subseteq Nat

Pair == 1 .. ProxyPairs
ProxyEnd == Pair \X {"client", "upstream"}
Partner(e) == <<e[1], IF e[2] = "client" THEN "upstream" ELSE "client">>
listen_sock == <<0, "listen">>

VARIABLES
    ppc,            \* "select", "loop", "send" or "died"
    read_socks,     \* the list given to select()
    rsocks,         \* what is left of those it returned, a set: the order is read_socks'
    routes,         \* from a socket to its partner
    toSend,         \* [to, left, begun]: the send() that runs, and whether the kernel has
                    \* taken a part of its data
    refused,        \* the upstream connection could not be made
    pfds,           \* descriptors there are for connections, chosen once
    \* sockets and peers
    pqueue,         \* clients that wait to be accepted
    psock,          \* the proxy's socket: "none", "open" or "closed"
    ppeer,          \* the other end: "open", "half" (sends no more), "gone" or "reset"
    pavail,         \* bytes that wait to be received
    pgot,           \* bytes received from the end
    psent,          \* bytes send() took for the end
    pout,           \* of these, bytes in the kernel's buffer
    plate,          \* ends with a send() after they were gone
    pback           \* ends whose reset, the answer to that send(), has come back

proxyVars == <<ppc, read_socks, rsocks, routes, toSend, refused, pfds>>
proxyNet == <<pqueue, psock, ppeer, pavail, pgot, psent, pout, plate, pback>>
simpleVars == <<proxyVars, proxyNet>>

SimpleInit ==
    /\ ppc = "select" /\ read_socks = <<listen_sock>> /\ rsocks = {}
    /\ routes = [e \in {} |-> e]
    /\ toSend = [to |-> listen_sock, left |-> 0, begun |-> FALSE]
    /\ refused = FALSE
    /\ pfds \in ProxyFds
    /\ pqueue = 0
    /\ psock = [e \in ProxyEnd |-> "none"]
    /\ ppeer = [e \in ProxyEnd |-> "open"]
    /\ pavail = [e \in ProxyEnd |-> 0] /\ pgot = pavail /\ psent = pavail /\ pout = pavail
    /\ plate = {} /\ pback = {}
-------------------------------------------------------------------------------
(* Peers and kernel *)

Accepted == {k \in Pair : psock[<<k, "client">>] # "none"}

ProxyClientConnects ==
    /\ ppc # "died" /\ Cardinality(Accepted) + pqueue < ProxyPairs
    /\ pqueue' = pqueue + 1
    /\ UNCHANGED <<proxyVars, psock, ppeer, pavail, pgot, psent, pout, plate, pback>>

ProxyPeerSends(e) ==
    /\ ppc # "died" /\ psock[e] # "none" /\ ppeer[e] = "open"
    /\ MapThenSumSet(LAMBDA x : pgot[x] + pavail[x], ProxyEnd) < ProxyBytes
    /\ pavail' = [pavail EXCEPT ![e] = @ + 1]
    /\ UNCHANGED <<proxyVars, pqueue, psock, ppeer, pgot, psent, pout, plate, pback>>

ProxyPeerReads(e) ==
    /\ ppeer[e] \in {"open", "half"} /\ pout[e] > 0
    /\ pout' = [pout EXCEPT ![e] = 0]
    /\ UNCHANGED <<proxyVars, pqueue, psock, ppeer, pavail, pgot, psent, plate, pback>>

ProxyPeerEnds(e) ==
    /\ ppc # "died" /\ psock[e] # "none" /\ ppeer[e] = "open"
    /\ Cardinality({x \in ProxyEnd : ppeer[x] # "open"}) < ProxyEnds
    /\ \E how \in {"half", "gone", "reset"} :
          /\ ppeer' = [ppeer EXCEPT ![e] = how]
          /\ pout' = IF how = "half" THEN pout ELSE [pout EXCEPT ![e] = 0]
    /\ UNCHANGED <<proxyVars, pqueue, psock, pavail, pgot, psent, plate, pback>>

ProxyResetComesBack(e) ==
    /\ ppc # "died" /\ e \in plate \ pback
    /\ pback' = pback \cup {e}
    /\ UNCHANGED <<proxyVars, pqueue, psock, ppeer, pavail, pgot, psent, pout, plate>>

ProxyReadable(s) ==
    IF s = listen_sock THEN pqueue > 0 ELSE pavail[s] > 0 \/ ppeer[s] # "open"
-------------------------------------------------------------------------------
(* run *)

ProxySelect ==
    /\ ppc = "select"
    /\ rsocks' = {s \in Range(read_socks) : ProxyReadable(s)}
    /\ rsocks' # {}
    /\ ppc' = "loop"
    /\ UNCHANGED <<read_socks, routes, toSend, refused, pfds, proxyNet>>

ProxyRoundDone ==
    /\ ppc = "loop" /\ rsocks = {}
    /\ ppc' = "select"
    /\ UNCHANGED <<read_socks, rsocks, routes, toSend, refused, pfds, proxyNet>>

\* The loop has come to e: select() returns sockets in the order of read_socks, which
\* those that are left keep while others are removed and appended.
Serving(e) ==
    /\ ppc = "loop" /\ e \in rsocks
    /\ e = read_socks[SelectInSeq(read_socks, LAMBDA s : s \in rsocks)]

\* accept() and socket() take a descriptor each.
TwoLeft == Cardinality({e \in ProxyEnd : psock[e] = "open"}) + 2 <= pfds

\* accept_client: the client gets the next number.
accept_client ==
    /\ Serving(listen_sock) /\ TwoLeft
    /\ rsocks' = rsocks \ {listen_sock}
    /\ pqueue' = pqueue - 1
    /\ LET k == CHOOSE x \in Pair \ Accepted : \A y \in Pair \ Accepted : x <= y
           c == <<k, "client">>
           u == <<k, "upstream">>
       IN  /\ read_socks' = read_socks \o <<c, u>>
           /\ routes' = [e \in DOMAIN routes \cup {c, u} |->
                            IF e = c THEN u ELSE IF e = u THEN c ELSE routes[e]]
           /\ psock' = [psock EXCEPT ![c] = "open", ![u] = "open"]
    /\ UNCHANGED <<ppc, toSend, refused, pfds, ppeer, pavail, pgot, psent, pout, plate, pback>>

\* connect() raises: nothing catches it.
ConnectRaises ==
    /\ Serving(listen_sock) /\ TwoLeft
    /\ ppc' = "died" /\ refused' = TRUE
    /\ UNCHANGED <<read_socks, rsocks, routes, toSend, pfds, proxyNet>>

\* accept() or socket() raises for want of a descriptor.
SocketRaises ==
    /\ Serving(listen_sock) /\ ~TwoLeft
    /\ ppc' = "died"
    /\ UNCHANGED <<read_socks, rsocks, routes, toSend, refused, pfds, proxyNet>>

\* recv() returned '': this socket is forgotten and closed.  Its partner stays in
\* read_socks, and in routes with the closed socket.
disconnect(e) ==
    /\ Serving(e) /\ pavail[e] = 0 /\ ppeer[e] \in {"half", "gone"}
    /\ rsocks' = rsocks \ {e}
    /\ read_socks' = RemoveFirst(read_socks, e)
    /\ routes' = [s \in DOMAIN routes \ {e} |-> routes[s]]
    /\ psock' = [psock EXCEPT ![e] = "closed"]
    /\ UNCHANGED <<ppc, toSend, refused, pfds, pqueue, ppeer, pavail, pgot, psent, pout, plate, pback>>

\* recv() raised: the reset of one peer ends the program.
RecvRaises(e) ==
    /\ Serving(e) /\ pavail[e] = 0 /\ ppeer[e] = "reset"
    /\ ppc' = "died"
    /\ UNCHANGED <<read_socks, rsocks, routes, toSend, refused, pfds, proxyNet>>

\* recv() returned all that was there, and routes[sock].send() starts.
ProxyRecv(e) ==
    /\ Serving(e) /\ pavail[e] > 0
    /\ pgot' = [pgot EXCEPT ![e] = @ + pavail[e]]
    /\ pavail' = [pavail EXCEPT ![e] = 0]
    /\ toSend' = [to |-> routes[e], left |-> pavail[e], begun |-> FALSE]
    /\ rsocks' = rsocks \ {e}
    /\ ppc' = "send"
    /\ UNCHANGED <<read_socks, routes, refused, pfds, pqueue, psock, ppeer, psent, pout, plate, pback>>

\* The reset of e has been received.
WasReset(e) == ppeer[e] = "reset" \/ e \in pback

\* The kernel takes what fits; send() returns when it has taken all.
SendTakes ==
    LET e == toSend.to
    IN  /\ ppc = "send" /\ psock[e] = "open" /\ ~WasReset(e)
        /\ \E k \in 1 .. toSend.left :
              /\ ppeer[e] = "gone" \/ pout[e] + k <= ProxyBuf
              /\ k = toSend.left \/ pout[e] + k = ProxyBuf
              /\ psent' = [psent EXCEPT ![e] = @ + k]
              /\ pout' = IF ppeer[e] = "gone" THEN pout ELSE [pout EXCEPT ![e] = @ + k]
              /\ plate' = IF ppeer[e] = "gone" THEN plate \cup {e} ELSE plate
              /\ toSend' = [to |-> e, left |-> toSend.left - k, begun |-> TRUE]
              /\ ppc' = IF k = toSend.left THEN "loop" ELSE "send"
        /\ UNCHANGED <<read_socks, rsocks, routes, refused, pfds, pqueue, psock, ppeer, pavail,
                       pgot, pback>>

\* A reset strikes a send() that waits for room: it returns the number of bytes the
\* kernel has taken, which run() ignores, and the rest is lost.
SendCutShort ==
    /\ ppc = "send" /\ toSend.begun
    /\ psock[toSend.to] = "open" /\ WasReset(toSend.to)
    /\ ppc' = "loop"
    /\ UNCHANGED <<read_socks, rsocks, routes, toSend, refused, pfds, proxyNet>>

\* Mutant: the exception is caught and the data dropped.
SendDrops ==
    /\ ppc = "send"
    /\ psock[toSend.to] = "closed" \/ (WasReset(toSend.to) /\ ~toSend.begun)
    /\ ppc' = "loop"
    /\ UNCHANGED <<read_socks, rsocks, routes, toSend, refused, pfds, proxyNet>>

\* send() on a socket disconnect() has closed, or to a peer that has reset.
SendRaises ==
    /\ ppc = "send"
    /\ psock[toSend.to] = "closed" \/ (WasReset(toSend.to) /\ ~toSend.begun)
    /\ ppc' = "died"
    /\ UNCHANGED <<read_socks, rsocks, routes, toSend, refused, pfds, proxyNet>>

ProxyStep ==
    \/ ProxySelect \/ ProxyRoundDone \/ accept_client \/ ConnectRaises \/ SocketRaises
    \/ SendTakes \/ SendCutShort \/ SendRaises
    \/ \E e \in ProxyEnd : disconnect(e) \/ RecvRaises(e) \/ ProxyRecv(e)

SimpleNext ==
    \/ ProxyStep \/ ProxyClientConnects
    \/ \E e \in ProxyEnd : \/ ProxyPeerSends(e) \/ ProxyPeerReads(e) \/ ProxyPeerEnds(e)
                           \/ ProxyResetComesBack(e)
-------------------------------------------------------------------------------
\* select() watches the open sockets and routes leads from each of them to its
\* partner, which may be closed; between two rounds all that was received for an open
\* partner has been sent to it, but for what a send() that was cut short by the
\* partner's reset has dropped; and the program ends only by a refused upstream
\* connection, for want of descriptors for a client, by a peer's reset, or by data for
\* a partner that has left before.
RoutesSound ==
    /\ \A i, j \in 1 .. Len(read_socks) : read_socks[i] = read_socks[j] => i = j
    /\ Range(read_socks) \ {listen_sock} = {e \in ProxyEnd : psock[e] = "open"}
    /\ routes = [e \in {x \in ProxyEnd : psock[x] = "open"} |-> Partner(e)]
    /\ ppc = "select" =>
          \A e \in DOMAIN routes :
             psock[Partner(e)] = "open" =>
                \/ psent[Partner(e)] = pgot[e]
                \/ psent[Partner(e)] < pgot[e] /\ WasReset(Partner(e))
    /\ ppc = "died" =>
          \/ refused
          \/ listen_sock \in rsocks /\ ~TwoLeft
          \/ \E e \in ProxyEnd : WasReset(e)
          \/ psock[toSend.to] = "closed" /\ toSend.left > 0

\* What waits to be received is received, and what is being sent is sent, as long as
\* the program lives: a peer that reads slowly delays all the others, but a peer that
\* reads at all lets them go on.
ProxyServes ==
    \A e \in ProxyEnd :
        psock[e] = "open" /\ pavail[e] > 0 ~> pavail[e] = 0 \/ ppc = "died"

\* disconnect() closes one socket of a pair: whatever its partner sends from then on
\* is not relayed and not ignored but ends the whole program.
StaleRouteIsFatal ==
    \A e \in ProxyEnd :
        psock[e] = "closed" /\ psock[Partner(e)] = "open" /\ pavail[Partner(e)] > 0
            ~> ppc = "died"
===============================================================================
