------------------------------- MODULE TcpProxy -------------------------------
(***************************************************************************)
(* The TCP proxy of redis_ae/tcpproxy (tcpproxy.c) on its event loop and   *)
(* its buffers: every accepted client is paired with a connection to the   *)
(* remote host, and what one side sends is buffered in the blist of the    *)
(* other.  Handlers run to completion one recv() or send() at a time;      *)
(* peers and kernel interleave with every step.                            *)
(*                                                                         *)
(* A proxy_client struct is named by its connection and its side.  The     *)
(* pair c, c->remote is allocated and freed together.                      *)
(***************************************************************************)
EXTENDS BufferList, Sequences

CONSTANTS
    SetSize, Fd, Unset,   \* see AeFileEvents; Fd is the descriptor limit too
    MaxConns,             \* bound: connections made to the proxy
    MaxBytes,             \* bound: bytes each peer sends
    SndBuf                \* capacity of a kernel send buffer

ASSUME TcpProxyAssumption == {MaxConns, MaxBytes, SndBuf} \subseteq Nat

Conn == 1 .. MaxConns
Side == {"client", "remote"}
End == Conn \X Side
Other(e) == <<e[1], IF e[2] = "client" THEN "remote" ELSE "client">>

Listener == <<0, "listener">>
ListenFd == 0
Procs == {"Proxy_AcceptTcpHandler", "ReadIncome", "SendOutcome"}

INSTANCE AeFileEvents WITH Proc <- Procs, Data <- End \cup {Listener}

\* AeFileEventsAssumption for the table of the proxy.
ASSUME ProxyTableAssumption ==
    /\ SetSize \in Nat \ {0}
    /\ Fd \subseteq Nat
    /\ 0 .. SetSize - 1 \subseteq Fd
    /\ Unset \notin Procs \cup (End \cup {Listener})

VARIABLES
    table,      \* file events and the epoll list
    live,       \* proxy_client structs allocated and not freed
    fdOf,       \* c->fd
    flags,      \* connections whose client has CLIENT_CLOSE_AFTER_SENT
    blist,      \* c->blist: what is to be sent to that end
    open,       \* descriptors of the process that are open
    pc,         \* where the loop or the running handler is
    fired,      \* entries of fired[] not yet looked at
    cur,        \* the entry being dispatched
    rfired,     \* its READABLE handler has been called
    ptr,        \* privdata of the running handler
    \* the kernel and the peers
    backlog,    \* connections waiting in the listen queue
    accepted,   \* connections accepted so far
    sock,       \* state of each end's socket
    avail,      \* bytes the peer has sent and the proxy has not received
    got,        \* bytes received from the end
    sent,       \* bytes send() took for the end
    out,        \* of these, bytes in the kernel's send buffer
    peer,       \* what the peer of the end did: "open", "closed" or "reset"
    eof         \* auxiliary: ends whose ReadIncome saw recv() return 0

procVars == <<table, live, fdOf, flags, blist, open>>
loopVars == <<pc, fired, cur, rfired, ptr>>
netVars == <<backlog, accepted, sock, avail, got, sent, out, peer, eof>>
vars == <<procVars, loopVars, netVars>>

NoEntry == [fd |-> ListenFd, mask |-> {}]

Init ==
    /\ table = aeCreateFileEvent(aeCreateEventLoop, ListenFd, {"READABLE"},
                                 "Proxy_AcceptTcpHandler", Listener)
    /\ live = {}
    /\ fdOf = [e \in End |-> ListenFd]
    /\ flags = {}
    /\ blist = [e \in End |-> AllocBufferList]
    /\ open = {ListenFd}
    /\ pc = "epoll_wait"
    /\ fired = {}
    /\ cur = NoEntry
    /\ rfired = FALSE
    /\ ptr = Listener
    /\ backlog = 0
    /\ accepted = 0
    /\ sock = [e \in End |-> "none"]
    /\ avail = [e \in End |-> 0]
    /\ got = [e \in End |-> 0]
    /\ sent = [e \in End |-> 0]
    /\ out = [e \in End |-> 0]
    /\ peer = [e \in End |-> "open"]
    /\ eof = {}
-------------------------------------------------------------------------------
(* Peers and kernel *)

ClientConnects ==
    /\ accepted + backlog < MaxConns
    /\ backlog' = backlog + 1
    /\ UNCHANGED <<procVars, loopVars, accepted, sock, avail, got, sent, out, peer, eof>>

\* The non-blocking connect of AllocRemote completes, or is refused.
ConnectCompletes(e) ==
    /\ sock[e] = "connecting"
    /\ sock' = [sock EXCEPT ![e] = "up"]
    /\ UNCHANGED <<procVars, loopVars, backlog, accepted, avail, got, sent, out, peer, eof>>

ConnectRefused(e) ==
    /\ sock[e] = "connecting"
    /\ sock' = [sock EXCEPT ![e] = "failed"]
    /\ peer' = [peer EXCEPT ![e] = "reset"]
    /\ UNCHANGED <<procVars, loopVars, backlog, accepted, avail, got, sent, out, eof>>

PeerSends(e) ==
    /\ sock[e] = "up" /\ peer[e] = "open"
    /\ got[e] + avail[e] < MaxBytes
    /\ avail' = [avail EXCEPT ![e] = @ + 1]
    /\ UNCHANGED <<procVars, loopVars, backlog, accepted, sock, got, sent, out, peer, eof>>

PeerReads(e) ==
    /\ sock[e] = "up" /\ peer[e] # "reset" /\ out[e] > 0
    /\ out' = [out EXCEPT ![e] = 0]
    /\ UNCHANGED <<procVars, loopVars, backlog, accepted, sock, avail, got, sent, peer, eof>>

PeerCloses(e) ==
    /\ sock[e] = "up" /\ peer[e] = "open"
    /\ peer' = [peer EXCEPT ![e] = "closed"]
    /\ UNCHANGED <<procVars, loopVars, backlog, accepted, sock, avail, got, sent, out, eof>>

\* A reset discards what the kernel was sending; what it has received stays.
PeerResets(e) ==
    /\ sock[e] = "up" /\ peer[e] # "reset"
    /\ peer' = [peer EXCEPT ![e] = "reset"]
    /\ out' = [out EXCEPT ![e] = 0]
    /\ UNCHANGED <<procVars, loopVars, backlog, accepted, sock, avail, got, sent, eof>>

Readable(e) == avail[e] > 0 \/ peer[e] # "open"
Writable(e) == sock[e] # "connecting" /\ (out[e] < SndBuf \/ peer[e] = "reset")

\* The directions in which a descriptor is ready.
Ready(fd) ==
    IF fd = ListenFd THEN IF backlog > 0 THEN {"READABLE"} ELSE {}
    ELSE UNION {{d \in Direction : \/ d = "READABLE" /\ Readable(e)
                                   \/ d = "WRITABLE" /\ Writable(e)} :
                    e \in {x \in End : sock[x] \in {"connecting", "up", "failed"} /\ fdOf[x] = fd}}
-------------------------------------------------------------------------------
(* aeProcessEvents *)

\* aeApiPoll: level triggered, everything that is ready and asked for.
aeApiPoll ==
    /\ pc = "epoll_wait"
    /\ fired' = {[fd |-> fd, mask |-> table.interest[fd] \cap Ready(fd)] :
                    fd \in {x \in Slot : table.interest[x] \cap Ready(x) # {}}}
    /\ fired' # {}
    /\ pc' = "dispatch"
    /\ UNCHANGED <<procVars, netVars, cur, rfired, ptr>>

DispatchReadable ==
    /\ pc = "dispatch" /\ fired # {}
    /\ \E e \in fired :
          /\ cur' = e
          /\ fired' = fired \ {e}
          /\ rfired' = ("READABLE" \in table.mask[e.fd] \cap e.mask)
          /\ pc' = IF rfired' THEN table.rproc[e.fd] ELSE "writable?"
          /\ ptr' = IF rfired' THEN table.data[e.fd] ELSE ptr
    /\ UNCHANGED <<procVars, netVars>>

\* The WRITABLE half of an entry; entering SendOutcome deletes the event when
\* there is nothing to send.
DispatchWritable ==
    /\ pc = "writable?"
    /\ LET fd == cur.fd
           c == table.data[fd]
           called == /\ "WRITABLE" \in table.mask[fd] \cap cur.mask
                     /\ ~rfired \/ table.wproc[fd] # table.rproc[fd]
       IN  IF called
           THEN /\ pc' = table.wproc[fd]
                /\ ptr' = c
                /\ table' = IF DataNull(blist[c])
                            THEN aeDeleteFileEvent(table, fd, {"WRITABLE"}) ELSE table
           ELSE pc' = "dispatch" /\ UNCHANGED <<ptr, table>>
    /\ UNCHANGED <<live, fdOf, flags, blist, open, fired, cur, rfired, netVars>>

DispatchDone ==
    /\ pc = "dispatch" /\ fired = {}
    /\ pc' = "epoll_wait"
    /\ cur' = NoEntry
    /\ rfired' = FALSE
    /\ ptr' = Listener
    /\ UNCHANGED <<procVars, netVars, fired>>

\* Where the loop goes on when the running handler returns.
Returned == IF pc = "SendOutcome" THEN "dispatch" ELSE "writable?"
-------------------------------------------------------------------------------
(* Freeing *)

Unregister(t, fd) ==
    aeDeleteFileEvent(aeDeleteFileEvent(t, fd, {"READABLE"}), fd, {"WRITABLE"})

\* FreeClient with FreeRemote: both ends are unregistered, closed and freed.
FreeClient(k) ==
    LET c == <<k, "client">>
        r == <<k, "remote">>
    IN  /\ table' = Unregister(Unregister(table, fdOf[c]), fdOf[r])
        /\ open' = open \ {fdOf[c], fdOf[r]}
        /\ live' = live \ {c, r}
        /\ sock' = [sock EXCEPT ![c] = "gone", ![r] = "gone"]
        /\ UNCHANGED <<fdOf, flags, blist>>

\* Mutant: the remote's end is taken as the client's end, data or not.
CloseAtOnce(k) == FreeClient(k)

CloseAfterSent(k) ==
    IF DataNull(blist[<<k, "client">>])
    THEN FreeClient(k)
    ELSE /\ flags' = flags \cup {k}
         /\ UNCHANGED <<table, live, fdOf, blist, open, sock>>

\* Mutant: the end of the client's input is treated like that of the remote's.
ErrorFlushes(e) == CloseAfterSent(e[1])

\* c->OnError: FreeClient for a client, RemoteDown for a remote.
OnError(e) == IF e[2] = "client" THEN FreeClient(e[1]) ELSE CloseAfterSent(e[1])
-------------------------------------------------------------------------------
(* ReadIncome: one iteration of its loop *)

\* The buffer what is received from the running handler's end goes to.
Sink == blist[Other(ptr)]

ReadReturns ==
    /\ pc = "ReadIncome"
    /\ SpaceNull(Sink) \/ (avail[ptr] = 0 /\ peer[ptr] = "open")
    /\ pc' = Returned
    /\ UNCHANGED <<procVars, netVars, fired, cur, rfired, ptr>>

\* Mutant: the write event is armed only for the first bytes of a buffer.
ReadArmsOnce ==
    /\ pc = "ReadIncome"
    /\ ~SpaceNull(Sink)
    /\ LET r == Other(ptr)
       IN  \E k \in 1 .. SpaceLen(Sink) :
              /\ k <= avail[ptr]
              /\ blist' = [blist EXCEPT ![r] = BufferListPush(StoreBytes(@, got[ptr], k), k)]
              /\ table' = IF got[ptr] > 0 THEN table
                          ELSE aeCreateFileEvent(table, fdOf[r], {"WRITABLE"}, "SendOutcome", r)
              /\ avail' = [avail EXCEPT ![ptr] = @ - k]
              /\ got' = [got EXCEPT ![ptr] = @ + k]
    /\ UNCHANGED <<live, fdOf, flags, open, loopVars,
                   backlog, accepted, sock, sent, out, peer, eof>>

\* recv() returned k > 0 bytes: BufferListPush and SetWriteEvent on the other end.
ReadSome ==
    /\ pc = "ReadIncome"
    /\ ~SpaceNull(Sink)
    /\ LET r == Other(ptr)
       IN  \E k \in 1 .. SpaceLen(Sink) :
              /\ k <= avail[ptr]
              /\ blist' = [blist EXCEPT ![r] = BufferListPush(StoreBytes(@, got[ptr], k), k)]
              /\ table' = aeCreateFileEvent(table, fdOf[r], {"WRITABLE"}, "SendOutcome", r)
              /\ avail' = [avail EXCEPT ![ptr] = @ - k]
              /\ got' = [got EXCEPT ![ptr] = @ + k]
    /\ UNCHANGED <<live, fdOf, flags, open, loopVars,
                   backlog, accepted, sock, sent, out, peer, eof>>

\* recv() returned 0: the peer closed and everything is read, or bytes are waiting
\* and recv() was given length 0.
ReadZero ==
    /\ pc = "ReadIncome"
    /\ ~SpaceNull(Sink)
    /\ \/ avail[ptr] = 0 /\ peer[ptr] = "closed"
       \/ avail[ptr] > 0 /\ SpaceLen(Sink) = 0
    /\ eof' = eof \cup {ptr}
    /\ OnError(ptr)
    /\ pc' = Returned
    /\ UNCHANGED <<fired, cur, rfired, ptr, backlog, accepted, avail, got, sent, out, peer>>

\* recv() failed with something other than EAGAIN.
ReadError ==
    /\ pc = "ReadIncome"
    /\ ~SpaceNull(Sink)
    /\ avail[ptr] = 0 /\ peer[ptr] = "reset"
    /\ OnError(ptr)
    /\ pc' = Returned
    /\ UNCHANGED <<fired, cur, rfired, ptr, backlog, accepted, avail, got, sent, out, peer, eof>>
-------------------------------------------------------------------------------
(* SendOutcome: one iteration of its loop *)

Source == blist[ptr]

\* No data left: the client is freed if it was only kept to be flushed.
SendDrained ==
    /\ pc = "SendOutcome"
    /\ DataNull(Source)
    /\ IF ptr[2] = "client" /\ ptr[1] \in flags
       THEN FreeClient(ptr[1])
       ELSE UNCHANGED <<procVars, sock>>
    /\ pc' = Returned
    /\ UNCHANGED <<fired, cur, rfired, ptr, backlog, accepted, avail, got, sent, out, peer, eof>>

SendSome ==
    /\ pc = "SendOutcome"
    /\ sock[ptr] = "up" /\ peer[ptr] # "reset"
    /\ \E k \in 1 .. DataLen(Source) :
          /\ out[ptr] + k <= SndBuf
          /\ blist' = [blist EXCEPT ![ptr] = BufferListPop(@, k)]
          /\ sent' = [sent EXCEPT ![ptr] = @ + k]
          /\ out' = [out EXCEPT ![ptr] = @ + k]
    /\ UNCHANGED <<table, live, fdOf, flags, open, loopVars,
                   backlog, accepted, sock, avail, got, peer, eof>>

\* send() failed with EAGAIN: the kernel's buffer is full or the socket is still
\* connecting.
SendBlocked ==
    /\ pc = "SendOutcome"
    /\ ~DataNull(Source)
    /\ peer[ptr] # "reset" /\ (sock[ptr] = "connecting" \/ out[ptr] = SndBuf)
    /\ pc' = Returned
    /\ UNCHANGED <<procVars, netVars, fired, cur, rfired, ptr>>

SendError ==
    /\ pc = "SendOutcome"
    /\ ~DataNull(Source)
    /\ peer[ptr] = "reset"
    /\ OnError(ptr)
    /\ pc' = Returned
    /\ UNCHANGED <<fired, cur, rfired, ptr, backlog, accepted, avail, got, sent, out, peer, eof>>
-------------------------------------------------------------------------------
(* Proxy_AcceptTcpHandler *)

FreeFds == Fd \ open
LowestFd(S) == CHOOSE fd \in S : \A x \in S : fd <= x

\* accept() fails (no descriptor left): the connection stays in the queue.
AcceptFails ==
    /\ pc = "Proxy_AcceptTcpHandler"
    /\ FreeFds = {}
    /\ pc' = Returned
    /\ UNCHANGED <<procVars, netVars, fired, cur, rfired, ptr>>

\* A connection is taken from the queue; it is the next Conn.
TakeConnection ==
    /\ pc = "Proxy_AcceptTcpHandler"
    /\ FreeFds # {}
    /\ accepted' = accepted + 1
    /\ backlog' = backlog - 1
    /\ pc' = Returned
    /\ UNCHANGED <<fired, cur, rfired, ptr, flags, blist, avail, got, sent, out, peer, eof>>

\* Mutant: the failure path of AllocRemote leaves its descriptor open.
AllocLeaks ==
    /\ TakeConnection
    /\ sock' = [sock EXCEPT ![<<accepted', "client">>] = "gone"]
    /\ open' = open \cup {LowestFd(FreeFds)}
    /\ UNCHANGED <<table, live, fdOf>>

\* AllocRemote returned NULL (no socket, no route, or its descriptor does not fit
\* the event table): AllocClient closes the client and FreeClient(NULL) returns.
AllocFails ==
    /\ TakeConnection
    /\ sock' = [sock EXCEPT ![<<accepted', "client">>] = "gone"]
    /\ UNCHANGED <<table, live, fdOf, open>>

\* AllocClient and AllocRemote succeed; both ends are registered for reading.
AllocSucceeds ==
    /\ TakeConnection
    /\ LET c == <<accepted', "client">>
           r == <<accepted', "remote">>
           cfd == LowestFd(FreeFds)
           rfd == LowestFd(FreeFds \ {cfd})
       IN  /\ FreeFds # {cfd}
           /\ ~CreateFails(table, rfd) /\ ~CreateFails(table, cfd)
           /\ table' = aeCreateFileEvent(
                           aeCreateFileEvent(table, rfd, {"READABLE"}, "ReadIncome", r),
                           cfd, {"READABLE"}, "ReadIncome", c)
           /\ live' = live \cup {c, r}
           /\ fdOf' = [fdOf EXCEPT ![c] = cfd, ![r] = rfd]
           /\ open' = open \cup {cfd, rfd}
           /\ sock' = [sock EXCEPT ![c] = "up", ![r] = "connecting"]
-------------------------------------------------------------------------------
Loop ==
    \/ aeApiPoll \/ DispatchReadable \/ DispatchWritable \/ DispatchDone
    \/ ReadReturns \/ ReadSome \/ ReadZero \/ ReadError
    \/ SendDrained \/ SendSome \/ SendBlocked \/ SendError
    \/ AcceptFails \/ AllocFails \/ AllocSucceeds

Environment ==
    \/ ClientConnects
    \/ \E e \in End : \/ ConnectCompletes(e) \/ ConnectRefused(e)
                      \/ PeerSends(e) \/ PeerReads(e) \/ PeerCloses(e) \/ PeerResets(e)

Next == Loop \/ Environment

Spec == Init /\ [][Next]_vars

\* The process runs; a connect ends one way or the other; a peer that does not
\* reset keeps reading.  Nothing is assumed about sending, closing or connecting.
FairSpec ==
    /\ Spec
    /\ WF_vars(Loop)
    /\ \A e \in End : /\ WF_vars(PeerReads(e))
                      /\ WF_vars(ConnectCompletes(e) \/ ConnectRefused(e))
-------------------------------------------------------------------------------
TypeOK ==
    /\ table \in EventTable
    /\ live \subseteq End
    /\ fdOf \in [End -> Fd]
    /\ flags \subseteq Conn
    /\ blist \in [End -> Buffer]
    /\ open \subseteq Fd
    /\ pc \in {"epoll_wait", "dispatch", "writable?"} \cup Procs
    /\ ptr \in End \cup {Listener}
    /\ backlog \in 0 .. MaxConns /\ accepted \in 0 .. MaxConns
    /\ sock \in [End -> {"none", "connecting", "up", "failed", "gone"}]
    /\ {avail, got, sent, out} \subseteq [End -> Nat]

\* No handler runs on a freed proxy_client, although handlers free connections
\* whose other events are still in the fired[] batch and accept() reuses their
\* descriptors: every registered descriptor leads to a live struct that owns it.
PointersLive ==
    /\ pc \in {"ReadIncome", "SendOutcome"} => {ptr, Other(ptr)} \subseteq live
    /\ \A fd \in Slot \ {ListenFd} :
          table.mask[fd] # {} => table.data[fd] \in live /\ fdOf[table.data[fd]] = fd

\* Every descriptor is closed exactly once: the open ones are those of live
\* connections, each owned by one end, whatever failed while they were set up.
DescriptorsOwned ==
    /\ open = {ListenFd} \cup {fdOf[e] : e \in live}
    /\ \A e, f \in live : e # f => fdOf[e] # fdOf[f]

\* No wakeup is lost: when the loop goes to sleep, every end is watched for input
\* and every end that has buffered data is watched for output.
BufferedDataArmed ==
    pc = "epoll_wait" =>
        \A e \in live : /\ "READABLE" \in table.interest[fdOf[e]]
                        /\ ~DataNull(blist[e]) => "WRITABLE" \in table.interest[fdOf[e]]

\* What was received from one end and not yet sent to the other is in the other's
\* buffer, and the buffer offers exactly the next bytes of that stream.
RelayInOrder ==
    \A e \in live :
        /\ DataNull(blist[e]) <=> sent[e] = got[Other(e)]
        /\ \A o \in blist[e].read_pos .. HeadNode(blist[e]).size - 1 :
              HeadNode(blist[e]).data[o] = sent[e] + (o - blist[e].read_pos)

\* Between any two steps of ReadIncome and SendOutcome nothing buffered is lost,
\* reordered or forgotten: it is in the right buffer and its event is armed.
RelayConsistent == TypeOK /\ BufferedDataArmed /\ RelayInOrder

\* No connection is used after FreeClient and no descriptor is leaked or closed
\* twice, with accept() reusing descriptors inside one batch of events.
OwnershipKept == PointersLive /\ DescriptorsOwned

\* CloseAfterSent: a client whose own socket reported neither end of file nor an
\* error is freed only when all that was received for it has been sent.
FlushedBeforeClose ==
    [][\A k \in Conn :
          LET c == <<k, "client">>
          IN  c \in live \ live' /\ c \notin eof' /\ peer[c] # "reset"
                => sent[c] = got[Other(c)]]_vars

\* OnError of a client is FreeClient: once ReadIncome has seen the client's end of
\* file, be it only the end of its request, nothing more is passed on in either
\* direction, whichever events of the pair were still in the fired[] batch.
HalfCloseIsFinal ==
    [][\A k \in Conn :
          <<k, "client">> \in eof =>
              \A e \in {<<k, "client">>, <<k, "remote">>} : sent'[e] = sent[e] /\ got'[e] = got[e]]_vars

\* A client kept alive only to be flushed is freed eventually: the data drains or
\* the client goes away.
FlaggedIsFreed ==
    \A k \in Conn : k \in flags ~> <<k, "client">> \notin live

\* What a peer has sent is eventually received and sent on, or the connection goes:
\* the two directions never wait for each other, not even with both buffers full.
SentIsRelayed ==
    \A e \in End :
        e \in live /\ (avail[e] > 0 \/ ~DataNull(blist[Other(e)]))
            ~> e \notin live \/ (avail[e] = 0 /\ DataNull(blist[Other(e)]))

\* ReadIncome and SendOutcome make progress on every live connection.
RelayProgress == FlaggedIsFreed /\ SentIsRelayed

\* ReadIncome treats recv() = 0 as "connection closed by peer": it sees 0 only
\* when the peer has closed.
ZeroMeansClosed == \A e \in eof : peer[e] # "open"
===============================================================================
