-------------------------------- MODULE SvHttpd --------------------------------
(***************************************************************************)
(* The select-based web server of unp/simple-web-server-sv_httpd           *)
(* (sv_core.c, sv_conn.c): one process, a table of MAX_CONN connections,   *)
(* each waiting for its request, sending the header or sending the file.   *)
(* Clients and kernel interleave with every accept and every handler call. *)
(*                                                                         *)
(* A response is numbered: bytes 1 .. HeadLen are the header, the bytes    *)
(* after it the file.  Each client connects once and names its connection. *)
(***************************************************************************)
EXTENDS Integers, Sequences, FiniteSets

CONSTANTS
    Client, NULL,
    MAX_CONN,       \* slots of conn_list
    FdLimit,        \* descriptors for connections and files
    HeadLen,        \* c->hlen
    FileLen,        \* length of the requested file
    BLOCK_SIZE,     \* what sv_sendfile_conn reads at a time
    SndBuf          \* capacity of a kernel send buffer

ASSUME SvHttpdAssumption ==
    /\ {MAX_CONN, FdLimit, HeadLen, FileLen, BLOCK_SIZE, SndBuf} \subseteq Nat
    /\ MAX_CONN > 0 /\ BLOCK_SIZE > 0 /\ SndBuf > 0
    /\ NULL \notin Client

Slot == 0 .. MAX_CONN - 1

VARIABLES
    conn_list,  \* slot -> connection or NULL
    state,      \* c->state
    hoff, foff, \* c->hoff, c->foff
    socks,      \* connections whose socket is open in the server
    files,      \* connections whose file is open
    pc, i,      \* where the loop is, and the slot sv_handler_conn is at
    rfs, wfs,   \* the result of select: connections that are ready
    lready,     \* the listening socket is
    \* clients and kernel
    peer,       \* "none", "queued", "open" or "closed"
    input,      \* what the client has sent and the server has not read
    inflight,   \* bytes in the send buffer
    got         \* bytes of the response handed to the kernel, in order

connVars == <<conn_list, state, hoff, foff, socks, files>>
loopVars == <<pc, i, rfs, wfs, lready>>
netVars == <<peer, input, inflight, got>>
httpdVars == <<connVars, loopVars, netVars>>

HttpdInit ==
    /\ conn_list = [s \in Slot |-> NULL]
    /\ state = [c \in Client |-> "SV_AWAITING_REQUST"]
    /\ hoff = [c \in Client |-> 0]
    /\ foff = [c \in Client |-> 0]
    /\ socks = {} /\ files = {}
    /\ pc = "select" /\ i = 0
    /\ rfs = {} /\ wfs = {} /\ lready = FALSE
    /\ peer = [c \in Client |-> "none"]
    /\ input = [c \in Client |-> "nothing"]
    /\ inflight = [c \in Client |-> 0]
    /\ got = [c \in Client |-> <<>>]
-------------------------------------------------------------------------------
(* Clients and kernel *)

ClientConnects(c) ==
    /\ peer[c] = "none"
    /\ peer' = [peer EXCEPT ![c] = "queued"]
    /\ UNCHANGED <<connVars, loopVars, input, inflight, got>>

\* A request that names a file the server has, or one it turns down.
ClientSends(c, what) ==
    /\ peer[c] = "open" /\ input[c] = "nothing" /\ got[c] = <<>>
    /\ state[c] = "SV_AWAITING_REQUST"
    /\ input' = [input EXCEPT ![c] = what]
    /\ UNCHANGED <<connVars, loopVars, peer, inflight, got>>

ClientReads(c) ==
    /\ inflight[c] > 0
    /\ inflight' = [inflight EXCEPT ![c] = 0]
    /\ UNCHANGED <<connVars, loopVars, peer, input, got>>

ClientCloses(c) ==
    /\ peer[c] = "open"
    /\ peer' = [peer EXCEPT ![c] = "closed"]
    /\ UNCHANGED <<connVars, loopVars, input, inflight, got>>

Queued == {c \in Client : peer[c] = "queued"}
Readable(c) == input[c] # "nothing" \/ peer[c] = "closed"
Writable(c) == inflight[c] < SndBuf \/ peer[c] = "closed"
-------------------------------------------------------------------------------
(* sv_core_httpd *)

Listed == {conn_list[s] : s \in Slot} \ {NULL}

\* Mutant: the case of a connection that waits falls through.
SelectFallsThrough ==
    /\ pc = "select"
    /\ rfs' = {c \in Listed : state[c] = "SV_AWAITING_REQUST" /\ Readable(c)}
    /\ wfs' = {c \in Listed : Writable(c)}
    /\ lready' = (Queued # {})
    /\ lready' \/ rfs' \cup wfs' # {}
    /\ pc' = "accept"
    /\ UNCHANGED <<connVars, netVars, i>>

\* sv_collect_fd and select, which returns when something is ready.
Select ==
    /\ pc = "select"
    /\ rfs' = {c \in Listed : state[c] = "SV_AWAITING_REQUST" /\ Readable(c)}
    /\ wfs' = {c \in Listed : state[c] # "SV_AWAITING_REQUST" /\ Writable(c)}
    /\ lready' = (Queued # {})
    /\ lready' \/ rfs' \cup wfs' # {}
    /\ pc' = "accept"
    /\ UNCHANGED <<connVars, netVars, i>>

NoDescriptor == Cardinality(socks) + Cardinality(files) >= FdLimit

\* Mutant: a failed accept does not skip the handlers.
AcceptFailsAndHandles ==
    /\ pc = "accept" /\ lready
    /\ NoDescriptor
    /\ pc' = "handle" /\ i' = 0
    /\ UNCHANGED <<connVars, netVars, rfs, wfs, lready>>

\* sv_create_conn fails: continue, without calling sv_handler_conn.
AcceptFails ==
    /\ pc = "accept" /\ lready
    /\ NoDescriptor
    /\ pc' = "select"
    /\ UNCHANGED <<connVars, netVars, i, rfs, wfs, lready>>

FreeSlots == {s \in Slot : conn_list[s] = NULL}

\* sv_insert_conn finds no free slot: break, and the server ends.
TooManyConns ==
    /\ pc = "accept" /\ lready
    /\ ~NoDescriptor /\ FreeSlots = {}
    /\ pc' = "terminated"
    /\ UNCHANGED <<connVars, netVars, i, rfs, wfs, lready>>

\* sv_create_conn and sv_insert_conn.
AcceptConn(c) ==
    /\ pc = "accept" /\ lready
    /\ ~NoDescriptor /\ FreeSlots # {}
    /\ peer[c] = "queued"
    /\ LET s == CHOOSE x \in FreeSlots : \A y \in FreeSlots : x <= y
       IN  conn_list' = [conn_list EXCEPT ![s] = c]
    /\ peer' = [peer EXCEPT ![c] = "open"]
    /\ socks' = socks \cup {c}
    /\ state' = [state EXCEPT ![c] = "SV_AWAITING_REQUST"]
    /\ hoff' = [hoff EXCEPT ![c] = 0]
    /\ foff' = [foff EXCEPT ![c] = 0]
    /\ pc' = "handle" /\ i' = 0
    /\ UNCHANGED <<files, rfs, wfs, lready, input, inflight, got>>

NothingToAccept ==
    /\ pc = "accept" /\ ~lready
    /\ pc' = "handle" /\ i' = 0
    /\ UNCHANGED <<connVars, netVars, rfs, wfs, lready>>
-------------------------------------------------------------------------------
(* sv_handler_conn: one slot *)

Advance == IF i + 1 < MAX_CONN THEN pc' = pc /\ i' = i + 1 ELSE pc' = "select" /\ i' = 0

\* sv_del_conn, and the slot is free again.
sv_del_conn(c) ==
    /\ conn_list' = [conn_list EXCEPT ![i] = NULL]
    /\ files' = IF state[c] = "SV_AWAITING_REQUST" THEN files ELSE files \ {c}
    /\ socks' = socks \ {c}
    /\ UNCHANGED <<state, hoff, foff>>

Due(c) == c # NULL /\ c \in IF state[c] = "SV_AWAITING_REQUST" THEN rfs ELSE wfs

HandleNothing ==
    /\ pc = "handle"
    /\ ~Due(conn_list[i])
    /\ Advance
    /\ UNCHANGED <<connVars, netVars, rfs, wfs, lready>>

\* sv_readreq_conn.  After read() = 0 the buffer is what the stack held, an earlier
\* request included, and it is parsed like a request.
HandleRequest ==
    /\ pc = "handle"
    /\ LET c == conn_list[i]
       IN  /\ Due(c) /\ state[c] = "SV_AWAITING_REQUST"
           /\ \E what \in IF input[c] = "nothing" THEN {"request", "bad"} ELSE {input[c]} :
                 IF what = "bad" \/ NoDescriptor
                 THEN sv_del_conn(c)
                 ELSE /\ state' = [state EXCEPT ![c] = "SV_SENDING_HEADER"]
                      /\ files' = files \cup {c}
                      /\ UNCHANGED <<conn_list, hoff, foff, socks>>
           /\ input' = [input EXCEPT ![c] = "nothing"]
    /\ Advance
    /\ UNCHANGED <<rfs, wfs, lready, peer, inflight, got>>

\* The kernel takes n bytes of the response from number b on.
Transmit(c, b, n) ==
    /\ got' = [got EXCEPT ![c] = @ \o [k \in 1 .. n |-> b + k]]
    /\ inflight' = [inflight EXCEPT ![c] = @ + n]

\* write() to a client that has gone.
HandleWriteError ==
    /\ pc = "handle"
    /\ LET c == conn_list[i]
       IN  /\ Due(c) /\ state[c] # "SV_AWAITING_REQUST"
           /\ peer[c] = "closed"
           /\ sv_del_conn(c)
    /\ Advance
    /\ UNCHANGED <<netVars, rfs, wfs, lready>>

\* Mutant: the end of the header is looked for before the bytes are counted.
HandleHeaderNeverDone ==
    /\ pc = "handle"
    /\ LET c == conn_list[i]
       IN  /\ Due(c) /\ state[c] = "SV_SENDING_HEADER"
           /\ \E n \in 1 .. HeadLen - hoff[c] :
                 /\ n <= SndBuf - inflight[c]
                 /\ Transmit(c, hoff[c], n)
                 /\ hoff' = [hoff EXCEPT ![c] = @ + n]
                 /\ state' = [state EXCEPT ![c] =
                       IF hoff[c] = HeadLen THEN "SV_SENDING_FILE" ELSE @]
    /\ Advance
    /\ UNCHANGED <<conn_list, foff, socks, files, rfs, wfs, lready, peer, input>>

\* sv_sendhead_conn: write() takes what fits.
HandleHeader ==
    /\ pc = "handle"
    /\ LET c == conn_list[i]
       IN  /\ Due(c) /\ state[c] = "SV_SENDING_HEADER"
           /\ \E n \in 1 .. HeadLen - hoff[c] :
                 /\ n <= SndBuf - inflight[c]
                 /\ Transmit(c, hoff[c], n)
                 /\ hoff' = [hoff EXCEPT ![c] = @ + n]
                 /\ state' = [state EXCEPT ![c] =
                       IF hoff'[c] = HeadLen THEN "SV_SENDING_FILE" ELSE @]
    /\ Advance
    /\ UNCHANGED <<conn_list, foff, socks, files, rfs, wfs, lready, peer, input>>

\* What read() returns at an offset of the file.
BlockAt(off) == IF FileLen - off < BLOCK_SIZE THEN FileLen - off ELSE BLOCK_SIZE

\* Mutant: the offset only advances when the whole block was taken.
HandleFileRepeats ==
    /\ pc = "handle"
    /\ LET c == conn_list[i]
           bc == BlockAt(foff[c])
       IN  /\ Due(c) /\ state[c] = "SV_SENDING_FILE"
           /\ IF bc = 0
              THEN sv_del_conn(c) /\ UNCHANGED <<got, inflight>>
              ELSE \E bs \in 1 .. bc :
                      /\ bs <= SndBuf - inflight[c]
                      /\ Transmit(c, HeadLen + foff[c], bs)
                      /\ foff' = [foff EXCEPT ![c] = IF bs = bc THEN @ + bc ELSE @]
                      /\ UNCHANGED <<conn_list, state, hoff, socks, files>>
    /\ Advance
    /\ UNCHANGED <<rfs, wfs, lready, peer, input>>

\* sv_sendfile_conn: the offset advances by what was read from the file; write()
\* takes what fits, and how much that was is not looked at.
HandleFile ==
    /\ pc = "handle"
    /\ LET c == conn_list[i]
           bc == BlockAt(foff[c])
       IN  /\ Due(c) /\ state[c] = "SV_SENDING_FILE"
           /\ IF bc = 0
              THEN sv_del_conn(c) /\ UNCHANGED <<got, inflight>>
              ELSE \E bs \in 1 .. bc :
                      /\ bs <= SndBuf - inflight[c]
                      /\ Transmit(c, HeadLen + foff[c], bs)
                      /\ foff' = [foff EXCEPT ![c] = @ + bc]
                      /\ UNCHANGED <<conn_list, state, hoff, socks, files>>
    /\ Advance
    /\ UNCHANGED <<rfs, wfs, lready, peer, input>>
-------------------------------------------------------------------------------
Server ==
    \/ Select \/ AcceptFails \/ TooManyConns \/ NothingToAccept
    \/ \E c \in Client : AcceptConn(c)
    \/ HandleNothing \/ HandleRequest \/ HandleWriteError \/ HandleHeader \/ HandleFile

HttpdNext ==
    \/ Server
    \/ \E c \in Client :
          \/ ClientConnects(c) \/ ClientReads(c) \/ ClientCloses(c)
          \/ \E what \in {"request", "bad"} : ClientSends(c, what)

HttpdSpec == HttpdInit /\ [][HttpdNext]_httpdVars
-------------------------------------------------------------------------------
HttpdTypeOK ==
    /\ conn_list \in [Slot -> Client \cup {NULL}]
    /\ state \in [Client -> {"SV_AWAITING_REQUST", "SV_SENDING_HEADER", "SV_SENDING_FILE"}]
    /\ hoff \in [Client -> 0 .. HeadLen] /\ foff \in [Client -> 0 .. FileLen]
    /\ socks \subseteq Client /\ files \subseteq Client
    /\ i \in Slot
    /\ inflight \in [Client -> 0 .. SndBuf]

\* No descriptor leaks and none is used after it was closed: a socket is open as long
\* as its connection has a slot, exactly one, and a file as long as it is being sent.
DescriptorsOwned ==
    /\ socks = Listed
    /\ \A s, t \in Slot : conn_list[s] = conn_list[t] /\ s # t => conn_list[s] = NULL
    /\ files = {c \in Listed : state[c] # "SV_AWAITING_REQUST"}

\* What a client is sent is the whole header and then bytes of the file in order and
\* none of them twice, however little each write() took.
ResponseInOrder ==
    \A c \in Client :
        /\ \A k \in 1 .. Len(got[c]) : k <= HeadLen => got[c][k] = k
        /\ \A k \in 1 .. Len(got[c]) - 1 : got[c][k] < got[c][k + 1]

\* sv_handler_conn acts only on sockets select() was asked about in the state they
\* are in: the connection accepted in this round waits for the next one.
ReadyIsCurrent ==
    pc = "handle" =>
        \A s \in Slot : s >= i /\ conn_list[s] # NULL =>
            /\ conn_list[s] \in rfs => state[conn_list[s]] = "SV_AWAITING_REQUST" /\ Readable(conn_list[s])
            /\ conn_list[s] \in wfs => state[conn_list[s]] # "SV_AWAITING_REQUST" /\ Writable(conn_list[s])

\* The connection table, the descriptors and the sets select() returned agree while
\* sv_handler_conn closes, accepts and changes the state of connections.
ConnectionsConsistent == HttpdTypeOK /\ DescriptorsOwned /\ ReadyIsCurrent

\* With its descriptors used up and another client waiting, the server is stuck:
\* accept() fails, the handlers are skipped, and no connection ever makes progress
\* or is closed again.
Stuck == pc \in {"select", "accept"} /\ NoDescriptor /\ Queued # {} /\ (pc = "accept" => lready)
StuckForGood == [][Stuck => Stuck' /\ UNCHANGED connVars]_httpdVars

\* A client that has sent its request is answered or turned away, unless the server
\* has ended or is stuck.
RequestIsHandled ==
    \A c \in Client :
        (c \in Listed /\ input[c] # "nothing") ~> (c \notin Listed \/ pc = "terminated" \/ Stuck)
===============================================================================
