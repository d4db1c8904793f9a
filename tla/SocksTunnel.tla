------------------------------ MODULE SocksTunnel ------------------------------
(***************************************************************************)
(* python/proxy-python: local.py speaks SOCKS5 to an application and sends *)
(* what it gets, encoded, to server.py, which decodes it and talks to the  *)
(* target.  A thread of each program serves one connection; this module    *)
(* is one connection through both, client -> local -> server -> target.    *)
(* Both relay with blocking sends, one direction at a time.                *)
(*                                                                         *)
(* A hop is the TCP connection between two neighbours; up is the direction *)
(* to the target.  A byte string is a sequence of numbers of Byte.         *)
(***************************************************************************)
EXTENDS Naturals, Sequences, SequencesExt, FiniteSets

CONSTANTS
    Byte,           \* byte values
    Table,          \* encrypt_table, made by get_table from KEY in both programs
    Talks,          \* [greeting, first, request, payload]: what a client may open with
                    \* (version, number, methods), how much of it comes first, what it
                    \* then asks for (version, command, 0, type, address, port), and the
                    \* bytes that client and target send to each other
    TunnelBuf       \* bytes a hop holds in one direction

\* get_table makes a permutation of the byte values.
ASSUME TableAssumption ==
    /\ Byte \subseteq Nat /\ Table \in [Byte -> Byte]
    /\ \A b \in Byte : \E a \in Byte : Table[a] = b
    /\ \A a, b \in Byte : Table[a] = Table[b] => a = b

Node == {"local", "server"}
Hop == {"cl", "ls", "st"}
Near(n) == IF n = "local" THEN "cl" ELSE "ls"       \* sock
Far(n) == IF n = "local" THEN "ls" ELSE "st"        \* remote

VARIABLES
    nodePc,     \* where each thread is
    ready2,     \* what select() returned to it
    sending,    \* [on, bytes]: the send() it is in
    up, down,   \* bytes on a hop
    nearEnd, farEnd,    \* its two sockets: "none", "open", "half" or "closed"
    script,     \* what is said in this behaviour, one of Talks
    held,       \* the greeting, or the rest of it, that is not sent yet
    replies,    \* how far the client is: 1 greeting answered, 2 request sent, 3 answered
    dialled,    \* what server.py has connected to
    clientSent, targetSent, clientGot, targetGot    \* payload, numbers of bytes or bytes

threads == <<nodePc, ready2, sending>>
hops == <<up, down, nearEnd, farEnd>>
talk == <<script, held, replies, dialled>>
counts == <<clientSent, targetSent, clientGot, targetGot>>
tunnelVars == <<threads, hops, talk, counts>>

encrypt(s) == [i \in 1 .. Len(s) |-> Table[s[i]]]
decrypt(s) == [i \in 1 .. Len(s) |-> CHOOSE b \in Byte : Table[b] = s[i]]
\* Mutant: server.py answers in the clear.
ConvertUpOnly(n, d, s) ==
    IF d = "down" /\ n = "server" THEN s
    ELSE IF (n = "local") <=> (d = "up") THEN encrypt(s) ELSE decrypt(s)
\* local.py encodes on the way up, server.py on the way down.
Convert(n, d, s) == IF (n = "local") <=> (d = "up") THEN encrypt(s) ELSE decrypt(s)

TunnelInit ==
    /\ nodePc = [local |-> "greeting", server |-> "none"]
    /\ ready2 = [n \in Node |-> {}]
    /\ sending = [n \in Node |-> [on |-> "up", bytes |-> <<>>]]
    /\ up = [h \in Hop |-> <<>>] /\ down = up
    /\ nearEnd = [cl |-> "open", ls |-> "none", st |-> "none"] /\ farEnd = nearEnd
    /\ script \in Talks /\ held = script.greeting
    /\ replies = 0 /\ dialled = <<>>
    /\ clientSent = 0 /\ targetSent = 0 /\ clientGot = <<>> /\ targetGot = <<>>
-------------------------------------------------------------------------------
(* The client and the target *)

ClientGreets ==
    /\ held = script.greeting /\ nearEnd.cl = "open"
    /\ up' = [up EXCEPT !.cl = SubSeq(held, 1, script.first)]
    /\ held' = SubSeq(held, script.first + 1, Len(held))
    /\ UNCHANGED <<threads, down, nearEnd, farEnd, script, replies, dialled, counts>>

ClientSendsRest ==
    /\ held \notin {<<>>, script.greeting} /\ nearEnd.cl = "open" /\ nodePc.local # "closed"
    /\ up' = [up EXCEPT !.cl = @ \o held]
    /\ held' = <<>>
    /\ UNCHANGED <<threads, down, nearEnd, farEnd, script, replies, dialled, counts>>

ClientRequests ==
    /\ replies = 1 /\ held = <<>> /\ nearEnd.cl = "open" /\ nodePc.local # "closed"
    /\ up' = [up EXCEPT !.cl = @ \o script.request]
    /\ replies' = 2
    /\ UNCHANGED <<threads, down, nearEnd, farEnd, script, held, dialled, counts>>

ClientSends ==
    /\ replies = 3 /\ nearEnd.cl = "open" /\ nodePc.local # "closed"
    /\ clientSent < Len(script.payload) /\ Len(up.cl) < TunnelBuf
    /\ up' = [up EXCEPT !.cl = Append(@, script.payload[clientSent + 1])]
    /\ clientSent' = clientSent + 1
    /\ UNCHANGED <<threads, down, nearEnd, farEnd, talk, targetSent, clientGot, targetGot>>

ClientReads ==
    /\ nearEnd.cl \in {"open", "half"} /\ down.cl # <<>>
    /\ clientGot' = clientGot \o down.cl
    /\ down' = [down EXCEPT !.cl = <<>>]
    /\ UNCHANGED <<threads, up, nearEnd, farEnd, talk, clientSent, targetSent, targetGot>>

ClientEnds ==
    /\ nearEnd.cl = "open" /\ nodePc.local # "closed"
    /\ \E how \in {"half", "closed"} :
          /\ nearEnd' = [nearEnd EXCEPT !.cl = how]
          /\ down' = IF how = "closed" THEN [down EXCEPT !.cl = <<>>] ELSE down
    /\ UNCHANGED <<threads, up, farEnd, talk, counts>>

TargetSends ==
    /\ farEnd.st = "open" /\ targetSent < Len(script.payload) /\ Len(down.st) < TunnelBuf
    /\ down' = [down EXCEPT !.st = Append(@, script.payload[targetSent + 1])]
    /\ targetSent' = targetSent + 1
    /\ UNCHANGED <<threads, up, nearEnd, farEnd, talk, clientSent, clientGot, targetGot>>

TargetReads ==
    /\ farEnd.st \in {"open", "half"} /\ up.st # <<>>
    /\ targetGot' = targetGot \o up.st
    /\ up' = [up EXCEPT !.st = <<>>]
    /\ UNCHANGED <<threads, down, nearEnd, farEnd, talk, clientSent, targetSent, clientGot>>

TargetEnds ==
    /\ farEnd.st = "open"
    /\ \E how \in {"half", "closed"} :
          /\ farEnd' = [farEnd EXCEPT !.st = how]
          /\ up' = IF how = "closed" THEN [up EXCEPT !.st = <<>>] ELSE up
    /\ UNCHANGED <<threads, down, nearEnd, talk, counts>>
-------------------------------------------------------------------------------
(* Closing: remote.close() and the end of handle(), which closes sock.     *)
(* What was on its way to the thread is gone.                              *)

Closes(n) ==
    /\ nodePc' = [nodePc EXCEPT ![n] = "closed"]
    /\ farEnd' = [farEnd EXCEPT ![Near(n)] = "closed"]
    /\ nearEnd' = [nearEnd EXCEPT ![Far(n)] = IF @ = "none" THEN @ ELSE "closed"]
    /\ up' = [up EXCEPT ![Near(n)] = <<>>]
    /\ down' = [down EXCEPT ![Far(n)] = <<>>]
    /\ UNCHANGED <<ready2, sending>>

\* handle() of local.py: the method reply, after one recv(262) of whatever is there.
LocalGreeting ==
    /\ nodePc.local = "greeting"
    /\ \/ /\ up.cl # <<>>
          /\ up' = [up EXCEPT !.cl = <<>>]
          /\ nodePc' = [nodePc EXCEPT !.local = "request"]
          /\ replies' = 1
          /\ UNCHANGED <<ready2, sending, down, nearEnd, farEnd>>
       \/ up.cl = <<>> /\ nearEnd.cl # "open" /\ Closes("local") /\ UNCHANGED replies
    /\ UNCHANGED <<script, held, dialled, counts>>

\* The rest of handle() as a parse of the bytes that follow.  Each read waits until
\* it has all its bytes, so that only their order counts.
AddrLen(s) == IF s[4] = 1 THEN 4 ELSE IF Len(s) < 5 THEN 1 ELSE 1 + s[5]
ReqLen(s) == IF Len(s) < 4 THEN 4
             ELSE IF s[2] # 1 \/ s[4] \notin {1, 3} THEN 4 ELSE 4 + AddrLen(s) + 2
\* It is all there, and local.py connects.
Connects(s) == Len(s) >= ReqLen(s) /\ s[2] = 1 /\ s[4] \in {1, 3}

\* What is asked for; and what local.py makes of the rest of a greeting that came in two
\* pieces, alone or with the request behind it, if it is the beginning of a request.
RestOf(t) == SubSeq(t.greeting, t.first + 1, Len(t.greeting))
AskedOf(t) == SubSeq(t.request, 4, Len(t.request))
MisreadOf(t) ==
    {SubSeq(s, 4, ReqLen(s)) : s \in {x \in {RestOf(t), RestOf(t) \o t.request} : Connects(x)}}

\* What may be said: a client asks for one address, and the rest of its greeting is not
\* by chance a request for the same one.

ASSUME TalksAssumption ==
    /\ TunnelBuf \in Nat
    /\ \A t \in Talks :
          /\ {t.greeting, t.request, t.payload} \subseteq Seq(Byte)
          /\ t.first \in 1 .. Len(t.greeting)
          /\ Connects(t.request) => Len(t.request) = ReqLen(t.request)
          /\ t.first < Len(t.greeting) => AskedOf(t) \notin MisreadOf(t)

\* mode != 1, an address type it does not know, or the client has ended before all
\* was there: the thread ends.
LocalRefuses ==
    /\ nodePc.local = "request"
    /\ LET s == up.cl
       IN  \/ Len(s) >= 4 /\ (s[2] # 1 \/ s[4] \notin {1, 3})
           \/ Len(s) < ReqLen(s) /\ nearEnd.cl # "open"
    /\ Closes("local")
    /\ UNCHANGED <<talk, counts>>

\* The success reply goes out before the connection to server.py is tried; type,
\* address and port follow on it.
LocalRequest ==
    /\ nodePc.local = "request"
    /\ LET s == up.cl
           n == ReqLen(s)
       IN  /\ Connects(s)
           /\ up' = [up EXCEPT !.cl = SubSeq(s, n + 1, Len(s)),
                               !.ls = encrypt(SubSeq(s, 4, n))]
    /\ replies' = 3
    /\ nearEnd' = [nearEnd EXCEPT !.ls = "open"]
    /\ farEnd' = [farEnd EXCEPT !.ls = "open"]
    /\ nodePc' = [local |-> "select", server |-> "addr"]
    /\ UNCHANGED <<ready2, sending, down, script, held, dialled, counts>>

\* connect() raises socket.error after the reply.
LocalConnectFails ==
    /\ nodePc.local = "request"
    /\ Connects(up.cl)
    /\ Closes("local")
    /\ replies' = 3
    /\ UNCHANGED <<script, held, dialled, counts>>

\* handle() of server.py: type, address and port, decoded, and the connection.
ServerDials ==
    /\ nodePc.server = "addr"
    /\ LET s == <<0, 1, 0>> \o decrypt(up.ls)
           n == ReqLen(s)
       IN  /\ Len(s) >= n
           /\ \/ /\ dialled' = SubSeq(s, 4, n)
                 /\ up' = [up EXCEPT !.ls = SubSeq(@, n - 2, Len(@))]
                 /\ nearEnd' = [nearEnd EXCEPT !.st = "open"]
                 /\ farEnd' = [farEnd EXCEPT !.st = "open"]
                 /\ nodePc' = [nodePc EXCEPT !.server = "select"]
                 /\ UNCHANGED <<ready2, sending, down>>
              \/ Closes("server") /\ UNCHANGED dialled          \* connect() fails
    /\ UNCHANGED <<script, held, replies, counts>>

\* The connection ends before the address is complete.
ServerShort ==
    /\ nodePc.server = "addr" /\ nearEnd.ls # "open"
    /\ LET s == <<0, 1, 0>> \o decrypt(up.ls) IN Len(s) < ReqLen(s)
    /\ Closes("server")
    /\ UNCHANGED <<talk, counts>>
-------------------------------------------------------------------------------
(* handle_tcp, the same in both programs *)

SockReady(n) == up[Near(n)] # <<>> \/ nearEnd[Near(n)] # "open"
RemoteReady(n) == down[Far(n)] # <<>> \/ farEnd[Far(n)] # "open"

RelaySelect(n) ==
    /\ nodePc[n] = "select" /\ (SockReady(n) \/ RemoteReady(n))
    /\ ready2' = [ready2 EXCEPT ![n] = (IF SockReady(n) THEN {"up"} ELSE {})
                                       \cup (IF RemoteReady(n) THEN {"down"} ELSE {})]
    /\ nodePc' = [nodePc EXCEPT ![n] = IF SockReady(n) THEN "up" ELSE "down"]
    /\ UNCHANGED <<sending, hops, talk, counts>>

\* "if sock in r", then "if remote in r", with the r of the same select().
AfterSend(n, d) == IF d = "up" /\ "down" \in ready2[n] THEN "down" ELSE "select"

\* recv() of all that is there; end of file is a send() of 0 bytes, which ends the loop.
RelayRecv(n, d) ==
    /\ nodePc[n] = d
    /\ LET in == IF d = "up" THEN up[Near(n)] ELSE down[Far(n)]
       IN  \/ /\ in # <<>>
              /\ sending' = [sending EXCEPT ![n] = [on |-> d, bytes |-> Convert(n, d, in)]]
              /\ nodePc' = [nodePc EXCEPT ![n] = "send"]
              /\ IF d = "up" THEN up' = [up EXCEPT ![Near(n)] = <<>>] /\ UNCHANGED down
                 ELSE down' = [down EXCEPT ![Far(n)] = <<>>] /\ UNCHANGED up
              /\ UNCHANGED <<ready2, nearEnd, farEnd>>
           \/ in = <<>> /\ Closes(n)
    /\ UNCHANGED <<talk, counts>>

Room(h, d) == TunnelBuf - Len(IF d = "up" THEN up[h] ELSE down[h])
Receiver(n, d) == IF d = "up" THEN farEnd[Far(n)] ELSE nearEnd[Near(n)]
OutHop(n, d) == IF d = "up" THEN Far(n) ELSE Near(n)

\* Mutant: send() takes what fits and the rest is dropped.
RelaySendDrops(n) ==
    LET d == sending[n].on
        h == OutHop(n, d)
        s == sending[n].bytes
    IN  /\ nodePc[n] = "send" /\ Receiver(n, d) # "closed"
        /\ LET k == IF Len(s) < Room(h, d) THEN Len(s) ELSE Room(h, d)
           IN  /\ IF d = "up" THEN up' = [up EXCEPT ![h] = @ \o SubSeq(s, 1, k)] /\ UNCHANGED down
                  ELSE down' = [down EXCEPT ![h] = @ \o SubSeq(s, 1, k)] /\ UNCHANGED up
               /\ sending' = [sending EXCEPT ![n].bytes = <<>>]
               /\ nodePc' = [nodePc EXCEPT ![n] = AfterSend(n, d)]
        /\ UNCHANGED <<ready2, nearEnd, farEnd, talk, counts>>

\* send() waits for room and returns when the last byte is taken.
RelaySend(n) ==
    LET d == sending[n].on
        h == OutHop(n, d)
        s == sending[n].bytes
    IN  /\ nodePc[n] = "send" /\ Receiver(n, d) # "closed" /\ Room(h, d) > 0
        /\ LET k == IF Len(s) < Room(h, d) THEN Len(s) ELSE Room(h, d)
           IN  /\ IF d = "up" THEN up' = [up EXCEPT ![h] = @ \o SubSeq(s, 1, k)] /\ UNCHANGED down
                  ELSE down' = [down EXCEPT ![h] = @ \o SubSeq(s, 1, k)] /\ UNCHANGED up
               /\ sending' = [sending EXCEPT ![n].bytes = SubSeq(s, k + 1, Len(s))]
               /\ nodePc' = [nodePc EXCEPT ![n] = IF k = Len(s) THEN AfterSend(n, d) ELSE "send"]
        /\ UNCHANGED <<ready2, nearEnd, farEnd, talk, counts>>

\* The receiver has closed: send() is answered by a reset and the bytes are lost, or
\* raises, which ends the thread.
RelaySendLost(n) ==
    /\ nodePc[n] = "send" /\ Receiver(n, sending[n].on) = "closed"
    /\ \/ /\ nodePc' = [nodePc EXCEPT ![n] = AfterSend(n, sending[n].on)]
          /\ sending' = [sending EXCEPT ![n].bytes = <<>>]
          /\ UNCHANGED <<ready2, hops>>
       \/ Closes(n)
    /\ UNCHANGED <<talk, counts>>

Thread(n) ==
    \/ n = "local" /\ (LocalGreeting \/ LocalRefuses \/ LocalRequest \/ LocalConnectFails)
    \/ n = "server" /\ (ServerDials \/ ServerShort)
    \/ RelaySelect(n) \/ RelaySend(n) \/ RelaySendLost(n)
    \/ \E d \in {"up", "down"} : RelayRecv(n, d)

TunnelNext ==
    \/ \E n \in Node : Thread(n)
    \/ ClientGreets \/ ClientSendsRest \/ ClientRequests \/ ClientSends \/ ClientReads \/ ClientEnds
    \/ TargetSends \/ TargetReads \/ TargetEnds
-------------------------------------------------------------------------------
\* The two threads wait for each other: each is in a send() on the hop between them,
\* and neither direction has room.
Gridlock ==
    /\ nodePc.local = "send" /\ sending.local.on = "up" /\ Room("ls", "up") = 0
    /\ nodePc.server = "send" /\ sending.server.on = "down" /\ Room("ls", "down") = 0
    /\ {nearEnd.ls, farEnd.ls} = {"open"}

Buffered(n, d) == IF nodePc[n] = "send" /\ sending[n].on = d THEN sending[n].bytes ELSE <<>>
Asked == AskedOf(script)
FirstOf(k) == SubSeq(script.payload, 1, k)

\* The addresses server.py may come to dial.
DialsOf(t) == {AskedOf(t)} \cup IF t.first = Len(t.greeting) THEN {} ELSE MisreadOf(t)

\* Between the two ends no byte is lost, changed or moved while both threads relay:
\* what one end has sent is what the other has got, then what is on the three hops
\* and in the two threads, decoded where it is encoded.  After that an end has got a
\* prefix.  If the greeting came in one piece, server.py connects to what was asked
\* for; if not, to that or to what its rest spells as the beginning of a request.
TunnelFaithful ==
    /\ nodePc.local \notin {"greeting", "request", "closed"}
          /\ nodePc.server \notin {"none", "addr", "closed"}
          /\ "closed" \notin {farEnd.st, nearEnd.cl} /\ held = <<>>
       => /\ dialled = Asked =>
                FirstOf(clientSent) = targetGot \o up.st \o Buffered("server", "up")
                    \o decrypt(up.ls \o Buffered("local", "up")) \o up.cl
          /\ FirstOf(targetSent) = clientGot \o down.cl \o Buffered("local", "down")
                 \o decrypt(down.ls \o Buffered("server", "down")) \o down.st
    /\ dialled \in {<<>>} \cup DialsOf(script)
    /\ IsPrefix(clientGot, FirstOf(targetSent))
    /\ dialled = Asked => IsPrefix(targetGot, FirstOf(clientSent))

\* Two threads that wait for each other do so for good: not even the end of the client
\* or of the target is noticed, and the sockets stay.
GridlockIsForever == [][Gridlock => Gridlock']_tunnelVars

\* What either end sends is taken in, and when the client is gone both threads end,
\* unless they have come to wait for each other.
TunnelServes ==
    /\ nodePc.local = "select" /\ up.cl # <<>> ~> up.cl = <<>> \/ Gridlock
    /\ nearEnd.cl = "closed" ~> nodePc.local = "closed" \/ Gridlock
    /\ nodePc.local = "closed" /\ nodePc.server # "none" ~> nodePc.server = "closed"
===============================================================================
