---------------------------- MODULE TcpProxyProofs ----------------------------
(***************************************************************************)
(* Proofs about the TCP proxy, for every number of connections, chunks and *)
(* descriptors and every table size: what is received is relayed in order, *)
(* no connection is used after it was freed, and no descriptor is lost.    *)
(***************************************************************************)
EXTENDS TcpProxy, BufferListLemmas

\* The lemmas on the event table, for the table of the proxy.
T == INSTANCE AeFileEventsProofs WITH Proc <- Procs, Data <- End \cup {Listener}

Entry == [fd : Slot, mask : SUBSET Direction]

\* Connections are allocated and freed in pairs that own their descriptors.
LiveSound ==
    /\ \A e \in live : Other(e) \in live /\ e[1] <= accepted
    /\ \A e \in live : fdOf[e] \in Slot \ {ListenFd}
    /\ DescriptorsOwned

\* A registered descriptor leads to its handler and to the live struct that owns
\* it, and every live struct is registered for input.
TableOwned ==
    /\ T!TableSound(table)
    /\ table.mask[ListenFd] = {"READABLE"}
    /\ table.rproc[ListenFd] = "Proxy_AcceptTcpHandler" /\ table.data[ListenFd] = Listener
    /\ \A fd \in Slot \ {ListenFd} :
          /\ table.mask[fd] # {} => table.data[fd] \in live /\ fdOf[table.data[fd]] = fd
          /\ "READABLE" \in table.mask[fd] => table.rproc[fd] = "ReadIncome"
          /\ "WRITABLE" \in table.mask[fd] => table.wproc[fd] = "SendOutcome"
    /\ \A e \in live : "READABLE" \in table.mask[fdOf[e]]

\* An end that has buffered data is registered for output at every step, not only
\* when the loop goes to sleep.
Armed == \A e \in live : ~DataNull(blist[e]) => "WRITABLE" \in table.mask[fdOf[e]]

\* The buffer of an end holds what was received from the other end and not sent.
Buffered == \A e \in End : Holds(blist[e], sent[e], got[Other(e)])

\* A handler runs on a live connection, and accept() with one waiting.
Dispatched ==
    /\ fired \subseteq Entry /\ cur \in Entry
    /\ \A f, g \in fired : f.fd = g.fd => f = g
    /\ pc \in {"ReadIncome", "SendOutcome"} => ptr \in live
    /\ pc = "Proxy_AcceptTcpHandler" => backlog > 0 /\ \A f \in fired : f.fd # ListenFd
    /\ \A f \in fired : f.fd = ListenFd => backlog > 0
    /\ accepted + backlog <= MaxConns

\* What has not been accepted yet is untouched, and a client whose end of file was
\* seen is gone for good, with its remote.
History ==
    /\ \A e \in End : e[1] > accepted => got[e] = 0 /\ sent[e] = 0
    /\ eof \subseteq End
    /\ \A e \in eof : e[1] <= accepted
    /\ \A e \in eof : e[2] = "client" => e \notin live

\* The inductive invariant.
IndInv == TypeOK /\ LiveSound /\ TableOwned /\ Armed /\ Buffered /\ Dispatched /\ History

-------------------------------------------------------------------------------
(* The event table of the proxy *)

\* u is the table t after a handler was registered.
Created(t, u, fd, mask, proc, data) ==
    /\ T!TableSound(u)
    /\ \A x \in Slot : x # fd => u.mask[x] = t.mask[x]
    /\ \A d \in Direction : d \in u.mask[fd] <=> d \in t.mask[fd] \/ d \in mask
    /\ \A x \in Slot : u.data[x] = IF x = fd THEN data ELSE t.data[x]
    /\ \A x \in Slot : u.rproc[x] = IF x = fd /\ "READABLE" \in mask THEN proc ELSE t.rproc[x]
    /\ \A x \in Slot : u.wproc[x] = IF x = fd /\ "WRITABLE" \in mask THEN proc ELSE t.wproc[x]

\* The instance of the table lemmas speaks of the proxy's own table.
LEMMA SameTable ==
  /\ \A t, fd, mask, proc, data :
        T!aeCreateFileEvent(t, fd, mask, proc, data) = aeCreateFileEvent(t, fd, mask, proc, data)
  /\ \A t, fd, mask : T!aeDeleteFileEvent(t, fd, mask) = aeDeleteFileEvent(t, fd, mask)
  /\ T!aeCreateEventLoop = aeCreateEventLoop
  /\ T!Slot = Slot /\ T!Direction = Direction /\ T!EventTable = EventTable
  BY DEF T!aeCreateFileEvent, aeCreateFileEvent, T!aeDeleteFileEvent, aeDeleteFileEvent,
         T!HighestBelow, HighestBelow, T!aeCreateEventLoop, aeCreateEventLoop,
         T!Slot, Slot, T!Direction, Direction, T!EventTable, EventTable

\* aeDeleteFileEvent on the proxy's table, field by field.
LEMMA DeleteEffect ==
  ASSUME NEW t, T!TableSound(t), NEW fd \in Nat, NEW mask \in SUBSET Direction,
         NEW u, u = aeDeleteFileEvent(t, fd, mask)
  PROVE  /\ T!TableSound(u)
         /\ u.mask = [x \in Slot |-> IF x = fd THEN t.mask[x] \ mask ELSE t.mask[x]]
         /\ u.rproc = t.rproc /\ u.wproc = t.wproc /\ u.data = t.data
<1>1. u = T!aeDeleteFileEvent(t, fd, mask)
  BY SameTable
<1>2. mask \in SUBSET T!Direction /\ T!Slot = Slot
  BY SameTable
<1> QED
  BY <1>1, <1>2, T!DeleteEffect, ProxyTableAssumption

\* The table's fields have their types.
LEMMA TableTyped ==
  ASSUME NEW t, T!TableSound(t)
  PROVE  /\ t \in EventTable
         /\ t.mask \in [Slot -> SUBSET Direction]
         /\ \A fd \in Slot : t.interest[fd] = t.mask[fd]
         /\ t.data \in [Slot -> (End \cup {Listener}) \cup {Unset}]
         /\ t.rproc \in [Slot -> Procs \cup {Unset}]
         /\ t.wproc \in [Slot -> Procs \cup {Unset}]
<1>1. t \in EventTable /\ \A fd \in Slot : t.interest[fd] = t.mask[fd]
  BY SameTable DEF T!TableSound
<1> QED
  BY <1>1 DEF EventTable

\* aeCreateFileEvent on the proxy's table.
LEMMA CreateEffect ==
  ASSUME NEW t, T!TableSound(t), NEW fd \in Slot, NEW mask \in SUBSET Direction, mask # {},
         NEW proc \in Procs, NEW data \in End \cup {Listener},
         NEW u, u = aeCreateFileEvent(t, fd, mask, proc, data)
  PROVE  Created(t, u, fd, mask, proc, data)
<1>1. u = T!aeCreateFileEvent(t, fd, mask, proc, data)
  BY SameTable
<1>2. fd \in T!Slot /\ mask \in SUBSET T!Direction
  BY SameTable
<1>3. T!Created(t, u, fd, mask, proc, data)
  BY <1>1, <1>2, T!CreateEffect, ProxyTableAssumption
<1>4. T!Slot = Slot /\ T!Direction = Direction
  BY SameTable
<1> QED
  BY <1>3, <1>4 DEF Created, T!Created

\* Deleting both directions empties the slot of a descriptor and leaves the rest.
LEMMA UnregisterEffect ==
  ASSUME NEW t, T!TableSound(t), NEW fd \in Nat, NEW u, u = Unregister(t, fd)
  PROVE  /\ T!TableSound(u)
         /\ u.mask = [x \in Slot |-> IF x = fd THEN {} ELSE t.mask[x]]
         /\ u.rproc = t.rproc /\ u.wproc = t.wproc /\ u.data = t.data
<1>1. PICK v : v = aeDeleteFileEvent(t, fd, {"READABLE"})
  OBVIOUS
<1>2. u = aeDeleteFileEvent(v, fd, {"WRITABLE"})
  BY <1>1 DEF Unregister
<1>3. {"READABLE"} \in SUBSET Direction /\ {"WRITABLE"} \in SUBSET Direction
  BY DEF Direction
<1>4. /\ T!TableSound(v)
      /\ v.mask = [x \in Slot |-> IF x = fd THEN t.mask[x] \ {"READABLE"} ELSE t.mask[x]]
      /\ v.rproc = t.rproc /\ v.wproc = t.wproc /\ v.data = t.data
  BY <1>1, <1>3, DeleteEffect
<1>5. /\ T!TableSound(u)
      /\ u.mask = [x \in Slot |-> IF x = fd THEN v.mask[x] \ {"WRITABLE"} ELSE v.mask[x]]
      /\ u.rproc = v.rproc /\ u.wproc = v.wproc /\ u.data = v.data
  BY <1>2, <1>3, <1>4, DeleteEffect
<1>6. t.mask \in [Slot -> SUBSET Direction]
  BY TableTyped
<1>7. ASSUME NEW x \in Slot
      PROVE  u.mask[x] = IF x = fd THEN {} ELSE t.mask[x]
  BY <1>4, <1>5, <1>6 DEF Direction
<1>8. u.mask = [x \in Slot |-> u.mask[x]]
  BY <1>5
<1> QED
  BY <1>4, <1>5, <1>7, <1>8

-------------------------------------------------------------------------------
(* Ends and descriptors *)

\* c->remote of c->remote is c.
LEMMA Ends ==
  ASSUME NEW e \in End
  PROVE  /\ Other(e) \in End /\ Other(Other(e)) = e /\ Other(e) # e
         /\ e[1] \in Conn /\ Other(e)[1] = e[1]
         /\ e[2] = "client" => e = <<e[1], "client">> /\ Other(e) = <<e[1], "remote">>
         /\ e[2] # "client" => e = <<e[1], "remote">> /\ Other(e) = <<e[1], "client">>
         /\ <<e[1], "client">> \in End /\ <<e[1], "remote">> \in End
<1>1. PICK k \in Conn, d \in Side : e = <<k, d>>
  BY DEF End
<1> QED
  BY <1>1 DEF End, Side, Other

\* The kernel gives out the lowest descriptor that is free.
LEMMA LowestIsFree ==
  ASSUME NEW S, S \subseteq Fd, S # {}
  PROVE  LowestFd(S) \in S
<1>1. S \subseteq Nat
  BY ProxyTableAssumption
<1>2. PICK x \in S : \A y \in S : x <= y
  BY <1>1, T!Smallest, ProxyTableAssumption
<1> QED
  BY <1>2 DEF LowestFd

-------------------------------------------------------------------------------
(* FreeClient *)

\* FreeClient empties the slots of both ends and leaves the other connections as
\* they were: what is left is paired, owned and armed.
LEMMA FreeEffect ==
  ASSUME TypeOK, LiveSound, TableOwned, Armed, NEW k \in Conn, <<k, "client">> \in live,
         FreeClient(k), accepted' = accepted
  PROVE  LiveSound' /\ TableOwned' /\ Armed' /\ live' \subseteq live
<1> DEFINE c == <<k, "client">>
           r == <<k, "remote">>
<1>1. /\ c \in End /\ r \in End /\ Other(c) = r /\ Other(r) = c
      /\ \A e \in End : e # c /\ e # r => Other(e) # c /\ Other(e) # r
  BY Ends DEF End, Side, Other
<1>2. c \in live /\ r \in live /\ live \subseteq End
  BY <1>1 DEF LiveSound, TypeOK
<1>3. PICK cf, rf : cf = fdOf[c] /\ rf = fdOf[r]
  OBVIOUS
<1>4. cf \in Slot \ {ListenFd} /\ rf \in Slot \ {ListenFd} /\ cf \in Nat /\ rf \in Nat
  BY <1>2, <1>3 DEF LiveSound, Slot
<1>5. PICK u : u = Unregister(table, cf)
  OBVIOUS
<1>6. /\ table' = Unregister(u, rf) /\ open' = open \ {cf, rf} /\ live' = live \ {c, r}
      /\ fdOf' = fdOf /\ blist' = blist
  BY <1>3, <1>5 DEF FreeClient
<1>7. /\ T!TableSound(u)
      /\ u.mask = [x \in Slot |-> IF x = cf THEN {} ELSE table.mask[x]]
      /\ u.rproc = table.rproc /\ u.wproc = table.wproc /\ u.data = table.data
  BY <1>4, <1>5, UnregisterEffect DEF TableOwned
<1>8. /\ T!TableSound(table')
      /\ table'.mask = [x \in Slot |-> IF x = rf THEN {} ELSE u.mask[x]]
      /\ table'.rproc = u.rproc /\ table'.wproc = u.wproc /\ table'.data = u.data
  <2>1. PICK v : v = Unregister(u, rf)
    OBVIOUS
  <2>2. /\ T!TableSound(v)
        /\ v.mask = [x \in Slot |-> IF x = rf THEN {} ELSE u.mask[x]]
        /\ v.rproc = u.rproc /\ v.wproc = u.wproc /\ v.data = u.data
    <3>1. T!TableSound(u) /\ rf \in Nat
      BY <1>4, <1>7
    <3> QED
      BY <3>1, <2>1, UnregisterEffect
  <2>3. table' = v
    BY <1>6, <2>1
  <2> QED
    BY <2>2, <2>3
<1>9. /\ \A x \in Slot : table'.mask[x] = IF x \in {cf, rf} THEN {} ELSE table.mask[x]
      /\ table'.rproc = table.rproc /\ table'.wproc = table.wproc
      /\ table'.data = table.data
  BY <1>7, <1>8
<1>10. \A e \in live' : e \in live /\ fdOf'[e] = fdOf[e] /\ fdOf[e] \in Slot \ {ListenFd, cf, rf}
  <2>1. ASSUME NEW e \in live' PROVE fdOf[e] # cf /\ fdOf[e] # rf
    BY <1>2, <1>3, <1>6 DEF LiveSound, DescriptorsOwned
  <2> QED
    BY <1>6, <2>1 DEF LiveSound
<1>11. \A fd \in Slot : fd \notin {cf, rf} /\ table.mask[fd] # {} /\ fd # ListenFd
                        => table.data[fd] \in live' /\ fdOf[table.data[fd]] = fd
  BY <1>3, <1>6 DEF TableOwned
<1>12. LiveSound'
  <2>1. \A e \in live' : Other(e) \in live' /\ e[1] <= accepted'
    BY <1>1, <1>2, <1>6 DEF LiveSound
  <2>2. \A e, f \in live' : e # f => fdOf'[e] # fdOf'[f]
    BY <1>10 DEF LiveSound, DescriptorsOwned
  <2>3. open = {ListenFd} \cup {fdOf[e] : e \in live}
    BY DEF LiveSound, DescriptorsOwned
  <2>4. ASSUME NEW fd \in open' PROVE fd \in {ListenFd} \cup {fdOf'[e] : e \in live'}
    BY <1>3, <1>6, <2>3
  <2>5. ASSUME NEW fd \in {ListenFd} \cup {fdOf'[e] : e \in live'} PROVE fd \in open'
    BY <1>4, <1>6, <1>10, <2>3
  <2>6. open' = {ListenFd} \cup {fdOf'[e] : e \in live'}
    BY <2>4, <2>5
  <2> QED
    BY <1>10, <2>1, <2>2, <2>6 DEF LiveSound, DescriptorsOwned
<1>13. ListenFd \in Slot /\ ListenFd \notin {cf, rf}
  BY <1>4, ProxyTableAssumption DEF ListenFd, Slot
<1>14. TableOwned'
  <2>1. table'.mask[ListenFd] = {"READABLE"} /\ table'.rproc[ListenFd] = "Proxy_AcceptTcpHandler"
        /\ table'.data[ListenFd] = Listener
    BY <1>9, <1>13 DEF TableOwned
  <2>2. ASSUME NEW fd \in Slot \ {ListenFd}
        PROVE  /\ table'.mask[fd] # {} => table'.data[fd] \in live' /\ fdOf'[table'.data[fd]] = fd
               /\ "READABLE" \in table'.mask[fd] => table'.rproc[fd] = "ReadIncome"
               /\ "WRITABLE" \in table'.mask[fd] => table'.wproc[fd] = "SendOutcome"
    BY <1>6, <1>9, <1>11 DEF TableOwned
  <2>3. \A e \in live' : "READABLE" \in table'.mask[fdOf'[e]]
    BY <1>9, <1>10 DEF TableOwned
  <2> QED
    BY <1>8, <2>1, <2>2, <2>3 DEF TableOwned
<1>15. Armed'
  BY <1>6, <1>9, <1>10 DEF Armed
<1> QED
  BY <1>6, <1>12, <1>14, <1>15

\* c->OnError either frees the pair or only remembers to free it when it is flushed.
LEMMA ErrorEffect ==
  ASSUME TypeOK, LiveSound, TableOwned, Armed, NEW e \in live, OnError(e), accepted' = accepted
  PROVE  LiveSound' /\ TableOwned' /\ Armed' /\ live' \subseteq live /\ blist' = blist
         /\ (e[2] = "client" => e \notin live')
<1>1. /\ e[1] \in Conn
      /\ e[2] = "client" => e = <<e[1], "client">>
      /\ e[2] # "client" => Other(e) = <<e[1], "client">>
  BY Ends DEF TypeOK
<1>2. <<e[1], "client">> \in live
  BY <1>1 DEF LiveSound
<1>3. CASE FreeClient(e[1])
  <2>1. live' = live \ {<<e[1], "client">>, <<e[1], "remote">>} /\ blist' = blist
    BY <1>3 DEF FreeClient
  <2>2. LiveSound' /\ TableOwned' /\ Armed' /\ live' \subseteq live
    BY <1>1, <1>2, <1>3, FreeEffect
  <2> QED
    BY <1>1, <2>1, <2>2
<1>4. CASE e[2] # "client" /\ UNCHANGED <<table, live, fdOf, blist, open>>
  BY <1>4 DEF LiveSound, DescriptorsOwned, TableOwned, Armed
<1>5. FreeClient(e[1]) \/ (e[2] # "client" /\ UNCHANGED <<table, live, fdOf, blist, open>>)
  BY DEF OnError, CloseAfterSent
<1> QED
  BY <1>3, <1>4, <1>5

-------------------------------------------------------------------------------
(* Registering and arming *)

\* SetWriteEvent on a live end arms that end and nothing else.
LEMMA ArmEffect ==
  ASSUME TypeOK, LiveSound, TableOwned, Armed, NEW r \in live,
         table' = aeCreateFileEvent(table, fdOf[r], {"WRITABLE"}, "SendOutcome", r),
         UNCHANGED <<live, fdOf, open, accepted>>,
         \A e \in live : e # r => blist'[e] = blist[e]
  PROVE  LiveSound' /\ TableOwned' /\ Armed'
<1>1. PICK f : f = fdOf[r]
  OBVIOUS
<1>2. f \in Slot \ {ListenFd} /\ r \in End \cup {Listener} /\ {"WRITABLE"} \in SUBSET Direction
      /\ "SendOutcome" \in Procs /\ {"WRITABLE"} # {}
  BY <1>1 DEF LiveSound, TypeOK, Direction, Procs
<1>3. PICK u : u = aeCreateFileEvent(table, f, {"WRITABLE"}, "SendOutcome", r)
  OBVIOUS
<1>4. /\ T!TableSound(u)
      /\ \A x \in Slot : x # f => u.mask[x] = table.mask[x]
      /\ \A d \in Direction : d \in u.mask[f] <=> d \in table.mask[f] \/ d = "WRITABLE"
      /\ \A x \in Slot : u.data[x] = IF x = f THEN r ELSE table.data[x]
      /\ \A x \in Slot : u.rproc[x] = table.rproc[x]
      /\ \A x \in Slot : u.wproc[x] = IF x = f THEN "SendOutcome" ELSE table.wproc[x]
  <2>1. T!TableSound(table)
    BY DEF TableOwned
  <2>2. PICK mask : mask = {"WRITABLE"}
    OBVIOUS
  <2>3. u = aeCreateFileEvent(table, f, mask, "SendOutcome", r) /\ mask \in SUBSET Direction
        /\ mask # {}
    BY <1>2, <1>3, <2>2
  <2>4. Created(table, u, f, mask, "SendOutcome", r)
    BY <1>2, <2>1, <2>3, CreateEffect
  <2> QED
    BY <2>2, <2>4 DEF Created
<1>5. table' = u
  BY <1>1, <1>3
<1>8. LiveSound'
  BY DEF LiveSound, DescriptorsOwned
<1>9. ListenFd \in Slot
  BY ProxyTableAssumption DEF ListenFd, Slot
<1>10. TableOwned'
  <2>1. u.mask[ListenFd] = {"READABLE"} /\ u.rproc[ListenFd] = "Proxy_AcceptTcpHandler"
        /\ u.data[ListenFd] = Listener
    BY <1>2, <1>4, <1>9 DEF TableOwned
  <2>2. ASSUME NEW x \in Slot \ {ListenFd}
        PROVE  /\ u.mask[x] # {} => u.data[x] \in live /\ fdOf[u.data[x]] = x
               /\ "READABLE" \in u.mask[x] => u.rproc[x] = "ReadIncome"
               /\ "WRITABLE" \in u.mask[x] => u.wproc[x] = "SendOutcome"
    <3>1. CASE x = f
      <4>1. u.data[x] = r /\ u.wproc[x] = "SendOutcome" /\ u.rproc[x] = table.rproc[x]
            /\ ("READABLE" \in u.mask[x] => "READABLE" \in table.mask[x])
        BY <1>4, <3>1 DEF Direction
      <4>2. fdOf[r] = x /\ ("READABLE" \in table.mask[x] => table.rproc[x] = "ReadIncome")
        BY <1>1, <3>1 DEF TableOwned
      <4> QED
        BY <4>1, <4>2
    <3>2. CASE x # f
      <4>1. u.data[x] = table.data[x] /\ u.wproc[x] = table.wproc[x]
            /\ u.rproc[x] = table.rproc[x] /\ u.mask[x] = table.mask[x]
        BY <1>4, <3>2
      <4> QED
        BY <4>1 DEF TableOwned
    <3> QED
      BY <3>1, <3>2
  <2>3. ASSUME NEW e \in live PROVE "READABLE" \in u.mask[fdOf[e]]
    <3>1. fdOf[e] \in Slot /\ "READABLE" \in table.mask[fdOf[e]]
      BY DEF TableOwned, LiveSound
    <3>2. "READABLE" \in Direction
      BY DEF Direction
    <3>3. CASE fdOf[e] = f
      BY <1>4, <3>1, <3>2, <3>3
    <3>4. CASE fdOf[e] # f
      BY <1>4, <3>1, <3>4
    <3> QED
      BY <3>3, <3>4
  <2> QED
    <3>1. T!TableSound(table') /\ live' = live /\ fdOf' = fdOf
      BY <1>4, <1>5
    <3> QED
      BY <1>5, <2>1, <2>2, <2>3, <3>1 DEF TableOwned
<1>11. Armed'
  <2>1. ASSUME NEW e \in live, ~DataNull(blist'[e]) PROVE "WRITABLE" \in u.mask[fdOf[e]]
    <3>1. "WRITABLE" \in Direction /\ fdOf[e] \in Slot
      BY DEF Direction, LiveSound
    <3>2. CASE fdOf[e] = f
      BY <1>4, <3>1, <3>2
    <3>3. CASE fdOf[e] # f
      <4>1. "WRITABLE" \in table.mask[fdOf[e]]
        BY <1>1, <2>1, <3>3 DEF Armed
      <4> QED
        BY <1>4, <3>1, <3>3, <4>1
    <3> QED
      BY <3>2, <3>3
  <2> QED
    BY <1>5, <2>1 DEF Armed
<1> QED
  BY <1>8, <1>10, <1>11

\* Entering SendOutcome with nothing to send disarms that end only.
LEMMA DisarmEffect ==
  ASSUME TypeOK, LiveSound, TableOwned, Armed, NEW c \in live, DataNull(blist[c]),
         table' = aeDeleteFileEvent(table, fdOf[c], {"WRITABLE"}),
         UNCHANGED <<live, fdOf, open, blist, accepted>>
  PROVE  LiveSound' /\ TableOwned' /\ Armed'
<1>1. PICK f : f = fdOf[c]
  OBVIOUS
<1>2. f \in Slot \ {ListenFd} /\ f \in Nat /\ {"WRITABLE"} \in SUBSET Direction
  BY <1>1 DEF LiveSound, Slot, Direction
<1>3. PICK u : u = aeDeleteFileEvent(table, f, {"WRITABLE"})
  OBVIOUS
<1>4. /\ T!TableSound(u)
      /\ u.mask = [x \in Slot |-> IF x = f THEN table.mask[x] \ {"WRITABLE"} ELSE table.mask[x]]
      /\ u.rproc = table.rproc /\ u.wproc = table.wproc /\ u.data = table.data
  <2>1. T!TableSound(table)
    BY DEF TableOwned
  <2> QED
    BY <1>2, <1>3, <2>1, DeleteEffect
<1>5. table' = u
  BY <1>1, <1>3
<1>6. \A x \in Slot : u.mask[x] = IF x = f THEN table.mask[x] \ {"WRITABLE"} ELSE table.mask[x]
  BY <1>4
<1>7. LiveSound'
  BY DEF LiveSound, DescriptorsOwned
<1>8. ListenFd \in Slot
  BY ProxyTableAssumption DEF ListenFd, Slot
<1>9. TableOwned'
  <2>1. u.mask[ListenFd] = {"READABLE"} /\ u.rproc[ListenFd] = "Proxy_AcceptTcpHandler"
        /\ u.data[ListenFd] = Listener
    BY <1>2, <1>4, <1>6, <1>8 DEF TableOwned
  <2>2. ASSUME NEW x \in Slot \ {ListenFd}
        PROVE  /\ u.mask[x] # {} => u.data[x] \in live /\ fdOf[u.data[x]] = x
               /\ "READABLE" \in u.mask[x] => u.rproc[x] = "ReadIncome"
               /\ "WRITABLE" \in u.mask[x] => u.wproc[x] = "SendOutcome"
    <3>1. u.mask[x] \subseteq table.mask[x]
      BY <1>6
    <3> QED
      BY <1>4, <3>1 DEF TableOwned
  <2>3. ASSUME NEW e \in live PROVE "READABLE" \in u.mask[fdOf[e]]
    <3>1. fdOf[e] \in Slot /\ "READABLE" \in table.mask[fdOf[e]]
      BY DEF TableOwned, LiveSound
    <3> QED
      BY <1>6, <3>1
  <2> QED
    BY <1>4, <1>5, <2>1, <2>2, <2>3 DEF TableOwned
<1>10. Armed'
  <2>1. \A e \in live : ~DataNull(blist[e]) => "WRITABLE" \in u.mask[fdOf[e]]
    BY <1>1, <1>6 DEF Armed, LiveSound, DescriptorsOwned
  <2> QED
    BY <1>5, <2>1 DEF Armed
<1> QED
  BY <1>7, <1>9, <1>10

\* AllocClient and AllocRemote take two free descriptors, whose slots are empty, and
\* register the new pair for input; its buffers are empty.
LEMMA AllocEffect ==
  ASSUME IndInv, AllocSucceeds
  PROVE  /\ LiveSound' /\ TableOwned' /\ Armed'
         /\ live' = live \cup {<<accepted', "client">>, <<accepted', "remote">>}
<1> DEFINE c == <<accepted', "client">>
           r == <<accepted', "remote">>
<1>1. /\ accepted \in Nat /\ accepted' = accepted + 1 /\ accepted' \in Conn
      /\ FreeFds # {} /\ blist' = blist
  <2>1. pc = "Proxy_AcceptTcpHandler" /\ FreeFds # {} /\ accepted' = accepted + 1 /\ blist' = blist
    BY DEF AllocSucceeds, TakeConnection
  <2>2. backlog > 0 /\ accepted + backlog <= MaxConns /\ backlog \in Nat /\ accepted \in Nat
        /\ MaxConns \in Nat
    BY <2>1, TcpProxyAssumption DEF IndInv, Dispatched, TypeOK
  <2> QED
    BY <2>1, <2>2 DEF Conn
<1>2. PICK cf, rf : cf = LowestFd(FreeFds) /\ rf = LowestFd(FreeFds \ {cf})
  OBVIOUS
<1>3. /\ FreeFds # {cf} /\ ~CreateFails(table, rf) /\ ~CreateFails(table, cf)
      /\ table' = aeCreateFileEvent(
                      aeCreateFileEvent(table, rf, {"READABLE"}, "ReadIncome", r),
                      cf, {"READABLE"}, "ReadIncome", c)
      /\ live' = live \cup {c, r}
      /\ fdOf' = [fdOf EXCEPT ![c] = cf, ![r] = rf]
      /\ open' = open \cup {cf, rf}
  BY <1>2 DEF AllocSucceeds
<1>4. /\ c \in End /\ r \in End /\ c # r /\ Other(c) = r /\ Other(r) = c
      /\ c \notin live /\ r \notin live /\ live \subseteq End
      /\ c[1] = accepted' /\ r[1] = accepted'
  <2>1. c \in End /\ r \in End /\ c # r /\ Other(c) = r /\ Other(r) = c
        /\ c[1] = accepted' /\ r[1] = accepted'
    BY <1>1 DEF End, Side, Other
  <2>2. \A e \in live : e[1] <= accepted
    BY DEF IndInv, LiveSound
  <2>3. c \notin live /\ r \notin live
    BY <1>1, <2>1, <2>2
  <2> QED
    BY <2>1, <2>3 DEF IndInv, TypeOK
<1>5. /\ cf \in Fd /\ cf \notin open /\ rf \in Fd /\ rf \notin open /\ cf # rf
  <2>1. FreeFds \subseteq Fd /\ FreeFds \ {cf} \subseteq Fd
    BY DEF FreeFds
  <2>2. cf \in FreeFds
    BY <1>1, <1>2, <2>1, LowestIsFree
  <2>3. FreeFds \ {cf} # {}
    BY <1>3, <2>2
  <2>4. rf \in FreeFds \ {cf}
    BY <1>2, <2>1, <2>3, LowestIsFree
  <2> QED
    BY <2>2, <2>4 DEF FreeFds
<1>6. /\ cf \in Slot \ {ListenFd} /\ rf \in Slot \ {ListenFd}
      /\ \A e \in live : fdOf[e] # cf /\ fdOf[e] # rf
  <2>1. open = {ListenFd} \cup {fdOf[e] : e \in live}
    BY DEF IndInv, LiveSound, DescriptorsOwned
  <2>2. cf < SetSize /\ rf < SetSize /\ cf \in Nat /\ rf \in Nat /\ SetSize \in Nat
    BY <1>3, <1>5, ProxyTableAssumption DEF CreateFails
  <2> QED
    BY <1>5, <2>1, <2>2 DEF Slot
<1>7. T!TableSound(table) /\ table.mask[cf] = {} /\ table.mask[rf] = {}
  BY <1>6 DEF IndInv, TableOwned
<1>8. PICK half : half = aeCreateFileEvent(table, rf, {"READABLE"}, "ReadIncome", r)
  OBVIOUS
<1>9. PICK v : v = aeCreateFileEvent(half, cf, {"READABLE"}, "ReadIncome", c)
  OBVIOUS
<1>10. table' = v
  BY <1>3, <1>8, <1>9
<1>11. {"READABLE"} \in SUBSET Direction /\ {"READABLE"} # {} /\ "ReadIncome" \in Procs
       /\ c \in End \cup {Listener} /\ r \in End \cup {Listener} /\ cf \in Slot /\ rf \in Slot
  BY <1>4, <1>6 DEF Direction, Procs
<1>12. /\ T!TableSound(half)
       /\ \A x \in Slot : x # rf => half.mask[x] = table.mask[x]
       /\ \A d \in Direction : d \in half.mask[rf] <=> d \in table.mask[rf] \/ d = "READABLE"
       /\ \A x \in Slot : half.data[x] = IF x = rf THEN r ELSE table.data[x]
       /\ \A x \in Slot : half.rproc[x] = IF x = rf THEN "ReadIncome" ELSE table.rproc[x]
       /\ \A x \in Slot : half.wproc[x] = table.wproc[x]
  <2> HIDE DEF c, r
  <2>1. PICK mask : mask = {"READABLE"}
    OBVIOUS
  <2>2. half = aeCreateFileEvent(table, rf, mask, "ReadIncome", r) /\ mask \in SUBSET Direction
        /\ mask # {}
    BY <1>8, <1>11, <2>1
  <2>3. Created(table, half, rf, mask, "ReadIncome", r)
    BY <1>7, <1>11, <2>2, CreateEffect
  <2> QED
    BY <2>1, <2>3 DEF Created
<1>13. /\ T!TableSound(v)
       /\ \A x \in Slot : x # cf => v.mask[x] = half.mask[x]
       /\ \A d \in Direction : d \in v.mask[cf] <=> d \in half.mask[cf] \/ d = "READABLE"
       /\ \A x \in Slot : v.data[x] = IF x = cf THEN c ELSE half.data[x]
       /\ \A x \in Slot : v.rproc[x] = IF x = cf THEN "ReadIncome" ELSE half.rproc[x]
       /\ \A x \in Slot : v.wproc[x] = half.wproc[x]
  <2> HIDE DEF c, r
  <2>1. PICK mask : mask = {"READABLE"}
    OBVIOUS
  <2>2. v = aeCreateFileEvent(half, cf, mask, "ReadIncome", c) /\ mask \in SUBSET Direction
        /\ mask # {} /\ T!TableSound(half)
    BY <1>9, <1>11, <1>12, <2>1
  <2>3. Created(half, v, cf, mask, "ReadIncome", c)
    BY <1>11, <2>2, CreateEffect
  <2> QED
    BY <2>1, <2>3 DEF Created
<1>14. half.mask[cf] = {}
  BY <1>5, <1>7, <1>11, <1>12
<1>15. /\ \A x \in Slot : v.mask[x] = IF x \in {cf, rf} THEN {"READABLE"} ELSE table.mask[x]
       /\ \A x \in Slot : x \notin {cf, rf} => v.data[x] = table.data[x] /\ v.rproc[x] = table.rproc[x]
       /\ \A x \in Slot : v.wproc[x] = table.wproc[x]
       /\ v.data[cf] = c /\ v.data[rf] = r
       /\ v.rproc[cf] = "ReadIncome" /\ v.rproc[rf] = "ReadIncome"
  <2> HIDE DEF c, r
  <2>1. \A x \in Slot : v.mask[x] = IF x \in {cf, rf} THEN {"READABLE"} ELSE table.mask[x]
    <3>1. v.mask \in [Slot -> SUBSET Direction] /\ half.mask \in [Slot -> SUBSET Direction]
      BY <1>12, <1>13, TableTyped
    <3>2. half.mask[rf] = {"READABLE"}
      BY <1>7, <1>11, <1>12, <3>1
    <3>3. v.mask[cf] = {"READABLE"}
      BY <1>11, <1>13, <1>14, <3>1
    <3>4. v.mask[rf] = half.mask[rf]
      BY <1>5, <1>11, <1>13
    <3>5. ASSUME NEW x \in Slot, x # cf, x # rf PROVE v.mask[x] = table.mask[x]
      BY <1>12, <1>13, <3>5
    <3> QED
      BY <3>2, <3>3, <3>4, <3>5
  <2>2. /\ \A x \in Slot : x \notin {cf, rf} => v.data[x] = table.data[x] /\ v.rproc[x] = table.rproc[x]
        /\ \A x \in Slot : v.wproc[x] = table.wproc[x]
    BY <1>12, <1>13
  <2>3. v.data[cf] = c /\ v.data[rf] = r /\ v.rproc[cf] = "ReadIncome" /\ v.rproc[rf] = "ReadIncome"
    BY <1>5, <1>11, <1>12, <1>13
  <2> QED
    BY <2>1, <2>2, <2>3
<1>16. /\ fdOf' \in [End -> Fd] /\ fdOf'[c] = cf /\ fdOf'[r] = rf
       /\ \A e \in live : fdOf'[e] = fdOf[e]
  <2>1. fdOf \in [End -> Fd]
    BY DEF IndInv, TypeOK
  <2> HIDE DEF c, r
  <2> QED
    BY <1>3, <1>4, <1>5, <2>1
<1>17. \A e \in live' : e \in live \/ e = c \/ e = r
  BY <1>3
<1> HIDE DEF c, r
<1>18. LiveSound'
  <2>1. \A e \in live' : Other(e) \in live' /\ e[1] <= accepted'
    <3>1. \A e \in live : Other(e) \in live /\ e[1] <= accepted /\ e[1] \in Nat
      <4>1. ASSUME NEW e \in live PROVE e[1] \in Nat
        <5>1. e \in End
          BY <1>4
        <5>2. e[1] \in Conn
          BY <5>1, Ends
        <5> QED
          BY <5>2, TcpProxyAssumption DEF Conn
      <4> QED
        BY <4>1 DEF IndInv, LiveSound
    <3> QED
      BY <1>1, <1>3, <1>4, <3>1
  <2>2. \A e \in live' : fdOf'[e] \in Slot \ {ListenFd}
    BY <1>6, <1>16, <1>17 DEF IndInv, LiveSound
  <2>3. ASSUME NEW e \in live', NEW f \in live', e # f PROVE fdOf'[e] # fdOf'[f]
    <3>1. CASE e \in live /\ f \in live
      BY <1>16, <2>3, <3>1 DEF IndInv, LiveSound, DescriptorsOwned
    <3>2. CASE ~(e \in live /\ f \in live)
      BY <1>5, <1>6, <1>16, <1>17, <2>3, <3>2
    <3> QED
      BY <3>1, <3>2
  <2>4. open = {ListenFd} \cup {fdOf[e] : e \in live}
    BY DEF IndInv, LiveSound, DescriptorsOwned
  <2>5. ASSUME NEW x \in open' PROVE x \in {ListenFd} \cup {fdOf'[e] : e \in live'}
    BY <1>3, <1>16, <2>4, <2>5
  <2>6. ASSUME NEW x \in {ListenFd} \cup {fdOf'[e] : e \in live'} PROVE x \in open'
    <3>1. x = ListenFd \/ \E e \in live' : x = fdOf'[e]
      BY <2>6
    <3> QED
      BY <1>3, <1>16, <1>17, <2>4, <3>1
  <2>7. open' = {ListenFd} \cup {fdOf'[e] : e \in live'}
    BY <2>5, <2>6
  <2> QED
    BY <2>1, <2>2, <2>3, <2>7 DEF LiveSound, DescriptorsOwned
<1>19. TableOwned'
  <2>1. ListenFd \in Slot
    BY ProxyTableAssumption DEF ListenFd, Slot
  <2>2. v.mask[ListenFd] = {"READABLE"} /\ v.rproc[ListenFd] = "Proxy_AcceptTcpHandler"
        /\ v.data[ListenFd] = Listener
    BY <1>6, <1>15, <2>1 DEF IndInv, TableOwned
  <2>3. ASSUME NEW x \in Slot \ {ListenFd}
        PROVE  /\ v.mask[x] # {} => v.data[x] \in live' /\ fdOf'[v.data[x]] = x
               /\ "READABLE" \in v.mask[x] => v.rproc[x] = "ReadIncome"
               /\ "WRITABLE" \in v.mask[x] => v.wproc[x] = "SendOutcome"
    <3>1. CASE x \in {cf, rf}
      <4>1. v.mask[x] = {"READABLE"} /\ v.rproc[x] = "ReadIncome"
        BY <1>15, <3>1
      <4>2. v.data[x] \in live' /\ fdOf'[v.data[x]] = x
        BY <1>3, <1>15, <1>16, <3>1
      <4> QED
        BY <4>1, <4>2
    <3>2. CASE x \notin {cf, rf}
      <4>1. v.mask[x] = table.mask[x] /\ v.data[x] = table.data[x]
            /\ v.rproc[x] = table.rproc[x] /\ v.wproc[x] = table.wproc[x]
        BY <1>15, <3>2
      <4>2. table.mask[x] # {} => table.data[x] \in live /\ fdOf[table.data[x]] = x
        BY DEF IndInv, TableOwned
      <4>3. /\ "READABLE" \in table.mask[x] => table.rproc[x] = "ReadIncome"
            /\ "WRITABLE" \in table.mask[x] => table.wproc[x] = "SendOutcome"
        BY DEF IndInv, TableOwned
      <4> QED
        BY <1>3, <1>16, <4>1, <4>2, <4>3
    <3> QED
      BY <3>1, <3>2
  <2>4. ASSUME NEW e \in live' PROVE "READABLE" \in v.mask[fdOf'[e]]
    <3>1. CASE e \in live
      <4>1. fdOf[e] \in Slot /\ "READABLE" \in table.mask[fdOf[e]] /\ fdOf[e] \notin {cf, rf}
        BY <1>6, <3>1 DEF IndInv, TableOwned, LiveSound
      <4> QED
        BY <1>15, <1>16, <3>1, <4>1
    <3>2. CASE e \notin live
      BY <1>11, <1>15, <1>16, <1>17, <3>2
    <3> QED
      BY <3>1, <3>2
  <2>5. T!TableSound(table')
    BY <1>10, <1>13
  <2> QED
    BY <1>10, <2>2, <2>3, <2>4, <2>5 DEF TableOwned
<1>20. Armed'
  <2>1. DataNull(blist[c]) /\ DataNull(blist[r])
    <3>1. sent[c] = 0 /\ got[c] = 0 /\ sent[r] = 0 /\ got[r] = 0
      BY <1>1, <1>4 DEF IndInv, History
    <3>2. Holds(blist[c], 0, 0) /\ Holds(blist[r], 0, 0)
      BY <1>4, <3>1 DEF IndInv, Buffered
    <3> QED
      BY <3>2, NullIsEmpty
  <2>2. ASSUME NEW e \in live', ~DataNull(blist[e]) PROVE "WRITABLE" \in v.mask[fdOf'[e]]
    <3>1. e \in live
      BY <1>17, <2>1, <2>2
    <3>2. fdOf[e] \in Slot /\ "WRITABLE" \in table.mask[fdOf[e]] /\ fdOf[e] \notin {cf, rf}
      BY <1>6, <2>2, <3>1 DEF IndInv, Armed, LiveSound
    <3> QED
      BY <1>15, <1>16, <3>1, <3>2
  <2> QED
    BY <1>1, <1>10, <2>2 DEF Armed
<1> QED
  BY <1>3, <1>18, <1>19, <1>20 DEF c, r

-------------------------------------------------------------------------------
(* The steps of the proxy *)

\* A handler runs on an end whose struct and whose remote's struct are live.
LEMMA Running ==
  ASSUME IndInv, pc \in {"ReadIncome", "SendOutcome"}
  PROVE  /\ ptr \in live /\ Other(ptr) \in live /\ ptr \in End /\ Other(ptr) \in End
         /\ Other(Other(ptr)) = ptr /\ Other(ptr) # ptr
         /\ ptr[1] \in Conn /\ ptr[1] <= accepted
         /\ ptr[2] = "client" => ptr = <<ptr[1], "client">>
<1>1. ptr \in live
  BY DEF IndInv, Dispatched
<1>2. ptr \in End
  BY <1>1 DEF IndInv, TypeOK
<1> QED
  BY <1>1, <1>2, Ends DEF IndInv, LiveSound

\* Every step keeps the connections paired, their descriptors owned, the table
\* leading to live structs only, and the ends with buffered data armed.
LEMMA OwnedStep ==
  ASSUME IndInv, [Next]_vars
  PROVE  LiveSound' /\ TableOwned' /\ Armed'
<1> USE DEF IndInv
<1>1. CASE UNCHANGED <<table, live, fdOf, open, blist, accepted>>
  BY <1>1 DEF LiveSound, DescriptorsOwned, TableOwned, Armed
<1>2. CASE DispatchWritable
  <2>1. PICK fd, c : fd = cur.fd /\ c = table.data[fd]
    OBVIOUS
  <2>2. CASE UNCHANGED table
    BY <1>1, <1>2, <2>2 DEF DispatchWritable, netVars
  <2>3. CASE /\ "WRITABLE" \in table.mask[fd] /\ DataNull(blist[c])
             /\ table' = aeDeleteFileEvent(table, fd, {"WRITABLE"})
    <3>1. fd \in Slot
      BY <2>1 DEF Dispatched, Entry
    <3>2. fd # ListenFd
      BY <2>3 DEF TableOwned
    <3>3. c \in live /\ fdOf[c] = fd
      BY <2>1, <2>3, <3>1, <3>2 DEF TableOwned
    <3>4. UNCHANGED <<live, fdOf, open, blist, accepted>>
      BY <1>2 DEF DispatchWritable, netVars
    <3> QED
      BY <2>3, <3>3, <3>4, DisarmEffect
  <2> QED
    BY <1>2, <2>1, <2>2, <2>3 DEF DispatchWritable
<1>3. CASE ReadSome
  <2>1. PICK r : r = Other(ptr)
    OBVIOUS
  <2>2. r \in live
    BY <1>3, <2>1, Running DEF ReadSome
  <2>3. /\ table' = aeCreateFileEvent(table, fdOf[r], {"WRITABLE"}, "SendOutcome", r)
        /\ UNCHANGED <<live, fdOf, open, accepted>>
    BY <1>3, <2>1 DEF ReadSome
  <2>4. \A e \in live : e # r => blist'[e] = blist[e]
    <3>1. PICK k : blist' = [blist EXCEPT ![r] = BufferListPush(StoreBytes(@, got[ptr], k), k)]
      BY <1>3, <2>1 DEF ReadSome
    <3> QED
      BY <3>1 DEF TypeOK
  <2> QED
    BY <2>2, <2>3, <2>4, ArmEffect
<1>4. CASE ReadZero \/ ReadError \/ SendError
  <2>1. OnError(ptr) /\ accepted' = accepted /\ pc \in {"ReadIncome", "SendOutcome"}
    BY <1>4 DEF ReadZero, ReadError, SendError
  <2>2. ptr \in live
    BY <2>1, Running
  <2> QED
    BY <2>1, <2>2, ErrorEffect
<1>5. CASE SendDrained
  <2>1. accepted' = accepted /\ pc \in {"ReadIncome", "SendOutcome"}
    BY <1>5 DEF SendDrained
  <2>2. CASE ptr[2] = "client" /\ FreeClient(ptr[1])
    BY <2>1, <2>2, Running, FreeEffect
  <2>3. CASE UNCHANGED procVars
    BY <1>1, <2>1, <2>3 DEF procVars
  <2> QED
    BY <1>5, <2>2, <2>3 DEF SendDrained
<1>6. CASE SendSome
  <2>1. PICK k \in 1 .. DataLen(Source) : blist' = [blist EXCEPT ![ptr] = BufferListPop(@, k)]
    BY <1>6 DEF SendSome
  <2>2. UNCHANGED <<table, live, fdOf, open, accepted>>
    BY <1>6 DEF SendSome
  <2>3. ~DataNull(blist[ptr])
    BY <2>1 DEF Source, DataLen
  <2>4. Armed'
    BY <2>1, <2>2, <2>3 DEF Armed, TypeOK
  <2> QED
    BY <2>2, <2>4 DEF LiveSound, DescriptorsOwned, TableOwned
<1>7. CASE AllocFails
  <2>1. UNCHANGED <<table, live, fdOf, open, blist>> /\ accepted' = accepted + 1 /\ accepted \in Nat
    BY <1>7 DEF AllocFails, TakeConnection, TypeOK
  <2>2. \A e \in live : e[1] \in Nat
    <3>1. ASSUME NEW e \in live PROVE e[1] \in Conn
      BY Ends DEF TypeOK
    <3> QED
      BY <3>1, TcpProxyAssumption DEF Conn
  <2>3. \A e \in live : Other(e) \in live /\ e[1] <= accepted'
    BY <2>1, <2>2 DEF LiveSound
  <2> QED
    BY <2>1, <2>3 DEF LiveSound, DescriptorsOwned, TableOwned, Armed
<1>8. CASE AllocSucceeds
  BY <1>8, AllocEffect
<1>9. CASE \/ aeApiPoll \/ DispatchReadable \/ DispatchDone \/ ReadReturns
           \/ SendBlocked \/ AcceptFails \/ Environment \/ UNCHANGED vars
  <2>1. UNCHANGED <<table, live, fdOf, open, blist, accepted>>
    BY <1>9 DEF aeApiPoll, DispatchReadable, DispatchDone, ReadReturns, SendBlocked, AcceptFails,
                Environment, ClientConnects, ConnectCompletes, ConnectRefused, PeerSends,
                PeerReads, PeerCloses, PeerResets, vars, procVars, netVars
  <2> QED
    BY <1>1, <2>1
<1> QED
  BY <1>2, <1>3, <1>4, <1>5, <1>6, <1>7, <1>8, <1>9 DEF Next, Loop

\* BufferListGetSpace offers at most a chunk.
LEMMA SpaceBounded ==
  ASSUME NEW b \in Buffer
  PROVE  SpaceLen(b) \in 0 .. ChunkSize
<1>1. b.nodes[b.write_node].size \in 0 .. ChunkSize /\ ChunkSize \in Nat
  BY BufferListAssumption DEF Buffer, Node
<1> QED
  BY <1>1 DEF SpaceLen, WriteNode

\* Only ReadSome and SendSome touch a buffer or a count of bytes.
LEMMA QuietBuffers ==
  ASSUME [Next]_vars, ~ReadSome, ~SendSome
  PROVE  UNCHANGED <<blist, got, sent>>
<1>1. CASE ReadZero \/ ReadError \/ SendDrained \/ SendError
  BY <1>1 DEF ReadZero, ReadError, SendDrained, SendError, OnError, CloseAfterSent, FreeClient, procVars
<1>2. CASE \/ aeApiPoll \/ DispatchReadable \/ DispatchWritable \/ DispatchDone \/ ReadReturns
           \/ SendBlocked \/ AcceptFails \/ AllocFails \/ AllocSucceeds \/ Environment
           \/ UNCHANGED vars
  BY <1>2 DEF aeApiPoll, DispatchReadable, DispatchWritable, DispatchDone, ReadReturns, SendBlocked,
              AcceptFails, AllocFails, AllocSucceeds, TakeConnection,
              Environment, ClientConnects, ConnectCompletes, ConnectRefused, PeerSends,
              PeerReads, PeerCloses, PeerResets, vars, procVars, netVars
<1> QED
  BY <1>1, <1>2 DEF Next, Loop

\* recv() and BufferListPush append to the buffer of the other end; send() and
\* BufferListPop take from the buffer of the end: every buffer keeps holding what
\* was received and not sent.
LEMMA BufferedStep ==
  ASSUME IndInv, [Next]_vars
  PROVE  Buffered' /\ blist' \in [End -> Buffer] /\ got' \in [End -> Nat] /\ sent' \in [End -> Nat]
<1> USE DEF IndInv
<1>1. blist \in [End -> Buffer] /\ got \in [End -> Nat] /\ sent \in [End -> Nat]
      /\ avail \in [End -> Nat]
  BY DEF TypeOK
<1>2. CASE ReadSome
  <2>1. PICK r : r = Other(ptr)
    OBVIOUS
  <2>2. /\ ptr \in End /\ r \in End /\ Other(r) = ptr /\ ~SpaceNull(blist[r])
    BY <1>2, <2>1, Running DEF ReadSome, Sink
  <2>3. PICK k \in 1 .. SpaceLen(blist[r]) :
            /\ blist' = [blist EXCEPT ![r] = BufferListPush(StoreBytes(@, got[ptr], k), k)]
            /\ got' = [got EXCEPT ![ptr] = @ + k]
            /\ sent' = sent
    BY <1>2, <2>1 DEF ReadSome, Sink
  <2>4. k \in 1 .. ChunkSize /\ k <= SpaceLen(blist[r]) /\ k \in Nat
    <3>1. PICK n : n = SpaceLen(blist[r])
      OBVIOUS
    <3>2. n \in 0 .. ChunkSize /\ k \in 1 .. n /\ ChunkSize \in Nat
      BY <1>1, <2>2, <2>3, <3>1, SpaceBounded, BufferListAssumption
    <3>3. k \in 1 .. ChunkSize /\ k <= n /\ k \in Nat
      BY <3>2
    <3> QED
      BY <3>1, <3>3
  <2>5. Holds(blist[r], sent[r], got[ptr])
    BY <2>2 DEF Buffered
  <2>6. Holds(BufferListPush(StoreBytes(blist[r], got[ptr], k), k), sent[r], got[ptr] + k)
    BY <2>2, <2>4, <2>5, PushHolds
  <2>7. /\ blist'[r] = BufferListPush(StoreBytes(blist[r], got[ptr], k), k)
        /\ got'[ptr] = got[ptr] + k
        /\ \A e \in End : (e # r => blist'[e] = blist[e]) /\ (e # ptr => got'[e] = got[e])
    BY <1>1, <2>2, <2>3
  <2>8. ASSUME NEW e \in End PROVE Holds(blist'[e], sent'[e], got'[Other(e)])
    <3>1. CASE e = r
      BY <2>2, <2>3, <2>6, <2>7, <3>1
    <3>2. CASE e # r
      <4>1. Other(e) \in End /\ Other(e) # ptr
        BY <2>1, <3>2, Ends
      <4> QED
        BY <2>3, <2>7, <3>2, <4>1 DEF Buffered
    <3> QED
      BY <3>1, <3>2
  <2>9. blist'[r] \in Buffer
    BY <2>6, <2>7 DEF Holds
  <2>10. blist' \in [End -> Buffer]
    BY <1>1, <2>2, <2>3, <2>7, <2>9
  <2> QED
    BY <1>1, <2>2, <2>3, <2>4, <2>8, <2>10 DEF Buffered
<1>3. CASE SendSome
  <2>1. ptr \in End
    BY <1>3, Running DEF SendSome
  <2>2. PICK k \in 1 .. DataLen(blist[ptr]) :
            /\ blist' = [blist EXCEPT ![ptr] = BufferListPop(@, k)]
            /\ sent' = [sent EXCEPT ![ptr] = @ + k]
            /\ got' = got
    BY <1>3 DEF SendSome, Source
  <2>3. Holds(blist[ptr], sent[ptr], got[Other(ptr)])
    BY <2>1 DEF Buffered
  <2>4. k \in 1 .. ChunkSize /\ k <= DataLen(blist[ptr]) /\ k \in Nat /\ ~DataNull(blist[ptr])
    <3>1. PICK n : n = DataLen(blist[ptr])
      OBVIOUS
    <3>2. n \in 0 .. ChunkSize /\ k \in 1 .. n /\ ChunkSize \in Nat
      BY <2>2, <2>3, <3>1, NullIsEmpty, BufferListAssumption
    <3>3. k \in 1 .. ChunkSize /\ k <= n /\ k \in Nat
      BY <3>2
    <3>4. ~DataNull(blist[ptr])
      BY <2>2 DEF DataLen
    <3> QED
      BY <3>1, <3>3, <3>4
  <2>5. Holds(BufferListPop(blist[ptr], k), sent[ptr] + k, got[Other(ptr)])
    BY <2>3, <2>4, PopHolds
  <2>6. /\ blist'[ptr] = BufferListPop(blist[ptr], k)
        /\ sent'[ptr] = sent[ptr] + k
        /\ \A e \in End : e # ptr => blist'[e] = blist[e] /\ sent'[e] = sent[e]
    BY <1>1, <2>1, <2>2
  <2>7. ASSUME NEW e \in End PROVE Holds(blist'[e], sent'[e], got'[Other(e)])
    <3>1. CASE e = ptr
      BY <2>2, <2>5, <2>6, <3>1
    <3>2. CASE e # ptr
      BY <2>2, <2>6, <3>2 DEF Buffered
    <3> QED
      BY <3>1, <3>2
  <2>8. blist'[ptr] \in Buffer
    BY <2>5, <2>6 DEF Holds
  <2>9. blist' \in [End -> Buffer]
    BY <1>1, <2>1, <2>2, <2>6, <2>8
  <2> QED
    BY <1>1, <2>1, <2>2, <2>4, <2>7, <2>9 DEF Buffered
<1>4. CASE ~ReadSome /\ ~SendSome
  BY <1>1, <1>4, QuietBuffers DEF Buffered
<1> QED
  BY <1>2, <1>3, <1>4

\* When a handler returns the loop is between two calls.
LEMMA ReturnedIsIdle == Returned \in {"dispatch", "writable?"}
  BY DEF Returned

\* aeApiPoll reports each descriptor once, and the listening one only when a
\* connection waits; a handler is entered on the live struct its descriptor belongs
\* to, whatever earlier entries of the batch freed or accepted.
LEMMA DispatchedStep ==
  ASSUME IndInv, [Next]_vars
  PROVE  Dispatched'
<1> USE DEF IndInv
<1>1. backlog \in Nat /\ accepted \in Nat /\ MaxConns \in Nat
  BY TcpProxyAssumption DEF TypeOK
<1>2. CASE aeApiPoll
  <2>1. /\ fired' = {[fd |-> fd, mask |-> table.interest[fd] \cap Ready(fd)] :
                         fd \in {x \in Slot : table.interest[x] \cap Ready(x) # {}}}
        /\ pc' = "dispatch" /\ UNCHANGED <<live, backlog, accepted, cur, ptr>>
    BY <1>2 DEF aeApiPoll, procVars, netVars
  <2>2. ASSUME NEW f \in fired'
        PROVE  /\ f \in Entry /\ f = [fd |-> f.fd, mask |-> table.interest[f.fd] \cap Ready(f.fd)]
               /\ f.fd = ListenFd => backlog > 0
    <3>1. PICK fd \in Slot : f = [fd |-> fd, mask |-> table.interest[fd] \cap Ready(fd)]
                             /\ table.interest[fd] \cap Ready(fd) # {}
      BY <2>1, <2>2
    <3>2. f.fd = fd
      BY <3>1
    <3>3. table.interest[fd] \cap Ready(fd) \in SUBSET Direction
      BY <3>1 DEF TypeOK, EventTable
    <3>4. f \in Entry
      BY <3>1, <3>3 DEF Entry
    <3>5. fd = ListenFd => backlog > 0
      BY <3>1 DEF Ready
    <3> QED
      BY <3>1, <3>2, <3>4, <3>5
  <2>3. \A f, g \in fired' : f.fd = g.fd => f = g
    BY <2>2
  <2> QED
    BY <2>1, <2>2, <2>3 DEF Dispatched
<1>3. CASE DispatchReadable
  <2>1. PICK e \in fired :
            /\ cur' = e /\ fired' = fired \ {e}
            /\ rfired' = ("READABLE" \in table.mask[e.fd] \cap e.mask)
            /\ pc' = IF rfired' THEN table.rproc[e.fd] ELSE "writable?"
            /\ ptr' = IF rfired' THEN table.data[e.fd] ELSE ptr
    BY <1>3 DEF DispatchReadable
  <2>2. UNCHANGED <<live, backlog, accepted>>
    BY <1>3 DEF DispatchReadable, procVars, netVars
  <2>3. e \in Entry /\ e.fd \in Slot /\ fired' \subseteq Entry /\ cur' \in Entry
    BY <2>1 DEF Dispatched, Entry
  <2>4. \A f, g \in fired' : f.fd = g.fd => f = g
    BY <2>1 DEF Dispatched
  <2>5. \A f \in fired' : f.fd = ListenFd => backlog > 0
    BY <2>1 DEF Dispatched
  <2>6. CASE ~rfired'
    BY <2>1, <2>2, <2>3, <2>4, <2>5, <2>6 DEF Dispatched
  <2>7. CASE rfired' /\ e.fd = ListenFd
    <3>1. pc' = "Proxy_AcceptTcpHandler" /\ backlog > 0
      BY <2>1, <2>7 DEF TableOwned, Dispatched
    <3>2. \A f \in fired' : f.fd # ListenFd
      BY <2>1, <2>7 DEF Dispatched
    <3> QED
      BY <2>2, <2>3, <2>4, <2>5, <3>1, <3>2 DEF Dispatched
  <2>8. CASE rfired' /\ e.fd # ListenFd
    <3>1. "READABLE" \in table.mask[e.fd]
      BY <2>1, <2>8
    <3>2. table.rproc[e.fd] = "ReadIncome" /\ table.data[e.fd] \in live
      BY <2>3, <2>8, <3>1 DEF TableOwned
    <3>3. pc' = "ReadIncome" /\ ptr' \in live
      BY <2>1, <2>8, <3>2
    <3> QED
      BY <2>2, <2>3, <2>4, <2>5, <3>3 DEF Dispatched
  <2> QED
    BY <2>6, <2>7, <2>8
<1>4. CASE DispatchWritable
  <2>1. UNCHANGED <<live, backlog, accepted, fired, cur>>
    BY <1>4 DEF DispatchWritable, netVars
  <2>2. PICK fd : fd = cur.fd
    OBVIOUS
  <2>3. CASE pc' = "dispatch"
    BY <2>1, <2>3 DEF Dispatched
  <2>4. CASE "WRITABLE" \in table.mask[fd] /\ pc' = table.wproc[fd] /\ ptr' = table.data[fd]
    <3>1. fd \in Slot /\ fd # ListenFd
      BY <2>2, <2>4 DEF Dispatched, Entry, TableOwned
    <3>2. table.wproc[fd] = "SendOutcome" /\ table.data[fd] \in live
      BY <2>4, <3>1 DEF TableOwned
    <3> QED
      BY <2>1, <2>4, <3>2 DEF Dispatched
  <2> QED
    BY <1>4, <2>2, <2>3, <2>4 DEF DispatchWritable
<1>5. CASE DispatchDone
  <2>1. /\ pc' = "epoll_wait" /\ cur' = NoEntry
        /\ UNCHANGED <<live, backlog, accepted, fired>>
    BY <1>5 DEF DispatchDone, procVars, netVars
  <2>2. NoEntry \in Entry
    BY ProxyTableAssumption DEF NoEntry, Entry, ListenFd, Slot
  <2> QED
    BY <2>1, <2>2 DEF Dispatched
<1>6. CASE ReadSome \/ SendSome
  BY <1>6 DEF ReadSome, SendSome, loopVars, Dispatched
<1>7. CASE AllocFails \/ AllocSucceeds
  <2>1. /\ pc = "Proxy_AcceptTcpHandler" /\ pc' = Returned /\ UNCHANGED <<fired, cur>>
        /\ accepted' = accepted + 1 /\ backlog' = backlog - 1
    BY <1>7 DEF AllocFails, AllocSucceeds, TakeConnection
  <2>2. pc' \in {"dispatch", "writable?"}
    BY <2>1, ReturnedIsIdle
  <2>3. /\ \A f \in fired : f.fd # ListenFd
        /\ accepted' + backlog' <= MaxConns
    BY <1>1, <2>1 DEF Dispatched
  <2> QED
    BY <2>1, <2>2, <2>3 DEF Dispatched
<1>8. CASE \/ ReadReturns \/ ReadZero \/ ReadError \/ SendDrained \/ SendBlocked \/ SendError
           \/ AcceptFails
  <2>1. pc' = Returned /\ UNCHANGED <<fired, cur, backlog, accepted>>
    BY <1>8 DEF ReadReturns, ReadZero, ReadError, SendDrained, SendBlocked, SendError, AcceptFails,
                netVars
  <2>2. pc' \in {"dispatch", "writable?"}
    BY <2>1, ReturnedIsIdle
  <2> QED
    BY <2>1, <2>2 DEF Dispatched
<1>9. CASE ClientConnects
  <2>1. /\ accepted + backlog < MaxConns /\ backlog' = backlog + 1
        /\ UNCHANGED <<live, accepted, pc, fired, cur, ptr>>
    BY <1>9 DEF ClientConnects, procVars, loopVars
  <2> QED
    BY <1>1, <2>1 DEF Dispatched
<1>10. CASE UNCHANGED <<live, backlog, accepted, pc, fired, cur, ptr>>
  BY <1>10 DEF Dispatched
<1>11. CASE \/ UNCHANGED vars
            \/ \E e \in End : \/ ConnectCompletes(e) \/ ConnectRefused(e)
                              \/ PeerSends(e) \/ PeerReads(e) \/ PeerCloses(e) \/ PeerResets(e)
  <2>1. UNCHANGED <<live, backlog, accepted, pc, fired, cur, ptr>>
    BY <1>11 DEF ConnectCompletes, ConnectRefused, PeerSends, PeerReads, PeerCloses, PeerResets,
                 vars, procVars, loopVars, netVars
  <2> QED
    BY <1>10, <2>1
<1> QED
  BY <1>2, <1>3, <1>4, <1>5, <1>6, <1>7, <1>8, <1>9, <1>11 DEF Next, Loop, Environment

\* Only AllocClient and AllocRemote make structs, for the connection just accepted.
LEMMA LiveGrowth ==
  ASSUME IndInv, [Next]_vars
  PROVE  /\ accepted' \in {accepted, accepted + 1}
         /\ \A e \in live' : e \in live \/ (e \in End /\ e[1] = accepted' /\ accepted' = accepted + 1)
<1>1. CASE ReadZero \/ ReadError \/ SendDrained \/ SendError
  <2>1. accepted' = accepted
    BY <1>1 DEF ReadZero, ReadError, SendDrained, SendError
  <2>2. live' \subseteq live
    BY <1>1 DEF ReadZero, ReadError, SendDrained, SendError, OnError, CloseAfterSent,
                FreeClient, procVars
  <2> QED
    BY <2>1, <2>2
<1>2. CASE AllocFails
  BY <1>2 DEF AllocFails, TakeConnection
<1>3. CASE AllocSucceeds
  <2>1. accepted' = accepted + 1 /\ accepted' \in Conn
    <3>1. pc = "Proxy_AcceptTcpHandler" /\ accepted' = accepted + 1
      BY <1>3 DEF AllocSucceeds, TakeConnection
    <3>2. backlog > 0 /\ accepted + backlog <= MaxConns /\ backlog \in Nat /\ accepted \in Nat
          /\ MaxConns \in Nat
      BY <3>1, TcpProxyAssumption DEF IndInv, Dispatched, TypeOK
    <3> QED
      BY <3>1, <3>2 DEF Conn
  <2>2. live' = live \cup {<<accepted', "client">>, <<accepted', "remote">>}
    BY <1>3, AllocEffect
  <2>3. /\ <<accepted', "client">> \in End /\ <<accepted', "remote">> \in End
        /\ <<accepted', "client">>[1] = accepted' /\ <<accepted', "remote">>[1] = accepted'
    BY <2>1 DEF End, Side
  <2> QED
    BY <2>1, <2>2, <2>3
<1>4. CASE \/ aeApiPoll \/ DispatchReadable \/ DispatchWritable \/ DispatchDone \/ ReadReturns
           \/ ReadSome \/ SendSome \/ SendBlocked \/ AcceptFails \/ Environment \/ UNCHANGED vars
  <2>1. live' = live /\ accepted' = accepted
    BY <1>4 DEF aeApiPoll, DispatchReadable, DispatchWritable, DispatchDone, ReadReturns, ReadSome,
                SendSome, SendBlocked, AcceptFails,
                Environment, ClientConnects, ConnectCompletes, ConnectRefused, PeerSends,
                PeerReads, PeerCloses, PeerResets, vars, procVars, netVars
  <2> QED
    BY <2>1
<1> QED
  BY <1>1, <1>2, <1>3, <1>4 DEF Next, Loop

\* Bytes are counted for live ends only.
LEMMA CountsLive ==
  ASSUME IndInv, [Next]_vars, NEW e \in End, e \notin live
  PROVE  got'[e] = got[e] /\ sent'[e] = sent[e]
<1>1. got \in [End -> Nat] /\ sent \in [End -> Nat]
  BY DEF IndInv, TypeOK
<1>2. CASE ReadSome
  <2>1. ptr \in live
    BY <1>2, Running DEF ReadSome
  <2>2. PICK k : got' = [got EXCEPT ![ptr] = @ + k] /\ sent' = sent
    BY <1>2 DEF ReadSome
  <2> QED
    BY <1>1, <2>1, <2>2
<1>3. CASE SendSome
  <2>1. ptr \in live
    BY <1>3, Running DEF SendSome
  <2>2. PICK k : sent' = [sent EXCEPT ![ptr] = @ + k] /\ got' = got
    BY <1>3 DEF SendSome
  <2> QED
    BY <1>1, <2>1, <2>2
<1>4. CASE ~ReadSome /\ ~SendSome
  BY <1>4, QuietBuffers
<1> QED
  BY <1>2, <1>3, <1>4

\* Connections to come are untouched, and ReadIncome frees a client whose end of
\* file it sees.
LEMMA HistoryStep ==
  ASSUME IndInv, [Next]_vars
  PROVE  History'
<1> USE DEF IndInv
<1>1. accepted \in Nat /\ accepted' \in Nat /\ accepted' >= accepted
  BY LiveGrowth DEF TypeOK
<1>2. \A e \in End : e[1] \in Nat
  <2>1. ASSUME NEW e \in End PROVE e[1] \in Conn
    BY Ends
  <2> QED
    BY <2>1, TcpProxyAssumption DEF Conn
<1>3. ASSUME NEW e \in End, e[1] > accepted' PROVE got'[e] = 0 /\ sent'[e] = 0
  <2>1. e[1] > accepted
    BY <1>1, <1>2, <1>3
  <2>2. e \notin live
    BY <1>1, <1>2, <2>1 DEF LiveSound
  <2> QED
    BY <2>1, <2>2, CountsLive DEF History
<1>4. ASSUME NEW e \in eof, e[2] = "client" PROVE e \notin live'
  <2>1. e \notin live /\ e[1] <= accepted /\ e[1] \in Nat
    BY <1>2, <1>4 DEF History
  <2> QED
    BY <1>1, <2>1, LiveGrowth
<1>5. CASE eof' = eof
  BY <1>1, <1>2, <1>3, <1>4, <1>5 DEF History
<1>6. CASE ReadZero
  <2>1. eof' = eof \cup {ptr} /\ OnError(ptr) /\ accepted' = accepted /\ pc = "ReadIncome"
    BY <1>6 DEF ReadZero
  <2>2. ptr \in live /\ ptr \in End /\ ptr[1] <= accepted
    BY <2>1, Running
  <2>3. ptr[2] = "client" => ptr \notin live'
    BY <2>1, <2>2, ErrorEffect
  <2> QED
    BY <1>1, <1>3, <1>4, <2>1, <2>2, <2>3 DEF History
<1>7. eof' = eof \/ ReadZero
  BY DEF Next, Loop, aeApiPoll, DispatchReadable, DispatchWritable, DispatchDone, ReadReturns,
         ReadSome, ReadError, SendDrained, SendSome, SendBlocked, SendError,
         AcceptFails, AllocFails, AllocSucceeds, TakeConnection,
         Environment, ClientConnects, ConnectCompletes, ConnectRefused, PeerSends,
         PeerReads, PeerCloses, PeerResets, vars, netVars
<1> QED
  BY <1>5, <1>6, <1>7

\* What FreeClient and c->OnError leave typed: the descriptors, flags and sockets.
LEMMA FreeTyped ==
  ASSUME TypeOK, NEW k \in Conn, FreeClient(k) \/ CloseAfterSent(k)
  PROVE  /\ fdOf' \in [End -> Fd] /\ flags' \subseteq Conn /\ open' \subseteq Fd
         /\ sock' \in [End -> {"none", "connecting", "up", "failed", "gone"}]
<1>1. CASE FreeClient(k)
  <2>1. /\ open' \subseteq open /\ fdOf' = fdOf /\ flags' = flags
        /\ sock' = [sock EXCEPT ![<<k, "client">>] = "gone", ![<<k, "remote">>] = "gone"]
    BY <1>1 DEF FreeClient
  <2> QED
    BY <2>1 DEF TypeOK
<1>2. CASE flags' = flags \cup {k} /\ UNCHANGED <<table, live, fdOf, blist, open, sock>>
  BY <1>2 DEF TypeOK
<1> QED
  BY <1>1, <1>2 DEF CloseAfterSent

\* Every step keeps the types.
LEMMA TypeStep ==
  ASSUME IndInv, [Next]_vars
  PROVE  TypeOK'
<1> USE DEF IndInv
<1> DEFINE SockType == {"none", "connecting", "up", "failed", "gone"}
           PcType == {"epoll_wait", "dispatch", "writable?"} \cup Procs
<1>1. table' \in EventTable /\ live' \subseteq End /\ blist' \in [End -> Buffer]
      /\ got' \in [End -> Nat] /\ sent' \in [End -> Nat]
  <2>1. table' \in EventTable
    <3>1. TableOwned'
      BY OwnedStep
    <3>2. PICK t : t = table'
      OBVIOUS
    <3>3. T!TableSound(t)
      BY <3>1, <3>2 DEF TableOwned
    <3> QED
      BY <3>2, <3>3, TableTyped
  <2>2. live' \subseteq End
    BY LiveGrowth DEF TypeOK
  <2> QED
    BY <2>1, <2>2, BufferedStep
<1>2. backlog' \in Nat /\ accepted' \in Nat
  <2>1. backlog \in Nat /\ accepted \in Nat
    BY DEF TypeOK
  <2>2. backlog' = backlog \/ backlog' = backlog + 1 \/ (backlog' = backlog - 1 /\ backlog > 0)
    BY DEF Next, Loop, aeApiPoll, DispatchReadable, DispatchWritable, DispatchDone, ReadReturns,
           ReadSome, ReadZero, ReadError, SendDrained, SendSome, SendBlocked, SendError,
           AcceptFails, AllocFails, AllocSucceeds, TakeConnection, Dispatched,
           Environment, ClientConnects, ConnectCompletes, ConnectRefused, PeerSends,
           PeerReads, PeerCloses, PeerResets, vars, netVars
  <2> QED
    BY <2>1, <2>2, LiveGrowth
<1>3. backlog' \in 0 .. MaxConns /\ accepted' \in 0 .. MaxConns
  <2>1. accepted' + backlog' <= MaxConns /\ MaxConns \in Nat
    BY DispatchedStep, TcpProxyAssumption DEF Dispatched
  <2>2. PICK a, b : a = accepted' /\ b = backlog'
    OBVIOUS
  <2>3. a \in Nat /\ b \in Nat /\ a + b <= MaxConns
    BY <1>2, <2>1, <2>2
  <2>4. a \in 0 .. MaxConns /\ b \in 0 .. MaxConns
    BY <2>1, <2>3
  <2> QED
    BY <2>2, <2>4
<1>4. avail' \in [End -> Nat] /\ out' \in [End -> Nat]
  <2>1. avail \in [End -> Nat] /\ out \in [End -> Nat]
    BY DEF TypeOK
  <2>2. CASE ReadSome
    <3>1. PICK k \in 1 .. SpaceLen(Sink) : k <= avail[ptr] /\ avail' = [avail EXCEPT ![ptr] = @ - k]
      BY <2>2 DEF ReadSome
    <3>2. ptr \in End /\ out' = out
      BY <2>2, Running DEF ReadSome
    <3>3. avail[ptr] - k \in Nat
      BY <2>1, <3>1, <3>2
    <3> QED
      BY <2>1, <3>1, <3>2, <3>3
  <2>3. CASE SendSome
    <3>1. PICK k \in 1 .. DataLen(Source) : out' = [out EXCEPT ![ptr] = @ + k]
      BY <2>3 DEF SendSome
    <3>2. ptr \in End /\ avail' = avail
      BY <2>3, Running DEF SendSome
    <3>3. out[ptr] + k \in Nat
      BY <2>1, <3>1, <3>2
    <3> QED
      BY <2>1, <3>1, <3>2, <3>3
  <2>4. CASE \E e \in End : PeerSends(e)
    BY <2>1, <2>4 DEF PeerSends
  <2>5. CASE \E e \in End : PeerReads(e) \/ PeerResets(e)
    BY <2>1, <2>5 DEF PeerReads, PeerResets
  <2>6. CASE UNCHANGED <<avail, out>>
    BY <2>1, <2>6
  <2>7. \/ ReadSome \/ SendSome \/ UNCHANGED <<avail, out>>
        \/ \E e \in End : PeerSends(e) \/ PeerReads(e) \/ PeerResets(e)
    BY DEF Next, Loop, aeApiPoll, DispatchReadable, DispatchWritable, DispatchDone, ReadReturns,
           ReadZero, ReadError, SendDrained, SendBlocked, SendError,
           AcceptFails, AllocFails, AllocSucceeds, TakeConnection,
           Environment, ClientConnects, ConnectCompletes, ConnectRefused, PeerCloses, vars, netVars
  <2> QED
    BY <2>2, <2>3, <2>4, <2>5, <2>6, <2>7
<1>5. /\ fdOf' \in [End -> Fd] /\ flags' \subseteq Conn /\ open' \subseteq Fd
      /\ sock' \in [End -> SockType]
  <2>1. /\ fdOf \in [End -> Fd] /\ flags \subseteq Conn /\ open \subseteq Fd
        /\ sock \in [End -> SockType]
    BY DEF TypeOK
  <2>2. CASE ReadZero \/ ReadError \/ SendError \/ SendDrained
    <3>1. pc \in {"ReadIncome", "SendOutcome"}
      BY <2>2 DEF ReadZero, ReadError, SendError, SendDrained
    <3>2. ptr[1] \in Conn
      BY <3>1, Running
    <3>3. FreeClient(ptr[1]) \/ CloseAfterSent(ptr[1]) \/ UNCHANGED <<procVars, sock>>
      BY <2>2 DEF ReadZero, ReadError, SendError, SendDrained, OnError
    <3> QED
      BY <2>1, <3>2, <3>3, FreeTyped DEF procVars
  <2>3. CASE AllocFails
    BY <2>1, <2>3 DEF AllocFails, TakeConnection
  <2>4. CASE AllocSucceeds
    <3>1. PICK cf, rf : cf = LowestFd(FreeFds) /\ rf = LowestFd(FreeFds \ {cf})
      OBVIOUS
    <3>2. /\ FreeFds # {cf} /\ FreeFds # {} /\ flags' = flags
          /\ fdOf' = [fdOf EXCEPT ![<<accepted', "client">>] = cf, ![<<accepted', "remote">>] = rf]
          /\ open' = open \cup {cf, rf}
          /\ sock' = [sock EXCEPT ![<<accepted', "client">>] = "up",
                                  ![<<accepted', "remote">>] = "connecting"]
      BY <2>4, <3>1 DEF AllocSucceeds, TakeConnection
    <3>3. FreeFds \subseteq Fd /\ FreeFds \ {cf} \subseteq Fd
      BY DEF FreeFds
    <3>4. cf \in FreeFds
      BY <3>1, <3>2, <3>3, LowestIsFree
    <3>5. FreeFds \ {cf} # {}
      BY <3>2, <3>4
    <3>6. rf \in FreeFds \ {cf}
      BY <3>1, <3>3, <3>5, LowestIsFree
    <3>7. cf \in Fd /\ rf \in Fd
      BY <3>3, <3>4, <3>6
    <3>8. fdOf' \in [End -> Fd] /\ open' \subseteq Fd
      BY <2>1, <3>2, <3>7
    <3>9. sock' \in [End -> SockType]
      BY <2>1, <3>2
    <3> QED
      BY <2>1, <3>2, <3>8, <3>9
  <2>5. CASE \E e \in End : ConnectCompletes(e) \/ ConnectRefused(e)
    BY <2>1, <2>5 DEF ConnectCompletes, ConnectRefused, procVars
  <2>6. CASE UNCHANGED <<fdOf, flags, open, sock>>
    BY <2>1, <2>6
  <2>7. \/ ReadZero \/ ReadError \/ SendError \/ SendDrained \/ AllocFails \/ AllocSucceeds
        \/ \E e \in End : ConnectCompletes(e) \/ ConnectRefused(e)
        \/ UNCHANGED <<fdOf, flags, open, sock>>
    BY DEF Next, Loop, aeApiPoll, DispatchReadable, DispatchWritable, DispatchDone, ReadReturns,
           ReadSome, SendSome, SendBlocked, AcceptFails,
           Environment, ClientConnects, PeerSends, PeerReads, PeerCloses, PeerResets,
           vars, procVars, netVars
  <2> QED
    BY <2>2, <2>3, <2>4, <2>5, <2>6, <2>7
<1>6. pc' \in PcType /\ ptr' \in End \cup {Listener}
  <2>1. pc \in PcType /\ ptr \in End \cup {Listener} /\ live \subseteq End
    BY DEF TypeOK
  <2>2. CASE DispatchReadable
    <3>1. PICK e \in fired :
              /\ rfired' = ("READABLE" \in table.mask[e.fd] \cap e.mask)
              /\ pc' = IF rfired' THEN table.rproc[e.fd] ELSE "writable?"
              /\ ptr' = IF rfired' THEN table.data[e.fd] ELSE ptr
      BY <2>2 DEF DispatchReadable
    <3>2. e.fd \in Slot
      BY DEF Dispatched, Entry
    <3>3. CASE ~rfired'
      BY <2>1, <3>1, <3>3
    <3>4. CASE rfired'
      <4>1. "READABLE" \in table.mask[e.fd]
        BY <3>1, <3>4
      <4>2. /\ table.rproc[e.fd] \in {"Proxy_AcceptTcpHandler", "ReadIncome"}
            /\ table.data[e.fd] \in End \cup {Listener}
        BY <2>1, <3>2, <4>1 DEF TableOwned
      <4> QED
        BY <3>1, <3>4, <4>2 DEF Procs
    <3> QED
      BY <3>3, <3>4
  <2>3. CASE DispatchWritable
    <3>1. PICK fd : fd = cur.fd
      OBVIOUS
    <3>2. CASE pc' = "dispatch" /\ ptr' = ptr
      BY <2>1, <3>2
    <3>3. CASE "WRITABLE" \in table.mask[fd] /\ pc' = table.wproc[fd] /\ ptr' = table.data[fd]
      <4>1. fd \in Slot /\ fd # ListenFd
        BY <3>1, <3>3 DEF Dispatched, Entry, TableOwned
      <4>2. table.wproc[fd] = "SendOutcome" /\ table.data[fd] \in live
        BY <3>3, <4>1 DEF TableOwned
      <4> QED
        BY <2>1, <3>3, <4>2 DEF Procs
    <3> QED
      BY <2>3, <3>1, <3>2, <3>3 DEF DispatchWritable
  <2>4. CASE pc' \in {"epoll_wait", "dispatch", Returned} /\ ptr' \in {ptr, Listener}
    BY <2>1, <2>4, ReturnedIsIdle
  <2>5. CASE UNCHANGED <<pc, ptr>>
    BY <2>1, <2>5
  <2>6. \/ DispatchReadable \/ DispatchWritable \/ UNCHANGED <<pc, ptr>>
        \/ pc' \in {"epoll_wait", "dispatch", Returned} /\ ptr' \in {ptr, Listener}
    BY DEF Next, Loop, aeApiPoll, DispatchDone, ReadReturns,
           ReadSome, ReadZero, ReadError, SendDrained, SendSome, SendBlocked, SendError,
           AcceptFails, AllocFails, AllocSucceeds, TakeConnection,
           Environment, ClientConnects, ConnectCompletes, ConnectRefused, PeerSends,
           PeerReads, PeerCloses, PeerResets, vars, loopVars
  <2> QED
    BY <2>2, <2>3, <2>4, <2>5, <2>6
<1> QED
  BY <1>1, <1>3, <1>4, <1>5, <1>6 DEF TypeOK

-------------------------------------------------------------------------------
(* The proxy before its first event *)

\* main() of tcpproxy.c listens, registers the accept handler and runs the loop.
LEMMA InitHolds ==
  ASSUME Init
  PROVE  IndInv
<1>1. ListenFd \in Slot /\ ListenFd \in Fd
  BY ProxyTableAssumption DEF ListenFd, Slot
<1>2. PICK mask : mask = {"READABLE"}
  OBVIOUS
<1>3. T!TableSound(aeCreateEventLoop)
  BY T!EmptyTableSound, SameTable, ProxyTableAssumption
<1>4. Created(aeCreateEventLoop, table, ListenFd, mask, "Proxy_AcceptTcpHandler", Listener)
  <2>1. table = aeCreateFileEvent(aeCreateEventLoop, ListenFd, mask, "Proxy_AcceptTcpHandler", Listener)
    BY <1>2 DEF Init
  <2>2. mask \in SUBSET Direction /\ mask # {} /\ "Proxy_AcceptTcpHandler" \in Procs
        /\ Listener \in End \cup {Listener}
    BY <1>2 DEF Direction, Procs
  <2> QED
    BY <1>1, <1>3, <2>1, <2>2, CreateEffect
<1>5. /\ T!TableSound(table) /\ \A x \in Slot \ {ListenFd} : table.mask[x] = {}
      /\ table.rproc[ListenFd] = "Proxy_AcceptTcpHandler" /\ table.data[ListenFd] = Listener
  BY <1>1, <1>2, <1>4 DEF Created, aeCreateEventLoop
<1>6. table.mask[ListenFd] = {"READABLE"}
  <2>1. table.mask[ListenFd] \subseteq Direction
    BY <1>1, <1>5, TableTyped
  <2>2. \A d \in Direction : d \in table.mask[ListenFd] <=> d = "READABLE"
    BY <1>1, <1>2, <1>4 DEF Created, aeCreateEventLoop
  <2> QED
    BY <2>1, <2>2 DEF Direction
<1>7. LiveSound
  BY DEF Init, LiveSound, DescriptorsOwned
<1>8. TableOwned
  BY <1>5, <1>6 DEF Init, TableOwned
<1>9. Armed
  BY DEF Init, Armed
<1>10. Holds(AllocBufferList, 0, 0)
  BY AllocHolds
<1>11. Buffered
  <2>1. ASSUME NEW e \in End PROVE Holds(blist[e], sent[e], got[Other(e)])
    <3>1. Other(e) \in End
      BY Ends
    <3>2. blist[e] = AllocBufferList /\ sent[e] = 0 /\ got[Other(e)] = 0
      BY <3>1 DEF Init
    <3> QED
      BY <1>10, <3>2
  <2> QED
    BY <2>1 DEF Buffered
<1>12. Dispatched
  <2>1. NoEntry \in Entry
    BY <1>1 DEF NoEntry, Entry
  <2>2. fired = {} /\ cur = NoEntry /\ pc = "epoll_wait" /\ backlog = 0 /\ accepted = 0
    BY DEF Init
  <2> QED
    BY <2>1, <2>2, TcpProxyAssumption DEF Dispatched
<1>13. History
  BY DEF Init, History
<1>14. TypeOK
  <2>1. table \in EventTable
    BY <1>5, TableTyped
  <2>2. AllocBufferList \in Buffer
    BY <1>10 DEF Holds
  <2>3. /\ live \subseteq End /\ fdOf \in [End -> Fd] /\ flags \subseteq Conn
        /\ blist \in [End -> Buffer] /\ open \subseteq Fd
        /\ pc = "epoll_wait" /\ ptr = Listener
    BY <1>1, <2>2 DEF Init
  <2>4. backlog \in 0 .. MaxConns /\ accepted \in 0 .. MaxConns
    BY TcpProxyAssumption DEF Init
  <2>5. /\ sock \in [End -> {"none", "connecting", "up", "failed", "gone"}]
        /\ {avail, got, sent, out} \subseteq [End -> Nat]
    BY DEF Init
  <2> QED
    BY <2>1, <2>3, <2>4, <2>5 DEF TypeOK
<1> QED
  BY <1>7, <1>8, <1>9, <1>11, <1>12, <1>13, <1>14 DEF IndInv

-------------------------------------------------------------------------------
(* The theorems *)

\* The inductive invariant of the proxy, for every number of connections, chunks,
\* descriptors and table slots, and every interleaving with peers and kernel.
THEOREM Invariance == Spec => []IndInv
<1>1. Init => IndInv
  BY InitHolds
<1>2. IndInv /\ [Next]_vars => IndInv'
  BY TypeStep, OwnedStep, BufferedStep, DispatchedStep, HistoryStep DEF IndInv
<1> QED
  BY <1>1, <1>2, PTL DEF Spec

\* FreeClient while events of the pair are still in fired[], and accept() reusing
\* the descriptors in the same batch, never lead a handler to a freed proxy_client;
\* no descriptor is leaked or closed twice.
THEOREM OwnershipHolds == Spec => []OwnershipKept
<1>1. IndInv => OwnershipKept
  <2> SUFFICES ASSUME IndInv PROVE OwnershipKept
    OBVIOUS
  <2>1. pc \in {"ReadIncome", "SendOutcome"} => {ptr, Other(ptr)} \subseteq live
    BY Running
  <2>2. PointersLive
    BY <2>1 DEF PointersLive, IndInv, TableOwned
  <2> QED
    BY <2>2 DEF OwnershipKept, IndInv, LiveSound
<1> QED
  BY <1>1, Invariance, PTL

\* Between any two recv() and send() calls what was received from one end and not
\* sent to the other is in the other's buffer, in order, and when the loop sleeps
\* every end with data to send is watched for output.
THEOREM RelayHolds == Spec => []RelayConsistent
<1>1. IndInv => RelayConsistent
  <2> SUFFICES ASSUME IndInv PROVE RelayConsistent
    OBVIOUS
  <2>1. BufferedDataArmed
    <3>1. ASSUME NEW e \in live
          PROVE  /\ "READABLE" \in table.interest[fdOf[e]]
                 /\ ~DataNull(blist[e]) => "WRITABLE" \in table.interest[fdOf[e]]
      <4>1. fdOf[e] \in Slot /\ T!TableSound(table)
        BY DEF IndInv, LiveSound, TableOwned
      <4>2. table.interest[fdOf[e]] = table.mask[fdOf[e]]
        BY <4>1, TableTyped
      <4> QED
        BY <4>2 DEF IndInv, TableOwned, Armed
    <3> QED
      BY <3>1 DEF BufferedDataArmed
  <2>2. RelayInOrder
    <3>1. ASSUME NEW e \in live
          PROVE  /\ DataNull(blist[e]) <=> sent[e] = got[Other(e)]
                 /\ \A o \in blist[e].read_pos .. HeadNode(blist[e]).size - 1 :
                       HeadNode(blist[e]).data[o] = sent[e] + (o - blist[e].read_pos)
      <4>1. PICK b : b = blist[e]
        OBVIOUS
      <4>2. Holds(b, sent[e], got[Other(e)])
        BY <4>1 DEF IndInv, TypeOK, Buffered
      <4>3. b.read_pos \in Nat /\ HeadNode(b).size \in 0 .. ChunkSize /\ ChunkSize \in Nat
        BY <4>2, BufferListAssumption DEF Holds, Buffer, HeadNode, Node
      <4>4. ASSUME NEW o \in b.read_pos .. HeadNode(b).size - 1
            PROVE  HeadNode(b).data[o] = sent[e] + (o - b.read_pos)
        <5>1. o \in Offset /\ o < HeadNode(b).size
          BY <4>3, <4>4 DEF Offset
        <5> QED
          BY <4>2, <5>1, HeadIsNext
      <4> QED
        BY <4>1, <4>2, <4>4, NullIsEmpty
    <3> QED
      BY <3>1 DEF RelayInOrder
  <2> QED
    BY <2>1, <2>2 DEF RelayConsistent, IndInv
<1> QED
  BY <1>1, Invariance, PTL

\* CloseAfterSent: a client whose own socket reported neither end of file nor an
\* error is freed only when all that was received for it has been sent.
THEOREM FlushHolds == Spec => FlushedBeforeClose
<1> DEFINE A == \A k \in Conn :
                  LET c == <<k, "client">>
                  IN  c \in live \ live' /\ c \notin eof' /\ peer[c] # "reset"
                        => sent[c] = got[Other(c)]
<1>1. IndInv /\ [Next]_vars => A
  <2> SUFFICES ASSUME IndInv, [Next]_vars, NEW k \in Conn,
                      <<k, "client">> \in live \ live', <<k, "client">> \notin eof',
                      peer[<<k, "client">>] # "reset"
               PROVE  sent[<<k, "client">>] = got[Other(<<k, "client">>)]
    OBVIOUS
  <2>1. PICK c : c = <<k, "client">>
    OBVIOUS
  <2>2. c \in End /\ c \in live /\ c \notin live' /\ c \notin eof' /\ peer[c] # "reset"
    BY <2>1 DEF IndInv, TypeOK
  <2>3. DataNull(blist[c]) => sent[c] = got[Other(c)]
    BY <2>2, NullIsEmpty DEF IndInv, Buffered
  <2>4. \/ ReadZero \/ ReadError \/ SendDrained \/ SendError
    <3>1. CASE AllocSucceeds
      BY <2>2, <3>1, AllocEffect
    <3>2. CASE \/ aeApiPoll \/ DispatchReadable \/ DispatchWritable \/ DispatchDone \/ ReadReturns
               \/ ReadSome \/ SendSome \/ SendBlocked \/ AcceptFails \/ AllocFails
               \/ Environment \/ UNCHANGED vars
      <4>1. live' = live
        BY <3>2 DEF aeApiPoll, DispatchReadable, DispatchWritable, DispatchDone, ReadReturns,
                    ReadSome, SendSome, SendBlocked, AcceptFails, AllocFails,
                    Environment, ClientConnects, ConnectCompletes, ConnectRefused, PeerSends,
                    PeerReads, PeerCloses, PeerResets, vars, procVars, netVars
      <4> QED
        BY <2>2, <4>1
    <3> QED
      BY <3>1, <3>2 DEF Next, Loop
  <2>5. pc \in {"ReadIncome", "SendOutcome"}
    BY <2>4 DEF ReadZero, ReadError, SendDrained, SendError
  <2>6. ptr \in End /\ (ptr[2] = "client" => ptr = <<ptr[1], "client">>)
    BY <2>5, Running
  <2>7. ASSUME NEW n, live' = live \ {<<n, "client">>, <<n, "remote">>}
        PROVE  n = k
    BY <2>1, <2>2, <2>7
  <2>8. ASSUME NEW n, FreeClient(n) PROVE n = k
    BY <2>7, <2>8 DEF FreeClient
  <2>9. CASE (ReadZero \/ ReadError \/ SendError) /\ ptr[2] = "client"
    <3>1. ptr = c
      BY <2>1, <2>6, <2>8, <2>9 DEF OnError, ReadZero, ReadError, SendError
    <3>2. ptr \in eof' \/ peer[ptr] = "reset"
      BY <2>9 DEF ReadZero, ReadError, SendError
    <3> QED
      BY <2>2, <3>1, <3>2
  <2>10. CASE OnError(ptr) /\ ptr[2] # "client"
    <3>1. CASE DataNull(blist[<<ptr[1], "client">>]) /\ FreeClient(ptr[1])
      BY <2>1, <2>3, <2>8, <3>1
    <3>2. CASE live' = live
      BY <2>2, <3>2
    <3> QED
      BY <2>10, <3>1, <3>2 DEF OnError, CloseAfterSent
  <2>11. CASE SendDrained
    <3>1. DataNull(blist[ptr]) /\ ptr[2] = "client" /\ FreeClient(ptr[1])
      BY <2>2, <2>11 DEF SendDrained, Source, procVars
    <3> QED
      BY <2>1, <2>3, <2>6, <2>8, <3>1
  <2> QED
    BY <2>1, <2>4, <2>9, <2>10, <2>11 DEF ReadZero, ReadError, SendError
<1>2. IndInv /\ [Next]_vars => [A]_vars
  BY <1>1
<1> QED
  BY <1>2, Invariance, PTL DEF Spec, FlushedBeforeClose

\* OnError of a client is FreeClient: once ReadIncome has seen the client's end of
\* file nothing more is passed on in either direction, whichever events of the pair
\* were still in the fired[] batch.
THEOREM HalfCloseHolds == Spec => HalfCloseIsFinal
<1> DEFINE A == \A k \in Conn :
                  <<k, "client">> \in eof =>
                      \A e \in {<<k, "client">>, <<k, "remote">>} :
                          sent'[e] = sent[e] /\ got'[e] = got[e]
<1>1. IndInv /\ [Next]_vars => A
  <2> SUFFICES ASSUME IndInv, [Next]_vars, NEW k \in Conn, <<k, "client">> \in eof,
                      NEW e \in {<<k, "client">>, <<k, "remote">>}
               PROVE  sent'[e] = sent[e] /\ got'[e] = got[e]
    OBVIOUS
  <2>1. PICK c : c = <<k, "client">>
    OBVIOUS
  <2>2. c \in End /\ e \in End /\ (e = c \/ Other(e) = c)
    BY <2>1 DEF End, Side, Other
  <2>3. c \notin live
    BY <2>1 DEF IndInv, History
  <2>4. e \notin live
    BY <2>2, <2>3 DEF IndInv, LiveSound
  <2> QED
    BY <2>2, <2>4, CountsLive
<1>2. IndInv /\ [Next]_vars => [A]_vars
  BY <1>1
<1> QED
  BY <1>2, Invariance, PTL DEF Spec, HalfCloseIsFinal
===============================================================================
