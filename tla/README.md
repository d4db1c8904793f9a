# A TLA+ model of code_snippets

The repository is a collection of programs, most of them in C: a TCP proxy on a
copy of redis' event library, two more servers on copies of the same library, a
TCP flow recorder, a select-based web server, a forking HTTP benchmark, proxies and a
chat room in Python, a redis client, smaller network demos, containers (linked list,
skip list, search tree) and a shelf of algorithm exercises. There is no common main program; the "system" is each
program with its libraries.

This directory holds TLA+ modules for the programs with state worth checking, the
TLC configurations that check them on small instances, and TLAPS proofs about the proxy
(buffer list, event loop, relay), the flow recorder, the web server and the small
servers. `PROJECT.json` lists components, runs, mutants, the map from
definitions to source lines, findings, hazards and theorems.

Conventions. A definition keeps the name of the function it models where it models
all of it; `pc`-like variables are named after the system call or loop the process
is in. Every `\* Mutant` operator is a plausible mistake in the definition that
follows it; it is not used by any specification. Constants whose names begin with
`Max` are bounds of the model, not of the program.

## 1. Inventory

### The TCP proxy (`src/redis_ae/tcpproxy`)

| part | state | operations | depends on |
|---|---|---|---|
| buffer list, `util.c` | chunks with `size` and data, `head`, `tail`, `write_node`, `read_pos` | AllocBufferList, GetSpace, Push, GetData, Pop, Free | - |
| event loop, `ae.c`, `ae_epoll.c` | `events[]`, `fired[]`, `maxfd`, the time-event list and `timeEventNextId`, `stop`; the kernel's epoll list | create/delete file event, create/delete time event, aeProcessEvents, aeMain, aeStop | the kernel |
| proxy, `tcpproxy.c` | per connection two `proxy_client`s that point at each other, their descriptors, `flags`, a buffer list each | accept (AllocClient, AllocRemote), ReadIncome, SendOutcome, FreeClient/FreeRemote, CloseAfterSent | buffer list, event loop, anet |
| anet helpers, `anet.c` | none | socket calls | the kernel |
| policy parser, `policy.rl`/`policy.c` | a Ragel automaton, the host it is filling in | ParsePolicy, FreePolicy | - |
| allocator wrapper, `zmalloc.c` | a byte counter | zmalloc, zfree, zrealloc | malloc |

The proxy is one thread. The handlers run to completion inside `aeProcessEvents`,
but what they do is interleaved with the peers, the kernel and a stop signal, and
one batch of fired events outlives the handlers that run in it: a handler frees a
connection whose other descriptor is still in the batch, and accept() may give the
descriptor to a new connection before its stale entry is reached. Hard behaviours:
buffers at their limit, chunk boundaries, arming and disarming the write event,
closing after the buffered data has been sent, partial failures while a connection
is set up, timer lists that change under the walk over them, the borrow between
seconds and milliseconds in the sleep computation, and a stop request that races
the sleep.

Correct means: bytes are relayed once and in order; nothing buffered is forgotten;
a healthy client is flushed before it is closed; no freed structure is used; every
descriptor is closed once; epoll's list is what the table says; due timers run and
new ones wait; a stop request ends the loop; the policy the proxy runs with is the one
that was written, and anything that is not a policy is refused.

### tcpflow (`src/unp/tcpflow`)

| part | state | operations |
|---|---|---|
| flow recorder, `flow.c`, `tcpip.c` | hash table of flows (`isn`, `pos`, `fp`, `last_access`, flags), `fd_ring[]`, `next_slot`, `max_fds`; the output files | store_packet, create_flow_state, open_file, close_file, sort_fds, contract_fd_ring |
| statistics, `datalink.c`, `tcpip.c`, `info_file/` | packet counters by protocol, the list of conversations, two report files | update_pkt_type, tcp_conver_handler, update_summary_file, update_tcp_conver_file |
| start-up, options, logging, printing, `crypte/` | none after start-up | - |

One thread, driven by libpcap. Segments arrive in any order, repeated, overlapping,
with wrapping sequence numbers; the number of open files is limited, so files are
evicted and reopened, and the limit itself shrinks when fopen() is refused.
Correct means: an open file can always be found again to be closed; what is stored
is at its place in the file and stays; the reports agree with each other.

### sv_httpd (`src/unp/simple-web-server-sv_httpd`)

State: `conn_list[MAX_CONN]`, per connection a state (awaiting request, sending
header, sending file), a file descriptor and offsets, and the two fd sets of the
round. Operations: one select round = accept at most one connection, then one step
of every connection that is ready. Hard: partial writes, clients that leave at any
point, both limits (slots and descriptors), readiness computed before the accept.

### benchmark (`src/unp/benchmark`)

A parent forks clients; each client repeats connect-write-read until its alarm sets
a flag, then writes its counters to a pipe that the parent reads. Hard: where the
signal strikes, clients that die, fork() failing half way, a read() that the signal
comes just too early for.

### Relays in Python (`src/python`)

| program | state | operations | hard |
|---|---|---|---|
| `simple_proxy.py` | `read_socks`, `routes` | select; accept and connect, relay, disconnect | one thread, blocking sends, one socket of a pair closed before the other |
| `chatroom.py` | the sessions with IDs, the client program | join, say, leave, broadcast | members that come and go during a broadcast, sends that fail |
| `proxy-with-mulitthrea.py` | a thread per connection, descriptors | parse the request, connect, relay | descriptors that run out, requests in pieces |
| `proxy-python/local.py`, `server.py` | a thread each per connection, an encoding table | greeting, request, relay | two programs that wait for each other, greetings in pieces |

Correct means: bytes are relayed unchanged and in order; all members of the room see the
same order; every socket is closed once; one peer's end does not end the others.

### Containers

`adlist.c` (two copies: `doublelink`, `redis_ae/epoll-mode-copied-from-redis`), the
skip list and the search tree: heaps of nodes with pointers in several directions
that must agree after any sequence of operations, iterators that hold a pointer
while the list changes, deletion that frees another node than the one found. The queue
of `linklist/listtest/mylist.c` is filled at one end and emptied at the other; the list
of `linklist/nginx_list.c` grows by arrays.

### Small servers

| program | state | operations | hard |
|---|---|---|---|
| `tcp_udp_echo.c` | epoll with a listening, a UDP and the accepted sockets, all edge-triggered; accepted ones blocking | one accept or recvfrom per event; read and echo until the peer ends | edges shared by several arrivals, a loop that waits for one client |
| `unp/simple_epoll/server.c` | level-triggered listening socket, edge-triggered non-blocking connections | accept; handler_client reads until a short read | data and end of stream between epoll_wait, read() and the return |
| redis skeleton, `redis_ae/epoll-mode-copied-from-redis` | the event table (second copy of the loop), the client list, one time event | acceptTcpHandler, createClient, freeClient, readQueryFromClient, serverCron | two limits at once, a loop that never sleeps, a socket that may be blocking |

| redis client, `redis_ae/simple-redis-client` | the request and a line as sds strings, the reply buffer | lookupCommand, cliSendCommand, cliReadLine, cliReadBulkReply, anetRead, anetWrite | streams cut anywhere, a server that ends early, replies of an unexpected kind |
| file transfers, `unp/ipc/pipe.c`, `client_recv.c` with `server_send.c` | two processes, the descriptors both inherit | ask for a name, send the file or a complaint | an end of stream needs every copy of a descriptor closed; a process killed anywhere |

Correct means: what is ready is served without a second event that never comes; list,
table, epoll and open descriptors agree at either limit; timer and accept do not starve.

### Exercises

Sorts, in-place merges, a Fenwick tree, list reversals and partitions on `next`
pointers, tree traversals with explicit stacks, path searches, a two-stack
calculator and the like: functions from an input to a result.

### The rest

The libae demo (a third copy of the loop), the simple epoll client, small IPC and socket
demos, formatting and start-up code. They are listed in `PROJECT.json` with the reason
they are not modelled; section 6 has the summary.

## 2. Modules

| module | models | composition |
|---|---|---|
| `BufferList` | the data structure of `util.c` as operators on a record | used by the next two |
| `BufferListSpec` | the list driven by any legal sequence of recv() and send() results | refines `ByteFifo` |
| `ByteFifo` | abstract: a stream received and sent in order | - |
| `BufferListLemmas` | what the operations do to the stream a buffer holds | used by the next one and `TcpProxyProofs` |
| `BufferListProofs` | theorems about `BufferListSpec` | - |
| `AeFileEvents` | the event table and its epoll shadow as operators on a record | used by the next two |
| `AeLoop` | aeMain, aeProcessEvents, time events, handlers that call back | `AeFileEvents` |
| `AeFileEventsProofs` | lemmas on the table's operations | used by the next two |
| `RedisProofs` | theorems about `AeLoop` and `Adlist`, the parts taken from redis | - |
| `TcpProxy` | tcpproxy.c with its sockets and peers | `BufferList`, `AeFileEvents` |
| `TcpProxyProofs` | theorems about `TcpProxy` | `BufferListLemmas`, instance of `AeFileEventsProofs` |
| `FlowRing` | flow table, ring and files of tcpflow | - |
| `FlowRingProofs` | theorems about `FlowRing` | - |
| `PacketStats` | counters, conversations and report files of tcpflow | - |
| `SvHttpd` | sv_httpd with its clients | - |
| `Benchmark` | parent, clients, pipe, alarms | - |
| `UnpProofs` | theorems about `PacketStats`, `Benchmark` and `SvHttpd` | - |
| `EchoServer`, `EpollServer`, `RedisServer` | the small servers with their peers | - |
| `RedisClient` | the redis client with sds strings, and a server | - |
| `FileTransfer` | the two file transfers of `unp/ipc` | - |
| `SimpleProxy`, `ThreadProxy` | the Python proxies with both peers of a connection | - |
| `ChatRoom` | the chat server and its client program | - |
| `SocksTunnel` | local.py and server.py with the application and the target | both programs, three hops |
| `ServerProofs` | theorems about the three small servers and, for the specification of `MCRelays`, about `SimpleProxy`, `ThreadProxy`, `ChatRoom` and `SocksTunnel` | - |
| `Adlist`, `SkipList`, `Bst` | the containers as heaps of nodes | refine the next two |
| `FifoList` | the queue of mylist.c | - |
| `NodeLists`, `OrderedBag` | abstract: lists of values; a bag of keys with answers | - |
| `Jobs` | one call of a function | used by the next six |
| `PolicyParser` | policy.c with ParseArgs and main of the proxy, and its grammar | - |
| `PartList` | the list of arrays of nginx_list.c | - |
| `ArrayAlgorithms`, `NumberAlgorithms`, `ListAlgorithms`, `TreeAlgorithms` | the exercises | - |
| `MC*` | model checking: constants, symmetry, and the choice of program where a run has several (tcpflow, web, servers, relays, containers, exercises); the other runs use the component's module and a `.cfg` named after it | |

State and actions in more detail:

* **BufferList.** A buffer is `[nodes, write_node, read_pos]`: `nodes` is the chain
  from head to tail, so `head` is index 1 and recycling a chunk rotates the
  sequence and lowers `write_node`. Chunks hold the positions of bytes in the stream
  rather than bytes; that is what tells a lost, repeated or misplaced byte apart.
  `SpaceNull`/`SpaceLen` and `DataNull`/`DataLen` are the results of GetSpace and
  GetData, Push and Pop are operators. In `BufferListSpec` an action is one
  GetSpace-recv-Push or GetData-send-Pop with any length the kernel may return.
* **AeFileEvents.** `table` is `[mask, rproc, wproc, data, maxfd, interest]`;
  `interest` is what epoll was told with ADD, MOD and DEL.
* **AeLoop.** `pc` walks through aeMain, the test of the flag, the computation of
  the timeout, epoll_wait, the dispatch of `fired[]` (readable, then writable unless
  both procs are the same), the walk over the timers. While a handler runs it may
  make up to `MaxCalls` calls into the library. Time is in milliseconds with
  `MsPerSec` of them in a second, so that the borrow is exercised by small clocks.
* **TcpProxy.** An end is `<<connection, "client" | "remote">>`. `live` are the
  allocated structs, `fdOf` their descriptors, `open` the process's open descriptors;
  `sock`, `avail`, `got`, `sent`, `out`, `peer`, `eof` describe the kernel and the
  peers. Each disjunct of a handler (a zero, an error, a full or partial result) is
  one action. Free descriptors are given out lowest first, like the kernel does.
* **FlowRing.** `fd_ring`, `next_slot` and `max_fds` as in the C; `sort_fds` by
  `last_access`; `contract_fd_ring` with the shift it does. Files are functions from
  offsets to stream positions or holes. `sysfull` is the system's file table, filled
  and freed by others. Sequence numbers are modulo `SeqSpace`; `Guard` is the window in
  which the code takes a difference for a segment before the first one.
* **PacketStats.** A frame is a link type, a protocol, ports and where parsing stops;
  the counters are incremented where the code increments them. `handler` is what
  find_handler chose for the device: off Ethernet nobody counts packets, ip and arp.
* **SvHttpd.** `rfs`, `wfs`, `lready` are what select() returned; `i` is the slot
  being handled; a response is `HeadLen` bytes of header and `FileLen` of file.
* **Benchmark.** `cpc` is the place of each client; `Alarm` either interrupts the
  blocking call (which then fails) or just misses it. `answered` and `broken` are
  what happened, to compare with the counters. Every child inherits the reading end of
  the pipe, so that its write succeeds also when the parent is gone.
* **EchoServer, EpollServer.** `edge` and `ready` are the edges epoll still has to
  report; arrivals before the report share one. A connection's unread and sent bytes
  are counted, its peer stops sending, closes or resets. Which send() takes the error of
  a reset and which one raises SIGPIPE follows the kernel. The echo server sends
  `strlen()` bytes of what it received (`tcp_udp_echo.c:210`): that the counts are equal
  assumes text without NUL.
* **RedisServer.** `due` is the time until serverCron relative to now, so time is
  bounded without a clock; `nonblock` is chosen initially, since `anetSetBlock` passes
  no flags to fcntl(F_SETFL).
* **RedisClient.** A byte is a token; a string is `[text, free, room]`, where `room` is
  what was allocated. Every `write()` and `read()` is a step with any length the kernel may
  return; an error of the socket is reported once, as Linux does, and then the end of
  the stream. `JUNK` is a byte of the reply buffer nothing was read into.
* **FileTransfer.** `asker` and `senders` are the processes that hold a writing end of each
  channel: a stream ends when the set is empty. `Name` cuts the line as each client does.
* **SimpleProxy, ThreadProxy, ChatRoom, SocksTunnel.** `select()` returns sets that the
  following steps work through while the peers go on. An exception nothing catches ends
  the thread or the program, as in the source. In the select proxy and the tunnel a
  blocking send is a step that waits for room; in the select proxy it may take a part
  first, and when the receiver resets then, it returns the short count, which
  `simple_proxy.py:36` ignores (`SendCutShort`). In the chat room and the threaded proxy a
  send never waits: their liveness is about peers that read in the end.
  The threaded proxy parses what its one recv() returned: `LineSeen` is what there is of
  the request line in a first segment that ends before, in or behind the port.
  `pfds`, `hfds` and `ThreadFds` are the descriptors each accepting program may use.
* **PolicyParser.** A text is a sequence of tokens (digits one by one, names whole). A
  state of the generated tables is `part` (listen, remote, group), `at` and a digit count;
  the actions of `policy.rl` are operators on the record that holds host, policy and the
  count of allocated addresses. The count goes on from one argument to the next, while the
  policy starts anew. The reference is the grammar, written without states.
* **Containers.** Addresses are model values that malloc() hands out again after a
  free. An operation is one action; the iterator of adlist keeps what it still owes.
* **Exercises.** The loops are recursive operators over explicit `next` functions,
  stacks and arrays; uninitialised fields start with arbitrary values where the code
  might read them. The properties compare with definitions that do not mention
  pointers or stacks.

## 3. Runs

All of them finish in little more than three minutes on two workers. A run with several programs
chooses one in its initial state, so that their state spaces add up.

| run | question | bounds and why they are enough |
|---|---|---|
| `bufferlist` | Is the list a FIFO, and what happens at its limit? | three chunks as in tcpproxy.c, three bytes each: first, inner and last byte of first, inner and last chunk; 24 bytes recycle every chunk more than twice |
| `ae_loop` | Do table, kernel and timers agree while handlers change them? | two table slots and one descriptor beyond the table, two timers, three calls per handler, clock 0..2 with three milliseconds to a second: a second boundary in every position relative to a due and a future timer |
| `tcpproxy` | Is what is buffered relayed, flushed, and freed? | one connection, two chunks of one byte: full, recycled, wedged; one byte in the socket buffer makes every second send partial or blocked |
| `tcpproxy_reuse` | Are stale events harmless? | two connections one after the other on the same two descriptors |
| `tcpproxy_eof` | Does recv() = 0 mean the peer closed? (violated) | as `tcpproxy` |
| `tcpflow` | Are files tracked and bytes in place? Do the two reports agree? | three flows on two slots: eviction, reopening, sorting; three descriptors; sequence numbers that wrap inside a stream; `-b 2` with segments of up to two bytes before, at and across the limit; every sequence of three frames: a conversation, its answer and another one in any order |
| `flow_out_of_files` | Does open_file end? (violated) | two flows |
| `web` | sv_httpd: are descriptors owned, responses ordered, requests handled? benchmark: are counters and totals right wherever the alarm strikes? | three clients, two slots, three descriptors, so that each limit can be hit first; a file of three bytes in blocks of two, socket buffer of one; two benchmark clients, two tries each |
| `relays` | Do the Python relays pass on what they get, and what do they do when one end is gone? | two proxied connections with buffers of one byte, with descriptors for both and for one and a half; three members of which one leaves, with descriptors for all and for two; three threads on four descriptors, whose first segments end in front of the host, in front of the port and behind it; a tunnel whose buffers hold less than either end sends, with greetings in one and in two pieces |
| `servers` | Do edge-triggered events suffice, do limits keep list and table together, does anybody starve? Does the redis client show what was sent? Does a file arrive? | two clients on one descriptor, two bytes in buffers of one (echo), four bytes in buffers of two (epoll: full, short and empty reads), two datagrams; redis: limits of one below, at and one above the table, four connections, two accepts per call, three milliseconds to a second; redis client: abbreviated, unknown and incomplete commands, a value of two digits' length, every kind of reply; transfers: an existing, a missing, an empty name, one with an extra character, three blocks in a channel of two |
| `containers` | Do the containers do what the abstract ones do? | four nodes, two lists, two values, three levels, keys 1..3 (with duplicates) and 1..4: every shape with an inner node with two children; queue: rounds of three elements on four addresses |
| `algorithms` | Do the exercises compute what they should? Is a policy parsed as its grammar says? | all arrays and lists of up to five elements over three values, trees of up to five nodes, complete trees of up to twenty, expressions of up to three operators, numbers around the borders of the titles; policies with every kind of host on both sides, in groups of one and two with and without blanks, all texts one token away from three policies, and two arguments; lists of arrays of 1, 2 and 4 with up to nine elements |

What the properties say:

* `bufferlist`: `TypeOK`; `SendsNextBytes` (what GetData offers is exactly the next
  bytes of the stream); `NullIffDrained`; `WedgeIsPermanent` (once `write_node` is full
  and is not the tail, the list never accepts a byte again: a fact about the code,
  and the cause of the finding below); `ImplementsFifo`.
* `ae_loop`: `LoopConsistent` (epoll's list equals the table, `maxfd` is exact, the
  timer walk never stands on a freed event), `TimersOnTime` (a timer made by a handler
  waits for the next round; how late the sleep may wake), `NoDueTimerSkipped`,
  `StopEndsLoop`.
* `tcpproxy`: `RelayConsistent` (buffers hold exactly what was received and not sent,
  and write events are armed when there is something to send), `FlushedBeforeClose`,
  `HalfCloseIsFinal` (after the client's end of file nothing is passed on in either
  direction), `RelayProgress` (what is buffered is sent, what is flagged is freed).
  `tcpproxy_reuse`: `OwnershipKept`.
* `tcpflow`: `RingConsistent`, `StoredInPlace`, `NothingTruncated` (recorder),
  `ReportsAgree` (statistics: an inner row of the table is contained in the outer one,
  the rows of ip only on Ethernet).
* `web`: `ConnectionsConsistent`, `ResponseInOrder`, `StuckForGood`, `RequestIsHandled`
  (web server), `CountersConsistent` (a client is off by one at most, the total is the
  sum of all), `BenchmarkEnds`.
* `relays`: `RelaysSound` (the sockets of the select relay and of the threads are
  accounted for, what the relay drops of a send cut short is all it drops, the port a
  thread connects to is made of the digits it saw, and what may end either program),
  `SameOrder` (all members see one order, from their join to their leave,
  even when the server dies in a broadcast), `TunnelFaithful` (no byte is lost, changed or
  moved over three hops and two threads; after a split greeting server.py dials what was
  asked for or what the rest of the greeting spells, and nothing else),
  `StaleRouteIsFatal`, `GridlockIsForever`, `RelaysServe`.
* `servers`: `EchoAccounts` (the sleeping echo server leaves exactly the connections
  and datagrams unserved that got no edge of their own or no descriptor, and a closed
  connection was echoed completely), `EdgesSuffice` (no input is forgotten by returning
  after a short read, and when an end of stream is), `ClientsConsistent`, `AnswerShown`
  (the answer shown is the one sent however the streams are cut, and what is shown when
  the server ends too early), `ServersServe` (nobody starves, the redis client ends, a
  file that is asked for arrives and both processes end).
* `containers`: `LinksSound`, `IterationComplete`, `ContainersRefine`.
* `algorithms`: `ParsedAsWritten` (the machine accepts the grammar's language, the policy
  is the one written, every address fits; what ParseArgs leaks is exactly the addresses of
  the policies it overwrites), `ExercisesRight`.

Deadlock checking is off. Each model has states in which nothing more happens on
purpose: the bytes, packets, connections or calls of the bounds are used up, the
program has ended (aeMain returned, the server terminated, the benchmark printed its
totals, a server met an error it exits for, a job has its result) or has crashed
(sldelete on a value beyond the end).
Where waiting for ever would be wrong, a liveness property says so.

Symmetry is used for flows, and for the addresses, lists and values of the
containers, in runs without liveness properties only.

### Fairness

* `AeLoop`: weak fairness of the loop's own steps and of the clock: the process
  runs, handlers return, time passes. I/O and stop requests are not promised.
* `TcpProxy`: weak fairness of the loop; a connect() ends in success or failure
  (TCP's own timeout); a peer that has not reset keeps reading. `RelayProgress` is
  about such peers: the proxy has no timeouts of its own.
* `FlowRing` (run `flow_out_of_files`): weak fairness of the program's steps.
* `SvHttpd` (in `MCWeb`): weak fairness of the server and of clients' reading.
* `Benchmark` (in `MCWeb`): weak fairness of the parent, of each client's own steps, and of
  alarms; the web server owes no answer.
* `EchoServer`: weak fairness of the server, and every client ends its connection some
  day: the server waits in recv() for it.
* `RedisServer`: weak fairness of the loop and strong fairness of time. Strong,
  because time does not make serverCron due again while the walk over the timers that
  has just run it is going on: serverCron only returns, and 100 ms are long.
* `RedisClient`, `FileTransfer` (in `MCServers`): weak fairness of each process's own
  steps. The redis server owes no answer; nobody is bound to be killed.
* The relays (in `MCRelays`): weak fairness of each program or thread and of peers that
  read. No peer has to send or to end.

## 4. Proofs

Six modules hold the theorems, two more (`BufferListLemmas`, `AeFileEventsProofs`) lemmas
that several of them use. Each theorem is about
the specification of a component as it stands, for every value of its constants that
satisfies the named assumptions, and most state a property that a run checks on a small
instance. TLC checked the inductive invariants on small instances before they were proved.
The pattern is the same everywhere: one lemma for each group of actions says that the
invariant is kept, one theorem puts them together, and a theorem for each property
follows from it.

Some definitions recurse over data: totals are sums over a set, `int()` reads digit by
digit, a walk follows pointers, listDup copies node by node. The library's induction
theorems cannot be applied to them, so the lemma `Induction` states induction with a set
(a set that has 0 and every successor has all numbers) and each proof forms the set of the
sizes for which its claim holds; the recursive function is taken as the CHOOSE it stands
for, whose existence and uniqueness are proved first.

### Buffer list (`BufferListLemmas`, `BufferListProofs`)

For every `NChunks >= 1` and `ChunkSize >= 1` (`BufferListAssumption`); TLC checks 3 and 3.
That the next bytes are offered depends on where every chunk's bytes came from, so the
invariant is `Holds(b, first, next)`: the buffer `b` holds exactly the bytes `first` to
`next - 1` of a stream. It has three parts: `Shape` (chunks before `write_node` are full,
those after it are empty, a head that is not `write_node` has unsent bytes), `Count` (the
unsent bytes in the chunks are `next - first`) and `Order` (the byte at each offset is the
one at that distance from the first unsent one). The lemmas say what each operation does
to it, so that the proxy, which has two buffers per connection, can use them:
`AllocHolds`, `PushHolds`, `RecycleHolds` and `AdvanceHolds` (both cases of Pop),
`HeadIsNext`, `NullIsEmpty`.

* `TypeCorrect`, `SendsInOrder`, `NullMeansDrained`: the invariants of `bufferlist`;
* `ExitIsDead`: exit(0) in BufferListPop (`util.c:171`), which would end the whole
  proxy, is unreachable, also for the single chunk its comment has in mind;
* `WedgeStays`: the action property `WedgeIsPermanent`;
* `ImplementsByteFifo`: the refinement. The abstract queue is the sequence of unsent bytes;
  `PendingIsStream` shows that walking the chunks gives the consecutive bytes of the
  stream, `ReceiveIsPut` and `SendIsGet` that the steps map to steps.

### Event loop (`AeFileEventsProofs`, `RedisProofs`)

For every table size, set of descriptors, clock, length of a second and number of calls by
handlers (`AeFileEventsAssumption`, `AeLoopAssumption`: the table is not empty, its slots
are descriptors, periods are positive). `TableSound` says that epoll's list is the table's
and `maxfd` is exact; `CreateEffect` and `DeleteEffect` say what aeCreateFileEvent and
aeDeleteFileEvent do to each field (`HighestBelowFound` is the search for the new `maxfd`).
The invariant adds to the two properties: `Falling` (ids fall along the list, since timers
are inserted at its head, so each is there once) and `PassSound` (of the timers that
existed when the walk began, those it has passed are not due). `TimeToSleepExact` is the
borrow between seconds and milliseconds.

* `LoopStaysConsistent`, `TimersKeepTime`: the invariants of `ae_loop`;
* `DueTimersRun`: the action property `NoDueTimerSkipped`.

### Proxy (`TcpProxyProofs`)

For any number of connections, chunks, bytes and descriptors (`TcpProxyAssumption`,
`ProxyTableAssumption`: those of the table, for the proxy's handlers). The properties need
each other: that a buffer is flushed depends on its event being armed, that on the table
leading to the live connection that owns the descriptor, and that on descriptors being
given out only when they are free. The invariant is `LiveSound` (connections live and die
in pairs with descriptors of their own), `TableOwned` (a registered descriptor leads to
its handler and to the live struct that owns it), `Armed` (at every step, not only when
the loop sleeps), `Buffered` (`Holds` for both buffers of each pair), `Dispatched` (the
handler that runs was called for a connection that is still live) and `History` (who has
been accepted, and whose end of file was seen). `FreeEffect`, `ErrorEffect`, `ArmEffect`,
`DisarmEffect` and `AllocEffect` are about the procedures the handlers share.

* `OwnershipHolds`, `RelayHolds`: the invariants of `tcpproxy` and `tcpproxy_reuse`;
* `FlushHolds`, `HalfCloseHolds`: their action properties.

### Flow recorder (`FlowRingProofs`)

For any finite set of flows, any ring, limit of files, segments and `-b`
(`FlowRingAssumption`), and streams shorter than the sequence space, that is 4 GB
(`StreamAssumption`: the recorder counts no wraps, a second lap is stored over the first).
The invariant adds to `RingConsistent` and `StoredInPlace`: `Calling` (what store_packet has
established about the segment it is at work on), that the ring is run over only when it
has been contracted to nothing, and `FilesSound` (isn is the number of the first position,
the file position of an open file is `pos` unless a write failed). `WrappedDistance` is
the arithmetic of 32-bit sequence numbers, `SortEffect` and `ShiftStopFound` are about
sort_fds and the shift in contract_fd_ring.

* `RingHolds`, `BytesInPlace`: the invariants of `tcpflow` about the recorder;
* `BytesStay`: the action property `NothingTruncated`.

### Packet statistics (`UnpProofs`)

For any hosts, any set of ports and any number of frames (`PacketStatsAssumption`). The two
reports are a table of counters and a list of conversations, and they agree when sums over
them do. `SumExists`, `SumUnique` and `SumUnfold` say what a sum over a finite set comes
to, `SumChange` how it changes with one term, and `SumOfList` turns it into the sum over
the list. The invariant `StatsInv` is `ReportsAgree` with the types; `FrameNests` shows that
a frame counted for an inner protocol is counted for the outer ones, for ip if the device
is an Ethernet one, and that the rows ip and arp stay empty otherwise; `EitherDirection` and
`CountedIn` that an answer is counted in the conversation of its question.

* `ReportsHold`: the invariant of `tcpflow` about the statistics.

### Benchmark (`UnpProofs`)

For any number of clients and tries (`BenchmarkAssumption`: clients are numbered in the
order of the forks). `BenchInv` says, beside the types, that clients are forked in order
(`ForkedInOrder`), what each client's counters are at every place where the alarm may
strike (`CountedSoFar`: exact, or off by the one request that the alarm interrupted), and
that the results in the pipe are those of some exited clients, each once, while the
parent's totals are the sum over the other exited ones (`WrittenBy`).

* `CountersHold`: the invariant of `web` about the benchmark.

### Web server (`UnpProofs`)

For any number of clients, slots and descriptors and any lengths (`SvHttpdAssumption`: there
is a slot, a block and a send buffer of one byte at least). The invariant relates what a
client got to the state and the offsets of its connection (`SentSoFar`), and says where
the sets of select() are still valid (`ReadyIsListed` before the accept, `ReadyIsCurrent`
in the handlers) and that clients that were not accepted have no slot (`NotAccepted`).

* `ConnectionsHold`, `ResponsesInOrder`: the invariants of `web` about the server;
* `StuckStays`: the action property `StuckForGood`.

### Small servers (`ServerProofs`)

* Echo server (`EchoAssumption`): `EchoInv` counts, for each listening socket, one
  arrival for an edge that was not reported, one for an event that was not handled, and
  the ones without either; and, for each client without a vain send(), that what was
  not echoed is still to be read. `EchoKeepsAccounts` proves `EchoAccounts`.
* Epoll server (`EpollAssumption`): by `EpollInv` every open connection is `Settled`
  (read to its end, as far as the end can be seen) or `Attended` (an edge, an event with
  EPOLLIN, or handler_client is at work on it). That a short read hides an end of stream
  only for the clients in `odd` needs `TailIsKnown`: after the end whole buffers are
  read, which keep the rest modulo `BUF_SIZE` (`SameRest`). `ShortReadsLoseNothing` proves
  `EdgesSuffice`.
* Redis skeleton (`RedisAssumption`: the listening socket is within the table): `RedisInv`
  says that the list has no descriptor twice and that descriptors, table and epoll are
  the list's and the server's own. `CreateStep` uses that the lowest free descriptor is
  in none of them, `ListFitsTable` bounds the list by the table. `ClientsHold` proves
  `ClientsConsistent`.

### Relays (`ServerProofs`)

For the specification `Spec` of `MCRelays`, in which one of the four relays runs.

* Select proxy (`SimpleProxyAssumption`: the bounds are numbers). `SimpleInv` says that
  `read_socks` lists each open socket once and `routes` leads from each to its partner,
  open or not (`ListRight`), that what is left of select()'s answer is still true
  (`RoundRight`), that both sockets of a pair are made together (`PairsRight`), that what
  was received from a socket was sent to its partner, is being sent, or was dropped when a
  reset of the partner cut send() short (`SentRight`), and for which reasons the program
  can have died (`DiedRight`).
* Threaded proxy (`ThreadProxyAssumption`: the digits of a port are digits). `ThreadInv`
  says at each place of a thread which sockets it holds (`Tidy`) and which port it used
  (`PortRight`), and counts the descriptors of all threads (`HeldIn`). That the port loses
  the last digit of what the first segment held is `PortLosesDigits`, from what `int()`
  computes (`IsValue`, `ValueExists`, `DropDigit`) and from `LineTyped`, what a first
  segment can hold.
* `RelaysHold`: the invariant `RelaysSound` of `relays`, both of the above.
* Chat room (`ChatRoomAssumption`: clients are numbered from 1, 0 is the server's own
  socket). `ChatInv` says that `read_socks` lists each member once and what is left of
  select()'s answer are members that do not leave (`LoopRight`), that a client waits,
  joins and leaves once, and who is still to be sent the last message (`ClientRight`),
  that a client has seen what it is to see but for that message, and that its lines, as
  broadcast and as still unread, are those it typed (`SeenBy`), and that a member's ID is
  the one of its join and of nobody else (`IdsRight`). `DeathRight` names what ends the
  server: a reset, or accept() for want of descriptors (`OutOfFds`). `SublistAppend`,
  `FlattenAppend`, `ShownAppend` and `SaidAppend` say what one more broadcast adds to the histories;
  `Sublist` is a recursive function because the library's SelectSeq cannot be expanded by
  the prover.
* `OrderHolds`: the invariant `SameOrder` of `relays`.
* SOCKS tunnel. `TableAssumption` says that the table is a permutation of the bytes, which
  is what `get_table` returns. `TalksAssumption` says that a client asks for one address,
  and that the rest of a greeting that came in two pieces, which local.py takes for the
  beginning of the request, does not by chance spell a request for the same address:
  otherwise `dialled = Asked` would not tell whether the request was parsed where it is.
  `DialsOf` is what server.py may come to dial: what was asked for, or what the rest of a
  split greeting spells, alone or with the request behind it (`MisreadOf`).
  `TunnelFaithful` speaks of the time when both threads relay; the invariant `TunnelInv`
  says what is true before and after: what the client has sent and local.py not yet read
  in each stage of the handshake (`Opening`), in which order the two programs get there and
  that only the end of a thread closes the hop between them (`Stages`), that what waits for
  server.py begins with one whole encoded address (`Addressed`) and what it dials
  (`DialledRight`). For each direction `PipeRight` relates what was sent to what was got, the
  three hops and the two threads, and becomes weaker piece by piece as parts of the way
  are closed, until the prefix is left (`UpRight`, `DownRight`). `CodeRight` and `DecodeJoin`
  are that decoding undoes encoding and goes piece by piece, so that it does not matter
  how recv() and send() cut the stream; `PipeNear`, `PipeFar` and `PipeSource` are the steps
  by which bytes enter and move through a pipe, `AddressRead` the parse in server.py.
* `TunnelHolds`: the invariant `TunnelFaithful` of `relays`.
* `GridlockStaysForever` (`TableAssumption`): the action property `GridlockIsForever` of
  the tunnel. That both threads of both programs wait for room is kept by every step,
  since each waits for room that only another one's step could make.

### Doubly linked list (`RedisProofs`)

For any finite set of addresses and any lists (`AdlistAssumption`: NULL is none of them).
The pointers say nothing about the order as a whole, so the invariant `ListInv` names it:
for some assignment of a row of distinct nodes to each list, `prev` and `next` of each node
are its neighbours in the row and `head`, `tail` and `len` are the row's (`Linked`), the
rows are disjoint and together are the allocated nodes (`Rowed`), and the iterator, if there
is one, stands on its row with every node it still owes ahead of it and none that it has
seen (`IterRight`, `OnRow`, `Ahead`). `SplicedLinked` and `CutLinked` are about putting one
node into a row and taking one out; insertion at both ends and next to a node, deletion and
rotation are these (`AddNodeHeadSplices` to `DelNodeCuts`, `RotatedRowed`). `WalkAlong` says
what following pointers returns, `DupRounds` what the loop of listDup has built after each
round.

* `ListsTyped`, `BothWaysHold`: walking back gives the reverse of walking forward, `len`
  counts the nodes, every allocated node is in one list (the list's part of `LinksSound`);
* `IterationHolds`: the invariant `IterationComplete` of `containers`, with nodes
  added and deleted, also the one just returned, while the iteration goes on.

### Only model-checked

* All liveness properties: the prover has no support for fairness and ENABLED.
* What the exercises, the policy parser and the redis client compute: their models are
  recursive operators, with which a module is out of the prover's reach.
* The skip list, the tree and the queue, and that the containers implement the abstract
  ones (`ContainersRefine`): the order of a skip list on all levels and the shape of a tree
  are recursive definitions, and the refinement needs what every operation does to the
  values in them.
* That open_file ends (violated, section 5).

## 5. Findings

* `tcpproxy_eof`: when all chunks are full and the first has been sent and recycled,
  `write_node` is full and is not the tail. `BufferListGetSpace` tests `size ==
  ChunkSize` only together with "is the tail" and so returns a pointer with a length
  of 0 instead of NULL; recv() with length 0 returns 0, and `ReadIncome` closes the
  connection as if the peer had.
* `flow_out_of_files`: `contract_fd_ring` counts slots down to zero and leaves the
  last pointer in `fd_ring[0]`; the sanity test that should end the program looks at
  that pointer, and `open_file` retries for ever.

Observations without a run of their own, where no comment or doc promises otherwise
or where the code does not build:

* A timer that is already due when the timeout is computed may be delayed by almost
  a second, because the borrow leaves a positive number of milliseconds
  (`ae.c:327`); `TimersOnTime` states the exact bound.
* A stop request between the test of the flag and an epoll_wait that no timer
  bounds waits for the next event (`ae.c:392`); one before aeMain is cleared by it.
* A failed write in tcpflow leaves `pos` where the write should have ended, so later
  segments of the flow are misplaced (`tcpip.c:344`); `StoredInPlace` excepts those
  flows.
* `sv_sendfile_conn` advances the file offset by what it read, not by what write()
  took: the rest of a block is dropped (`sv_conn.c:259`). `ResponseInOrder` says what
  is still true.
* The benchmark's parent keeps the write end of its own pipe open, so the message
  "some of our children died." (`ben_core.c:190`) cannot appear and a killed client
  leaves the parent waiting; an alarm between the test and read() leaves a client
  waiting for the server.
* `sldelete` dereferences NULL for a value larger than all stored ones, while main()
  is ready to print "sl delete failed".
* The echo server takes one connection or datagram per edge, so that one that arrives
  together with another waits for the next arrival (`tcp_udp_echo.c:120`, `:188`); a
  reset of a client whose data has all been read leaks its descriptor (`:202`).
* In the simple epoll server a client that closes right behind a last short message is
  never closed (`server.c:121`), and one client's reset ends the server (`:105`).
* `anetSetBlock` of the redis skeleton computes the flags and does not pass them to
  fcntl(F_SETFL) (`anet.c:33`). If the socket stays blocking, the accept() after the
  last waiting connection blocks the loop, where `networking.c:45` says "wrong or BLOCK
  ,both should return"; `RedisServes` promises serverCron only for the other outcome.
  The refusal at `networking.c:21` is unreachable: the table of `maxclients` entries
  is full before the list is.
* A client that half-closes after its request loses the reply: the proxy frees it at the
  end of file (`tcpproxy.c:222`, `HalfCloseIsFinal`).
* A blank before the closing brace of a group makes the policy parser append a host
  without an address (`policy.c:375`); a remote given by its port alone has no address
  either, and connecting to it is given NULL. `ParsedAsWritten` names the first.
* `simple_proxy.py` forgets one socket of a pair: what its partner sends next ends the
  whole program (`StaleRouteIsFatal`). A reset does too, but for one that cuts short a send()
  in the middle: then the rest of the bytes is dropped and the loop goes on (`:36`). With no
  descriptor left accept() or socket() raises and ends the program (`:39`, `:41`).
* In the chat room a client's reset ends the server, and a client that leaves with a message
  unread sends one; so does a client too many for the descriptors (`chatroom.py:37`).
* In the threaded proxy an explicit port loses its last digit, and the one before it if no
  path follows; a request line that the first recv() cuts loses more (of `http://h:8080/`
  a segment that ends behind `h:808` dials 8, behind `h:8` int() raises, behind `h:` it
  dials 80), and with no descriptors left accept() ends the program with all its threads.
* On devices other than Ethernet tcpflow's report has 0 packets and 0 for ip above the rows
  of icmp, udp and tcp that do count (`datalink.c`), and its percentages of packets divide by that 0.
* A second policy argument replaces the first one, whose addresses are never freed
  (`tcpproxy.c:41`); `ParsedAsWritten` says that these, and only these, leak.
* The SOCKS tunnel takes one recv() for the whole greeting, and dials whatever the rest
  of a split one spells (`local.py:69`); with both directions full the two programs wait
  for each other for good (`GridlockIsForever`).
* The redis client does not look at the results of anetWrite and anetRead: after an early
  end it shows uninitialised bytes and reports success; an error line in place of a bulk
  makes it wait for two more bytes (`redis-cli.c:104`); for a negative length malloc() fails
  and fwrite() gets NULL. Commands may be abbreviated, and are sent abbreviated.
* An empty file name in `unp/ipc` leaves both processes waiting (`pipe.c:52`);
  `client_recv.c:45` assigns in its test and cuts the last character of a name that the
  end of the input ends.
* `list_push` of `nginx_list.c` leaves `nelts` and `next` of a new part unset; the program
  works because fresh memory is zero.
* `reverseTwo` on a position and the one before it links a node to itself; the
  calculator loses a bare number; both are excepted by name in the properties.
* Not modelled because it cannot run as it stands: `sort4nums`, `minDepth` of
  `depthoftree.c`, the pre-order `create_tree`, `titleToNumber` (uninitialised index),
  the first version in `reverslinklist_K_group.c` (unterminated comment), the "wrong"
  version in `inorder_traver_binary_tree.c`.

## 6. Not modelled, and why

Start-up code, option parsing, logging, formatting and name construction have no
state the properties tell apart. `crypte/` is floating point. `ae_select.c` and
`ae_kqueue.c` are not compiled on Linux; `client_handler.c` and `2baktcp.c` are drafts
outside the build; the libae demo does not link as it stands. `zmalloc.c` counts bytes
that nothing reads. The simple epoll client reads the terminal only when its socket is
writable and otherwise mirrors the server that is modelled; `copy.c`, `socketpair.c`,
`pr0.c`, `pr1.c` and the files of `unp/` itself are straight lines of system calls. Memory
that leaks without being referred to is not state of the models, except for the
addresses of policies and the elements of the queue.

## 7. Plan

Done, in the order of importance: the proxy (buffer list, event loop, relay, policy),
tcpflow, the web server, the benchmark, the small servers, the relays in Python, the redis
client, the file transfers, the containers, the exercises; theorems about the buffer list,
the event loop, the proxy, the flow recorder and its statistics, the benchmark, the web
server, the small servers, the select and the threaded proxy, the SOCKS tunnel, the chat
room, and the doubly linked list.

Modelling that could still be added: the simple epoll client together with
`EpollServer`; tcpflow's choice of `max_fds`.

Proofs that could still be added:

1. `Adlist`: the refinement of `NodeLists`, from `ListInv` and the effect of each
   operation on the row;
2. `FileTransfer`: who holds which end of a channel.
