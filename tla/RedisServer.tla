------------------------------ MODULE RedisServer ------------------------------
(***************************************************************************)
(* The redis server skeleton (epoll-mode-copied-from-redis): redis.c and   *)
(* networking.c on their own copy of the event loop.  Only read events are *)
(* ever registered, and there is one time event, serverCron.  Time is      *)
(* counted in milliseconds relative to serverCron: due is the time left.   *)
(*                                                                         *)
(* readQueryFromClient returns without reading, so that a client that has  *)
(* sent something, or has gone, stays ready for ever.  anetSetBlock calls  *)
(* fcntl(F_SETFL) without the flags it has computed: whether the listening *)
(* socket becomes non-blocking depends on what is in that register.        *)
(***************************************************************************)
EXTENDS Integers, Sequences, FiniteSets, SequencesExt

CONSTANTS
    maxclients,             \* also the size of the event table
    FdLimits,               \* values of the process's limit of descriptors
    MAX_ACCEPTS_PER_CALL,
    CronPeriod,             \* what serverCron returns
    MsPerSecond,
    MaxConnections,         \* bound: connections that arrive
    MaxLate                 \* bound: how late the loop may be

\* Descriptor 3 is that of epoll_create, 4 that of listenToPort.
ipfd == 4
ServerFds == 0 .. ipfd

\* The server starts: the listening socket is within the event table.
ASSUME RedisAssumption == maxclients \in Nat /\ ipfd < maxclients /\ FdLimits \subseteq Nat

VARIABLES
    rpc,            \* where the server is
    limit,          \* descriptors the process may have
    nonblock,       \* does accept() return when nobody waits?
    fds,            \* its open descriptors
    mask,           \* descriptors with AE_READABLE in events[].mask
    epfd,           \* descriptors epoll watches
    clients,        \* server.clients, by descriptor
    fired,          \* fired[j] and behind
    max,            \* accepts left in this call
    due,            \* when serverCron is to run, from now
    sleep,          \* the rest of epoll_wait's timeout
    queued, arrived,\* connections in the kernel, and all so far
    active          \* clients that have sent something or are gone

aeVars == <<rpc, mask, epfd, fired, max>>
redisTime == <<due, sleep>>
redisNet == <<queued, arrived, active>>
redisProc == <<limit, nonblock, fds, clients>>
redisVars == <<aeVars, redisTime, redisNet, redisProc>>

RedisClients == Range(clients)

RedisInit ==
    /\ rpc = "aeMain"
    /\ limit \in FdLimits
    /\ nonblock \in BOOLEAN
    /\ fds = ServerFds /\ mask = {ipfd} /\ epfd = {ipfd}
    /\ clients = <<>>
    /\ fired = {} /\ max = 0
    /\ due = 1 /\ sleep = 0
    /\ queued = 0 /\ arrived = 0 /\ active = {}
-------------------------------------------------------------------------------
\* The kernel and the clients.
Arrive ==
    /\ arrived < MaxConnections
    /\ arrived' = arrived + 1 /\ queued' = queued + 1
    /\ UNCHANGED <<aeVars, redisTime, active, redisProc>>

Act(fd) ==
    /\ fd \in RedisClients
    /\ active' = active \cup {fd}
    /\ UNCHANGED <<aeVars, redisTime, queued, arrived, redisProc>>

\* A millisecond passes.  serverCron only returns, so that the walk over the time
\* events is over before serverCron is due again.
Passes ==
    /\ rpc = "processTimeEvents" => due # 1
    /\ due' = IF due > -MaxLate THEN due - 1 ELSE due
    /\ sleep' = IF rpc = "epoll_wait" /\ sleep > 0 THEN sleep - 1 ELSE sleep
    /\ UNCHANGED <<aeVars, redisNet, redisProc>>

\* SIGINT or SIGTERM: sigShutDownHandler exits.
Shutdown ==
    /\ rpc # "exited"
    /\ rpc' = "exited"
    /\ UNCHANGED <<mask, epfd, fired, max, redisTime, redisNet, redisProc>>
-------------------------------------------------------------------------------
\* aeProcessEvents: the timeout from the nearest timer.  Seconds that are negative
\* are cut off, milliseconds that were borrowed stay.
TimeLeft == IF due >= 0 THEN due ELSE due % MsPerSecond

ProcessEvents ==
    /\ rpc = "aeMain"
    /\ sleep' = TimeLeft
    /\ rpc' = "epoll_wait"
    /\ UNCHANGED <<mask, epfd, fired, max, due, redisNet, redisProc>>

Ready == {fd \in epfd : IF fd = ipfd THEN queued > 0 ELSE fd \in active}

\* aeApiPoll: all that is ready, or the timeout.
Poll ==
    /\ rpc = "epoll_wait"
    /\ Ready # {} \/ sleep = 0
    /\ fired' = Ready
    /\ rpc' = "dispatch"
    /\ UNCHANGED <<mask, epfd, max, redisTime, redisNet, redisProc>>

\* The table is asked again before a handler is called; that of a client returns.
Dispatch(fd) ==
    /\ rpc = "dispatch" /\ fd \in fired
    /\ fired' = fired \ {fd}
    /\ IF fd = ipfd /\ fd \in mask
       THEN rpc' = "acceptTcpHandler" /\ max' = MAX_ACCEPTS_PER_CALL
       ELSE UNCHANGED <<rpc, max>>
    /\ UNCHANGED <<mask, epfd, redisTime, redisNet, redisProc>>

\* Mutant: time events are looked at when no file event fired.
SkipsTimeEvents ==
    /\ rpc = "dispatch" /\ fired = {}
    /\ rpc' = IF Ready = {} THEN "processTimeEvents" ELSE "aeMain"
    /\ UNCHANGED <<mask, epfd, fired, max, redisTime, redisNet, redisProc>>

DispatchEnds ==
    /\ rpc = "dispatch" /\ fired = {}
    /\ rpc' = "processTimeEvents"
    /\ UNCHANGED <<mask, epfd, fired, max, redisTime, redisNet, redisProc>>

Unused == {fd \in 0 .. limit - 1 : fd \notin fds}
Lowest(S) == CHOOSE fd \in S : \A x \in S : fd <= x

\* Mutant: the table takes one descriptor too many.
CreateFailsLate(fd) == fd > maxclients

\* aeCreateFileEvent fails for a descriptor beyond the table of maxclients entries.
CreateFails(fd) == fd >= maxclients

aeApiAddEvent(fd) == epfd' = epfd \cup {fd}
aeCreateFileEvent(fd) == aeApiAddEvent(fd) /\ mask' = mask \cup {fd}

\* A blocking accept() waits for a connection, and the loop with it.
Waits == queued = 0 /\ ~nonblock /\ Unused # {}

\* acceptTcpHandler: the queue is empty, no descriptor is left, or enough for once.
AcceptReturns ==
    /\ rpc = "acceptTcpHandler"
    /\ max = 0 \/ ((queued = 0 \/ Unused = {}) /\ ~Waits)
    /\ rpc' = "dispatch"
    /\ UNCHANGED <<mask, epfd, fired, max, redisTime, redisNet, redisProc>>

\* createClient fails and closes the descriptor; acceptCommonHandler closes it again,
\* before anything else could get the number.
CreateClientFails ==
    /\ rpc = "acceptTcpHandler"
    /\ max > 0 /\ queued > 0 /\ Unused # {}
    /\ CreateFails(Lowest(Unused))
    /\ max' = max - 1 /\ queued' = queued - 1
    /\ UNCHANGED <<rpc, mask, epfd, fired, redisTime, arrived, active, redisProc>>

\* Is the client that was added one too many?  freeClient takes it out of the table,
\* of epoll and of the list again, and closes it.
Refused == Len(clients) + 1 > maxclients
freeClient == UNCHANGED <<mask, epfd, fds, clients>>

\* createClient succeeds; a client above server.maxclients is freed at once.
createClient ==
    /\ rpc = "acceptTcpHandler"
    /\ max > 0 /\ queued > 0 /\ Unused # {}
    /\ LET fd == Lowest(Unused)
       IN  /\ ~CreateFails(fd)
           /\ IF Refused
              THEN freeClient
              ELSE /\ aeCreateFileEvent(fd)
                   /\ fds' = fds \cup {fd}
                   /\ clients' = Append(clients, fd)
    /\ max' = max - 1 /\ queued' = queued - 1
    /\ UNCHANGED <<rpc, fired, redisTime, arrived, active, limit, nonblock>>

\* processTimeEvents: serverCron returns its period and is asked for again, then the
\* walk is over.
serverCron ==
    /\ rpc = "processTimeEvents" /\ due <= 0
    /\ due' = CronPeriod
    /\ UNCHANGED <<aeVars, sleep, redisNet, redisProc>>

TimeEventsEnd ==
    /\ rpc = "processTimeEvents" /\ due > 0
    /\ rpc' = "aeMain"
    /\ UNCHANGED <<mask, epfd, fired, max, redisTime, redisNet, redisProc>>

RedisLoop ==
    \/ ProcessEvents \/ Poll \/ (\E fd \in fired : Dispatch(fd)) \/ DispatchEnds
    \/ AcceptReturns \/ CreateClientFails \/ createClient \/ serverCron \/ TimeEventsEnd

RedisNext == RedisLoop \/ Arrive \/ (\E fd \in fds : Act(fd)) \/ Passes \/ Shutdown

RedisSpec == RedisInit /\ [][RedisNext]_redisVars

\* The process runs and time passes, if not during every walk over the time events.
RedisFairness == WF_redisVars(RedisLoop) /\ SF_redisVars(Passes)
-------------------------------------------------------------------------------
\* Every client of the list has a descriptor of its own, open, within the table, and
\* watched for reading, and nothing else is open or watched, whichever limit is met
\* first.  So the table is full before the list is longer than maxclients, and the
\* refusal "-ERR max numbe of clients reached" is never sent.
ClientsConsistent ==
    /\ IsInjective(clients)
    /\ fds = ServerFds \cup RedisClients
    /\ mask = {ipfd} \cup RedisClients /\ epfd = mask
    /\ mask \subseteq 0 .. maxclients - 1
    /\ Len(clients) + Cardinality(ServerFds) <= maxclients

\* Clients that nobody reads from keep the loop from ever sleeping, and still neither
\* serverCron nor the listening socket starves: a queue of connections is emptied
\* unless the descriptors have run out, and serverCron runs again and again if the
\* listening socket has become non-blocking.
LoopServes ==
    /\ queued > 0 ~> queued = 0 \/ Unused = {} \/ rpc = "exited"
    /\ nonblock => []<>(rpc = "exited" \/ (rpc = "processTimeEvents" /\ due <= 0))
===============================================================================
