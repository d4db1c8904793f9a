------------------------------ MODULE EpollServer ------------------------------
(***************************************************************************)
(* simple_epoll/server.c: a level-triggered listening socket and           *)
(* non-blocking connections that are registered edge-triggered for input   *)
(* and output.  handler_client reads until a read() is short, and any      *)
(* error but EAGAIN ends the server (oops).  What it sends back is not     *)
(* looked at; a send() to a client that is gone is answered by a reset,    *)
(* one to a client that has reset takes the socket's error, and the next   *)
(* one raises SIGPIPE.                                                     *)
(***************************************************************************)
EXTENDS Naturals, Sequences, FiniteSets

CONSTANTS
    EpollClients,   \* clients, each connects once
    BUF_SIZE,       \* what one read() takes
    EpollFds,       \* connections the process has descriptors for
    MaxInput        \* bytes a client sends at most

Listen == "listen_fd"

ASSUME EpollAssumption ==
    /\ EpollClients # {} /\ Listen \notin EpollClients
    /\ BUF_SIZE \in Nat \ {0} /\ {EpollFds, MaxInput} \subseteq Nat

VARIABLES
    spc,            \* where the server is
    event_list,     \* events of this round: [fd, in], in: EPOLLIN is in revents
    event_fd,       \* the connection handler_client is called for
    ready,          \* connections with an edge that was not reported yet
    waiting,        \* connections not accepted yet
    link,           \* a client's connection in the server
    pending,        \* bytes that were not read yet
    written,        \* bytes a client has sent
    far,            \* the client's end: not there, open, half (sends no more), gone or reset
    late,           \* connections with a send() after the client was gone or had reset
    back,           \* connections for which that send() was answered by a reset
    odd             \* clients that ended behind unread bytes, not a multiple of BUF_SIZE

serverVars == <<spc, event_list, event_fd>>
linkVars == <<ready, waiting, link, pending, written, far, late, back, odd>>
epollVars == <<serverVars, linkVars>>

EpollInit ==
    /\ spc = "epoll_wait" /\ event_list = {}
    /\ event_fd = CHOOSE c \in EpollClients : TRUE
    /\ ready = {} /\ waiting = <<>>
    /\ link = [c \in EpollClients |-> "none"]
    /\ pending = [c \in EpollClients |-> 0]
    /\ written = pending
    /\ far = [c \in EpollClients |-> "none"]
    /\ late = {} /\ back = {} /\ odd = {}
-------------------------------------------------------------------------------
Changed(c) == ready' = IF link[c] = "open" THEN ready \cup {c} ELSE ready

EpollConnects(c) ==
    /\ far[c] = "none"
    /\ far' = [far EXCEPT ![c] = "open"]
    /\ link' = [link EXCEPT ![c] = "queued"]
    /\ waiting' = Append(waiting, c)
    /\ UNCHANGED <<serverVars, ready, pending, written, late, back, odd>>

EpollSends(c) ==
    /\ far[c] = "open" /\ written[c] < MaxInput
    /\ written' = [written EXCEPT ![c] = @ + 1]
    /\ pending' = [pending EXCEPT ![c] = @ + 1]
    /\ Changed(c)
    /\ UNCHANGED <<serverVars, waiting, link, far, late, back, odd>>

EpollEnds(c) ==
    /\ far[c] = "open"
    /\ \E how \in {"half", "gone", "reset"} : far' = [far EXCEPT ![c] = how]
    /\ odd' = IF pending[c] % BUF_SIZE # 0 THEN odd \cup {c} ELSE odd
    /\ Changed(c)
    /\ UNCHANGED <<serverVars, waiting, link, pending, written, late, back>>

ResetComesBack(c) ==
    /\ far[c] = "gone" /\ c \in late \ back
    /\ back' = back \cup {c}
    /\ Changed(c)
    /\ UNCHANGED <<serverVars, waiting, link, pending, written, far, late, odd>>
-------------------------------------------------------------------------------
Readable(c) == pending[c] > 0 \/ far[c] # "open"

\* The listening socket is reported as long as a connection waits, the others once
\* for each change.
epoll_wait ==
    /\ spc = "epoll_wait"
    /\ ready # {} \/ waiting # <<>>
    /\ event_list' = [fd : IF waiting = <<>> THEN {} ELSE {Listen}, in : {TRUE}]
                     \cup {[fd |-> c, in |-> Readable(c)] : c \in ready}
    /\ ready' = {}
    /\ spc' = "events"
    /\ UNCHANGED <<event_fd, waiting, link, pending, written, far, late, back, odd>>

RoundDone ==
    /\ spc = "events" /\ event_list = {}
    /\ spc' = "epoll_wait"
    /\ UNCHANGED <<event_list, event_fd, linkVars>>

EpollOpen == {c \in EpollClients : link[c] = "open"}

\* A new connection can be written to, so it is reported at once.
AcceptClient ==
    /\ spc = "events" /\ \E e \in event_list : e.fd = Listen /\ event_list' = event_list \ {e}
    /\ IF Cardinality(EpollOpen) < EpollFds
       THEN /\ waiting' = Tail(waiting)
            /\ link' = [link EXCEPT ![Head(waiting)] = "open"]
            /\ ready' = ready \cup {Head(waiting)}
            /\ UNCHANGED spc
       ELSE spc' = "exited" /\ UNCHANGED <<waiting, link, ready>>
    /\ UNCHANGED <<event_fd, pending, written, far, late, back, odd>>

\* handler_client is called; without EPOLLIN it returns.
HandleClient ==
    /\ spc = "events"
    /\ \E e \in event_list :
          /\ e.fd # Listen
          /\ event_list' = event_list \ {e}
          /\ event_fd' = e.fd
          /\ spc' = IF e.in THEN "read" ELSE "events"
    /\ UNCHANGED linkVars

\* What read() returned is sent back; SIGPIPE if a reset has been met already.
Broken(c) == c \in back \/ (far[c] = "reset" /\ c \in late)
SendsBack(c) ==
    /\ ~Broken(c)
    /\ late' = IF far[c] \in {"gone", "reset"} THEN late \cup {c} ELSE late

\* Mutant: a full buffer is taken for the last one.
ReadFullReturns ==
    /\ spc = "read" /\ pending[event_fd] >= BUF_SIZE
    /\ SendsBack(event_fd)
    /\ pending' = [pending EXCEPT ![event_fd] = @ - BUF_SIZE]
    /\ spc' = "events"
    /\ UNCHANGED <<event_list, event_fd, ready, waiting, link, written, far, back, odd>>

\* n == BUF_SIZE: sent back, and read() is called again.
ReadFull ==
    /\ spc = "read" /\ pending[event_fd] >= BUF_SIZE
    /\ SendsBack(event_fd)
    /\ pending' = [pending EXCEPT ![event_fd] = @ - BUF_SIZE]
    /\ UNCHANGED <<serverVars, ready, waiting, link, written, far, back, odd>>

\* n < BUF_SIZE: sent back, and the handler returns, whatever else is there.
ReadShort ==
    /\ spc = "read" /\ pending[event_fd] \in 1 .. BUF_SIZE - 1
    /\ SendsBack(event_fd)
    /\ pending' = [pending EXCEPT ![event_fd] = 0]
    /\ spc' = "events"
    /\ UNCHANGED <<event_list, event_fd, ready, waiting, link, written, far, back, odd>>

\* EAGAIN: n is -1, the byte before buf is set to 0, and nothing is sent.
ReadNothing ==
    /\ spc = "read" /\ pending[event_fd] = 0 /\ far[event_fd] = "open"
    /\ spc' = "events"
    /\ UNCHANGED <<event_list, event_fd, linkVars>>

\* SIGPIPE ends the server.
SendBreaks ==
    /\ spc = "read" /\ pending[event_fd] > 0
    /\ Broken(event_fd)
    /\ spc' = "exited"
    /\ UNCHANGED <<event_list, event_fd, linkVars>>

\* n == 0: the client has closed, or a send() has taken the error of its reset.
\* close() takes the socket out of epoll.
ReadEnd ==
    /\ spc = "read" /\ pending[event_fd] = 0
    /\ far[event_fd] \in {"half", "gone"} \/ (far[event_fd] = "reset" /\ event_fd \in late)
    /\ link' = [link EXCEPT ![event_fd] = "closed"]
    /\ ready' = ready \ {event_fd}
    /\ spc' = "events"
    /\ UNCHANGED <<event_list, event_fd, waiting, pending, written, far, late, back, odd>>

\* oops("read wrong"): the reset of one client ends the server.
ReadWrong ==
    /\ spc = "read" /\ pending[event_fd] = 0
    /\ far[event_fd] = "reset" /\ event_fd \notin late
    /\ spc' = "exited"
    /\ UNCHANGED <<event_list, event_fd, linkVars>>

EpollServe ==
    \/ epoll_wait \/ RoundDone \/ AcceptClient \/ HandleClient
    \/ ReadFull \/ ReadShort \/ ReadNothing \/ SendBreaks \/ ReadEnd \/ ReadWrong

EpollNext ==
    \/ EpollServe
    \/ \E c \in EpollClients : EpollConnects(c) \/ EpollSends(c) \/ EpollEnds(c) \/ ResetComesBack(c)

EpollSpec == EpollInit /\ [][EpollNext]_epollVars
-------------------------------------------------------------------------------
\* Returning after a short read loses no input: when the server sleeps and no edge is
\* due for a connection, all its bytes have been read, with other bytes arriving
\* between epoll_wait, each read() and the return.  Its end may be missed, but only
\* behind unread bytes that do not fill their last buffer.
EdgesSuffice ==
    spc = "epoll_wait" =>
        \A c \in EpollOpen \ ready :
            /\ pending[c] = 0
            /\ far[c] # "open" => c \in odd
===============================================================================
