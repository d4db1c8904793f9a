----------------------------- MODULE AeFileEvents -----------------------------
(***************************************************************************)
(* The file-event table of the ae event library (redis_ae/tcpproxy/ae.c)   *)
(* and the epoll interest list that shadows it (ae_epoll.c), as operators  *)
(* on a record:                                                            *)
(*   mask, rproc, wproc, data : the fields of events[fd]                   *)
(*   maxfd                    : the highest registered descriptor, or -1   *)
(*   interest                 : the kernel's epoll list; {} is not listed  *)
(***************************************************************************)
EXTENDS Integers

CONSTANTS
    SetSize,    \* the argument of aeCreateEventLoop: 1024 in tcpproxy.c
    Fd,         \* descriptors the process may hold, some possibly >= SetSize
    Proc,       \* handler functions
    Data,       \* clientData pointers
    Unset       \* the value of an events[] field that was never assigned

ASSUME AeFileEventsAssumption ==
    /\ SetSize \in Nat \ {0}
    /\ Fd \subseteq Nat
    /\ 0 .. SetSize - 1 \subseteq Fd
    /\ Unset \notin Proc \cup Data

Direction == {"READABLE", "WRITABLE"}
Slot == 0 .. SetSize - 1

EventTable ==
    [mask : [Slot -> SUBSET Direction],
     rproc : [Slot -> Proc \cup {Unset}],
     wproc : [Slot -> Proc \cup {Unset}],
     data : [Slot -> Data \cup {Unset}],
     maxfd : -1 .. SetSize - 1,
     interest : [Slot -> SUBSET Direction]]

aeCreateEventLoop ==
    [mask |-> [fd \in Slot |-> {}],
     rproc |-> [fd \in Slot |-> Unset],
     wproc |-> [fd \in Slot |-> Unset],
     data |-> [fd \in Slot |-> Unset],
     maxfd |-> -1,
     interest |-> [fd \in Slot |-> {}]]

\* epoll_ctl refuses EPOLL_CTL_ADD of a listed and EPOLL_CTL_MOD of an unlisted
\* descriptor; aeApiAddEvent chooses between the two by the mask in events[].
aeApiAddEventFails(t, fd) == (t.mask[fd] = {}) # (t.interest[fd] = {})

\* aeCreateFileEvent returns AE_ERR, with the table unchanged.
CreateFails(t, fd) == fd >= SetSize \/ aeApiAddEventFails(t, fd)

\* aeCreateFileEvent when it succeeds.
aeCreateFileEvent(t, fd, mask, proc, data) ==
    [t EXCEPT !.mask[fd] = @ \cup mask,
              !.rproc[fd] = IF "READABLE" \in mask THEN proc ELSE @,
              !.wproc[fd] = IF "WRITABLE" \in mask THEN proc ELSE @,
              !.data[fd] = data,
              !.maxfd = IF fd > @ THEN fd ELSE @,
              !.interest[fd] = t.mask[fd] \cup mask]

\* The highest descriptor below n that some mask registers, or -1: the downward
\* scan of aeDeleteFileEvent.
HighestBelow(masks, n) ==
    CHOOSE j \in -1 .. n - 1 :
        /\ j # -1 => masks[j] # {}
        /\ \A i \in j + 1 .. n - 1 : masks[i] = {}

\* Mutant: maxfd is recomputed whenever a mask of maxfd is deleted.
DeleteDropsMaxfd(t, fd, mask) ==
    IF fd >= SetSize \/ t.mask[fd] = {} THEN t
    ELSE LET rest == t.mask[fd] \ mask
             masks == [t.mask EXCEPT ![fd] = rest]
         IN  [t EXCEPT !.mask = masks,
                       !.maxfd = IF fd = @ THEN HighestBelow(masks, @) ELSE @,
                       !.interest[fd] = rest]

aeDeleteFileEvent(t, fd, mask) ==
    IF fd >= SetSize \/ t.mask[fd] = {} THEN t
    ELSE LET rest == t.mask[fd] \ mask
             masks == [t.mask EXCEPT ![fd] = rest]
         IN  [t EXCEPT !.mask = masks,
                       !.maxfd = IF fd = @ /\ rest = {} THEN HighestBelow(masks, @) ELSE @,
                       !.interest[fd] = rest]
===============================================================================
