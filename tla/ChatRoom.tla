-------------------------------- MODULE ChatRoom --------------------------------
(***************************************************************************)
(* python/chatroom.py: a server that passes what one client says to all    *)
(* the others, on one thread with select(), and the client program.  What  *)
(* a client sends has no end mark: the server takes all that has arrived   *)
(* as one message.  A socket error that nothing catches ends the server.   *)
(***************************************************************************)
EXTENDS Naturals, Sequences, FiniteSets, FiniteSetsExt, SequencesExt

CONSTANTS
    ChatClients,    \* bound: clients, 1 .. n in the order in which they connect
    ChatLines,      \* bound: lines typed, by all clients together
    ChatLeavers,    \* bound: clients that leave
    ChatFds         \* numbers of descriptors the server may have for clients

ASSUME ChatRoomAssumption == ChatClients \subseteq Nat \ {0} /\ ChatFds \subseteq Nat

VARIABLES
    hpc,            \* the server: "select", "loop", "cast" or "died"
    hread,          \* read_socks
    hready,         \* what is left of the list select() returned
    client_list,    \* from a member's socket to its ID
    count,          \* the next ID
    hfds,           \* descriptors there are for clients, chosen once
    cast,           \* [to, leavers]: members that the running loop has not sent to
                    \* yet, and the socket, if any, to close when it is done
    \* sockets and clients
    hqueue,         \* clients that wait to be accepted
    line,           \* lines a client has sent and the server has not received
    typed,          \* number of lines a client has typed
    chatter,        \* the client's end: "none", "open", "gone" or "reset"
    hlate, hback,   \* clients sent to after they were gone; of these, those whose
                    \* reset has come back
    \* auxiliary: all messages in the order of their broadcasts, and by receiver
    log, seen

serverChat == <<hpc, hread, hready, client_list, count, hfds, cast>>
clientChat == <<hqueue, line, typed, chatter, hlate, hback>>
chatVars == <<serverChat, clientChat, log, seen>>

ChatSocket == 0

ChatInit ==
    /\ hpc = "select" /\ hread = <<ChatSocket>> /\ hready = <<>>
    /\ client_list = [c \in {} |-> 0] /\ count = 0
    /\ hfds \in ChatFds
    /\ cast = [to |-> {}, leavers |-> {}]
    /\ hqueue = <<>>
    /\ line = [c \in ChatClients |-> <<>>]
    /\ typed = [c \in ChatClients |-> 0]
    /\ chatter = [c \in ChatClients |-> "none"]
    /\ hlate = {} /\ hback = {}
    /\ log = <<>>
    /\ seen = [c \in ChatClients |-> <<>>]

Members == DOMAIN client_list

\* The elements of s that are in S, in their order.
Sublist(s, S) ==
    LET kept[n \in 0 .. Len(s)] ==
            IF n = 0 THEN <<>>
            ELSE IF s[n] \in S THEN Append(kept[n - 1], s[n]) ELSE kept[n - 1]
    IN  kept[Len(s)]
-------------------------------------------------------------------------------
(* The client program *)

ChatConnects(c) ==
    /\ hpc # "died" /\ chatter[c] = "none" /\ \A b \in ChatClients : b < c => chatter[b] # "none"
    /\ chatter' = [chatter EXCEPT ![c] = "open"]
    /\ hqueue' = Append(hqueue, c)
    /\ UNCHANGED <<serverChat, line, typed, hlate, hback, log, seen>>

\* A line from stdin is sent; the client has had its welcome.
ChatTypes(c) ==
    /\ hpc # "died" /\ chatter[c] = "open" /\ seen[c] # <<>>
    /\ MapThenSumSet(LAMBDA x : typed[x], ChatClients) < ChatLines
    /\ typed' = [typed EXCEPT ![c] = @ + 1]
    /\ line' = [line EXCEPT ![c] = Append(@, typed[c] + 1)]
    /\ UNCHANGED <<serverChat, hqueue, chatter, hlate, hback, log, seen>>

\* An empty line: close().  With messages it has not read that is a reset.
ChatLeaves(c) ==
    /\ hpc # "died" /\ chatter[c] = "open"
    /\ Cardinality({b \in ChatClients : chatter[b] \in {"gone", "reset"}}) < ChatLeavers
    /\ \E how \in {"gone", "reset"} : chatter' = [chatter EXCEPT ![c] = how]
    /\ UNCHANGED <<serverChat, hqueue, line, typed, hlate, hback, log, seen>>

ChatResetComesBack(c) ==
    /\ hpc # "died" /\ c \in hlate \ hback
    /\ hback' = hback \cup {c}
    /\ UNCHANGED <<serverChat, hqueue, line, typed, chatter, hlate, log, seen>>
-------------------------------------------------------------------------------
(* The server *)

ChatReadable(s) ==
    IF s = ChatSocket THEN hqueue # <<>> ELSE line[s] # <<>> \/ chatter[s] # "open"

ChatSelect ==
    /\ hpc = "select"
    /\ hready' = Sublist(hread, {s \in ToSet(hread) : ChatReadable(s)})
    /\ hready' # <<>>
    /\ hpc' = "loop"
    /\ UNCHANGED <<hread, client_list, count, hfds, cast, clientChat, log, seen>>

ChatRoundDone ==
    /\ hpc = "loop" /\ hready = <<>>
    /\ hpc' = "select"
    /\ UNCHANGED <<hread, hready, client_list, count, hfds, cast, clientChat, log, seen>>

\* send() to c raises: its reset has been received.
Raises(c) == chatter[c] = "reset" \/ c \in hback
Sent(c) == hlate' = IF chatter[c] = "gone" THEN hlate \cup {c} ELSE hlate

Broadcast(sock, leavers, message) ==
    /\ cast' = [to |-> DOMAIN client_list' \ {sock}, leavers |-> leavers]
    /\ log' = Append(log, message)
    /\ hpc' = "cast"

\* accept() comes next, and it takes a descriptor.
AcceptNext == hpc = "loop" /\ hready # <<>> /\ Head(hready) = ChatSocket
Full == Cardinality(Members) >= hfds

\* Mutant: the ID is the number of members.
AcceptReusesIds ==
    /\ AcceptNext /\ ~Full
    /\ LET c == Head(hqueue)
           id == Cardinality(Members)
       IN  /\ ~Raises(c)
           /\ client_list' = [x \in Members \cup {c} |-> IF x = c THEN id ELSE client_list[x]]
           /\ Sent(c)
           /\ seen' = [seen EXCEPT ![c] = <<[kind |-> "welcome", id |-> id, by |-> c, text |-> <<>>]>>]
           /\ hread' = Append(hread, c)
           /\ Broadcast(c, {}, [kind |-> "join", id |-> id, by |-> c, text |-> <<>>])
    /\ count' = count + 1
    /\ hready' = Tail(hready)
    /\ hqueue' = Tail(hqueue)
    /\ UNCHANGED <<hfds, line, typed, chatter, hback>>

\* client_accept up to its loop: the welcome is sent before the others are told.
client_accept ==
    /\ AcceptNext /\ ~Full
    /\ LET c == Head(hqueue)
       IN  /\ ~Raises(c)
           /\ client_list' = [x \in Members \cup {c} |-> IF x = c THEN count ELSE client_list[x]]
           /\ Sent(c)
           /\ seen' = [seen EXCEPT ![c] = <<[kind |-> "welcome", id |-> count, by |-> c, text |-> <<>>]>>]
           /\ hread' = Append(hread, c)
           /\ Broadcast(c, {}, [kind |-> "join", id |-> count, by |-> c, text |-> <<>>])
    /\ count' = count + 1
    /\ hready' = Tail(hready)
    /\ hqueue' = Tail(hqueue)
    /\ UNCHANGED <<hfds, line, typed, chatter, hback>>

\* recv() returned all lines that had arrived; they are one message.
handle_message(c) ==
    /\ hpc = "loop" /\ hready # <<>> /\ Head(hready) = c /\ line[c] # <<>>
    /\ hready' = Tail(hready)
    /\ line' = [line EXCEPT ![c] = <<>>]
    /\ UNCHANGED client_list
    /\ Broadcast(c, {}, [kind |-> "say", id |-> client_list[c], by |-> c, text |-> line[c]])
    /\ UNCHANGED <<hread, count, hfds, hqueue, typed, chatter, hlate, hback, seen>>

\* recv() returned '': the others are told first.
client_leave(c) ==
    /\ hpc = "loop" /\ hready # <<>> /\ Head(hready) = c
    /\ line[c] = <<>> /\ chatter[c] = "gone"
    /\ hready' = Tail(hready)
    /\ UNCHANGED client_list
    /\ Broadcast(c, {c}, [kind |-> "leave", id |-> client_list[c], by |-> c, text |-> <<>>])
    /\ UNCHANGED <<hread, count, hfds, clientChat, seen>>

\* broadcast_client, and the loop of client_accept: one send().
broadcast_client(c) ==
    /\ hpc = "cast" /\ c \in cast.to /\ ~Raises(c)
    /\ cast' = [cast EXCEPT !.to = @ \ {c}]
    /\ seen' = [seen EXCEPT ![c] = Append(@, Last(log))]
    /\ Sent(c)
    /\ UNCHANGED <<hpc, hread, hready, client_list, count, hfds, hqueue, line, typed, chatter, hback, log>>

\* The loop is done; one who leaves is forgotten and closed now.
CastDone ==
    /\ hpc = "cast" /\ cast.to = {}
    /\ hpc' = "loop"
    /\ client_list' = [x \in Members \ cast.leavers |-> client_list[x]]
    /\ hread' = Sublist(hread, ToSet(hread) \ cast.leavers)
    /\ cast' = [cast EXCEPT !.leavers = {}]
    /\ UNCHANGED <<hready, count, hfds, clientChat, log, seen>>

\* A send() to a client that has reset, or a recv() from it, raises; so does accept()
\* without a descriptor.
ChatDies ==
    /\ \/ hpc = "cast" /\ \E c \in cast.to : Raises(c)
       \/ AcceptNext /\ (Full \/ Raises(Head(hqueue)))
       \/ /\ hpc = "loop" /\ hready # <<>> /\ Head(hready) # ChatSocket
          /\ chatter[Head(hready)] = "reset" /\ line[Head(hready)] = <<>>
    /\ hpc' = "died"
    /\ UNCHANGED <<hread, hready, client_list, count, hfds, cast, clientChat, log, seen>>

ChatStep ==
    \/ ChatSelect \/ ChatRoundDone \/ client_accept \/ CastDone \/ ChatDies
    \/ \E c \in ChatClients : handle_message(c) \/ client_leave(c) \/ broadcast_client(c)

ChatNext ==
    \/ ChatStep
    \/ \E c \in ChatClients : ChatConnects(c) \/ ChatTypes(c) \/ ChatLeaves(c) \/ ChatResetComesBack(c)
-------------------------------------------------------------------------------
(* What c is to see: everything others did between its join and its leave. *)
Joined(c) == SelectInSeq(log, LAMBDA m : m.kind = "join" /\ m.by = c)
Left(c) == SelectInSeq(log, LAMBDA m : m.kind = "leave" /\ m.by = c)
ToSee(c) ==
    Sublist(SubSeq(log, Joined(c) + 1, IF Left(c) = 0 THEN Len(log) ELSE Left(c)),
            {m \in ToSet(log) : m.by # c})

Said(c) == FlattenSeq([i \in 1 .. Len(log) |-> IF log[i].by = c THEN log[i].text ELSE <<>>])

\* All members see the same messages in the same order, from their own join to their
\* own leave, with clients joining, talking and leaving between any two sends; at any
\* moment a member lacks at most the last message, even when the server dies in the
\* middle of a broadcast.  No line is lost or repeated, the IDs name their clients
\* for good, and only a client's reset, or a client too many for the descriptors there
\* are, ends the server.
SameOrder ==
    /\ \A c \in ChatClients :
          /\ Joined(c) > 0 => Tail(seen[c]) = IF c \in cast.to THEN Front(ToSee(c)) ELSE ToSee(c)
          /\ Said(c) \o line[c] = [i \in 1 .. typed[c] |-> i]
    /\ \A i, j \in 1 .. Len(log) : log[i].id = log[j].id <=> log[i].by = log[j].by
    /\ ToSet(hread) = {ChatSocket} \cup Members
    /\ hpc = "died" =>
          \/ \E c \in ChatClients : Raises(c)
          \/ hready # <<>> /\ Head(hready) = ChatSocket /\ Full

\* A line of a member is passed on, or the server dies.
ChatServes ==
    \A c \in ChatClients : line[c] # <<>> ~> line[c] = <<>> \/ hpc = "died"
===============================================================================
