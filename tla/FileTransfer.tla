----------------------------- MODULE FileTransfer -----------------------------
(***************************************************************************)
(* Two programs of unp/ipc in which a client asks a server process for a   *)
(* file: pipe.c with two pipes between a parent and its child, and         *)
(* client_recv.c and server_send.c over TCP, where the accepting process   *)
(* forks a child that keeps the connection.  Either process may be killed. *)
(***************************************************************************)
EXTENDS Naturals, Sequences, SequencesExt

CONSTANTS
    TypedNames,     \* what a user may type: sequences of characters, without the line end
    Stored,         \* the names the server can open
    FileBlocks,     \* blocks of MAXLINE bytes, the last one shorter, in every stored file
    ChannelSize     \* blocks that fit into the channel to the client

VARIABLES
    variant,        \* "pipe" or "tcp"
    typed,          \* [name, newline]: the line fgets() returns, ended by a newline or by EOF
    client,         \* "ask", "read", "ended" or "killed"
    server,         \* "listen", "send", "ended" or "killed"
    request,        \* what is on its way to the server
    channel,        \* what is on its way to the client
    asker,          \* who holds an end that writes to the server
    senders,        \* who holds an end that writes to the client
    sentBlocks,     \* blocks of the file the server has read and written
    output          \* what the client has written to its terminal or its file

ftVars == <<variant, typed, client, server, request, channel, asker, senders, sentBlocks, output>>

Complaint == "can not open"

\* The line without its last character: pipe.c cuts a newline only, client_recv.c assigns
\* in its test and always cuts.
Name ==
    LET line == typed.name \o (IF typed.newline THEN <<"\n">> ELSE <<>>)
    IN  IF typed.newline \/ variant = "tcp" THEN Front(line) ELSE line

FtInit ==
    /\ variant \in {"pipe", "tcp"}
    /\ typed \in {t \in [name : TypedNames, newline : BOOLEAN] : t.newline \/ t.name # <<>>}
    /\ client = "ask" /\ server = "listen"
    /\ request = <<>> /\ channel = <<>>
    /\ asker = {"client"} \cup (IF variant = "pipe" THEN {"server"} ELSE {})
    /\ senders = {"server", "parent"}
    /\ sentBlocks = 0 /\ output = <<>>

\* The parent closes its copy of the end that writes to the client: pipe1[1] before
\* client() begins, connfd in the loop of server_send.c.
ParentCloses ==
    /\ "parent" \in senders
    /\ senders' = senders \ {"parent"}
    /\ UNCHANGED <<variant, typed, client, server, request, channel, asker, sentBlocks, output>>

\* The child closes its copy of pipe2[1].
ServerCloses ==
    /\ "server" \in asker
    /\ asker' = asker \ {"server"}
    /\ UNCHANGED <<variant, typed, client, server, request, channel, senders, sentBlocks, output>>

\* client() and recv_fun() up to the loop; a write of no bytes sends nothing.
ClientAsks ==
    /\ client = "ask"
    /\ variant = "pipe" => "parent" \notin senders
    /\ IF variant = "pipe" /\ server = "killed" /\ Name # <<>>
       THEN client' = "killed" /\ asker' = {} /\ UNCHANGED request            \* SIGPIPE
       ELSE client' = "read" /\ request' = Name /\ UNCHANGED asker
    /\ UNCHANGED <<variant, typed, server, channel, senders, sentBlocks, output>>

\* One turn of its loop. In client_recv.c the file could not be opened if it has no name.
ClientReads ==
    /\ client = "read"
    /\ \/ /\ channel # <<>>
          /\ output' = IF variant = "tcp" /\ Name = <<>> THEN output ELSE Append(output, Head(channel))
          /\ channel' = Tail(channel)
          /\ UNCHANGED <<client, asker>>
       \/ /\ channel = <<>> /\ senders = {}
          /\ client' = "ended" /\ asker' = asker \ {"client"}
          /\ UNCHANGED <<output, channel>>
    /\ UNCHANGED <<variant, typed, server, request, senders, sentBlocks>>

ServerEnds(how) == server' = how /\ senders' = senders \ {"server"} /\ asker' = asker \ {"server"}

\* Nobody reads any more: write() raises SIGPIPE, but a socket takes what is written
\* before the reset has come.
ClientGone == client \in {"ended", "killed"}
FatalWrite == ClientGone
LostWrite == ClientGone /\ variant = "tcp"

\* server() and child(): the request, or the end of the stream, which leaves an empty name.
ServerReads ==
    /\ server = "listen"
    /\ variant = "pipe" => "server" \notin asker
    /\ request # <<>> \/ asker = {}
    /\ \/ /\ request \in Stored
          /\ server' = "send" /\ UNCHANGED <<channel, senders, asker>>
       \/ /\ request \notin Stored
          /\ \/ LostWrite /\ ServerEnds("ended") /\ UNCHANGED channel
             \/ FatalWrite /\ ServerEnds("killed") /\ UNCHANGED channel
             \/ ~ClientGone /\ ServerEnds("ended") /\ channel' = Append(channel, Complaint)
    /\ UNCHANGED <<variant, typed, client, request, sentBlocks, output>>

\* One turn of the loop over the file: write() waits for room.
ServerWrites ==
    /\ server = "send"
    /\ \/ /\ sentBlocks < FileBlocks /\ FatalWrite
          /\ ServerEnds("killed") /\ UNCHANGED <<channel, sentBlocks>>
       \/ /\ sentBlocks < FileBlocks /\ LostWrite
          /\ sentBlocks' = sentBlocks + 1 /\ UNCHANGED <<server, channel, senders, asker>>
       \/ /\ sentBlocks < FileBlocks /\ ~ClientGone /\ Len(channel) < ChannelSize
          /\ channel' = Append(channel, sentBlocks + 1) /\ sentBlocks' = sentBlocks + 1
          /\ UNCHANGED <<server, senders, asker>>
       \/ /\ sentBlocks = FileBlocks
          /\ ServerEnds("ended") /\ UNCHANGED <<channel, sentBlocks>>
    /\ UNCHANGED <<variant, typed, client, request, output>>

Killed ==
    /\ \/ ~ClientGone /\ client' = "killed" /\ asker' = asker \ {"client"}
          /\ senders' = (IF variant = "pipe" THEN senders \ {"parent"} ELSE senders)
          /\ UNCHANGED server
       \/ server \in {"listen", "send"} /\ ServerEnds("killed") /\ UNCHANGED client
    /\ UNCHANGED <<variant, typed, request, channel, sentBlocks, output>>

\* The steps of a process: in pipe.c the parent is the client.
FtStepOf(process) ==
    \/ process = "parent" /\ ParentCloses
    \/ process = "client" /\ (ClientAsks \/ ClientReads)
    \/ process = "server" /\ (ServerCloses \/ ServerReads \/ ServerWrites)

FtNext == ParentCloses \/ ClientAsks \/ ClientReads \/ ServerCloses \/ ServerReads \/ ServerWrites \/ Killed
-------------------------------------------------------------------------------
\* What the client should have: the file, or the complaint.
Expected ==
    IF Name \in Stored THEN [i \in 1..FileBlocks |-> i] ELSE <<Complaint>>

AnyKilled == "killed" \in {client, server}
WaitForEver == client = "read" /\ server = "listen" /\ request = <<>>

\* The client gets all of the file it asked for and both processes end, whoever closes
\* which of the inherited descriptors first; and if one is killed, the other one ends too.
\* Only for an empty name, whose write() sends nothing, both wait in read() for ever.
TransferEnds ==
    /\ <>(WaitForEver \/ (ClientGone /\ server \in {"ended", "killed"}))
    /\ [](client = "ended" /\ ~AnyKilled => output = Expected)
    /\ [](WaitForEver => Name = <<>>)
===============================================================================
