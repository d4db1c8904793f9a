-------------------------------- MODULE MCRelays --------------------------------
(***************************************************************************)
(* The Python programs that pass on what they receive, one at a time.      *)
(***************************************************************************)
EXTENDS SimpleProxy, ChatRoom, ThreadProxy, SocksTunnel

VARIABLE program

vars == <<program, simpleVars, chatVars, threadVars, tunnelVars>>

Init ==
    /\ program \in {"simple_proxy", "chatroom", "thread_proxy", "tunnel"}
    /\ SimpleInit
    /\ ChatInit
    /\ ThreadInit
    /\ TunnelInit
    \* one value will do for what is chosen once and not used
    /\ program # "tunnel" => script = CHOOSE t \in Talks : TRUE
    /\ program # "simple_proxy" => pfds = CHOOSE n \in ProxyFds : TRUE
    /\ program # "chatroom" => hfds = CHOOSE n \in ChatFds : TRUE

Next ==
    \/ program = "simple_proxy" /\ SimpleNext
       /\ UNCHANGED <<program, chatVars, threadVars, tunnelVars>>
    \/ program = "chatroom" /\ ChatNext
       /\ UNCHANGED <<program, simpleVars, threadVars, tunnelVars>>
    \/ program = "thread_proxy" /\ ThreadNext
       /\ UNCHANGED <<program, simpleVars, chatVars, tunnelVars>>
    \/ program = "tunnel" /\ TunnelNext
       /\ UNCHANGED <<program, simpleVars, chatVars, threadVars>>

\* The program that runs goes on, each of its threads if it has several; whoever
\* still reads at the other ends of its sockets does so in the end.  Nothing is assumed
\* of connecting, sending and leaving.
Fairness ==
    /\ WF_simpleVars(program = "simple_proxy" /\ ProxyStep)
    /\ \A e \in ProxyEnd : WF_simpleVars(program = "simple_proxy" /\ ProxyPeerReads(e))
    /\ WF_chatVars(program = "chatroom" /\ ChatStep)
    /\ \A c \in Connection : WF_threadVars(program = "thread_proxy" /\ Handler(c))
    /\ \A n \in Node : WF_tunnelVars(program = "tunnel" /\ Thread(n))
    /\ WF_tunnelVars(program = "tunnel" /\ ClientReads)
    /\ WF_tunnelVars(program = "tunnel" /\ TargetReads)

Spec == Init /\ [][Next]_vars /\ Fairness

\* A table that moves every byte.
RotatingTable == [b \in 0 .. 9 |-> (b + 3) % 10]

AskAddress == <<5, 1, 0, 1, 6, 7, 8, 9, 2, 4>>
AskName == <<5, 1, 0, 3, 2, 8, 9, 2, 4>>
AskBind == <<5, 2, 0, 1, 6, 7, 8, 9, 2, 4>>

\* An address, a name and a command local.py refuses; greetings that come in two
\* pieces, one of them with methods that look like a request.
SomeTalks ==
    {[greeting |-> <<5, 1, 0>>, first |-> 3, request |-> AskAddress, payload |-> <<6, 7>>],
     [greeting |-> <<5, 1, 0>>, first |-> 3, request |-> AskName, payload |-> <<>>],
     [greeting |-> <<5, 1, 0>>, first |-> 3, request |-> AskBind, payload |-> <<>>],
     [greeting |-> <<5, 1, 0>>, first |-> 2, request |-> AskAddress, payload |-> <<>>],
     [greeting |-> <<5, 2, 0, 1>>, first |-> 2, request |-> AskAddress, payload |-> <<>>]}

\* URLs without a port, with one, and with one of which nothing is left; first segments
\* that end inside "://", behind the port and before it.
SomeUrls ==
    <<[port |-> <<>>, slash |-> TRUE, first |-> "http:/", digits |-> 0],
      [port |-> <<8, 0, 8, 0>>, slash |-> TRUE, first |-> "port", digits |-> 4],
      [port |-> <<8, 1>>, slash |-> FALSE, first |-> "host", digits |-> 0]>>

\* The sockets of the select() relay and of the threads are accounted for at every
\* step (RoutesSound of SimpleProxy and ThreadsTidy of ThreadProxy).
RelaysSound == RoutesSound /\ ThreadsTidy

\* Under fair scheduling what the peers send is served: ProxyServes of SimpleProxy,
\* ChatServes of ChatRoom, ThreadEnds of ThreadProxy, TunnelServes of SocksTunnel.
RelaysServe == ProxyServes /\ ChatServes /\ ThreadEnds /\ TunnelServes
===============================================================================
