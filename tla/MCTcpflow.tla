------------------------------ MODULE MCTcpflow ------------------------------
(***************************************************************************)
(* The two halves of unp/tcpflow that every frame passes through.  They    *)
(* share no state, so that a behaviour shows one of them at a time.        *)
(***************************************************************************)
EXTENDS FlowRing, PacketStats, TLC

CONSTANT Busy

\* One flow with segments from its start of every length and long ones behind it, the
\* others with one byte.
MixedTraffic ==
    [flow : {Busy}, pos : {0}, len : 1 .. MaxLen] \cup [flow : {Busy}, pos : Pos \ {0}, len : {MaxLen}]
    \cup [flow : Flow \ {Busy}, pos : {0}, len : {1}]

\* The flows other than the busy one are alike.
FlowSymmetry == Permutations(Flow \ {Busy})

VARIABLE half

TcpflowInit ==
    /\ half \in {"recorder", "statistics"}
    /\ Init
    /\ StatsInit
    /\ half = "statistics" => seg.flow = Busy       \* not used, one value will do

TcpflowNext ==
    \/ half = "recorder" /\ Next /\ UNCHANGED <<half, statsVars>>
    \/ half = "statistics" /\ StatsNext /\ UNCHANGED <<half, vars>>

TcpflowSpec == TcpflowInit /\ [][TcpflowNext]_<<half, vars, statsVars>>
===============================================================================
