------------------------------ MODULE PacketStats ------------------------------
(***************************************************************************)
(* The statistics of unp/tcpflow: every captured frame passes through the  *)
(* link handler that find_handler chose for the device (datalink.c) and    *)
(* process_ip and process_tcp or process_udp (tcpip.c), which count it by  *)
(* protocol (info_file/summary.c) and by TCP conversation                  *)
(* (info_file/conver.c), and rewrite the two report files.  Times, rates   *)
(* and percentages are left out.                                           *)
(***************************************************************************)
EXTENDS Integers, SequencesExt, FiniteSetsExt

CONSTANTS
    Host,       \* addresses
    Port,       \* ports; 53, 80 and 443 are told apart
    MaxPackets  \* bound: frames captured

ASSUME PacketStatsAssumption == Port \subseteq Nat /\ MaxPackets \in Nat

\* struct pkt_type protocl_types[], with the indices of summary.h.
Types == <<"arp", "ip", "icmp", "udp", "dns", "tcp", "http", "http-", "ssl", "ssl-">>
TypeIndex(t) == (CHOOSE i \in DOMAIN Types : Types[i] = t) - 1

\* The link handlers.  dl_other stands for dl_null, dl_ppp, dl_raw and dl_linux_sll,
\* which skip their header and count nothing.
Handlers == {"dl_ethernet", "dl_other"}

\* A frame, by what the handlers look at.  cut: the length test that fails ("frame" also
\* if dl_null finds another family); ether: the type in the header of Ethernet; proto: "other" is counted in no row.
Frames ==
    [ether : {"ip", "arp", "other"}, proto : {"tcp", "udp", "icmp", "other"},
     src : Host \X Port, dst : Host \X Port, fragment : BOOLEAN, data : BOOLEAN,
     cut : {"none", "frame", "ip", "total", "tcp"}]

\* Without the frames that differ only in what no handler looks at.
Frame ==
    {p \in Frames :
        /\ p.cut # "none" \/ p.fragment \/ p.proto # "tcp" => ~p.data
        /\ p.fragment => p.cut = "none"
        /\ p.proto \in {"icmp", "other"} \/ p.ether # "ip" \/ p.cut \in {"frame", "ip"} =>
              p.src = p.dst /\ ~p.fragment
        /\ p.ether # "ip" \/ p.cut \in {"frame", "ip"} => p.proto = "icmp"}

VARIABLES
    handler,        \* the handler of the device or file, chosen once
    packet,         \* frames counted by dl_ethernet
    types,          \* packet_number of each protocol
    conver,         \* the list of conversations, from tcp_con_head
    summary_file, tcp_conver,   \* what the two report files show
    captured        \* auxiliary: frames captured

statsVars == <<handler, packet, types, conver, summary_file, tcp_conver, captured>>

find_handler == handler \in Handlers

StatsInit ==
    /\ find_handler
    /\ packet = 0
    /\ types = [t \in Range(Types) |-> 0]
    /\ conver = <<>>
    /\ summary_file = [packet |-> packet, types |-> types]
    /\ tcp_conver = conver
    /\ captured = 0
-------------------------------------------------------------------------------
\* The protocols update_pkt_type is called with for a frame that passes the tests.
IsPort(p, n) == p.src[2] = n \/ p.dst[2] = n
Reaches(p, test) ==     \* no earlier length test than this one cuts the frame off
    CASE test = "ip" -> p.cut # "frame"
      [] test = "total" -> p.cut \notin {"frame", "ip"}
      [] test = "tcp" -> p.cut \notin {"frame", "ip", "total"} /\ ~p.fragment
      [] test = "store" -> p.cut = "none" /\ ~p.fragment

IsIp(p) == Reaches(p, "ip") /\ (handler = "dl_ethernet" => p.ether = "ip")

process_udp(p) == IF IsPort(p, 53) THEN {"dns"} ELSE {}

process_tcp(p) ==
    CASE ~Reaches(p, "store") -> {}
      [] IsPort(p, 80) -> IF p.data THEN {"http"} ELSE {"http-"}
      [] IsPort(p, 443) /\ ~IsPort(p, 80) -> IF p.data THEN {"ssl"} ELSE {"ssl-"}
      [] OTHER -> {}

process_ip(p) ==
    (IF Reaches(p, "total") THEN {p.proto} \ {"other"} ELSE {})
    \cup (IF Reaches(p, "tcp") /\ p.proto = "tcp" THEN process_tcp(p) ELSE {})
    \cup (IF Reaches(p, "tcp") /\ p.proto = "udp" THEN process_udp(p) ELSE {})

dl_ethernet(p) ==
    IF handler = "dl_ethernet" /\ Reaches(p, "ip") THEN {p.ether} \ {"other"} ELSE {}

\* update_pkt_type returns for a type above PROTO_SSL_.
Counted(t) == TypeIndex(t) >= TypeIndex("arp") /\ TypeIndex(t) <= TypeIndex("ssl")

update_pkt_type(S) ==
    [t \in Range(Types) |-> types[t] + (IF t \in S /\ Counted(t) THEN 1 ELSE 0)]
-------------------------------------------------------------------------------
\* Mutant: only the direction of the first packet is recognised.
SameDirection(c, p) == c.a = p.src /\ c.b = p.dst

\* Is the conversation c that of p, in either direction?
Matches(c, p) == (c.a = p.src /\ c.b = p.dst) \/ (c.a = p.dst /\ c.b = p.src)

CountIn(c, p) ==
    IF c.a = p.src /\ c.b = p.dst THEN [c EXCEPT !.packets = @ + 1, !.packets_to = @ + 1]
    ELSE [c EXCEPT !.packets = @ + 1, !.packets_from = @ + 1]

tcp_conver_handler(p) ==
    IF \E i \in DOMAIN conver : Matches(conver[i], p)
    THEN LET i == SelectInSeq(conver, LAMBDA c : Matches(c, p))
         IN  [conver EXCEPT ![i] = CountIn(@, p)]
    ELSE <<[a |-> p.src, b |-> p.dst, packets |-> 1, packets_to |-> 1, packets_from |-> 0]>>
         \o conver

\* The two files are written anew: a row for each protocol, one for each conversation.
update_summary_file(n, ts) == summary_file' = [packet |-> n, types |-> ts]
update_tcp_conver_file(list) == tcp_conver' = list

\* One frame handed over by pcap_loop.
Capture(p) ==
    /\ captured < MaxPackets
    /\ captured' = captured + 1
    /\ packet' = IF handler = "dl_ethernet" THEN packet + 1 ELSE packet
    /\ types' = update_pkt_type(dl_ethernet(p) \cup (IF IsIp(p) THEN process_ip(p) ELSE {}))
    /\ conver' = IF IsIp(p) /\ Reaches(p, "total") /\ p.proto = "tcp"
                 THEN tcp_conver_handler(p) ELSE conver
    /\ IF IsIp(p) /\ Reaches(p, "tcp")
       THEN update_summary_file(packet', types') /\ update_tcp_conver_file(conver')
       ELSE UNCHANGED <<summary_file, tcp_conver>>
    /\ UNCHANGED handler

StatsNext == \E p \in Frame : Capture(p)

StatsSpec == StatsInit /\ [][StatsNext]_statsVars
-------------------------------------------------------------------------------
PacketsIn(list) == [i \in DOMAIN list |-> list[i].packets]
PacketsOf(list) == MapThenSumSet(LAMBDA i : PacketsIn(list)[i], DOMAIN list)

\* The conversation report and the protocol table agree: the conversations account
\* for every TCP packet, each of them in one of its two directions, and so they do
\* in the files.
ConversationsAddUp ==
    /\ types["tcp"] = PacketsOf(conver)
    /\ summary_file.types["tcp"] = PacketsOf(tcp_conver)
    /\ \A i \in DOMAIN conver :
          conver[i].packets = conver[i].packets_to + conver[i].packets_from

\* A conversation is listed once, whichever side was heard first.
NoTwins ==
    \A i, j \in DOMAIN conver :
        {conver[i].a, conver[i].b} = {conver[j].a, conver[j].b} => i = j

Nested(ts, n) ==
    /\ ts["http"] + ts["http-"] + ts["ssl"] + ts["ssl-"] <= ts["tcp"]
    /\ ts["dns"] <= ts["udp"]
    /\ handler = "dl_ethernet" =>
          ts["icmp"] + ts["udp"] + ts["tcp"] <= ts["ip"] /\ ts["arp"] + ts["ip"] <= n
    /\ handler # "dl_ethernet" => ts["ip"] = 0 /\ ts["arp"] = 0 /\ n = 0

\* The table is a hierarchy, as write_summary_file indents it: what is counted in an
\* inner row is counted in the row that contains it, in memory and in the file.  Only
\* dl_ethernet keeps the rows ip and arp and the number of packets: from a device
\* with another handler they stay 0 over icmp, udp and tcp rows that do count.
RowsNest == Nested(types, packet) /\ Nested(summary_file.types, summary_file.packet)

\* The two reports describe the same packets: update_pkt_type and
\* tcp_conver_handler count at different places of process_ip, and their totals,
\* directions and rows still fit together, in memory and in both files; the row of
\* ip contains its inner rows on Ethernet and is empty on every other link.
ReportsAgree == ConversationsAddUp /\ NoTwins /\ RowsNest
===============================================================================
