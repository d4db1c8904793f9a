---------------------------- MODULE PolicyParser ----------------------------
(***************************************************************************)
(* The policy argument of redis_ae/tcpproxy: ParsePolicy of policy.c, the  *)
(* state machine generated from policy.rl, and what ParseArgs and main()   *)
(* make of its result.                                                     *)
(*                                                                         *)
(* A text is a sequence of tokens: a digit, a name, "rr", "hash", "->" and *)
(* the single characters.  A numbered state of the tables is the part of   *)
(* the policy it belongs to, the place in that part and the digits seen.   *)
(***************************************************************************)
EXTENDS Naturals, Sequences, SequencesExt, FiniteSets, Jobs

CONSTANTS
  PolicyArgs    \* the argument lists that are tried

Digit == <<"0", "1", "2", "3", "4", "5", "6", "7", "8", "9">>
IsDigit(c) == c \in ToSet(Digit)
DigitValue(c) == SelectInSeq(Digit, LAMBDA d : d = c) - 1
Names == {"any", "localhost"}
Width(c) == IF c = "localhost" THEN 9 ELSE IF c = "any" THEN 3 ELSE 1
Bytes(addr) == FoldLeft(LAMBDA n, c : n + Width(c), 0, addr)

AddrSize == 16      \* malloc(16 * sizeof(char))
NoAddr == <<>>      \* host.addr == NULL

-----------------------------------------------------------------------------
(* The actions of policy.rl.  "blocks" counts the addresses allocated and  *)
(* not freed, "inside" says whether all writes were within one.            *)

init_host(m) == [m EXCEPT !.host.addr = NoAddr, !.have_addr = FALSE]
set_have_addr(m) == [m EXCEPT !.have_addr = TRUE]
init_port(m) == [m EXCEPT !.host.port = 0]

append_addr(m, c) ==
  [m EXCEPT !.host.addr = Append(@, c),
            !.blocks = IF m.host.addr = NoAddr THEN @ + 1 ELSE @,
            !.inside = @ /\ Bytes(m.host.addr) + Width(c) <= AddrSize]

append_port(m, c) == [m EXCEPT !.host.port = @ * 10 + DigitValue(c)]

finish_addr(m) == [m EXCEPT !.inside = @ /\ Bytes(m.host.addr) < AddrSize]

(* if (!have_addr) { free(host.addr); host.addr = NULL; } *)
DropAddr(m) ==
  IF m.have_addr \/ m.host.addr = NoAddr THEN m
  ELSE [m EXCEPT !.host.addr = NoAddr, !.blocks = @ - 1]

listen_addr(m) ==
  LET d == DropAddr(m) IN [d EXCEPT !.listen = d.host, !.host.addr = NoAddr]

(* Mutant: the address stays with the host that is filled in next. *)
AppendKeepsAddr(m) ==
  LET d == DropAddr(m) IN [d EXCEPT !.hosts = Append(@, d.host)]

append_host(m) ==
  LET d == DropAddr(m) IN [d EXCEPT !.hosts = Append(@, d.host), !.host.addr = NoAddr]

set_type(m, t) == [m EXCEPT !.type = t]
-----------------------------------------------------------------------------
(* The transitions, by the class of the character. *)

Go(m, place, n) == [m EXCEPT !.at = place, !.n = n]
Fatal(m) == [m EXCEPT !.at = "fatal"]       \* LogFatal: exit

AtHost(m) == m.at \in {"host", "more"}
HostDone(m) == m.at = "digits" \/ (m.at = "port" /\ m.n > 0)
StartHost(m) == init_host(IF m.part = "remote" THEN set_type(m, "rr") ELSE m)

(* Up to the third digit it may still be an address or already a port. *)
OnDigit(m, c) ==
  CASE AtHost(m) ->
         Go(append_port(init_port(append_addr(StartHost(m), c)), c), "digits", 1)
    [] m.at = "digits" /\ m.n < 3 -> Go(append_port(append_addr(m, c), c), "digits", m.n + 1)
    [] m.at = "digits" /\ m.n \in 3..4 -> Go(append_port(m, c), "digits", m.n + 1)
    [] m.at = "octet" /\ m.n < 3 -> Go(append_addr(m, c), "octet", m.n + 1)
    [] m.at = "port" /\ m.n = 0 -> Go(append_port(init_port(m), c), "port", 1)
    [] m.at = "port" /\ m.n \in 1..4 -> Go(append_port(m, c), "port", m.n + 1)
    [] OTHER -> Fatal(m)

OnDot(m) ==
  CASE m.at = "digits" /\ m.n <= 3 -> [Go(append_addr(m, "."), "octet", 0) EXCEPT !.dots = 1]
    [] m.at = "octet" /\ m.n > 0 /\ m.dots < 3 ->
         [Go(append_addr(m, "."), "octet", 0) EXCEPT !.dots = @ + 1]
    [] OTHER -> Fatal(m)

OnName(m, c) == IF AtHost(m) THEN Go(append_addr(StartHost(m), c), "name", 0) ELSE Fatal(m)

OnColon(m) ==
  IF m.at = "name" \/ (m.at = "octet" /\ m.n > 0 /\ m.dots = 3)
  THEN Go(set_have_addr(finish_addr(m)), "port", 0) ELSE Fatal(m)

OnBlank(m) ==
  CASE HostDone(m) /\ m.part = "listen" -> Go(listen_addr(m), "arrow", 0)
    [] HostDone(m) /\ m.part = "group" -> Go(append_host(m), "more", 0)
    [] m.at \in {"rr", "hash"} -> Go(set_type(m, m.at), "brace", 0)
    [] m.at \in {"arrow", "brace", "more"} \/ (m.at = "host" /\ m.part # "listen") -> m
    [] OTHER -> Fatal(m)

OnArrow(m) ==
  CASE HostDone(m) /\ m.part = "listen" -> [Go(listen_addr(m), "host", 0) EXCEPT !.part = "remote"]
    [] m.at = "arrow" -> [Go(m, "host", 0) EXCEPT !.part = "remote"]
    [] OTHER -> Fatal(m)

OnType(m, c) == IF m.at = "host" /\ m.part = "remote" THEN Go(m, c, 0) ELSE Fatal(m)

OnOpen(m) ==
  CASE m.at \in {"rr", "hash"} -> [Go(set_type(m, m.at), "host", 0) EXCEPT !.part = "group"]
    [] m.at = "brace" -> [Go(m, "host", 0) EXCEPT !.part = "group"]
    [] OTHER -> Fatal(m)

(* After a blank the last host has been appended before, and is again. *)
OnClose(m) ==
  IF m.part = "group" /\ (HostDone(m) \/ m.at = "more") THEN Go(append_host(m), "end", 0) ELSE Fatal(m)

Consume(m, c) ==
  CASE m.at = "fatal" -> m
    [] IsDigit(c) -> OnDigit(m, c)
    [] c = "." -> OnDot(m)
    [] c \in Names -> OnName(m, c)
    [] c = ":" -> OnColon(m)
    [] c = " " -> OnBlank(m)
    [] c = "->" -> OnArrow(m)
    [] c \in {"rr", "hash"} -> OnType(m, c)
    [] c = "{" -> OnOpen(m)
    [] c = "}" -> OnClose(m)
    [] OTHER -> Fatal(m)

AtEof(m) ==
  CASE HostDone(m) /\ m.part = "remote" -> Go(append_host(m), "end", 0)
    [] m.at \in {"end", "fatal"} -> m
    [] OTHER -> Fatal(m)

Start(h) ==
  [at |-> "host", part |-> "listen", n |-> 0, dots |-> 0,
   host |-> [addr |-> NoAddr, port |-> h.port], have_addr |-> h.have_addr,
   listen |-> [addr |-> NoAddr, port |-> 0], type |-> "rr", hosts |-> <<>>,
   blocks |-> h.blocks, inside |-> h.inside]

(* host and have_addr are static and keep what an earlier argument left;   *)
(* so do the addresses of its policy, which the new one does not free.     *)
ParsePolicy(m, text) ==
  AtEof(FoldLeft(Consume,
                 Start([port |-> m.host.port, have_addr |-> m.have_addr,
                        blocks |-> m.blocks, inside |-> m.inside]),
                 text))
-----------------------------------------------------------------------------
(* ParseArgs: the last argument counts, but each must be valid.  Its       *)
(* policy takes the place of the one before, which nobody frees.           *)
Fresh == Start([port |-> 0, have_addr |-> FALSE, blocks |-> 0, inside |-> TRUE])

ParseArgs(args) ==
  IF args = <<>> THEN Fatal(Fresh)
  ELSE FoldLeft(LAMBDA m, text : IF m.at = "fatal" THEN m ELSE ParsePolicy(m, text), Fresh, args)

(* The address main() listens on. *)
BindAddr(addr) ==
  CASE addr \in {NoAddr, <<"any">>} -> <<"0", ".", "0", ".", "0", ".", "0">>
    [] addr = <<"localhost">> -> <<"1", "2", "7", ".", "0", ".", "0", ".", "1">>
    [] OTHER -> addr

(* The addresses of the last policy are freed: what is left was lost.      *)
FreePolicy(m) ==
  [m EXCEPT !.blocks = @ - Cardinality({i \in 1..Len(m.hosts) : m.hosts[i].addr # NoAddr})
                         - (IF m.listen.addr = NoAddr THEN 0 ELSE 1)]

main(args) ==
  LET m == ParseArgs(args)
  IN  IF m.at = "fatal" THEN [parsed |-> m, bind |-> NoAddr, left |-> 0]
      ELSE [parsed |-> m, bind |-> BindAddr(m.listen.addr), left |-> FreePolicy(m).blocks]

PolicyJobs == [kind : {"policy"}, args : PolicyArgs]

PolicyNext == Call("policy", main(job.args))
-----------------------------------------------------------------------------
(* The language of policy.rl, and what a text of it means. *)

Part(s, i, j) == SubSeq(s, i, j)
Positions(s, c) == {i \in 1..Len(s) : s[i] = c}
NumberOf(s) == FoldLeft(LAMBDA n, c : 10 * n + DigitValue(c), 0, s)

DigitsOnly(s, max) == Len(s) \in 1..max /\ \A i \in 1..Len(s) : IsDigit(s[i])
IsPort(s) == DigitsOnly(s, 5)
IsDotted(s) ==
  \E i, j, k \in Positions(s, ".") :
     /\ i < j /\ j < k
     /\ DigitsOnly(Part(s, 1, i - 1), 3) /\ DigitsOnly(Part(s, i + 1, j - 1), 3)
     /\ DigitsOnly(Part(s, j + 1, k - 1), 3) /\ DigitsOnly(Part(s, k + 1, Len(s)), 3)
IsAddr(s) == (Len(s) = 1 /\ s[1] \in Names) \/ IsDotted(s)

Colon(s) == SelectInSeq(s, LAMBDA c : c = ":")      \* 0 if there is none
IsHost(s) ==
  IF Colon(s) = 0 THEN IsPort(s)
  ELSE IsAddr(Part(s, 1, Colon(s) - 1)) /\ IsPort(Part(s, Colon(s) + 1, Len(s)))
HostOf(s) ==
  [addr |-> Part(s, 1, Colon(s) - 1), port |-> NumberOf(Part(s, Colon(s) + 1, Len(s)))]

(* The words of a text, between blanks. *)
Blank(c) == c = " "
Words(s) ==
  LET starts == {i \in 1..Len(s) : ~Blank(s[i]) /\ (i = 1 \/ Blank(s[i - 1]))}
      end(i) == CHOOSE j \in i..Len(s) :
                  (j = Len(s) \/ Blank(s[j + 1])) /\ \A k \in i..j : ~Blank(s[k])
      order == SetToSortSeq(starts, <)
  IN  [w \in 1..Len(order) |-> Part(s, order[w], end(order[w]))]
NoLeadingBlank(s) == s # <<>> /\ ~Blank(s[1])
NoTrailingBlank(s) == s # <<>> /\ ~Blank(Last(s))

(* Everything behind the arrow: one host, or a type and hosts in braces.   *)
IsGroup(s) ==
  /\ Cardinality(Positions(s, "{")) = 1 /\ Last(s) = "}" /\ Cardinality(Positions(s, "}")) = 1
  /\ LET open == SelectInSeq(s, LAMBDA c : c = "{")
         members == Words(Part(s, open + 1, Len(s) - 1))
     IN  /\ Words(Part(s, 1, open - 1)) \in {<<<<"rr">>>>, <<<<"hash">>>>}
         /\ members # <<>>
         /\ \A i \in 1..Len(members) : IsHost(members[i])

Meaning(s) ==
  LET open == SelectInSeq(s, LAMBDA c : c = "{")
      members == Words(Part(s, open + 1, Len(s) - 1))
      hosts == [i \in 1..Len(members) |-> HostOf(members[i])]
      phantom == [addr |-> NoAddr, port |-> Last(hosts).port]
  IN  IF open = 0 THEN [type |-> "rr", hosts |-> <<HostOf(Words(s)[1])>>]
      ELSE [type |-> Words(s)[1][1],
            hosts |-> IF Blank(s[Len(s) - 1]) THEN Append(hosts, phantom) ELSE hosts]

Arrow(t) == SelectInSeq(t, LAMBDA c : c = "->")
LeftOf(t) == Part(t, 1, Arrow(t) - 1)
RightOf(t) == Part(t, Arrow(t) + 1, Len(t))
IsPolicy(t) ==
  /\ Cardinality(Positions(t, "->")) = 1
  /\ NoLeadingBlank(LeftOf(t)) /\ Len(Words(LeftOf(t))) = 1 /\ IsHost(Words(LeftOf(t))[1])
  /\ NoTrailingBlank(RightOf(t))
  /\ \/ Len(Words(RightOf(t))) = 1 /\ IsHost(Words(RightOf(t))[1])
     \/ Last(RightOf(t)) = "}" /\ IsGroup(RightOf(t))

(* Each address that is written in a policy is followed by a colon.        *)
AddrsWritten(args) == FoldLeft(LAMBDA n, t : n + Cardinality(Positions(t, ":")), 0, args)

(* ParsePolicy accepts the language of policy.rl and nothing else, and the *)
(* policy is the one that was written: although the first digits of a host *)
(* are taken for an address and for a port at once, and host is shared by  *)
(* all of them, no host gets anything of another.  Every address fits its  *)
(* 16 bytes.  Those of the last argument are all freed, and so is every    *)
(* one taken up for what proved to be a port; those of the earlier         *)
(* arguments' policies, which ParseArgs overwrites, leak, and nothing      *)
(* else.  A blank before the closing brace appends one host too many,      *)
(* without an address.                                                     *)
ParsedAsWritten ==
  Returned("policy") =>
    LET m == out[1].parsed
        text == Last(job.args)
    IN  /\ m.inside
        /\ (m.at = "fatal") <=> (job.args = <<>> \/ \E i \in 1..Len(job.args) : ~IsPolicy(job.args[i]))
        /\ m.at # "fatal" =>
             /\ m.listen = HostOf(Words(LeftOf(text))[1])
             /\ [type |-> m.type, hosts |-> m.hosts] = Meaning(RightOf(text))
             /\ out[1].left = AddrsWritten(Front(job.args))
             /\ IsDotted(out[1].bind)
=============================================================================
