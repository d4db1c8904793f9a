------------------------------- MODULE UnpProofs -------------------------------
(***************************************************************************)
(* Proofs about three programs of unp/, for any values of their constants: *)
(* the packet statistics of tcpflow, the web benchmark and the web server  *)
(* sv_httpd.  The totals that the first two print are sums over finite     *)
(* sets, so that what a sum comes to is proved first, by induction over    *)
(* the size of the set.                                                    *)
(***************************************************************************)
EXTENDS PacketStats, Benchmark, SvHttpd, FiniteSetTheorems, SequenceTheorems,
        WellFoundedInduction, TLAPS

-------------------------------------------------------------------------------
(* Induction and sums *)

SumOver(f, S) == MapThenSumSet(LAMBDA x : f[x], S)

\* A set of naturals that is not empty has a smallest element.
LEMMA SmallestOf ==
  ASSUME NEW S, S \subseteq Nat, S # {}
  PROVE  \E x \in S : \A y \in S : x <= y
<1>1. PICK x \in S : \A y \in S : ~(<<y, x>> \in OpToRel(<, Nat))
  BY WFMin, NatLessThanWellFounded, Zenon
<1>2. ASSUME NEW y \in S PROVE ~(y < x)
  BY <1>1, Zenon DEF OpToRel
<1> QED
  BY <1>2

\* A set with 0 and with the successor of each of its numbers has all numbers.
LEMMA Induction ==
  ASSUME NEW S, 0 \in S, \A n \in Nat : n \in S => n + 1 \in S
  PROVE  \A n \in Nat : n \in S
<1> DEFINE T == Nat \ S
<1> SUFFICES ASSUME T # {} PROVE FALSE
  OBVIOUS
<1>1. T \subseteq Nat
  OBVIOUS
<1>2. PICK x \in T : \A y \in T : x <= y
  <2> HIDE DEF T
  <2> QED
    BY <1>1, SmallestOf
<1>3. x \in Nat /\ x # 0
  OBVIOUS
<1>4. x - 1 \in Nat /\ ~(x <= x - 1) /\ (x - 1) + 1 = x
  BY <1>3
<1>5. x - 1 \in S
  BY <1>2, <1>4
<1>6. (x - 1) + 1 \in S
  BY <1>4, <1>5
<1> QED
  BY <1>4, <1>6

-------------------------------------------------------------------------------
\* The function by which MapThenSumSet adds up, and one step of it.
SumStep(g, f, s) ==
    IF s = {} THEN 0 ELSE f[CHOOSE x \in s : TRUE] + g[s \ {CHOOSE x \in s : TRUE}]

IsSum(g, f, S) == g = [s \in SUBSET S |-> SumStep(g, f, s)]

\* A sum is the value of that function at the whole set.
LEMMA SumDef ==
  ASSUME NEW f, NEW S
  PROVE  SumOver(f, S) = (CHOOSE g : IsSum(g, f, S))[S]
BY DEF SumOver, MapThenSumSet, MapThenFoldSet, IsSum, SumStep

\* What is left when the chosen element is taken out of a finite set.
LEMMA Rest ==
  ASSUME NEW S, IsFiniteSet(S), S # {}
  PROVE  LET x == CHOOSE y \in S : TRUE
         IN  /\ x \in S /\ IsFiniteSet(S \ {x})
             /\ Cardinality(S) \in Nat /\ Cardinality(S \ {x}) = Cardinality(S) - 1
<1>1. (CHOOSE y \in S : TRUE) \in S
  OBVIOUS
<1>2. PICK x \in S : x = CHOOSE y \in S : TRUE
  BY <1>1
<1>3. IsFiniteSet(S \ {x}) /\ Cardinality(S \ {x}) = Cardinality(S) - 1
  BY FS_RemoveElement
<1>4. Cardinality(S) \in Nat
  BY FS_CardinalityType
<1> QED
  BY <1>2, <1>3, <1>4

\* The function exists for a finite set.
LEMMA SumExists ==
  ASSUME NEW S, IsFiniteSet(S), NEW f
  PROVE  \E g : IsSum(g, f, S)
<1> DEFINE Sub == SUBSET S
           Upto(g, n) == \A s \in Sub : Cardinality(s) <= n => g[s] = SumStep(g, f, s)
           N == {n \in Nat : \E g : g = [s \in Sub |-> g[s]] /\ Upto(g, n)}
<1>1. \A s \in Sub : IsFiniteSet(s) /\ Cardinality(s) \in Nat /\ Cardinality(s) <= Cardinality(S)
  BY FS_Subset, FS_CardinalityType
<1>2. 0 \in N
  <2> DEFINE z == [s \in Sub |-> 0]
  <2>1. ASSUME NEW s \in Sub, Cardinality(s) <= 0 PROVE s = {}
    <3>1. IsFiniteSet(s) /\ Cardinality(s) = 0
      BY <1>1, <2>1
    <3> QED
      BY <3>1, FS_EmptySet
  <2>2. Upto(z, 0)
    BY <2>1 DEF SumStep
  <2>3. z = [s \in Sub |-> z[s]]
    OBVIOUS
  <2> HIDE DEF z, Upto
  <2> QED
    BY <2>2, <2>3
<1>3. ASSUME NEW n \in Nat, n \in N PROVE n + 1 \in N
  <2>1. PICK g : g = [s \in Sub |-> g[s]] /\ Upto(g, n)
    BY <1>3
  <2> DEFINE h == [s \in Sub |-> IF Cardinality(s) <= n THEN g[s] ELSE SumStep(g, f, s)]
  <2>2. ASSUME NEW s \in Sub, Cardinality(s) <= n + 1 PROVE h[s] = SumStep(h, f, s)
    <3>1. CASE s = {}
      <4>1. Cardinality(s) = 0
        BY <3>1, FS_EmptySet
      <4>2. Cardinality(s) <= n
        BY <4>1
      <4>3. g[s] = SumStep(g, f, s) /\ h[s] = g[s]
        BY <2>1, <4>2
      <4> HIDE DEF h
      <4> QED
        BY <3>1, <4>3 DEF SumStep
    <3>2. CASE s # {}
      <4>1. PICK x : x = CHOOSE y \in s : TRUE
        OBVIOUS
      <4>2. x \in s /\ Cardinality(s \ {x}) = Cardinality(s) - 1 /\ Cardinality(s) \in Nat
        BY <1>1, <3>2, <4>1, Rest
      <4>3. s \ {x} \in Sub /\ Cardinality(s \ {x}) <= n
        BY <2>2, <4>2
      <4>4. h[s \ {x}] = g[s \ {x}]
        BY <4>3
      <4>5. h[s] = SumStep(g, f, s)
        BY <2>1, <2>2
      <4> HIDE DEF h
      <4> QED
        BY <3>2, <4>1, <4>4, <4>5 DEF SumStep
    <3> QED
      BY <3>1, <3>2
  <2>3. h = [s \in Sub |-> h[s]]
    OBVIOUS
  <2>4. Upto(h, n + 1)
    <3> HIDE DEF h
    <3> QED
      BY <2>2
  <2> HIDE DEF h, Upto
  <2> QED
    BY <2>3, <2>4
<1>4. Cardinality(S) \in N
  <2>1. Cardinality(S) \in Nat
    BY FS_CardinalityType
  <2> HIDE DEF N
  <2> QED
    BY <1>2, <1>3, <2>1, Induction
<1>5. PICK g : g = [s \in Sub |-> g[s]] /\ Upto(g, Cardinality(S))
  BY <1>4
<1>6. \A s \in Sub : g[s] = SumStep(g, f, s)
  BY <1>1, <1>5
<1> QED
  BY <1>5, <1>6 DEF IsSum

\* Two such functions, for two sets and for summands that agree, give the same sums.
LEMMA SumUnique ==
  ASSUME NEW S, NEW R, IsFiniteSet(S), NEW f, NEW e, NEW g, NEW h,
         IsSum(g, f, S), IsSum(h, e, R), \A x \in S \cap R : f[x] = e[x]
  PROVE  \A s \in SUBSET (S \cap R) : g[s] = h[s]
<1> DEFINE Sub == SUBSET (S \cap R)
           N == {n \in Nat : \A s \in Sub : Cardinality(s) = n => g[s] = h[s]}
<1>1. \A s \in Sub : IsFiniteSet(s) /\ Cardinality(s) \in Nat
  BY FS_Subset, FS_CardinalityType
<1>2. \A s \in Sub : g[s] = SumStep(g, f, s) /\ h[s] = SumStep(h, e, s)
  BY DEF IsSum
<1>3. 0 \in N
  <2> SUFFICES ASSUME NEW s \in Sub, Cardinality(s) = 0 PROVE g[s] = h[s]
    OBVIOUS
  <2>1. s = {}
    BY <1>1, FS_EmptySet
  <2> QED
    BY <1>2, <2>1 DEF SumStep
<1>4. ASSUME NEW n \in Nat, n \in N PROVE n + 1 \in N
  <2> SUFFICES ASSUME NEW s \in Sub, Cardinality(s) = n + 1 PROVE g[s] = h[s]
    OBVIOUS
  <2>1. s # {}
    BY FS_EmptySet
  <2>2. PICK x : x = CHOOSE y \in s : TRUE
    OBVIOUS
  <2>3. x \in s /\ Cardinality(s \ {x}) = Cardinality(s) - 1
    BY <1>1, <2>1, <2>2, Rest
  <2>4. s \ {x} \in Sub /\ Cardinality(s \ {x}) = n /\ f[x] = e[x]
    BY <2>3
  <2>5. g[s \ {x}] = h[s \ {x}]
    BY <1>4, <2>4
  <2> QED
    BY <1>2, <2>1, <2>2, <2>4, <2>5 DEF SumStep
<1>5. \A n \in Nat : n \in N
  <2> HIDE DEF N
  <2> QED
    BY <1>3, <1>4, Induction
<1> QED
  BY <1>1, <1>5

\* A sum over a set that is not empty, one step.
LEMMA SumUnfold ==
  ASSUME NEW S, IsFiniteSet(S), NEW f
  PROVE  /\ S = {} => SumOver(f, S) = 0
         /\ S # {} => LET x == CHOOSE y \in S : TRUE
                      IN  SumOver(f, S) = f[x] + SumOver(f, S \ {x})
<1> DEFINE G(R) == CHOOSE g : IsSum(g, f, R)
<1>1. IsSum(G(S), f, S) /\ SumOver(f, S) = G(S)[S]
  BY SumExists, SumDef
<1>2. SumOver(f, S) = SumStep(G(S), f, S)
  <2> HIDE DEF G
  <2> QED
    BY <1>1 DEF IsSum
<1>3. ASSUME S # {}
      PROVE  SumOver(f, S \ {CHOOSE y \in S : TRUE}) = G(S)[S \ {CHOOSE y \in S : TRUE}]
  <2>1. PICK R : R = S \ {CHOOSE y \in S : TRUE}
    OBVIOUS
  <2>2. IsFiniteSet(R) /\ R \subseteq S
    BY <1>3, <2>1, Rest
  <2>3. IsSum(G(R), f, R) /\ SumOver(f, R) = G(R)[R]
    BY <2>2, SumExists, SumDef
  <2>4. \A s \in SUBSET (S \cap R) : G(S)[s] = G(R)[s]
    <3> HIDE DEF G
    <3> QED
      BY <1>1, <2>3, SumUnique
  <2>5. R \in SUBSET (S \cap R)
    BY <2>2
  <2> QED
    BY <2>1, <2>3, <2>4, <2>5
<1> HIDE DEF G
<1> QED
  BY <1>2, <1>3 DEF SumStep

\* A sum depends on the summands of its set only.
LEMMA SumSame ==
  ASSUME NEW S, IsFiniteSet(S), NEW f, NEW e, \A x \in S : f[x] = e[x]
  PROVE  SumOver(f, S) = SumOver(e, S)
<1>1. PICK g : g = CHOOSE y : IsSum(y, f, S)
  OBVIOUS
<1>2. PICK h : h = CHOOSE y : IsSum(y, e, S)
  OBVIOUS
<1>3. IsSum(g, f, S) /\ IsSum(h, e, S)
  BY <1>1, <1>2, SumExists
<1>4. \A s \in SUBSET (S \cap S) : g[s] = h[s]
  BY <1>3, SumUnique
<1>5. g[S] = h[S]
  BY <1>4
<1> QED
  BY <1>1, <1>2, <1>5, SumDef

\* One element less.
LEMMA OneLess ==
  ASSUME NEW S, IsFiniteSet(S), NEW n \in Nat, Cardinality(S) = n + 1
  PROVE  S # {} /\ \A c \in S : IsFiniteSet(S \ {c}) /\ Cardinality(S \ {c}) = n
<1>1. S # {}
  BY FS_EmptySet
<1>2. ASSUME NEW c \in S PROVE IsFiniteSet(S \ {c}) /\ Cardinality(S \ {c}) = n
  <2>1. IsFiniteSet(S \ {c}) /\ Cardinality(S \ {c}) = Cardinality(S) - 1
    BY FS_RemoveElement
  <2> QED
    BY <2>1
<1> QED
  BY <1>1, <1>2

\* A sum of integers is an integer.
LEMMA SumInt ==
  ASSUME NEW S, IsFiniteSet(S), NEW f, \A x \in S : f[x] \in Int
  PROVE  SumOver(f, S) \in Int
<1> DEFINE N == {n \in Nat : \A s \in SUBSET S : Cardinality(s) = n => SumOver(f, s) \in Int}
<1>1. \A s \in SUBSET S : IsFiniteSet(s) /\ Cardinality(s) \in Nat
  BY FS_Subset, FS_CardinalityType
<1>2. 0 \in N
  <2> SUFFICES ASSUME NEW s \in SUBSET S, Cardinality(s) = 0 PROVE SumOver(f, s) \in Int
    OBVIOUS
  <2>1. s = {}
    BY <1>1, FS_EmptySet
  <2>2. SumOver(f, s) = 0
    BY <1>1, <2>1, SumUnfold
  <2> QED
    BY <2>2
<1>3. ASSUME NEW n \in Nat, n \in N PROVE n + 1 \in N
  <2> SUFFICES ASSUME NEW s \in SUBSET S, Cardinality(s) = n + 1 PROVE SumOver(f, s) \in Int
    OBVIOUS
  <2>0. s # {} /\ \A y \in s : Cardinality(s \ {y}) = n
    BY <1>1, OneLess
  <2>1. PICK x : x = CHOOSE y \in s : TRUE
    OBVIOUS
  <2>2. x \in s /\ Cardinality(s \ {x}) = n
    BY <2>0, <2>1
  <2>3. SumOver(f, s) = f[x] + SumOver(f, s \ {x})
    BY <1>1, <2>1, <2>2, SumUnfold
  <2>4. SumOver(f, s \ {x}) \in Int
    BY <1>3, <2>2
  <2> QED
    BY <2>2, <2>3, <2>4
<1>4. \A n \in Nat : n \in N
  <2> HIDE DEF N
  <2> QED
    BY <1>2, <1>3, Induction
<1> QED
  BY <1>1, <1>4

\* Any summand may be taken out first.
LEMMA SumAny ==
  ASSUME NEW S, IsFiniteSet(S), NEW f, \A x \in S : f[x] \in Int
  PROVE  \A c \in S : SumOver(f, S) = f[c] + SumOver(f, S \ {c})
<1> DEFINE Good(s) == \A c \in s : SumOver(f, s) = f[c] + SumOver(f, s \ {c})
           N == {n \in Nat : \A s \in SUBSET S : Cardinality(s) = n => Good(s)}
<1>1. \A s \in SUBSET S : IsFiniteSet(s) /\ Cardinality(s) \in Nat
  BY FS_Subset, FS_CardinalityType
<1>2. 0 \in N
  <2> SUFFICES ASSUME NEW s \in SUBSET S, Cardinality(s) = 0 PROVE Good(s)
    OBVIOUS
  <2>1. s = {}
    BY <1>1, FS_EmptySet
  <2> QED
    BY <2>1
<1>3. ASSUME NEW n \in Nat, n \in N PROVE n + 1 \in N
  <2> SUFFICES ASSUME NEW s \in SUBSET S, Cardinality(s) = n + 1, NEW c \in s
               PROVE  SumOver(f, s) = f[c] + SumOver(f, s \ {c})
    OBVIOUS
  <2>1. s # {} /\ \A y \in s : Cardinality(s \ {y}) = n
    BY <1>1, OneLess
  <2>2. PICK x : x = CHOOSE y \in s : TRUE
    OBVIOUS
  <2>3. x \in s /\ SumOver(f, s) = f[x] + SumOver(f, s \ {x})
    BY <1>1, <2>1, <2>2, SumUnfold
  <2>4. \A y \in s : Good(s \ {y})
    <3> HIDE DEF Good
    <3> QED
      BY <1>3, <2>1
  <2>5. CASE c = x
    BY <2>3, <2>5
  <2>6. CASE c # x
    <3>1. PICK R : R = (s \ {x}) \ {c}
      OBVIOUS
    <3>2. (s \ {c}) \ {x} = R /\ c \in s \ {x} /\ x \in s \ {c} /\ R \in SUBSET S
      BY <2>3, <2>6, <3>1
    <3>3. SumOver(f, s \ {x}) = f[c] + SumOver(f, R)
      BY <2>3, <2>4, <3>1, <3>2
    <3>4. SumOver(f, s \ {c}) = f[x] + SumOver(f, R)
      BY <2>4, <3>2
    <3>5. SumOver(f, R) \in Int /\ f[c] \in Int /\ f[x] \in Int
      BY <1>1, <2>3, <3>2, SumInt
    <3> QED
      BY <2>3, <3>3, <3>4, <3>5
  <2> QED
    BY <2>5, <2>6
<1>4. \A n \in Nat : n \in N
  <2> HIDE DEF N
  <2> QED
    BY <1>2, <1>3, Induction
<1>5. Good(S)
  <2> HIDE DEF Good
  <2> QED
    BY <1>1, <1>4
<1> QED
  BY <1>5

\* Nothing adds up to nothing.
LEMMA SumZero ==
  ASSUME NEW S, IsFiniteSet(S), NEW f, \A x \in S : f[x] = 0
  PROVE  SumOver(f, S) = 0
<1> DEFINE N == {n \in Nat : \A s \in SUBSET S : Cardinality(s) = n => SumOver(f, s) = 0}
<1>1. \A s \in SUBSET S : IsFiniteSet(s) /\ Cardinality(s) \in Nat
  BY FS_Subset, FS_CardinalityType
<1>2. 0 \in N
  <2> SUFFICES ASSUME NEW s \in SUBSET S, Cardinality(s) = 0 PROVE SumOver(f, s) = 0
    OBVIOUS
  <2>1. s = {}
    BY <1>1, FS_EmptySet
  <2> QED
    BY <1>1, <2>1, SumUnfold
<1>3. ASSUME NEW n \in Nat, n \in N PROVE n + 1 \in N
  <2> SUFFICES ASSUME NEW s \in SUBSET S, Cardinality(s) = n + 1 PROVE SumOver(f, s) = 0
    OBVIOUS
  <2>0. s # {} /\ \A y \in s : Cardinality(s \ {y}) = n
    BY <1>1, OneLess
  <2>1. PICK x : x = CHOOSE y \in s : TRUE
    OBVIOUS
  <2>2. x \in s /\ Cardinality(s \ {x}) = n
    BY <2>0, <2>1
  <2>3. SumOver(f, s) = f[x] + SumOver(f, s \ {x})
    BY <1>1, <2>1, <2>2, SumUnfold
  <2>4. SumOver(f, s \ {x}) = 0
    BY <1>3, <2>2
  <2> QED
    BY <2>2, <2>3, <2>4
<1>4. \A n \in Nat : n \in N
  <2> HIDE DEF N
  <2> QED
    BY <1>2, <1>3, Induction
<1> QED
  BY <1>1, <1>4

\* A sum changes with one summand by as much as that does.
LEMMA SumChange ==
  ASSUME NEW S, IsFiniteSet(S), NEW f, NEW e, NEW c \in S,
         \A x \in S : f[x] \in Int /\ e[x] \in Int,
         \A x \in S \ {c} : e[x] = f[x]
  PROVE  SumOver(e, S) = SumOver(f, S) + (e[c] - f[c])
<1>1. IsFiniteSet(S \ {c})
  BY FS_RemoveElement
<1>2. SumOver(e, S \ {c}) = SumOver(f, S \ {c})
  BY <1>1, SumSame
<1>3. SumOver(f, S \ {c}) \in Int
  BY <1>1, SumInt
<1>4. SumOver(f, S) = f[c] + SumOver(f, S \ {c})
  BY SumAny
<1>5. SumOver(e, S) = e[c] + SumOver(e, S \ {c})
  BY SumAny
<1> QED
  BY <1>2, <1>3, <1>4, <1>5

-------------------------------------------------------------------------------
(* The packet statistics *)

Protocol == {"arp", "ip", "icmp", "udp", "dns", "tcp", "http", "http-", "ssl", "ssl-"}
Endpoint == Host \X Port
Conversation ==
    [a : Endpoint, b : Endpoint, packets : Nat, packets_to : Nat, packets_from : Nat]

\* The types of the counters, of the list and of the files.
StatsTyped ==
    /\ handler \in Handlers /\ packet \in Nat /\ types \in [Protocol -> Nat]
    /\ conver \in Seq(Conversation)

StatsInv == StatsTyped /\ ReportsAgree

\* The rows of the table.
LEMMA Rows == Range(Types) = Protocol
<1>1. \A q \in 1 .. 10 : Types[q] \in Protocol
  BY DEF Types, Protocol
<1>2. DOMAIN Types = 1 .. 10
  BY DEF Types
<1>3. \A t \in Protocol : \E q \in 1 .. 10 : Types[q] = t
  BY DEF Types, Protocol
<1> QED
  BY <1>1, <1>2, <1>3 DEF Range

\* update_pkt_type counts IP, TCP and UDP packets: their indices are below that of the
\* last row.
LEMMA Outer == Counted("ip") /\ Counted("tcp") /\ Counted("udp")
<1>1. DOMAIN Types = 1 .. 10
  BY DEF Types
<1>2. \A q \in 1 .. 10 : /\ Types[q] = "arp" <=> q = 1
                         /\ Types[q] = "ip" <=> q = 2
                         /\ Types[q] = "udp" <=> q = 4
                         /\ Types[q] = "tcp" <=> q = 6
                         /\ Types[q] = "ssl" <=> q = 9
  BY DEF Types
<1>3. /\ TypeIndex("arp") = 0 /\ TypeIndex("ip") = 1 /\ TypeIndex("udp") = 3
      /\ TypeIndex("tcp") = 5 /\ TypeIndex("ssl") = 8
  BY <1>1, <1>2 DEF TypeIndex
<1> QED
  BY <1>3 DEF Counted

\* The types update_pkt_type is called with for one frame.
TypesOf(p) == dl_ethernet(p) \cup (IF IsIp(p) THEN process_ip(p) ELSE {})

\* The rows a frame is counted in nest: one of the four application rows at most, only
\* with the TCP row; DNS only with UDP; one of ICMP, UDP and TCP at most, on Ethernet
\* only with IP; ARP or IP only for a frame that dl_ethernet counts.
LEMMA FrameNests ==
  ASSUME NEW p \in Frame
  PROVE  /\ TypesOf(p) \subseteq Protocol
         /\ \A t, u \in {"http", "http-", "ssl", "ssl-"} :
               t \in TypesOf(p) => "tcp" \in TypesOf(p) /\ (u \in TypesOf(p) => u = t)
         /\ "dns" \in TypesOf(p) => "udp" \in TypesOf(p)
         /\ "arp" \in TypesOf(p) => "ip" \notin TypesOf(p)
         /\ "arp" \in TypesOf(p) \/ "ip" \in TypesOf(p) => handler = "dl_ethernet"
         /\ \A t, u \in {"icmp", "udp", "tcp"} :
               t \in TypesOf(p) => /\ (u \in TypesOf(p) => u = t)
                                  /\ (handler = "dl_ethernet" => "ip" \in TypesOf(p))
         /\ "tcp" \in TypesOf(p) <=> IsIp(p) /\ Reaches(p, "total") /\ p.proto = "tcp"
<1>1. /\ p.proto \in {"tcp", "udp", "icmp", "other"} /\ p.cut \in {"none", "frame", "ip", "total", "tcp"}
      /\ p.ether \in {"ip", "arp", "other"} /\ p.fragment \in BOOLEAN
  BY DEF Frame, Frames
<1>2. process_tcp(p) \in {{}, {"http"}, {"http-"}, {"ssl"}, {"ssl-"}}
  BY DEF process_tcp
<1>3. process_udp(p) \in {{}, {"dns"}}
  BY DEF process_udp
<1>4. Reaches(p, "tcp") => Reaches(p, "total")
  BY DEF Reaches
<1>5. /\ dl_ethernet(p) \in {{}, {"ip"}, {"arp"}}
      /\ dl_ethernet(p) # {} => handler = "dl_ethernet"
      /\ handler = "dl_ethernet" /\ IsIp(p) => "ip" \in dl_ethernet(p)
  BY <1>1 DEF dl_ethernet, IsIp
<1>6. CASE p.proto = "tcp"
  <2>1. process_ip(p) \in {{}, {"tcp"}, {"tcp", "http"}, {"tcp", "http-"}, {"tcp", "ssl"}, {"tcp", "ssl-"}}
    BY <1>2, <1>4, <1>6 DEF process_ip
  <2>2. process_ip(p) # {} <=> Reaches(p, "total")
    BY <1>4, <1>6 DEF process_ip
  <2> QED
    BY <1>5, <1>6, <2>1, <2>2 DEF TypesOf, Protocol
<1>7. CASE p.proto = "udp"
  <2>1. process_ip(p) \in {{}, {"udp"}, {"udp", "dns"}}
    BY <1>3, <1>4, <1>7 DEF process_ip
  <2> QED
    BY <1>5, <1>7, <2>1 DEF TypesOf, Protocol
<1>8. CASE p.proto \in {"icmp", "other"}
  <2>1. process_ip(p) \in {{}, {"icmp"}}
    BY <1>8 DEF process_ip
  <2> QED
    BY <1>5, <1>8, <2>1 DEF TypesOf, Protocol
<1> QED
  BY <1>1, <1>6, <1>7, <1>8

\* What one call adds to each row.
LEMMA RowAdds ==
  ASSUME StatsTyped, NEW S
  PROVE  /\ update_pkt_type(S) \in [Protocol -> Nat]
         /\ \A t \in Protocol :
               /\ update_pkt_type(S)[t] \in {types[t], types[t] + 1}
               /\ t \notin S => update_pkt_type(S)[t] = types[t]
         /\ "tcp" \in S => update_pkt_type(S)["tcp"] = types["tcp"] + 1
         /\ "udp" \in S => update_pkt_type(S)["udp"] = types["udp"] + 1
         /\ "ip" \in S => update_pkt_type(S)["ip"] = types["ip"] + 1
<1>1. PICK R : R = Protocol
  OBVIOUS
<1>2. update_pkt_type(S) = [t \in R |-> types[t] + (IF t \in S /\ Counted(t) THEN 1 ELSE 0)]
  BY <1>1, Rows DEF update_pkt_type
<1>3. \A t \in R : types[t] \in Nat
  BY <1>1 DEF StatsTyped
<1>4. "tcp" \in R /\ "udp" \in R /\ "ip" \in R
  BY <1>1 DEF Protocol
<1> QED
  BY <1>1, <1>2, <1>3, <1>4, Outer

\* The sum of a sequence of numbers does not depend on where it starts.
LEMMA Shift ==
  ASSUME NEW n \in Nat, NEW f, NEW e,
         \A q \in 1 .. n : f[q] \in Int /\ e[q + 1] = f[q]
  PROVE  SumOver(e, 2 .. n + 1) = SumOver(f, 1 .. n)
<1> DEFINE N == {m \in Nat : m <= n => SumOver(e, 2 .. m + 1) = SumOver(f, 1 .. m)}
<1>1. 0 \in N
  <2>1. PICK S : S = {}
    OBVIOUS
  <2>2. 2 .. 0 + 1 = S /\ 1 .. 0 = S /\ IsFiniteSet(S)
    BY <2>1, FS_EmptySet
  <2>3. SumOver(e, S) = 0 /\ SumOver(f, S) = 0
    BY <2>1, <2>2, SumUnfold
  <2> QED
    BY <2>2, <2>3
<1>2. ASSUME NEW m \in Nat, m \in N
      PROVE  m + 1 \in N
  <2> SUFFICES ASSUME m + 1 <= n
               PROVE  SumOver(e, 2 .. m + 1 + 1) = SumOver(f, 1 .. m + 1)
    OBVIOUS
  <2>1. SumOver(e, 2 .. m + 1) = SumOver(f, 1 .. m)
    BY <1>2
  <2>2. PICK S : S = 1 .. m + 1
    OBVIOUS
  <2>3. PICK T : T = 2 .. m + 2
    OBVIOUS
  <2>4. IsFiniteSet(S)
    <3>1. PICK l \in Int, h \in Int : l = 1 /\ h = m + 1
      OBVIOUS
    <3> QED
      BY <2>2, <3>1, FS_Interval
  <2>5. IsFiniteSet(T)
    <3>1. PICK l \in Int, h \in Int : l = 2 /\ h = m + 2
      OBVIOUS
    <3> QED
      BY <2>3, <3>1, FS_Interval
  <2>6. m + 1 \in S /\ m + 2 \in T /\ S \ {m + 1} = 1 .. m /\ T \ {m + 2} = 2 .. m + 1
    BY <2>2, <2>3
  <2>7. \A x \in S : f[x] \in Int
    BY <2>2
  <2>8. \A x \in T : e[x] \in Int
    <3> SUFFICES ASSUME NEW x \in T PROVE e[x] \in Int
      OBVIOUS
    <3>1. PICK q \in 1 .. n : x = q + 1
      <4>1. x - 1 \in 1 .. n /\ x = (x - 1) + 1
        BY <2>3
      <4> QED
        BY <4>1
    <3> QED
      BY <3>1
  <2>9. SumOver(f, S) = f[m + 1] + SumOver(f, 1 .. m)
    <3>1. PICK c \in S : c = m + 1
      BY <2>6
    <3>2. SumOver(f, S) = f[c] + SumOver(f, S \ {c})
      BY ONLY <2>4, <2>7, SumAny, c \in S
    <3> QED
      BY <2>6, <3>1, <3>2
  <2>10. SumOver(e, T) = e[m + 2] + SumOver(e, 2 .. m + 1)
    <3>1. PICK c \in T : c = m + 2
      BY <2>6
    <3>2. SumOver(e, T) = e[c] + SumOver(e, T \ {c})
      BY ONLY <2>5, <2>8, SumAny, c \in T
    <3> QED
      BY <2>6, <3>1, <3>2
  <2>11. e[m + 2] = f[m + 1]
    <3>1. m + 1 \in 1 .. n /\ (m + 1) + 1 = m + 2
      OBVIOUS
    <3> QED
      BY <3>1
  <2> HIDE DEF N
  <2>12. SumOver(e, T) = SumOver(f, S)
    BY ONLY <2>1, <2>9, <2>10, <2>11
  <2>13. 2 .. m + 1 + 1 = T
    BY <2>3
  <2> QED
    BY <2>2, <2>12, <2>13
<1>3. \A m \in Nat : m \in N
  <2> HIDE DEF N
  <2> QED
    BY <1>1, <1>2, Induction
<1> QED
  BY <1>3

\* The packets of a conversation are counted from one.
LEMMA PacketsAreInt == \A c \in Conversation : c.packets \in Int
BY DEF Conversation

\* The packets of a list of conversations, as a sum over its indices.
LEMMA SumOfList ==
  ASSUME NEW list \in Seq(Conversation)
  PROVE  /\ PacketsOf(list) = SumOver(PacketsIn(list), 1 .. Len(list))
         /\ IsFiniteSet(1 .. Len(list)) /\ Len(list) \in Nat
         /\ \A q \in 1 .. Len(list) :
               PacketsIn(list)[q] = list[q].packets /\ list[q] \in Conversation
<1>1. DOMAIN list = 1 .. Len(list) /\ Len(list) \in Nat
  BY LenProperties
<1>2. IsFiniteSet(1 .. Len(list))
  <2>0. PICK n \in Nat : n = Len(list)
    BY <1>1
  <2>1. PICK l \in Int, h \in Int : l = 1 /\ h = n
    OBVIOUS
  <2> QED
    BY <2>0, <2>1, FS_Interval
<1>3. PacketsOf(list) = SumOver(PacketsIn(list), 1 .. Len(list))
  BY <1>1 DEF PacketsOf, SumOver
<1> QED
  BY <1>1, <1>2, <1>3, ElementOfSeq DEF PacketsIn

\* What tcp_conver_handler makes of the list: a conversation in front, or another one
\* in the place of the k-th.
InFront(c, list) == <<c>> \o list
InPlace(list, k, c) == [list EXCEPT ![k] = c]

\* A new conversation at the head of the list adds its packets.
LEMMA NewConversation ==
  ASSUME NEW list \in Seq(Conversation), NEW c \in Conversation, NEW longer,
         longer = InFront(c, list)
  PROVE  /\ longer \in Seq(Conversation)
         /\ Len(longer) = Len(list) + 1 /\ Len(list) \in Nat
         /\ longer[1] = c
         /\ \A q \in 1 .. Len(list) : longer[q + 1] = list[q]
         /\ PacketsOf(longer) = PacketsOf(list) + c.packets
<1>1. <<c>> \in Seq(Conversation) /\ Len(<<c>>) = 1 /\ <<c>>[1] = c
  OBVIOUS
<1>2. PICK one \in Seq(Conversation) : one = <<c>>
  BY <1>1
<1>3. Len(one) = 1 /\ one[1] = c
  BY <1>1, <1>2
<1>4. longer = one \o list
  BY <1>2 DEF InFront
<1>5. /\ longer \in Seq(Conversation)
      /\ Len(longer) = 1 + Len(list) /\ Len(list) \in Nat
      /\ \A q \in 1 .. Len(longer) : longer[q] = IF q <= 1 THEN one[q] ELSE list[q - 1]
  <2>1. PICK C : C = Conversation
    OBVIOUS
  <2>2. one \in Seq(C) /\ list \in Seq(C)
    BY <2>1
  <2>3. /\ one \o list \in Seq(C) /\ Len(one \o list) = Len(one) + Len(list)
        /\ \A q \in 1 .. Len(one) + Len(list) :
              (one \o list)[q] = IF q <= Len(one) THEN one[q] ELSE list[q - Len(one)]
    BY ONLY <2>2, ConcatProperties
  <2>4. Len(list) \in Nat
    BY ONLY <2>2, LenProperties
  <2> QED
    BY <1>3, <1>4, <2>1, <2>3, <2>4
<1>6. longer[1] = c /\ \A q \in 1 .. Len(list) : longer[q + 1] = list[q]
  BY <1>3, <1>5
<1>7. PICK n \in Nat : n = Len(list)
  BY <1>5
<1>8. PICK f : f = PacketsIn(list)
  OBVIOUS
<1>9. PICK e : e = PacketsIn(longer)
  OBVIOUS
<1>10. /\ PacketsOf(list) = SumOver(f, 1 .. n)
       /\ \A q \in 1 .. n : f[q] = list[q].packets /\ list[q] \in Conversation
  BY <1>7, <1>8, SumOfList
<1>11. /\ PacketsOf(longer) = SumOver(e, 1 .. n + 1) /\ IsFiniteSet(1 .. n + 1)
       /\ \A q \in 1 .. n + 1 : e[q] = longer[q].packets /\ longer[q] \in Conversation
  <2>1. Len(longer) = n + 1
    BY <1>5, <1>7
  <2> QED
    BY <1>5, <1>9, <2>1, SumOfList
<1>12. \A q \in 1 .. n : f[q] \in Int
  BY <1>10, PacketsAreInt
<1>13. \A q \in 1 .. n : e[q + 1] = f[q]
  <2> SUFFICES ASSUME NEW q \in 1 .. n PROVE e[q + 1] = f[q]
    OBVIOUS
  <2>1. PICK j \in 1 .. n + 1 : j = q + 1
    OBVIOUS
  <2>2. e[j] = longer[j].packets /\ f[q] = list[q].packets /\ longer[q + 1] = list[q]
    BY <1>6, <1>7, <1>10, <1>11
  <2> QED
    BY <2>1, <2>2
<1>14. SumOver(e, 2 .. n + 1) = SumOver(f, 1 .. n)
  BY ONLY <1>12, <1>13, n \in Nat, Shift
<1>15. SumOver(e, 1 .. n + 1) = e[1] + SumOver(e, 2 .. n + 1)
  <2>1. PICK S : S = 1 .. n + 1
    OBVIOUS
  <2>2. IsFiniteSet(S) /\ \A x \in S : e[x] \in Int
    BY <1>11, <2>1, PacketsAreInt
  <2>3. PICK k \in S : k = 1
    BY <2>1
  <2>4. SumOver(e, S) = e[k] + SumOver(e, S \ {k})
    BY ONLY <2>2, k \in S, SumAny
  <2>5. S \ {k} = 2 .. n + 1
    BY <2>1, <2>3
  <2> QED
    BY <2>1, <2>3, <2>4, <2>5
<1>16. e[1] = c.packets /\ c.packets \in Int
  <2>1. 1 \in 1 .. n + 1 /\ c.packets \in Nat
    BY DEF Conversation
  <2> QED
    BY <1>6, <1>11, <2>1
<1>17. SumOver(f, 1 .. n) \in Int
  <2>1. PICK S : S = 1 .. n
    OBVIOUS
  <2>2. IsFiniteSet(S) /\ \A x \in S : f[x] \in Int
    BY <1>7, <1>12, <2>1, SumOfList
  <2> QED
    BY ONLY <2>1, <2>2, SumInt
<1> QED
  BY <1>5, <1>6, <1>10, <1>11, <1>14, <1>15, <1>16, <1>17

\* A packet counted in one conversation of the list is one more in the sum.
LEMMA OneMore ==
  ASSUME NEW list \in Seq(Conversation), NEW k \in 1 .. Len(list), NEW c \in Conversation,
         c.packets = list[k].packets + 1, NEW after, after = InPlace(list, k, c)
  PROVE  /\ after \in Seq(Conversation) /\ Len(after) = Len(list)
         /\ after[k] = c /\ \A q \in 1 .. Len(list) : q # k => after[q] = list[q]
         /\ PacketsOf(after) = PacketsOf(list) + 1
<1>1. /\ after \in Seq(Conversation) /\ Len(after) = Len(list)
      /\ after[k] = c /\ \A q \in 1 .. Len(list) : q # k => after[q] = list[q]
  BY ExceptSeq DEF InPlace
<1>2. PICK S : S = 1 .. Len(list)
  OBVIOUS
<1>3. PICK f : f = PacketsIn(list)
  OBVIOUS
<1>4. PICK e : e = PacketsIn(after)
  OBVIOUS
<1>5. /\ PacketsOf(list) = SumOver(f, S) /\ IsFiniteSet(S)
      /\ \A q \in S : f[q] = list[q].packets /\ list[q] \in Conversation
  BY <1>2, <1>3, SumOfList
<1>6. /\ PacketsOf(after) = SumOver(e, S)
      /\ \A q \in S : e[q] = after[q].packets /\ after[q] \in Conversation
  BY <1>1, <1>2, <1>4, SumOfList
<1>7. \A x \in S : f[x] \in Int /\ e[x] \in Int
  BY <1>5, <1>6, PacketsAreInt
<1>8. k \in S /\ (\A x \in S \ {k} : e[x] = f[x])
  BY <1>1, <1>2, <1>5, <1>6
<1>9. SumOver(e, S) = SumOver(f, S) + (e[k] - f[k])
  BY ONLY <1>5, <1>7, <1>8, SumChange
<1>10. e[k] - f[k] = 1
  <2>1. f[k] \in Int /\ e[k] = f[k] + 1
    BY <1>1, <1>5, <1>6, <1>7, <1>8
  <2> QED
    BY <2>1
<1> QED
  BY <1>1, <1>5, <1>6, <1>9, <1>10

\* Two endpoints as a set: a conversation matches in either direction.
LEMMA EitherDirection ==
  ASSUME NEW c, NEW p
  PROVE  Matches(c, p) <=> {c.a, c.b} = {p.src, p.dst}
<1>1. PICK a, b, x, y : a = c.a /\ b = c.b /\ x = p.src /\ y = p.dst
  OBVIOUS
<1>2. {a, b} = {x, y} <=> (a = x /\ b = y) \/ (a = y /\ b = x)
  BY ONLY TRUE
<1> QED
  BY <1>1, <1>2 DEF Matches

\* Counting a packet in a conversation, in the direction it has.
LEMMA CountedIn ==
  ASSUME NEW c \in Conversation, NEW p
  PROVE  /\ CountIn(c, p) \in Conversation
         /\ CountIn(c, p).packets = c.packets + 1
         /\ CountIn(c, p).a = c.a /\ CountIn(c, p).b = c.b
         /\ c.packets = c.packets_to + c.packets_from =>
               CountIn(c, p).packets = CountIn(c, p).packets_to + CountIn(c, p).packets_from
<1>1. /\ c.packets \in Nat /\ c.packets_to \in Nat /\ c.packets_from \in Nat
      /\ c.a \in Endpoint /\ c.b \in Endpoint
  BY DEF Conversation
<1>2. CASE c.a = p.src /\ c.b = p.dst
  <2>1. CountIn(c, p) = [a |-> c.a, b |-> c.b, packets |-> c.packets + 1,
                         packets_to |-> c.packets_to + 1, packets_from |-> c.packets_from]
    BY <1>2 DEF CountIn, Conversation
  <2> QED
    BY <1>1, <2>1 DEF Conversation
<1>3. CASE ~(c.a = p.src /\ c.b = p.dst)
  <2>1. CountIn(c, p) = [a |-> c.a, b |-> c.b, packets |-> c.packets + 1,
                         packets_to |-> c.packets_to, packets_from |-> c.packets_from + 1]
    BY <1>3 DEF CountIn, Conversation
  <2> QED
    BY <1>1, <2>1 DEF Conversation
<1> QED
  BY <1>2, <1>3

\* The directions of a list of conversations add up, and it lists none twice.
Sound(list) ==
    /\ list \in Seq(Conversation)
    /\ \A q \in 1 .. Len(list) : list[q].packets = list[q].packets_to + list[q].packets_from
    /\ \A q, j \in 1 .. Len(list) :
          {list[q].a, list[q].b} = {list[j].a, list[j].b} => q = j

\* tcp_conver_handler counts the packet in the conversation it belongs to, or begins it.
LEMMA HandlerKeeps ==
  ASSUME Sound(conver), NEW p \in Frame
  PROVE  /\ Sound(tcp_conver_handler(p))
         /\ PacketsOf(tcp_conver_handler(p)) = PacketsOf(conver) + 1
<1>1. PICK list \in Seq(Conversation) : list = conver
  BY DEF Sound
<1>2. /\ Sound(list) /\ DOMAIN list = 1 .. Len(list) /\ Len(list) \in Nat
  BY <1>1, LenProperties
<1>3. p.src \in Endpoint /\ p.dst \in Endpoint
  BY DEF Frame, Frames, Endpoint
<1>4. CASE \E q \in 1 .. Len(list) : Matches(list[q], p)
  <2>1. PICK I : I = {q \in 1 .. Len(list) : Matches(list[q], p)}
    OBVIOUS
  <2>2. I \subseteq Nat /\ I # {}
    BY <1>4, <2>1
  <2>3. PICK k : k = SelectInSeq(list, LAMBDA c : Matches(c, p))
    OBVIOUS
  <2>4. k = Min(I)
    BY <2>1, <2>2, <2>3 DEF SelectInSeq
  <2>5. \E x \in I : \A y \in I : x <= y
    BY <2>2, SmallestOf
  <2>6. k \in I
    BY <2>4, <2>5 DEF Min
  <2>7. k \in 1 .. Len(list)
    BY <2>1, <2>6
  <2>8. PICK old \in Conversation : old = list[k]
    BY <2>7, ElementOfSeq
  <2>9. PICK c : c = CountIn(old, p)
    OBVIOUS
  <2>10. /\ c \in Conversation /\ c.packets = old.packets + 1 /\ c.a = old.a /\ c.b = old.b
         /\ c.packets = c.packets_to + c.packets_from
    BY <1>2, <2>7, <2>8, <2>9, CountedIn DEF Sound
  <2>11. PICK after : after = InPlace(list, k, c)
    OBVIOUS
  <2>12. tcp_conver_handler(p) = after
    BY <1>1, <1>2, <1>4, <2>3, <2>8, <2>9, <2>11 DEF tcp_conver_handler, InPlace
  <2>13. /\ after \in Seq(Conversation) /\ Len(after) = Len(list)
         /\ after[k] = c /\ (\A q \in 1 .. Len(list) : q # k => after[q] = list[q])
         /\ PacketsOf(after) = PacketsOf(list) + 1
    <3>1. c \in Conversation /\ c.packets = list[k].packets + 1
      BY <2>8, <2>10
    <3> QED
      BY ONLY <2>7, <2>11, <3>1, list \in Seq(Conversation), OneMore
  <2>14. \A q \in 1 .. Len(list) : after[q].a = list[q].a /\ after[q].b = list[q].b
    BY <2>8, <2>10, <2>13
  <2>15. \A q \in 1 .. Len(list) : after[q].packets = after[q].packets_to + after[q].packets_from
    BY <1>2, <2>10, <2>13 DEF Sound
  <2>16. Sound(after)
    BY <1>2, <2>13, <2>14, <2>15 DEF Sound
  <2> QED
    BY <1>1, <2>12, <2>13, <2>16
<1>5. CASE ~\E q \in 1 .. Len(list) : Matches(list[q], p)
  <2>1. PICK c : c = [a |-> p.src, b |-> p.dst, packets |-> 1, packets_to |-> 1, packets_from |-> 0]
    OBVIOUS
  <2>2. /\ c \in Conversation /\ c.packets = 1 /\ c.packets = c.packets_to + c.packets_from
        /\ c.a = p.src /\ c.b = p.dst
    BY <1>3, <2>1 DEF Conversation
  <2>3. PICK after : after = InFront(c, list)
    OBVIOUS
  <2>4. tcp_conver_handler(p) = after
    BY <1>1, <1>2, <1>5, <2>1, <2>3 DEF tcp_conver_handler, InFront
  <2>5. /\ after \in Seq(Conversation) /\ Len(after) = Len(list) + 1
        /\ after[1] = c /\ (\A q \in 1 .. Len(list) : after[q + 1] = list[q])
        /\ PacketsOf(after) = PacketsOf(list) + 1
    <3>1. c \in Conversation
      BY <2>2
    <3>2. /\ InFront(c, list) \in Seq(Conversation)
          /\ PacketsOf(InFront(c, list)) = PacketsOf(list) + c.packets
      BY ONLY <3>1, list \in Seq(Conversation), NewConversation
    <3>3. Len(InFront(c, list)) = Len(list) + 1 /\ InFront(c, list)[1] = c
      BY ONLY <3>1, list \in Seq(Conversation), NewConversation
    <3>4. \A q \in 1 .. Len(list) : InFront(c, list)[q + 1] = list[q]
      BY ONLY <3>1, list \in Seq(Conversation), NewConversation
    <3> QED
      BY <2>2, <2>3, <3>2, <3>3, <3>4
  <2>6. \A q \in 1 .. Len(after) : q = 1 \/ \E j \in 1 .. Len(list) : q = j + 1
    <3> SUFFICES ASSUME NEW q \in 1 .. Len(after), q # 1
                 PROVE  \E j \in 1 .. Len(list) : q = j + 1
      OBVIOUS
    <3>1. q - 1 \in 1 .. Len(list) /\ q = (q - 1) + 1
      BY <1>2, <2>5
    <3> QED
      BY <3>1
  <2>7. \A q \in 1 .. Len(after) : after[q].packets = after[q].packets_to + after[q].packets_from
    BY <1>2, <2>2, <2>5, <2>6 DEF Sound
  <2>8. \A j \in 1 .. Len(list) : {list[j].a, list[j].b} # {c.a, c.b}
    BY <1>5, <2>2, EitherDirection
  <2>9. ASSUME NEW q \in 1 .. Len(after), NEW j \in 1 .. Len(after),
               {after[q].a, after[q].b} = {after[j].a, after[j].b}
        PROVE  q = j
    <3>1. CASE q = 1 /\ j = 1
      BY <3>1
    <3>2. CASE q = 1 /\ j # 1
      <4>1. PICK m \in 1 .. Len(list) : j = m + 1
        BY <2>6, <3>2
      <4>2. after[j] = list[m] /\ after[q] = c
        BY <2>5, <3>2, <4>1
      <4> QED
        BY ONLY <2>8, <2>9, <4>2, m \in 1 .. Len(list)
    <3>3. CASE q # 1 /\ j = 1
      <4>1. PICK m \in 1 .. Len(list) : q = m + 1
        BY <2>6, <3>3
      <4>2. after[q] = list[m] /\ after[j] = c
        BY <2>5, <3>3, <4>1
      <4> QED
        BY ONLY <2>8, <2>9, <4>2, m \in 1 .. Len(list)
    <3>4. CASE q # 1 /\ j # 1
      <4>1. PICK m \in 1 .. Len(list) : q = m + 1
        BY <2>6, <3>4
      <4>2. PICK n \in 1 .. Len(list) : j = n + 1
        BY <2>6, <3>4
      <4>3. m = n
        BY <1>2, <2>5, <2>9, <4>1, <4>2 DEF Sound
      <4> QED
        BY <4>1, <4>2, <4>3
    <3> QED
      BY <3>1, <3>2, <3>3, <3>4
  <2>10. Sound(after)
    BY <2>5, <2>7, <2>9 DEF Sound
  <2> QED
    BY <1>1, <2>4, <2>5, <2>10
<1> QED
  BY <1>4, <1>5

\* The table is a hierarchy before and after a frame.
LEMMA RowsStillNest ==
  ASSUME StatsTyped, Nested(types, packet), NEW p \in Frame,
         NEW after, after = update_pkt_type(TypesOf(p)),
         NEW n \in Nat, n = IF handler = "dl_ethernet" THEN packet + 1 ELSE packet
  PROVE  Nested(after, n)
<1>1. PICK S : S = TypesOf(p)
  OBVIOUS
<1>2. \A t \in Protocol : types[t] \in Nat
  BY DEF StatsTyped
<1>3. /\ \A t \in Protocol : /\ after[t] \in {types[t], types[t] + 1}
                             /\ t \notin S => after[t] = types[t]
      /\ "tcp" \in S => after["tcp"] = types["tcp"] + 1
      /\ "udp" \in S => after["udp"] = types["udp"] + 1
      /\ "ip" \in S => after["ip"] = types["ip"] + 1
  BY <1>1, RowAdds
<1>4. /\ \A t, u \in {"http", "http-", "ssl", "ssl-"} : t \in S => "tcp" \in S /\ (u \in S => u = t)
      /\ "dns" \in S => "udp" \in S
      /\ "arp" \in S => "ip" \notin S
      /\ "arp" \in S \/ "ip" \in S => handler = "dl_ethernet"
      /\ \A t, u \in {"icmp", "udp", "tcp"} :
            t \in S => (u \in S => u = t) /\ (handler = "dl_ethernet" => "ip" \in S)
  BY <1>1, FrameNests
<1>5. PICK o \in [Protocol -> Nat] : o = types
  BY DEF StatsTyped
<1>6. /\ o["http"] + o["http-"] + o["ssl"] + o["ssl-"] <= o["tcp"]
      /\ o["dns"] <= o["udp"]
      /\ handler = "dl_ethernet" =>
            o["icmp"] + o["udp"] + o["tcp"] <= o["ip"] /\ o["arp"] + o["ip"] <= packet
      /\ handler # "dl_ethernet" => o["ip"] = 0 /\ o["arp"] = 0 /\ packet = 0
  BY <1>5 DEF Nested
<1>7. after["http"] + after["http-"] + after["ssl"] + after["ssl-"] <= after["tcp"]
  <2>1. /\ o["http"] \in Nat /\ o["http-"] \in Nat /\ o["ssl"] \in Nat /\ o["ssl-"] \in Nat
        /\ o["tcp"] \in Nat
    BY DEF Protocol
  <2>2. \A t \in {"http", "http-", "ssl", "ssl-", "tcp"} :
           after[t] \in {o[t], o[t] + 1} /\ (t \notin S => after[t] = o[t])
    BY <1>3, <1>5 DEF Protocol
  <2>3. CASE "tcp" \in S
    <3>1. after["tcp"] = o["tcp"] + 1
      BY <1>3, <1>5, <2>3
    <3>2. \E t \in {"http", "http-", "ssl", "ssl-"} :
             \A u \in {"http", "http-", "ssl", "ssl-"} : u # t => u \notin S
      BY <1>4
    <3>3. PICK t \in {"http", "http-", "ssl", "ssl-"} :
             \A u \in {"http", "http-", "ssl", "ssl-"} : u # t => after[u] = o[u]
      BY <2>2, <3>2
    <3>4. \A u \in {"http", "http-", "ssl", "ssl-"} : after[u] \in {o[u], o[u] + 1}
      BY <2>2
    <3>5. \/ /\ after["http-"] = o["http-"] /\ after["ssl"] = o["ssl"] /\ after["ssl-"] = o["ssl-"]
             /\ after["http"] \in {o["http"], o["http"] + 1}
          \/ /\ after["http"] = o["http"] /\ after["ssl"] = o["ssl"] /\ after["ssl-"] = o["ssl-"]
             /\ after["http-"] \in {o["http-"], o["http-"] + 1}
          \/ /\ after["http"] = o["http"] /\ after["http-"] = o["http-"] /\ after["ssl-"] = o["ssl-"]
             /\ after["ssl"] \in {o["ssl"], o["ssl"] + 1}
          \/ /\ after["http"] = o["http"] /\ after["http-"] = o["http-"] /\ after["ssl"] = o["ssl"]
             /\ after["ssl-"] \in {o["ssl-"], o["ssl-"] + 1}
      BY <3>3, <3>4
    <3> QED
      BY <1>6, <2>1, <3>1, <3>5
  <2>4. CASE "tcp" \notin S
    <3>1. \A t \in {"http", "http-", "ssl", "ssl-", "tcp"} : t \notin S
      BY <1>4, <2>4
    <3>2. \A t \in {"http", "http-", "ssl", "ssl-", "tcp"} : after[t] = o[t]
      BY <2>2, <3>1
    <3> QED
      BY <1>6, <3>2
  <2> QED
    BY <2>3, <2>4
<1>8. after["dns"] <= after["udp"]
  <2>1. o["dns"] \in Nat /\ o["udp"] \in Nat
    BY DEF Protocol
  <2>2. /\ after["dns"] \in {o["dns"], o["dns"] + 1} /\ ("dns" \notin S => after["dns"] = o["dns"])
        /\ after["udp"] \in {o["udp"], o["udp"] + 1} /\ ("udp" \in S => after["udp"] = o["udp"] + 1)
    BY <1>3, <1>5 DEF Protocol
  <2> QED
    BY <1>4, <1>6, <2>1, <2>2
<1>9. \A t \in {"arp", "ip", "icmp", "udp", "tcp"} :
         /\ o[t] \in Nat /\ after[t] \in {o[t], o[t] + 1} /\ (t \notin S => after[t] = o[t])
         /\ t = "ip" /\ t \in S => after[t] = o[t] + 1
  BY <1>3, <1>5 DEF Protocol
<1>10. CASE handler = "dl_ethernet"
  <2>1. packet \in Nat /\ n = packet + 1
    BY <1>10 DEF StatsTyped
  <2>2. after["arp"] + after["ip"] <= n
    BY <1>4, <1>6, <1>9, <1>10, <2>1
  <2>3. after["icmp"] + after["udp"] + after["tcp"] <= after["ip"]
    <3>1. CASE "ip" \in S
      <4>1. \/ after["icmp"] = o["icmp"] /\ after["udp"] = o["udp"]
            \/ after["icmp"] = o["icmp"] /\ after["tcp"] = o["tcp"]
            \/ after["udp"] = o["udp"] /\ after["tcp"] = o["tcp"]
        BY <1>4, <1>9
      <4> QED
        BY <1>6, <1>9, <1>10, <3>1, <4>1
    <3>2. CASE "ip" \notin S
      <4>1. "icmp" \notin S /\ "udp" \notin S /\ "tcp" \notin S
        BY <1>4, <1>10, <3>2
      <4>2. after["icmp"] = o["icmp"] /\ after["udp"] = o["udp"] /\ after["tcp"] = o["tcp"]
        BY <1>9, <4>1
      <4> QED
        BY <1>6, <1>9, <1>10, <3>2, <4>2
    <3> QED
      BY <3>1, <3>2
  <2> QED
    BY <1>7, <1>8, <1>10, <2>2, <2>3 DEF Nested
<1>11. CASE handler # "dl_ethernet"
  <2>1. n = 0 /\ after["ip"] = 0 /\ after["arp"] = 0
    BY <1>4, <1>6, <1>9, <1>11
  <2> QED
    BY <1>7, <1>8, <1>11, <2>1 DEF Nested
<1> QED
  BY <1>10, <1>11

\* Every frame leaves table, conversations and files in agreement.
LEMMA CaptureKeeps ==
  ASSUME StatsInv, NEW p \in Frame, Capture(p)
  PROVE  StatsInv'
<1>1. /\ packet' = (IF handler = "dl_ethernet" THEN packet + 1 ELSE packet)
      /\ handler' = handler
      /\ types' = update_pkt_type(TypesOf(p))
      /\ conver' = IF IsIp(p) /\ Reaches(p, "total") /\ p.proto = "tcp"
                   THEN tcp_conver_handler(p) ELSE conver
  BY DEF Capture, TypesOf
<1>2. /\ StatsTyped /\ Sound(conver) /\ types["tcp"] = PacketsOf(conver)
      /\ Nested(types, packet)
  <2>1. DOMAIN conver = 1 .. Len(conver)
    BY LenProperties DEF StatsInv, StatsTyped
  <2> QED
    BY <2>1 DEF StatsInv, StatsTyped, ReportsAgree, ConversationsAddUp, NoTwins, RowsNest, Sound
<1>3. packet' \in Nat /\ handler' \in Handlers
  BY <1>1, <1>2 DEF StatsTyped
<1>4. types' \in [Protocol -> Nat]
  BY <1>1, <1>2, RowAdds
<1>5. Nested(types', packet')
  BY <1>1, <1>2, <1>3, RowsStillNest DEF Nested
<1>6. Sound(conver') /\ types'["tcp"] = PacketsOf(conver')
  <2>1. CASE IsIp(p) /\ Reaches(p, "total") /\ p.proto = "tcp"
    <3>1. types'["tcp"] = types["tcp"] + 1
      BY <1>1, <1>2, <2>1, FrameNests, RowAdds
    <3>2. Sound(tcp_conver_handler(p)) /\ PacketsOf(tcp_conver_handler(p)) = PacketsOf(conver) + 1
      BY <1>2, HandlerKeeps
    <3> QED
      BY <1>1, <1>2, <2>1, <3>1, <3>2
  <2>2. CASE ~(IsIp(p) /\ Reaches(p, "total") /\ p.proto = "tcp")
    <3>1. types'["tcp"] = types["tcp"]
      <4>1. "tcp" \notin TypesOf(p) /\ "tcp" \in Protocol
        BY <2>2, FrameNests DEF Protocol
      <4> QED
        BY <1>1, <1>2, <4>1, RowAdds
    <3> QED
      BY <1>1, <1>2, <2>2, <3>1
  <2> QED
    BY <2>1, <2>2
<1>7. StatsTyped'
  BY <1>3, <1>4, <1>6 DEF StatsTyped, Sound
<1>8. DOMAIN conver' = 1 .. Len(conver')
  BY <1>6, LenProperties DEF Sound
<1>9. NoTwins'
  BY <1>6, <1>8 DEF NoTwins, Sound
<1>10. \A q \in DOMAIN conver' : conver'[q].packets = conver'[q].packets_to + conver'[q].packets_from
  BY <1>6, <1>8 DEF Sound
<1>11. /\ summary_file'.types["tcp"] = PacketsOf(tcp_conver')
       /\ Nested(summary_file'.types, summary_file'.packet)
  <2>1. CASE IsIp(p) /\ Reaches(p, "tcp")
    <3>1. summary_file' = [packet |-> packet', types |-> types'] /\ tcp_conver' = conver'
      BY <2>1 DEF Capture, update_summary_file, update_tcp_conver_file
    <3> QED
      BY <1>5, <1>6, <3>1
  <2>2. CASE ~(IsIp(p) /\ Reaches(p, "tcp"))
    <3>1. UNCHANGED <<summary_file, tcp_conver>>
      BY <2>2 DEF Capture
    <3> QED
      BY <3>1 DEF StatsInv, ReportsAgree, ConversationsAddUp, RowsNest
  <2> QED
    BY <2>1, <2>2
<1>12. PacketsOf(conver)' = PacketsOf(conver') /\ PacketsOf(tcp_conver)' = PacketsOf(tcp_conver')
  OBVIOUS
<1>13. ConversationsAddUp'
  BY <1>6, <1>10, <1>11, <1>12 DEF ConversationsAddUp
<1>14. RowsNest'
  BY <1>1, <1>5, <1>11 DEF RowsNest, Nested
<1> QED
  BY <1>7, <1>9, <1>13, <1>14 DEF StatsInv, ReportsAgree

\* Nothing counted, nothing listed.
LEMMA StatsStart ==
  ASSUME StatsInit
  PROVE  StatsInv
<1>1. types = [t \in Protocol |-> 0] /\ packet = 0 /\ conver = <<>>
      /\ summary_file = [packet |-> packet, types |-> types] /\ tcp_conver = conver
      /\ handler \in Handlers
  BY Rows DEF StatsInit, find_handler
<1>2. conver \in Seq(Conversation) /\ Len(conver) = 0 /\ DOMAIN conver = {}
  BY <1>1
<1>3. StatsTyped
  BY <1>1, <1>2 DEF StatsTyped
<1>4. PacketsOf(conver) = 0
  <2>1. PICK S : S = {}
    OBVIOUS
  <2>2. PICK f : f = PacketsIn(conver)
    OBVIOUS
  <2>3. PacketsOf(conver) = SumOver(f, 1 .. Len(conver))
    BY <1>2, <2>2, SumOfList
  <2>5. 1 .. Len(conver) = S
    BY ONLY <1>2, <2>1
  <2>4. SumOver(f, S) = 0
    BY ONLY <2>1, SumZero, FS_EmptySet
  <2> QED
    BY <2>3, <2>4, <2>5
<1>5. types["tcp"] = 0
  BY <1>1 DEF Protocol
<1>6. ConversationsAddUp
  BY <1>1, <1>2, <1>4, <1>5 DEF ConversationsAddUp
<1>7. NoTwins
  BY <1>2 DEF NoTwins
<1>8. Nested(types, packet)
  BY <1>1 DEF Nested, Protocol, Handlers
<1>9. RowsNest
  BY <1>1, <1>8 DEF RowsNest
<1> QED
  BY <1>3, <1>6, <1>7, <1>9 DEF StatsInv, ReportsAgree

\* Whatever is captured, by any number of hosts, the protocol table and the list of
\* conversations describe the same packets, in memory and in both files: update_pkt_type
\* and tcp_conver_handler, called at different places of process_ip, count the same
\* TCP packets, a conversation is listed once whichever side is heard first, and the
\* inner rows do not exceed their outer one, but for the row of ip on links other than
\* Ethernet, which stays empty.
THEOREM ReportsHold == StatsSpec => []ReportsAgree
<1>1. StatsInit => StatsInv
  BY StatsStart
<1>2. StatsInv /\ [StatsNext]_statsVars => StatsInv'
  <2> SUFFICES ASSUME StatsInv, [StatsNext]_statsVars PROVE StatsInv'
    OBVIOUS
  <2>1. CASE StatsNext
    BY <2>1, CaptureKeeps DEF StatsNext
  <2>2. CASE UNCHANGED statsVars
    <3>1. UNCHANGED <<handler, packet, types, conver, summary_file, tcp_conver>>
      BY <2>2 DEF statsVars
    <3> QED
      BY <3>1 DEF StatsInv, StatsTyped, ReportsAgree, ConversationsAddUp, NoTwins, RowsNest, Nested
  <2> QED
    BY <2>1, <2>2
<1>3. StatsInv => ReportsAgree
  BY DEF StatsInv
<1> QED
  BY <1>1, <1>2, <1>3, PTL DEF StatsSpec

-------------------------------------------------------------------------------
(* The benchmark *)

USE BenchmarkAssumption

Result == [succeed : Nat, failed : Nat]

\* BenchTypeOK, and the types of what it leaves out.
BenchTyped ==
    /\ BenchTypeOK
    /\ forked \in 0 .. Cardinality(Child)
    /\ sum \in Result /\ pipe \in Seq(Result)
    /\ cpc \in [Child -> {"unborn", "sleep", "nexttry", "connect", "write", "response", "read",
                          "close", "cut", "report", "exited", "dead"}]

\* Clients are forked in order, and before the last one is no result has been read.
ForkedInOrder ==
    /\ ppc = "fork" => clients = Cardinality(Child)
    /\ ppc = "done" => clients = 0
    /\ \A c \in Child : c > forked => cpc[c] = "unborn"

\* The counters of a client and what really happened, wherever it is: they agree
\* until the alarm has interrupted a call or cut a response short.
Exact(c) == failed[c] = broken[c] /\ succeed[c] = answered[c]
CountedSoFar(c) ==
    /\ cpc[c] \in {"unborn", "sleep"} => c \notin armed /\ c \notin ben_timeout
    /\ cpc[c] = "cut" => c \in ben_timeout
    /\ cpc[c] \notin {"nexttry", "report", "exited", "dead"} => Exact(c)
    /\ cpc[c] = "nexttry" /\ c \notin ben_timeout => Exact(c)
    /\ cpc[c] = "nexttry" => /\ broken[c] <= failed[c] /\ failed[c] <= broken[c] + 1
                             /\ answered[c] <= succeed[c] /\ succeed[c] <= answered[c] + 1
    /\ cpc[c] \in {"report", "exited"} =>
          /\ failed[c] <= broken[c] /\ broken[c] <= failed[c] + 1
          /\ answered[c] <= succeed[c] /\ succeed[c] <= answered[c] + 1

\* The results in the pipe are those of different clients that have exited, who[q]
\* having written the q-th; the parent has added up those of the other exited ones,
\* and counts the clients down as it reads.
Exited == {c \in Child : cpc[c] = "exited"}
Read(who) == Exited \ {who[q] : q \in 1 .. Len(who)}
Only(f, R) == [c \in Child |-> IF c \in R THEN f[c] ELSE 0]
WrittenBy(who) ==
    /\ who \in Seq(Child) /\ Len(who) = Len(pipe)
    /\ \A q, j \in 1 .. Len(who) : who[q] = who[j] => q = j
    /\ \A q \in 1 .. Len(who) :
          /\ cpc[who[q]] = "exited"
          /\ pipe[q].succeed = succeed[who[q]] /\ pipe[q].failed = failed[who[q]]
    /\ sum.succeed = SumOver(Only(succeed, Read(who)), Child)
    /\ sum.failed = SumOver(Only(failed, Read(who)), Child)
    /\ Cardinality(Read(who)) = Cardinality(Child) - clients

BenchInv ==
    /\ BenchTyped
    /\ ForkedInOrder
    /\ \A c \in Child : CountedSoFar(c)
    /\ \E who : WrittenBy(who)

\* A client changes nothing of another one's counters.
LEMMA CountAt ==
  ASSUME NEW f \in [Child -> Nat], NEW c \in Child
  PROVE  /\ Count(f, c) \in [Child -> Nat]
         /\ Count(f, c)[c] = f[c] + 1
         /\ \A d \in Child : d # c => Count(f, c)[d] = f[d]
BY DEF Count

\* All clients are waiting to be forked, and nothing is counted.
LEMMA BenchStart ==
  ASSUME BenchInit
  PROVE  BenchInv
<1>1. Cardinality(Child) \in Nat
  BY FS_CardinalityType
<1>2. BenchTyped
  BY <1>1 DEF BenchInit, BenchTyped, BenchTypeOK, Zero, Result
<1>3. ForkedInOrder
  BY DEF BenchInit, ForkedInOrder
<1>4. \A c \in Child : CountedSoFar(c)
  BY DEF BenchInit, CountedSoFar, Exact, Zero
<1>5. WrittenBy(<<>>)
  <2>1. Read(<<>>) = {}
    BY DEF BenchInit, Read, Exited
  <2>2. PICK R : R = {}
    OBVIOUS
  <2>3. \A x \in Child : Only(succeed, R)[x] = 0 /\ Only(failed, R)[x] = 0
    BY <2>2 DEF Only
  <2>4. SumOver(Only(succeed, R), Child) = 0 /\ SumOver(Only(failed, R), Child) = 0
    BY <2>3, SumZero
  <2>5. Cardinality(R) = 0
    BY <2>2, FS_EmptySet
  <2>6. /\ sum.succeed = 0 /\ sum.failed = 0 /\ pipe = <<>> /\ clients = Cardinality(Child)
    BY DEF BenchInit
  <2>7. PICK w : w = <<>>
    OBVIOUS
  <2>8. w \in Seq(Child) /\ Len(w) = 0 /\ Len(pipe) = 0 /\ Read(w) = R
    BY <2>1, <2>2, <2>6, <2>7
  <2>9. WrittenBy(w)
    <3> HIDE DEF Only, Read
    <3> QED
      BY ONLY <1>1, <2>4, <2>5, <2>6, <2>8 DEF WrittenBy
  <2> QED
    BY <2>7, <2>9
<1> QED
  BY <1>2, <1>3, <1>4, <1>5 DEF BenchInv

\* Nobody but the parent and a client that reports touches results: who has written
\* what stays as it is.
LEMMA StillWritten ==
  ASSUME NEW CONSTANT who, WrittenBy(who),
         UNCHANGED <<clients, sum, pipe>>,
         \A c \in Child : (cpc'[c] = "exited") <=> (cpc[c] = "exited"),
         \A c \in Child : cpc[c] = "exited" => succeed'[c] = succeed[c] /\ failed'[c] = failed[c]
  PROVE  WrittenBy(who)'
<1>1. Exited' = Exited
  BY DEF Exited
<1>2. Read(who)' = Read(who)
  BY <1>1 DEF Read
<1>3. \A c \in Read(who) : cpc[c] = "exited" /\ c \in Child
  BY DEF Read, Exited
<1>4. Only(succeed, Read(who))' = Only(succeed, Read(who))
  <2>1. Only(succeed', Read(who)) = Only(succeed, Read(who))
    BY <1>3 DEF Only
  <2> QED
    BY <1>2, <2>1 DEF Only
<1>5. Only(failed, Read(who))' = Only(failed, Read(who))
  <2>1. Only(failed', Read(who)) = Only(failed, Read(who))
    BY <1>3 DEF Only
  <2> QED
    BY <1>2, <2>1 DEF Only
<1>6. \A q \in 1 .. Len(who) : who[q] \in Child
  BY DEF WrittenBy
<1>7. \A q \in 1 .. Len(who) :
          /\ cpc'[who[q]] = "exited"
          /\ pipe'[q].succeed = succeed'[who[q]] /\ pipe'[q].failed = failed'[who[q]]
  BY <1>6 DEF WrittenBy
<1>8. Cardinality(Read(who))' = Cardinality(Read(who))
  BY <1>2
<1>9. /\ SumOver(Only(succeed, Read(who)), Child)' = SumOver(Only(succeed, Read(who)), Child)
      /\ SumOver(Only(failed, Read(who)), Child)' = SumOver(Only(failed, Read(who)), Child)
  BY <1>4, <1>5
<1> QED
  BY <1>7, <1>8, <1>9 DEF WrittenBy

\* What a step of the parent leaves alone.
LEMMA ParentLeaves ==
  ASSUME BenchInv, ForkFails \/ StartReading
  PROVE  BenchInv'
<1>1. /\ UNCHANGED <<forked, clients, sum, pipe, cpc, ben_timeout, succeed, failed, armed,
                     tries, answered, broken>>
      /\ ppc' \in {"failed", "read"}
  BY DEF ForkFails, StartReading, child
<1>2. BenchTyped' /\ ForkedInOrder' /\ \A c \in Child : CountedSoFar(c)'
  BY <1>1 DEF BenchInv, BenchTyped, BenchTypeOK, ForkedInOrder, CountedSoFar, Exact
<1>3. PICK who : WrittenBy(who)
  BY DEF BenchInv
<1>4. WrittenBy(who)'
  BY <1>1, <1>3, StillWritten
<1> QED
  BY <1>2, <1>4 DEF BenchInv

\* fork(): the next client begins.
LEMMA ForkKeeps ==
  ASSUME BenchInv, Fork
  PROVE  BenchInv'
<1>1. PICK n : n = Cardinality(Child)
  OBVIOUS
<1>2. n \in Nat /\ Child = 1 .. n /\ clients = n /\ forked \in 0 .. n /\ forked < n
  BY <1>1, FS_CardinalityType DEF BenchInv, BenchTyped, ForkedInOrder, Fork
<1>3. PICK c \in Child : c = forked + 1
  BY <1>2
<1>4. /\ cpc' = [cpc EXCEPT ![c] = "sleep"] /\ cpc[c] = "unborn" /\ forked' = c /\ ppc = "fork"
      /\ UNCHANGED <<ppc, clients, sum, pipe, ben_timeout, succeed, failed, armed, tries,
                     answered, broken>>
  BY <1>2, <1>3 DEF BenchInv, ForkedInOrder, Fork
<1>5. cpc \in [Child -> {"unborn", "sleep", "nexttry", "connect", "write", "response", "read",
                          "close", "cut", "report", "exited", "dead"}]
  BY DEF BenchInv, BenchTyped
<1>6. \A d \in Child : cpc'[d] = IF d = c THEN "sleep" ELSE cpc[d]
  BY <1>4, <1>5
<1>7. BenchTyped'
  BY <1>1, <1>2, <1>4, <1>5 DEF BenchInv, BenchTyped, BenchTypeOK
<1>8. ForkedInOrder'
  BY <1>1, <1>2, <1>3, <1>4, <1>6 DEF BenchInv, ForkedInOrder
<1>9. ASSUME NEW d \in Child PROVE CountedSoFar(d)'
  <2>1. CountedSoFar(d)
    BY DEF BenchInv
  <2> QED
    BY <1>4, <1>6, <2>1 DEF CountedSoFar, Exact
<1>10. PICK who : WrittenBy(who)
  BY DEF BenchInv
<1>11. WrittenBy(who)'
  <2>1. \A d \in Child : (cpc'[d] = "exited") <=> (cpc[d] = "exited")
    BY <1>4, <1>6
  <2> QED
    BY <1>4, <1>10, <2>1, StillWritten
<1> QED
  BY <1>7, <1>8, <1>9, <1>11 DEF BenchInv

\* fscanf() takes the first result of the pipe: the client that wrote it is counted.
LEMMA ReadKeeps ==
  ASSUME BenchInv, ReadResult
  PROVE  BenchInv'
<1>1. PICK n : n = Cardinality(Child)
  OBVIOUS
<1>2. n \in Nat /\ clients \in 0 .. n
  BY <1>1, FS_CardinalityType DEF BenchInv, BenchTyped, BenchTypeOK
<1>3. /\ pipe # <<>> /\ pipe' = Tail(pipe) /\ clients' = clients - 1
      /\ sum' = [succeed |-> sum.succeed + Head(pipe).succeed,
                 failed |-> sum.failed + Head(pipe).failed]
      /\ ppc = "read" /\ ppc' = IF clients - 1 = 0 THEN "done" ELSE "read"
      /\ UNCHANGED <<forked, cpc, ben_timeout, succeed, failed, armed, tries, answered, broken>>
  BY DEF ReadResult, LastResult, child
<1>4. PICK who : WrittenBy(who)
  BY DEF BenchInv
<1>5. /\ pipe \in Seq(Result) /\ Len(pipe) \in Nat /\ Len(pipe) > 0
      /\ Head(pipe) = pipe[1] /\ pipe[1] \in Result
      /\ Len(Tail(pipe)) = Len(pipe) - 1 /\ Tail(pipe) \in Seq(Result)
      /\ \A q \in 1 .. Len(pipe) - 1 : Tail(pipe)[q] = pipe[q + 1]
  BY <1>3 DEF BenchInv, BenchTyped
<1>6. /\ who \in Seq(Child) /\ Len(who) = Len(pipe) /\ who # <<>> /\ who[1] \in Child
      /\ Len(Tail(who)) = Len(pipe) - 1 /\ Tail(who) \in Seq(Child)
      /\ \A q \in 1 .. Len(pipe) - 1 : Tail(who)[q] = who[q + 1]
  BY <1>4, <1>5 DEF WrittenBy
<1>7. PICK c \in Child, w \in Seq(Child) : c = who[1] /\ w = Tail(who)
  BY <1>6
<1>8. cpc[c] = "exited" /\ pipe[1].succeed = succeed[c] /\ pipe[1].failed = failed[c]
  BY <1>4, <1>5, <1>6, <1>7 DEF WrittenBy
<1>9. {who[q] : q \in 1 .. Len(who)} = {w[q] : q \in 1 .. Len(w)} \cup {c}
  <2>1. ASSUME NEW q \in 1 .. Len(who) PROVE who[q] \in {w[j] : j \in 1 .. Len(w)} \cup {c}
    <3>1. CASE q = 1
      BY <1>7, <3>1
    <3>2. CASE q # 1
      <4>1. q - 1 \in 1 .. Len(w) /\ w[q - 1] = who[q]
        BY <1>5, <1>6, <1>7, <3>2
      <4> QED
        BY <4>1
    <3> QED
      BY <3>1, <3>2
  <2>2. ASSUME NEW q \in 1 .. Len(w) PROVE \E j \in 1 .. Len(who) : w[q] = who[j]
    BY <1>5, <1>6, <1>7
  <2>3. \E j \in 1 .. Len(who) : c = who[j]
    BY <1>5, <1>6, <1>7
  <2> QED
    <3>1. PICK A : A = {who[q] : q \in 1 .. Len(who)}
      OBVIOUS
    <3>2. PICK B : B = {w[q] : q \in 1 .. Len(w)} \cup {c}
      OBVIOUS
    <3>3. ASSUME NEW x \in A PROVE x \in B
      BY <2>1, <3>1, <3>2
    <3>4. ASSUME NEW x \in B PROVE x \in A
      BY <2>2, <2>3, <3>1, <3>2
    <3> QED
      BY <3>1, <3>2, <3>3, <3>4
<1>10. \A q \in 1 .. Len(w) : w[q] # c
  <2> SUFFICES ASSUME NEW q \in 1 .. Len(w), w[q] = c PROVE FALSE
    OBVIOUS
  <2>1. q + 1 \in 1 .. Len(who) /\ 1 \in 1 .. Len(who) /\ who[q + 1] = who[1] /\ q + 1 # 1
    BY <1>5, <1>6, <1>7
  <2> QED
    BY <1>4, <2>1 DEF WrittenBy
<1>11. /\ Read(w) = Read(who) \cup {c} /\ c \notin Read(who)
       /\ Exited' = Exited /\ Read(w)' = Read(w)
  BY <1>3, <1>8, <1>9, <1>10 DEF Read, Exited
<1>12. PICK R, Q : R = Read(who) /\ Q = Read(w)
  OBVIOUS
<1>13. IsFiniteSet(R) /\ Cardinality(R) \in Nat /\ Cardinality(Q) = Cardinality(R) + 1
       /\ Cardinality(Q) <= n
  <2>1. R \subseteq Child /\ Q \subseteq Child
    BY <1>12 DEF Read, Exited
  <2>2. IsFiniteSet(R) /\ Cardinality(R) \in Nat
    BY <2>1, FS_Subset, FS_CardinalityType
  <2>3. Cardinality(Q) = Cardinality(R) + 1
    BY <1>11, <1>12, <2>2, FS_AddElement
  <2> QED
    BY <1>1, <2>1, <2>2, <2>3, FS_Subset
<1>14. Cardinality(R) = n - clients
  BY <1>1, <1>4, <1>12 DEF WrittenBy
<1>15. clients' \in 0 .. n /\ Cardinality(Q) = n - clients'
  BY <1>2, <1>3, <1>13, <1>14
<1>16. ASSUME NEW f \in [Child -> Nat]
       PROVE  SumOver(Only(f, Q), Child) = SumOver(Only(f, R), Child) + f[c]
  <2>1. \A x \in Child : Only(f, R)[x] \in Int /\ Only(f, Q)[x] \in Int
    BY DEF Only
  <2>2. \A x \in Child \ {c} : Only(f, Q)[x] = Only(f, R)[x]
    BY <1>11, <1>12 DEF Only
  <2>3. Only(f, Q)[c] = f[c] /\ Only(f, R)[c] = 0
    BY <1>11, <1>12 DEF Only
  <2>4. SumOver(Only(f, Q), Child) = SumOver(Only(f, R), Child) + (Only(f, Q)[c] - Only(f, R)[c])
    <3>1. PICK e, g : e = Only(f, Q) /\ g = Only(f, R)
      OBVIOUS
    <3>2. /\ \A x \in Child : g[x] \in Int /\ e[x] \in Int
          /\ \A x \in Child \ {c} : e[x] = g[x]
      BY <2>1, <2>2, <3>1
    <3>3. SumOver(e, Child) = SumOver(g, Child) + (e[c] - g[c])
      <4>1. PICK S : S = Child
        OBVIOUS
      <4>2. IsFiniteSet(S) /\ c \in S
        BY <4>1
      <4>3. /\ \A x \in S : g[x] \in Int /\ e[x] \in Int
            /\ \A x \in S \ {c} : e[x] = g[x]
        BY <3>2, <4>1
      <4>4. SumOver(e, S) = SumOver(g, S) + (e[c] - g[c])
        BY ONLY <4>2, <4>3, SumChange
      <4> QED
        BY <4>1, <4>4
    <3> QED
      BY <3>1, <3>3
  <2> QED
    BY <2>3, <2>4
<1>17. succeed \in [Child -> Nat] /\ failed \in [Child -> Nat] /\ sum \in Result
  BY DEF BenchInv, BenchTyped, BenchTypeOK
<1>18. /\ sum'.succeed = SumOver(Only(succeed, Q), Child)
       /\ sum'.failed = SumOver(Only(failed, Q), Child)
  <2>1. /\ sum.succeed = SumOver(Only(succeed, R), Child)
        /\ sum.failed = SumOver(Only(failed, R), Child)
    BY <1>4, <1>12 DEF WrittenBy
  <2>2. sum'.succeed = sum.succeed + succeed[c] /\ sum'.failed = sum.failed + failed[c]
    BY <1>3, <1>5, <1>8
  <2> QED
    BY <1>16, <1>17, <2>1, <2>2
<1>19. WrittenBy(w)'
  <2>1. \A q \in 1 .. Len(w) :
            /\ q + 1 \in 1 .. Len(who) /\ w[q] = who[q + 1] /\ pipe'[q] = pipe[q + 1]
    BY <1>3, <1>5, <1>6, <1>7
  <2>2. \A q \in 1 .. Len(w) :
            /\ cpc'[w[q]] = "exited"
            /\ pipe'[q].succeed = succeed'[w[q]] /\ pipe'[q].failed = failed'[w[q]]
    BY <1>3, <1>4, <2>1 DEF WrittenBy
  <2>3. \A q, j \in 1 .. Len(w) : w[q] = w[j] => q = j
    <3> SUFFICES ASSUME NEW q \in 1 .. Len(w), NEW j \in 1 .. Len(w), w[q] = w[j] PROVE q = j
      OBVIOUS
    <3>1. who[q + 1] = who[j + 1]
      BY <2>1
    <3>2. q + 1 = j + 1
      BY <1>4, <2>1, <3>1 DEF WrittenBy
    <3> QED
      BY <3>2
  <2>4. Len(w) = Len(pipe')
    BY <1>3, <1>5, <1>6, <1>7
  <2>5. /\ Only(succeed, Read(w))' = Only(succeed, Q) /\ Only(failed, Read(w))' = Only(failed, Q)
        /\ Cardinality(Read(w))' = Cardinality(Q)
    BY <1>3, <1>11, <1>12 DEF Only
  <2> QED
    BY <1>1, <1>7, <1>15, <1>18, <2>2, <2>3, <2>4, <2>5 DEF WrittenBy
<1>20. BenchTyped'
  <2>1. sum' \in Result /\ pipe' \in Seq(Result)
    BY <1>3, <1>5, <1>17 DEF Result
  <2> QED
    BY <1>1, <1>3, <1>15, <2>1 DEF BenchInv, BenchTyped, BenchTypeOK
<1>21. ForkedInOrder' /\ \A d \in Child : CountedSoFar(d)'
  BY <1>3 DEF BenchInv, ForkedInOrder, CountedSoFar, Exact
<1> QED
  BY <1>19, <1>20, <1>21 DEF BenchInv

\* A step of client c changes its own place and counters only, and neither takes it
\* out of "exited" nor, but for its report, into it.
LEMMA ChildKeeps ==
  ASSUME BenchInv, NEW c \in Child, cpc[c] # "exited", cpc'[c] # "exited",
         UNCHANGED <<ppc, forked, clients, sum, pipe>>,
         BenchTyped',
         cpc[c] # "unborn",
         \A d \in Child : d # c =>
            /\ cpc'[d] = cpc[d] /\ succeed'[d] = succeed[d] /\ failed'[d] = failed[d]
            /\ answered'[d] = answered[d] /\ broken'[d] = broken[d]
            /\ (d \in armed' <=> d \in armed) /\ (d \in ben_timeout' <=> d \in ben_timeout),
         CountedSoFar(c)'
  PROVE  BenchInv'
<1>1. ForkedInOrder'
  <2>1. ASSUME NEW d \in Child, d > forked' PROVE cpc'[d] = "unborn"
    <3>1. cpc[d] = "unborn"
      BY <2>1 DEF BenchInv, ForkedInOrder
    <3> QED
      BY <3>1
  <2> QED
    BY <2>1 DEF BenchInv, ForkedInOrder
<1>2. ASSUME NEW d \in Child PROVE CountedSoFar(d)'
  <2>1. CASE d = c
    BY <2>1
  <2>2. CASE d # c
    <3>1. CountedSoFar(d)
      BY DEF BenchInv
    <3> QED
      BY <2>2, <3>1 DEF CountedSoFar, Exact
  <2> QED
    BY <2>1, <2>2
<1>3. PICK who : WrittenBy(who)
  BY DEF BenchInv
<1>4. \A d \in Child :
        /\ (cpc'[d] = "exited") <=> (cpc[d] = "exited")
        /\ cpc[d] = "exited" => succeed'[d] = succeed[d] /\ failed'[d] = failed[d]
  OBVIOUS
<1>5. WrittenBy(who)'
  BY <1>3, <1>4, StillWritten
<1> QED
  BY <1>1, <1>2, <1>5 DEF BenchInv

\* The steps of a client by which it moves on and counts nothing.
LEMMA MovesKeep ==
  ASSUME BenchInv, NEW c \in Child,
         SetAlarm(c) \/ Connects(c) \/ Writes(c) \/ Response(c) \/ ReadsSome(c) \/ ReadsEnd(c) \/ Killed(c)
  PROVE  BenchInv'
<1>1. PICK l \in {"nexttry", "write", "cut", "read", "response", "close", "dead"} :
        /\ cpc' = [cpc EXCEPT ![c] = l]
        /\ \/ armed' = armed \cup {c} /\ cpc[c] = "sleep" /\ l = "nexttry"
           \/ armed' \subseteq armed /\ \A d \in Child : d # c => (d \in armed' <=> d \in armed)
        /\ cpc[c] \notin {"unborn", "exited", "dead"}
        /\ l = "nexttry" => cpc[c] = "sleep"
        /\ l \notin {"nexttry", "dead"} => cpc[c] \notin {"sleep", "nexttry", "report"}
        /\ l = "cut" => c \in ben_timeout
        /\ UNCHANGED <<ppc, forked, clients, sum, pipe, ben_timeout, succeed, failed, tries,
                       answered, broken>>
  <2>1. CASE SetAlarm(c)
    BY <2>1 DEF SetAlarm, To, parent
  <2>2. CASE Connects(c)
    BY <2>2 DEF Connects, To, parent
  <2>3. CASE Writes(c)
    BY <2>3 DEF Writes, To, parent
  <2>4. CASE Response(c)
    <3>1. CASE c \in ben_timeout
      BY <2>4, <3>1 DEF Response, To, parent
    <3>2. CASE c \notin ben_timeout
      BY <2>4, <3>2 DEF Response, To, parent
    <3> QED
      BY <3>1, <3>2
  <2>5. CASE ReadsSome(c)
    BY <2>5 DEF ReadsSome, To, parent
  <2>6. CASE ReadsEnd(c)
    BY <2>6 DEF ReadsEnd, To, parent
  <2>7. CASE Killed(c)
    BY <2>7 DEF Killed, To, parent
  <2> QED
    BY <2>1, <2>2, <2>3, <2>4, <2>5, <2>6, <2>7
<1>2. /\ cpc \in [Child -> {"unborn", "sleep", "nexttry", "connect", "write", "response", "read",
                             "close", "cut", "report", "exited", "dead"}]
      /\ CountedSoFar(c) /\ armed \subseteq Child /\ ben_timeout \subseteq Child \ armed
  BY DEF BenchInv, BenchTyped, BenchTypeOK
<1>3. cpc'[c] = l /\ \A d \in Child : d # c => cpc'[d] = cpc[d]
  BY <1>1, <1>2
<1>4. armed' \subseteq Child /\ ben_timeout' \subseteq Child \ armed'
  BY <1>1, <1>2 DEF CountedSoFar
<1>5. BenchTyped'
  BY <1>1, <1>2, <1>4 DEF BenchInv, BenchTyped, BenchTypeOK
<1>6. /\ succeed[c] \in Nat /\ failed[c] \in Nat /\ answered[c] \in Nat /\ broken[c] \in Nat
  BY DEF BenchInv, BenchTyped, BenchTypeOK
<1>7. CountedSoFar(c)'
  <2>1. l # "dead" => Exact(c)
    BY <1>1, <1>2 DEF CountedSoFar
  <2> QED
    BY <1>1, <1>3, <1>6, <2>1 DEF CountedSoFar, Exact
<1>8. \A d \in Child : d # c => (d \in armed' <=> d \in armed)
  BY <1>1
<1> QED
  BY <1>1, <1>3, <1>5, <1>7, <1>8, ChildKeeps

\* The loop of bench_core: the next request, or the end with its correction.
LEMMA NextTryKeeps ==
  ASSUME BenchInv, NEW c \in Child, NextTry(c)
  PROVE  BenchInv'
<1>1. /\ cpc[c] = "nexttry" /\ CountedSoFar(c)
      /\ UNCHANGED <<ppc, forked, clients, sum, pipe, ben_timeout, succeed, armed, answered, broken>>
  BY DEF NextTry, parent, BenchInv
<1>2. /\ cpc \in [Child -> {"unborn", "sleep", "nexttry", "connect", "write", "response", "read",
                             "close", "cut", "report", "exited", "dead"}]
      /\ failed \in [Child -> Nat] /\ tries \in [Child -> Nat]
      /\ succeed[c] \in Nat /\ failed[c] \in Nat /\ answered[c] \in Nat /\ broken[c] \in Nat
  BY DEF BenchInv, BenchTyped, BenchTypeOK
<1>3. CASE c \in ben_timeout
  <2>1. /\ cpc' = [cpc EXCEPT ![c] = "report"] /\ tries' = tries
        /\ failed' = [failed EXCEPT ![c] = FailedAtEnd(c)]
    BY <1>3 DEF NextTry, To
  <2>2. FailedAtEnd(c) \in Nat /\ failed[c] - 1 <= FailedAtEnd(c) /\ FailedAtEnd(c) <= failed[c]
        /\ (failed[c] > 0 => FailedAtEnd(c) = failed[c] - 1)
    BY <1>2 DEF FailedAtEnd
  <2>3. PICK m \in Nat : m = FailedAtEnd(c)
    BY <2>2
  <2>4. /\ cpc'[c] = "report" /\ \A d \in Child : d # c => cpc'[d] = cpc[d]
        /\ failed' = [failed EXCEPT ![c] = m]
        /\ failed'[c] = m /\ \A d \in Child : d # c => failed'[d] = failed[d]
    BY <1>2, <2>1, <2>3
  <2>5. BenchTyped'
    BY <1>1, <1>2, <2>1, <2>4 DEF BenchInv, BenchTyped, BenchTypeOK
  <2>6. CountedSoFar(c)'
    <3>1. m <= broken[c] /\ broken[c] <= m + 1
      BY <1>1, <1>2, <2>2, <2>3 DEF CountedSoFar
    <3> QED
      BY <1>1, <2>4, <3>1 DEF CountedSoFar
  <2> QED
    BY <1>1, <2>4, <2>5, <2>6, ChildKeeps
<1>4. CASE c \notin ben_timeout
  <2>1. /\ cpc' = [cpc EXCEPT ![c] = "connect"] /\ tries' = Count(tries, c) /\ failed' = failed
    BY <1>4 DEF NextTry, To
  <2>2. tries' \in [Child -> Nat]
    BY <1>2, <2>1, CountAt
  <2>3. cpc'[c] = "connect" /\ \A d \in Child : d # c => cpc'[d] = cpc[d]
    BY <1>2, <2>1
  <2>4. BenchTyped'
    BY <1>1, <1>2, <2>1, <2>2 DEF BenchInv, BenchTyped, BenchTypeOK
  <2>5. CountedSoFar(c)'
    BY <1>1, <1>4, <2>1, <2>3 DEF CountedSoFar, Exact
  <2> QED
    BY <1>1, <2>1, <2>3, <2>4, <2>5, ChildKeeps
<1> QED
  BY <1>3, <1>4

\* The types of a step that leaves the parent alone, one variable at a time.
LEMMA StillTyped ==
  ASSUME BenchTyped, UNCHANGED <<ppc, forked, clients, sum, pipe>>,
         succeed' \in [Child -> Nat], failed' \in [Child -> Nat], tries' \in [Child -> Nat],
         answered' \in [Child -> Nat], broken' \in [Child -> Nat],
         armed' \subseteq Child, ben_timeout' \subseteq Child \ armed',
         cpc' \in [Child -> {"unborn", "sleep", "nexttry", "connect", "write", "response", "read",
                             "close", "cut", "report", "exited", "dead"}]
  PROVE  BenchTyped'
<1>1. {succeed', failed', tries', answered', broken'} \subseteq [Child -> Nat]
  OBVIOUS
<1>2. BenchTypeOK'
  BY <1>1 DEF BenchTyped, BenchTypeOK
<1> QED
  BY <1>2 DEF BenchTyped

\* And what they were before it.
LEMMA BenchTypes ==
  ASSUME BenchInv
  PROVE  /\ succeed \in [Child -> Nat] /\ failed \in [Child -> Nat] /\ tries \in [Child -> Nat]
         /\ answered \in [Child -> Nat] /\ broken \in [Child -> Nat]
         /\ armed \subseteq Child /\ ben_timeout \subseteq Child \ armed
         /\ cpc \in [Child -> {"unborn", "sleep", "nexttry", "connect", "write", "response", "read",
                               "close", "cut", "report", "exited", "dead"}]
         /\ BenchTyped
BY DEF BenchInv, BenchTyped, BenchTypeOK

\* A call fails, or close() has ended a response.
LEMMA CountKeeps ==
  ASSUME BenchInv, NEW c \in Child, Fails(c) \/ Closes(c)
  PROVE  BenchInv'
<1>1. /\ CountedSoFar(c) /\ cpc[c] \in {"connect", "write", "read", "close", "cut"}
      /\ cpc' = [cpc EXCEPT ![c] = "nexttry"]
      /\ UNCHANGED <<ppc, forked, clients, sum, pipe, ben_timeout, armed, tries>>
  BY DEF Fails, Closes, To, parent, BenchInv
<1>2. /\ cpc \in [Child -> {"unborn", "sleep", "nexttry", "connect", "write", "response", "read",
                             "close", "cut", "report", "exited", "dead"}]
      /\ failed \in [Child -> Nat] /\ broken \in [Child -> Nat]
      /\ succeed \in [Child -> Nat] /\ answered \in [Child -> Nat]
  BY DEF BenchInv, BenchTyped, BenchTypeOK
<1>3. cpc'[c] = "nexttry" /\ \A d \in Child : d # c => cpc'[d] = cpc[d]
  BY <1>1, <1>2
<1>4. Exact(c) /\ (cpc[c] = "cut" => c \in ben_timeout)
  BY <1>1 DEF CountedSoFar
<1>5. CASE Fails(c)
  <2>1. /\ failed' = Count(failed, c) /\ broken' = Count(broken, c)
        /\ UNCHANGED <<succeed, answered>>
    BY <1>5 DEF Fails
  <2>2. /\ failed' \in [Child -> Nat] /\ broken' \in [Child -> Nat]
        /\ failed'[c] = failed[c] + 1 /\ broken'[c] = broken[c] + 1
        /\ \A d \in Child : d # c => failed'[d] = failed[d] /\ broken'[d] = broken[d]
    BY <1>2, <2>1, CountAt
  <2>3. BenchTyped'
    <3>1. cpc' \in [Child -> {"unborn", "sleep", "nexttry", "connect", "write", "response", "read",
                              "close", "cut", "report", "exited", "dead"}]
      BY <1>1, <1>2
    <3> QED
      BY <1>1, <2>1, <2>2, <3>1, BenchTypes, StillTyped
  <2>4. CountedSoFar(c)'
    BY <1>1, <1>2, <1>3, <1>4, <2>1, <2>2 DEF CountedSoFar, Exact
  <2> QED
    BY <1>1, <1>3, <2>1, <2>2, <2>3, <2>4, ChildKeeps
<1>6. CASE Closes(c)
  <2>1. /\ succeed' = Count(succeed, c)
        /\ answered' = IF cpc[c] = "close" THEN Count(answered, c) ELSE answered
        /\ cpc[c] \in {"close", "cut"}
        /\ UNCHANGED <<failed, broken>>
    BY <1>6 DEF Closes
  <2>2. /\ succeed' \in [Child -> Nat] /\ answered' \in [Child -> Nat]
        /\ succeed'[c] = succeed[c] + 1
        /\ cpc[c] = "close" => answered'[c] = answered[c] + 1
        /\ cpc[c] = "cut" => answered'[c] = answered[c]
        /\ \A d \in Child : d # c => succeed'[d] = succeed[d] /\ answered'[d] = answered[d]
    <3>1. CASE cpc[c] = "close"
      BY <1>2, <2>1, <3>1, CountAt
    <3>2. CASE cpc[c] = "cut"
      BY <1>2, <2>1, <3>2, CountAt
    <3> QED
      BY <2>1, <3>1, <3>2
  <2>3. BenchTyped'
    <3>1. cpc' \in [Child -> {"unborn", "sleep", "nexttry", "connect", "write", "response", "read",
                              "close", "cut", "report", "exited", "dead"}]
      BY <1>1, <1>2
    <3> QED
      BY <1>1, <2>1, <2>2, <3>1, BenchTypes, StillTyped
  <2>4. CountedSoFar(c)'
    <3>1. succeed[c] \in Nat /\ answered[c] \in Nat /\ failed[c] \in Nat /\ broken[c] \in Nat
      BY <1>2
    <3> QED
      BY <1>1, <1>3, <1>4, <2>1, <2>2, <3>1 DEF CountedSoFar, Exact
  <2> QED
    BY <1>1, <1>3, <2>1, <2>2, <2>3, <2>4, ChildKeeps
<1> QED
  BY <1>5, <1>6

\* SIGALRM, in a blocking call or outside of one.
LEMMA AlarmKeeps ==
  ASSUME BenchInv, NEW c \in Child, Alarm(c)
  PROVE  BenchInv'
<1>1. /\ CountedSoFar(c) /\ c \in armed
      /\ armed' = armed \ {c} /\ ben_timeout' = ben_timeout \cup {c}
      /\ UNCHANGED <<ppc, forked, clients, sum, pipe, succeed, tries, answered, broken>>
  BY DEF Alarm, parent, BenchInv
<1>2. /\ cpc \in [Child -> {"unborn", "sleep", "nexttry", "connect", "write", "response", "read",
                             "close", "cut", "report", "exited", "dead"}]
      /\ failed \in [Child -> Nat]
      /\ succeed[c] \in Nat /\ failed[c] \in Nat /\ answered[c] \in Nat /\ broken[c] \in Nat
      /\ armed \subseteq Child /\ ben_timeout \subseteq Child \ armed
  BY DEF BenchInv, BenchTyped, BenchTypeOK
<1>3. armed' \subseteq Child /\ ben_timeout' \subseteq Child \ armed'
  BY <1>1, <1>2
<1>4. cpc[c] \notin {"unborn", "sleep"}
  BY <1>1 DEF CountedSoFar
<1>5. CASE UNCHANGED <<cpc, failed>>
  <2>1. BenchTyped'
    BY <1>1, <1>2, <1>3, <1>5 DEF BenchInv, BenchTyped, BenchTypeOK
  <2>2. \A d \in Child : CountedSoFar(d)'
    <3> SUFFICES ASSUME NEW d \in Child PROVE CountedSoFar(d)'
      OBVIOUS
    <3>1. CountedSoFar(d)
      BY DEF BenchInv
    <3> QED
      BY <1>1, <1>4, <1>5, <3>1 DEF CountedSoFar, Exact
  <2>3. ForkedInOrder'
    BY <1>1, <1>5 DEF BenchInv, ForkedInOrder
  <2>4. PICK who : WrittenBy(who)
    BY DEF BenchInv
  <2>5. WrittenBy(who)'
    BY <1>1, <1>5, <2>4, StillWritten
  <2> QED
    BY <2>1, <2>2, <2>3, <2>5 DEF BenchInv
<1>6. CASE /\ cpc[c] \in {"connect", "write", "read"}
           /\ failed' = Count(failed, c) /\ cpc' = [cpc EXCEPT ![c] = "nexttry"]
  <2>1. /\ failed' \in [Child -> Nat] /\ failed'[c] = failed[c] + 1
        /\ \A d \in Child : d # c => failed'[d] = failed[d]
    BY <1>2, <1>6, CountAt
  <2>2. cpc'[c] = "nexttry" /\ \A d \in Child : d # c => cpc'[d] = cpc[d]
    BY <1>2, <1>6
  <2>3. BenchTyped'
    <3>1. cpc' \in [Child -> {"unborn", "sleep", "nexttry", "connect", "write", "response", "read",
                              "close", "cut", "report", "exited", "dead"}]
      BY <1>2, <1>6
    <3> QED
      BY <1>1, <1>3, <2>1, <3>1, BenchTypes, StillTyped
  <2>4. CountedSoFar(c)'
    BY <1>1, <1>2, <1>6, <2>1, <2>2 DEF CountedSoFar, Exact
  <2>5. \A d \in Child : d # c =>
          (d \in armed' <=> d \in armed) /\ (d \in ben_timeout' <=> d \in ben_timeout)
    BY <1>1
  <2> QED
    BY <1>1, <1>6, <2>1, <2>2, <2>3, <2>4, <2>5, ChildKeeps
<1> QED
  BY <1>5, <1>6 DEF Alarm, To

\* A client writes its result.
LEMMA ReportKeeps ==
  ASSUME BenchInv, NEW c \in Child, Reports(c)
  PROVE  BenchInv'
<1>1. /\ CountedSoFar(c) /\ cpc[c] = "report"
      /\ UNCHANGED <<ppc, forked, clients, sum, ben_timeout, succeed, failed, armed, tries,
                     answered, broken>>
  BY DEF Reports, parent, BenchInv
<1>2. /\ cpc \in [Child -> {"unborn", "sleep", "nexttry", "connect", "write", "response", "read",
                             "close", "cut", "report", "exited", "dead"}]
      /\ failed[c] \in Nat /\ succeed[c] \in Nat /\ pipe \in Seq(Result)
  BY DEF BenchInv, BenchTyped, BenchTypeOK
<1>3. /\ cpc' = [cpc EXCEPT ![c] = "exited"]
      /\ pipe' = Append(pipe, [succeed |-> succeed[c], failed |-> failed[c]])
  BY DEF Reports, To
<1>4. BenchInv'
  <2>1. cpc'[c] = "exited" /\ \A d \in Child : d # c => cpc'[d] = cpc[d]
    BY <1>2, <1>3
  <2>2. PICK r \in Result : r = [succeed |-> succeed[c], failed |-> failed[c]]
    BY <1>2 DEF Result
  <2>3. /\ pipe' \in Seq(Result) /\ Len(pipe') = Len(pipe) + 1 /\ Len(pipe) \in Nat
        /\ pipe'[Len(pipe) + 1] = r
        /\ \A q \in 1 .. Len(pipe) : pipe'[q] = pipe[q]
    BY <1>2, <1>3, <2>2, AppendProperties
  <2>4. BenchTyped'
    BY <1>1, <1>2, <1>3, <2>3 DEF BenchInv, BenchTyped, BenchTypeOK
  <2>5. ForkedInOrder'
    BY <1>1, <2>1 DEF BenchInv, ForkedInOrder
  <2>6. ASSUME NEW d \in Child PROVE CountedSoFar(d)'
    <3>1. CountedSoFar(d)
      BY DEF BenchInv
    <3> QED
      BY <1>1, <2>1, <3>1 DEF CountedSoFar, Exact
  <2>7. PICK who : WrittenBy(who)
    BY DEF BenchInv
  <2>8. who \in Seq(Child) /\ Len(who) = Len(pipe)
    BY <2>7 DEF WrittenBy
  <2>9. PICK w : w = Append(who, c)
    OBVIOUS
  <2>10. /\ w \in Seq(Child) /\ Len(w) = Len(pipe) + 1 /\ w[Len(pipe) + 1] = c
         /\ \A q \in 1 .. Len(pipe) : w[q] = who[q]
    BY <2>8, <2>9, AppendProperties
  <2>11. \A q \in 1 .. Len(who) : who[q] # c /\ who[q] \in Child /\ cpc[who[q]] = "exited"
    BY <1>1, <2>7, <2>8 DEF WrittenBy
  <2>12. \A q, j \in 1 .. Len(w) : w[q] = w[j] => q = j
    <3> SUFFICES ASSUME NEW q \in 1 .. Len(w), NEW j \in 1 .. Len(w), w[q] = w[j] PROVE q = j
      OBVIOUS
    <3>1. CASE q \in 1 .. Len(pipe) /\ j \in 1 .. Len(pipe)
      BY <2>7, <2>8, <2>10, <3>1 DEF WrittenBy
    <3>2. CASE q = Len(pipe) + 1 \/ j = Len(pipe) + 1
      BY <2>3, <2>8, <2>10, <2>11, <3>2
    <3> QED
      BY <2>3, <2>10, <3>1, <3>2
  <2>13. \A q \in 1 .. Len(w) :
            /\ cpc'[w[q]] = "exited"
            /\ pipe'[q].succeed = succeed'[w[q]] /\ pipe'[q].failed = failed'[w[q]]
    <3> SUFFICES ASSUME NEW q \in 1 .. Len(w)
                 PROVE  /\ cpc'[w[q]] = "exited"
                        /\ pipe'[q].succeed = succeed'[w[q]] /\ pipe'[q].failed = failed'[w[q]]
      OBVIOUS
    <3>1. CASE q \in 1 .. Len(pipe)
      BY <1>1, <2>1, <2>3, <2>7, <2>8, <2>10, <2>11, <3>1 DEF WrittenBy
    <3>2. CASE q = Len(pipe) + 1
      BY <1>1, <2>1, <2>2, <2>3, <2>10, <3>2
    <3> QED
      BY <2>3, <2>10, <3>1, <3>2
  <2>14. Read(w)' = Read(who)
    <3>1. Exited' = Exited \cup {c} /\ c \notin Exited
      BY <1>1, <2>1 DEF Exited
    <3>2. \A x : x \in {w[q] : q \in 1 .. Len(w)} <=> x = c \/ x \in {who[q] : q \in 1 .. Len(who)}
      <4>1. ASSUME NEW x, x \in {w[q] : q \in 1 .. Len(w)}
            PROVE  x = c \/ x \in {who[q] : q \in 1 .. Len(who)}
        BY <2>3, <2>8, <2>10, <4>1
      <4>2. ASSUME NEW x, x = c \/ x \in {who[q] : q \in 1 .. Len(who)}
            PROVE  x \in {w[q] : q \in 1 .. Len(w)}
        BY <2>3, <2>8, <2>10, <4>2
      <4> QED
        BY <4>1, <4>2
    <3> QED
      BY <3>1, <3>2 DEF Read
  <2>15. /\ Only(succeed, Read(w))' = Only(succeed, Read(who))
         /\ Only(failed, Read(w))' = Only(failed, Read(who))
         /\ Cardinality(Read(w))' = Cardinality(Read(who))
    BY <1>1, <2>14 DEF Only
  <2>16. WrittenBy(w)'
    <3>1. /\ sum.succeed = SumOver(Only(succeed, Read(who)), Child)
          /\ sum.failed = SumOver(Only(failed, Read(who)), Child)
          /\ Cardinality(Read(who)) = Cardinality(Child) - clients
      BY <2>7 DEF WrittenBy
    <3>2. /\ sum' = sum /\ clients' = clients /\ Len(w) = Len(pipe')
      BY <1>1, <2>3, <2>10
    <3> QED
      BY <2>10, <2>12, <2>13, <2>15, <3>1, <3>2 DEF WrittenBy
  <2> QED
    BY <2>4, <2>5, <2>6, <2>16 DEF BenchInv
<1> QED
  BY <1>4

\* BenchInv is an inductive invariant of the benchmark.
THEOREM BenchInvariance == BenchSpec => []BenchInv
<1>1. BenchInit => BenchInv
  BY BenchStart
<1>2. ASSUME BenchInv, [BenchNext]_benchVars PROVE BenchInv'
  <2>1. CASE Parent
    BY <1>2, <2>1, ForkKeeps, ParentLeaves, ReadKeeps DEF Parent
  <2>2. ASSUME NEW c \in Child, BenchStep(c) \/ Served(c) \/ Alarm(c) \/ Killed(c)
        PROVE  BenchInv'
    BY <1>2, <2>2, MovesKeep, NextTryKeeps, CountKeeps, AlarmKeeps, ReportKeeps DEF BenchStep, Served
  <2>3. CASE UNCHANGED benchVars
    <3>1. UNCHANGED <<ppc, forked, clients, sum, pipe, cpc, ben_timeout, succeed, failed, armed,
                      tries, answered, broken>>
      BY <2>3 DEF benchVars, parent, child
    <3>2. BenchTyped' /\ ForkedInOrder' /\ \A c \in Child : CountedSoFar(c)'
      BY <1>2, <3>1 DEF BenchInv, BenchTyped, BenchTypeOK, ForkedInOrder, CountedSoFar, Exact
    <3>3. PICK who : WrittenBy(who)
      BY <1>2 DEF BenchInv
    <3>4. WrittenBy(who)'
      BY <3>1, <3>3, StillWritten
    <3> QED
      BY <3>2, <3>4 DEF BenchInv
  <2> QED
    BY <1>2, <2>1, <2>2, <2>3 DEF BenchNext
<1> QED
  BY <1>1, <1>2, PTL DEF BenchSpec

\* What the clients report is off by at most one, and the parent prints the sum of
\* what all of them counted, for any number of clients and requests.
THEOREM CountersHold == BenchSpec => []CountersConsistent
<1>1. ASSUME BenchInv PROVE CountersConsistent
  <2>1. BenchTypeOK
    BY <1>1 DEF BenchInv, BenchTyped
  <2>2. OffByAtMostOne
    BY <1>1 DEF BenchInv, CountedSoFar, OffByAtMostOne
  <2>3. ASSUME ppc = "done"
        PROVE  sum.succeed = Total(succeed) /\ sum.failed = Total(failed)
    <3>1. PICK who : WrittenBy(who)
      BY <1>1 DEF BenchInv
    <3>2. PICK R : R = Read(who)
      OBVIOUS
    <3>3. clients = 0 /\ Cardinality(Child) \in Nat
      BY <1>1, <2>3, FS_CardinalityType DEF BenchInv, ForkedInOrder
    <3>4. R \subseteq Child /\ Cardinality(R) = Cardinality(Child)
      BY <3>1, <3>2, <3>3 DEF WrittenBy, Read, Exited
    <3>5. R = Child
      BY <3>4, FS_Subset
    <3>6. succeed \in [Child -> Nat] /\ failed \in [Child -> Nat]
      BY <2>1 DEF BenchTypeOK
    <3>7. Only(succeed, R) = succeed /\ Only(failed, R) = failed
      BY <3>5, <3>6 DEF Only
    <3>8. /\ Total(succeed) = SumOver(succeed, Child) /\ Total(failed) = SumOver(failed, Child)
      BY DEF Total, SumOver
    <3> QED
      BY <3>1, <3>2, <3>7, <3>8 DEF WrittenBy
  <2> QED
    BY <2>1, <2>2, <2>3 DEF CountersConsistent, TotalsComplete
<1> QED
  BY <1>1, BenchInvariance, PTL

HIDE BenchmarkAssumption

USE SvHttpdAssumption

-------------------------------------------------------------------------------
(* The web server: the inductive invariant *)

\* HttpdTypeOK, and the types of what it leaves out.
HttpdTyped ==
    /\ HttpdTypeOK
    /\ peer \in [Client -> {"none", "queued", "open", "closed"}]
    /\ input \in [Client -> {"nothing", "request", "bad"}]
    /\ got \in [Client -> Seq(Nat)]

\* A client that was not accepted has no slot and has been sent nothing.
NotAccepted ==
    \A c \in Client : peer[c] \in {"none", "queued"} =>
        c \notin Listed /\ state[c] = "SV_AWAITING_REQUST"

\* Between select() and the handlers, what is ready is in the table.
ReadyIsListed ==
    pc = "accept" =>
        /\ \A c \in rfs : c \in Listed /\ state[c] = "SV_AWAITING_REQUST" /\ Readable(c)
        /\ \A c \in wfs : c \in Listed /\ state[c] # "SV_AWAITING_REQUST" /\ Writable(c)

\* g is the first l bytes of the header; g is the header and, in order, bytes of the
\* response up to number b.
HeaderPart(g, l) == Len(g) = l /\ \A k \in 1 .. l : g[k] = k
FilePart(g, b) ==
    /\ Len(g) >= HeadLen
    /\ \A k \in 1 .. HeadLen : g[k] = k
    /\ \A k \in 1 .. Len(g) : g[k] <= b
    /\ \A k \in 1 .. Len(g) - 1 : g[k] < g[k + 1]

\* What a client was sent, from the state and the offsets of its connection: nothing,
\* the first hoff bytes of the header, or the header and bytes of the file before foff.
SentSoFar(c) ==
    /\ state[c] = "SV_AWAITING_REQUST" => got[c] = <<>> /\ hoff[c] = 0 /\ foff[c] = 0
    /\ state[c] = "SV_SENDING_HEADER" => foff[c] = 0 /\ HeaderPart(got[c], hoff[c])
    /\ state[c] = "SV_SENDING_FILE" => FilePart(got[c], HeadLen + foff[c])

HttpdInv ==
    /\ HttpdTyped
    /\ DescriptorsOwned
    /\ NotAccepted
    /\ ReadyIsListed
    /\ ReadyIsCurrent
    /\ \A c \in Client : SentSoFar(c)

-------------------------------------------------------------------------------
(* The operators *)

\* A connection is listed if it has a slot.
LEMMA HasSlot ==
  ASSUME NEW c \in Client
  PROVE  c \in Listed <=> \E s \in Slot : conn_list[s] = c
BY DEF Listed

\* The slot sv_insert_conn takes is free.
LEMMA FreeSlotTaken ==
  ASSUME FreeSlots # {}, NEW s, s = CHOOSE x \in FreeSlots : \A y \in FreeSlots : x <= y
  PROVE  s \in Slot /\ conn_list[s] = NULL
<1>1. FreeSlots \subseteq Nat
  BY DEF FreeSlots, Slot
<1>2. PICK x \in FreeSlots : \A y \in FreeSlots : ~(<<y, x>> \in OpToRel(<, Nat))
  BY <1>1, WFMin, NatLessThanWellFounded, Zenon
<1>3. ASSUME NEW y \in FreeSlots PROVE x <= y
  <2>1. ~(y < x)
    BY <1>1, <1>2, Zenon DEF OpToRel
  <2> QED
    BY <1>1, <2>1
<1>4. s \in FreeSlots
  BY <1>3
<1> QED
  BY <1>4 DEF FreeSlots

\* The loop of sv_handler_conn goes to the next slot, or back to select().
LEMMA AdvanceEffect ==
  ASSUME i \in Slot, pc = "handle", Advance
  PROVE  i' \in Slot /\ pc' # "accept" /\ (pc' = "handle" => i' = i + 1)
BY DEF Advance, Slot

\* h is g with the bytes b + 1 .. b + n of the response behind it.
Appended(g, h, b, n) ==
    /\ g \in Seq(Nat) /\ h \in Seq(Nat)
    /\ Len(h) = Len(g) + n
    /\ \A k \in 1 .. Len(g) + n : h[k] = IF k <= Len(g) THEN g[k] ELSE b + (k - Len(g))

\* The bytes write() takes follow those taken before.
LEMMA Transmitted ==
  ASSUME got \in [Client -> Seq(Nat)], inflight \in [Client -> 0 .. SndBuf], NEW c \in Client,
         NEW b \in Nat, NEW n \in Nat, n <= SndBuf - inflight[c], Transmit(c, b, n)
  PROVE  /\ got' \in [Client -> Seq(Nat)] /\ inflight' \in [Client -> 0 .. SndBuf]
         /\ \A d \in Client : d # c => got'[d] = got[d] /\ inflight'[d] = inflight[d]
         /\ Appended(got[c], got'[c], b, n)
<1>1. PICK t : t = [k \in 1 .. n |-> b + k]
  OBVIOUS
<1>2. t \in Seq(Nat) /\ Len(t) = n /\ \A k \in 1 .. n : t[k] = b + k
  BY <1>1
<1>3. PICK s : s = got[c] /\ s \in Seq(Nat)
  OBVIOUS
<1>4. /\ s \o t \in Seq(Nat)
      /\ Len(s \o t) = Len(s) + n
      /\ \A k \in 1 .. Len(s) + n : (s \o t)[k] = IF k <= Len(s) THEN s[k] ELSE t[k - Len(s)]
  <2>1. /\ s \o t \in Seq(Nat)
        /\ Len(s \o t) = Len(s) + Len(t)
        /\ \A k \in 1 .. Len(s) + Len(t) :
              (s \o t)[k] = IF k <= Len(s) THEN s[k] ELSE t[k - Len(s)]
    BY ONLY <1>2, <1>3, ConcatProperties
  <2> QED
    BY <1>2, <2>1
<1>5. got' = [got EXCEPT ![c] = s \o t] /\ inflight' = [inflight EXCEPT ![c] = inflight[c] + n]
  BY <1>1, <1>3 DEF Transmit
<1>6. inflight[c] + n \in 0 .. SndBuf
  OBVIOUS
<1>7. /\ got' \in [Client -> Seq(Nat)] /\ inflight' \in [Client -> 0 .. SndBuf]
      /\ \A d \in Client : d # c => got'[d] = got[d] /\ inflight'[d] = inflight[d]
      /\ got'[c] = s \o t
  BY <1>4, <1>5, <1>6
<1>8. ASSUME NEW k \in 1 .. Len(s) + n, ~(k <= Len(s)) PROVE t[k - Len(s)] = b + (k - Len(s))
  <2>1. k - Len(s) \in 1 .. n
    BY <1>3, <1>8
  <2> QED
    BY <1>2, <2>1
<1>9. Appended(s, s \o t, b, n)
  BY <1>3, <1>4, <1>8 DEF Appended
<1> QED
  BY <1>3, <1>7, <1>9

\* With the next n bytes behind it a part of the header is a longer part of it, and
\* all of it is a response that has come to the file.
LEMMA HeaderGrows ==
  ASSUME NEW g, NEW h, NEW l \in Nat, NEW n \in Nat, HeaderPart(g, l), Appended(g, h, l, n)
  PROVE  HeaderPart(h, l + n) /\ (l + n = HeadLen => FilePart(h, HeadLen))
<1>1. Len(g) = l /\ h \in Seq(Nat) /\ Len(h) = l + n
  BY DEF HeaderPart, Appended
<1>2. ASSUME NEW k \in 1 .. l + n PROVE h[k] = k
  <2>1. h[k] = IF k <= l THEN g[k] ELSE l + (k - l)
    BY <1>1 DEF Appended
  <2>2. k <= l => k \in 1 .. l
    OBVIOUS
  <2> QED
    BY <2>1, <2>2 DEF HeaderPart
<1>3. ASSUME NEW k \in 1 .. (l + n) - 1 PROVE h[k] < h[k + 1]
  <2>1. k \in 1 .. l + n /\ k + 1 \in 1 .. l + n
    OBVIOUS
  <2>2. h[k] = k /\ h[k + 1] = k + 1
    BY <1>2, <2>1
  <2> QED
    BY <2>2
<1> QED
  BY <1>1, <1>2, <1>3 DEF HeaderPart, FilePart

\* The bytes of a block, as many of them as were taken, follow the file sent so far.
LEMMA FileGrows ==
  ASSUME NEW g, NEW h, NEW b \in Nat, NEW n \in Nat, NEW m \in Nat, n <= m,
         FilePart(g, b), Appended(g, h, b, n)
  PROVE  FilePart(h, b + m)
<1>1. PICK l \in Nat : l = Len(g) /\ l >= HeadLen
  BY DEF FilePart, Appended
<1>2. /\ Len(h) = l + n
      /\ \A k \in 1 .. l + n : h[k] = IF k <= l THEN g[k] ELSE b + (k - l)
  BY <1>1 DEF Appended
<1>3. \A k \in 1 .. l : g[k] \in Nat /\ g[k] <= b
  <2>1. g \in Seq(Nat)
    BY DEF Appended
  <2>2. \A k \in 1 .. l : g[k] \in Nat
    BY <1>1, <2>1, ElementOfSeq
  <2>3. \A k \in 1 .. l : g[k] <= b
    BY <1>1 DEF FilePart
  <2> QED
    BY <2>2, <2>3
<1>4. ASSUME NEW k \in 1 .. HeadLen PROVE h[k] = k
  <2>1. k \in 1 .. l + n /\ k <= l
    BY <1>1
  <2> QED
    BY <1>2, <2>1 DEF FilePart
<1>5. ASSUME NEW k \in 1 .. l + n PROVE h[k] <= b + m
  <2>1. CASE k <= l
    <3>1. h[k] = g[k] /\ k \in 1 .. l
      BY <1>2, <2>1
    <3> QED
      BY <1>3, <3>1
  <2>2. CASE ~(k <= l)
    BY <1>2, <2>2
  <2> QED
    BY <2>1, <2>2
<1>6. ASSUME NEW k \in 1 .. (l + n) - 1 PROVE h[k] < h[k + 1]
  <2>1. k \in 1 .. l + n /\ k + 1 \in 1 .. l + n
    OBVIOUS
  <2>2. CASE k + 1 <= l
    <3>1. h[k] = g[k] /\ h[k + 1] = g[k + 1] /\ k \in 1 .. l - 1
      BY <1>2, <2>1, <2>2
    <3> QED
      BY <1>1, <3>1 DEF FilePart
  <2>3. CASE k = l
    <3>1. h[k] = g[k] /\ h[k + 1] = b + 1 /\ g[k] \in Nat /\ g[k] <= b
      BY <1>2, <1>3, <2>1, <2>3
    <3> QED
      BY <3>1
  <2>4. CASE k > l
    <3>1. h[k] = b + (k - l) /\ h[k + 1] = b + ((k + 1) - l)
      BY <1>2, <2>1, <2>4
    <3> QED
      BY <3>1
  <2> QED
    BY <2>2, <2>3, <2>4
<1> QED
  BY <1>1, <1>2, <1>4, <1>5, <1>6 DEF FilePart

-------------------------------------------------------------------------------
(* The steps *)

\* The server starts without connections.
LEMMA HttpdInitHolds == HttpdInit => HttpdInv
<1> SUFFICES ASSUME HttpdInit PROVE HttpdInv
  OBVIOUS
<1> USE DEF HttpdInit
<1>1. HttpdTyped
  BY DEF HttpdTyped, HttpdTypeOK, Slot
<1>2. Listed = {}
  BY DEF Listed
<1>3. DescriptorsOwned
  BY <1>2 DEF DescriptorsOwned
<1>4. NotAccepted /\ ReadyIsListed /\ ReadyIsCurrent
  BY <1>2 DEF NotAccepted, ReadyIsListed, ReadyIsCurrent
<1>5. \A c \in Client : SentSoFar(c)
  BY DEF SentSoFar
<1> QED
  BY <1>1, <1>3, <1>4, <1>5 DEF HttpdInv

\* What a client does takes nothing back that select() has reported.
LEMMA ClientStep ==
  ASSUME HttpdInv, UNCHANGED <<connVars, loopVars, got>>,
         peer' \in [Client -> {"none", "queued", "open", "closed"}],
         input' \in [Client -> {"nothing", "request", "bad"}],
         inflight' \in [Client -> 0 .. SndBuf],
         \A c \in Client : /\ Readable(c) => Readable(c)'
                           /\ Writable(c) => Writable(c)'
                           /\ peer'[c] \in {"none", "queued"} => peer[c] \in {"none", "queued"}
  PROVE  HttpdInv'
<1>1. UNCHANGED <<conn_list, state, hoff, foff, socks, files, pc, i, rfs, wfs, got>>
  BY DEF connVars, loopVars
<1>2. Listed' = Listed
  BY <1>1 DEF Listed
<1>3. HttpdTyped'
  BY <1>1 DEF HttpdInv, HttpdTyped, HttpdTypeOK
<1>4. DescriptorsOwned'
  BY <1>1, <1>2 DEF HttpdInv, DescriptorsOwned
<1>5. NotAccepted'
  BY <1>1, <1>2 DEF HttpdInv, NotAccepted
<1>6. Listed \subseteq Client
  BY DEF HttpdInv, HttpdTyped, HttpdTypeOK, Listed
<1>7. ReadyIsListed'
  BY <1>1, <1>2, <1>6 DEF HttpdInv, ReadyIsListed
<1>8. ReadyIsCurrent'
  BY <1>1 DEF HttpdInv, ReadyIsCurrent, HttpdTyped, HttpdTypeOK
<1>9. \A c \in Client : SentSoFar(c)'
  BY <1>1 DEF HttpdInv, SentSoFar, HeaderPart, FilePart
<1> QED
  BY <1>3, <1>4, <1>5, <1>7, <1>8, <1>9 DEF HttpdInv

\* After the handler of one slot the results of select() are current for the slots
\* still to come, if it touched no other connection than its own.
LEMMA ReadyStep ==
  ASSUME HttpdInv, pc = "handle", Advance, UNCHANGED <<rfs, wfs, peer>>,
         \A s \in Slot : s # i => conn_list'[s] = conn_list[s],
         \A d \in Client : d # conn_list[i] =>
             state'[d] = state[d] /\ input'[d] = input[d] /\ inflight'[d] = inflight[d]
  PROVE  ReadyIsCurrent' /\ ReadyIsListed'
<1>1. i \in Slot /\ i' \in Slot /\ pc' # "accept" /\ (pc' = "handle" => i' = i + 1)
  BY AdvanceEffect DEF HttpdInv, HttpdTyped, HttpdTypeOK
<1>2. ASSUME pc' = "handle", NEW s \in Slot, s >= i', conn_list'[s] # NULL
      PROVE  /\ conn_list'[s] \in rfs' =>
                   (state[conn_list[s]] = "SV_AWAITING_REQUST" /\ Readable(conn_list[s]))'
             /\ conn_list'[s] \in wfs' =>
                   (state[conn_list[s]] # "SV_AWAITING_REQUST" /\ Writable(conn_list[s]))'
  <2>1. s # i /\ s >= i
    BY <1>1, <1>2 DEF Slot
  <2>2. PICK d \in Client : d = conn_list[s] /\ d = conn_list'[s]
    BY <1>2, <2>1 DEF HttpdInv, HttpdTyped, HttpdTypeOK
  <2>3. d # conn_list[i]
    BY <1>1, <1>2, <2>1, <2>2 DEF HttpdInv, DescriptorsOwned
  <2>4. /\ d \in rfs => state[d] = "SV_AWAITING_REQUST" /\ Readable(d)
        /\ d \in wfs => state[d] # "SV_AWAITING_REQUST" /\ Writable(d)
    BY <1>2, <2>1, <2>2 DEF HttpdInv, ReadyIsCurrent
  <2>5. state'[d] = state[d] /\ Readable(d)' = Readable(d) /\ Writable(d)' = Writable(d)
    BY <2>3 DEF Readable, Writable
  <2> QED
    BY <2>2, <2>4, <2>5 DEF Readable, Writable
<1>3. ReadyIsCurrent'
  BY <1>2 DEF ReadyIsCurrent
<1> QED
  BY <1>1, <1>3 DEF ReadyIsListed

\* A handler keeps the invariant if it keeps it for its own connection.
LEMMA HandlerStep ==
  ASSUME HttpdInv, pc = "handle", Advance, UNCHANGED <<rfs, wfs, peer>>, HttpdTyped',
         NEW c \in Client, c = conn_list[i],
         conn_list' = conn_list \/ conn_list' = [conn_list EXCEPT ![i] = NULL],
         \A d \in Client : d # c =>
             /\ state'[d] = state[d] /\ hoff'[d] = hoff[d] /\ foff'[d] = foff[d]
             /\ input'[d] = input[d] /\ inflight'[d] = inflight[d] /\ got'[d] = got[d],
         DescriptorsOwned', SentSoFar(c)'
  PROVE  HttpdInv'
<1>1. i \in Slot /\ conn_list \in [Slot -> Client \cup {NULL}]
  BY DEF HttpdInv, HttpdTyped, HttpdTypeOK
<1>2. \A s \in Slot : s # i => conn_list'[s] = conn_list[s]
  BY <1>1
<1>3. ReadyIsCurrent' /\ ReadyIsListed'
  BY <1>2, ReadyStep
<1>4. NotAccepted'
  <2> SUFFICES ASSUME NEW d \in Client, peer'[d] \in {"none", "queued"}
               PROVE  d \notin Listed' /\ state'[d] = "SV_AWAITING_REQUST"
    BY DEF NotAccepted
  <2>1. d \notin Listed /\ state[d] = "SV_AWAITING_REQUST"
    BY DEF HttpdInv, NotAccepted
  <2>2. d # c /\ \A s \in Slot : conn_list[s] # d
    BY <1>1, <2>1, HasSlot
  <2>3. \A s \in Slot : conn_list'[s] # d
    BY <1>1, <2>2
  <2>4. d \notin Listed'
    BY <2>3 DEF Listed
  <2> QED
    BY <2>1, <2>2, <2>4
<1>5. ASSUME NEW d \in Client, d # c PROVE SentSoFar(d)'
  <2>1. SentSoFar(d)
    BY DEF HttpdInv
  <2>2. state'[d] = state[d] /\ hoff'[d] = hoff[d] /\ foff'[d] = foff[d] /\ got'[d] = got[d]
    BY <1>5
  <2> QED
    BY ONLY <2>1, <2>2 DEF SentSoFar
<1> QED
  BY <1>3, <1>4, <1>5 DEF HttpdInv

\* sv_del_conn and the freed slot.
LEMMA DeleteConn ==
  ASSUME HttpdInv, NEW c \in Client, c = conn_list[i], sv_del_conn(c)
  PROVE  /\ DescriptorsOwned'
         /\ conn_list' = [conn_list EXCEPT ![i] = NULL]
         /\ conn_list' \in [Slot -> Client \cup {NULL}]
         /\ socks' \subseteq Client /\ files' \subseteq Client
         /\ UNCHANGED <<state, hoff, foff>>
<1>1. /\ i \in Slot /\ conn_list \in [Slot -> Client \cup {NULL}]
      /\ state \in [Client -> {"SV_AWAITING_REQUST", "SV_SENDING_HEADER", "SV_SENDING_FILE"}]
      /\ socks \subseteq Client /\ files \subseteq Client
  BY DEF HttpdInv, HttpdTyped, HttpdTypeOK
<1>2. /\ conn_list' = [conn_list EXCEPT ![i] = NULL]
      /\ files' = IF state[c] = "SV_AWAITING_REQUST" THEN files ELSE files \ {c}
      /\ socks' = socks \ {c}
      /\ UNCHANGED <<state, hoff, foff>>
  BY DEF sv_del_conn
<1>3. \A s \in Slot : conn_list'[s] = IF s = i THEN NULL ELSE conn_list[s]
  BY <1>1, <1>2
<1>4. \A s, t \in Slot : conn_list[s] = conn_list[t] /\ s # t => conn_list[s] = NULL
  BY DEF HttpdInv, DescriptorsOwned
<1>5. ASSUME NEW d PROVE d \in Listed' <=> d \in Listed /\ d # c
  <2>1. d \in Listed <=> d # NULL /\ \E s \in Slot : conn_list[s] = d
    BY DEF Listed
  <2>2. d \in Listed' <=> d # NULL /\ \E s \in Slot : conn_list'[s] = d
    BY DEF Listed
  <2> QED
    BY <1>1, <1>3, <1>4, <2>1, <2>2
<1>6. socks = Listed /\ files = {d \in Listed : state[d] # "SV_AWAITING_REQUST"}
  BY DEF HttpdInv, DescriptorsOwned
<1>7. socks' = Listed'
  BY <1>2, <1>5, <1>6
<1>8. files' = {d \in Listed' : state'[d] # "SV_AWAITING_REQUST"}
  BY <1>2, <1>5, <1>6
<1>9. ASSUME NEW s \in Slot, NEW t \in Slot, conn_list'[s] = conn_list'[t], s # t
      PROVE  conn_list'[s] = NULL
  BY <1>3, <1>4, <1>9
<1> QED
  BY <1>1, <1>2, <1>7, <1>8, <1>9 DEF DescriptorsOwned

\* sv_readreq_conn.
LEMMA RequestStep ==
  ASSUME HttpdInv, HandleRequest
  PROVE  HttpdInv'
<1>1. PICK c : c = conn_list[i]
  OBVIOUS
<1>2. /\ pc = "handle" /\ Advance /\ UNCHANGED <<rfs, wfs, peer, inflight, got>>
      /\ c # NULL /\ state[c] = "SV_AWAITING_REQUST"
      /\ \/ sv_del_conn(c)
         \/ /\ state' = [state EXCEPT ![c] = "SV_SENDING_HEADER"]
            /\ files' = files \cup {c}
            /\ UNCHANGED <<conn_list, hoff, foff, socks>>
      /\ input' = [input EXCEPT ![c] = "nothing"]
  BY <1>1 DEF HandleRequest, Due
<1>3. c \in Client /\ i \in Slot /\ i' \in Slot
  BY <1>1, <1>2, AdvanceEffect DEF HttpdInv, HttpdTyped, HttpdTypeOK
<1>4. \A d \in Client : d # c => input'[d] = input[d]
  BY <1>2
<1>5. SentSoFar(c)
  BY <1>3 DEF HttpdInv
<1>6. CASE sv_del_conn(c)
  <2>1. /\ DescriptorsOwned'
        /\ conn_list' = [conn_list EXCEPT ![i] = NULL]
        /\ conn_list' \in [Slot -> Client \cup {NULL}]
        /\ socks' \subseteq Client /\ files' \subseteq Client
        /\ UNCHANGED <<state, hoff, foff>>
    BY <1>1, <1>3, <1>6, DeleteConn
  <2>2. HttpdTyped'
    BY <1>2, <1>3, <2>1 DEF HttpdInv, HttpdTyped, HttpdTypeOK
  <2>3. SentSoFar(c)'
    BY <1>2, <1>5, <2>1 DEF SentSoFar
  <2> QED
    BY <1>1, <1>2, <1>3, <1>4, <2>1, <2>2, <2>3, HandlerStep
<1>7. CASE /\ state' = [state EXCEPT ![c] = "SV_SENDING_HEADER"]
           /\ files' = files \cup {c}
           /\ UNCHANGED <<conn_list, hoff, foff, socks>>
  <2>1. HttpdTyped'
    BY <1>2, <1>3, <1>7 DEF HttpdInv, HttpdTyped, HttpdTypeOK
  <2>2. \A d \in Client : state'[d] = IF d = c THEN "SV_SENDING_HEADER" ELSE state[d]
    BY <1>3, <1>7 DEF HttpdInv, HttpdTyped, HttpdTypeOK
  <2>3. SentSoFar(c)'
    <3>1. got'[c] = <<>> /\ hoff'[c] = 0 /\ foff'[c] = 0 /\ state'[c] = "SV_SENDING_HEADER"
      BY <1>2, <1>3, <1>5, <1>7, <2>2 DEF SentSoFar
    <3> QED
      BY <3>1 DEF SentSoFar, HeaderPart
  <2>4. DescriptorsOwned'
    <3>1. Listed' = Listed /\ c \in Listed /\ Listed \subseteq Client
      BY <1>1, <1>3, <1>7 DEF Listed, HttpdInv, HttpdTyped, HttpdTypeOK
    <3>2. files' = {d \in Listed' : state'[d] # "SV_AWAITING_REQUST"}
      BY <1>7, <2>2, <3>1 DEF HttpdInv, DescriptorsOwned
    <3> QED
      BY <1>7, <3>1, <3>2 DEF HttpdInv, DescriptorsOwned
  <2> QED
    BY <1>1, <1>2, <1>3, <1>4, <1>7, <2>1, <2>2, <2>3, <2>4, HandlerStep
<1> QED
  BY <1>2, <1>6, <1>7

\* write() to a client that has gone, and the end of the file.
LEMMA CloseStep ==
  ASSUME HttpdInv, pc = "handle", NEW c, c = conn_list[i], c # NULL, sv_del_conn(c), Advance,
         UNCHANGED <<rfs, wfs, peer, input, inflight, got>>
  PROVE  HttpdInv'
<1>1. c \in Client /\ i \in Slot /\ i' \in Slot
  BY AdvanceEffect DEF HttpdInv, HttpdTyped, HttpdTypeOK
<1>2. /\ DescriptorsOwned'
      /\ conn_list' = [conn_list EXCEPT ![i] = NULL]
      /\ conn_list' \in [Slot -> Client \cup {NULL}]
      /\ socks' \subseteq Client /\ files' \subseteq Client
      /\ UNCHANGED <<state, hoff, foff>>
  BY <1>1, DeleteConn
<1>3. HttpdTyped'
  BY <1>1, <1>2 DEF HttpdInv, HttpdTyped, HttpdTypeOK
<1>4. SentSoFar(c)'
  BY <1>1, <1>2 DEF SentSoFar, HttpdInv
<1> QED
  BY <1>1, <1>2, <1>3, <1>4, HandlerStep

\* sv_sendhead_conn.
LEMMA HeaderStep ==
  ASSUME HttpdInv, HandleHeader
  PROVE  HttpdInv'
<1>1. PICK c : c = conn_list[i]
  OBVIOUS
<1>2. PICK n \in 1 .. HeadLen - hoff[c] :
          /\ n <= SndBuf - inflight[c]
          /\ Transmit(c, hoff[c], n)
          /\ hoff' = [hoff EXCEPT ![c] = @ + n]
          /\ state' = [state EXCEPT ![c] = IF hoff'[c] = HeadLen THEN "SV_SENDING_FILE" ELSE @]
  BY <1>1 DEF HandleHeader
<1>3. /\ pc = "handle" /\ c # NULL /\ state[c] = "SV_SENDING_HEADER" /\ Advance
      /\ UNCHANGED <<conn_list, foff, socks, files, rfs, wfs, peer, input>>
  BY <1>1 DEF HandleHeader, Due
<1>4. c \in Client /\ i \in Slot /\ i' \in Slot /\ n \in Nat /\ hoff[c] \in Nat /\ foff[c] \in Nat
      /\ hoff[c] + n \in 0 .. HeadLen
  BY <1>1, <1>2, <1>3, AdvanceEffect DEF HttpdInv, HttpdTyped, HttpdTypeOK
<1>5. /\ got' \in [Client -> Seq(Nat)] /\ inflight' \in [Client -> 0 .. SndBuf]
      /\ \A d \in Client : d # c => got'[d] = got[d] /\ inflight'[d] = inflight[d]
      /\ Appended(got[c], got'[c], hoff[c], n)
  <2>1. got \in [Client -> Seq(Nat)] /\ inflight \in [Client -> 0 .. SndBuf]
    BY DEF HttpdInv, HttpdTyped, HttpdTypeOK
  <2> QED
    BY ONLY <1>2, <1>4, <2>1, Transmitted, SvHttpdAssumption
<1>6. /\ \A d \in Client : hoff'[d] = IF d = c THEN hoff[c] + n ELSE hoff[d]
      /\ hoff' \in [Client -> 0 .. HeadLen]
  BY <1>2, <1>4 DEF HttpdInv, HttpdTyped, HttpdTypeOK
<1>7. PICK new \in {"SV_SENDING_HEADER", "SV_SENDING_FILE"} :
          /\ new = IF hoff[c] + n = HeadLen THEN "SV_SENDING_FILE" ELSE "SV_SENDING_HEADER"
          /\ state' = [state EXCEPT ![c] = new]
  BY <1>2, <1>3, <1>4, <1>6 DEF HttpdInv, HttpdTyped, HttpdTypeOK
<1>8. /\ \A d \in Client : state'[d] = IF d = c THEN new ELSE state[d]
      /\ state' \in [Client -> {"SV_AWAITING_REQUST", "SV_SENDING_HEADER", "SV_SENDING_FILE"}]
  BY <1>4, <1>7 DEF HttpdInv, HttpdTyped, HttpdTypeOK
<1>9. HttpdTyped'
  BY <1>3, <1>4, <1>5, <1>6, <1>8 DEF HttpdInv, HttpdTyped, HttpdTypeOK
<1>10. DescriptorsOwned'
  <2>1. Listed' = Listed /\ Listed \subseteq Client
    BY <1>3 DEF Listed, HttpdInv, HttpdTyped, HttpdTypeOK
  <2>2. \A d \in Listed : state'[d] # "SV_AWAITING_REQUST" <=> state[d] # "SV_AWAITING_REQUST"
    BY <1>3, <1>8, <2>1
  <2> QED
    BY <1>3, <2>1, <2>2 DEF HttpdInv, DescriptorsOwned
<1>11. SentSoFar(c)'
  <2>1. foff[c] = 0 /\ HeaderPart(got[c], hoff[c])
    BY <1>3, <1>4 DEF HttpdInv, SentSoFar
  <2>2. HeaderPart(got'[c], hoff[c] + n) /\ (hoff[c] + n = HeadLen => FilePart(got'[c], HeadLen))
    BY <1>4, <1>5, <2>1, HeaderGrows
  <2>3. state'[c] = new /\ foff'[c] = 0 /\ hoff'[c] = hoff[c] + n /\ HeadLen + 0 = HeadLen
    BY <1>3, <1>4, <1>6, <1>8, <2>1
  <2>4. HeaderPart(got[c], hoff[c])' <=> HeaderPart(got'[c], hoff'[c])
    BY DEF HeaderPart
  <2>5. FilePart(got[c], HeadLen + foff[c])' <=> FilePart(got'[c], HeadLen + foff'[c])
    BY DEF FilePart
  <2> QED
    BY <1>7, <2>2, <2>3, <2>4, <2>5 DEF SentSoFar
<1> QED
  BY <1>1, <1>3, <1>4, <1>5, <1>6, <1>8, <1>9, <1>10, <1>11, HandlerStep

\* sv_sendfile_conn.
LEMMA FileStep ==
  ASSUME HttpdInv, HandleFile
  PROVE  HttpdInv'
<1>1. PICK c, bc : c = conn_list[i] /\ bc = BlockAt(foff[c])
  OBVIOUS
<1>2. /\ pc = "handle" /\ c # NULL /\ state[c] = "SV_SENDING_FILE" /\ Advance
      /\ UNCHANGED <<rfs, wfs, peer, input>>
      /\ IF bc = 0
         THEN sv_del_conn(c) /\ UNCHANGED <<got, inflight>>
         ELSE \E bs \in 1 .. bc :
                 /\ bs <= SndBuf - inflight[c]
                 /\ Transmit(c, HeadLen + foff[c], bs)
                 /\ foff' = [foff EXCEPT ![c] = @ + bc]
                 /\ UNCHANGED <<conn_list, state, hoff, socks, files>>
  BY <1>1 DEF HandleFile, Due
<1>3. CASE bc = 0
  BY <1>1, <1>2, <1>3, CloseStep
<1>4. CASE bc # 0
  <2>1. PICK n \in 1 .. bc :
          /\ n <= SndBuf - inflight[c]
          /\ Transmit(c, HeadLen + foff[c], n)
          /\ foff' = [foff EXCEPT ![c] = @ + bc]
          /\ UNCHANGED <<conn_list, state, hoff, socks, files>>
    BY <1>2, <1>4
  <2>2. c \in Client /\ i \in Slot /\ i' \in Slot /\ foff[c] \in 0 .. FileLen
    BY <1>1, <1>2, AdvanceEffect DEF HttpdInv, HttpdTyped, HttpdTypeOK
  <2>3. bc \in Nat /\ foff[c] + bc \in 0 .. FileLen /\ n \in Nat /\ 1 <= n /\ n <= bc
        /\ HeadLen + foff[c] \in Nat
    BY <1>1, <2>1, <2>2 DEF BlockAt
  <2>4. /\ got' \in [Client -> Seq(Nat)] /\ inflight' \in [Client -> 0 .. SndBuf]
        /\ \A d \in Client : d # c => got'[d] = got[d] /\ inflight'[d] = inflight[d]
        /\ Appended(got[c], got'[c], HeadLen + foff[c], n)
    <3>1. got \in [Client -> Seq(Nat)] /\ inflight \in [Client -> 0 .. SndBuf]
      BY DEF HttpdInv, HttpdTyped, HttpdTypeOK
    <3> QED
      BY ONLY <2>1, <2>2, <2>3, <3>1, Transmitted, SvHttpdAssumption
  <2>5. /\ \A d \in Client : foff'[d] = IF d = c THEN foff[c] + bc ELSE foff[d]
        /\ foff' \in [Client -> 0 .. FileLen]
    BY <2>1, <2>2, <2>3 DEF HttpdInv, HttpdTyped, HttpdTypeOK
  <2>6. HttpdTyped'
    BY <1>2, <2>1, <2>2, <2>4, <2>5 DEF HttpdInv, HttpdTyped, HttpdTypeOK
  <2>7. DescriptorsOwned'
    BY <2>1 DEF HttpdInv, DescriptorsOwned, Listed
  <2>8. SentSoFar(c)'
    <3>1. FilePart(got[c], HeadLen + foff[c])
      BY <1>2, <2>2 DEF HttpdInv, SentSoFar
    <3>2. FilePart(got'[c], (HeadLen + foff[c]) + bc)
      BY <2>3, <2>4, <3>1, FileGrows
    <3>3. state'[c] = "SV_SENDING_FILE" /\ foff'[c] = foff[c] + bc
      BY <1>2, <2>1, <2>2, <2>5
    <3>4. HeadLen + foff'[c] = (HeadLen + foff[c]) + bc
      BY <2>2, <2>3, <3>3
    <3>5. FilePart(got[c], HeadLen + foff[c])' <=> FilePart(got'[c], HeadLen + foff'[c])
      BY DEF FilePart
    <3> QED
      BY <3>2, <3>3, <3>4, <3>5 DEF SentSoFar
  <2> QED
    BY <1>1, <1>2, <2>1, <2>2, <2>4, <2>5, <2>6, <2>7, <2>8, HandlerStep
<1> QED
  BY <1>3, <1>4

\* sv_create_conn and sv_insert_conn.
LEMMA AcceptStep ==
  ASSUME HttpdInv, NEW c \in Client, AcceptConn(c)
  PROVE  HttpdInv'
<1>1. PICK s \in Slot : conn_list[s] = NULL /\ conn_list' = [conn_list EXCEPT ![s] = c]
  <2>1. PICK s : s = CHOOSE x \in FreeSlots : \A y \in FreeSlots : x <= y
    OBVIOUS
  <2>2. FreeSlots # {} /\ conn_list' = [conn_list EXCEPT ![s] = c]
    BY <2>1 DEF AcceptConn
  <2> QED
    BY <2>1, <2>2, FreeSlotTaken
<1>2. /\ pc = "accept" /\ pc' = "handle" /\ i' = 0
      /\ peer[c] = "queued" /\ peer' = [peer EXCEPT ![c] = "open"]
      /\ socks' = socks \cup {c}
      /\ state' = [state EXCEPT ![c] = "SV_AWAITING_REQUST"]
      /\ hoff' = [hoff EXCEPT ![c] = 0]
      /\ foff' = [foff EXCEPT ![c] = 0]
      /\ UNCHANGED <<files, rfs, wfs, input, inflight, got>>
  BY DEF AcceptConn
<1>3. c \notin Listed /\ state[c] = "SV_AWAITING_REQUST" /\ SentSoFar(c)
  BY <1>2 DEF HttpdInv, NotAccepted
<1>4. UNCHANGED <<state, hoff, foff>>
  BY <1>2, <1>3 DEF HttpdInv, HttpdTyped, HttpdTypeOK, SentSoFar
<1>5. HttpdTyped'
  <2>1. conn_list' \in [Slot -> Client \cup {NULL}] /\ i' \in Slot
    BY <1>1, <1>2 DEF HttpdInv, HttpdTyped, HttpdTypeOK, Slot
  <2> QED
    BY <1>2, <1>4, <2>1 DEF HttpdInv, HttpdTyped, HttpdTypeOK
<1>6. \A t \in Slot : conn_list'[t] = IF t = s THEN c ELSE conn_list[t]
  BY <1>1 DEF HttpdInv, HttpdTyped, HttpdTypeOK
<1>7. \A t \in Slot : conn_list[t] # c
  BY <1>3, HasSlot
<1>8. ASSUME NEW d PROVE d \in Listed' <=> d \in Listed \/ d = c
  <2>1. d \in Listed <=> d # NULL /\ \E t \in Slot : conn_list[t] = d
    BY DEF Listed
  <2>2. d \in Listed' <=> d # NULL /\ \E t \in Slot : conn_list'[t] = d
    BY DEF Listed
  <2> QED
    BY <1>1, <1>6, <2>1, <2>2
<1>9. DescriptorsOwned'
  <2>1. socks' = Listed' /\ files' = {d \in Listed' : state'[d] # "SV_AWAITING_REQUST"}
    BY <1>2, <1>3, <1>4, <1>8 DEF HttpdInv, DescriptorsOwned
  <2>2. ASSUME NEW t \in Slot, NEW u \in Slot, conn_list'[t] = conn_list'[u], t # u
        PROVE  conn_list'[t] = NULL
    BY <1>6, <1>7, <2>2 DEF HttpdInv, DescriptorsOwned
  <2> QED
    BY <2>1, <2>2 DEF DescriptorsOwned
<1>10. NotAccepted'
  BY <1>2, <1>4, <1>8 DEF HttpdInv, NotAccepted, HttpdTyped
<1>11. ReadyIsListed'
  BY <1>2 DEF ReadyIsListed
<1>12. ReadyIsCurrent'
  <2>1. ASSUME NEW t \in Slot, conn_list'[t] # NULL
        PROVE  /\ conn_list'[t] \in rfs' =>
                     (state[conn_list[t]] = "SV_AWAITING_REQUST" /\ Readable(conn_list[t]))'
               /\ conn_list'[t] \in wfs' =>
                     (state[conn_list[t]] # "SV_AWAITING_REQUST" /\ Writable(conn_list[t]))'
    <3>1. PICK d \in Client : d = conn_list'[t]
      BY <2>1, <1>5 DEF HttpdTyped, HttpdTypeOK
    <3>2. d = c => d \notin rfs /\ d \notin wfs
      BY <1>2, <1>3 DEF HttpdInv, ReadyIsListed
    <3>3. d # c => peer'[d] = peer[d]
      BY <1>2 DEF HttpdInv, HttpdTyped
    <3>4. d # c => Readable(d)' = Readable(d) /\ Writable(d)' = Writable(d)
      BY <1>2, <3>3 DEF Readable, Writable
    <3>5. /\ d \in rfs => state[d] = "SV_AWAITING_REQUST" /\ Readable(d)
          /\ d \in wfs => state[d] # "SV_AWAITING_REQUST" /\ Writable(d)
      BY <1>2 DEF HttpdInv, ReadyIsListed
    <3> QED
      BY <1>2, <1>4, <3>1, <3>2, <3>4, <3>5 DEF Readable, Writable
  <2> QED
    BY <2>1 DEF ReadyIsCurrent
<1>13. ASSUME NEW d \in Client PROVE SentSoFar(d)'
  BY <1>2, <1>4 DEF HttpdInv, SentSoFar
<1> QED
  BY <1>5, <1>9, <1>10, <1>11, <1>12, <1>13 DEF HttpdInv

\* sv_collect_fd and select(), and the ways from accept() on that change no connection.
LEMMA LoopStep ==
  ASSUME HttpdInv, Select \/ AcceptFails \/ TooManyConns \/ NothingToAccept \/ HandleNothing
  PROVE  HttpdInv'
<1>1. UNCHANGED <<conn_list, state, hoff, foff, socks, files, peer, input, inflight, got>>
  BY DEF Select, AcceptFails, TooManyConns, NothingToAccept, HandleNothing, connVars, netVars
<1>2. i' \in Slot
  BY AdvanceEffect DEF Select, AcceptFails, TooManyConns, NothingToAccept, HandleNothing,
                       HttpdInv, HttpdTyped, HttpdTypeOK, Slot
<1>3. HttpdTyped'
  BY <1>1, <1>2 DEF HttpdInv, HttpdTyped, HttpdTypeOK
<1>4. Listed' = Listed
  BY <1>1 DEF Listed
<1>5. DescriptorsOwned' /\ NotAccepted' /\ \A d \in Client : SentSoFar(d)'
  BY <1>1, <1>4 DEF HttpdInv, DescriptorsOwned, NotAccepted, SentSoFar
<1>6. \A d : Readable(d)' = Readable(d) /\ Writable(d)' = Writable(d)
  BY <1>1 DEF Readable, Writable
<1>7. CASE Select
  <2>1. ReadyIsListed'
    BY <1>1, <1>4, <1>6, <1>7 DEF Select, ReadyIsListed
  <2>2. ReadyIsCurrent'
    BY <1>7 DEF Select, ReadyIsCurrent
  <2> QED
    BY <1>3, <1>5, <2>1, <2>2 DEF HttpdInv
<1>8. CASE AcceptFails \/ TooManyConns
  BY <1>3, <1>5, <1>8 DEF HttpdInv, AcceptFails, TooManyConns, ReadyIsListed, ReadyIsCurrent
<1>9. CASE NothingToAccept
  <2>1. ReadyIsListed' /\ UNCHANGED <<rfs, wfs>> /\ pc = "accept"
    BY <1>9 DEF NothingToAccept, ReadyIsListed
  <2>2. ReadyIsCurrent'
    BY <1>1, <1>6, <2>1 DEF HttpdInv, ReadyIsListed, ReadyIsCurrent
  <2> QED
    BY <1>3, <1>5, <2>1, <2>2 DEF HttpdInv
<1>10. CASE HandleNothing
  <2>1. ReadyIsCurrent' /\ ReadyIsListed'
    BY <1>1, <1>10, ReadyStep DEF HandleNothing
  <2> QED
    BY <1>3, <1>5, <2>1 DEF HttpdInv
<1> QED
  BY <1>7, <1>8, <1>9, <1>10

\* HttpdInv is an inductive invariant of the web server.
THEOREM HttpdInvariance == HttpdSpec => []HttpdInv
<1>1. ASSUME HttpdInv, HttpdNext PROVE HttpdInv'
  <2>1. CASE Select \/ AcceptFails \/ TooManyConns \/ NothingToAccept \/ HandleNothing
    BY <1>1, <2>1, LoopStep
  <2>2. ASSUME NEW c \in Client, AcceptConn(c) PROVE HttpdInv'
    BY <1>1, <2>2, AcceptStep
  <2>3. CASE HandleRequest
    BY <1>1, <2>3, RequestStep
  <2>4. CASE HandleWriteError
    BY <1>1, <2>4, CloseStep DEF HandleWriteError, Due, netVars
  <2>5. CASE HandleHeader
    BY <1>1, <2>5, HeaderStep
  <2>6. CASE HandleFile
    BY <1>1, <2>6, FileStep
  <2>7. ASSUME NEW c \in Client, NEW what \in {"request", "bad"},
               ClientConnects(c) \/ ClientReads(c) \/ ClientCloses(c) \/ ClientSends(c, what)
        PROVE  HttpdInv'
    <3>1. /\ UNCHANGED <<connVars, loopVars, got>>
          /\ \/ peer' = peer
             \/ peer' = [peer EXCEPT ![c] = "queued"] /\ peer[c] = "none"
             \/ peer' = [peer EXCEPT ![c] = "closed"] /\ peer[c] = "open"
          /\ inflight' = inflight \/ inflight' = [inflight EXCEPT ![c] = 0]
          /\ input' = input \/ input' = [input EXCEPT ![c] = what]
      <4>1. CASE ClientConnects(c)
        BY <4>1 DEF ClientConnects
      <4>2. CASE ClientReads(c)
        BY <4>2 DEF ClientReads
      <4>3. CASE ClientCloses(c)
        BY <4>3 DEF ClientCloses
      <4>4. CASE ClientSends(c, what)
        BY <4>4 DEF ClientSends
      <4> QED
        BY <2>7, <4>1, <4>2, <4>3, <4>4
    <3>2. /\ peer \in [Client -> {"none", "queued", "open", "closed"}]
          /\ input \in [Client -> {"nothing", "request", "bad"}]
          /\ inflight \in [Client -> 0 .. SndBuf]
      BY <1>1 DEF HttpdInv, HttpdTyped, HttpdTypeOK
    <3>3. /\ peer' \in [Client -> {"none", "queued", "open", "closed"}]
          /\ input' \in [Client -> {"nothing", "request", "bad"}]
          /\ inflight' \in [Client -> 0 .. SndBuf]
      BY <3>1, <3>2
    <3>4. ASSUME NEW d \in Client
          PROVE  /\ peer'[d] \in {"none", "queued"} => peer[d] \in {"none", "queued"}
                 /\ peer[d] = "closed" => peer'[d] = "closed"
                 /\ inflight'[d] <= inflight[d]
                 /\ input[d] # "nothing" => input'[d] # "nothing"
      <4>1. inflight'[d] \in {inflight[d], 0} /\ inflight[d] \in Nat
        BY <3>1, <3>2
      <4>2. input'[d] \in {input[d], what}
        BY <3>1, <3>2
      <4> QED
        BY <3>1, <3>2, <4>1, <4>2
    <3>5. ASSUME NEW d \in Client
          PROVE  (Readable(d) => Readable(d)') /\ (Writable(d) => Writable(d)')
      BY <3>2, <3>3, <3>4 DEF Readable, Writable
    <3> QED
      BY <1>1, <3>1, <3>3, <3>4, <3>5, ClientStep
  <2> QED
    BY <1>1, <2>1, <2>2, <2>3, <2>4, <2>5, <2>6, <2>7 DEF HttpdNext, Server
<1>2. ASSUME HttpdInv, UNCHANGED httpdVars PROVE HttpdInv'
  <2>1. UNCHANGED <<connVars, loopVars, got>> /\ UNCHANGED <<peer, input, inflight>>
    BY <1>2 DEF httpdVars, netVars
  <2>2. \A c \in Client : (Readable(c) => Readable(c)') /\ (Writable(c) => Writable(c)')
    BY <2>1 DEF Readable, Writable
  <2> QED
    BY <1>2, <2>1, <2>2, ClientStep DEF HttpdInv, HttpdTyped, HttpdTypeOK
<1> QED
  BY <1>1, <1>2, HttpdInitHolds, PTL DEF HttpdSpec

\* Every socket and file the server has open belongs to exactly one slot of its table,
\* and the handlers act only on what select() has reported for the state they find.
THEOREM ConnectionsHold == HttpdSpec => []ConnectionsConsistent
<1>1. HttpdInv => ConnectionsConsistent
  BY DEF HttpdInv, HttpdTyped, ConnectionsConsistent
<1> QED
  BY <1>1, HttpdInvariance, PTL

\* A client is sent the header and then bytes of the file in order, none of them twice,
\* whatever each write() takes.
THEOREM ResponsesInOrder == HttpdSpec => []ResponseInOrder
<1>1. ASSUME HttpdInv, NEW c \in Client
      PROVE  /\ \A k \in 1 .. Len(got[c]) : k <= HeadLen => got[c][k] = k
             /\ \A k \in 1 .. Len(got[c]) - 1 : got[c][k] < got[c][k + 1]
  <2>1. /\ SentSoFar(c) /\ got[c] \in Seq(Nat) /\ Len(got[c]) \in Nat
        /\ state[c] \in {"SV_AWAITING_REQUST", "SV_SENDING_HEADER", "SV_SENDING_FILE"}
    BY <1>1 DEF HttpdInv, HttpdTyped, HttpdTypeOK
  <2>2. CASE state[c] = "SV_AWAITING_REQUST"
    BY <2>1, <2>2 DEF SentSoFar
  <2>3. CASE state[c] = "SV_SENDING_HEADER"
    <3>1. \A k \in 1 .. Len(got[c]) : got[c][k] = k
      BY <2>1, <2>3 DEF SentSoFar, HeaderPart
    <3>2. ASSUME NEW k \in 1 .. Len(got[c]) - 1 PROVE got[c][k] < got[c][k + 1]
      <4>1. k \in 1 .. Len(got[c]) /\ k + 1 \in 1 .. Len(got[c])
        BY <2>1
      <4>2. got[c][k] = k /\ got[c][k + 1] = k + 1
        BY <3>1, <4>1
      <4> QED
        BY <4>1, <4>2
    <3> QED
      BY <3>1, <3>2
  <2>4. CASE state[c] = "SV_SENDING_FILE"
    <3>1. /\ \A k \in 1 .. HeadLen : got[c][k] = k
          /\ \A k \in 1 .. Len(got[c]) - 1 : got[c][k] < got[c][k + 1]
      BY <2>1, <2>4 DEF SentSoFar, FilePart
    <3> QED
      BY <2>1, <3>1
  <2> QED
    BY <2>1, <2>2, <2>3, <2>4
<1>2. HttpdInv => ResponseInOrder
  BY <1>1 DEF ResponseInOrder
<1> QED
  BY <1>2, HttpdInvariance, PTL

\* Once the descriptors are used up and another client waits, no step of the server or
\* of a client changes a connection any more.
THEOREM StuckStays == HttpdSpec => StuckForGood
<1>1. ASSUME HttpdInv, HttpdNext, Stuck PROVE Stuck' /\ UNCHANGED connVars
  <2>1. pc \in {"select", "accept"} /\ NoDescriptor /\ (pc = "accept" => lready)
    BY <1>1 DEF Stuck
  <2>2. PICK q \in Client : peer[q] = "queued"
    BY <1>1 DEF Stuck, Queued
  <2>3. /\ UNCHANGED connVars /\ pc' \in {"select", "accept"}
        /\ pc' = "accept" /\ pc = "select" => (lready' <=> Queued # {})
        /\ pc' = "accept" /\ pc = "accept" => (lready' <=> lready)
    BY <1>1, <2>1 DEF HttpdNext, Server, Select, AcceptFails, TooManyConns, NothingToAccept, AcceptConn,
         HandleNothing, HandleRequest, HandleWriteError, HandleHeader, HandleFile,
         ClientConnects, ClientReads, ClientCloses, ClientSends, loopVars
  <2>4. socks' = socks /\ files' = files
    BY <2>3 DEF connVars
  <2>5. NoDescriptor'
    BY <2>1, <2>4 DEF NoDescriptor
  <2>6. peer'[q] = "queued"
    <3>1. ASSUME NEW c \in Client PROVE ~AcceptConn(c)
      BY <2>1 DEF AcceptConn
    <3>2. peer' = peer \/ \E c \in Client : ClientConnects(c) \/ ClientCloses(c)
      BY <1>1, <2>1, <3>1 DEF HttpdNext, Server, Select, AcceptFails, TooManyConns, NothingToAccept,
           HandleNothing, HandleRequest, HandleWriteError, HandleHeader, HandleFile,
           ClientReads, ClientSends, netVars
    <3> QED
      BY <1>1, <2>2, <3>2 DEF ClientConnects, ClientCloses, HttpdInv, HttpdTyped
  <2>7. Queued' # {} /\ Queued # {}
    BY <2>2, <2>6 DEF Queued
  <2>8. pc' = "accept" => lready'
    BY ONLY <2>1, <2>3, <2>7, Zenon
  <2> QED
    BY <2>3, <2>5, <2>7, <2>8 DEF Stuck
<1> QED
  BY <1>1, HttpdInvariance, PTL DEF HttpdSpec, StuckForGood
===============================================================================
