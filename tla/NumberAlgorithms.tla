------------------------- MODULE NumberAlgorithms -------------------------
(***************************************************************************)
(* The exercises on numbers: the two-stack calculator of calculate.c, the  *)
(* sieve of filter_prime.c, the happy numbers of happynumber_to_cycle_     *)
(* quetion.c and the column titles of convet_integer.c.                    *)
(***************************************************************************)
EXTENDS Integers, Sequences, FiniteSets, FiniteSetsExt, SequencesExt, Jobs

CONSTANTS
  Numbers,      \* the numbers that are tried
  Operands      \* the numbers of the expressions

-----------------------------------------------------------------------------
(* calculate.c.  The input is a sequence of tokens: numbers, operators,    *)
(* parentheses and the final "=".  The digits that the loop collects one   *)
(* by one are one token; division, which leaves the integers, is left out. *)

Operators == {"+", "-", "*"}

compare(c1, c2) ==
  CASE c1 \in {"+", "-"} -> IF c2 \in {"+", "-", ")", "="} THEN ">" ELSE "<"
    [] c1 = "*" -> IF c2 \in {"*", "+", "-", ")", "="} THEN ">" ELSE "<"
    [] c1 = "(" -> IF c2 = ")" THEN "=" ELSE "<"
    [] c1 = "#" -> IF c2 = "=" THEN "=" ELSE "<"

compute(x, c, y) ==
  CASE c = "+" -> x + y [] c = "-" -> x - y [] c = "*" -> x * y

Token(op) == [op |-> op]
Number(n) == [op |-> "number", n |-> n]

(* The loop of main(): "pending" is the number in val[] that has not been  *)
(* pushed yet (loop = 1), if any.  An "=" that meets "#" ends the loop     *)
(* before the pending number is pushed.  The result is the top of the      *)
(* value stack, or nothing if that is empty.                               *)
RECURSIVE Calculate(_, _, _, _)
Calculate(str, sop, sval, pending) ==
  LET c == Head(str)
      vals == sval \o pending
      n == Len(vals)
  IN  IF c.op = "=" /\ Last(sop) = "#" THEN (IF sval = <<>> THEN <<>> ELSE <<Last(sval)>>)
      ELSE IF c.op = "number" THEN Calculate(Tail(str), sop, sval, <<c.n>>)
      ELSE CASE compare(Last(sop), c.op) = "<" -> Calculate(Tail(str), Append(sop, c.op), vals, <<>>)
             [] compare(Last(sop), c.op) = "=" -> Calculate(Tail(str), Front(sop), vals, <<>>)
             [] compare(Last(sop), c.op) = ">" ->
                  Calculate(str, Front(sop),
                            Append(SubSeq(vals, 1, n - 2), compute(vals[n - 1], Last(sop), vals[n])), <<>>)

calculate(str) == Calculate(str, <<"#">>, <<>>, <<>>)

-----------------------------------------------------------------------------
(* filter_prime.c: multiples are struck out from i * i on, for i * i < n,  *)
(* unless i * i itself has been struck out.                                *)

countPrimes(n) ==
  LET strike(dp, i) ==
        IF i * i \in dp THEN dp \ {j \in (i * i)..(n - 1) : (j - i * i) % i = 0} ELSE dp
      rounds == Cardinality({i \in 2..(n - 1) : i * i < n})
  IN  IF n < 3 THEN 0
      ELSE Cardinality(FoldLeft(strike, 2..(n - 1), [k \in 1..rounds |-> k + 1]))

-----------------------------------------------------------------------------
(* happynumber_to_cycle_quetion.c *)

RECURSIVE getsq(_)
getsq(n) == IF n = 0 THEN 0 ELSE (n % 10) * (n % 10) + getsq(n \div 10)

(* With a list of the values met so far. *)
RECURSIVE HappyByList(_, _)
HappyByList(n, met) ==
  IF n = 1 THEN TRUE
  ELSE LET s == getsq(n) IN IF s \in met THEN FALSE ELSE HappyByList(s, met \cup {s})

(* With a slow and a fast runner. *)
RECURSIVE HappyByCycle(_, _)
HappyByCycle(slow, fast) ==
  LET s == getsq(slow)
      f == getsq(getsq(fast))
  IN  IF s = f THEN f = 1 ELSE HappyByCycle(s, f)

isHappy(n) == [list |-> HappyByList(n, {}), cycle |-> HappyByCycle(n, n)]

-----------------------------------------------------------------------------
(* convet_integer.c: letters are 0..25 here, the last one first until      *)
(* revers() turns them round.                                              *)

revers(s) == [i \in DOMAIN s |-> s[Len(s) + 1 - i]]

RECURSIVE Letters(_)
Letters(n) == IF n = 0 THEN <<>> ELSE <<(n - 1) % 26>> \o Letters((n - 1) \div 26)

convertToTitle(n) == revers(Letters(n))

-----------------------------------------------------------------------------
(* Expressions with up to three operators, as trees. *)
Leaves == {<<n>> : n \in Operands}
Joined(L, R) == {<<l, c, r>> : l \in L, c \in Operators, r \in R}
One == Joined(Leaves, Leaves)
Two == Joined(One, Leaves) \cup Joined(Leaves, One)
Expressions == Leaves \cup One \cup Two \cup Joined(One, One)

RECURSIVE Value(_)
Value(e) == IF Len(e) = 1 THEN e[1] ELSE compute(Value(e[1]), e[2], Value(e[3]))

Rank(e) == IF Len(e) = 1 THEN 3 ELSE IF e[2] = "*" THEN 2 ELSE 1

(* An expression written with the parentheses it needs. *)
RECURSIVE Written(_)
Written(e) ==
  LET Side(s, needed) ==
        IF Rank(s) >= needed THEN Written(s)
        ELSE <<Token("(")>> \o Written(s) \o <<Token(")")>>
  IN  IF Len(e) = 1 THEN <<Number(e[1])>>
      ELSE Side(e[1], Rank(e)) \o <<Token(e[2])>> \o Side(e[3], Rank(e) + 1)

NumberJobs ==
  [kind : {"calculate"}, e : Expressions]
    \cup [kind : {"number"}, n : Numbers]

Evaluate == Call("calculate", calculate(Written(job.e) \o <<Token("=")>>))

CountAndConvert ==
  Call("number", [primes |-> countPrimes(job.n), happy |-> isHappy(job.n),
                  title |-> convertToTitle(job.n)])

NumberNext == Evaluate \/ CountAndConvert

-----------------------------------------------------------------------------
(* The calculator computes the value of every expression, whatever its     *)
(* precedences and parentheses; only a number on its own is never pushed,  *)
(* and the program prints what lies below the stack.                       *)
CalculatorRight ==
  Returned("calculate") =>
    out[1] = IF Len(job.e) = 1 THEN <<>> ELSE <<Value(job.e)>>

(* Starting at i * i, and skipping an i whose square is struck out, misses *)
(* no composite number and strikes out no prime.                           *)
PrimesCounted ==
  Returned("number") =>
    out[1].primes = Cardinality({p \in 2..(job.n - 1) : \A d \in 2..(p - 1) : p % d # 0})

(* The two ways to notice the cycle agree, and TRUE means that 1 is        *)
(* reached: no other number maps to itself on the way.                     *)
HappyAgree ==
  Returned("number") => out[1].happy.list = out[1].happy.cycle

(* Titles are a numbering in base 26 without a zero: a title consists of   *)
(* letters only, and reading it back gives the number.                     *)
TitleReadsBack ==
  Returned("number") =>
    LET title == out[1].title
    IN  /\ Range(title) \subseteq 0..25
        /\ FoldLeft(LAMBDA s, c : s * 26 + c + 1, 0, title) = job.n

(* The calculator, the sieve, both happy-number tests and the column       *)
(* titles return what their definitions say.                               *)
NumbersRight == CalculatorRight /\ PrimesCounted /\ HappyAgree /\ TitleReadsBack
=============================================================================
