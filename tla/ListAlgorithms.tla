--------------------------- MODULE ListAlgorithms ---------------------------
(***************************************************************************)
(* The exercises on singly linked lists of linklist/, sort/partion_list.c  *)
(* and swap_node_in_pairs.c, on the pointers they change.                  *)
(*                                                                         *)
(* Nodes are 1..n and 0 is NULL; D and E are the dummy nodes on the stack, *)
(* whose next field has no value until it is assigned.  "next" maps a node *)
(* to its successor; a result is the new next and the head that the code   *)
(* returns.  The values never change, so they are an argument.             *)
(***************************************************************************)
EXTENDS Integers, Sequences, FiniteSets, FiniteSetsExt, SequencesExt, Functions, Jobs

CONSTANT MaxNodes    \* the longest list that is tried

D == -1
E == -2
Garbage == -3

(* The list 1, 2, ..., n. *)
Linked(n) ==
  [p \in (1..n) \cup {D, E} |-> IF p < 0 THEN Garbage ELSE IF p = n THEN 0 ELSE p + 1]

First(n) == IF n = 0 THEN 0 ELSE 1

Result(next, head) == [next |-> next, head |-> head]

(* A function that returns dummy.next. *)
AfterDummy(next) == Result(next, next[D])

(* k times p = p->next. *)
RECURSIVE Forth(_, _, _)
Forth(next, p, k) == IF k = 0 THEN p ELSE Forth(next, next[p], k - 1)

(* The same, but not past NULL. *)
RECURSIVE ForthToEnd(_, _, _)
ForthToEnd(next, p, k) == IF k = 0 \/ p = 0 THEN p ELSE ForthToEnd(next, next[p], k - 1)

-----------------------------------------------------------------------------
(* reverslinklist.c, reverslinklist_K_group.c, reverselist.c *)

RECURSIVE ReverseOnto(_, _, _)
ReverseOnto(next, h, done) ==
  IF h = 0 THEN Result(next, done) ELSE ReverseOnto([next EXCEPT ![h] = done], next[h], h)

reverse(next, h) == ReverseOnto(next, h, 0)

Short(next, head) == head = 0 \/ next[head] = 0

(* The part between prep and nextq is cut out, reversed and put back. *)
ReversePart(next, prep, q) ==
  LET p == next[prep]
      r == reverse([next EXCEPT ![q] = 0], p)
  IN  [r.next EXCEPT ![prep] = r.head, ![p] = next[q]]

reverseBetween(next, head, m, n) ==
  LET start == [next EXCEPT ![D] = head]
  IN  IF m = n \/ Short(next, head) THEN Result(next, head)
      ELSE AfterDummy(ReversePart(start, Forth(start, D, m - 1), Forth(start, D, n)))

RECURSIVE ReverseGroups(_, _, _)
ReverseGroups(next, p, k) ==
  LET q == ForthToEnd(next, next[p], k - 1)
  IN  IF next[p] = 0 \/ q = 0 THEN next
      ELSE ReverseGroups(ReversePart(next, p, q), next[p], k)

reverseKGroup(next, head, k) ==
  IF Short(next, head) THEN Result(next, head)
  ELSE AfterDummy(ReverseGroups([next EXCEPT ![D] = head], D, k))

reverseTwo(next, head, m, n) ==
  LET start == [next EXCEPT ![D] = head]
      prep == Forth(start, D, m - 1)
      preq == Forth(start, D, n - 1)
      p == start[prep]
      q == start[preq]
      out_q == [start EXCEPT ![preq] = start[q]]
      in_q == [[out_q EXCEPT ![q] = out_q[p]] EXCEPT ![prep] = q]
  IN  IF m = n \/ Short(next, head) THEN Result(next, head)
      ELSE IF start[p] = q THEN AfterDummy([start EXCEPT ![p] = start[q], ![q] = p, ![prep] = q])
      ELSE AfterDummy([[in_q EXCEPT ![p] = in_q[preq]] EXCEPT ![preq] = p])

-----------------------------------------------------------------------------
(* swap_node_in_pairs.c: with a prev pointer, and with a dummy node. *)

RECURSIVE SwapWithPrev(_, _, _, _)
SwapWithPrev(next, p, prev, h) ==
  IF p = 0 \/ next[p] = 0 THEN Result(next, h)
  ELSE LET q == next[p]
           r == next[q]
           pair == [next EXCEPT ![p] = r, ![q] = p]
       IN  SwapWithPrev(IF prev # 0 THEN [pair EXCEPT ![prev] = q] ELSE pair, r, p,
                        IF h = 0 THEN q ELSE h)

RECURSIVE SwapWithDummy(_, _)
SwapWithDummy(next, p) ==
  LET a == next[p]
      b == next[a]
  IN  IF a = 0 \/ b = 0 THEN next
      ELSE SwapWithDummy([next EXCEPT ![a] = next[b], ![b] = a, ![p] = b], a)

swapPairs(next, head) ==
  IF Short(next, head) THEN <<Result(next, head), Result(next, head)>>
  ELSE <<SwapWithPrev(next, head, 0, 0), AfterDummy(SwapWithDummy([next EXCEPT ![D] = head], D))>>

-----------------------------------------------------------------------------
(* sort/partion_list.c, first version: the next node below x behind prep   *)
(* is moved to it.                                                         *)

(* while(p->next is in S) p=p->next; *)
RECURSIVE Skip(_, _, _)
Skip(next, p, S) == IF next[p] \in S THEN Skip(next, next[p], S) ELSE p

Below(val, x) == {p \in DOMAIN val : val[p] < x}

RECURSIVE MoveSmaller(_, _, _, _)
MoveSmaller(next, prep0, val, x) ==
  LET prep == Skip(next, prep0, Below(val, x))
      preq == Skip(next, prep, DOMAIN val \ Below(val, x))
      q == next[preq]
      out_q == [next EXCEPT ![preq] = next[q]]
  IN  IF next[prep0] = 0 \/ q = 0 THEN next
      ELSE MoveSmaller([[out_q EXCEPT ![q] = out_q[prep]] EXCEPT ![prep] = q], q, val, x)

(* Mutant: the last node of the second list keeps its old successor. *)
RECURSIVE DealUncut(_, _, _, _, _, _)
DealUncut(next, head, p1, p2, val, x) ==
  IF head = 0 THEN (IF next[E] = Garbage THEN AfterDummy([next EXCEPT ![p1] = 0]) ELSE AfterDummy([next EXCEPT ![p1] = next[E]]))
  ELSE IF val[head] < x THEN DealUncut([next EXCEPT ![p1] = head], next[head], head, p2, val, x)
  ELSE DealUncut([next EXCEPT ![p2] = head], next[head], p1, head, val, x)

(* Second version: two lists are built in one pass and joined. *)
RECURSIVE Deal(_, _, _, _, _, _)
Deal(next, head, p1, p2, val, x) ==
  IF head = 0
  THEN LET cut == [next EXCEPT ![p2] = 0] IN AfterDummy([cut EXCEPT ![p1] = cut[E]])
  ELSE IF val[head] < x THEN Deal([next EXCEPT ![p1] = head], next[head], head, p2, val, x)
  ELSE Deal([next EXCEPT ![p2] = head], next[head], p1, head, val, x)

partition(next, head, val, x) ==
  IF Short(next, head) THEN <<Result(next, head), Result(next, head)>>
  ELSE <<AfterDummy(MoveSmaller([next EXCEPT ![D] = head], D, val, x)),
         Deal(next, head, D, E, val, x)>>

-----------------------------------------------------------------------------
(* insert_sort_list.c, first version: nodes are taken off the list and put *)
(* before the first one that is not smaller, which may be the head.        *)

insertnode(next, head, i, val) ==
  LET pre == Skip([next EXCEPT ![D] = head], D, Below(val, val[i]))
  IN  IF pre = D THEN Result([next EXCEPT ![i] = head], i)
      ELSE Result([next EXCEPT ![i] = next[pre], ![pre] = i], head)

RECURSIVE InsertNodes(_, _, _, _)
InsertNodes(next, head, p, val) ==
  IF p = 0 THEN Result(next, head)
  ELSE LET r == insertnode([next EXCEPT ![p] = 0], head, p, val)
       IN  InsertNodes(r.next, r.head, next[p], val)

(* Second version, and linksort.c, which inserts behind equal values: the  *)
(* sorted list grows behind a dummy.  stay[i] are the nodes that stay      *)
(* before i.                                                               *)
RECURSIVE InsertBehind(_, _, _)
InsertBehind(next, cur, stay) ==
  IF cur = 0 THEN AfterDummy(next)
  ELSE LET pre == Skip(next, D, stay[cur])
       IN  InsertBehind([next EXCEPT ![cur] = next[pre], ![pre] = cur], next[cur], stay)

insertionSortList(next, head, val) ==
  IF Short(next, head) THEN <<Result(next, head), Result(next, head)>>
  ELSE <<InsertNodes([next EXCEPT ![head] = 0], head, next[head], val),
         InsertBehind([next EXCEPT ![D] = 0], head, [i \in DOMAIN val |-> Below(val, val[i])])>>

sortlist(next, head, val) ==
  InsertBehind([next EXCEPT ![D] = 0], head, [i \in DOMAIN val |-> Below(val, val[i] + 1)])

(* merge_sort_list.c and mergeklist.c merge behind a dummy.  On a tie the  *)
(* first takes the node of the left list and the second that of the right: *)
(* "left" are the pairs for which the left node goes first.                *)
RECURSIVE MergeOnto(_, _, _, _, _)
MergeOnto(next, r, p, q, left) ==
  IF p = 0 \/ q = 0 THEN [next EXCEPT ![r] = IF p # 0 THEN p ELSE q]
  ELSE LET u == IF <<p, q>> \in left THEN p ELSE q
       IN  MergeOnto([next EXCEPT ![r] = u, ![u] = 0], u,
                     IF u = p THEN next[p] ELSE p, IF u = q THEN next[q] ELSE q, left)

mergelist(next, a, b, val) ==
  AfterDummy(MergeOnto(next, D, a, b, {e \in (DOMAIN val) \X (DOMAIN val) : val[e[1]] < val[e[2]]}))

mergeList(next, p, q, val) ==
  AfterDummy(MergeOnto(next, D, p, q, {e \in (DOMAIN val) \X (DOMAIN val) : val[e[1]] <= val[e[2]]}))

(* The slow pointer when the fast one, twice as fast, is at the end. *)
RECURSIVE Middle(_, _, _)
Middle(next, slow, fast) ==
  IF next[fast] = 0 \/ next[next[fast]] = 0 THEN slow
  ELSE Middle(next, next[slow], next[next[fast]])

RECURSIVE sortList(_, _, _)
sortList(next, head, val) ==
  IF Short(next, head) THEN Result(next, head)
  ELSE LET mid == Middle(next, head, head)
           left == sortList([next EXCEPT ![mid] = 0], head, val)
           right == sortList(left.next, next[mid], val)
       IN  mergeList(right.next, left.head, right.head, val)

RECURSIVE mergeKLists(_, _, _)
mergeKLists(next, heads, val) ==
  LET size == Len(heads)
      left == mergeKLists(next, SubSeq(heads, 1, size \div 2), val)
      right == mergeKLists(left.next, SubSeq(heads, size \div 2 + 1, size), val)
  IN  IF size < 1 THEN Result(next, 0)
      ELSE IF size = 1 THEN Result(next, heads[1])
      ELSE mergelist(right.next, left.head, right.head, val)

-----------------------------------------------------------------------------
(* addtwonumbers.c: digits, the lowest first; a new node per digit. *)

RECURSIVE AddDigits(_, _, _)
AddDigits(p, q, carry) ==
  LET Digit(s) == IF s = <<>> THEN 0 ELSE Head(s)
      Rest(s) == IF s = <<>> THEN <<>> ELSE Tail(s)
      sum == Digit(p) + Digit(q) + carry
  IN  IF p = <<>> /\ q = <<>> THEN (IF carry = 0 THEN <<>> ELSE <<carry>>)
      ELSE <<sum % 10>> \o AddDigits(Rest(p), Rest(q), sum \div 10)

addTwoNumbers(l1, l2) ==
  IF l1 = <<>> \/ l2 = <<>> THEN (IF l1 = <<>> THEN l2 ELSE l1) ELSE AddDigits(l1, l2, 0)

-----------------------------------------------------------------------------
(* copyrandomlist.c: the copy of node p is node p + n, linked in behind p  *)
(* until every random pointer is set.                                      *)

CopyBehind(s, p) == [s EXCEPT !.next[p + s.n] = s.next[p], !.next[p] = p + s.n]

SetRandom(s, p) ==
  IF s.random[p] = 0 THEN s ELSE [s EXCEPT !.random[s.next[p]] = s.next[s.random[p]]]

(* i = p->next goes behind r in the copy and out of the original. *)
Extract(s, p) ==
  LET i == s.next[p] IN [[s EXCEPT !.next[s.r] = i] EXCEPT !.next[p] = s.next[i], !.r = i]

copyRandomList(n, random) ==
  LET order == [k \in 1..n |-> k]
      start == [n |-> n, r |-> D,
                next |-> [p \in (1..(2 * n)) \cup {D} |-> IF p < n /\ p > 0 THEN p + 1 ELSE 0],
                random |-> [p \in 1..(2 * n) |-> IF p <= n THEN random[p] ELSE 0]]
  IN  FoldLeft(Extract, FoldLeft(SetRandom, FoldLeft(CopyBehind, start, order), order), order)

-----------------------------------------------------------------------------
(* The calls that are tried.  "twist" takes two positions and a group      *)
(* size, "sortlist" a list that is also cut into k lists for mergeKLists.  *)

Vals(n) == [1..n -> 0..2]

ListJobs ==
  UNION {[kind : {"twist"}, n : {n}, i : 1..n, j : 1..n, k : 1..(n + 1)] : n \in 1..MaxNodes}
    \cup UNION {[kind : {"partition"}, val : Vals(n), x : 0..3] : n \in 0..MaxNodes}
    \cup UNION {[kind : {"sortlist"}, val : Vals(n), k : 1..3] : n \in 0..MaxNodes}
    \cup [kind : {"add"}, p : SeqOf({0, 9, 5}, 3), q : SeqOf({0, 9, 5}, 2)]
    \cup UNION {[kind : {"copy"}, n : {n}, random : [1..n -> 0..n]] : n \in 0..(MaxNodes - 1)}

Twist ==
  LET next == Linked(job.n)
  IN  Call("twist", [reverse |-> reverse(next, 1),
                     between |-> IF job.i <= job.j THEN reverseBetween(next, 1, job.i, job.j) ELSE Result(next, 1),
                     two |-> reverseTwo(next, 1, job.i, job.j),
                     group |-> reverseKGroup(next, 1, job.k),
                     pairs |-> swapPairs(next, 1)])

SplitAtX ==
  LET n == Len(job.val) IN Call("partition", partition(Linked(n), First(n), job.val, job.x))

(* For mergeKLists node p is in list p % k, and each list is sorted first. *)
Strand(val, k, i) ==
  LET mine == {p \in DOMAIN val : p % k = i}
  IN  SetToSortSeq(mine, LAMBDA p, q : val[p] < val[q] \/ (val[p] = val[q] /\ p < q))

Strands(val, k) ==
  LET strand == [i \in 0..(k - 1) |-> Strand(val, k, i)]
      After(p) == LET s == strand[p % k]
                      at == CHOOSE i \in DOMAIN s : s[i] = p
                  IN  IF at = Len(s) THEN 0 ELSE s[at + 1]
  IN  [next |-> [p \in DOMAIN val \cup {D} |-> IF p = D THEN 0 ELSE After(p)],
       heads |-> [i \in 1..k |-> IF strand[i - 1] = <<>> THEN 0 ELSE strand[i - 1][1]]]

SortList ==
  LET n == Len(job.val)
      next == Linked(n)
      strands == Strands(job.val, job.k)
  IN  Call("sortlist", [insertion |-> insertionSortList(next, First(n), job.val),
                        linksort |-> sortlist(next, First(n), job.val),
                        merge |-> sortList(next, First(n), job.val),
                        lists |-> mergeKLists(strands.next, strands.heads, job.val)])

AddNumbers == Call("add", addTwoNumbers(job.p, job.q))

CopyList == Call("copy", copyRandomList(job.n, job.random))

ListNext == Twist \/ SplitAtX \/ SortList \/ AddNumbers \/ CopyList

-----------------------------------------------------------------------------
(* The nodes a result reaches, one more than there are if it never ends. *)
RECURSIVE ChainFrom(_, _, _)
ChainFrom(next, p, bound) ==
  IF p = 0 \/ bound = 0 THEN <<>> ELSE <<p>> \o ChainFrom(next, next[p], bound - 1)

Chain(r, n) == ChainFrom(r.next, r.head, n + 1)

Straight(n) == [i \in 1..n |-> i]

(* The list with its blocks of k reversed, an incomplete one left alone. *)
Blocks(n, k) ==
  [i \in 1..n |-> LET first == ((i - 1) \div k) * k + 1
                  IN  IF first + k - 1 <= n THEN first + (first + k - 1) - i ELSE i]

Swapped(n, i, j) == [p \in 1..n |-> IF p = i THEN j ELSE IF p = j THEN i ELSE p]

(* Reversing all, a part or groups, and swapping pairs or two nodes moves  *)
(* the nodes where they belong, with no node lost and no cycle.  The one   *)
(* exception is reverseTwo when the second position is the one before the  *)
(* first, where the node is linked to itself.                              *)
TwistsRight ==
  Returned("twist") =>
    LET r == out[1]
        n == job.n
        i == job.i
        j == job.j
    IN  /\ Chain(r.reverse, n) = Reverse(Straight(n))
        /\ Chain(r.between, n) = [p \in 1..n |-> IF i <= p /\ p <= j THEN i + j - p ELSE p]
        /\ Chain(r.group, n) = Blocks(n, job.k)
        /\ \A v \in {1, 2} : Chain(r.pairs[v], n) = Blocks(n, 2)
        /\ (i # j + 1) <=> Chain(r.two, n) = Swapped(n, i, j)

(* Both versions of partition put the nodes below x first and keep the     *)
(* order on each side.                                                     *)
PartitionStable ==
  Returned("partition") =>
    LET n == Len(job.val)
        small == SelectSeq(Straight(n), LAMBDA p : job.val[p] < job.x)
        large == SelectSeq(Straight(n), LAMBDA p : job.val[p] >= job.x)
    IN  \A v \in {1, 2} : Chain(out[1][v], n) = small \o large

(* The list sorts lose no node.  linksort and the merge sort are stable,   *)
(* the insertion sorts of insert_sort_list.c reverse equal values.         *)
ListsSorted ==
  Returned("sortlist") =>
    LET n == Len(job.val)
        val == job.val
        r == out[1]
        Stable == SetToSortSeq(1..n, LAMBDA p, q : val[p] < val[q] \/ (val[p] = val[q] /\ p < q))
        Reversing == SetToSortSeq(1..n, LAMBDA p, q : val[p] < val[q] \/ (val[p] = val[q] /\ p > q))
        merged == Chain(r.lists, n)
    IN  /\ Chain(r.linksort, n) = Stable /\ Chain(r.merge, n) = Stable
        /\ \A v \in {1, 2} : Chain(r.insertion[v], n) = Reversing
        /\ Len(merged) = n /\ Range(merged) = 1..n
        /\ \A i \in 1..(n - 1) : val[merged[i]] <= val[merged[i + 1]]

(* The digits are those of the sum, carries beyond the longer number       *)
(* included.                                                               *)
DigitsAddUp ==
  Returned("add") =>
    LET Number(s) == FoldRight(LAMBDA d, m : 10 * m + d, s, 0)
    IN  Number(out[1]) = Number(job.p) + Number(job.q)

(* The copy has the shape of the original, consists of new nodes only, and *)
(* the original is as it was.                                              *)
CopyIsDeep ==
  Returned("copy") =>
    LET n == job.n
        s == out[1]
        Moved(p) == IF p = 0 THEN 0 ELSE p + n
    IN  /\ \A p \in 1..n : /\ s.next[p] = (IF p = n THEN 0 ELSE p + 1)
                           /\ s.random[p] = job.random[p]
                           /\ s.next[p + n] = Moved(s.next[p])
                           /\ s.random[p + n] = Moved(s.random[p])
        /\ s.next[D] = (IF n = 0 THEN 0 ELSE 1 + n)

(* The functions that relink lists in place lose no node, make no cycle    *)
(* and return the nodes in the order their definitions say.                *)
ListsRight == TwistsRight /\ PartitionStable /\ ListsSorted /\ DigitsAddUp /\ CopyIsDeep
=============================================================================
