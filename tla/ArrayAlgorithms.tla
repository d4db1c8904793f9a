-------------------------- MODULE ArrayAlgorithms --------------------------
(***************************************************************************)
(* The exercises on arrays: the sorts of sort/, linklist/insert_sort_color.c, *)
(* linklist/merge_sort_array.c, the Fenwick tree of tree_form_array.c and  *)
(* the hash table of hashnode.c.  An array is a function on 0..n-1; a for  *)
(* loop is a fold over the values of its variable.                         *)
(***************************************************************************)
EXTENDS Integers, Sequences, FiniteSets, FiniteSetsExt, SequencesExt, Jobs

CONSTANTS
  MaxLength,    \* the longest array that is tried
  TempSize      \* the size of temp[] in merge_two and merger_two

Size(a) == Cardinality(DOMAIN a)

Up(first, last) == [k \in 1..(last - first + 1) |-> first + k - 1]
Down(first, last) == [k \in 1..(first - last + 1) |-> first - k + 1]

-----------------------------------------------------------------------------
(* sort/quick_sort.c *)

exch(a, i, j) == [a EXCEPT ![i] = a[j], ![j] = a[i]]
compexch(a, i, j) == IF a[j] < a[i] THEN exch(a, i, j) ELSE a

sort(a, low, high) ==
  FoldLeft(LAMBDA b, i : FoldLeft(LAMBDA c, j : compexch(c, j - 1, j), b, Down(i, low + 1)),
           a, Up(low + 1, high))

(* The inner loop runs to j >= 0, not to j >= low. *)
RECURSIVE ShiftAndPut(_, _, _)
ShiftAndPut(a, j, t) ==
  IF j >= 0 /\ t < a[j] THEN ShiftAndPut([a EXCEPT ![j + 1] = a[j]], j - 1, t)
  ELSE [a EXCEPT ![j + 1] = t]

insert_sort(a, low, high) ==
  FoldLeft(LAMBDA b, i : ShiftAndPut(b, i - 1, b[i]), a, Up(low + 1, high))

select_sort(a, low, high) ==
  FoldLeft(LAMBDA b, i :
             exch(b, i, Min({k \in i..high : \A m \in i..high : b[k] <= b[m]})),
           a, Up(low, high - 1))

bubbler_sort(a, low, high) ==
  FoldLeft(LAMBDA b, i : FoldLeft(LAMBDA c, j : compexch(c, j - 1, j), b, Down(high, i + 1)),
           a, Up(low, high - 1))

(* One round moves high down to an element below the pivot, and then low   *)
(* up to one above it.                                                     *)
RECURSIVE Partition(_, _, _, _)
Partition(a, low, high, pivot) ==
  IF low < high
  THEN LET h == Max({low} \cup {k \in low..high : a[k] < pivot})
           b == [a EXCEPT ![low] = a[h]]
           l == Min({h} \cup {k \in low..h : b[k] > pivot})
       IN  Partition([b EXCEPT ![h] = b[l]], l, h, pivot)
  ELSE [array |-> [a EXCEPT ![low] = pivot], pos |-> low]

(* The left half includes the pivot: a range whose largest element comes   *)
(* first is partitioned at its end and sorted again as a whole.            *)
RECURSIVE quick_sort(_, _, _)
quick_sort(a, low, high) ==
  IF low < high
  THEN LET p == Partition(a, low, high, a[low])
       IN  quick_sort(quick_sort(p.array, low, p.pos), p.pos + 1, high)
  ELSE a

(* sort/quick_merge_sort.c and sort/quick_sort_merge_sort.c.  k is the next *)
(* place to fill; a tie takes the element of the right half.               *)
RECURSIVE FillFrom(_, _, _, _, _, _, _)
FillFrom(a, temp, i, j, k, mid, right) ==
  IF k > right THEN a
  ELSE IF i <= mid /\ (j > right \/ temp[i] < temp[j])
       THEN FillFrom([a EXCEPT ![k] = temp[i]], temp, i + 1, j, k + 1, mid, right)
       ELSE FillFrom([a EXCEPT ![k] = temp[j]], temp, i, j + 1, k + 1, mid, right)

merge_two(a, left, mid, right) == FillFrom(a, a, left, mid + 1, left, mid, right)

RECURSIVE merge_sort(_, _, _)
merge_sort(a, left, right) ==
  IF left < right
  THEN LET mid == (left + right) \div 2
       IN  merge_two(merge_sort(merge_sort(a, left, mid), mid + 1, right), left, mid, right)
  ELSE a

(* Both merge sorts index temp[] like a[], so an array longer than temp[]  *)
(* is written past its end.                                                *)
MergeSorted(a) ==
  IF Size(a) > TempSize THEN {} ELSE {merge_sort(a, 0, Size(a) - 1)}

-----------------------------------------------------------------------------
(* linklist/insert_sort_color.c: three regions grow at the front, and each *)
(* write pushes the larger ones up by one.                                 *)

sortColors(a) ==
  FoldLeft(LAMBDA s, i :
             LET c == s.nums[i]
                 two == [s.nums EXCEPT ![s.n2] = 2]
                 one == IF c <= 1 THEN [two EXCEPT ![s.n1] = 1] ELSE two
                 zero == IF c = 0 THEN [one EXCEPT ![s.n0] = 0] ELSE one
             IN  [nums |-> zero, n2 |-> s.n2 + 1,
                  n1 |-> IF c <= 1 THEN s.n1 + 1 ELSE s.n1,
                  n0 |-> IF c = 0 THEN s.n0 + 1 ELSE s.n0],
           [nums |-> a, n0 |-> 0, n1 |-> 0, n2 |-> 0],
           Up(0, Size(a) - 1)).nums

(* linklist/merge_sort_array.c: A has room for m + n elements and is       *)
(* filled from the end.                                                    *)
RECURSIVE MergeInto(_, _, _, _)
MergeInto(A, i, B, j) ==
  IF j < 0 THEN A
  ELSE IF i >= 0 /\ A[i] > B[j] THEN MergeInto([A EXCEPT ![i + j + 1] = A[i]], i - 1, B, j)
       ELSE MergeInto([A EXCEPT ![i + j + 1] = B[j]], i, B, j - 1)

merge(A, m, B, n) == MergeInto(A, m - 1, B, n - 1)

-----------------------------------------------------------------------------
(* tree_form_array.c: nums and sums are indexed from 1. *)

lowbit(n) == Max({b \in {2^k : k \in 0..n} : n % b = 0})

SumOver(f, S) == FoldSet(LAMBDA i, s : s + f[i], 0, S)

NumArrayCreate(a) ==
  LET nums == [i \in 1..Size(a) |-> a[i - 1]]
  IN  [nums |-> nums,
       sums |-> [i \in 1..Size(a) |-> SumOver(nums, (i - lowbit(i) + 1)..i)]]

(* The cells j, j + lowbit(j), ... that cover position j, and the cells    *)
(* j, j - lowbit(j), ... that make up the sum of 1..j.                     *)
RECURSIVE Covering(_, _)
Covering(j, size) == IF j > size THEN {} ELSE {j} \cup Covering(j + lowbit(j), size)

RECURSIVE Prefix(_)
Prefix(j) == IF j < 1 THEN {} ELSE {j} \cup Prefix(j - lowbit(j))

update(na, i, val) ==
  LET p == i + 1
      diff == val - na.nums[p]
      hit == Covering(p, Size(na.nums))
  IN  [nums |-> [na.nums EXCEPT ![p] = val],
       sums |-> [j \in DOMAIN na.sums |-> IF j \in hit THEN na.sums[j] + diff ELSE na.sums[j]]]

sumRange(na, i, j) ==
  SumOver(na.sums, Prefix(j + 1)) - SumOver(na.sums, Prefix(i + 1)) + na.nums[i + 1]

-----------------------------------------------------------------------------
(* hashnode.c: numsSize / 2 chains; the index is |val % size| with C's     *)
(* truncating division.                                                    *)

Bucket(v, size) == (IF v < 0 THEN -v ELSE v) % size

(* insertnode() over the array up to the first value that is in its chain. *)
containsDuplicate(a) ==
  LET size == Size(a) \div 2
      insertnode(h, v) ==
        IF h.found \/ v \in h.table[Bucket(v, size)] THEN [h EXCEPT !.found = TRUE]
        ELSE [h EXCEPT !.table[Bucket(v, size)] = @ \cup {v}]
  IN  Size(a) > 1 /\
      FoldLeft(insertnode, [found |-> FALSE, table |-> [b \in 0..(size - 1) |-> {}]],
               [k \in 1..Size(a) |-> a[k - 1]]).found

-----------------------------------------------------------------------------
(* The calls that are tried: all arrays up to the bound over 0..2, halves  *)
(* that are sorted for merge(), two updates of a Fenwick tree.             *)

Arrays(n, V) == [0..(n - 1) -> V]
Ascending(a) == \A i, j \in DOMAIN a : i < j => a[i] <= a[j]

ArrayJobs ==
  UNION {[kind : {"sort"}, a : Arrays(n, 0..2)] : n \in 0..MaxLength}
    \cup UNION {[kind : {"merge"}, a : Arrays(m + n, 0..2), m : {m}] : m \in 0..2, n \in 0..2}
    \cup UNION {[kind : {"fenwick"}, a : Arrays(n, {0, 3}), i : 0..(n - 1), j : 0..(n - 1), v : {1, 5}] :
                  n \in 1..MaxLength}
    \cup UNION {[kind : {"duplicate"}, a : Arrays(n, -2..2)] : n \in 0..4}

SortArray ==
  LET a == job.a
      last == Size(a) - 1
  IN  Call("sort", [sort |-> sort(a, 0, last), insert |-> insert_sort(a, 0, last),
                    select |-> select_sort(a, 0, last), bubble |-> bubbler_sort(a, 0, last),
                    quick |-> quick_sort(a, 0, last), colors |-> sortColors(a),
                    merged |-> MergeSorted(a)])

(* The first m elements and the rest, each sorted, are the arguments. *)
MergeArrays ==
  LET m == job.m
      n == Size(job.a) - m
      A == [k \in 0..(m + n - 1) |-> IF k < m THEN merge_sort([i \in 0..(m - 1) |-> job.a[i]], 0, m - 1)[k] ELSE 0]
      B == merge_sort([i \in 0..(n - 1) |-> job.a[m + i]], 0, n - 1)
  IN  Call("merge", merge(A, m, B, n))

UpdateTree ==
  Call("fenwick", update(update(NumArrayCreate(job.a), job.i, job.v), job.j, job.v + 1))

FindDuplicate == Call("duplicate", containsDuplicate(job.a))

ArrayNext == SortArray \/ MergeArrays \/ UpdateTree \/ FindDuplicate

-----------------------------------------------------------------------------
(* b is a rearrangement of a in ascending order. *)
IsSortedVersion(a, b) ==
  /\ DOMAIN b = DOMAIN a
  /\ Ascending(b)
  /\ \A v \in 0..2 : Cardinality({i \in DOMAIN a : a[i] = v}) = Cardinality({i \in DOMAIN b : b[i] = v})

(* Every sort returns the sorted array, quick_sort although it recurses on *)
(* a range that includes the pivot, and the merge sorts as long as the     *)
(* array fits in temp[].                                                   *)
SortsSort ==
  Returned("sort") =>
    LET r == out[1]
    IN  /\ \A f \in {"sort", "insert", "select", "bubble", "quick", "colors"} : IsSortedVersion(job.a, r[f])
        /\ \A b \in r.merged : IsSortedVersion(job.a, b)
        /\ r.merged = {} <=> Size(job.a) > TempSize

(* merge() overwrites the unread part of its own first argument from the   *)
(* end and still loses no element.                                         *)
MergeKeepsAll == Returned("merge") => IsSortedVersion(job.a, out[1])

(* After updates every range of the Fenwick tree still has the sum of its  *)
(* elements.                                                               *)
RangeSumsRight ==
  Returned("fenwick") =>
    \A i, j \in 0..(Size(job.a) - 1) :
      i <= j => sumRange(out[1], i, j) = SumOver(out[1].nums, (i + 1)..(j + 1))

(* A duplicate is found wherever its values fall in the chains, negative   *)
(* ones included.                                                          *)
DuplicateFound ==
  Returned("duplicate") =>
    (out[1] <=> \E i, j \in DOMAIN job.a : i # j /\ job.a[i] = job.a[j])

(* The sorts, the in-place merge, the Fenwick tree and the duplicate       *)
(* search return what their definitions say.                               *)
ArraysRight == SortsSort /\ MergeKeepsAll /\ RangeSumsRight /\ DuplicateFound
=============================================================================
