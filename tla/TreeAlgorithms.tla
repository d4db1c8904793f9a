--------------------------- MODULE TreeAlgorithms ---------------------------
(***************************************************************************)
(* The exercises on binary trees of binarrytree/ (BST.c is module Bst).    *)
(* A tree is <<>> (NULL, None) or <<val, left, right>>.  The loops with a  *)
(* stack or a queue are recursive operators on it; a recursive function of *)
(* the source is the same function here.                                   *)
(***************************************************************************)
EXTENDS Integers, Sequences, FiniteSets, FiniteSetsExt, SequencesExt, Jobs

CONSTANTS
  MaxTree,      \* the largest tree that is tried
  MaxComplete,  \* the largest complete tree and the longest list
  NodeValues    \* the values of its nodes

Null == <<>>
Val(t) == t[1]
Left(t) == t[2]
Right(t) == t[3]
IsLeaf(t) == Left(t) = Null /\ Right(t) = Null

Pushed(stack, t) == IF t = Null THEN stack ELSE Append(stack, t)

-----------------------------------------------------------------------------
(* preordertravel.c, inorder.c, inorder_traver_binary_tree.c, postorder.c  *)
(* and leveltravel.c; the top of a stack is its last element.              *)

RECURSIVE PreorderLoop(_, _)
PreorderLoop(st, ans) ==
  IF st = <<>> THEN ans
  ELSE LET n == Last(st) IN PreorderLoop(Pushed(Pushed(Front(st), Right(n)), Left(n)), Append(ans, Val(n)))

preordertrave(root) == PreorderLoop(Pushed(<<>>, root), <<>>)

RECURSIVE InorderLoop(_, _, _)
InorderLoop(st, cur, ans) ==
  IF cur # Null THEN InorderLoop(Append(st, cur), Left(cur), ans)
  ELSE IF st # <<>> THEN InorderLoop(Front(st), Right(Last(st)), Append(ans, Val(Last(st))))
  ELSE ans

inordertrave(root) == InorderLoop(<<>>, root, <<>>)

(* The do-while form: push the whole left branch, then pop one; "Goes on"  *)
(* is the condition at the end.  The file keeps the version without p,     *)
(* marked wrong, beside the right one.                                     *)
RECURSIVE LeftBranch(_, _)
LeftBranch(s, p) == IF p = Null THEN s ELSE LeftBranch(Append(s, p), Left(p))

RECURSIVE InorderDoWhile(_, _, _, _)
InorderDoWhile(s0, p, ans, checksP) ==
  LET s == LeftBranch(s0, p)
      n == Last(s)
      longer == Append(ans, Val(n))
  IN  IF Front(s) # <<>> \/ (checksP /\ Right(n) # Null)
      THEN InorderDoWhile(Front(s), Right(n), longer, checksP)
      ELSE longer

RECURSIVE PostorderLoop(_, _)
PostorderLoop(st, temp) ==
  IF st = <<>> THEN Reverse(temp)
  ELSE LET n == Last(st) IN PostorderLoop(Pushed(Pushed(Front(st), Left(n)), Right(n)), Append(temp, Val(n)))

postordertrave(root) == PostorderLoop(Pushed(<<>>, root), <<>>)

(* One pass of the outer loop empties the queue of one level. *)
NextLevel(q) == FoldLeft(LAMBDA s, n : Pushed(Pushed(s, Left(n)), Right(n)), <<>>, q)

RECURSIVE LevelLoop(_)
LevelLoop(q) == IF q = <<>> THEN <<>> ELSE <<[i \in DOMAIN q |-> Val(q[i])]>> \o LevelLoop(NextLevel(q))

leveltrave(root) == LevelLoop(Pushed(<<>>, root))

(* min_height_tree.c: the first level with a leaf. *)
RECURSIVE MindepthLoop(_, _)
MindepthLoop(q, depth) ==
  IF \E i \in DOMAIN q : IsLeaf(q[i]) THEN depth ELSE MindepthLoop(NextLevel(q), depth + 1)

mindepth(root) == IF root = Null THEN 0 ELSE MindepthLoop(<<root>>, 1)

-----------------------------------------------------------------------------
(* mybintree.c: a stack of nodes and a stack of flags (0 nothing visited,  *)
(* 1 left visited, 2 both); at a leaf the stack is the path to it.         *)
RECURSIVE PathLoop(_, _, _)
PathLoop(s, sf, paths) ==
  IF s = <<>> THEN paths
  ELSE LET p == Last(s)
           flag == Last(sf)
       IN  IF Left(p) # Null /\ flag <= 0
           THEN PathLoop(Append(s, Left(p)), Front(sf) \o <<1, 0>>, paths)
           ELSE IF Right(p) # Null /\ flag <= 1
           THEN PathLoop(Append(s, Right(p)), Front(sf) \o <<2, 0>>, paths)
           ELSE PathLoop(Front(s), Front(sf),
                         IF IsLeaf(p) THEN Append(paths, [i \in DOMAIN s |-> Val(s[i])]) ELSE paths)

pathxxx(root) == PathLoop(<<root>>, <<0>>, <<>>)

(* The dfs() of sumpath.py, roottoleafsum.py and listallpathfromroottoleaf.py: *)
(* tmp is the path to the node, visited leaves are reported left to right. *)
RECURSIVE dfs(_, _)
dfs(node, tmp) ==
  LET path == Append(tmp, Val(node))
  IN  IF IsLeaf(node) THEN <<path>>
      ELSE (IF Left(node) = Null THEN <<>> ELSE dfs(Left(node), path))
           \o (IF Right(node) = Null THEN <<>> ELSE dfs(Right(node), path))

Total(s) == FoldLeft(LAMBDA a, b : a + b, 0, s)

pathSum(root, sum) ==
  IF root = Null THEN <<>> ELSE SelectSeq(dfs(root, <<>>), LAMBDA p : Total(p) = sum)

sumNumbers(root) ==
  IF root = Null THEN 0
  ELSE LET paths == dfs(root, <<>>)
       IN  Total([i \in DOMAIN paths |-> FoldLeft(LAMBDA s, item : s * 10 + item, 0, paths[i])])

-----------------------------------------------------------------------------
(* maxpathsum.py: the result is the best path so far and the best path     *)
(* that ends in the node.                                                  *)
Larger(a, b) == IF a > b THEN a ELSE b

RECURSIVE PathHelper(_, _)
PathHelper(root, ans) ==
  IF root = Null THEN [ans |-> ans, single |-> 0]
  ELSE LET l == PathHelper(Left(root), ans)
           r == PathHelper(Right(root), l.ans)
           both == l.single + r.single + Val(root)
           single == Larger(Larger(l.single, r.single) + Val(root), Val(root))
       IN  [ans |-> Larger(r.ans, Larger(both, single)), single |-> single]

maxPathSum(root) == PathHelper(root, -999999).ans

(* lowcommonancestor.py: the paths to p and q, and their last common node. *)
RECURSIVE getpath(_, _)
getpath(node, p) ==
  IF node = Null THEN <<>>
  ELSE IF Val(node) = p THEN <<p>>
  ELSE LET l == getpath(Left(node), p)
           r == getpath(Right(node), p)
       IN  IF l # <<>> THEN <<Val(node)>> \o l ELSE IF r # <<>> THEN <<Val(node)>> \o r ELSE <<>>

lowestCommonAncestor(root, p, q) ==
  LET pathp == getpath(root, p)
      pathq == getpath(root, q)
      shared == {x \in 1..Len(pathp) : x <= Len(pathq) /\ \A y \in 1..x : pathp[y] = pathq[y]}
  IN  pathp[Max(shared)]

-----------------------------------------------------------------------------
(* isbalancetree.c (depthoftree.c has the same maxDepth), symmetry_tree.c  *)
(* and issymmetrictree.py, inverttree.c.                                   *)

RECURSIVE depth(_)
depth(t) == IF t = Null THEN 0 ELSE Larger(depth(Left(t)) + 1, depth(Right(t)) + 1)

RECURSIVE isBalanced(_)
isBalanced(t) ==
  t = Null \/ (/\ depth(Left(t)) - depth(Right(t)) \in -1..1
               /\ isBalanced(Left(t)) /\ isBalanced(Right(t)))

RECURSIVE helper(_, _)
helper(l, r) ==
  IF l = Null /\ r = Null THEN TRUE
  ELSE IF l = Null \/ r = Null THEN FALSE
  ELSE Val(l) = Val(r) /\ helper(Left(l), Right(r)) /\ helper(Right(l), Left(r))

isSymmetric(root) == root = Null \/ helper(Left(root), Right(root))

RECURSIVE invertTree(_)
invertTree(t) == IF t = Null THEN Null ELSE <<Val(t), invertTree(Right(t)), invertTree(Left(t))>>

(* count_fulltree_node.c and countcompletetreenode.py *)
RECURSIVE depthleft(_)
depthleft(r) == IF r = Null THEN 0 ELSE depthleft(Left(r)) + 1

RECURSIVE depthright(_)
depthright(r) == IF r = Null THEN 0 ELSE depthright(Right(r)) + 1

RECURSIVE countNodes(_)
countNodes(root) ==
  IF root = Null THEN 0
  ELSE IF depthleft(Left(root)) = depthright(Right(root)) THEN 2^(depthleft(Left(root)) + 1) - 1
  ELSE 1 + countNodes(Left(root)) + countNodes(Right(root))

(* createbstfromlinklist.c: the slow pointer is the root when the fast one *)
(* has reached the end; prev, the node before it, ends the left half.      *)
RECURSIVE sortedListToBST(_)
sortedListToBST(s) ==
  IF s = <<>> THEN Null
  ELSE LET slow == (Len(s) + 1) \div 2
       IN  <<s[slow], sortedListToBST(SubSeq(s, 1, slow - 1)), sortedListToBST(SubSeq(s, slow + 1, Len(s)))>>

(* pre_in_order_for_tree.c, from in-order and post-order. *)
RECURSIVE create_tree(_, _)
create_tree(in, post) ==
  IF in = <<>> THEN Null
  ELSE LET len == Len(in)
           p == CHOOSE i \in 1..len : in[i] = Last(post) /\ \A j \in 1..(i - 1) : in[j] # Last(post)
       IN  <<Last(post),
             create_tree(SubSeq(in, 1, p - 1), SubSeq(post, 1, p - 1)),
             create_tree(SubSeq(in, p + 1, len), SubSeq(post, p, len - 1))>>

-----------------------------------------------------------------------------
(* The trees that are tried: all trees of up to MaxTree nodes, with values *)
(* from a small set or with distinct ones, and complete trees.             *)

RECURSIVE Trees(_)
Trees(n) ==
  IF n = 0 THEN {Null}
  ELSE UNION {{<<v, l, r>> : v \in NodeValues, l \in Trees(k), r \in Trees(n - 1 - k)} : k \in 0..(n - 1)}

RECURSIVE SizeOf(_)
SizeOf(t) == IF t = Null THEN 0 ELSE 1 + SizeOf(Left(t)) + SizeOf(Right(t))

(* Node labels in preorder, from k on. *)
RECURSIVE Label(_, _)
Label(t, k) ==
  IF t = Null THEN Null
  ELSE <<k, Label(Left(t), k + 1), Label(Right(t), k + 1 + SizeOf(Left(t)))>>

Labelled(n) == {Label(t, 1) : t \in Trees(n)}

RECURSIVE Complete(_, _)
Complete(i, n) == IF i > n THEN Null ELSE <<i, Complete(2 * i, n), Complete(2 * i + 1, n)>>

TreeJobs ==
  UNION {[kind : {"tree"}, t : Trees(n)] : n \in 0..MaxTree}
    \cup UNION {[kind : {"labelled"}, t : Labelled(n), p : 1..n, q : 1..n] : n \in 1..MaxTree}
    \cup [kind : {"complete"}, n : 0..MaxComplete]

Traverse ==
  LET t == job.t
  IN  Call("tree", [pre |-> preordertrave(t), in |-> inordertrave(t), post |-> postordertrave(t),
                    doWhile |-> IF t = Null THEN <<>> ELSE InorderDoWhile(<<>>, t, <<>>, TRUE),
                    level |-> leveltrave(t), min |-> mindepth(t),
                    paths |-> IF t = Null THEN <<>> ELSE pathxxx(t),
                    best |-> IF t = Null THEN 0 ELSE maxPathSum(t),
                    zero |-> pathSum(t, 1), numbers |-> sumNumbers(t),
                    symmetric |-> isSymmetric(t), balanced |-> isBalanced(t)])

(* The second call builds the tree from the traversals of the first. *)
FindAncestor ==
  LET t == job.t
  IN  Call("labelled", [lca |-> lowestCommonAncestor(t, job.p, job.q),
                        rebuilt |-> create_tree(inordertrave(t), postordertrave(t))])

CountAndBuild ==
  Call("complete", [count |-> countNodes(Complete(1, job.n)),
                    bst |-> sortedListToBST([i \in 1..job.n |-> i])])

TreeNext == Traverse \/ FindAncestor \/ CountAndBuild

-----------------------------------------------------------------------------
(* The orders by their recursive definition. *)
RECURSIVE Pre(_)
Pre(t) == IF t = Null THEN <<>> ELSE <<Val(t)>> \o Pre(Left(t)) \o Pre(Right(t))
RECURSIVE In(_)
In(t) == IF t = Null THEN <<>> ELSE In(Left(t)) \o <<Val(t)>> \o In(Right(t))
RECURSIVE Post(_)
Post(t) == IF t = Null THEN <<>> ELSE Post(Left(t)) \o Post(Right(t)) \o <<Val(t)>>

(* The nodes as the ways from the root to them: 2 is left and 3 is right. *)
RECURSIVE Ways(_)
Ways(t) ==
  IF t = Null THEN {}
  ELSE {<<>>} \cup {<<2>> \o w : w \in Ways(Left(t))} \cup {<<3>> \o w : w \in Ways(Right(t))}

RECURSIVE At(_, _)
At(t, w) == IF w = <<>> THEN t ELSE At(t[Head(w)], Tail(w))

(* The values on the way to a node. *)
Along(t, w) == [i \in 1..(Len(w) + 1) |-> Val(At(t, SubSeq(w, 1, i - 1)))]

LeafWays(t) == {w \in Ways(t) : IsLeaf(At(t, w))}

(* The traversals with explicit stacks and queues give the recursive       *)
(* orders, and the first level with a leaf is the length of the shortest   *)
(* path.                                                                   *)
TraversalsRight ==
  Returned("tree") =>
    LET r == out[1]
        t == job.t
    IN  /\ r.pre = Pre(t) /\ r.in = In(t) /\ r.post = Post(t) /\ r.doWhile = In(t)
        /\ r.min = (IF t = Null THEN 0 ELSE Min({Len(w) + 1 : w \in LeafWays(t)}))
        /\ Len(r.level) = depth(t)
        /\ \A d \in DOMAIN r.level :
             Len(r.level[d]) = Cardinality({w \in Ways(t) : Len(w) = d - 1})
        /\ \A v \in NodeValues : \A d \in DOMAIN r.level :
             Cardinality({i \in DOMAIN r.level[d] : r.level[d][i] = v})
               = Cardinality({w \in Ways(t) : Len(w) = d - 1 /\ Val(At(t, w)) = v})

(* The backtracking with two stacks visits every leaf once, left to right, *)
(* with exactly its path on the stack; the recursive dfs() agrees.         *)
PathsComplete ==
  Returned("tree") =>
    LET r == out[1]
        t == job.t
        leaves == SetToSortSeq(LeafWays(t), LAMBDA a, b :
                    \E k \in 1..Len(a) : k <= Len(b) /\ SubSeq(a, 1, k - 1) = SubSeq(b, 1, k - 1) /\ a[k] < b[k])
        all == [i \in DOMAIN leaves |-> Along(t, leaves[i])]
    IN  /\ r.paths = all
        /\ r.zero = SelectSeq(all, LAMBDA p : Total(p) = 1)
        /\ r.numbers = Total([i \in DOMAIN all |-> FoldLeft(LAMBDA s, v : s * 10 + v, 0, all[i])])

(* The result of maxPathSum is the best sum over all paths between two     *)
(* nodes, negative values included.                                        *)
BestPathFound ==
  (Returned("tree") /\ job.t # Null) =>
    LET t == job.t
        Between(a, b) ==
          LET both == Prefixes(a) \cap Prefixes(b)
              top == CHOOSE w \in both : \A u \in both : Len(u) <= Len(w)
          IN  {w \in Prefixes(a) \cup Prefixes(b) : Len(w) >= Len(top)}
        Sum(W) == FoldSet(LAMBDA w, s : s + Val(At(t, w)), 0, W)
    IN  out[1].best = Max({Sum(Between(a, b)) : a \in Ways(t), b \in Ways(t)})

(* A tree is symmetric when inverting it changes nothing, and balanced     *)
(* when no node has subtrees of depths two apart.                          *)
ShapeRight ==
  Returned("tree") =>
    LET t == job.t
    IN  /\ out[1].symmetric <=> invertTree(t) = t
        /\ In(invertTree(t)) = Reverse(In(t))
        /\ out[1].balanced <=> \A w \in Ways(t) :
             LET D(side) == Max({0} \cup {Len(u) - Len(w) : u \in {u \in Ways(t) : Len(u) > Len(w) /\ SubSeq(u, 1, Len(w) + 1) = Append(w, side)}})
             IN  D(2) - D(3) \in -1..1

(* The last common node of the two paths is the lowest one with both nodes *)
(* below it, and in-order and post-order determine the tree.               *)
AncestorRight ==
  Returned("labelled") =>
    LET t == job.t
        Way(p) == CHOOSE w \in Ways(t) : Val(At(t, w)) = p
        both == Prefixes(Way(job.p)) \cap Prefixes(Way(job.q))
    IN  /\ out[1].lca = Val(At(t, CHOOSE w \in both : \A u \in both : Len(u) <= Len(w)))
        /\ out[1].rebuilt = t

(* The shortcut of countNodes is right for every complete tree, and the    *)
(* tree built from a sorted list is a balanced search tree of all of it.   *)
CompleteCounted ==
  Returned("complete") =>
    /\ out[1].count = job.n
    /\ In(out[1].bst) = [i \in 1..job.n |-> i]
    /\ isBalanced(out[1].bst)

(* The traversals with explicit stacks, the path searches, the shape tests *)
(* and the constructions return what the recursive definitions say.        *)
TreesRight ==
  /\ TraversalsRight /\ PathsComplete /\ BestPathFound
  /\ ShapeRight /\ AncestorRight /\ CompleteCounted
=============================================================================
