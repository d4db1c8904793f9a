-------------------------------- MODULE Bst --------------------------------
(***************************************************************************)
(* The binary search tree of binarrytree/BST.c: the insertion and deletion *)
(* of nginx's red-black tree without the balancing.                        *)
(*                                                                         *)
(* A node is in the domain of "tree" while it is allocated.  The sentinel  *)
(* stands for every missing child and for the root's parent; its own       *)
(* parent field is a scratch cell that bstree_delete() writes.             *)
(***************************************************************************)
EXTENDS Integers, Sequences, FiniteSets, FiniteSetsExt, Functions, TLC

CONSTANTS
  TreeNodes,    \* the addresses malloc() can return for a node
  TreeKeys,
  SENTINEL

VARIABLES
  tree,             \* [left, right, parent, key] of the allocated nodes
  root,
  sentinelParent,   \* sentinel->parent
  treeAnswer        \* what the last call returned

bstVars == <<tree, root, sentinelParent, treeAnswer>>

InTree == DOMAIN tree

(* bstree_lookup(): the node with the key, or the sentinel. *)
bstree_lookup(k) ==
  LET from[p \in InTree \cup {SENTINEL}] ==
        IF p = SENTINEL \/ tree[p].key = k THEN p
        ELSE from[IF tree[p].key < k THEN tree[p].right ELSE tree[p].left]
  IN  from[root]

(* bstree_min(): follow left from a node. *)
bstree_min(n) ==
  LET from[p \in InTree] == IF tree[p].left = SENTINEL THEN p ELSE from[tree[p].left]
  IN  IF n = SENTINEL THEN SENTINEL ELSE from[n]

Side(k, p) == IF k < tree[p].key THEN "left" ELSE "right"

(* The loop of bstree_insert_value(): the node that gets the new child. *)
InsertionPoint(k) ==
  LET from[p \in InTree] ==
        LET child == tree[p][Side(k, p)] IN IF child = SENTINEL THEN p ELSE from[child]
  IN  from[root]

TreeReturns(op, k, found) == treeAnswer' = [op |-> op, key |-> k, found |-> found]

Leaf(k, p) == [left |-> SENTINEL, right |-> SENTINEL, parent |-> p, key |-> k]

bstree_insert(k, n) ==
  /\ n \notin InTree
  /\ IF root = SENTINEL
     THEN /\ root' = n
          /\ tree' = tree @@ (n :> Leaf(k, SENTINEL))
     ELSE LET p == InsertionPoint(k)
          IN  /\ tree' = [tree EXCEPT ![p][Side(k, p)] = n] @@ (n :> Leaf(k, p))
              /\ UNCHANGED root
  /\ TreeReturns("insert", k, TRUE)
  /\ UNCHANGED sentinelParent

(* The node that is really unlinked and freed. *)
Subst(n) ==
  IF tree[n].left = SENTINEL \/ tree[n].right = SENTINEL THEN n
  ELSE bstree_min(tree[n].right)

(* bstree_delete(): the only child of subst takes its place, and its key   *)
(* moves into the node to be deleted.                                      *)
bstree_delete(n) ==
  LET subst == Subst(n)
      temp == IF tree[subst].left = SENTINEL THEN tree[subst].right ELSE tree[subst].left
      up == tree[subst].parent
      reparented == IF temp = SENTINEL THEN tree ELSE [tree EXCEPT ![temp].parent = up]
      side == IF up # SENTINEL /\ reparented[up].left = subst THEN "left" ELSE "right"
      relinked == IF up = SENTINEL THEN reparented ELSE [reparented EXCEPT ![up][side] = temp]
  IN  /\ sentinelParent' = IF temp = SENTINEL THEN up ELSE sentinelParent
      /\ root' = IF up = SENTINEL THEN temp ELSE root
      /\ tree' = Restrict([relinked EXCEPT ![n].key = tree[subst].key], InTree \ {subst})

(* main() deletes what bstree_lookup() finds. *)
LookupAndDelete(k) ==
  LET n == bstree_lookup(k)
  IN  /\ TreeReturns("delete", k, n # SENTINEL)
      /\ IF n = SENTINEL THEN UNCHANGED <<tree, root, sentinelParent>> ELSE bstree_delete(n)

Lookup(k) ==
  /\ TreeReturns("lookup", k, bstree_lookup(k) # SENTINEL)
  /\ UNCHANGED <<tree, root, sentinelParent>>

(* The last loop of main(): take the smallest until nothing is left. *)
DeleteMin ==
  /\ bstree_min(root) # SENTINEL
  /\ TreeReturns("min", tree[bstree_min(root)].key, TRUE)
  /\ bstree_delete(bstree_min(root))

bstree_create ==
  /\ tree = <<>>
  /\ root = SENTINEL
  /\ sentinelParent = SENTINEL
  /\ treeAnswer = [op |-> "none"]

BstNext ==
  \/ DeleteMin
  \/ \E k \in TreeKeys : Lookup(k) \/ LookupAndDelete(k) \/ \E n \in TreeNodes : bstree_insert(k, n)

-----------------------------------------------------------------------------
(* What inorder() prints. *)
inordertravel ==
  LET in[p \in InTree \cup {SENTINEL}] ==
        IF p = SENTINEL THEN <<>>
        ELSE in[tree[p].left] \o <<tree[p].key>> \o in[tree[p].right]
  IN  in[root]

(* After any insertions and deletions the in-order traversal prints every  *)
(* stored key in ascending order, and every node is the child of its       *)
(* parent: bstree_delete() finds the link to cut through parent.           *)
TreeInOrder ==
  /\ Len(inordertravel) = Cardinality(InTree)
  /\ \A i, j \in DOMAIN inordertravel : i < j => inordertravel[i] <= inordertravel[j]
  /\ \A n \in InTree :
       LET p == tree[n].parent
       IN  IF p = SENTINEL THEN root = n ELSE p \in InTree /\ n \in {tree[p].left, tree[p].right}

TreeBag == INSTANCE OrderedBag WITH
  Keys <- TreeKeys,
  bag <- [k \in TreeKeys |-> Cardinality({n \in InTree : tree[n].key = k})],
  answer <- treeAnswer

(* The tree is a bag of keys, duplicates included: lookups find what is    *)
(* stored, a deletion removes one node with the key that was asked for     *)
(* (although it may free another node than the one that was found), and    *)
(* the minimum is the smallest key.                                        *)
TreeIsBag == TreeBag!Spec
=============================================================================
