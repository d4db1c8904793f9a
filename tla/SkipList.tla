----------------------------- MODULE SkipList -----------------------------
(***************************************************************************)
(* The skip list of skiplist/skiplist_full_complete.c.                     *)
(*                                                                         *)
(* A node is in the domain of "forward" and "value" while it is allocated, *)
(* and its forward[] has an entry for each of its levels, so following a   *)
(* freed node or a level a node does not have is an error of the model.    *)
(* The key field, which main() uses as a serial number, is left out: the   *)
(* list is ordered and searched by value.                                  *)
(***************************************************************************)
EXTENDS Integers, FiniteSets, FiniteSetsExt, Functions, TLC

CONSTANTS
  SkipNodes,    \* the addresses malloc() can return for a node
  SkipKeys,     \* the values that are stored
  MaxLevel,     \* bounds skiprandomlevel(), whose result has no bound
  HEAD,         \* sl->head
  NIL           \* the null pointer

VARIABLES
  forward,      \* forward[n][i], for the allocated nodes and HEAD
  value,        \* for the allocated nodes
  level,        \* sl->level
  skipAnswer,   \* what the last call returned
  crashed       \* sldelete() has dereferenced NULL

skipVars == <<forward, value, level, skipAnswer, crashed>>

Allocated == DOMAIN value

(* Mutant: the search walks past the value it looks for. *)
AdvancePastEqual(i, v) ==
  LET a[p \in DOMAIN forward] ==
        LET q == forward[p][i]
        IN  IF q # NIL /\ value[q] <= v THEN a[q] ELSE p
  IN  a

(* The inner loop: from p along level i, up to the last node below v. *)
Advance(i, v) ==
  LET a[p \in DOMAIN forward] ==
        LET q == forward[p][i]
        IN  IF q # NIL /\ value[q] < v THEN a[q] ELSE p
  IN  a

(* The outer loop, which never goes back to the head: update[i] is where   *)
(* the search for v leaves level i.                                        *)
Update(v) ==
  LET u[i \in 0..(level - 1)] == Advance(i, v)[IF i = level - 1 THEN HEAD ELSE u[i + 1]]
  IN  u

(* The highest level at which the search meets v decides. *)
slsearch(v) ==
  LET u == Update(v)
      hits == {i \in 0..(level - 1) : forward[u[i]][i] # NIL /\ value[forward[u[i]][i]] = v}
  IN  IF hits = {} THEN NIL ELSE forward[u[Max(hits)]][Max(hits)]

SkipReturns(op, k, found) == skipAnswer' = [op |-> op, key |-> k, found |-> found]

Search(v) ==
  /\ SkipReturns("lookup", v, slsearch(v) # NIL)
  /\ UNCHANGED <<forward, value, level, crashed>>

(* k is what skiprandomlevel() returned; the new levels start at the head. *)
slinsert(v, q, k) ==
  /\ q \notin Allocated
  /\ LET u == [i \in 0..(k - 1) |-> IF i < level THEN Update(v)[i] ELSE HEAD]
     IN  forward' = [n \in DOMAIN forward |->
                       [i \in DOMAIN forward[n] |->
                          IF i < k /\ u[i] = n THEN q ELSE forward[n][i]]]
                    @@ (q :> [i \in 0..(k - 1) |-> forward[u[i]][i]])
  /\ value' = value @@ (q :> v)
  /\ level' = IF k > level THEN k ELSE level
  /\ SkipReturns("insert", v, TRUE)
  /\ UNCHANGED crashed

(* q is the node after update[0], NULL when nothing is stored from v on:   *)
(* sldelete() reads q->value without looking.                              *)
DeleteCandidate(v) == IF level = 0 THEN NIL ELSE forward[Update(v)[0]][0]

(* update[i]->forward[i] = q->forward[i] wherever it is q. *)
Unlinked(v, q) ==
  LET u == Update(v)
  IN  [n \in DOMAIN forward |->
         [i \in DOMAIN forward[n] |->
            IF i < level /\ u[i] = n /\ forward[n][i] = q THEN forward[q][i] ELSE forward[n][i]]]

DeleteHit(v) ==
  LET q == DeleteCandidate(v)
      cut == Unlinked(v, q)
  IN  /\ q # NIL
      /\ value[q] = v
      /\ forward' = Restrict(cut, DOMAIN forward \ {q})
      /\ value' = Restrict(value, Allocated \ {q})
      /\ level' = level - Cardinality({i \in 0..(level - 1) : cut[HEAD][i] = NIL})
      /\ SkipReturns("delete", v, TRUE)
      /\ UNCHANGED crashed

DeleteMiss(v) ==
  /\ DeleteCandidate(v) # NIL
  /\ value[DeleteCandidate(v)] # v
  /\ SkipReturns("delete", v, FALSE)
  /\ UNCHANGED <<forward, value, level, crashed>>

DeletePastEnd(v) ==
  /\ DeleteCandidate(v) = NIL
  /\ crashed' = TRUE
  /\ UNCHANGED <<forward, value, level, skipAnswer>>

sldelete(v) == DeleteHit(v) \/ DeleteMiss(v) \/ DeletePastEnd(v)

slcreate ==
  /\ forward = (HEAD :> [i \in 0..(MaxLevel - 1) |-> NIL])
  /\ value = <<>>
  /\ level = 0
  /\ skipAnswer = [op |-> "none"]
  /\ crashed = FALSE

SkipNext ==
  /\ ~crashed
  /\ \E v \in SkipKeys :
       \/ Search(v)
       \/ sldelete(v)
       \/ \E q \in SkipNodes, k \in 1..MaxLevel : slinsert(v, q, k)

-----------------------------------------------------------------------------
(* The nodes of level i. *)
OnLevel(i) == {n \in Allocated : i \in DOMAIN forward[n]}

(* Whatever levels the random numbers give and whatever is deleted, each   *)
(* level chains exactly the nodes that have it, in order of value, and     *)
(* sl->level is the height of the tallest node: searches that start there  *)
(* and never go back to the head see every node.                           *)
LevelsChained ==
  /\ \A i \in 0..(MaxLevel - 1) :
       LET into(n) == {m \in OnLevel(i) \cup {HEAD} : forward[m][i] = n}
       IN  /\ \A n \in OnLevel(i) : Cardinality(into(n)) = 1
           /\ Cardinality(into(NIL)) = 1
           /\ \A n \in OnLevel(i) : forward[n][i] # NIL => value[n] <= value[forward[n][i]]
  /\ level = Cardinality({i \in 0..(MaxLevel - 1) : OnLevel(i) # {}})

SkipBag == INSTANCE OrderedBag WITH
  Keys <- SkipKeys,
  bag <- [k \in SkipKeys |-> Cardinality({n \in Allocated : value[n] = k})],
  answer <- skipAnswer

(* The skip list is a bag of values: a search finds what is stored and     *)
(* nothing else, a deletion removes one of the values asked for and says   *)
(* whether there was one (when it returns: see DeletePastEnd).             *)
SkipListIsBag == SkipBag!Spec
=============================================================================
