------------------------------ MODULE Adlist ------------------------------
(***************************************************************************)
(* The doubly linked list of doublelink/adlist.c (redis_ae/epoll-mode-     *)
(* copied-from-redis/adlist.c is a subset of it with the same bodies).     *)
(*                                                                         *)
(* "heap" holds the prev, next and value fields of the nodes and the head, *)
(* tail and len fields of the lists.  malloc() hands out any node that is  *)
(* not in use, so a freed node comes back; the contents of a freed node    *)
(* are not modelled.  A failed malloc() leaves every operation without     *)
(* effect (listDup releases its half copy) and is a stuttering step.       *)
(* dup, free and match are NULL, as in every list of the repository: list.c *)
(* copies and compares pointers and never frees a value.                   *)
(***************************************************************************)
EXTENDS Integers, Sequences, FiniteSets, SequencesExt

CONSTANTS
  Nodes,      \* the addresses malloc() can return for a listNode
  Elements,   \* the values (pointers) that are stored
  Lists,      \* the lists of the program
  NULL

ASSUME AdlistAssumption == IsFiniteSet(Nodes) /\ NULL \notin Nodes \cup Lists

VARIABLES
  heap,       \* [prev, next, value, head, tail, len]
  live,       \* the allocated nodes
  made,       \* the allocated lists
  iter        \* the one listIter of the program, or NoIter

adlistVars == <<heap, live, made, iter>>

NoIter == [list |-> NULL]

Forward == 0
Backward == 1

(* Following "step" from "first" for k nodes, NULL from the end on: the    *)
(* loop of listIndex, and what repeated listNext calls return.             *)
Walk(first, step) ==
  LET w[k \in 0..Cardinality(Nodes)] ==
        IF k = 0 THEN first
        ELSE LET n == w[k - 1] IN IF n = NULL THEN NULL ELSE step[n]
  IN  w

listIndex(l, index) ==
  IF index < 0 THEN Walk(heap.tail[l], heap.prev)[-index - 1]
  ELSE Walk(heap.head[l], heap.next)[index]

(* The nodes a traversal from the head, or from the tail, returns. *)
Traversed(first, step) ==
  LET w == Walk(first, step)
  IN  [k \in {j \in 1..(Cardinality(Nodes) + 1) : w[j - 1] # NULL} |-> w[k - 1]]

listpretraval(l) == Traversed(heap.head[l], heap.next)
listposttraval(l) == Traversed(heap.tail[l], heap.prev)

listSearchKey(l, key) ==
  LET ns == listpretraval(l)
      found == {i \in DOMAIN ns : heap.value[ns[i]] = key}
  IN  IF found = {} THEN NULL ELSE ns[Min(found)]

-----------------------------------------------------------------------------
(* The operations on the heap. *)

(* The links "f" with those of n and of another node, if there is one, set. *)
Relinked(f, n, own, other, to) ==
  [m \in Nodes |-> IF m = n THEN own ELSE IF m = other THEN to ELSE f[m]]

Emptied(h, l) ==
  [prev |-> h.prev, next |-> h.next, value |-> h.value,
   head |-> [h.head EXCEPT ![l] = NULL], tail |-> [h.tail EXCEPT ![l] = NULL],
   len |-> [h.len EXCEPT ![l] = 0]]

FirstNode(h, l, n, v) ==
  [prev |-> [h.prev EXCEPT ![n] = NULL], next |-> [h.next EXCEPT ![n] = NULL],
   value |-> [h.value EXCEPT ![n] = v],
   head |-> [h.head EXCEPT ![l] = n], tail |-> [h.tail EXCEPT ![l] = n],
   len |-> [h.len EXCEPT ![l] = @ + 1]]

AddNodeHead(h, l, n, v) ==
  IF h.len[l] = 0 THEN FirstNode(h, l, n, v)
  ELSE [prev |-> Relinked(h.prev, n, NULL, h.head[l], n),
        next |-> [h.next EXCEPT ![n] = h.head[l]],
        value |-> [h.value EXCEPT ![n] = v],
        head |-> [h.head EXCEPT ![l] = n], tail |-> h.tail,
        len |-> [h.len EXCEPT ![l] = @ + 1]]

AddNodeTail(h, l, n, v) ==
  IF h.len[l] = 0 THEN FirstNode(h, l, n, v)
  ELSE [prev |-> [h.prev EXCEPT ![n] = h.tail[l]],
        next |-> Relinked(h.next, n, NULL, h.tail[l], n),
        value |-> [h.value EXCEPT ![n] = v],
        head |-> h.head, tail |-> [h.tail EXCEPT ![l] = n],
        len |-> [h.len EXCEPT ![l] = @ + 1]]

(* Mutant: an insertion that forgets list->head and list->tail. *)
InsertKeepsEnds(h, l, old, n, v, after) ==
  LET p == IF after THEN old ELSE h.prev[old]
      q == IF after THEN h.next[old] ELSE old
  IN  [prev |-> Relinked(h.prev, n, p, q, n), next |-> Relinked(h.next, n, q, p, n),
       value |-> [h.value EXCEPT ![n] = v], head |-> h.head, tail |-> h.tail,
       len |-> [h.len EXCEPT ![l] = @ + 1]]

InsertNode(h, l, old, n, v, after) ==
  LET p == IF after THEN old ELSE h.prev[old]
      q == IF after THEN h.next[old] ELSE old
  IN  [prev |-> Relinked(h.prev, n, p, q, n), next |-> Relinked(h.next, n, q, p, n),
       value |-> [h.value EXCEPT ![n] = v],
       head |-> [h.head EXCEPT ![l] = IF ~after /\ @ = old THEN n ELSE @],
       tail |-> [h.tail EXCEPT ![l] = IF after /\ @ = old THEN n ELSE @],
       len |-> [h.len EXCEPT ![l] = @ + 1]]

(* What free() leaves in the nodes is not relied upon. *)
Freed(h, ns) ==
  [prev |-> [n \in Nodes |-> IF n \in ns THEN NULL ELSE h.prev[n]],
   next |-> [n \in Nodes |-> IF n \in ns THEN NULL ELSE h.next[n]],
   value |-> [n \in Nodes |-> IF n \in ns THEN NULL ELSE h.value[n]],
   head |-> h.head, tail |-> h.tail, len |-> h.len]

DelNode(h, l, n) ==
  LET p == h.prev[n]
      q == h.next[n]
  IN  Freed([prev |-> [m \in Nodes |-> IF m = q THEN p ELSE h.prev[m]],
             next |-> [m \in Nodes |-> IF m = p THEN q ELSE h.next[m]],
             value |-> h.value,
             head |-> [h.head EXCEPT ![l] = IF p = NULL THEN q ELSE @],
             tail |-> [h.tail EXCEPT ![l] = IF q = NULL THEN p ELSE @],
             len |-> [h.len EXCEPT ![l] = @ - 1]], {n})

Rotated(h, l) ==
  LET last == h.tail[l]
      first == h.head[l]
  IN  [prev |-> Relinked(h.prev, last, NULL, first, last),
       next |-> Relinked(h.next, last, first, h.prev[last], NULL),
       value |-> h.value,
       head |-> [h.head EXCEPT ![l] = last], tail |-> [h.tail EXCEPT ![l] = h.prev[last]],
       len |-> h.len]

(* listAddNodeTail() for each node of a traversal. *)
Dup(h, copy, new, values) ==
  LET d[k \in 0..Len(values)] ==
        IF k = 0 THEN h ELSE AddNodeTail(d[k - 1], copy, new[k], values[k])
  IN  d[Len(values)]

-----------------------------------------------------------------------------
(* The iterator.  A caller may change the list while it iterates, as long  *)
(* as it does not free the node that the iterator will return next:        *)
(* freeClient() of networking.c and delete_list() of list.c free the node  *)
(* that a traversal has just returned.  "due" are the nodes that were in   *)
(* the list when the iteration began and have been neither returned nor    *)
(* freed, "seen" the returned ones, "turned" says whether the list was     *)
(* rotated meanwhile.                                                      *)

Iterator(l, direction) ==
  [list |-> l, direction |-> direction,
   next |-> IF direction = Forward THEN heap.head[l] ELSE heap.tail[l],
   due |-> Range(listpretraval(l)), seen |-> {}, turned |-> FALSE]

Iterating(l) == iter # NoIter /\ iter.list = l

(* A freed node that malloc() hands out again is a new one. *)
IterWithout(ns) ==
  IF iter = NoIter THEN iter ELSE [iter EXCEPT !.due = @ \ ns, !.seen = @ \ ns]

listGetIterator(l, direction) ==
  /\ l \in made
  /\ iter = NoIter
  /\ iter' = Iterator(l, direction)
  /\ UNCHANGED <<heap, live, made>>

listReleaseIterator == iter # NoIter /\ iter' = NoIter /\ UNCHANGED <<heap, live, made>>

listRewind(l, direction) ==
  /\ l \in made
  /\ iter # NoIter
  /\ iter' = Iterator(l, direction)
  /\ UNCHANGED <<heap, live, made>>

(* Mutant: the direction is not looked at. *)
NextAlwaysForward ==
  /\ iter # NoIter
  /\ iter.next # NULL
  /\ iter' = [iter EXCEPT !.next = heap.next[@], !.due = @ \ {iter.next}, !.seen = @ \cup {iter.next}]
  /\ UNCHANGED <<heap, live, made>>

listNext ==
  /\ iter # NoIter
  /\ iter.next # NULL
  /\ iter' = [iter EXCEPT !.next = IF iter.direction = Forward THEN heap.next[@] ELSE heap.prev[@],
                          !.due = @ \ {iter.next}, !.seen = @ \cup {iter.next}]
  /\ UNCHANGED <<heap, live, made>>

-----------------------------------------------------------------------------
(* The operations on the lists. *)

listCreate(l) ==
  /\ l \notin made
  /\ made' = made \cup {l}
  /\ heap' = Emptied(heap, l)
  /\ UNCHANGED <<live, iter>>

(* The nodes are freed by count, not up to NULL. *)
listRelease(l) ==
  /\ l \in made
  /\ ~Iterating(l)
  /\ LET ns == {Walk(heap.head[l], heap.next)[k] : k \in 0..(heap.len[l] - 1)}
     IN  /\ live' = live \ ns
         /\ heap' = Emptied(Freed(heap, ns), l)
         /\ iter' = IterWithout(ns)
  /\ made' = made \ {l}

listAddNodeHead(l, n, v) ==
  /\ l \in made /\ n \notin live
  /\ heap' = AddNodeHead(heap, l, n, v)
  /\ live' = live \cup {n}
  /\ UNCHANGED <<made, iter>>

listAddNodeTail(l, n, v) ==
  /\ l \in made /\ n \notin live
  /\ heap' = AddNodeTail(heap, l, n, v)
  /\ live' = live \cup {n}
  /\ UNCHANGED <<made, iter>>

listInsertNode(l, index, n, v, after) ==
  /\ l \in made /\ n \notin live
  /\ listIndex(l, index) # NULL
  /\ heap' = InsertNode(heap, l, listIndex(l, index), n, v, after)
  /\ live' = live \cup {n}
  /\ UNCHANGED <<made, iter>>

(* Deletes the node listSearchKey() has found. *)
listDelNode(l, key) ==
  /\ l \in made
  /\ listSearchKey(l, key) # NULL
  /\ LET n == listSearchKey(l, key)
     IN  /\ Iterating(l) => n # iter.next
         /\ heap' = DelNode(heap, l, n)
         /\ live' = live \ {n}
         /\ iter' = IterWithout({n})
  /\ UNCHANGED made

listRotate(l) ==
  /\ l \in made
  /\ heap.len[l] > 1
  /\ heap' = Rotated(heap, l)
  /\ iter' = IF Iterating(l) THEN [iter EXCEPT !.turned = TRUE] ELSE iter
  /\ UNCHANGED <<live, made>>

(* listCreate(), then one node for each of the original's. *)
listDup(orig, copy) ==
  /\ orig \in made /\ copy \notin made
  /\ LET ns == listpretraval(orig)
     IN  \E new \in [1..Len(ns) -> Nodes \ live] :
           /\ IsInjective(new)
           /\ heap' = Dup(Emptied(heap, copy), copy, new, [i \in DOMAIN ns |-> heap.value[ns[i]]])
           /\ live' = live \cup Range(new)
  /\ made' = made \cup {copy}
  /\ UNCHANGED iter

AdlistInit ==
  /\ heap = [prev |-> [n \in Nodes |-> NULL], next |-> [n \in Nodes |-> NULL],
             value |-> [n \in Nodes |-> NULL], head |-> [l \in Lists |-> NULL],
             tail |-> [l \in Lists |-> NULL], len |-> [l \in Lists |-> 0]]
  /\ live = {} /\ made = {} /\ iter = NoIter

AdlistNext ==
  \/ listReleaseIterator
  \/ listNext
  \/ \E l \in Lists :
       \/ listCreate(l) \/ listRelease(l) \/ listRotate(l)
       \/ \E d \in {Forward, Backward} : listGetIterator(l, d) \/ listRewind(l, d)
       \/ \E v \in Elements : listDelNode(l, v)
       \/ \E n \in Nodes, v \in Elements :
            \/ listAddNodeHead(l, n, v) \/ listAddNodeTail(l, n, v)
            \/ \E i \in -heap.len[l]..(heap.len[l] - 1), after \in BOOLEAN :
                 listInsertNode(l, i, n, v, after)
       \/ \E k \in Lists : listDup(l, k)

AdlistSpec == AdlistInit /\ [][AdlistNext]_adlistVars

-----------------------------------------------------------------------------
(* The variables have their types. *)
AdlistTypeOK ==
  /\ heap \in [prev : [Nodes -> Nodes \cup {NULL}], next : [Nodes -> Nodes \cup {NULL}],
               value : [Nodes -> Elements \cup {NULL}], head : [Lists -> Nodes \cup {NULL}],
               tail : [Lists -> Nodes \cup {NULL}], len : [Lists -> 0..Cardinality(Nodes)]]
  /\ live \subseteq Nodes /\ made \subseteq Lists
  /\ iter # NoIter => /\ iter.list \in made
                      /\ iter.direction \in {Forward, Backward}
                      /\ iter.next \in live \cup {NULL}
                      /\ iter.due \cup iter.seen \subseteq live

(* However nodes are added, inserted, deleted and rotated, walking a list  *)
(* backwards gives the forward walk reversed, both stop at NULL after len  *)
(* nodes (listRelease frees by len, every other loop stops at NULL), and   *)
(* every allocated node is in exactly one list.                            *)
BothWaysAgree ==
  /\ \A l \in made :
       /\ listposttraval(l) = Reverse(listpretraval(l))
       /\ Len(listpretraval(l)) = heap.len[l]
  /\ live = UNION {Range(listpretraval(l)) : l \in made}
  /\ \A l, k \in made : l # k => Range(listpretraval(l)) \cap Range(listpretraval(k)) = {}

(* An iterator that is used while the list changes around it still has all *)
(* the nodes it owes in front of it and none it has returned: nothing is   *)
(* skipped and nothing is returned twice, unless the list is rotated under *)
(* it.                                                                     *)
IterationComplete ==
  (iter # NoIter /\ ~iter.turned) =>
    LET ahead == Range(Traversed(iter.next, IF iter.direction = Forward THEN heap.next ELSE heap.prev))
    IN  iter.due \subseteq ahead /\ iter.seen \cap ahead = {}

ItemsOf(ns) == [i \in DOMAIN ns |-> [node |-> ns[i], value |-> heap.value[ns[i]]]]

Abstract == INSTANCE NodeLists WITH
  NoList <- NULL,
  lists <- [l \in Lists |-> IF l \in made THEN ItemsOf(listpretraval(l)) ELSE NULL]

(* Every operation is one of the abstract lists': it changes one list, at  *)
(* one place, and a copy has the values of its original.                   *)
ImplementsLists == Abstract!Spec
=============================================================================
