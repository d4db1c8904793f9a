--------------------------- MODULE MCContainers ---------------------------
(***************************************************************************)
(* The containers, one program at a time: a behaviour uses the list, the   *)
(* skip list, the search tree or the queue of the list test.               *)
(***************************************************************************)
EXTENDS Adlist, SkipList, Bst, FifoList

VARIABLE program

Init ==
  /\ program \in {"list", "skiplist", "tree", "mylist"}
  /\ AdlistInit
  /\ slcreate
  /\ bstree_create
  /\ FifoInit

Next ==
  \/ program = "list" /\ AdlistNext /\ UNCHANGED <<program, skipVars, bstVars, fifoVars>>
  \/ program = "skiplist" /\ SkipNext /\ UNCHANGED <<program, adlistVars, bstVars, fifoVars>>
  \/ program = "tree" /\ BstNext /\ UNCHANGED <<program, adlistVars, skipVars, fifoVars>>
  \/ program = "mylist" /\ FifoNext /\ UNCHANGED <<program, adlistVars, skipVars, bstVars>>

Spec == Init /\ [][Next]_<<program, adlistVars, skipVars, bstVars, fifoVars>>

(* Addresses (the same ones for every program), lists and stored pointers  *)
(* are interchangeable; keys are not.                                      *)
Symmetry == Permutations(Nodes) \cup Permutations(Lists) \cup Permutations(Elements)

(* The links of all containers are sound after any sequence of operations: *)
(* both directions and the length of the adlist, every level of the skip   *)
(* list, the order and the parent links of the search tree, the queue of   *)
(* the list test.                                                          *)
LinksSound == AdlistTypeOK /\ BothWaysAgree /\ LevelsChained /\ TreeInOrder /\ QueueChained

(* Every operation of a container does to the links what it promises to do *)
(* to a list or to a bag of keys (NodeLists, OrderedBag).                  *)
ContainersRefine == ImplementsLists /\ SkipListIsBag /\ TreeIsBag
=============================================================================
