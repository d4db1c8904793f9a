---------------------------- MODULE OrderedBag ----------------------------
(***************************************************************************)
(* What the skip list and the binary search tree promise: a bag of keys,   *)
(* and after every call the answer that bag gives.                         *)
(***************************************************************************)
EXTENDS Integers, FiniteSetsExt

CONSTANT Keys

VARIABLES
  bag,      \* how often each key is stored
  answer    \* [op, key, found] of the last call

Stored == {k \in Keys : bag[k] > 0}

Insert(k) ==
  /\ bag' = [bag EXCEPT ![k] = @ + 1]
  /\ answer' = [op |-> "insert", key |-> k, found |-> TRUE]

Lookup(k) ==
  /\ answer' = [op |-> "lookup", key |-> k, found |-> k \in Stored]
  /\ UNCHANGED bag

Delete(k) ==
  /\ answer' = [op |-> "delete", key |-> k, found |-> k \in Stored]
  /\ bag' = IF k \in Stored THEN [bag EXCEPT ![k] = @ - 1] ELSE bag

DeleteMin ==
  /\ Stored # {}
  /\ answer' = [op |-> "min", key |-> Min(Stored), found |-> TRUE]
  /\ bag' = [bag EXCEPT ![Min(Stored)] = @ - 1]

Init ==
  /\ bag = [k \in Keys |-> 0]
  /\ answer = [op |-> "none"]

Next == DeleteMin \/ \E k \in Keys : Insert(k) \/ Lookup(k) \/ Delete(k)

Spec == Init /\ [][Next]_<<bag, answer>>
=============================================================================
