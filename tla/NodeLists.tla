----------------------------- MODULE NodeLists -----------------------------
(***************************************************************************)
(* What doublelink/adlist.c promises: every list is a sequence of items,   *)
(* an item is a node and the value it carries, and an operation changes    *)
(* one list only.  A step is described by the list before it (s) and after *)
(* it (t).                                                                 *)
(***************************************************************************)
EXTENDS Naturals, Sequences, SequencesExt

CONSTANTS
  Lists,    \* the lists a program has created or will create
  NoList    \* stands for a list that does not exist

VARIABLE lists

NodesOf(s) == {s[i].node : i \in DOMAIN s}
Values(s) == [i \in DOMAIN s |-> s[i].value]

(* The nodes of all lists. *)
InUse(all) == UNION {NodesOf(all[l]) : l \in {k \in Lists : all[k] # NoList}}

Create(s, t) == s = NoList /\ t = <<>>
Release(s, t) == s # NoList /\ t = NoList
Delete(s, t) == s # NoList /\ t # NoList /\ \E i \in DOMAIN s : t = RemoveAt(s, i)

(* A node that no list has is put anywhere. *)
Insert(s, t, used) ==
  /\ s # NoList /\ t # NoList
  /\ \E i \in DOMAIN t : s = RemoveAt(t, i) /\ t[i].node \notin used

(* The last item becomes the first one. *)
Rotate(s, t) ==
  /\ s # NoList /\ t # NoList
  /\ Len(s) > 1
  /\ t = <<Last(s)>> \o Front(s)

(* A copy of "from" is a new list of new nodes with the same values. *)
Copy(from, s, t, used) ==
  /\ from # NoList /\ s = NoList /\ t # NoList
  /\ Values(t) = Values(from)
  /\ NodesOf(t) \cap used = {}

Init == lists = [l \in Lists |-> NoList]

Next ==
  \E l \in Lists :
    /\ \A k \in Lists \ {l} : lists'[k] = lists[k]
    /\ \E s \in {lists[l]}, t \in {lists'[l]} :
         \/ Create(s, t)
         \/ Release(s, t)
         \/ Delete(s, t)
         \/ Insert(s, t, InUse(lists))
         \/ Rotate(s, t)
         \/ \E k \in Lists : Copy(lists[k], s, t, InUse(lists))

Spec == Init /\ [][Next]_lists
=============================================================================
