------------------------------ MODULE PartList ------------------------------
(***************************************************************************)
(* linklist/nginx_list.c: a list of parts, each an array of nalloc         *)
(* elements; main() pushes n elements and prints them.                     *)
(*                                                                         *)
(* list_push does not set nelts and next of a part it allocates.  The      *)
(* program frees nothing before, so malloc() gives it memory that the      *)
(* system has filled with zeros: nelts is 0 and next is NULL.              *)
(***************************************************************************)
EXTENDS Naturals, Sequences, SequencesExt, Jobs

CONSTANTS
  Nallocs,      \* capacities of a part that are tried (main uses 4)
  MaxPushed     \* numbers of elements that are tried

NewPart(nalloc) == [elts |-> [i \in 1..nalloc |-> 0], nelts |-> 0]

(* The parts from list->start to list->last. *)
list_create(n) == <<NewPart(n)>>

(* The part that takes the next element is the last one. *)
list_push(parts, nalloc) ==
  IF Last(parts).nelts = nalloc THEN Append(parts, NewPart(nalloc)) ELSE parts

(* *elts = value, where elts is what list_push returned. *)
Store(parts, nalloc, value) ==
  LET all == list_push(parts, nalloc)
      k == Last(all).nelts + 1
  IN  [all EXCEPT ![Len(all)].nelts = k, ![Len(all)].elts[k] = value]

(* The loop: when i has passed nelts it goes on with element 0 of the next *)
(* part, which is printed without a test.                                  *)
list_print(parts) ==
  LET turn(s, t) ==
        IF s.done THEN s
        ELSE LET over == s.i >= parts[s.node].nelts
                 node == IF over THEN s.node + 1 ELSE s.node
                 i == IF over THEN 0 ELSE s.i
             IN  IF over /\ s.node = Len(parts) THEN [s EXCEPT !.done = TRUE]
                 ELSE [s EXCEPT !.node = node, !.i = i + 1, !.text = Append(@, parts[node].elts[i + 1])]
  IN  FoldLeft(turn, [node |-> 1, i |-> 0, text |-> <<>>, done |-> FALSE],
               [t \in 1..(MaxPushed + 2) |-> t])

PartJobs == [kind : {"parts"}, nalloc : Nallocs, n : 0..MaxPushed]

(* main() with the numbers 1..n in place of random ones. *)
PartMain(nalloc, n) ==
  LET parts == FoldLeft(LAMBDA s, v : Store(s, nalloc, v), list_create(nalloc), [v \in 1..n |-> v])
  IN  [parts |-> parts, printed |-> list_print(parts)]

PartNext == Call("parts", PartMain(job.nalloc, job.n))
-----------------------------------------------------------------------------
(* The list prints what was pushed, in order, and ends, for a last part    *)
(* that is empty, begun or just full, and no part holds more than it has   *)
(* room for.                                                               *)
PartsRight ==
  Returned("parts") =>
    /\ out[1].printed.done
    /\ out[1].printed.text = [v \in 1..job.n |-> v]
    /\ \A i \in 1..Len(out[1].parts) : out[1].parts[i].nelts \in 0..job.nalloc
=============================================================================
