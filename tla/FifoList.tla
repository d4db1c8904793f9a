------------------------------ MODULE FifoList ------------------------------
(***************************************************************************)
(* The list of linklist/listtest/mylist.c (mylist.cpp has the same bodies) *)
(* and its program: testadd2 fills the list at the head, testdel2 empties  *)
(* it from the tail, for ever.  malloc() hands out any address not in use  *)
(* with any contents.                                                      *)
(***************************************************************************)
EXTENDS Naturals, Sequences, FiniteSets, SequencesExt

CONSTANTS
  FifoNodes,    \* the addresses of list elements
  Items,        \* the addresses of the payloads
  testpernum,   \* additions per round
  NOWHERE       \* the null pointer

VARIABLES
  fifo,         \* [p, prev, next, head, tail, size]
  phase,        \* "add" or "del"
  added,        \* additions of testadd2 so far
  used,         \* the allocated list elements
  items         \* the allocated payloads, oldest first

fifoVars == <<fifo, phase, added, used, items>>

Fields == FifoNodes \cup {NOWHERE}

FifoInit ==
  /\ fifo = [p |-> [n \in FifoNodes |-> NOWHERE], prev |-> [n \in FifoNodes |-> NOWHERE],
             next |-> [n \in FifoNodes |-> NOWHERE], head |-> NOWHERE, tail |-> NOWHERE, size |-> 0]
  /\ phase = "add" /\ added = 0 /\ used = {} /\ items = <<>>

(* ele is a new element with whatever its prev and next held before. *)
mylistadd(f, ele, e) ==
  LET new == [f EXCEPT !.p[ele] = e, !.size = @ + 1]
  IN  IF f.head = NOWHERE
      THEN [new EXCEPT !.head = ele, !.tail = ele, !.prev[ele] = NOWHERE, !.next[ele] = NOWHERE]
      ELSE [new EXCEPT !.next[ele] = f.head, !.prev[f.head] = ele, !.prev[ele] = NOWHERE, !.head = ele]

testadd2 ==
  /\ phase = "add"
  /\ IF added = testpernum
     THEN phase' = "del" /\ added' = 0 /\ UNCHANGED <<fifo, used, items>>
     ELSE \E ele \in FifoNodes \ used, e \in Items \ ToSet(items) :
            \E was \in [prev : Fields, next : Fields] :
            /\ fifo' = mylistadd([fifo EXCEPT !.prev[ele] = was.prev, !.next[ele] = was.next], ele, e)
            /\ used' = used \cup {ele} /\ items' = Append(items, e)
            /\ added' = added + 1 /\ UNCHANGED phase

(* The element is taken off the tail. *)
testget2(f) ==
  IF f.prev[f.tail] = NOWHERE
  THEN [f EXCEPT !.size = @ - 1, !.tail = NOWHERE, !.head = NOWHERE]
  ELSE [f EXCEPT !.size = @ - 1, !.tail = f.prev[f.tail], !.next[f.prev[f.tail]] = NOWHERE]

(* One turn of the loop; both the payload and the element are freed.  The  *)
(* contents of a free element are not state.                               *)
Forgotten(f, n) == [f EXCEPT !.p[n] = NOWHERE, !.prev[n] = NOWHERE, !.next[n] = NOWHERE]

testdel2 ==
  /\ phase = "del"
  /\ IF fifo.tail = NOWHERE
     THEN phase' = "add" /\ UNCHANGED <<fifo, added, used, items>>
     ELSE /\ fifo' = Forgotten(testget2(fifo), fifo.tail)
          /\ used' = used \ {fifo.tail}
          /\ items' = SelectSeq(items, LAMBDA e : e # fifo.p[fifo.tail])
          /\ UNCHANGED <<phase, added>>

FifoNext == testadd2 \/ testdel2
-----------------------------------------------------------------------------
(* Elements met from "first" on, as many as there are addresses.           *)
Chain(first, step) ==
  LET w[k \in 1..Cardinality(FifoNodes) + 1] ==
        IF k = 1 THEN first ELSE IF w[k - 1] = NOWHERE THEN NOWHERE ELSE step[w[k - 1]]
  IN  SelectSeq([k \in 1..Cardinality(FifoNodes) + 1 |-> w[k]], LAMBDA n : n # NOWHERE)

(* The list is a queue of the payloads: from the tail on it holds them in  *)
(* the order of their allocation, both directions agree, size is the       *)
(* length, and nothing but the elements on it is allocated, so a round     *)
(* leaves nothing behind.                                                  *)
QueueChained ==
  LET back == Chain(fifo.tail, fifo.prev)
  IN  /\ Chain(fifo.head, fifo.next) = Reverse(back)
      /\ [i \in 1..Len(back) |-> fifo.p[back[i]]] = items
      /\ ToSet(back) = used /\ fifo.size = Len(back)
      /\ phase = "add" /\ added = 0 => used = {}
=============================================================================
