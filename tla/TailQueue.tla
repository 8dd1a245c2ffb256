----------------------------- MODULE TailQueue ------------------------------
(***************************************************************************)
(* The doubly linked tail queues of sys/queue.h, as the sequences of their *)
(* elements.  TAILQ_INSERT_TAIL is Append.                                 *)
(***************************************************************************)
EXTENDS Integers, Sequences

TAILQ_LAST(q) == q[Len(q)]

Linked(q, e) == \E i \in 1 .. Len(q) : q[i] = e

\* An element is linked at most once; the links of one that is not in the list
\* are not followed by the model.
TAILQ_REMOVE(q, e) ==
  IF Linked(q, e)
  THEN LET k == CHOOSE i \in 1 .. Len(q) : q[i] = e
       IN  [j \in 1 .. Len(q) - 1 |-> IF j < k THEN q[j] ELSE q[j + 1]]
  ELSE q
=============================================================================
