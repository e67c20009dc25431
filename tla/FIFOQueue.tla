----------------------------- MODULE FIFOQueue -----------------------------
(***************************************************************************)
(* The operations of SimpleFIFO<T, rawSize> on the queue it holds, a       *)
(* sequence with the oldest element first.  count() is Len(q), dequeue()   *)
(* returns Head(q) and leaves Tail(q).                                     *)
(***************************************************************************)
EXTENDS Naturals, Sequences

\* The queue after enqueue(e): a full queue refuses the element.
Enqueue(q, e, size) ==
  IF Len(q) >= size THEN q ELSE Append(q, e)

\* The elements in the queue.
Elements(q) == {q[i] : i \in 1..Len(q)}

\* No element is in the queue twice.
Distinct(q) == \A i, j \in 1..Len(q) : q[i] = q[j] => i = j
=============================================================================
