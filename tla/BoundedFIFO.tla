---------------------------- MODULE BoundedFIFO ----------------------------
(***************************************************************************)
(* What the class template SimpleFIFO<T, rawSize> promises the threads     *)
(* that use it: a queue of at most rawSize elements, in order of arrival,  *)
(* that refuses an element when it is full.  The ring buffer that keeps    *)
(* the promise is module SimpleFIFO; StreamWriter and CapturePipeline use  *)
(* the queue through the operators of module FIFOQueue.                    *)
(***************************************************************************)
EXTENDS FIFOQueue

CONSTANTS Elem,     \* the element type T
          rawSize,  \* the capacity, the second template parameter
          NoResult  \* the result of an operation that returns nothing

VARIABLES q,        \* the elements in the queue, oldest first
          ret       \* what the last operation returned

vars == <<q, ret>>

Init == q = <<>> /\ ret = NoResult

\* enqueue(e) returns false, and changes nothing, when the queue is full.
enqueue(e) ==
  /\ q' = Enqueue(q, e, rawSize)
  /\ ret' = (Len(q) < rawSize)

\* dequeue() and peek() are for callers that saw count() > 0.
dequeue ==
  /\ q # <<>>
  /\ q' = Tail(q)
  /\ ret' = Head(q)

peek ==
  /\ q # <<>>
  /\ ret' = Head(q)
  /\ UNCHANGED q

flush == q' = <<>> /\ ret' = NoResult

Next == (\E e \in Elem : enqueue(e)) \/ dequeue \/ peek \/ flush

Spec == Init /\ [][Next]_vars
=============================================================================
