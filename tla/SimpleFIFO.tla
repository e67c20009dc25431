----------------------------- MODULE SimpleFIFO -----------------------------
(***************************************************************************)
(* The ring buffer of SimpleFIFO.h: rawSize slots, a count, and two        *)
(* cursors that are reduced modulo the size before they are used and       *)
(* advanced after, so that each of them may rest at size itself.           *)
(*                                                                         *)
(* Every use in the program is inside a critical section (m_mutex or       *)
(* g_mutex), so an operation is one step.  dequeue() and peek() have no    *)
(* guard of their own: each of their callers tests count() first, and the  *)
(* guard here is that test.                                                *)
(***************************************************************************)
EXTENDS Naturals, Sequences

CONSTANTS Elem,     \* the element type T
          rawSize,  \* the second template parameter
          NoResult  \* what an operation without a result returns

ASSUME SizeAssumption == rawSize \in Nat \ {0}

VARIABLES numberOfElements, nextIn, nextOut,
          raw,      \* the slots
          ret       \* what the last operation returned

fifo == <<numberOfElements, nextIn, nextOut, raw, ret>>

Slot == 0 .. (rawSize - 1)

\* The constructor calls flush(); the slots hold whatever was there.
FIFOInit ==
  /\ raw \in [Slot -> Elem]
  /\ numberOfElements = 0
  /\ nextIn = 0
  /\ nextOut = 0
  /\ ret = NoResult

(***************************************************************************)
(* Faulty variants, which the properties below must tell from the code.    *)
(***************************************************************************)

\* The cursor is advanced before the element is read.
dequeue_PreIncrement ==
  /\ numberOfElements > 0
  /\ numberOfElements' = numberOfElements - 1
  /\ nextOut' = (nextOut % rawSize) + 1
  /\ ret' = raw[nextOut' % rawSize]
  /\ UNCHANGED <<nextIn, raw>>

\* flush() forgets the input cursor.
flush_KeepsNextIn ==
  /\ numberOfElements' = 0
  /\ nextOut' = 0
  /\ ret' = NoResult
  /\ UNCHANGED <<nextIn, raw>>

(***************************************************************************)
(* The operations.                                                         *)
(***************************************************************************)

enqueue(e) ==
  IF numberOfElements >= rawSize
  THEN /\ ret' = FALSE
       /\ UNCHANGED <<numberOfElements, nextIn, nextOut, raw>>
  ELSE /\ numberOfElements' = numberOfElements + 1
       /\ raw' = [raw EXCEPT ![nextIn % rawSize] = e]
       /\ nextIn' = (nextIn % rawSize) + 1
       /\ ret' = TRUE
       /\ UNCHANGED nextOut

dequeue ==
  /\ numberOfElements > 0
  /\ numberOfElements' = numberOfElements - 1
  /\ ret' = raw[nextOut % rawSize]
  /\ nextOut' = (nextOut % rawSize) + 1
  /\ UNCHANGED <<nextIn, raw>>

peek ==
  /\ numberOfElements > 0
  /\ ret' = raw[nextOut % rawSize]
  /\ UNCHANGED <<numberOfElements, nextIn, nextOut, raw>>

flush ==
  /\ numberOfElements' = 0
  /\ nextIn' = 0
  /\ nextOut' = 0
  /\ ret' = NoResult
  /\ UNCHANGED raw

FIFONext == (\E e \in Elem : enqueue(e)) \/ dequeue \/ peek \/ flush

FIFOSpec == FIFOInit /\ [][FIFONext]_fifo

-----------------------------------------------------------------------------
\* The types of the variables: the count never leaves 0..rawSize, and no
\* cursor goes past size (SimpleFIFO.h enqueue, dequeue).
TypeOK ==
  /\ numberOfElements \in 0..rawSize
  /\ nextIn \in 0..rawSize
  /\ nextOut \in 0..rawSize
  /\ raw \in [Slot -> Elem]
  /\ ret \in Elem \cup BOOLEAN \cup {NoResult}

\* The slot of the (i+1)-st oldest element.
SlotOf(i) == (nextOut + i) % rawSize

\* The two cursors and the count always agree: the next element goes to the
\* slot right after the newest one, although each cursor is reduced modulo
\* the size at a different time (SimpleFIFO.h enqueue, dequeue, flush).
CursorsAgree == nextIn % rawSize = SlotOf(numberOfElements)

\* The queue that the ring represents.
Contents == [i \in 1..numberOfElements |-> raw[SlotOf(i - 1)]]

Queue == INSTANCE BoundedFIFO WITH q <- Contents

\* The ring buffer behaves as a bounded queue: whatever the sequence of
\* calls, enqueue() accepts unless rawSize elements are in, and dequeue() and
\* peek() return the oldest element that is still in (SimpleFIFO.h).
QueueSpec == Queue!Spec
=============================================================================
