------------------------- MODULE SimpleFIFO_proofs -------------------------
(***************************************************************************)
(* Proofs about the ring buffer, for every size and every element type:    *)
(* the cursors and the count agree, and the ring implements BoundedFIFO.   *)
(***************************************************************************)
EXTENDS SimpleFIFO, SequenceTheorems, TLAPS

\* Reducing a cursor modulo the size, where the cursor has gone round at most
\* once.
LEMMA ModSmall ==
  ASSUME NEW a \in 0 .. (2 * rawSize)
  PROVE  /\ a % rawSize \in Slot
         /\ a < rawSize => a % rawSize = a
         /\ (rawSize <= a /\ a < 2 * rawSize) => a % rawSize = a - rawSize
         /\ a = 2 * rawSize => a % rawSize = 0
  BY SizeAssumption DEF Slot

\* The ring's inductive invariant.
RingInv == TypeOK /\ CursorsAgree

LEMMA RingInit == FIFOInit => RingInv
  <1> SUFFICES ASSUME FIFOInit PROVE RingInv
    OBVIOUS
  <1>1. TypeOK
    BY SizeAssumption DEF FIFOInit, TypeOK
  <1>2. CursorsAgree
    BY SizeAssumption DEF FIFOInit, CursorsAgree, SlotOf
  <1> QED BY <1>1, <1>2 DEF RingInv

LEMMA RingStep == RingInv /\ [FIFONext]_fifo => RingInv'
  <1> SUFFICES ASSUME RingInv, [FIFONext]_fifo PROVE RingInv'
    OBVIOUS
  <1> USE SizeAssumption
  <1>0. /\ TypeOK
        /\ nextIn \in 0..rawSize
        /\ nextOut \in 0..rawSize
        /\ numberOfElements \in 0..rawSize
        /\ nextIn % rawSize \in Slot
        /\ nextOut % rawSize \in Slot
        /\ nextIn % rawSize = (nextOut + numberOfElements) % rawSize
    <2>1. /\ nextIn \in 0..(2 * rawSize)
          /\ nextOut \in 0..(2 * rawSize)
      BY DEF RingInv, TypeOK
    <2> QED BY <2>1, ModSmall DEF RingInv, TypeOK, CursorsAgree, SlotOf
  <1>1. ASSUME NEW e \in Elem, enqueue(e) PROVE RingInv'
    <2>1. CASE numberOfElements >= rawSize
      BY <1>0, <1>1, <2>1 DEF enqueue, RingInv, TypeOK, CursorsAgree, SlotOf
    <2>2. CASE ~(numberOfElements >= rawSize)
      <3>1. TypeOK'
        BY <1>0, <1>1, <2>2 DEF enqueue, TypeOK, Slot
      <3>2. ((nextIn % rawSize) + 1) % rawSize
               = (nextOut + (numberOfElements + 1)) % rawSize
        <4>1. /\ nextOut + numberOfElements \in 0..(2 * rawSize)
              /\ nextOut + (numberOfElements + 1) \in 0..(2 * rawSize)
              /\ (nextIn % rawSize) + 1 \in 0..(2 * rawSize)
              /\ nextOut + numberOfElements < 2 * rawSize
          BY <1>0, <2>2 DEF Slot
        <4> QED BY <1>0, <4>1, ModSmall DEF Slot
      <3>3. CursorsAgree'
        BY <1>0, <1>1, <2>2, <3>2 DEF enqueue, CursorsAgree, SlotOf
      <3> QED BY <3>1, <3>3 DEF RingInv
    <2> QED BY <2>1, <2>2
  <1>2. CASE dequeue
    <2>1. TypeOK'
      BY <1>0, <1>2 DEF dequeue, TypeOK, Slot
    <2>2. (((nextOut % rawSize) + 1) + (numberOfElements - 1)) % rawSize
             = (nextOut + numberOfElements) % rawSize
      <3>1. ((nextOut % rawSize) + 1) + (numberOfElements - 1)
               = (nextOut % rawSize) + numberOfElements
        BY <1>0 DEF Slot
      <3>2. CASE nextOut < rawSize
        <4>1. nextOut % rawSize = nextOut
          BY <1>0, <3>2, ModSmall
        <4> QED BY <3>1, <4>1
      <3>3. CASE nextOut = rawSize
        <4>1. nextOut % rawSize = 0
          BY <1>0, <3>3, ModSmall
        <4>2. numberOfElements % rawSize = (rawSize + numberOfElements) % rawSize
          <5>1. /\ numberOfElements \in 0..(2 * rawSize)
                /\ rawSize + numberOfElements \in 0..(2 * rawSize)
            BY <1>0
          <5> QED BY <1>0, <5>1, ModSmall
        <4> QED BY <1>0, <3>1, <3>3, <4>1, <4>2
      <3> QED BY <1>0, <3>2, <3>3
    <2>3. CursorsAgree'
      BY <1>0, <1>2, <2>2 DEF dequeue, CursorsAgree, SlotOf
    <2> QED BY <2>1, <2>3 DEF RingInv
  <1>3. CASE peek
    BY <1>0, <1>3 DEF peek, RingInv, TypeOK, CursorsAgree, SlotOf
  <1>4. CASE flush
    BY <1>0, <1>4 DEF flush, RingInv, TypeOK, CursorsAgree, SlotOf
  <1>5. CASE UNCHANGED fifo
    BY <1>0, <1>5 DEF fifo, RingInv, TypeOK, CursorsAgree, SlotOf
  <1> QED BY <1>1, <1>2, <1>3, <1>4, <1>5 DEF FIFONext

\* The count stays within 0..rawSize and the next element always goes right
\* behind the newest one, for every ring size (SimpleFIFO.h enqueue, dequeue).
THEOREM RingInvariant == FIFOSpec => [](TypeOK /\ CursorsAgree)
  BY RingInit, RingStep, PTL DEF FIFOSpec, RingInv

-----------------------------------------------------------------------------
(***************************************************************************)
(* The ring implements the bounded queue.                                  *)
(***************************************************************************)

\* A slot that holds an element is not the slot the next element goes to.
LEMMA NextSlotIsFree ==
  ASSUME RingInv, numberOfElements < rawSize
  PROVE  /\ nextIn % rawSize \in Slot
         /\ \A i \in 0..(numberOfElements - 1) :
              SlotOf(i) \in Slot /\ SlotOf(i) # nextIn % rawSize
  <1> USE SizeAssumption
  <1>1. /\ nextIn \in 0..rawSize
        /\ nextOut \in 0..rawSize
        /\ numberOfElements \in 0..(rawSize - 1)
        /\ nextIn % rawSize = (nextOut + numberOfElements) % rawSize
    BY DEF RingInv, TypeOK, CursorsAgree, SlotOf
  <1>2. nextIn % rawSize \in Slot
    <2>1. nextIn \in 0..(2 * rawSize)
      BY <1>1
    <2> QED BY <2>1, ModSmall
  <1>3. ASSUME NEW i \in 0..(numberOfElements - 1)
        PROVE  SlotOf(i) \in Slot /\ SlotOf(i) # nextIn % rawSize
    <2>1. /\ nextOut + i \in 0..(2 * rawSize)
          /\ nextOut + numberOfElements \in 0..(2 * rawSize)
          /\ nextOut + numberOfElements < 2 * rawSize
          /\ nextOut + i < nextOut + numberOfElements
          /\ nextOut + numberOfElements < nextOut + i + rawSize
      BY <1>1
    <2> QED BY <1>1, <2>1, ModSmall DEF SlotOf, Slot
  <1> QED BY <1>2, <1>3

\* Taking the oldest element shifts the others by one.
LEMMA ShiftedSlot ==
  ASSUME TypeOK, NEW i \in 0..(rawSize - 1)
  PROVE  (((nextOut % rawSize) + 1) + i) % rawSize = SlotOf(i + 1)
  <1> USE SizeAssumption
  <1>1. nextOut \in 0..rawSize /\ nextOut \in 0..(2 * rawSize)
    BY DEF TypeOK
  <1>2. CASE nextOut < rawSize
    <2>1. nextOut % rawSize = nextOut
      BY <1>1, <1>2, ModSmall
    <2>2. (nextOut + 1) + i = nextOut + (i + 1)
      BY <1>1
    <2> QED BY <2>1, <2>2 DEF SlotOf
  <1>3. CASE nextOut = rawSize
    <2>1. nextOut % rawSize = 0
      BY <1>1, <1>3, ModSmall
    <2>2. (0 + 1) + i = i + 1
      OBVIOUS
    <2>3. (i + 1) % rawSize = (rawSize + (i + 1)) % rawSize
      <3>1. i + 1 \in 0..(2 * rawSize) /\ rawSize + (i + 1) \in 0..(2 * rawSize)
        OBVIOUS
      <3> QED BY <3>1, ModSmall
    <2> QED BY <1>3, <2>1, <2>2, <2>3 DEF SlotOf
  <1> QED BY <1>1, <1>2, <1>3

LEMMA ContentsSeq ==
  ASSUME RingInv
  PROVE  Contents \in Seq(Elem) /\ Len(Contents) = numberOfElements
  <1> USE SizeAssumption
  <1>1. ASSUME NEW i \in 1..numberOfElements PROVE raw[SlotOf(i - 1)] \in Elem
    <2>1. nextOut + (i - 1) \in 0..(2 * rawSize)
      BY DEF RingInv, TypeOK
    <2>2. SlotOf(i - 1) \in Slot
      BY <2>1, ModSmall DEF SlotOf
    <2> QED BY <2>2 DEF RingInv, TypeOK
  <1>2. numberOfElements \in Nat
    BY DEF RingInv, TypeOK
  <1> QED BY <1>1, <1>2 DEF Contents

\* enqueue() appends the element to the queue the ring represents, or refuses
\* it exactly when rawSize elements are in.
LEMMA EnqueueRefines ==
  ASSUME RingInv, RingInv', NEW e \in Elem, enqueue(e)
  PROVE  Queue!enqueue(e)
  <1> USE SizeAssumption
  <1>1. Contents \in Seq(Elem) /\ Len(Contents) = numberOfElements
    BY ContentsSeq
  <1>2. numberOfElements \in 0..rawSize
    BY DEF RingInv, TypeOK
  <1>3. CASE numberOfElements >= rawSize
    <2>1. Contents' = Contents
      BY <1>3 DEF enqueue, Contents, SlotOf
    <2>2. Contents' = Queue!Enqueue(Contents, e, rawSize)
      BY <1>1, <1>3, <2>1 DEF Queue!Enqueue
    <2>3. ret' = FALSE
      BY <1>3 DEF enqueue
    <2>4. (Len(Contents) < rawSize) = FALSE
      BY <1>1, <1>2, <1>3
    <2> QED BY <2>2, <2>3, <2>4 DEF Queue!enqueue
  <1>4. CASE numberOfElements < rawSize
    <2>1. /\ numberOfElements' = numberOfElements + 1
          /\ raw' = [raw EXCEPT ![nextIn % rawSize] = e]
          /\ nextOut' = nextOut
          /\ ret' = TRUE
          /\ raw \in [Slot -> Elem]
      BY <1>2, <1>4 DEF enqueue, RingInv, TypeOK
    <2>2. Contents' = [i \in 1..(numberOfElements + 1) |-> raw'[SlotOf(i - 1)]]
      BY <2>1 DEF Contents, SlotOf
    <2>3. ASSUME NEW i \in 1..numberOfElements
          PROVE  raw'[SlotOf(i - 1)] = Contents[i]
      <3>1. i - 1 \in 0..(numberOfElements - 1)
        BY <1>2
      <3>2. SlotOf(i - 1) \in Slot /\ SlotOf(i - 1) # nextIn % rawSize
        BY <1>4, <3>1, NextSlotIsFree
      <3> QED BY <2>1, <3>2 DEF Contents
    <2>4. raw'[SlotOf((numberOfElements + 1) - 1)] = e
      <3>1. (numberOfElements + 1) - 1 = numberOfElements
        BY <1>2
      <3>2. SlotOf(numberOfElements) = nextIn % rawSize /\ nextIn % rawSize \in Slot
        BY <1>4, NextSlotIsFree DEF RingInv, CursorsAgree
      <3> QED BY <2>1, <3>1, <3>2
    <2>5. Contents' = Append(Contents, e)
      <3>1. /\ Append(Contents, e) \in Seq(Elem)
            /\ Len(Append(Contents, e)) = numberOfElements + 1
            /\ \A i \in 1..numberOfElements : Append(Contents, e)[i] = Contents[i]
            /\ Append(Contents, e)[numberOfElements + 1] = e
        BY <1>1, AppendProperties
      <3>2. \A i \in 1..(numberOfElements + 1) :
              raw'[SlotOf(i - 1)] = Append(Contents, e)[i]
        BY <1>2, <2>3, <2>4, <3>1
      <3>3. \A i \in 1..(numberOfElements + 1) : raw'[SlotOf(i - 1)] \in Elem
        BY <1>2, <3>1, <3>2, ElementOfSeq
      <3>4. Contents' \in Seq(Elem) /\ Len(Contents') = numberOfElements + 1
        BY <1>2, <2>2, <3>3
      <3>5. \A i \in 1..(numberOfElements + 1) :
              Contents'[i] = Append(Contents, e)[i]
        BY <2>2, <3>2
      <3> QED BY <3>1, <3>4, <3>5, SeqEqual
    <2>6. Contents' = Queue!Enqueue(Contents, e, rawSize)
      BY <1>1, <1>2, <1>4, <2>5 DEF Queue!Enqueue
    <2>7. (Len(Contents) < rawSize) = TRUE
      BY <1>1, <1>4
    <2> QED BY <2>1, <2>6, <2>7, Zenon DEF Queue!enqueue
  <1> QED BY <1>2, <1>3, <1>4

\* dequeue() returns the oldest element and leaves the others in order.
LEMMA DequeueRefines ==
  ASSUME RingInv, dequeue
  PROVE  Queue!dequeue
  <1> USE SizeAssumption
  <1>1. Contents \in Seq(Elem) /\ Len(Contents) = numberOfElements
    BY ContentsSeq
  <1>2. numberOfElements \in 1..rawSize
    BY DEF RingInv, TypeOK, dequeue
  <1>3. nextOut \in 0..rawSize
    BY DEF RingInv, TypeOK
  <1>4. ret' = Head(Contents)
    <2>1. SlotOf(1 - 1) = nextOut % rawSize
      BY <1>3 DEF SlotOf
    <2> QED BY <1>1, <1>2, <2>1 DEF dequeue, Contents
  <1>5. Contents' = Tail(Contents)
    <2>1. Contents' = [i \in 1..(numberOfElements - 1) |->
                         raw[(((nextOut % rawSize) + 1) + (i - 1)) % rawSize]]
      BY DEF dequeue, Contents, SlotOf
    <2>2. ASSUME NEW i \in 1..(numberOfElements - 1)
          PROVE  raw[(((nextOut % rawSize) + 1) + (i - 1)) % rawSize]
                   = Contents[i + 1]
      <3>1. i - 1 \in 0..(rawSize - 1) /\ (i - 1) + 1 = i /\ (i + 1) - 1 = i
        BY <1>2
      <3>2. (((nextOut % rawSize) + 1) + (i - 1)) % rawSize = SlotOf(i)
        BY <3>1, ShiftedSlot DEF RingInv
      <3>3. i + 1 \in 1..numberOfElements
        BY <1>2
      <3> QED BY <3>1, <3>2, <3>3 DEF Contents
    <2>3. /\ Tail(Contents) \in Seq(Elem)
          /\ Len(Tail(Contents)) = numberOfElements - 1
          /\ \A i \in 1..(numberOfElements - 1) : Tail(Contents)[i] = Contents[i + 1]
      BY <1>1, <1>2, HeadTailProperties
    <2>4. Contents' \in Seq(Elem) /\ Len(Contents') = numberOfElements - 1
      <3>1. \A i \in 1..(numberOfElements - 1) : Contents[i + 1] \in Elem
        BY <1>1, <1>2, ElementOfSeq
      <3> QED BY <1>2, <2>1, <2>2, <3>1
    <2>5. \A i \in 1..(numberOfElements - 1) : Contents'[i] = Tail(Contents)[i]
      BY <2>1, <2>2, <2>3
    <2> QED BY <2>3, <2>4, <2>5, SeqEqual
  <1> QED BY <1>1, <1>2, <1>4, <1>5 DEF Queue!dequeue

LEMMA PeekRefines ==
  ASSUME RingInv, peek
  PROVE  Queue!peek
  <1> USE SizeAssumption
  <1>1. Contents \in Seq(Elem) /\ Len(Contents) = numberOfElements
    BY ContentsSeq
  <1>2. numberOfElements \in 1..rawSize /\ nextOut \in 0..rawSize
    BY DEF RingInv, TypeOK, peek
  <1>3. SlotOf(1 - 1) = nextOut % rawSize
    BY <1>2 DEF SlotOf
  <1>4. ret' = Head(Contents)
    BY <1>1, <1>2, <1>3 DEF peek, Contents
  <1>5. Contents' = Contents
    BY DEF peek, Contents, SlotOf
  <1> QED BY <1>1, <1>2, <1>4, <1>5 DEF Queue!peek

\* Every sequence of calls on the ring buffer is one of the bounded queue,
\* with the same results (SimpleFIFO.h): the callers may think of a sequence.
THEOREM RingImplementsQueue == FIFOSpec => QueueSpec
  <1>1. FIFOInit => Queue!Init
    BY SizeAssumption DEF FIFOInit, Queue!Init, Contents
  <1>2. RingInv /\ RingInv' /\ [FIFONext]_fifo => [Queue!Next]_(Queue!vars)
    <2> SUFFICES ASSUME RingInv, RingInv', [FIFONext]_fifo
                 PROVE  [Queue!Next]_(Queue!vars)
      OBVIOUS
    <2>1. ASSUME NEW e \in Elem, enqueue(e) PROVE Queue!Next
      BY <2>1, EnqueueRefines DEF Queue!Next
    <2>2. CASE dequeue
      BY <2>2, DequeueRefines DEF Queue!Next
    <2>3. CASE peek
      BY <2>3, PeekRefines DEF Queue!Next
    <2>4. CASE flush
      <3>1. Contents' = <<>> /\ ret' = NoResult
        BY <2>4 DEF flush, Contents
      <3> QED BY <3>1 DEF Queue!Next, Queue!flush
    <2>5. CASE UNCHANGED fifo
      BY <2>5 DEF fifo, Queue!vars, Contents, SlotOf
    <2> QED BY <2>1, <2>2, <2>3, <2>4, <2>5 DEF FIFONext
  <1> QED BY <1>1, <1>2, RingInit, RingStep, PTL
         DEF FIFOSpec, QueueSpec, Queue!Spec
=============================================================================
