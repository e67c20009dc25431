------------------------ MODULE StreamWriter_proofs ------------------------
(***************************************************************************)
(* Proofs about StreamWriter, for every number of buffers and of pushes.   *)
(*                                                                         *)
(* The invariants are proved in layers, each one inductive relative to the *)
(* layers before it: types and the dequeue that pushBuffer() makes on the  *)
(* word of an unlocked test (Typed); who holds m_mutex, from which no      *)
(* wakeup is lost (Locking); where each buffer is (Placed); what each      *)
(* buffer carries, from which the order of the output follows (Carried);   *)
(* the regions of a call (Regions); and the life of the thread and of the  *)
(* object (Lifecycle).                                                     *)
(***************************************************************************)
EXTENDS StreamWriter, SequenceTheorems, TLAPS

-----------------------------------------------------------------------------
(***************************************************************************)
(* What the queue operators do, for every queue.                           *)
(***************************************************************************)

\* A queue stays a queue of the same kind of elements (SimpleFIFO.h enqueue).
LEMMA EnqueueType ==
  ASSUME NEW S, NEW q \in Seq(S), NEW e \in S, NEW n \in Nat
  PROVE  Enqueue(q, e, n) \in Seq(S)
BY AppendProperties DEF Enqueue

\* A queue that is not full accepts (SimpleFIFO.h:62).
LEMMA EnqueueAccepts ==
  ASSUME NEW S, NEW q \in Seq(S), NEW e \in S, NEW n \in Nat, Len(q) < n
  PROVE  Enqueue(q, e, n) = Append(q, e)
BY LenProperties DEF Enqueue

\* What enqueue adds (SimpleFIFO.h:60-68).
LEMMA AppendElements ==
  ASSUME NEW S, NEW q \in Seq(S), NEW e \in S
  PROVE  /\ Elements(Append(q, e)) = Elements(q) \cup {e}
         /\ Distinct(q) /\ e \notin Elements(q) => Distinct(Append(q, e))
         /\ Append(q, e) \in Seq(S)
         /\ Len(Append(q, e)) = Len(q) + 1
         /\ \A i \in 1..Len(q) : Append(q, e)[i] = q[i]
         /\ Append(q, e)[Len(q) + 1] = e
BY AppendProperties, LenProperties DEF Elements, Distinct

\* What dequeue removes (SimpleFIFO.h:69-74).
LEMMA TailElements ==
  ASSUME NEW S, NEW q \in Seq(S), q # <<>>
  PROVE  /\ Head(q) \in S
         /\ Tail(q) \in Seq(S)
         /\ Len(q) \in Nat \ {0}
         /\ Len(Tail(q)) = Len(q) - 1
         /\ \A i \in 1..Len(Tail(q)) : Tail(q)[i] = q[i + 1]
         /\ Head(q) = q[1]
         /\ Elements(q) = Elements(Tail(q)) \cup {Head(q)}
         /\ Distinct(q) =>
              Distinct(Tail(q)) /\ Head(q) \notin Elements(Tail(q))
<1>1. /\ Len(q) \in Nat \ {0}
      /\ Len(Tail(q)) = Len(q) - 1
      /\ Tail(q) \in Seq(S)
      /\ Head(q) = q[1]
      /\ Head(q) \in S
  BY HeadTailProperties, LenProperties, EmptySeq
<1>2. \A i \in 1..Len(Tail(q)) : Tail(q)[i] = q[i + 1]
  BY HeadTailProperties, LenProperties
<1>3. Elements(q) = Elements(Tail(q)) \cup {Head(q)}
  <2>1. ASSUME NEW i \in 1..Len(q)
        PROVE  q[i] \in Elements(Tail(q)) \cup {Head(q)}
    <3>1. CASE i = 1
      BY <3>1, <1>1
    <3>2. CASE i # 1
      <4>1. i - 1 \in 1..Len(Tail(q)) /\ q[i] = Tail(q)[i - 1]
        BY <3>2, <1>1, <1>2
      <4> QED BY <4>1 DEF Elements
    <3> QED BY <3>1, <3>2
  <2>2. ASSUME NEW i \in 1..Len(Tail(q))
        PROVE  Tail(q)[i] \in Elements(q)
    <3>1. i + 1 \in 1..Len(q) /\ Tail(q)[i] = q[i + 1]
      BY <1>1, <1>2
    <3> QED BY <3>1 DEF Elements
  <2>3. Head(q) \in Elements(q)
    BY <1>1 DEF Elements
  <2> QED BY <2>1, <2>2, <2>3 DEF Elements
<1>4. ASSUME Distinct(q)
      PROVE  Distinct(Tail(q)) /\ Head(q) \notin Elements(Tail(q))
  BY <1>1, <1>2, <1>4 DEF Distinct, Elements
<1> QED BY <1>1, <1>2, <1>3, <1>4

\* A queue of S holds elements of S.
LEMMA ElementsType ==
  ASSUME NEW S, NEW q \in Seq(S)
  PROVE  Elements(q) \subseteq S
BY ElementOfSeq DEF Elements

-----------------------------------------------------------------------------
\* A fresh queue of all the buffers (out_writer.cpp:42-45).
LEMMA FreshQueue ==
  LET q == [i \in 1..QE_SIZE |-> i]
  IN  /\ q \in Seq(Buf) /\ Len(q) = QE_SIZE
      /\ Elements(q) = Buf /\ Distinct(q)
BY SizeAssumption DEF Elements, Distinct, Buf

-----------------------------------------------------------------------------
(***************************************************************************)
(* Types.                                                                  *)
(***************************************************************************)

\* The types, and what the type of a dequeued buffer rests on: pushBuffer()
\* never dequeues from an empty m_qFree.
Typed ==
  /\ TypeOK
  /\ CheckedDequeue
  /\ client \in {"lock", "first", "second"} => npush # 0

\* Queueing a region keeps the types (out_writer.cpp:165-168, 172-175).
LEMMA FillType ==
  ASSUME Typed, client \in {"first", "second"}, m_qFree # <<>>,
         NEW part \in {0, 1}, Fill(part)
  PROVE  /\ m_qFree' \in Seq(Buf)
         /\ m_qReady' \in Seq(Buf)
         /\ mem' \in [Buf -> Segment \cup {NoSegment}]
         /\ accepted' \in Seq(Segment)
<1> DEFINE segment == [call |-> npush, part |-> part]
<1>1. segment \in Segment
  BY SizeAssumption DEF Typed, TypeOK, Segment
<1>2. Head(m_qFree) \in Buf /\ Tail(m_qFree) \in Seq(Buf)
  BY TailElements DEF Typed, TypeOK
<1>3. Enqueue(m_qReady, Head(m_qFree), QE_SIZE) \in Seq(Buf)
  BY <1>2, EnqueueType, SizeAssumption DEF Typed, TypeOK
<1>4. Append(accepted, segment) \in Seq(Segment)
  BY <1>1, AppendProperties DEF Typed, TypeOK
<1> QED BY <1>1, <1>2, <1>3, <1>4 DEF Fill, Typed, TypeOK

\* The constructor leaves every variable in its type (out_writer.cpp:33-47).
LEMMA TypedInit == Init => Typed
<1> SUFFICES ASSUME Init PROVE Typed
  OBVIOUS
<1>1. m_qFree \in Seq(Buf)
  BY FreshQueue DEF Init
<1>2. /\ accepted \in Seq(Segment)
      /\ written \in Seq(Segment \cup {NoSegment, Short})
      /\ m_qReady \in Seq(Buf)
  BY DEF Init
<1>3. mem \in [Buf -> Segment \cup {NoSegment}] /\ npush \in 0..MaxPush
  BY SizeAssumption DEF Init
<1>4. /\ client \in ClientState /\ client \notin {"lock", "first", "second"}
      /\ len \in Lengths
      /\ writer \in WriterState /\ writer \notin {"write", "return"}
      /\ mutex \in {"none", "client", "writer"}
  BY DEF Init, ClientState, WriterState, Lengths
<1>5. /\ myBuf \in Buf \cup {NoBuf}
      /\ m_end \in BOOLEAN /\ fdOpen \in BOOLEAN
      /\ freed \subseteq Buf
  BY DEF Init
<1> QED
  BY <1>1, <1>2, <1>3, <1>4, <1>5 DEF Typed, TypeOK, CheckedDequeue

\* No step leaves the types, and none takes the buffer that pushBuffer()
\* counts on.
LEMMA TypedNext == Typed /\ [Next]_vars => Typed'
<1> SUFFICES ASSUME Typed, [Next]_vars PROVE Typed'
  OBVIOUS
<1> USE DEF Typed, TypeOK, CheckedDequeue, ClientState, WriterState, history
<1>1. CASE OpenStream
  BY <1>1 DEF OpenStream
<1>2. CASE Begin
  BY <1>2 DEF Begin
<1>3. CASE PushCheck
  BY <1>3, SizeAssumption DEF PushCheck
<1>4. CASE PushLock
  BY <1>4 DEF PushLock
<1>5. CASE PushFirst
  <2>1. CASE len[1] # 0
    <3>1. Fill(0)
      BY <1>5, <2>1 DEF PushFirst
    <3>2. client = "first" /\ m_qFree # <<>>
      BY <1>5 DEF PushFirst
    <3>3. /\ m_qFree' \in Seq(Buf)
          /\ m_qReady' \in Seq(Buf)
          /\ mem' \in [Buf -> Segment \cup {NoSegment}]
          /\ accepted' \in Seq(Segment)
      BY <3>1, <3>2, FillType
    <3> QED BY <1>5, <3>3 DEF PushFirst
  <2>2. CASE len[1] = 0
    BY <1>5, <2>2 DEF PushFirst
  <2> QED BY <2>1, <2>2
<1>6. CASE PushSecond
  <2>1. CASE len[2] # 0 /\ m_qFree # <<>>
    <3>1. Fill(1) /\ client = "second"
      BY <1>6, <2>1 DEF PushSecond
    <3>2. /\ m_qFree' \in Seq(Buf)
          /\ m_qReady' \in Seq(Buf)
          /\ mem' \in [Buf -> Segment \cup {NoSegment}]
          /\ accepted' \in Seq(Segment)
      BY <2>1, <3>1, FillType
    <3> QED BY <1>6, <3>2 DEF PushSecond, Signal
  <2>2. CASE ~(len[2] # 0 /\ m_qFree # <<>>)
    BY <1>6, <2>2 DEF PushSecond, Signal
  <2> QED BY <2>1, <2>2
<1>7. CASE EndSet
  BY <1>7 DEF EndSet
<1>8. CASE EndSignal
  BY <1>8 DEF EndSignal, Signal
<1>9. CASE EndJoin
  BY <1>9 DEF EndJoin
<1>10. CASE Destroy
  <2>1. Elements(m_qFree) \subseteq Buf /\ Elements(m_qReady) \subseteq Buf
    BY ElementsType
  <2>2. freed' \subseteq Buf
    BY <1>10, <2>1 DEF Destroy
  <2>3. m_qFree' \in Seq(Buf) /\ m_qReady' \in Seq(Buf)
    BY <1>10 DEF Destroy
  <2> QED BY <1>10, <2>2, <2>3 DEF Destroy
<1>11. CASE WriterTest
  BY <1>11 DEF WriterTest
<1>12. CASE WriterLock
  BY <1>12 DEF WriterLock
<1>13. CASE WriterWake
  BY <1>13 DEF WriterWake
<1>14. CASE WriterTake
  <2>1. m_qReady # <<>> =>
          /\ Head(m_qReady) \in Buf /\ Tail(m_qReady) \in Seq(Buf)
          /\ Head(m_qReady) # NoBuf
    BY TailElements, SizeAssumption DEF Buf, NoBuf
  <2> QED BY <1>14, <2>1 DEF WriterTake
<1>15. CASE WriterWrite
  <2>1. mem[myBuf] \in Segment \cup {NoSegment}
    BY <1>15 DEF WriterWrite
  <2>2. written' \in Seq(Segment \cup {NoSegment, Short})
    BY <1>15, <2>1, AppendProperties DEF WriterWrite
  <2> QED BY <1>15, <2>2 DEF WriterWrite
<1>16. CASE WriterReturn
  <2>1. myBuf \in Buf
    BY <1>16 DEF WriterReturn
  <2>2. m_qFree' \in Seq(Buf) /\ (m_qFree # <<>> => m_qFree' # <<>>)
    BY <1>16, <2>1, EnqueueType, AppendProperties, SizeAssumption
    DEF WriterReturn, Enqueue
  <2> QED BY <1>16, <2>2 DEF WriterReturn
<1>17. CASE SpuriousWakeup
  BY <1>17 DEF SpuriousWakeup
<1>18. CASE UNCHANGED vars
  BY <1>18 DEF vars
<1> QED
  BY <1>1, <1>2, <1>3, <1>4, <1>5, <1>6, <1>7, <1>8, <1>9, <1>10, <1>11,
     <1>12, <1>13, <1>14, <1>15, <1>16, <1>17, <1>18
  DEF Next, ClientNext, WriterRuns

\* The layer as an invariant.
LEMMA TypedInvariant == Spec => []Typed
BY TypedInit, TypedNext, PTL DEF Spec

\* Every variable stays in its type: threadLoop() never works on a buffer it
\* did not get (out_writer.cpp:122-140).
THEOREM TypeCorrect == Spec => []TypeOK
<1>1. Typed => TypeOK
  BY DEF Typed
<1> QED BY <1>1, TypedInvariant, PTL

\* The buffer that pushBuffer() saw in m_qFree without m_mutex is still there
\* when it takes it (out_writer.cpp:155, 165).
THEOREM CheckHolds == Spec => []CheckedDequeue
<1>1. Typed => CheckedDequeue
  BY DEF Typed
<1> QED BY <1>1, TypedInvariant, PTL

-----------------------------------------------------------------------------
(***************************************************************************)
(* The lock and the condition variable.                                    *)
(***************************************************************************)

\* Who is in a critical section holds m_mutex, and whoever holds it is in one.
MutexHeld ==
  /\ mutex = "client" <=> client \in {"first", "second"}
  /\ mutex = "writer" <=> writer = "take"

\* There is no thread before begin().
NotStarted ==
  client \in {"constructed", "failed", "opened"} => writer = "none"

Locking == MutexHeld /\ NotStarted /\ NoLostWakeup

\* The critical sections exclude each other, and something is ready while the
\* writer waits only until the signal that follows.
LEMMA LockingNext == Typed /\ Locking /\ [Next]_vars => Locking'
<1> SUFFICES ASSUME Typed, Locking, [Next]_vars PROVE Locking'
  OBVIOUS
<1> USE DEF Typed, TypeOK, Locking, MutexHeld, NotStarted, NoLostWakeup, history
<1>1. CASE OpenStream
  BY <1>1 DEF OpenStream
<1>2. CASE Begin
  BY <1>2 DEF Begin
<1>3. CASE PushCheck
  BY <1>3 DEF PushCheck
<1>4. CASE PushLock
  BY <1>4 DEF PushLock
<1>5. CASE PushFirst
  BY <1>5 DEF PushFirst
<1>6. CASE PushSecond
  BY <1>6 DEF PushSecond, Signal
<1>7. CASE EndSet
  BY <1>7 DEF EndSet
<1>8. CASE EndSignal
  BY <1>8 DEF EndSignal, Signal
<1>9. CASE EndJoin
  BY <1>9 DEF EndJoin
<1>10. CASE Destroy
  BY <1>10 DEF Destroy
<1>11. CASE WriterTest
  BY <1>11 DEF WriterTest
<1>12. CASE WriterLock
  BY <1>12 DEF WriterLock
<1>13. CASE WriterWake
  BY <1>13 DEF WriterWake
<1>14. CASE WriterTake
  BY <1>14 DEF WriterTake
<1>15. CASE WriterWrite
  BY <1>15 DEF WriterWrite
<1>16. CASE WriterReturn
  BY <1>16 DEF WriterReturn
<1>17. CASE SpuriousWakeup
  BY <1>17 DEF SpuriousWakeup
<1>18. CASE UNCHANGED vars
  BY <1>18 DEF vars
<1> QED
  BY <1>1, <1>2, <1>3, <1>4, <1>5, <1>6, <1>7, <1>8, <1>9, <1>10, <1>11,
     <1>12, <1>13, <1>14, <1>15, <1>16, <1>17, <1>18
  DEF Next, ClientNext, WriterRuns

\* The layer as an invariant.
LEMMA LockingInvariant == Spec => []Locking
<1>1. Init => Locking
  BY DEF Init, Locking, MutexHeld, NotStarted, NoLostWakeup
<1> QED BY <1>1, TypedInvariant, LockingNext, PTL DEF Spec

\* threadLoop() never sleeps on a ready buffer once pushBuffer() has left its
\* critical section (out_writer.cpp:122-125, 177).
THEOREM NoWakeupIsLost == Spec => []NoLostWakeup
<1>1. Locking => NoLostWakeup
  BY DEF Locking
<1> QED BY <1>1, LockingInvariant, PTL
-----------------------------------------------------------------------------
(***************************************************************************)
(* Where the buffers are.                                                  *)
(***************************************************************************)

\* How many buffers are outside of both queues.
HandSize == IF writer \in {"write", "return"} THEN 1 ELSE 0

\* Ownership, and the count that keeps every enqueue below the capacity.
Placed ==
  /\ BufferOwnership
  /\ client # "destroyed" =>
       Len(m_qFree) + Len(m_qReady) + HandSize = QE_SIZE

\* Queueing a region moves one buffer from m_qFree to m_qReady
\* (out_writer.cpp:165-168, 172-175).
LEMMA FillPlaced ==
  ASSUME Typed, Placed, client \in {"first", "second"}, m_qFree # <<>>,
         NEW part \in {0, 1}, Fill(part),
         InHand' = InHand, HandSize' = HandSize
  PROVE  Placed'
<1> DEFINE b == Head(m_qFree)
<1>1. /\ m_qFree \in Seq(Buf) /\ m_qReady \in Seq(Buf)
      /\ HandSize \in Nat
      /\ Len(m_qFree) + Len(m_qReady) + HandSize = QE_SIZE
      /\ client # "destroyed"
  BY DEF Typed, TypeOK, Placed, HandSize
<1>2. /\ b \in Buf
      /\ Len(Tail(m_qFree)) = Len(m_qFree) - 1
      /\ Len(m_qFree) \in Nat \ {0}
      /\ Elements(m_qFree) = Elements(Tail(m_qFree)) \cup {b}
      /\ Distinct(Tail(m_qFree)) /\ b \notin Elements(Tail(m_qFree))
  BY <1>1, TailElements DEF Placed, BufferOwnership
<1>3. Len(m_qReady) \in Nat /\ Len(m_qReady) < QE_SIZE
  BY <1>1, <1>2, LenProperties, SizeAssumption
<1>4. Enqueue(m_qReady, b, QE_SIZE) = Append(m_qReady, b)
  BY <1>1, <1>2, <1>3, EnqueueAccepts, SizeAssumption
<1>5. m_qReady' = Append(m_qReady, b) /\ m_qFree' = Tail(m_qFree)
  BY <1>4 DEF Fill
<1>6. b \notin Elements(m_qReady) /\ b \notin InHand
  BY <1>1, <1>2 DEF Placed, BufferOwnership
<1>7. /\ Elements(m_qReady') = Elements(m_qReady) \cup {b}
      /\ Distinct(m_qReady')
      /\ Len(m_qReady') = Len(m_qReady) + 1
  BY <1>1, <1>2, <1>5, <1>6, AppendElements DEF Placed, BufferOwnership
<1>8. Len(m_qFree') + Len(m_qReady') + HandSize' = QE_SIZE
  BY <1>1, <1>2, <1>3, <1>5, <1>7
<1>9. /\ Elements(m_qFree') \cap Elements(m_qReady') = {}
      /\ InHand' \cap (Elements(m_qFree') \cup Elements(m_qReady')) = {}
      /\ Elements(m_qFree') \cup Elements(m_qReady') \cup InHand' = Buf
  BY <1>1, <1>2, <1>5, <1>6, <1>7 DEF Placed, BufferOwnership
<1> QED BY <1>2, <1>5, <1>7, <1>8, <1>9 DEF Placed, BufferOwnership

\* Every step moves whole buffers between the three places, or none.
LEMMA PlacedNext == Typed /\ Locking /\ Placed /\ [Next]_vars => Placed'
<1> SUFFICES ASSUME Typed, Locking, Placed, [Next]_vars PROVE Placed'
  OBVIOUS
<1> USE DEF history, Placed, BufferOwnership, InHand, HandSize
<1>1. CASE OpenStream
  BY <1>1 DEF OpenStream
<1>2. CASE Begin
  BY <1>2 DEF Begin, Locking, NotStarted
<1>3. CASE PushCheck
  BY <1>3 DEF PushCheck
<1>4. CASE PushLock
  BY <1>4 DEF PushLock
<1>5. CASE PushFirst
  <2>1. CASE len[1] # 0
    <3>1. /\ Fill(0) /\ client = "first" /\ m_qFree # <<>>
          /\ InHand' = InHand /\ HandSize' = HandSize
      BY <1>5, <2>1 DEF PushFirst, Typed, CheckedDequeue
    <3> HIDE DEF Placed, InHand, HandSize
    <3> QED BY <3>1, FillPlaced
  <2>2. CASE len[1] = 0
    BY <1>5, <2>2 DEF PushFirst
  <2> QED BY <2>1, <2>2
<1>6. CASE PushSecond
  <2>1. CASE len[2] # 0 /\ m_qFree # <<>>
    <3>1. /\ Fill(1) /\ client = "second" /\ m_qFree # <<>>
          /\ InHand' = InHand /\ HandSize' = HandSize
      BY <1>6, <2>1 DEF PushSecond, Signal
    <3> HIDE DEF Placed, InHand, HandSize
    <3> QED BY <3>1, FillPlaced
  <2>2. CASE ~(len[2] # 0 /\ m_qFree # <<>>)
    BY <1>6, <2>2 DEF PushSecond, Signal
  <2> QED BY <2>1, <2>2
<1>7. CASE EndSet
  BY <1>7 DEF EndSet
<1>8. CASE EndSignal
  BY <1>8 DEF EndSignal, Signal
<1>9. CASE EndJoin
  BY <1>9 DEF EndJoin
<1>10. CASE Destroy
  BY <1>10 DEF Destroy
<1>11. CASE WriterTest
  BY <1>11 DEF WriterTest
<1>12. CASE WriterLock
  BY <1>12 DEF WriterLock
<1>13. CASE WriterWake
  BY <1>13 DEF WriterWake
<1>14. CASE WriterTake
  <2>1. CASE m_qReady # <<>>
    <3>1. /\ Len(Tail(m_qReady)) = Len(m_qReady) - 1
          /\ Len(m_qReady) \in Nat
          /\ Elements(m_qReady) =
               Elements(Tail(m_qReady)) \cup {Head(m_qReady)}
          /\ Distinct(m_qReady) =>
               /\ Distinct(Tail(m_qReady))
               /\ Head(m_qReady) \notin Elements(Tail(m_qReady))
      BY <2>1, TailElements DEF Typed, TypeOK
    <3>2. /\ m_qReady' = Tail(m_qReady) /\ m_qFree' = m_qFree
          /\ InHand' = {Head(m_qReady)} /\ InHand = {}
          /\ HandSize' = 1 /\ HandSize = 0
          /\ client' = client
      BY <1>14, <2>1 DEF WriterTake
    <3>3. Len(m_qFree) \in Nat
      BY LenProperties DEF Typed, TypeOK
    <3>4. client # "destroyed" =>
            Len(m_qFree') + Len(m_qReady') + HandSize' = QE_SIZE
      <4>1. client # "destroyed" => Len(m_qFree) + Len(m_qReady) = QE_SIZE
        BY <3>1, <3>2, <3>3
      <4> HIDE DEF Placed, BufferOwnership, HandSize
      <4> QED BY <3>1, <3>2, <3>3, <4>1
    <3> HIDE DEF InHand, HandSize
    <3>5. client # "destroyed" =>
            /\ Distinct(m_qFree') /\ Distinct(m_qReady')
            /\ Elements(m_qFree') \cap Elements(m_qReady') = {}
      BY <3>1, <3>2
    <3>6. client # "destroyed" =>
            /\ InHand' \cap (Elements(m_qFree') \cup Elements(m_qReady')) = {}
            /\ Elements(m_qFree') \cup Elements(m_qReady') \cup InHand' = Buf
      BY <3>1, <3>2
    <3> QED BY <3>2, <3>4, <3>5, <3>6
  <2>2. CASE m_qReady = <<>>
    BY <1>14, <2>2 DEF WriterTake
  <2> QED BY <2>1, <2>2
<1>15. CASE WriterWrite
  BY <1>15 DEF WriterWrite
<1>16. CASE WriterReturn
  <2>1. /\ myBuf \in Buf /\ m_qFree \in Seq(Buf)
        /\ Len(m_qFree) \in Nat /\ Len(m_qReady) \in Nat
        /\ writer = "return" /\ client' = client
        /\ InHand' = {} /\ InHand = {myBuf}
        /\ HandSize' = 0 /\ HandSize = 1
        /\ m_qReady' = m_qReady
        /\ m_qFree' = Enqueue(m_qFree, myBuf, QE_SIZE)
    BY <1>16, LenProperties DEF WriterReturn, Typed, TypeOK
  <2> HIDE DEF InHand, HandSize
  <2>2. CASE client # "destroyed"
    <3>1. Len(m_qFree) < QE_SIZE
      BY <2>1, <2>2, SizeAssumption
    <3>2. m_qFree' = Append(m_qFree, myBuf)
      BY <2>1, <3>1, EnqueueAccepts, SizeAssumption
    <3>3. myBuf \notin Elements(m_qFree) /\ myBuf \notin Elements(m_qReady)
      BY <2>1, <2>2
    <3>4. /\ Elements(m_qFree') = Elements(m_qFree) \cup {myBuf}
          /\ Distinct(m_qFree')
          /\ Len(m_qFree') = Len(m_qFree) + 1
      BY <2>1, <2>2, <3>2, <3>3, AppendElements
    <3>5. Len(m_qFree') + Len(m_qReady') + HandSize' = QE_SIZE
      BY <2>1, <2>2, <3>4, SizeAssumption
    <3> QED BY <2>1, <2>2, <3>3, <3>4, <3>5
  <2>3. CASE client = "destroyed"
    BY <2>1, <2>3
  <2> QED BY <2>2, <2>3
<1>17. CASE SpuriousWakeup
  BY <1>17 DEF SpuriousWakeup
<1>18. CASE UNCHANGED vars
  BY <1>18 DEF vars
<1> QED
  BY <1>1, <1>2, <1>3, <1>4, <1>5, <1>6, <1>7, <1>8, <1>9, <1>10, <1>11,
     <1>12, <1>13, <1>14, <1>15, <1>16, <1>17, <1>18
  DEF Next, ClientNext, WriterRuns

\* The layer as an invariant.
LEMMA PlacedInvariant == Spec => []Placed
<1>1. Init => Placed
  <2> SUFFICES ASSUME Init PROVE Placed
    OBVIOUS
  <2>1. /\ Len(m_qFree) = QE_SIZE /\ Elements(m_qFree) = Buf
        /\ Distinct(m_qFree)
    BY FreshQueue DEF Init
  <2>2. Len(m_qReady) = 0 /\ Elements(m_qReady) = {} /\ Distinct(m_qReady)
    BY DEF Init, Elements, Distinct
  <2>3. InHand = {} /\ HandSize = 0
    BY DEF Init, InHand, HandSize
  <2> QED BY <2>1, <2>2, <2>3, SizeAssumption DEF Placed, BufferOwnership
<1> QED BY <1>1, TypedInvariant, LockingInvariant, PlacedNext, PTL DEF Spec

\* Whatever the two threads do, no buffer is lost, shared or queued twice
\* (out_writer.cpp:107-180).
THEOREM BuffersOwned == Spec => []BufferOwnership
<1>1. Placed => BufferOwnership
  BY DEF Placed
<1> QED BY <1>1, PlacedInvariant, PTL

-----------------------------------------------------------------------------
(***************************************************************************)
(* The life of the thread and of the object.                               *)
(***************************************************************************)

\* Nothing is freed before the destructor has joined the thread.
Lifecycle ==
  /\ client \in {"joined", "destroyed"} => writer \in {"none", "exited"}
  /\ client # "destroyed" => freed = {}
  /\ client \notin {"constructed", "failed", "destroyed"} => fdOpen
  /\ NoLeak

\* The destructor frees exactly what the constructor allocated.
LEMMA LifecycleNext ==
  Typed /\ Locking /\ Placed /\ Lifecycle /\ [Next]_vars => Lifecycle'
<1> SUFFICES ASSUME Typed, Locking, Placed, Lifecycle, [Next]_vars
             PROVE  Lifecycle'
  OBVIOUS
<1> USE DEF history, Lifecycle, NoLeak
<1>1. CASE OpenStream
  BY <1>1 DEF OpenStream
<1>2. CASE Begin
  BY <1>2 DEF Begin
<1>3. CASE PushCheck
  BY <1>3 DEF PushCheck
<1>4. CASE PushLock
  BY <1>4 DEF PushLock
<1>5. CASE PushFirst
  BY <1>5 DEF PushFirst
<1>6. CASE PushSecond
  BY <1>6 DEF PushSecond, Signal
<1>7. CASE EndSet
  BY <1>7 DEF EndSet
<1>8. CASE EndSignal
  BY <1>8 DEF EndSignal, Signal
<1>9. CASE EndJoin
  BY <1>9 DEF EndJoin
<1>10. CASE Destroy
  <2>1. InHand = {}
    BY <1>10 DEF Destroy, InHand
  <2>2. Elements(m_qFree) \cup Elements(m_qReady) = Buf /\ freed = {}
    BY <1>10, <2>1 DEF Destroy, Placed, BufferOwnership
  <2>3. freed' = Buf /\ fdOpen' = FALSE /\ writer' = writer
    BY <1>10, <2>2 DEF Destroy
  <2> QED BY <1>10, <2>3 DEF Destroy
<1>11. CASE WriterTest
  BY <1>11 DEF WriterTest
<1>12. CASE WriterLock
  BY <1>12 DEF WriterLock
<1>13. CASE WriterWake
  BY <1>13 DEF WriterWake
<1>14. CASE WriterTake
  BY <1>14 DEF WriterTake
<1>15. CASE WriterWrite
  BY <1>15 DEF WriterWrite
<1>16. CASE WriterReturn
  BY <1>16 DEF WriterReturn
<1>17. CASE SpuriousWakeup
  BY <1>17 DEF SpuriousWakeup
<1>18. CASE UNCHANGED vars
  BY <1>18 DEF vars
<1> QED
  BY <1>1, <1>2, <1>3, <1>4, <1>5, <1>6, <1>7, <1>8, <1>9, <1>10, <1>11,
     <1>12, <1>13, <1>14, <1>15, <1>16, <1>17, <1>18
  DEF Next, ClientNext, WriterRuns

\* The layer as an invariant.
LEMMA LifecycleInvariant == Spec => []Lifecycle
<1>1. Init => Lifecycle
  BY DEF Init, Lifecycle, NoLeak
<1> QED
  BY <1>1, TypedInvariant, LockingInvariant, PlacedInvariant, LifecycleNext,
     PTL DEF Spec

\* The buffers and the output outlive threadLoop() (out_writer.cpp:49-81).
THEOREM TeardownIsSafe == Spec => []TeardownSafe
<1>1. Typed /\ Locking /\ Lifecycle => TeardownSafe
  BY DEF Typed, TypeOK, ClientState, Locking, NotStarted, Lifecycle,
         TeardownSafe
<1> QED
  BY <1>1, TypedInvariant, LockingInvariant, LifecycleInvariant, PTL

\* The destructor leaves no buffer behind (out_writer.cpp:51-64).
THEOREM NothingLeaks == Spec => []NoLeak
<1>1. Lifecycle => NoLeak
  BY DEF Lifecycle
<1> QED BY <1>1, LifecycleInvariant, PTL
-----------------------------------------------------------------------------
(***************************************************************************)
(* The regions of a call.                                                  *)
(***************************************************************************)

\* When pushBuffer() is about to queue a second region, the newest segment is
\* the first region of the same call.
Regions ==
  /\ NoOrphanRegion
  /\ client = "second" /\ len[2] # 0 =>
       /\ Len(accepted) > 0
       /\ accepted[Len(accepted)] = [call |-> npush, part |-> 0]

\* The second region follows the first one of its call.
LEMMA RegionsNext == Typed /\ Regions /\ [Next]_vars => Regions'
<1> SUFFICES ASSUME Typed, Regions, [Next]_vars PROVE Regions'
  OBVIOUS
<1>0. accepted \in Seq(Segment) /\ Len(accepted) \in Nat
  BY LenProperties DEF Typed, TypeOK
<1> USE DEF history, Regions, NoOrphanRegion
<1>1. CASE OpenStream
  BY <1>1 DEF OpenStream
<1>2. CASE Begin
  BY <1>2 DEF Begin
<1>3. CASE PushCheck
  BY <1>3 DEF PushCheck
<1>4. CASE PushLock
  BY <1>4 DEF PushLock
<1>5. CASE PushFirst
  <2>1. CASE len[1] # 0
    <3> DEFINE segment == [call |-> npush, part |-> 0]
    <3>1. segment \in Segment
      BY <1>5, SizeAssumption DEF PushFirst, Typed, TypeOK, Segment
    <3>2. accepted' = Append(accepted, segment)
      BY <1>5, <2>1 DEF PushFirst, Fill
    <3>3. /\ Len(accepted') = Len(accepted) + 1
          /\ \A i \in 1..Len(accepted) : accepted'[i] = accepted[i]
          /\ accepted'[Len(accepted) + 1] = segment
      BY <1>0, <3>1, <3>2, AppendElements
    <3>4. npush' = npush
      BY <1>5 DEF PushFirst
    <3> QED BY <1>0, <3>3, <3>4
  <2>2. CASE len[1] = 0
    <3>1. len[2] = 0 /\ len' = len /\ accepted' = accepted
      BY <1>5, <2>2 DEF PushFirst, Typed, TypeOK, Lengths
    <3> QED BY <3>1
  <2> QED BY <2>1, <2>2
<1>6. CASE PushSecond
  <2>1. CASE len[2] # 0 /\ m_qFree # <<>>
    <3> DEFINE segment == [call |-> npush, part |-> 1]
    <3>1. segment \in Segment
      BY <1>6, SizeAssumption DEF PushSecond, Typed, TypeOK, Segment
    <3>2. accepted' = Append(accepted, segment) /\ client' = "idle"
      BY <1>6, <2>1 DEF PushSecond, Fill
    <3>3. /\ Len(accepted') = Len(accepted) + 1
          /\ \A i \in 1..Len(accepted) : accepted'[i] = accepted[i]
          /\ accepted'[Len(accepted) + 1] = segment
      BY <1>0, <3>1, <3>2, AppendElements
    <3>4. /\ Len(accepted) > 0
          /\ accepted[Len(accepted)] = [call |-> npush, part |-> 0]
      BY <1>6, <2>1 DEF PushSecond
    <3> QED BY <1>0, <3>2, <3>3, <3>4
  <2>2. CASE ~(len[2] # 0 /\ m_qFree # <<>>)
    BY <1>6, <2>2 DEF PushSecond, Signal
  <2> QED BY <2>1, <2>2
<1>7. CASE EndSet
  BY <1>7 DEF EndSet
<1>8. CASE EndSignal
  BY <1>8 DEF EndSignal, Signal
<1>9. CASE EndJoin
  BY <1>9 DEF EndJoin
<1>10. CASE Destroy
  BY <1>10 DEF Destroy
<1>11. CASE WriterTest
  BY <1>11 DEF WriterTest
<1>12. CASE WriterLock
  BY <1>12 DEF WriterLock
<1>13. CASE WriterWake
  BY <1>13 DEF WriterWake
<1>14. CASE WriterTake
  BY <1>14 DEF WriterTake
<1>15. CASE WriterWrite
  BY <1>15 DEF WriterWrite
<1>16. CASE WriterReturn
  BY <1>16 DEF WriterReturn
<1>17. CASE SpuriousWakeup
  BY <1>17 DEF SpuriousWakeup
<1>18. CASE UNCHANGED vars
  BY <1>18 DEF vars
<1> QED
  BY <1>1, <1>2, <1>3, <1>4, <1>5, <1>6, <1>7, <1>8, <1>9, <1>10, <1>11,
     <1>12, <1>13, <1>14, <1>15, <1>16, <1>17, <1>18
  DEF Next, ClientNext, WriterRuns

\* Of a wrapped frame the first region is never the one that is missing
\* (out_writer.cpp:163-176).
THEOREM NoRegionIsOrphan == Spec => []NoOrphanRegion
<1>1. Init => Regions
  BY DEF Init, Regions, NoOrphanRegion
<1>2. Regions => NoOrphanRegion
  BY DEF Regions
<1> QED BY <1>1, <1>2, TypedInvariant, RegionsNext, PTL DEF Spec

-----------------------------------------------------------------------------
(***************************************************************************)
(* What the buffers carry.                                                 *)
(***************************************************************************)

\* The segment that was taken from m_qReady and not given to write() yet.
TakenSize == IF writer = "write" THEN 1 ELSE 0

\* The accepted segments are those written, then the one in the hands of
\* threadLoop(), then those in m_qReady, each still in its buffer.
Carried ==
  /\ InOrder
  /\ client # "destroyed" =>
       /\ Len(accepted) = Len(written) + TakenSize + Len(m_qReady)
       /\ writer = "write" => mem[myBuf] = accepted[Len(written) + 1]
       /\ \A i \in 1..Len(m_qReady) :
            mem[m_qReady[i]] = accepted[Len(written) + TakenSize + i]

\* Queueing a region overwrites no buffer that is still to be written
\* (out_writer.cpp:165-168, 172-175).
LEMMA FillCarried ==
  ASSUME Typed, Placed, Carried, client \in {"first", "second"},
         m_qFree # <<>>, NEW part \in {0, 1}, Fill(part),
         written' = written, myBuf' = myBuf, TakenSize' = TakenSize,
         (writer' = "write") <=> (writer = "write")
  PROVE  Carried'
<1> DEFINE b == Head(m_qFree)
           segment == [call |-> npush, part |-> part]
<1>1. /\ m_qFree \in Seq(Buf) /\ m_qReady \in Seq(Buf)
      /\ accepted \in Seq(Segment)
      /\ Len(accepted) \in Nat /\ Len(m_qReady) \in Nat
      /\ Len(written) \in Nat /\ TakenSize \in Nat
      /\ mem \in [Buf -> Segment \cup {NoSegment}]
      /\ client # "destroyed"
  BY LenProperties DEF Typed, TypeOK, TakenSize
<1>2. segment \in Segment
  BY SizeAssumption DEF Typed, TypeOK, Segment
<1>3. /\ b \in Buf /\ b \in Elements(m_qFree) /\ Len(m_qFree) \in Nat \ {0}
  BY <1>1, TailElements
<1>4. /\ b \notin Elements(m_qReady) /\ b \notin InHand
  BY <1>1, <1>3 DEF Placed, BufferOwnership
<1>5. Len(m_qReady) < QE_SIZE
  BY <1>1, <1>3, SizeAssumption DEF Placed, HandSize
<1>6. m_qReady' = Append(m_qReady, b)
  BY <1>1, <1>3, <1>5, EnqueueAccepts, SizeAssumption DEF Fill
<1>7. /\ Len(m_qReady') = Len(m_qReady) + 1
      /\ \A i \in 1..Len(m_qReady) : m_qReady'[i] = m_qReady[i]
      /\ m_qReady'[Len(m_qReady) + 1] = b
  BY <1>1, <1>3, <1>6, AppendElements
<1>8. /\ Len(accepted') = Len(accepted) + 1
      /\ \A i \in 1..Len(accepted) : accepted'[i] = accepted[i]
      /\ accepted'[Len(accepted) + 1] = segment
  <2>1. accepted' = Append(accepted, segment)
    BY DEF Fill
  <2> QED BY <1>1, <1>2, <2>1, AppendElements
<1>9. /\ mem'[b] = segment
      /\ \A c \in Buf : c # b => mem'[c] = mem[c]
  BY <1>1, <1>3 DEF Fill
<1>10. InOrder'
  BY <1>1, <1>8 DEF Carried, InOrder
<1>11. Len(accepted') = Len(written') + TakenSize' + Len(m_qReady')
  BY <1>1, <1>7, <1>8 DEF Carried
<1>12. ASSUME writer' = "write"
       PROVE  mem'[myBuf'] = accepted'[Len(written') + 1]
  <2>1. TakenSize = 1 /\ myBuf \in InHand /\ myBuf \in Buf
    BY <1>12 DEF TakenSize, InHand, Typed, TypeOK
  <2>2. Len(written) + 1 \in 1..Len(accepted)
    BY <1>1, <2>1 DEF Carried
  <2>3. mem[myBuf] = accepted[Len(written) + 1]
    BY <1>1, <1>12 DEF Carried
  <2> QED BY <1>4, <1>8, <1>9, <2>1, <2>2, <2>3
<1>13. ASSUME NEW i \in 1..Len(m_qReady')
       PROVE  mem'[m_qReady'[i]] = accepted'[Len(written') + TakenSize' + i]
  <2>1. CASE i \in 1..Len(m_qReady)
    <3>1. m_qReady[i] \in Elements(m_qReady) /\ m_qReady[i] \in Buf
      BY <1>1, <2>1, ElementOfSeq DEF Elements
    <3>2. mem'[m_qReady'[i]] = mem[m_qReady[i]]
      BY <1>4, <1>7, <1>9, <2>1, <3>1
    <3>3. Len(written) + TakenSize + i \in 1..Len(accepted)
      BY <1>1, <2>1 DEF Carried
    <3>4. mem[m_qReady[i]] = accepted[Len(written) + TakenSize + i]
      BY <1>1, <2>1 DEF Carried
    <3> QED BY <1>8, <3>2, <3>3, <3>4
  <2>2. CASE i = Len(m_qReady) + 1
    <3>1. Len(written) + TakenSize + i = Len(accepted) + 1
      BY <1>1, <2>2 DEF Carried
    <3> QED BY <1>7, <1>8, <1>9, <2>2, <3>1
  <2> QED BY <1>1, <1>7, <2>1, <2>2
<1> QED BY <1>10, <1>11, <1>12, <1>13 DEF Carried

\* Every step keeps the segments and their order.
LEMMA CarriedNext ==
  Typed /\ Locking /\ Placed /\ Lifecycle /\ Carried /\ [Next]_vars
    => Carried'
<1> SUFFICES ASSUME Typed, Locking, Placed, Lifecycle, Carried, [Next]_vars
             PROVE  Carried'
  OBVIOUS
<1>0. /\ Len(accepted) \in Nat /\ Len(m_qReady) \in Nat
      /\ Len(written) \in Nat
  BY LenProperties DEF Typed, TypeOK
<1> USE DEF history, Carried, InOrder, TakenSize
<1>1. CASE OpenStream
  BY <1>1 DEF OpenStream
<1>2. CASE Begin
  <2>1. writer = "none" /\ writer' # "write"
    BY <1>2 DEF Begin, Locking, NotStarted
  <2> QED BY <1>2, <2>1 DEF Begin
<1>3. CASE PushCheck
  BY <1>3 DEF PushCheck
<1>4. CASE PushLock
  BY <1>4 DEF PushLock
<1>5. CASE PushFirst
  <2>1. CASE len[1] # 0
    <3>1. /\ Fill(0) /\ client = "first" /\ m_qFree # <<>>
          /\ written' = written /\ myBuf' = myBuf /\ TakenSize' = TakenSize
          /\ (writer' = "write") <=> (writer = "write")
      BY <1>5, <2>1 DEF PushFirst, Typed, CheckedDequeue
    <3> HIDE DEF Carried, TakenSize
    <3> QED BY <3>1, FillCarried
  <2>2. CASE len[1] = 0
    BY <1>5, <2>2 DEF PushFirst
  <2> QED BY <2>1, <2>2
<1>6. CASE PushSecond
  <2>1. CASE len[2] # 0 /\ m_qFree # <<>>
    <3>1. /\ Fill(1) /\ client = "second" /\ m_qFree # <<>>
          /\ written' = written /\ myBuf' = myBuf /\ TakenSize' = TakenSize
          /\ (writer' = "write") <=> (writer = "write")
      BY <1>6, <2>1 DEF PushSecond, Signal
    <3> HIDE DEF Carried, TakenSize
    <3> QED BY <3>1, FillCarried
  <2>2. CASE ~(len[2] # 0 /\ m_qFree # <<>>)
    BY <1>6, <2>2 DEF PushSecond, Signal
  <2> QED BY <2>1, <2>2
<1>7. CASE EndSet
  BY <1>7 DEF EndSet
<1>8. CASE EndSignal
  BY <1>8 DEF EndSignal, Signal
<1>9. CASE EndJoin
  BY <1>9 DEF EndJoin
<1>10. CASE Destroy
  BY <1>10 DEF Destroy
<1>11. CASE WriterTest
  BY <1>11 DEF WriterTest
<1>12. CASE WriterLock
  BY <1>12 DEF WriterLock
<1>13. CASE WriterWake
  BY <1>13 DEF WriterWake
<1>14. CASE WriterTake
  <2>1. CASE m_qReady # <<>>
    <3>1. /\ Len(Tail(m_qReady)) = Len(m_qReady) - 1
          /\ \A i \in 1..Len(Tail(m_qReady)) :
               Tail(m_qReady)[i] = m_qReady[i + 1]
          /\ Head(m_qReady) = m_qReady[1]
          /\ Len(m_qReady) \in Nat \ {0}
      BY <2>1, TailElements DEF Typed, TypeOK
    <3>2. /\ m_qReady' = Tail(m_qReady) /\ myBuf' = Head(m_qReady)
          /\ writer' = "write" /\ TakenSize' = 1 /\ TakenSize = 0
          /\ UNCHANGED <<client, mem, accepted, written>>
      BY <1>14, <2>1 DEF WriterTake
    <3>3. InOrder'
      BY <3>2
    <3> HIDE DEF TakenSize
    <3>4. ASSUME client # "destroyed"
          PROVE  /\ Len(accepted) = Len(written) + 1 + Len(m_qReady')
                 /\ mem[myBuf'] = accepted[Len(written) + 1]
      <4>1. 1 \in 1..Len(m_qReady) /\ Len(written) + 0 + 1 = Len(written) + 1
        BY <1>0, <3>1
      <4>2. mem[m_qReady[1]] = accepted[Len(written) + 0 + 1]
        BY <3>2, <3>4, <4>1
      <4>3. Len(accepted) = Len(written) + 0 + Len(m_qReady)
        BY <3>2, <3>4
      <4>4. Len(accepted) = Len(written) + 1 + Len(m_qReady')
        <5> HIDE DEF Carried
        <5> QED BY <1>0, <3>1, <3>2, <4>3
      <4> QED BY <3>1, <3>2, <4>1, <4>2, <4>4
    <3>5. ASSUME client # "destroyed", NEW i \in 1..Len(m_qReady')
          PROVE  mem[m_qReady'[i]] = accepted[Len(written) + 1 + i]
      <4>1. i + 1 \in 1..Len(m_qReady) /\ m_qReady'[i] = m_qReady[i + 1]
        BY <1>0, <3>1, <3>2
      <4>2. mem[m_qReady[i + 1]] = accepted[Len(written) + 0 + (i + 1)]
        BY <3>2, <3>5, <4>1
      <4> QED BY <1>0, <4>1, <4>2
    <3> QED BY <3>2, <3>3, <3>4, <3>5
  <2>2. CASE m_qReady = <<>>
    BY <1>14, <2>2 DEF WriterTake
  <2> QED BY <2>1, <2>2
<1>15. CASE WriterWrite
  <2>1. PICK x \in {mem[myBuf], Short} : written' = Append(written, x)
    BY <1>15 DEF WriterWrite
  <2>2. /\ writer = "write" /\ client # "destroyed"
        /\ TakenSize = 1 /\ TakenSize' = 0 /\ writer' = "return"
        /\ UNCHANGED <<client, mem, m_qReady, accepted>>
    BY <1>15 DEF WriterWrite, Lifecycle
  <2>3. /\ x \in Segment \cup {NoSegment, Short}
        /\ written \in Seq(Segment \cup {NoSegment, Short})
    BY <2>2 DEF Typed, TypeOK
  <2>4. /\ Len(written') = Len(written) + 1
        /\ \A i \in 1..Len(written) : written'[i] = written[i]
        /\ written'[Len(written) + 1] = x
    BY <2>1, <2>3, AppendElements
  <2> HIDE DEF TakenSize
  <2>5. x \in {accepted[Len(written) + 1], Short}
    BY <2>2
  <2>6. InOrder'
    BY <1>0, <2>2, <2>4, <2>5
  <2>7. Len(accepted') = Len(written') + TakenSize' + Len(m_qReady')
    BY <1>0, <2>2, <2>4
  <2>8. ASSUME NEW i \in 1..Len(m_qReady')
        PROVE  mem'[m_qReady'[i]] = accepted'[Len(written') + TakenSize' + i]
    <3>1. mem[m_qReady[i]] = accepted[Len(written) + 1 + i]
      BY <2>2
    <3> QED BY <1>0, <2>2, <2>4, <3>1
  <2> QED BY <2>2, <2>6, <2>7, <2>8
<1>16. CASE WriterReturn
  BY <1>16 DEF WriterReturn
<1>17. CASE SpuriousWakeup
  BY <1>17 DEF SpuriousWakeup
<1>18. CASE UNCHANGED vars
  BY <1>18 DEF vars
<1> QED
  BY <1>1, <1>2, <1>3, <1>4, <1>5, <1>6, <1>7, <1>8, <1>9, <1>10, <1>11,
     <1>12, <1>13, <1>14, <1>15, <1>16, <1>17, <1>18
  DEF Next, ClientNext, WriterRuns

\* The output is what was queued, in order, with gaps only where write()
\* failed (out_writer.cpp:107-180).
THEOREM OutputInOrder == Spec => []InOrder
<1>1. Init => Carried
  BY DEF Init, Carried, InOrder, TakenSize
<1>2. Carried => InOrder
  BY DEF Carried
<1> QED
  BY <1>1, <1>2, TypedInvariant, LockingInvariant, PlacedInvariant,
     LifecycleInvariant, CarriedNext, PTL DEF Spec

-----------------------------------------------------------------------------
(***************************************************************************)
(* The writer implements OutputChannel.                                    *)
(***************************************************************************)

\* Calls are numbered in the order they are made in.
Numbered ==
  \A i \in 1..Len(accepted) :
    /\ accepted[i].call <= npush
    /\ client \in {"lock", "first"} => accepted[i].call < npush

\* Queueing a region is a step of the channel, which has room for it
\* (out_writer.cpp:165-168, 172-175).
LEMMA FillQueues ==
  ASSUME Typed, Placed, Carried, Lifecycle, client \in {"first", "second"},
         m_qFree # <<>>, NEW part \in {0, 1}, Fill(part),
         Channel!Follows([call |-> npush, part |-> part]),
         UNCHANGED <<fdOpen, written>>
  PROVE  Channel!Next
<1> DEFINE segment == [call |-> npush, part |-> part]
<1>1. segment \in Segment
  BY SizeAssumption DEF Typed, TypeOK, Segment
<1>2. /\ m_qFree \in Seq(Buf) /\ Len(m_qFree) \in Nat \ {0}
      /\ Len(m_qReady) \in Nat /\ Len(written) \in Nat
  BY TailElements, LenProperties DEF Typed, TypeOK
<1>3. Len(m_qFree) + Len(m_qReady) + HandSize = QE_SIZE
  BY DEF Placed
<1>4. Len(accepted) = Len(written) + TakenSize + Len(m_qReady)
  BY DEF Carried
<1>5. TakenSize <= HandSize /\ TakenSize \in Nat /\ HandSize \in Nat
  BY DEF TakenSize, HandSize
<1>6. Len(accepted) < Len(written) + QE_SIZE
  BY <1>2, <1>3, <1>4, <1>5, SizeAssumption
<1>7. Channel!Queue(segment)
  BY <1>6 DEF Channel!Queue, Fill, Lifecycle
<1> QED BY <1>1, <1>7 DEF Channel!Next

\* A call that is about to queue its first region is newer than all before.
LEMMA NumberedNext == Typed /\ Numbered /\ [Next]_vars => Numbered'
<1> SUFFICES ASSUME Typed, Numbered, [Next]_vars PROVE Numbered'
  OBVIOUS
<1>0. /\ npush \in Nat
      /\ accepted \in Seq(Segment)
      /\ \A i \in 1..Len(accepted) : accepted[i].call \in Nat
  <2>1. \A i \in 1..Len(accepted) : accepted[i] \in Segment
    BY ElementOfSeq DEF Typed, TypeOK
  <2> QED BY <2>1, SizeAssumption DEF Typed, TypeOK, Segment
<1> USE DEF Numbered
<1>1. ASSUME NEW part \in {0, 1}, Fill(part), client' \in {"second", "idle"},
             npush' = npush
      PROVE  Numbered'
  <2> DEFINE segment == [call |-> npush, part |-> part]
  <2>1. /\ Len(accepted') = Len(accepted) + 1
        /\ \A i \in 1..Len(accepted) : accepted'[i] = accepted[i]
        /\ accepted'[Len(accepted) + 1] = segment
    <3>1. accepted' = Append(accepted, segment) /\ Len(accepted) \in Nat
      BY <1>0, <1>1, LenProperties DEF Fill
    <3> QED BY <1>0, <3>1, AppendProperties
  <2>2. ASSUME NEW i \in 1..Len(accepted') PROVE accepted'[i].call <= npush
    <3>1. i \in 1..Len(accepted) \/ i = Len(accepted) + 1
      BY <1>0, <2>1, LenProperties
    <3> QED BY <1>0, <2>1, <3>1
  <2> QED BY <1>1, <2>2
<1>2. CASE PushCheck
  BY <1>0, <1>2 DEF PushCheck
<1>3. CASE PushFirst
  BY <1>1, <1>3 DEF PushFirst
<1>4. CASE PushSecond
  BY <1>1, <1>4 DEF PushSecond
<1>5. CASE PushLock
  BY <1>5 DEF PushLock, history
<1>6. CASE OpenStream \/ Begin \/ EndSet \/ EndSignal \/ EndJoin \/ Destroy
  BY <1>6 DEF OpenStream, Begin, EndSet, EndSignal, EndJoin, Destroy, history
<1>7. CASE WriterRuns
  BY <1>7 DEF WriterRuns, WriterTest, WriterLock, WriterWake, WriterTake,
              WriterWrite, WriterReturn, history
<1>8. CASE SpuriousWakeup \/ UNCHANGED vars
  BY <1>8 DEF SpuriousWakeup, history, vars
<1> QED
  BY <1>2, <1>3, <1>4, <1>5, <1>6, <1>7, <1>8 DEF Next, ClientNext

\* Every step of the writer is one of the channel or leaves it alone.
LEMMA StepRefines ==
  Typed /\ Locking /\ Placed /\ Lifecycle /\ Regions /\ Carried /\ Numbered
    /\ [Next]_vars => [Channel!Next]_(Channel!vars)
<1> SUFFICES ASSUME Typed, Locking, Placed, Lifecycle, Regions, Carried,
                    Numbered, [Next]_vars
             PROVE  [Channel!Next]_(Channel!vars)
  OBVIOUS
<1> USE DEF Channel!vars, history
<1>1. CASE OpenStream
  <2>1. UNCHANGED <<accepted, written>>
    BY <1>1 DEF OpenStream
  <2>2. PICK ok \in BOOLEAN : fdOpen' = ok
    BY <1>1 DEF OpenStream
  <2>3. CASE ok
    BY <2>1, <2>2, <2>3 DEF Channel!Next, Channel!Open
  <2>4. CASE ~ok
    BY <2>1, <2>2, <2>4 DEF Channel!Next, Channel!Close
  <2> QED BY <2>3, <2>4
<1>2. CASE PushFirst
  <2>1. CASE len[1] # 0
    <3>1. /\ Fill(0) /\ client = "first" /\ m_qFree # <<>>
          /\ UNCHANGED <<fdOpen, written>>
      BY <1>2, <2>1 DEF PushFirst, Typed, CheckedDequeue
    <3>2. Channel!Follows([call |-> npush, part |-> 0])
      BY <3>1 DEF Channel!Follows, Numbered
    <3> QED BY <3>1, <3>2, FillQueues
  <2>2. CASE len[1] = 0
    BY <1>2, <2>2 DEF PushFirst
  <2> QED BY <2>1, <2>2
<1>3. CASE PushSecond
  <2>1. CASE len[2] # 0 /\ m_qFree # <<>>
    <3>1. /\ Fill(1) /\ client = "second"
          /\ UNCHANGED <<fdOpen, written>>
      BY <1>3, <2>1 DEF PushSecond
    <3>2. Channel!Follows([call |-> npush, part |-> 1])
      BY <2>1, <3>1 DEF Channel!Follows, Regions
    <3> QED BY <2>1, <3>1, <3>2, FillQueues
  <2>2. CASE ~(len[2] # 0 /\ m_qFree # <<>>)
    BY <1>3, <2>2 DEF PushSecond
  <2> QED BY <2>1, <2>2
<1>4. CASE WriterWrite
  <2>1. /\ Len(accepted) \in Nat /\ Len(written) \in Nat
        /\ Len(m_qReady) \in Nat
    BY LenProperties DEF Typed, TypeOK
  <2>2. client # "destroyed" /\ writer = "write" /\ fdOpen
    <3>1. writer = "write"
      BY <1>4 DEF WriterWrite
    <3>2. client \notin {"constructed", "failed"}
      BY <3>1 DEF Locking, NotStarted
    <3> QED BY <3>1, <3>2 DEF Lifecycle
  <2>3. /\ Len(written) < Len(accepted)
        /\ mem[myBuf] = accepted[Len(written) + 1]
    BY <2>1, <2>2 DEF Carried, TakenSize
  <2>4. Channel!Send
    BY <1>4, <2>3, <2>2 DEF WriterWrite, Channel!Send
  <2> QED BY <2>4 DEF Channel!Next
<1>5. CASE Destroy
  BY <1>5 DEF Destroy, Channel!Next, Channel!Close
<1>6. CASE Begin \/ PushCheck \/ PushLock \/ EndSet \/ EndSignal \/ EndJoin
  BY <1>6 DEF Begin, PushCheck, PushLock, EndSet, EndSignal, EndJoin
<1>7. CASE WriterTest \/ WriterLock \/ WriterWake \/ WriterTake \/ WriterReturn
  BY <1>7 DEF WriterTest, WriterLock, WriterWake, WriterTake, WriterReturn
<1>8. CASE SpuriousWakeup \/ UNCHANGED vars
  BY <1>8 DEF SpuriousWakeup, vars
<1> QED
  BY <1>1, <1>2, <1>3, <1>4, <1>5, <1>6, <1>7, <1>8
  DEF Next, ClientNext, WriterRuns

\* To whoever pushes, the writer with its thread is a bounded, ordered, lossy
\* channel: at most QE_SIZE segments are on their way, what is written is
\* what was queued, and nothing is written outside of the life of the output
\* (out_writer.cpp:33-192).
THEOREM WriterImplementsChannel == Spec => ChannelSpec
<1>1. Init => Channel!Init
  BY DEF Init, Channel!Init
<1>2. Init => Regions /\ Carried /\ Numbered
  BY DEF Init, Regions, NoOrphanRegion, Carried, InOrder, TakenSize, Numbered
<1> QED
  BY <1>1, <1>2, TypedInvariant, LockingInvariant, PlacedInvariant,
     LifecycleInvariant, RegionsNext, CarriedNext, NumberedNext, StepRefines,
     PTL
  DEF Spec, ChannelSpec, Channel!Spec
=============================================================================
