----------------------- MODULE CapturePipeline_proofs -----------------------
(***************************************************************************)
(* Proofs about CapturePipeline, for every number of input buffers, camera *)
(* buffers, places in g_inFIFO and frames.                                 *)
(*                                                                         *)
(* The layers: where each thread can be while the others are where they are*)
(* (Phases); who has which buffer in its hands, with the types (Typed); the*)
(* places of the encoder's buffers (Placed) and of the camera's            *)
(* (CameraPlaced); the wait of the encoder thread (Waiting); the frames    *)
(* from the source to the encoder, which are one line in their order       *)
(* (Ordered); and what the encoder's buffer shows once it was encoded      *)
(* (Shown).                                                                *)
(***************************************************************************)
EXTENDS CapturePipeline, SequenceTheorems, FiniteSets, FiniteSetTheorems,
        TLAPS

-----------------------------------------------------------------------------
(***************************************************************************)
(* What the queue operators do, for every queue.                           *)
(***************************************************************************)

\* A queue stays a queue of the same kind of elements (SimpleFIFO.h enqueue).
LEMMA EnqueueType ==
  ASSUME NEW S, NEW q \in Seq(S), NEW e \in S, NEW n \in Nat
  PROVE  Enqueue(q, e, n) \in Seq(S)
BY AppendProperties DEF Enqueue

\* A queue that is not full accepts (SimpleFIFO.h:62).
LEMMA EnqueueAccepts ==
  ASSUME NEW S, NEW q \in Seq(S), NEW e \in S, NEW n \in Nat, Len(q) < n
  PROVE  Enqueue(q, e, n) = Append(q, e)
BY LenProperties DEF Enqueue

\* What enqueue adds (SimpleFIFO.h:60-68).
LEMMA AppendElements ==
  ASSUME NEW S, NEW q \in Seq(S), NEW e \in S
  PROVE  /\ Elements(Append(q, e)) = Elements(q) \cup {e}
         /\ Distinct(q) /\ e \notin Elements(q) => Distinct(Append(q, e))
         /\ Append(q, e) \in Seq(S)
         /\ Len(Append(q, e)) = Len(q) + 1
         /\ \A i \in 1..Len(q) : Append(q, e)[i] = q[i]
         /\ Append(q, e)[Len(q) + 1] = e
BY AppendProperties, LenProperties DEF Elements, Distinct

\* What dequeue removes (SimpleFIFO.h:69-74).
LEMMA TailElements ==
  ASSUME NEW S, NEW q \in Seq(S), q # <<>>
  PROVE  /\ Head(q) \in S
         /\ Tail(q) \in Seq(S)
         /\ Len(q) \in Nat \ {0}
         /\ Len(Tail(q)) = Len(q) - 1
         /\ \A i \in 1..Len(Tail(q)) : Tail(q)[i] = q[i + 1]
         /\ Head(q) = q[1]
         /\ Elements(q) = Elements(Tail(q)) \cup {Head(q)}
         /\ Distinct(q) =>
              Distinct(Tail(q)) /\ Head(q) \notin Elements(Tail(q))
<1>1. /\ Len(q) \in Nat \ {0}
      /\ Len(Tail(q)) = Len(q) - 1
      /\ Tail(q) \in Seq(S)
      /\ Head(q) = q[1]
      /\ Head(q) \in S
  BY HeadTailProperties, LenProperties, EmptySeq
<1>2. \A i \in 1..Len(Tail(q)) : Tail(q)[i] = q[i + 1]
  BY HeadTailProperties, LenProperties
<1>3. Elements(q) = Elements(Tail(q)) \cup {Head(q)}
  <2>1. ASSUME NEW i \in 1..Len(q)
        PROVE  q[i] \in Elements(Tail(q)) \cup {Head(q)}
    <3>1. CASE i = 1
      BY <3>1, <1>1
    <3>2. CASE i # 1
      <4>1. i - 1 \in 1..Len(Tail(q)) /\ q[i] = Tail(q)[i - 1]
        BY <3>2, <1>1, <1>2
      <4> QED BY <4>1 DEF Elements
    <3> QED BY <3>1, <3>2
  <2>2. ASSUME NEW i \in 1..Len(Tail(q))
        PROVE  Tail(q)[i] \in Elements(q)
    <3>1. i + 1 \in 1..Len(q) /\ Tail(q)[i] = q[i + 1]
      BY <1>1, <1>2
    <3> QED BY <3>1 DEF Elements
  <2>3. Head(q) \in Elements(q)
    BY <1>1 DEF Elements
  <2> QED BY <2>1, <2>2, <2>3 DEF Elements
<1>4. ASSUME Distinct(q)
      PROVE  Distinct(Tail(q)) /\ Head(q) \notin Elements(Tail(q))
  BY <1>1, <1>2, <1>4 DEF Distinct, Elements
<1> QED BY <1>1, <1>2, <1>3, <1>4

\* A queue of S holds elements of S.
LEMMA ElementsType ==
  ASSUME NEW S, NEW q \in Seq(S)
  PROVE  Elements(q) \subseteq S
BY ElementOfSeq DEF Elements

-----------------------------------------------------------------------------
\* The source states in which input_buffer is a buffer of the encoder.
SourceHas == {"copy", "return", "read", "eof", "discard", "queue"}

\* The encoder states in which input_buffer is a frame.
EncoderHas == {"encode", "raw", "used"}

\* The states of a callback that holds a camera buffer.
CallbackHas == {"enter", "check", "alloc", "copy", "giveBack", "return"}

\* There is no encoder thread before main() creates it, and none when main()
\* cleans up; there is no source thread before main() starts it; a thread is
\* only in the states of its own loop.
Phases ==
  /\ main \in MainState
  /\ src \in SourceState
  /\ enc \in EncoderState
  /\ input \in {"camera", "pipe"}
  /\ main = "start" => src = "none"
  /\ main \in {"start", "size", "set", "create"} => enc = "none"
  /\ EncoderQuiesced
  /\ input = "camera" => src \notin {"read", "eof", "discard"}
  /\ input = "pipe" =>
       src \notin {"grab", "enter", "check", "copy", "giveBack", "return"}
  /\ isStart => main # "start"

\* The states of the loops.
LEMMA PhasesNext == Phases /\ [Next]_vars => Phases'
<1> SUFFICES ASSUME Phases, [Next]_vars PROVE Phases'
  OBVIOUS
<1> USE DEF Phases, MainState, SourceState, EncoderState, EncoderQuiesced,
            setup, sourceVars, encoderVars, sourceKeeps, encoderKeeps
<1>1. CASE input = "camera" /\ CameraTest
  BY <1>1 DEF CameraTest
<1>2. CASE input = "camera" /\ CameraGetOneframe
  BY <1>2 DEF CameraGetOneframe
<1>3. CASE input = "camera" /\ CameraEnter
  BY <1>3 DEF CameraEnter
<1>4. CASE input = "camera" /\ CameraCheck
  BY <1>4 DEF CameraCheck
<1>5. CASE input = "camera" /\ CameraAlloc
  BY <1>5 DEF CameraAlloc
<1>6. CASE input = "camera" /\ CameraCopy
  BY <1>6 DEF CameraCopy
<1>7. CASE input = "camera" /\ CameraReturnFrame
  BY <1>7 DEF CameraReturnFrame
<1>8. CASE input = "camera" /\ CameraQueue
  BY <1>8 DEF CameraQueue, QueueFrame, Signalled
<1>9. CASE input = "pipe" /\ FileTest
  BY <1>9 DEF FileTest
<1>10. CASE input = "pipe" /\ FileAlloc
  BY <1>10 DEF FileAlloc
<1>11. CASE input = "pipe" /\ FileRead
  BY <1>11 DEF FileRead
<1>12. CASE input = "pipe" /\ FileEof
  BY <1>12 DEF FileEof
<1>13. CASE input = "pipe" /\ FileDiscard
  BY <1>13 DEF FileDiscard
<1>14. CASE input = "pipe" /\ FileQueue
  BY <1>14 DEF FileQueue, QueueFrame, Signalled
<1>15. CASE EncoderTest
  BY <1>15 DEF EncoderTest
<1>16. CASE EncoderLock
  BY <1>16 DEF EncoderLock, TakeFrame
<1>17. CASE EncoderWake
  BY <1>17 DEF EncoderWake, TakeFrame
<1>18. CASE EncodeFrame
  BY <1>18 DEF EncodeFrame
<1>19. CASE PushRaw
  BY <1>19 DEF PushRaw
<1>20. CASE ReturnBuffer
  BY <1>20 DEF ReturnBuffer
<1>21. CASE StartFileThread
  BY <1>21 DEF StartFileThread
<1>22. CASE StartCamera
  BY <1>22 DEF StartCamera
<1>23. CASE CheckSize
  BY <1>23 DEF CheckSize
<1>24. CASE StartEncoder
  BY <1>24 DEF StartEncoder
<1>25. CASE CreateEncoderThread
  BY <1>25 DEF CreateEncoderThread
<1>26. CASE LeaveLoop
  BY <1>26 DEF LeaveLoop
<1>27. CASE SignalEncoder
  BY <1>27 DEF SignalEncoder, Signalled
<1>28. CASE StopEncoder
  BY <1>28 DEF StopEncoder
<1>29. CASE JoinEncoder
  BY <1>29 DEF JoinEncoder
<1>30. CASE ForgetCamera
  BY <1>30 DEF ForgetCamera
<1>31. CASE ReleaseEncoder
  BY <1>31 DEF ReleaseEncoder
<1>32. CASE Exit
  BY <1>32 DEF Exit
<1>33. CASE SpuriousWakeup
  BY <1>33 DEF SpuriousWakeup
<1>34. CASE UNCHANGED vars
  BY <1>34 DEF vars
<1> QED
  BY <1>1, <1>2, <1>3, <1>4, <1>5, <1>6, <1>7, <1>8, <1>9, <1>10, <1>11,
     <1>12, <1>13, <1>14, <1>15, <1>16, <1>17, <1>18, <1>19, <1>20, <1>21,
     <1>22, <1>23, <1>24, <1>25, <1>26, <1>27, <1>28, <1>29, <1>30, <1>31,
     <1>32, <1>33, <1>34
  DEF Next, CameraRuns, FileRuns, EncoderRuns, MainRuns

\* The layer as an invariant.
LEMMA PhasesInvariant == Spec => []Phases
<1>1. Init => Phases
  BY DEF Init, Phases, MainState, SourceState, EncoderState, EncoderQuiesced
<1> QED BY <1>1, PhasesNext, PTL DEF Spec

\* The encoder is not released under the feet of the encoder thread: main()
\* has joined it, or it was never created (videoenc.cpp:605-609, 626-630,
\* 659-678).
THEOREM EncoderIsQuiesced == Spec => []EncoderQuiesced
<1>1. Phases => EncoderQuiesced
  BY DEF Phases
<1> QED BY <1>1, PhasesInvariant, PTL

-----------------------------------------------------------------------------
(***************************************************************************)
(* Types, and who has what in its hands.                                   *)
(***************************************************************************)

\* A thread has a buffer exactly in the states that work on one.  (A source
\* thread that ran into what was released is left as it was.)
Hands ==
  /\ src # "crashed" => (srcBuf # NoBuf <=> src \in SourceHas)
  /\ encBuf # NoBuf <=> enc \in EncoderHas
  /\ input = "camera" /\ src # "crashed"
       => (camBuf # NoBuf <=> src \in CallbackHas)
  /\ input = "pipe" => camBuf = NoBuf

Typed == TypeOK /\ Hands

\* What the source brings keeps the types (videoenc.cpp:197-205, 386-394).
LEMMA QueueFrameType ==
  ASSUME Typed, src = "queue", QueueFrame
  PROVE  inFIFO' \in Seq(Buf) /\ pool' \subseteq Buf
<1>1. srcBuf \in Buf
  BY DEF Typed, TypeOK
<1>2. inFIFO' \in Seq(Buf)
  BY <1>1, EnqueueType, SizeAssumption DEF QueueFrame, Typed, TypeOK
<1>3. pool' \subseteq Buf
  BY <1>1 DEF QueueFrame, Typed, TypeOK
<1> QED BY <1>2, <1>3

\* A frame that is taken is one of the encoder's buffers (videoenc.cpp:439).
LEMMA TakeFrameType ==
  ASSUME Typed, inFIFO # <<>>, TakeFrame
  PROVE  inFIFO' \in Seq(Buf) /\ encBuf' \in Buf /\ encBuf' # NoBuf
<1>1. Head(inFIFO) \in Buf /\ Tail(inFIFO) \in Seq(Buf)
  BY TailElements DEF Typed, TypeOK
<1>2. NoBuf \notin Buf
  BY SizeAssumption DEF Buf, NoBuf
<1> QED BY <1>1, <1>2 DEF TakeFrame

\* The constants of the types.
LEMMA ContentFacts ==
  /\ NoBuf \notin Buf /\ NoBuf \notin CamBuf
  /\ Partial \in Content
  /\ \A n \in 0..MaxFrames : n \in Content
  /\ \A n \in 0..MaxFrames : n < MaxFrames => n + 1 \in 0..MaxFrames
  /\ \A n \in 0..BUFFER_NUMBER : 1..n \subseteq CamBuf /\ NoBuf \notin 1..n
BY SizeAssumption DEF NoBuf, Buf, CamBuf, Partial, Content

\* No step leaves the types, and no thread uses a buffer it does not have.
LEMMA TypedNext == Phases /\ Phases' /\ Typed /\ [Next]_vars => Typed'
<1> SUFFICES ASSUME Phases, Phases', Typed, [Next]_vars PROVE Typed'
  OBVIOUS
<1>0. /\ NoBuf \notin Buf /\ NoBuf \notin CamBuf
      /\ Partial \in Content
      /\ \A n \in 0..MaxFrames : n \in Content
      /\ \A n \in 0..MaxFrames : n < MaxFrames => n + 1 \in 0..MaxFrames
  BY ContentFacts
<1> USE DEF Phases, Typed, TypeOK, Hands, SourceHas, EncoderHas, CallbackHas,
            setup, sourceVars, encoderVars, sourceKeeps, encoderKeeps
<1>1. CASE input = "camera" /\ CameraTest
  BY <1>1 DEF CameraTest
<1>2. CASE input = "camera" /\ CameraGetOneframe
  BY <1>0, <1>2 DEF CameraGetOneframe
<1>3. CASE input = "camera" /\ CameraEnter
  BY <1>3 DEF CameraEnter
<1>4. CASE input = "camera" /\ CameraCheck
  BY <1>4 DEF CameraCheck
<1>5. CASE input = "camera" /\ CameraAlloc
  BY <1>0, <1>5 DEF CameraAlloc
<1>6. CASE input = "camera" /\ CameraCopy
  BY <1>0, <1>6 DEF CameraCopy
<1>7. CASE input = "camera" /\ CameraReturnFrame
  BY <1>0, <1>7 DEF CameraReturnFrame
<1>8. CASE input = "camera" /\ CameraQueue
  <2>1. src = "queue" /\ QueueFrame
    BY <1>8 DEF CameraQueue
  <2>2. inFIFO' \in Seq(Buf) /\ pool' \subseteq Buf
    BY <2>1, QueueFrameType
  <2> QED BY <1>8, <2>2 DEF CameraQueue, QueueFrame, Signalled
<1>9. CASE input = "pipe" /\ FileTest
  BY <1>9 DEF FileTest
<1>10. CASE input = "pipe" /\ FileAlloc
  BY <1>0, <1>10 DEF FileAlloc
<1>11. CASE input = "pipe" /\ FileRead
  BY <1>0, <1>11 DEF FileRead
<1>12. CASE input = "pipe" /\ FileEof
  BY <1>12 DEF FileEof
<1>13. CASE input = "pipe" /\ FileDiscard
  BY <1>0, <1>13 DEF FileDiscard
<1>14. CASE input = "pipe" /\ FileQueue
  <2>1. src = "queue" /\ QueueFrame
    BY <1>14 DEF FileQueue
  <2>2. inFIFO' \in Seq(Buf) /\ pool' \subseteq Buf
    BY <2>1, QueueFrameType
  <2> QED BY <1>14, <2>2 DEF FileQueue, QueueFrame, Signalled
<1>15. CASE EncoderTest
  BY <1>15 DEF EncoderTest
<1>16. CASE EncoderLock
  <2>1. CASE inFIFO # <<>>
    <3>1. TakeFrame
      BY <1>16, <2>1 DEF EncoderLock
    <3>2. inFIFO' \in Seq(Buf) /\ encBuf' \in Buf /\ encBuf' # NoBuf
      BY <2>1, <3>1, TakeFrameType
    <3> QED BY <1>16, <2>1, <3>2 DEF EncoderLock, TakeFrame
  <2>2. CASE inFIFO = <<>>
    BY <1>16, <2>2 DEF EncoderLock
  <2> QED BY <2>1, <2>2
<1>17. CASE EncoderWake
  <2>1. CASE inFIFO # <<>>
    <3>1. TakeFrame
      BY <1>17, <2>1 DEF EncoderWake
    <3>2. inFIFO' \in Seq(Buf) /\ encBuf' \in Buf /\ encBuf' # NoBuf
      BY <2>1, <3>1, TakeFrameType
    <3> QED BY <1>17, <2>1, <3>2 DEF EncoderWake, TakeFrame
  <2>2. CASE inFIFO = <<>>
    BY <1>17, <2>2 DEF EncoderWake
  <2> QED BY <2>1, <2>2
<1>18. CASE EncodeFrame
  <2>1. content[encBuf] \in Content
    BY <1>18 DEF EncodeFrame
  <2>2. encoded' \in Seq(Content)
    BY <1>18, <2>1, AppendProperties DEF EncodeFrame
  <2> QED BY <1>18, <2>2 DEF EncodeFrame
<1>19. CASE PushRaw
  <2>1. content[encBuf] \in Content
    BY <1>19 DEF PushRaw
  <2>2. raw' \in Seq(Content)
    BY <1>19, <2>1, AppendProperties DEF PushRaw
  <2> QED BY <1>19, <2>2 DEF PushRaw
<1>20. CASE ReturnBuffer
  BY <1>0, <1>20 DEF ReturnBuffer
<1>21. CASE StartFileThread
  BY <1>21 DEF StartFileThread
<1>22. CASE StartCamera
  <2>1. driver' \subseteq CamBuf
    BY <1>22, ContentFacts DEF StartCamera
  <2>2. mstart' \in BOOLEAN /\ cameraDevice' \in BOOLEAN /\ isStart' \in BOOLEAN
    BY <1>22 DEF StartCamera
  <2>3. TypeOK'
    BY <1>22, <2>1, <2>2 DEF StartCamera
  <2>4. Hands'
    BY <1>22 DEF StartCamera
  <2> QED BY <2>3, <2>4
<1>23. CASE CheckSize
  BY <1>23 DEF CheckSize
<1>24. CASE StartEncoder
  BY <1>24 DEF StartEncoder
<1>25. CASE CreateEncoderThread
  BY <1>25 DEF CreateEncoderThread
<1>26. CASE LeaveLoop
  BY <1>26 DEF LeaveLoop
<1>27. CASE SignalEncoder
  BY <1>27 DEF SignalEncoder, Signalled
<1>28. CASE StopEncoder
  <2>1. /\ UNCHANGED <<setup, sourceVars, encoderVars, cameraDevice, isStart, inFIFO,
                       pool>>
        /\ mstart' \in BOOLEAN
    BY <1>28 DEF StopEncoder
  <2>2. TypeOK'
    BY <2>1
  <2> QED BY <2>1, <2>2
<1>29. CASE JoinEncoder
  BY <1>29 DEF JoinEncoder
<1>30. CASE ForgetCamera
  <2>1. /\ UNCHANGED <<setup, sourceVars, encoderVars, mstart, isStart, inFIFO,
                       pool>>
        /\ cameraDevice' \in BOOLEAN
    BY <1>30 DEF ForgetCamera
  <2>2. TypeOK'
    BY <2>1
  <2> QED BY <2>1, <2>2
<1>31. CASE ReleaseEncoder
  BY <1>31 DEF ReleaseEncoder
<1>32. CASE Exit
  BY <1>32 DEF Exit
<1>33. CASE SpuriousWakeup
  BY <1>33 DEF SpuriousWakeup
<1>34. CASE UNCHANGED vars
  BY <1>34 DEF vars
<1> QED
  BY <1>1, <1>2, <1>3, <1>4, <1>5, <1>6, <1>7, <1>8, <1>9, <1>10, <1>11,
     <1>12, <1>13, <1>14, <1>15, <1>16, <1>17, <1>18, <1>19, <1>20, <1>21,
     <1>22, <1>23, <1>24, <1>25, <1>26, <1>27, <1>28, <1>29, <1>30, <1>31,
     <1>32, <1>33, <1>34
  DEF Next, CameraRuns, FileRuns, EncoderRuns, MainRuns

\* The layer as an invariant.
LEMMA TypedInvariant == Spec => []Typed
<1>1. Init => Typed
  <2> SUFFICES ASSUME Init PROVE Typed
    OBVIOUS
  <2>1. /\ inFIFO \in Seq(Buf) /\ encoded \in Seq(Content)
        /\ raw \in Seq(Content)
    BY DEF Init
  <2>2. content \in [Buf -> Content] /\ frame \in 0..MaxFrames
    BY ContentFacts, SizeAssumption DEF Init, Content, Partial
  <2>3. pool \subseteq Buf /\ driver \subseteq CamBuf
    BY DEF Init
  <2>4. Hands
    BY DEF Init, Hands, SourceHas, EncoderHas, CallbackHas
  <2>5. /\ main \in MainState /\ src \in SourceState /\ enc \in EncoderState
    BY DEF Init, MainState, SourceState, EncoderState
  <2> QED BY <2>1, <2>2, <2>3, <2>4, <2>5 DEF Init, Typed, TypeOK
<1> QED BY <1>1, PhasesInvariant, TypedNext, PTL DEF Spec

\* Every variable stays in its type: encoder_thread() never takes a frame from
\* an empty queue (videoenc.cpp:433-447).
THEOREM TypeCorrect == Spec => []TypeOK
<1>1. Typed => TypeOK
  BY DEF Typed
<1> QED BY <1>1, TypedInvariant, PTL
-----------------------------------------------------------------------------
(***************************************************************************)
(* The wait of the encoder thread.                                         *)
(***************************************************************************)

\* Every enqueue signals in the same critical section.
LEMMA WaitingNext ==
  Phases /\ Typed /\ NoLostFrameWakeup /\ [Next]_vars => NoLostFrameWakeup'
<1> SUFFICES ASSUME Phases, Typed, NoLostFrameWakeup, [Next]_vars
             PROVE  NoLostFrameWakeup'
  OBVIOUS
<1> USE DEF NoLostFrameWakeup, setup, sourceVars, encoderVars, sourceKeeps,
            encoderKeeps
<1>1. CASE input = "camera" /\ CameraTest
  BY <1>1 DEF CameraTest
<1>2. CASE input = "camera" /\ CameraGetOneframe
  BY <1>2 DEF CameraGetOneframe
<1>3. CASE input = "camera" /\ CameraEnter
  BY <1>3 DEF CameraEnter
<1>4. CASE input = "camera" /\ CameraCheck
  BY <1>4 DEF CameraCheck
<1>5. CASE input = "camera" /\ CameraAlloc
  BY <1>5 DEF CameraAlloc
<1>6. CASE input = "camera" /\ CameraCopy
  BY <1>6 DEF CameraCopy
<1>7. CASE input = "camera" /\ CameraReturnFrame
  BY <1>7 DEF CameraReturnFrame
<1>8. CASE input = "camera" /\ CameraQueue
  <2>1. CASE Len(inFIFO) < FIFO_SIZE
    BY <1>8, <2>1 DEF CameraQueue, QueueFrame, Signalled
  <2>2. CASE ~(Len(inFIFO) < FIFO_SIZE)
    <3>1. inFIFO' = inFIFO
      BY <1>8, <2>2, LenProperties, SizeAssumption
      DEF CameraQueue, QueueFrame, Enqueue, Typed, TypeOK
    <3> QED BY <1>8, <2>2, <3>1 DEF CameraQueue, QueueFrame
  <2> QED BY <2>1, <2>2
<1>9. CASE input = "pipe" /\ FileTest
  BY <1>9 DEF FileTest
<1>10. CASE input = "pipe" /\ FileAlloc
  BY <1>10 DEF FileAlloc
<1>11. CASE input = "pipe" /\ FileRead
  BY <1>11 DEF FileRead
<1>12. CASE input = "pipe" /\ FileEof
  BY <1>12 DEF FileEof
<1>13. CASE input = "pipe" /\ FileDiscard
  BY <1>13 DEF FileDiscard
<1>14. CASE input = "pipe" /\ FileQueue
  <2>1. CASE Len(inFIFO) < FIFO_SIZE
    BY <1>14, <2>1 DEF FileQueue, QueueFrame, Signalled
  <2>2. CASE ~(Len(inFIFO) < FIFO_SIZE)
    <3>1. inFIFO' = inFIFO
      BY <1>14, <2>2, LenProperties, SizeAssumption
      DEF FileQueue, QueueFrame, Enqueue, Typed, TypeOK
    <3> QED BY <1>14, <2>2, <3>1 DEF FileQueue, QueueFrame
  <2> QED BY <2>1, <2>2
<1>15. CASE EncoderTest
  BY <1>15 DEF EncoderTest
<1>16. CASE EncoderLock
  BY <1>16 DEF EncoderLock, TakeFrame
<1>17. CASE EncoderWake
  BY <1>17 DEF EncoderWake, TakeFrame
<1>18. CASE EncodeFrame
  BY <1>18 DEF EncodeFrame
<1>19. CASE PushRaw
  BY <1>19 DEF PushRaw
<1>20. CASE ReturnBuffer
  BY <1>20 DEF ReturnBuffer
<1>21. CASE StartFileThread
  BY <1>21 DEF StartFileThread
<1>22. CASE StartCamera
  BY <1>22 DEF StartCamera
<1>23. CASE CheckSize
  BY <1>23 DEF CheckSize
<1>24. CASE StartEncoder
  BY <1>24 DEF StartEncoder
<1>25. CASE CreateEncoderThread
  BY <1>25 DEF CreateEncoderThread
<1>26. CASE LeaveLoop
  BY <1>26 DEF LeaveLoop
<1>27. CASE SignalEncoder
  BY <1>27 DEF SignalEncoder, Signalled
<1>28. CASE StopEncoder
  BY <1>28 DEF StopEncoder
<1>29. CASE JoinEncoder
  BY <1>29 DEF JoinEncoder
<1>30. CASE ForgetCamera
  BY <1>30 DEF ForgetCamera
<1>31. CASE ReleaseEncoder
  BY <1>31 DEF ReleaseEncoder
<1>32. CASE Exit
  BY <1>32 DEF Exit
<1>33. CASE SpuriousWakeup
  BY <1>33 DEF SpuriousWakeup
<1>34. CASE UNCHANGED vars
  BY <1>34 DEF vars
<1> QED
  BY <1>1, <1>2, <1>3, <1>4, <1>5, <1>6, <1>7, <1>8, <1>9, <1>10, <1>11,
     <1>12, <1>13, <1>14, <1>15, <1>16, <1>17, <1>18, <1>19, <1>20, <1>21,
     <1>22, <1>23, <1>24, <1>25, <1>26, <1>27, <1>28, <1>29, <1>30, <1>31,
     <1>32, <1>33, <1>34
  DEF Next, CameraRuns, FileRuns, EncoderRuns, MainRuns

\* A frame in the queue never finds the encoder thread asleep
\* (videoenc.cpp:197-200, 386-389, 432-442).
THEOREM NoFrameWakeupIsLost == Spec => []NoLostFrameWakeup
<1>1. Init => NoLostFrameWakeup
  BY DEF Init, NoLostFrameWakeup
<1> QED
  BY <1>1, PhasesInvariant, TypedInvariant, WaitingNext, PTL DEF Spec

-----------------------------------------------------------------------------
(***************************************************************************)
(* Where the camera's buffers are.                                         *)
(***************************************************************************)

\* Each path of the callback gives the buffer back, once.
LEMMA CameraNext ==
  Phases /\ Typed /\ CameraBufferOwnership /\ [Next]_vars
    => CameraBufferOwnership'
<1> SUFFICES ASSUME Phases, Typed, CameraBufferOwnership, [Next]_vars
             PROVE  CameraBufferOwnership'
  OBVIOUS
<1>0. NoBuf \notin CamBuf
  BY ContentFacts
<1> USE DEF CameraBufferOwnership, InHand, Phases, Typed, TypeOK, Hands,
            CallbackHas, setup, sourceVars, encoderVars, sourceKeeps,
            encoderKeeps
<1>1. CASE input = "camera" /\ CameraTest
  BY <1>1 DEF CameraTest
<1>2. CASE input = "camera" /\ CameraGetOneframe
  BY <1>0, <1>2 DEF CameraGetOneframe
<1>3. CASE input = "camera" /\ CameraEnter
  BY <1>3 DEF CameraEnter
<1>4. CASE input = "camera" /\ CameraCheck
  BY <1>4 DEF CameraCheck
<1>5. CASE input = "camera" /\ CameraAlloc
  BY <1>5 DEF CameraAlloc
<1>6. CASE input = "camera" /\ CameraCopy
  BY <1>6 DEF CameraCopy
<1>7. CASE input = "camera" /\ CameraReturnFrame
  BY <1>0, <1>7 DEF CameraReturnFrame
<1>8. CASE input = "camera" /\ CameraQueue
  BY <1>8 DEF CameraQueue, QueueFrame, Signalled
<1>9. CASE input = "pipe" /\ FileTest
  BY <1>9 DEF FileTest
<1>10. CASE input = "pipe" /\ FileAlloc
  BY <1>10 DEF FileAlloc
<1>11. CASE input = "pipe" /\ FileRead
  BY <1>11 DEF FileRead
<1>12. CASE input = "pipe" /\ FileEof
  BY <1>12 DEF FileEof
<1>13. CASE input = "pipe" /\ FileDiscard
  BY <1>13 DEF FileDiscard
<1>14. CASE input = "pipe" /\ FileQueue
  BY <1>14 DEF FileQueue, QueueFrame, Signalled
<1>15. CASE EncoderTest
  BY <1>15 DEF EncoderTest
<1>16. CASE EncoderLock
  BY <1>16 DEF EncoderLock, TakeFrame
<1>17. CASE EncoderWake
  BY <1>17 DEF EncoderWake, TakeFrame
<1>18. CASE EncodeFrame
  BY <1>18 DEF EncodeFrame
<1>19. CASE PushRaw
  BY <1>19 DEF PushRaw
<1>20. CASE ReturnBuffer
  BY <1>20 DEF ReturnBuffer
<1>21. CASE StartFileThread
  BY <1>21 DEF StartFileThread
<1>22. CASE StartCamera
  <2>1. camBuf = NoBuf /\ camBuf' = NoBuf /\ NoBuf \notin 1..given
    BY <1>22, ContentFacts DEF StartCamera
  <2>2. driver' \cup InHand(camBuf') = 1..given' /\ camBuf' \notin driver'
    BY <1>22, <2>1 DEF StartCamera
  <2>3. src' \in {"none", "test"}
    BY <1>22 DEF StartCamera
  <2> QED BY <2>1, <2>2, <2>3
<1>23. CASE CheckSize
  BY <1>23 DEF CheckSize
<1>24. CASE StartEncoder
  BY <1>24 DEF StartEncoder
<1>25. CASE CreateEncoderThread
  BY <1>25 DEF CreateEncoderThread
<1>26. CASE LeaveLoop
  BY <1>26 DEF LeaveLoop
<1>27. CASE SignalEncoder
  BY <1>27 DEF SignalEncoder, Signalled
<1>28. CASE StopEncoder
  BY <1>28 DEF StopEncoder
<1>29. CASE JoinEncoder
  BY <1>29 DEF JoinEncoder
<1>30. CASE ForgetCamera
  BY <1>30 DEF ForgetCamera
<1>31. CASE ReleaseEncoder
  BY <1>31 DEF ReleaseEncoder
<1>32. CASE Exit
  BY <1>32 DEF Exit
<1>33. CASE SpuriousWakeup
  BY <1>33 DEF SpuriousWakeup
<1>34. CASE UNCHANGED vars
  BY <1>34 DEF vars
<1> QED
  BY <1>1, <1>2, <1>3, <1>4, <1>5, <1>6, <1>7, <1>8, <1>9, <1>10, <1>11,
     <1>12, <1>13, <1>14, <1>15, <1>16, <1>17, <1>18, <1>19, <1>20, <1>21,
     <1>22, <1>23, <1>24, <1>25, <1>26, <1>27, <1>28, <1>29, <1>30, <1>31,
     <1>32, <1>33, <1>34
  DEF Next, CameraRuns, FileRuns, EncoderRuns, MainRuns

\* No path of the callback loses a camera buffer or returns it twice
\* (videoenc.cpp:340-384).
THEOREM CameraBuffersOwned == Spec => []CameraBufferOwnership
<1>1. Init => CameraBufferOwnership
  BY ContentFacts DEF Init, CameraBufferOwnership, InHand
<1> QED BY <1>1, PhasesInvariant, TypedInvariant, CameraNext, PTL DEF Spec
-----------------------------------------------------------------------------
(***************************************************************************)
(* Where the encoder's buffers are.                                        *)
(***************************************************************************)

\* How many buffers a thread has.
HandSize(b) == IF b = NoBuf THEN 0 ELSE 1

\* Ownership, and the count that bounds the queue.
Placed ==
  /\ InputBufferOwnership
  /\ Cardinality(pool) + Len(inFIFO) + HandSize(srcBuf) + HandSize(encBuf)
       = nBufferNum

\* What the layers before say of the buffers.
LEMMA BufferFacts ==
  ASSUME Typed
  PROVE  /\ NoBuf \notin Buf
         /\ IsFiniteSet(pool) /\ Cardinality(pool) \in Nat
         /\ Len(inFIFO) \in Nat /\ inFIFO \in Seq(Buf)
         /\ Elements(inFIFO) \subseteq Buf
         /\ HandSize(srcBuf) \in Nat /\ HandSize(encBuf) \in Nat
         /\ nBufferNum \in Nat
<1>1. IsFiniteSet(Buf)
  BY FS_Interval, SizeAssumption DEF Buf
<1>2. pool \subseteq Buf /\ inFIFO \in Seq(Buf)
  BY DEF Typed, TypeOK
<1>3. IsFiniteSet(pool) /\ Cardinality(pool) \in Nat
  BY <1>1, <1>2, FS_Subset, FS_CardinalityType
<1> QED
  BY <1>2, <1>3, ContentFacts, ElementsType, LenProperties, SizeAssumption
  DEF HandSize

\* GetOneAllocInputBuffer moves a buffer from the pool to the source.
LEMMA AllocPlaced ==
  ASSUME Typed, Placed, srcBuf = NoBuf, NEW b \in pool,
         srcBuf' = b, pool' = pool \ {b}, UNCHANGED <<inFIFO, encBuf>>
  PROVE  Placed'
<1>1. b \in Buf /\ b # NoBuf
  BY BufferFacts DEF Typed, TypeOK
<1>2. Cardinality(pool') = Cardinality(pool) - 1
  BY BufferFacts, FS_RemoveElement
<1>3. HandSize(srcBuf) = 0 /\ HandSize(srcBuf') = 1
  BY <1>1 DEF HandSize
<1>4. Cardinality(pool') + Len(inFIFO') + HandSize(srcBuf') + HandSize(encBuf')
        = nBufferNum
  BY <1>2, <1>3, BufferFacts DEF Placed
<1>5. InputBufferOwnership'
  BY <1>1 DEF Placed, InputBufferOwnership, InHand
<1> QED BY <1>4, <1>5 DEF Placed

\* ReturnOneAllocInputBuffer by the source moves it back.
LEMMA SourceReturnPlaced ==
  ASSUME Typed, Placed, srcBuf # NoBuf,
         srcBuf' = NoBuf, pool' = pool \cup {srcBuf},
         UNCHANGED <<inFIFO, encBuf>>
  PROVE  Placed'
<1>1. srcBuf \in Buf /\ srcBuf \notin pool
  BY DEF Typed, TypeOK, Placed, InputBufferOwnership, InHand
<1>2. Cardinality(pool') = Cardinality(pool) + 1
  BY <1>1, BufferFacts, FS_AddElement
<1>3. HandSize(srcBuf) = 1 /\ HandSize(srcBuf') = 0
  BY DEF HandSize
<1>4. Cardinality(pool') + Len(inFIFO') + HandSize(srcBuf') + HandSize(encBuf')
        = nBufferNum
  BY <1>2, <1>3, BufferFacts DEF Placed
<1>5. InputBufferOwnership'
  BY <1>1 DEF Placed, InputBufferOwnership, InHand
<1> QED BY <1>4, <1>5 DEF Placed

\* The encoder thread's return (videoenc.cpp:310).
LEMMA EncoderReturnPlaced ==
  ASSUME Typed, Placed, encBuf # NoBuf,
         encBuf' = NoBuf, pool' = pool \cup {encBuf},
         UNCHANGED <<inFIFO, srcBuf>>
  PROVE  Placed'
<1>1. encBuf \in Buf /\ encBuf \notin pool
  BY DEF Typed, TypeOK, Placed, InputBufferOwnership, InHand
<1>2. Cardinality(pool') = Cardinality(pool) + 1
  BY <1>1, BufferFacts, FS_AddElement
<1>3. HandSize(encBuf) = 1 /\ HandSize(encBuf') = 0
  BY DEF HandSize
<1>4. Cardinality(pool') + Len(inFIFO') + HandSize(srcBuf') + HandSize(encBuf')
        = nBufferNum
  BY <1>2, <1>3, BufferFacts DEF Placed
<1>5. InputBufferOwnership'
  BY <1>1 DEF Placed, InputBufferOwnership, InHand
<1> QED BY <1>4, <1>5 DEF Placed

\* A queued frame leaves the hands of the source, into the queue or, when the
\* queue is full, back to the pool (videoenc.cpp:197-205, 386-394).
LEMMA QueuePlaced ==
  ASSUME Typed, Placed, src = "queue", QueueFrame, encBuf' = encBuf
  PROVE  Placed'
<1>1. srcBuf \in Buf /\ srcBuf # NoBuf /\ srcBuf' = NoBuf
  BY DEF Typed, TypeOK, QueueFrame
<1>2. CASE Len(inFIFO) < FIFO_SIZE
  <2>1. inFIFO' = Append(inFIFO, srcBuf) /\ pool' = pool
    BY <1>1, <1>2, EnqueueAccepts, BufferFacts, SizeAssumption DEF QueueFrame
  <2>2. srcBuf \notin Elements(inFIFO) /\ Distinct(inFIFO)
    BY <1>1 DEF Placed, InputBufferOwnership, InHand
  <2>3. /\ Elements(inFIFO') = Elements(inFIFO) \cup {srcBuf}
        /\ Distinct(inFIFO')
        /\ Len(inFIFO') = Len(inFIFO) + 1
    BY <1>1, <2>1, <2>2, AppendElements, BufferFacts
  <2>4. HandSize(srcBuf) = 1 /\ HandSize(srcBuf') = 0
    BY <1>1 DEF HandSize
  <2>5. Cardinality(pool') + Len(inFIFO') + HandSize(srcBuf')
          + HandSize(encBuf') = nBufferNum
    BY <2>1, <2>3, <2>4, BufferFacts DEF Placed
  <2>6. InputBufferOwnership'
    BY <1>1, <2>1, <2>3 DEF Placed, InputBufferOwnership, InHand
  <2> QED BY <2>5, <2>6 DEF Placed
<1>3. CASE ~(Len(inFIFO) < FIFO_SIZE)
  <2>1. inFIFO' = inFIFO /\ pool' = pool \cup {srcBuf}
    BY <1>3, BufferFacts, SizeAssumption DEF QueueFrame, Enqueue
  <2> QED BY <1>1, <2>1, SourceReturnPlaced
<1> QED BY <1>2, <1>3

\* A frame that is taken leaves the queue (videoenc.cpp:437-441).
LEMMA TakePlaced ==
  ASSUME Typed, Placed, encBuf = NoBuf, inFIFO # <<>>, TakeFrame,
         UNCHANGED <<pool, srcBuf>>
  PROVE  Placed'
<1>1. /\ Head(inFIFO) \in Buf
      /\ Len(inFIFO') = Len(inFIFO) - 1
      /\ Elements(inFIFO) = Elements(inFIFO') \cup {Head(inFIFO)}
      /\ Distinct(inFIFO') /\ Head(inFIFO) \notin Elements(inFIFO')
  BY TailElements, BufferFacts
  DEF TakeFrame, Placed, InputBufferOwnership
<1>2. encBuf' = Head(inFIFO) /\ encBuf' # NoBuf
  BY <1>1, BufferFacts DEF TakeFrame
<1>3. HandSize(encBuf) = 0 /\ HandSize(encBuf') = 1
  BY <1>2 DEF HandSize
<1>4. Cardinality(pool') + Len(inFIFO') + HandSize(srcBuf') + HandSize(encBuf')
        = nBufferNum
  BY <1>1, <1>3, BufferFacts DEF Placed
<1>5. InputBufferOwnership'
  BY <1>1, <1>2 DEF Placed, InputBufferOwnership, InHand
<1> QED BY <1>4, <1>5 DEF Placed

\* The buffers that a step does not touch stay where they are.
LEMMA KeepPlaced ==
  ASSUME Placed, UNCHANGED <<pool, inFIFO, srcBuf, encBuf>>
  PROVE  Placed'
BY DEF Placed, InputBufferOwnership

\* Every step moves one buffer from one place to another, or none.
LEMMA PlacedNext == Phases /\ Typed /\ Placed /\ [Next]_vars => Placed'
<1> SUFFICES ASSUME Phases, Typed, Placed, [Next]_vars PROVE Placed'
  OBVIOUS
<1>0. Hands
  BY DEF Typed
<1> USE DEF setup, sourceVars, encoderVars, sourceKeeps, encoderKeeps
<1>1. CASE input = "camera" /\ CameraTest
  BY <1>1, KeepPlaced DEF CameraTest
<1>2. CASE input = "camera" /\ CameraGetOneframe
  BY <1>2, KeepPlaced DEF CameraGetOneframe
<1>3. CASE input = "camera" /\ CameraEnter
  BY <1>3, KeepPlaced DEF CameraEnter
<1>4. CASE input = "camera" /\ CameraCheck
  BY <1>4, KeepPlaced DEF CameraCheck
<1>5. CASE input = "camera" /\ CameraAlloc
  <2>1. CASE UNCHANGED <<srcBuf, pool>>
    BY <1>5, <2>1, KeepPlaced DEF CameraAlloc
  <2>2. CASE \E b \in pool : srcBuf' = b /\ pool' = pool \ {b}
    <3>1. srcBuf = NoBuf /\ UNCHANGED <<inFIFO, encBuf>>
      BY <1>0, <1>5 DEF CameraAlloc, Hands, SourceHas
    <3> QED BY <2>2, <3>1, AllocPlaced
  <2> QED BY <1>5, <2>1, <2>2 DEF CameraAlloc
<1>6. CASE input = "camera" /\ CameraCopy
  BY <1>6, KeepPlaced DEF CameraCopy
<1>7. CASE input = "camera" /\ CameraReturnFrame
  BY <1>7, KeepPlaced DEF CameraReturnFrame
<1>8. CASE input = "camera" /\ CameraQueue
  <2>1. src = "queue" /\ QueueFrame /\ encBuf' = encBuf
    BY <1>8 DEF CameraQueue
  <2> QED BY <2>1, QueuePlaced
<1>9. CASE input = "pipe" /\ FileTest
  BY <1>9, KeepPlaced DEF FileTest
<1>10. CASE input = "pipe" /\ FileAlloc
  <2>1. CASE UNCHANGED <<srcBuf, pool>>
    BY <1>10, <2>1, KeepPlaced DEF FileAlloc
  <2>2. CASE \E b \in pool : srcBuf' = b /\ pool' = pool \ {b}
    <3>1. srcBuf = NoBuf /\ UNCHANGED <<inFIFO, encBuf>>
      BY <1>0, <1>10 DEF FileAlloc, Hands, SourceHas
    <3> QED BY <2>2, <3>1, AllocPlaced
  <2> QED BY <1>10, <2>1, <2>2 DEF FileAlloc
<1>11. CASE input = "pipe" /\ FileRead
  BY <1>11, KeepPlaced DEF FileRead
<1>12. CASE input = "pipe" /\ FileEof
  BY <1>12, KeepPlaced DEF FileEof
<1>13. CASE input = "pipe" /\ FileDiscard
  <2>1. CASE Released
    BY <1>13, <2>1, KeepPlaced DEF FileDiscard
  <2>2. CASE ~Released
    <3>1. /\ srcBuf # NoBuf /\ srcBuf' = NoBuf /\ pool' = pool \cup {srcBuf}
          /\ UNCHANGED <<inFIFO, encBuf>>
      BY <1>0, <1>13, <2>2 DEF FileDiscard, Hands, SourceHas
    <3> QED BY <3>1, SourceReturnPlaced
  <2> QED BY <2>1, <2>2
<1>14. CASE input = "pipe" /\ FileQueue
  <2>1. src = "queue" /\ QueueFrame /\ encBuf' = encBuf
    BY <1>14 DEF FileQueue
  <2> QED BY <2>1, QueuePlaced
<1>15. CASE EncoderTest
  BY <1>15, KeepPlaced DEF EncoderTest
<1>16. CASE EncoderLock
  <2>1. CASE inFIFO # <<>>
    <3>1. TakeFrame /\ encBuf = NoBuf /\ UNCHANGED <<pool, srcBuf>>
      BY <1>0, <1>16, <2>1 DEF EncoderLock, Hands, EncoderHas
    <3> QED BY <2>1, <3>1, TakePlaced
  <2>2. CASE inFIFO = <<>>
    BY <1>16, <2>2, KeepPlaced DEF EncoderLock
  <2> QED BY <2>1, <2>2
<1>17. CASE EncoderWake
  <2>1. CASE inFIFO # <<>>
    <3>1. TakeFrame /\ encBuf = NoBuf /\ UNCHANGED <<pool, srcBuf>>
      BY <1>0, <1>17, <2>1 DEF EncoderWake, Hands, EncoderHas
    <3> QED BY <2>1, <3>1, TakePlaced
  <2>2. CASE inFIFO = <<>>
    BY <1>17, <2>2, KeepPlaced DEF EncoderWake
  <2> QED BY <2>1, <2>2
<1>18. CASE EncodeFrame
  BY <1>18, KeepPlaced DEF EncodeFrame
<1>19. CASE PushRaw
  BY <1>19, KeepPlaced DEF PushRaw
<1>20. CASE ReturnBuffer
  <2>1. /\ encBuf # NoBuf /\ encBuf' = NoBuf /\ pool' = pool \cup {encBuf}
        /\ UNCHANGED <<inFIFO, srcBuf>>
    BY <1>0, <1>20 DEF ReturnBuffer, Hands, EncoderHas
  <2> QED BY <2>1, EncoderReturnPlaced
<1>21. CASE StartFileThread
  BY <1>21, KeepPlaced DEF StartFileThread
<1>22. CASE StartCamera
  BY <1>22, KeepPlaced DEF StartCamera
<1>23. CASE CheckSize
  BY <1>23, KeepPlaced DEF CheckSize
<1>24. CASE StartEncoder
  BY <1>24, KeepPlaced DEF StartEncoder
<1>25. CASE CreateEncoderThread
  BY <1>25, KeepPlaced DEF CreateEncoderThread
<1>26. CASE LeaveLoop
  BY <1>26, KeepPlaced DEF LeaveLoop
<1>27. CASE SignalEncoder
  BY <1>27, KeepPlaced DEF SignalEncoder, Signalled
<1>28. CASE StopEncoder
  BY <1>28, KeepPlaced DEF StopEncoder
<1>29. CASE JoinEncoder
  BY <1>29, KeepPlaced DEF JoinEncoder
<1>30. CASE ForgetCamera
  BY <1>30, KeepPlaced DEF ForgetCamera
<1>31. CASE ReleaseEncoder
  BY <1>31, KeepPlaced DEF ReleaseEncoder
<1>32. CASE Exit
  BY <1>32, KeepPlaced DEF Exit
<1>33. CASE SpuriousWakeup
  BY <1>33, KeepPlaced DEF SpuriousWakeup
<1>34. CASE UNCHANGED vars
  BY <1>34, KeepPlaced DEF vars
<1> QED
  BY <1>1, <1>2, <1>3, <1>4, <1>5, <1>6, <1>7, <1>8, <1>9, <1>10, <1>11,
     <1>12, <1>13, <1>14, <1>15, <1>16, <1>17, <1>18, <1>19, <1>20, <1>21,
     <1>22, <1>23, <1>24, <1>25, <1>26, <1>27, <1>28, <1>29, <1>30, <1>31,
     <1>32, <1>33, <1>34
  DEF Next, CameraRuns, FileRuns, EncoderRuns, MainRuns

\* The layer as an invariant.
LEMMA PlacedInvariant == Spec => []Placed
<1>1. Init => Placed
  <2> SUFFICES ASSUME Init PROVE Placed
    OBVIOUS
  <2>1. Cardinality(pool) = nBufferNum
    BY FS_Interval, SizeAssumption DEF Init, Buf
  <2>2. Len(inFIFO) = 0 /\ Elements(inFIFO) = {} /\ Distinct(inFIFO)
    BY DEF Init, Elements, Distinct
  <2>3. /\ HandSize(srcBuf) = 0 /\ HandSize(encBuf) = 0
        /\ InHand(srcBuf) = {} /\ InHand(encBuf) = {}
    BY DEF Init, HandSize, InHand
  <2>4. InputBufferOwnership
    BY <2>2, <2>3 DEF InputBufferOwnership, Init
  <2> QED BY <2>1, <2>2, <2>3, <2>4, SizeAssumption DEF Placed
<1> QED BY <1>1, PhasesInvariant, TypedInvariant, PlacedNext, PTL DEF Spec

\* The encoder's buffers are never lost, shared or queued twice, even when the
\* queue is full (videoenc.cpp:176-205, 309-310, 359-394).
THEOREM InputBuffersOwned == Spec => []InputBufferOwnership
<1>1. Placed => InputBufferOwnership
  BY DEF Placed
<1> QED BY <1>1, PlacedInvariant, PTL

\* With no more buffers than places the queue never refuses a frame
\* (videoenc.cpp:83, 198, 387, 528).
THEOREM QueueTakesEveryFrame == Spec => []EnqueueFits
<1>1. Typed /\ Placed => EnqueueFits
  <2> SUFFICES ASSUME Typed, Placed, nBufferNum <= FIFO_SIZE, src = "queue"
               PROVE  Len(inFIFO) < FIFO_SIZE
    BY DEF EnqueueFits
  <2>1. HandSize(srcBuf) = 1
    BY DEF Typed, TypeOK, HandSize
  <2> QED BY <2>1, BufferFacts, SizeAssumption DEF Placed
<1> QED BY <1>1, TypedInvariant, PlacedInvariant, PTL
-----------------------------------------------------------------------------
(***************************************************************************)
(* What is in the buffers.                                                 *)
(***************************************************************************)

\* The newest frame of the source is in its hands, or still in the camera's
\* buffer, and has not reached the queue.
Pending ==
  \/ src \in {"enter", "check", "copy", "return", "queue"}
  \/ src = "alloc" /\ input = "camera"

\* A frame that is in the queue or past it.
InLine(f) == f <= frame /\ (Pending => f < frame)

\* What was encoded, what the encoder thread has taken, the queue and what the
\* source brings are one increasing line.
Ordered ==
  /\ EncodedInOrder
  /\ \A i \in 1..Len(encoded) : InLine(encoded[i])
  /\ \A k \in 1..Len(inFIFO) :
       /\ InLine(content[inFIFO[k]])
       /\ \A i \in 1..Len(encoded) : encoded[i] < content[inFIFO[k]]
       /\ \A l \in 1..Len(inFIFO) :
            k < l => content[inFIFO[k]] < content[inFIFO[l]]
  /\ enc = "encode" =>
       /\ InLine(content[encBuf])
       /\ \A i \in 1..Len(encoded) : encoded[i] < content[encBuf]
       /\ \A k \in 1..Len(inFIFO) : content[encBuf] < content[inFIFO[k]]
  /\ src \in {"return", "queue"} => content[srcBuf] = frame

\* The numbers that the line compares.
LEMMA LineFacts ==
  ASSUME Typed
  PROVE  /\ frame \in Nat /\ Len(encoded) \in Nat /\ Len(inFIFO) \in Nat
         /\ \A i \in 1..Len(encoded) : encoded[i] \in Nat
         /\ \A b \in Buf : content[b] \in Nat
         /\ \A k \in 1..Len(inFIFO) : inFIFO[k] \in Buf
         /\ enc = "encode" => encBuf \in Buf
         /\ src \in SourceHas => srcBuf \in Buf
<1>1. Content \subseteq Nat
  BY SizeAssumption DEF Content, Partial
<1>2. /\ frame \in Nat /\ encoded \in Seq(Content) /\ inFIFO \in Seq(Buf)
      /\ content \in [Buf -> Content]
  BY SizeAssumption DEF Typed, TypeOK
<1>3. /\ enc = "encode" => encBuf \in Buf
      /\ src \in SourceHas => srcBuf \in Buf
  BY DEF Typed, TypeOK, SourceHas
<1>4. Len(encoded) \in Nat /\ Len(inFIFO) \in Nat
  BY <1>2, LenProperties
<1>5. \A i \in 1..Len(encoded) : encoded[i] \in Nat
  BY <1>1, <1>2, ElementOfSeq
<1>6. \A k \in 1..Len(inFIFO) : inFIFO[k] \in Buf
  BY <1>2, ElementOfSeq
<1> QED BY <1>1, <1>2, <1>3, <1>4, <1>5, <1>6

\* Steps that move no frame keep the line.
LEMMA KeepOrdered ==
  ASSUME Typed, Ordered,
         UNCHANGED <<content, frame, encoded, inFIFO>>,
         enc' = "encode" => enc = "encode" /\ encBuf' = encBuf,
         Pending' => Pending,
         src' \in {"return", "queue"} =>
           src \in {"return", "queue"} /\ srcBuf' = srcBuf
  PROVE  Ordered'
BY DEF Ordered, InLine, EncodedInOrder

\* VIDIOC_DQBUF brings a frame later than all in the line
\* (CameraSource.c, CameraGetOneframe).
LEMMA GrabOrdered ==
  ASSUME Typed, Ordered, src = "grab", src' = "enter", frame' = frame + 1,
         UNCHANGED <<content, encoded, inFIFO, encBuf, enc>>
  PROVE  Ordered'
<1>1. \A f \in Nat : InLine(f) => InLine(f)'
  BY LineFacts DEF InLine
<1> QED BY <1>1, LineFacts DEF Ordered, EncodedInOrder

\* The source fills the buffer in its hands, and nobody else's
\* (videoenc.cpp:176-182, 365-379).
LEMMA FillOrdered ==
  ASSUME Typed, Placed, Ordered, src \in {"copy", "read"},
         \A b \in Buf : b # srcBuf => content'[b] = content[b],
         src' \in {"return", "queue"} => content'[srcBuf] = frame',
         \/ frame' = frame /\ (Pending' => Pending)
         \/ frame' = frame + 1,
         UNCHANGED <<encoded, inFIFO, srcBuf, encBuf, enc>>
  PROVE  Ordered'
<1>1. srcBuf \in Buf /\ srcBuf # NoBuf
  BY LineFacts, ContentFacts DEF SourceHas
<1>2. \A k \in 1..Len(inFIFO) : content'[inFIFO[k]] = content[inFIFO[k]]
  <2> SUFFICES ASSUME NEW k \in 1..Len(inFIFO)
               PROVE  content'[inFIFO[k]] = content[inFIFO[k]]
    OBVIOUS
  <2>1. inFIFO[k] # srcBuf
    BY <1>1 DEF Placed, InputBufferOwnership, InHand, Elements
  <2> QED BY <2>1, LineFacts
<1>3. enc = "encode" => content'[encBuf] = content[encBuf]
  <2>1. enc = "encode" => encBuf # srcBuf
    BY <1>1 DEF Placed, InputBufferOwnership, InHand
  <2> QED BY <2>1, LineFacts
<1>4. \A f \in Nat : InLine(f) => InLine(f)'
  BY LineFacts DEF InLine
<1>5. src' \in {"return", "queue"} => content'[srcBuf'] = frame'
  OBVIOUS
<1>6. EncodedInOrder'
  BY DEF Ordered, EncodedInOrder
<1>7. \A i \in 1..Len(encoded) : InLine(encoded[i])'
  BY <1>4, LineFacts DEF Ordered
<1>8. ASSUME NEW k \in 1..Len(inFIFO)
      PROVE  /\ InLine(content[inFIFO[k]])'
             /\ \A i \in 1..Len(encoded) : encoded[i] < content'[inFIFO[k]]
             /\ \A l \in 1..Len(inFIFO) :
                  k < l => content'[inFIFO[k]] < content'[inFIFO[l]]
  <2>1. InLine(content[inFIFO[k]]) /\ content[inFIFO[k]] \in Nat
    BY LineFacts DEF Ordered
  <2>2. InLine(content[inFIFO[k]])'
    BY <2>1, <1>4, <1>2 DEF InLine
  <2> QED BY <2>2, <1>2 DEF Ordered
<1>9. enc = "encode" =>
         /\ InLine(content[encBuf])'
         /\ \A i \in 1..Len(encoded) : encoded[i] < content'[encBuf]
         /\ \A k \in 1..Len(inFIFO) : content'[encBuf] < content'[inFIFO[k]]
  <2> SUFFICES ASSUME enc = "encode"
               PROVE  /\ InLine(content[encBuf])'
                      /\ \A i \in 1..Len(encoded) :
                           encoded[i] < content'[encBuf]
                      /\ \A k \in 1..Len(inFIFO) :
                           content'[encBuf] < content'[inFIFO[k]]
    OBVIOUS
  <2>1. InLine(content[encBuf]) /\ content[encBuf] \in Nat
    BY LineFacts DEF Ordered
  <2>2. InLine(content[encBuf])'
    BY <2>1, <1>4, <1>3 DEF InLine
  <2> QED BY <2>2, <1>2, <1>3 DEF Ordered
<1> QED BY <1>5, <1>6, <1>7, <1>8, <1>9 DEF Ordered

\* What the source brings gets behind the queue; a full queue loses it
\* (videoenc.cpp:197-205, 386-394).
LEMMA QueueOrdered ==
  ASSUME Typed, Ordered, src = "queue", QueueFrame,
         UNCHANGED <<content, frame, encoded, encBuf>>
  PROVE  Ordered'
<1>1. srcBuf \in Buf /\ src' = "test" /\ content[srcBuf] = frame
  BY LineFacts DEF SourceHas, QueueFrame, Ordered
<1>2. enc' = "encode" => enc = "encode"
  BY DEF QueueFrame, Signalled
<1>3. CASE Len(inFIFO) < FIFO_SIZE
  <2>1. inFIFO' = Append(inFIFO, srcBuf)
    BY <1>1, <1>3, EnqueueAccepts, BufferFacts, SizeAssumption DEF QueueFrame
  <2>2. /\ Len(inFIFO') = Len(inFIFO) + 1
        /\ \A k \in 1..Len(inFIFO) : inFIFO'[k] = inFIFO[k]
        /\ inFIFO'[Len(inFIFO) + 1] = srcBuf
    BY <1>1, <2>1, AppendElements, BufferFacts
  <2>3. \A f \in Nat : InLine(f) => f < frame /\ InLine(f)'
    BY <1>1, LineFacts DEF InLine, Pending
  <2>4. InLine(frame)'
    BY <1>1, LineFacts DEF InLine, Pending
  <2>5. \A k \in 1..Len(inFIFO') :
          k \in 1..Len(inFIFO) \/ k = Len(inFIFO) + 1
    BY <2>2, LineFacts
  <2>6. \A i \in 1..Len(encoded) : InLine(encoded[i])' /\ encoded[i] < frame
    BY <2>3, LineFacts DEF Ordered
  <2>7. \A k \in 1..Len(inFIFO) :
          /\ content[inFIFO[k]] \in Nat
          /\ InLine(content[inFIFO[k]])
          /\ content[inFIFO[k]] < frame
    BY <2>3, LineFacts DEF Ordered
  <2>8. \A k \in 1..Len(inFIFO') : InLine(content[inFIFO[k]])'
    BY <1>1, <2>2, <2>3, <2>4, <2>5, <2>7 DEF InLine
  <2>9. \A k \in 1..Len(inFIFO'), i \in 1..Len(encoded) :
          encoded[i] < content[inFIFO'[k]]
    BY <1>1, <2>2, <2>5, <2>6 DEF Ordered
  <2>10. \A k, l \in 1..Len(inFIFO') :
           k < l => content[inFIFO'[k]] < content[inFIFO'[l]]
    <3> SUFFICES ASSUME NEW k \in 1..Len(inFIFO'),
                        NEW l \in 1..Len(inFIFO'), k < l
                 PROVE  content[inFIFO'[k]] < content[inFIFO'[l]]
      OBVIOUS
    <3>1. k \in 1..Len(inFIFO)
      BY <2>2, LineFacts
    <3> QED BY <3>1, <1>1, <2>2, <2>5, <2>7 DEF Ordered
  <2>11. enc = "encode" =>
           /\ InLine(content[encBuf])'
           /\ content[encBuf] < frame
    BY <2>3, LineFacts DEF Ordered, InLine
  <2>12. enc = "encode" =>
           \A k \in 1..Len(inFIFO') : content[encBuf] < content[inFIFO'[k]]
    BY <1>1, <2>2, <2>5, <2>11 DEF Ordered
  <2>13. EncodedInOrder'
    BY DEF Ordered, EncodedInOrder
  <2>14. enc = "encode" =>
           \A i \in 1..Len(encoded) : encoded[i] < content[encBuf]
    BY DEF Ordered
  <2> QED BY <1>1, <1>2, <2>6, <2>8, <2>9, <2>10, <2>11, <2>12, <2>13, <2>14
          DEF Ordered
<1>4. CASE ~(Len(inFIFO) < FIFO_SIZE)
  <2>1. inFIFO' = inFIFO
    BY <1>4, BufferFacts, SizeAssumption DEF QueueFrame, Enqueue
  <2>2. ~Pending'
    BY <1>1 DEF Pending
  <2> QED BY <1>1, <1>2, <2>1, <2>2, KeepOrdered
<1> QED BY <1>3, <1>4

\* The oldest frame is the first in the line (videoenc.cpp:437-441).
LEMMA TakeOrdered ==
  ASSUME Typed, Ordered, inFIFO # <<>>, TakeFrame,
         UNCHANGED <<content, frame, encoded, src, srcBuf, input>>
  PROVE  Ordered'
<1>1. /\ Len(inFIFO) \in Nat \ {0}
      /\ Len(inFIFO') = Len(inFIFO) - 1
      /\ \A k \in 1..Len(inFIFO') : inFIFO'[k] = inFIFO[k + 1]
      /\ encBuf' = inFIFO[1]
  BY TailElements, BufferFacts DEF TakeFrame
<1>2. \A k \in 1..Len(inFIFO') : k + 1 \in 1..Len(inFIFO) /\ 1 < k + 1
  BY <1>1
<1>3. 1 \in 1..Len(inFIFO)
  BY <1>1
<1>4. \A k, l \in 1..Len(inFIFO') : k < l => k + 1 < l + 1
  BY <1>1
<1>5. \A k \in 1..Len(inFIFO') :
        /\ InLine(content[inFIFO[k]])'
        /\ \A i \in 1..Len(encoded) : encoded[i] < content[inFIFO'[k]]
        /\ \A l \in 1..Len(inFIFO') :
             k < l => content[inFIFO'[k]] < content[inFIFO'[l]]
        /\ content[encBuf'] < content[inFIFO'[k]]
  BY <1>1, <1>2, <1>3, <1>4 DEF Ordered, InLine, Pending
<1>6. /\ InLine(content[encBuf])'
      /\ \A i \in 1..Len(encoded) : encoded[i] < content[encBuf']
  BY <1>1, <1>3 DEF Ordered, InLine, Pending
<1>7. /\ EncodedInOrder'
      /\ \A i \in 1..Len(encoded) : InLine(encoded[i])'
      /\ src' \in {"return", "queue"} => content[srcBuf'] = frame
  BY DEF Ordered, EncodedInOrder, InLine, Pending
<1> QED BY <1>5, <1>6, <1>7 DEF Ordered

\* It is encoded (videoenc.cpp:299-303).
LEMMA EncodeOrdered ==
  ASSUME Typed, Ordered, EncodeFrame
  PROVE  Ordered'
<1> USE DEF EncodeFrame, encoderKeeps, setup, sourceVars
<1>1. encoded \in Seq(Content) /\ content[encBuf] \in Content
  BY LineFacts DEF Typed, TypeOK
<1>2. /\ Len(encoded') = Len(encoded) + 1
      /\ \A i \in 1..Len(encoded) : encoded'[i] = encoded[i]
      /\ encoded'[Len(encoded) + 1] = content[encBuf]
  BY <1>1, AppendElements
<1>3. \A i \in 1..Len(encoded') :
        i \in 1..Len(encoded) \/ i = Len(encoded) + 1
  BY <1>2, LineFacts
<1>4. \A i \in 1..Len(encoded') : InLine(encoded[i])'
  BY <1>2, <1>3 DEF Ordered, InLine, Pending
<1>5. EncodedInOrder'
  <2> SUFFICES ASSUME NEW i \in 1..Len(encoded'), NEW j \in 1..Len(encoded'),
                      i < j
               PROVE  encoded'[i] < encoded'[j]
    BY DEF EncodedInOrder
  <2>1. i \in 1..Len(encoded)
    BY <1>2, LineFacts
  <2> QED BY <2>1, <1>2, <1>3 DEF Ordered, EncodedInOrder
<1>6. \A k \in 1..Len(inFIFO) :
        /\ InLine(content[inFIFO[k]])'
        /\ \A i \in 1..Len(encoded') : encoded'[i] < content[inFIFO[k]]
  BY <1>2, <1>3 DEF Ordered, InLine, Pending
<1> QED BY <1>4, <1>5, <1>6 DEF Ordered

\* Every step moves one frame along the line, or none.
LEMMA OrderedNext ==
  Phases /\ Typed /\ Placed /\ Ordered /\ [Next]_vars => Ordered'
<1> SUFFICES ASSUME Phases, Typed, Placed, Ordered, [Next]_vars PROVE Ordered'
  OBVIOUS
<1> USE DEF Phases, Pending, setup, sourceVars, encoderVars, sourceKeeps,
            encoderKeeps
<1>1. CASE input = "camera" /\ CameraTest
  BY <1>1, KeepOrdered DEF CameraTest
<1>2. CASE input = "camera" /\ CameraGetOneframe
  <2>1. CASE src' = "test" /\ frame' = frame
    BY <1>2, <2>1, KeepOrdered DEF CameraGetOneframe
  <2>2. CASE src' = "enter" /\ frame' = frame + 1
    BY <1>2, <2>2, GrabOrdered DEF CameraGetOneframe
  <2> QED BY <1>2, <2>1, <2>2 DEF CameraGetOneframe
<1>3. CASE input = "camera" /\ CameraEnter
  BY <1>3, KeepOrdered DEF CameraEnter
<1>4. CASE input = "camera" /\ CameraCheck
  BY <1>4, KeepOrdered DEF CameraCheck
<1>5. CASE input = "camera" /\ CameraAlloc
  BY <1>5, KeepOrdered DEF CameraAlloc
<1>6. CASE input = "camera" /\ CameraCopy
  <2>1. CASE Released
    BY <1>6, <2>1, KeepOrdered DEF CameraCopy
  <2>2. CASE ~Released
    <3>1. /\ src = "copy" /\ src' = "return" /\ frame' = frame
          /\ content'[srcBuf] = frame
          /\ \A b \in Buf : b # srcBuf => content'[b] = content[b]
          /\ UNCHANGED <<encoded, inFIFO, srcBuf, encBuf, enc>>
      BY <1>6, <2>2, LineFacts DEF CameraCopy, SourceHas, Typed, TypeOK
    <3> QED BY <3>1, FillOrdered
  <2> QED BY <2>1, <2>2
<1>7. CASE input = "camera" /\ CameraReturnFrame
  BY <1>7, KeepOrdered DEF CameraReturnFrame
<1>8. CASE input = "camera" /\ CameraQueue
  BY <1>8, QueueOrdered DEF CameraQueue
<1>9. CASE input = "pipe" /\ FileTest
  BY <1>9, KeepOrdered DEF FileTest
<1>10. CASE input = "pipe" /\ FileAlloc
  BY <1>10, KeepOrdered DEF FileAlloc
<1>11. CASE input = "pipe" /\ FileRead
  <2>1. CASE content' = content /\ frame' = frame /\ src' \in {"crashed", "eof"}
    BY <1>11, <2>1, KeepOrdered DEF FileRead
  <2>2. CASE /\ frame' = frame + 1
             /\ content' = [content EXCEPT ![srcBuf] = frame']
             /\ src' = "queue"
    <3>1. /\ src = "read" /\ content'[srcBuf] = frame'
          /\ \A b \in Buf : b # srcBuf => content'[b] = content[b]
          /\ UNCHANGED <<encoded, inFIFO, srcBuf, encBuf, enc>>
      BY <1>11, <2>2, LineFacts DEF FileRead, SourceHas, Typed, TypeOK
    <3> QED BY <2>2, <3>1, FillOrdered
  <2>3. CASE /\ content' = [content EXCEPT ![srcBuf] = Partial]
             /\ src' = "discard"
             /\ frame' = frame
    <3>1. /\ src = "read"
          /\ \A b \in Buf : b # srcBuf => content'[b] = content[b]
          /\ UNCHANGED <<encoded, inFIFO, srcBuf, encBuf, enc>>
      BY <1>11, <2>3 DEF FileRead, Typed, TypeOK
    <3> QED BY <2>3, <3>1, FillOrdered
  <2> QED BY <1>11, <2>1, <2>2, <2>3 DEF FileRead
<1>12. CASE input = "pipe" /\ FileEof
  BY <1>12, KeepOrdered DEF FileEof
<1>13. CASE input = "pipe" /\ FileDiscard
  BY <1>13, KeepOrdered DEF FileDiscard
<1>14. CASE input = "pipe" /\ FileQueue
  BY <1>14, QueueOrdered DEF FileQueue
<1>15. CASE EncoderTest
  BY <1>15, KeepOrdered DEF EncoderTest
<1>16. CASE EncoderLock
  <2>1. CASE inFIFO # <<>>
    BY <1>16, <2>1, TakeOrdered DEF EncoderLock
  <2>2. CASE inFIFO = <<>>
    BY <1>16, <2>2, KeepOrdered DEF EncoderLock
  <2> QED BY <2>1, <2>2
<1>17. CASE EncoderWake
  <2>1. CASE inFIFO # <<>>
    BY <1>17, <2>1, TakeOrdered DEF EncoderWake
  <2>2. CASE inFIFO = <<>>
    BY <1>17, <2>2, KeepOrdered DEF EncoderWake
  <2> QED BY <2>1, <2>2
<1>18. CASE EncodeFrame
  BY <1>18, EncodeOrdered
<1>19. CASE PushRaw
  BY <1>19, KeepOrdered DEF PushRaw
<1>20. CASE ReturnBuffer
  BY <1>20, KeepOrdered DEF ReturnBuffer
<1>21. CASE StartFileThread
  BY <1>21, KeepOrdered DEF StartFileThread
<1>22. CASE StartCamera
  BY <1>22, KeepOrdered DEF StartCamera
<1>23. CASE CheckSize
  BY <1>23, KeepOrdered DEF CheckSize
<1>24. CASE StartEncoder
  BY <1>24, KeepOrdered DEF StartEncoder
<1>25. CASE CreateEncoderThread
  BY <1>25, KeepOrdered DEF CreateEncoderThread
<1>26. CASE LeaveLoop
  BY <1>26, KeepOrdered DEF LeaveLoop
<1>27. CASE SignalEncoder
  BY <1>27, KeepOrdered DEF SignalEncoder, Signalled
<1>28. CASE StopEncoder
  BY <1>28, KeepOrdered DEF StopEncoder
<1>29. CASE JoinEncoder
  BY <1>29, KeepOrdered DEF JoinEncoder
<1>30. CASE ForgetCamera
  BY <1>30, KeepOrdered DEF ForgetCamera
<1>31. CASE ReleaseEncoder
  BY <1>31, KeepOrdered DEF ReleaseEncoder
<1>32. CASE Exit
  BY <1>32, KeepOrdered DEF Exit
<1>33. CASE SpuriousWakeup
  BY <1>33, KeepOrdered DEF SpuriousWakeup
<1>34. CASE UNCHANGED vars
  BY <1>34, KeepOrdered DEF vars
<1> QED
  BY <1>1, <1>2, <1>3, <1>4, <1>5, <1>6, <1>7, <1>8, <1>9, <1>10, <1>11,
     <1>12, <1>13, <1>14, <1>15, <1>16, <1>17, <1>18, <1>19, <1>20, <1>21,
     <1>22, <1>23, <1>24, <1>25, <1>26, <1>27, <1>28, <1>29, <1>30, <1>31,
     <1>32, <1>33, <1>34
  DEF Next, CameraRuns, FileRuns, EncoderRuns, MainRuns

\* The layer as an invariant.
LEMMA OrderedInvariant == Spec => []Ordered
<1>1. Init => Ordered
  <2> SUFFICES ASSUME Init PROVE Ordered
    OBVIOUS
  <2>1. Len(encoded) = 0 /\ Len(inFIFO) = 0 /\ enc = "none" /\ src = "none"
    BY DEF Init
  <2> QED BY <2>1 DEF Ordered, EncodedInOrder
<1> QED
  BY <1>1, PhasesInvariant, TypedInvariant, PlacedInvariant, OrderedNext, PTL
  DEF Spec

\* Frames are encoded in the order of the source, each at most once, for any
\* number of buffers and places: the thread that fills a buffer and the one
\* that encodes another never meet in one (videoenc.cpp:401-450).
THEOREM FramesInOrder == Spec => []EncodedInOrder
<1>1. Ordered => EncodedInOrder
  BY DEF Ordered
<1> QED BY <1>1, OrderedInvariant, PTL

\* The raw outputs are at most the frame that is being pushed behind.
Shown ==
  /\ RawIsEncoded
  /\ enc = "raw" => /\ Len(encoded) = Len(raw) + 1
                    /\ encoded[Len(encoded)] = content[encBuf]
  /\ enc # "raw" => Len(encoded) = Len(raw)

\* Steps on other buffers keep what was encoded and shown.
LEMMA KeepShown ==
  ASSUME Shown, UNCHANGED <<encoded, raw>>,
         enc' = "raw" <=> enc = "raw",
         enc = "raw" => content'[encBuf'] = content[encBuf]
  PROVE  Shown'
BY DEF Shown, RawIsEncoded

\* The source does not write into the buffer of the encoder thread
\* (videoenc.cpp:176-182, 365-379).
LEMMA FillKeeps ==
  ASSUME Typed, Placed, src \in {"copy", "read"}, NEW n, enc = "raw",
         content' = [content EXCEPT ![srcBuf] = n]
  PROVE  content'[encBuf] = content[encBuf]
<1>1. srcBuf # NoBuf /\ encBuf # NoBuf /\ encBuf \in Buf
  BY DEF Typed, TypeOK
<1>2. srcBuf # encBuf
  BY <1>1 DEF Placed, InputBufferOwnership, InHand
<1> QED BY <1>1, <1>2 DEF Typed, TypeOK

\* VideoEncodeOneFrame takes the picture, and ...
LEMMA EncodeShown ==
  ASSUME Typed, Shown, EncodeFrame
  PROVE  Shown'
<1> USE DEF EncodeFrame, encoderKeeps, setup, sourceVars
<1>1. encoded \in Seq(Content) /\ content[encBuf] \in Content
  BY LineFacts DEF Typed, TypeOK
<1>2. /\ Len(encoded') = Len(encoded) + 1
      /\ \A i \in 1..Len(encoded) : encoded'[i] = encoded[i]
      /\ encoded'[Len(encoded) + 1] = content[encBuf]
  BY <1>1, AppendElements
<1>3. Len(encoded) = Len(raw) /\ Len(encoded) \in Nat
  BY LineFacts DEF Shown
<1> QED BY <1>2, <1>3 DEF Shown, RawIsEncoded

\* ... the raw outputs get the same (videoenc.cpp:293-310).
LEMMA PushShown ==
  ASSUME Typed, Shown, PushRaw
  PROVE  Shown'
<1> USE DEF PushRaw, encoderKeeps, setup, sourceVars
<1>1. raw \in Seq(Content) /\ content[encBuf] \in Content
  BY DEF Typed, TypeOK
<1>2. /\ Len(raw') = Len(raw) + 1
      /\ \A i \in 1..Len(raw) : raw'[i] = raw[i]
      /\ raw'[Len(raw) + 1] = content[encBuf]
  BY <1>1, AppendElements
<1>3. Len(encoded) = Len(raw) + 1 /\ encoded[Len(encoded)] = content[encBuf]
  BY DEF Shown
<1>4. Len(raw) \in Nat
  BY <1>1, LenProperties
<1>5. \A i \in 1..Len(raw') : i \in 1..Len(raw) \/ i = Len(raw) + 1
  BY <1>2, <1>4
<1> QED BY <1>2, <1>3, <1>4, <1>5 DEF Shown, RawIsEncoded

\* Nothing gets between the encoder and the raw outputs.
LEMMA ShownNext ==
  Phases /\ Typed /\ Placed /\ Shown /\ [Next]_vars => Shown'
<1> SUFFICES ASSUME Phases, Typed, Placed, Shown, [Next]_vars PROVE Shown'
  OBVIOUS
<1> USE DEF Phases, setup, sourceVars, encoderVars, sourceKeeps, encoderKeeps
<1>1. CASE input = "camera" /\ CameraTest
  BY <1>1, KeepShown DEF CameraTest
<1>2. CASE input = "camera" /\ CameraGetOneframe
  BY <1>2, KeepShown DEF CameraGetOneframe
<1>3. CASE input = "camera" /\ CameraEnter
  BY <1>3, KeepShown DEF CameraEnter
<1>4. CASE input = "camera" /\ CameraCheck
  BY <1>4, KeepShown DEF CameraCheck
<1>5. CASE input = "camera" /\ CameraAlloc
  BY <1>5, KeepShown DEF CameraAlloc
<1>6. CASE input = "camera" /\ CameraCopy
  <2>1. CASE Released
    BY <1>6, <2>1, KeepShown DEF CameraCopy
  <2>2. CASE ~Released
    BY <1>6, <2>2, FillKeeps, KeepShown DEF CameraCopy
  <2> QED BY <2>1, <2>2
<1>7. CASE input = "camera" /\ CameraReturnFrame
  BY <1>7, KeepShown DEF CameraReturnFrame
<1>8. CASE input = "camera" /\ CameraQueue
  BY <1>8, KeepShown DEF CameraQueue, QueueFrame, Signalled
<1>9. CASE input = "pipe" /\ FileTest
  BY <1>9, KeepShown DEF FileTest
<1>10. CASE input = "pipe" /\ FileAlloc
  BY <1>10, KeepShown DEF FileAlloc
<1>11. CASE input = "pipe" /\ FileRead
  <2>1. CASE content' = content
    BY <1>11, <2>1, KeepShown DEF FileRead
  <2>2. CASE \E n \in {frame', Partial} :
               content' = [content EXCEPT ![srcBuf] = n]
    BY <1>11, <2>2, FillKeeps, KeepShown DEF FileRead
  <2> QED BY <1>11, <2>1, <2>2 DEF FileRead
<1>12. CASE input = "pipe" /\ FileEof
  BY <1>12, KeepShown DEF FileEof
<1>13. CASE input = "pipe" /\ FileDiscard
  BY <1>13, KeepShown DEF FileDiscard
<1>14. CASE input = "pipe" /\ FileQueue
  BY <1>14, KeepShown DEF FileQueue, QueueFrame, Signalled
<1>15. CASE EncoderTest
  BY <1>15, KeepShown DEF EncoderTest
<1>16. CASE EncoderLock
  BY <1>16, KeepShown DEF EncoderLock, TakeFrame
<1>17. CASE EncoderWake
  BY <1>17, KeepShown DEF EncoderWake, TakeFrame
<1>18. CASE EncodeFrame
  BY <1>18, EncodeShown
<1>19. CASE PushRaw
  BY <1>19, PushShown
<1>20. CASE ReturnBuffer
  BY <1>20, KeepShown DEF ReturnBuffer
<1>21. CASE StartFileThread
  BY <1>21, KeepShown DEF StartFileThread
<1>22. CASE StartCamera
  BY <1>22, KeepShown DEF StartCamera
<1>23. CASE CheckSize
  BY <1>23, KeepShown DEF CheckSize
<1>24. CASE StartEncoder
  BY <1>24, KeepShown DEF StartEncoder
<1>25. CASE CreateEncoderThread
  BY <1>25, KeepShown DEF CreateEncoderThread
<1>26. CASE LeaveLoop
  BY <1>26, KeepShown DEF LeaveLoop
<1>27. CASE SignalEncoder
  BY <1>27, KeepShown DEF SignalEncoder, Signalled
<1>28. CASE StopEncoder
  BY <1>28, KeepShown DEF StopEncoder
<1>29. CASE JoinEncoder
  BY <1>29, KeepShown DEF JoinEncoder
<1>30. CASE ForgetCamera
  BY <1>30, KeepShown DEF ForgetCamera
<1>31. CASE ReleaseEncoder
  BY <1>31, KeepShown DEF ReleaseEncoder
<1>32. CASE Exit
  BY <1>32, KeepShown DEF Exit
<1>33. CASE SpuriousWakeup
  BY <1>33, KeepShown DEF SpuriousWakeup
<1>34. CASE UNCHANGED vars
  BY <1>34, KeepShown DEF vars
<1> QED
  BY <1>1, <1>2, <1>3, <1>4, <1>5, <1>6, <1>7, <1>8, <1>9, <1>10, <1>11,
     <1>12, <1>13, <1>14, <1>15, <1>16, <1>17, <1>18, <1>19, <1>20, <1>21,
     <1>22, <1>23, <1>24, <1>25, <1>26, <1>27, <1>28, <1>29, <1>30, <1>31,
     <1>32, <1>33, <1>34
  DEF Next, CameraRuns, FileRuns, EncoderRuns, MainRuns

\* The layer as an invariant.
LEMMA ShownInvariant == Spec => []Shown
<1>1. Init => Shown
  BY DEF Init, Shown, RawIsEncoded
<1> QED
  BY <1>1, PhasesInvariant, TypedInvariant, PlacedInvariant, ShownNext, PTL
  DEF Spec

\* The raw outputs show what was encoded, the same picture for each frame, for
\* any number of buffers: while the encoder thread is between the two, no
\* source gets its buffer (videoenc.cpp:293-310).
THEOREM RawShowsEncoded == Spec => []RawIsEncoded
<1>1. Shown => RawIsEncoded
  BY DEF Shown
<1> QED BY <1>1, ShownInvariant, PTL
=============================================================================
