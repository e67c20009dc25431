------------------------ MODULE CameraDevice_proofs ------------------------
(***************************************************************************)
(* Proofs about CameraDevice, for every number of buffers asked for and    *)
(* every number that the device may grant, over any number of starts and   *)
(* stops.                                                                  *)
(*                                                                         *)
(* The layers: the types (TypeOK) and what the place of the client says of *)
(* the thread and of the rest (Phases); the handle; the buffers; the map;  *)
(* the format.  Each needs the first and none of the others, but for the   *)
(* map, which needs the handle.                                            *)
(***************************************************************************)
EXTENDS CameraDevice, TLAPS

\* The places between two starts, and where a start has not asked for buffers.
Early == {"idle", "open", "params", "request"}

\* There is a thread only between CreateThread and Join, a picture only in its
\* hands; what a start begins with and what it counts.
Phases ==
  /\ pc \notin {"running", "join"} => thread = "none"
  /\ thread # "return" => picture = "none"
  /\ pc \in Early => given = 0 /\ queued = {} /\ lost = {}
  /\ pc = "query" => given = i /\ lost = {}
  /\ pc \in {"open", "params"} => ~formatSet

\* Arithmetic of the buffers.
LEMMA IndexFacts ==
  /\ NoFrame \notin Index
  /\ BUFFER_NUMBER \in 0..MAX_BUFFER_NUM
  /\ 1..MAX_BUFFER_NUM \subseteq 0..MAX_BUFFER_NUM
  /\ 0 \in 0..MAX_BUFFER_NUM
  /\ \A n \in 0..MAX_BUFFER_NUM : 0 <= n
  /\ \A n, k \in 0..MAX_BUFFER_NUM :
       k < n => k \in Index /\ k + 1 \in 0..MAX_BUFFER_NUM /\ k + 1 <= n
BY BufferAssumption DEF NoFrame, Index

\* No step leaves the types or the order of the phases.
LEMMA TypedNext == TypeOK /\ Phases /\ [Next]_vars => TypeOK' /\ Phases'
<1> SUFFICES ASSUME TypeOK, Phases, [Next]_vars PROVE TypeOK' /\ Phases'
  OBVIOUS
<1> USE DEF TypeOK, Phases, Early, formats, memory, buffers, camera
<1>1. CASE Start
  BY <1>1 DEF Start
<1>2. CASE OpenCamera
  BY <1>2 DEF OpenCamera
<1>3. CASE SetVideoParams
  BY <1>3 DEF SetVideoParams, WantedFormat
<1>4. CASE ReqBufs
  BY <1>4, IndexFacts DEF ReqBufs
<1>5. CASE QueryBuf
  BY <1>5, IndexFacts DEF QueryBuf
<1>6. CASE QueryBufFails
  BY <1>6, IndexFacts DEF QueryBufFails
<1>7. CASE QueryBufDone
  BY <1>7 DEF QueryBufDone
<1>8. CASE StartStreaming
  BY <1>8, ZenonT(40) DEF StartStreaming
<1>9. CASE SetFlag
  BY <1>9 DEF SetFlag
<1>10. CASE CreateThread
  BY <1>10 DEF CreateThread
<1>11. CASE TestState
  BY <1>11 DEF TestState
<1>12. CASE NoFrameYet
  BY <1>12 DEF NoFrameYet
<1>13. CASE GetFrame
  BY <1>13, IndexFacts DEF GetFrame
<1>14. CASE Callback
  BY <1>14 DEF Callback, Layout, Format
<1>15. CASE ReleaseFrame
  BY <1>15, IndexFacts DEF ReleaseFrame
<1>16. CASE Stop
  <2>1. isStart' \in BOOLEAN /\ isYUYV' = isYUYV /\ handle' = handle
    BY <1>16 DEF Stop
  <2>2. pc' = "join" /\ pc = "running" /\ streaming' = streaming
    BY <1>16 DEF Stop
  <2>3. UNCHANGED <<formats, memory, buffers, camera, mCamFd, i>>
    BY <1>16 DEF Stop
  <2> QED BY <2>1, <2>2, <2>3
<1>17. CASE Join
  BY <1>17 DEF Join
<1>18. CASE StreamOff
  BY <1>18, IndexFacts, ZenonT(40) DEF StreamOff
<1>19. CASE UnmapBuf
  BY <1>19, IndexFacts DEF UnmapBuf
<1>20. CASE UnmapDone
  BY <1>20 DEF UnmapDone
<1>21. CASE CloseCamera
  BY <1>21, IndexFacts DEF CloseCamera
<1>22. CASE UNCHANGED vars
  BY <1>22 DEF vars
<1> QED
  BY <1>1, <1>2, <1>3, <1>4, <1>5, <1>6, <1>7, <1>8, <1>9, <1>10, <1>11,
     <1>12, <1>13, <1>14, <1>15, <1>16, <1>17, <1>18, <1>19, <1>20, <1>21, <1>22
  DEF Next, StartCamera, CameraThread, StopCamera

\* The layer as an invariant.
LEMMA TypedInvariant == Spec => [](TypeOK /\ Phases)
<1>1. Init => TypeOK
  BY IndexFacts DEF Init, TypeOK, Format
<1>2. Init => Phases
  BY DEF Init, Phases, Early
<1> QED BY <1>1, <1>2, TypedNext, PTL DEF Spec

\* Every variable stays in its type, and the loops over the buffers stay inside
\* those that were asked for or granted (V4L2.c:231-275, 356).
THEOREM TypeCorrect == Spec => []TypeOK
BY TypedInvariant, PTL
-----------------------------------------------------------------------------
(***************************************************************************)
(* The handle.                                                             *)
(***************************************************************************)

HandleInv ==
  /\ HandleAgrees
  /\ pc \in {"idle", "open"} => ~handle
  /\ held # NoFrame => handle

\* The handle changes in OpenCamera and in CloseCamera only.
LEMMA HandleInvariant == Spec => []HandleInv
<1>1. Init => HandleInv
  BY DEF Init, HandleInv, HandleAgrees
<1>2. TypeOK /\ Phases /\ HandleInv /\ [Next]_vars => HandleInv'
  <2> SUFFICES ASSUME TypeOK, Phases, HandleInv, [Next]_vars PROVE HandleInv'
    OBVIOUS
  <2> USE DEF HandleInv, HandleAgrees, buffers, camera
  <2>1. CASE OpenCamera
    BY <2>1 DEF OpenCamera
  <2>2. CASE CloseCamera
    <3>1. held' = NoFrame
      BY <2>2 DEF CloseCamera, Phases, TypeOK, camera
    <3> QED BY <2>2, <3>1 DEF CloseCamera
  <2>3. CASE ReqBufs \/ QueryBuf \/ QueryBufFails \/ StartStreaming
    BY <2>3 DEF ReqBufs, QueryBuf, QueryBufFails, StartStreaming
  <2>4. CASE StreamOff
    BY <2>4 DEF StreamOff
  <2>5. CASE GetFrame
    BY <2>5 DEF GetFrame
  <2>6. CASE ReleaseFrame
    BY <2>6 DEF ReleaseFrame, TypeOK
  <2>7. CASE \/ Start \/ SetVideoParams \/ QueryBufDone \/ SetFlag
             \/ CreateThread \/ TestState \/ NoFrameYet \/ Callback \/ Stop
             \/ Join \/ UnmapBuf \/ UnmapDone \/ UNCHANGED vars
    BY <2>7 DEF Start, SetVideoParams, QueryBufDone, SetFlag, CreateThread,
                TestState, NoFrameYet, Callback, Stop, Join, UnmapBuf,
                UnmapDone, vars
  <2> QED
    BY <2>1, <2>2, <2>3, <2>4, <2>5, <2>6, <2>7
    DEF Next, StartCamera, CameraThread, StopCamera
<1> QED BY <1>1, <1>2, TypedInvariant, PTL DEF Spec

\* Whatever fails, the program has the device open exactly when mCamFd says so
\* (V4L2.c:98-172).
THEOREM HandlesAgree == Spec => []HandleAgrees
<1>1. HandleInv => HandleAgrees
  BY DEF HandleInv
<1> QED BY <1>1, HandleInvariant, PTL
-----------------------------------------------------------------------------
(***************************************************************************)
(* The buffers.                                                            *)
(***************************************************************************)

\* A start adds buffers at the end, the thread moves them, and a stop takes all
\* of them away at once or none.
LEMMA BuffersNext ==
  TypeOK /\ Phases /\ BuffersAccounted /\ [Next]_vars => BuffersAccounted'
<1> SUFFICES ASSUME TypeOK, Phases, BuffersAccounted, [Next]_vars
             PROVE  BuffersAccounted'
  OBVIOUS
<1> USE DEF BuffersAccounted, InHand
<1>1. CASE QueryBuf
  <2>1. i \in Nat /\ i' = i + 1 /\ given = i
    BY <1>1 DEF QueryBuf, TypeOK, Phases
  <2>2. InHand = {} /\ InHand' = {}
    BY <1>1 DEF QueryBuf, TypeOK, Phases, camera
  <2>3. 0..(i' - 1) = (0..(i - 1)) \cup {i} /\ i \notin 0..(i - 1)
    BY <2>1
  <2> QED BY <1>1, <2>1, <2>2, <2>3 DEF QueryBuf
<1>2. CASE GetFrame
  <2>1. held = NoFrame /\ held' \in queued /\ queued' = queued \ {held'}
    BY <1>2 DEF GetFrame, TypeOK
  <2>2. held' # NoFrame
    BY <2>1, IndexFacts DEF TypeOK
  <2>3. InHand = {} /\ InHand' = {held'}
    BY <2>1, <2>2
  <2> QED BY <1>2, <2>1, <2>3 DEF GetFrame
<1>3. CASE ReleaseFrame
  <2>1. InHand = {held} /\ InHand' = {}
    BY <1>3 DEF ReleaseFrame, TypeOK
  <2> QED BY <1>3, <2>1 DEF ReleaseFrame
<1>4. CASE StreamOff
  <2>1. InHand = {} /\ InHand' = {}
    BY <1>4 DEF StreamOff, TypeOK, Phases, camera
  <2>2. 0..(0 - 1) = {}
    OBVIOUS
  <2> QED BY <1>4, <2>1, <2>2 DEF StreamOff
<1>5. CASE CloseCamera
  <2>1. InHand = {} /\ InHand' = {}
    BY <1>5 DEF CloseCamera, TypeOK, Phases, camera
  <2>2. 0..(0 - 1) = {}
    OBVIOUS
  <2> QED BY <1>5, <2>1, <2>2 DEF CloseCamera
<1>6. CASE \/ Start \/ OpenCamera \/ SetVideoParams \/ ReqBufs
           \/ QueryBufFails \/ QueryBufDone \/ StartStreaming \/ SetFlag
           \/ CreateThread \/ TestState \/ NoFrameYet \/ Callback \/ Stop
           \/ Join \/ UnmapBuf \/ UnmapDone \/ UNCHANGED vars
  BY <1>6 DEF Start, OpenCamera, SetVideoParams, ReqBufs, QueryBufFails,
              QueryBufDone, StartStreaming, SetFlag, CreateThread, TestState,
              NoFrameYet, Callback, Stop, Join, UnmapBuf, UnmapDone, vars,
              buffers, camera
<1> QED
  BY <1>1, <1>2, <1>3, <1>4, <1>5, <1>6
  DEF Next, StartCamera, CameraThread, StopCamera

\* Every buffer that a start got queued is with the device, with the callback
\* or lost (V4L2.c:270-308, 369-388).
THEOREM BuffersAreAccounted == Spec => []BuffersAccounted
<1>1. Init => BuffersAccounted
  BY DEF Init, BuffersAccounted, InHand
<1> QED BY <1>1, BuffersNext, TypedInvariant, PTL DEF Spec
-----------------------------------------------------------------------------
(***************************************************************************)
(* The map.                                                                *)
(***************************************************************************)

\* From a place on, the map has no gap, and nothing outside the loop's reach.
Contiguous(from) ==
  \A k \in mapped : k \in from .. (mBufferCnt - 1) /\ from .. k \subseteq mapped

\* The places between the loop that maps and the loop that unmaps.
Between == {"stream", "flag", "create", "running", "join", "off", "undefined"}

\* Buffers are mapped from the first one on and unmapped from the first one on;
\* so, when the second loop stops at a place where nothing is, nothing is left
\* behind it either.
MapInv ==
  /\ mapped \cap stale = {}
  /\ pc \in Early \cup {"close"} => mapped = {}
  /\ pc = "query" => mapped = 0 .. (i - 1)
  /\ pc \in Between => Contiguous(0)
  /\ pc = "unmap" => Contiguous(i)
  /\ pc \in Between /\ ~brokeOff => mapped = 0 .. (mBufferCnt - 1)
  /\ pc = "unmap" /\ ~brokeOff => mapped = i .. (mBufferCnt - 1)
  /\ pc \in Early \cup {"query"} \cup Between => queued \cup InHand \subseteq mapped

\* Only the two loops change the map.
LEMMA MapNext == TypeOK /\ Phases /\ MapInv /\ [Next]_vars => MapInv'
<1> SUFFICES ASSUME TypeOK, Phases, MapInv, [Next]_vars PROVE MapInv'
  OBVIOUS
<1> USE DEF MapInv, Contiguous, Between, Early, InHand
<1>0. mBufferCnt \in Nat /\ i \in Nat
  BY BufferAssumption DEF TypeOK
<1>1. CASE Start \/ OpenCamera \/ SetVideoParams
  BY <1>1 DEF Start, OpenCamera, SetVideoParams, memory, buffers, camera
<1>2. CASE ReqBufs
  <2>1. 0 .. (0 - 1) = {}
    OBVIOUS
  <2> QED BY <1>2, <2>1 DEF ReqBufs, memory, buffers, camera
<1>3. CASE QueryBuf
  <2>1. 0..(i' - 1) = (0..(i - 1)) \cup {i}
    BY <1>0, <1>3 DEF QueryBuf
  <2>2. held' = held /\ pc' = pc /\ pc = "query"
    BY <1>3 DEF QueryBuf, camera
  <2> QED BY <1>3, <2>1, <2>2 DEF QueryBuf
<1>4. CASE QueryBufFails
  <2>1. /\ pc' = "stream" /\ brokeOff' /\ mBufferCnt' = mBufferCnt
        /\ queued' = queued /\ held' = held /\ i < mBufferCnt
        /\ mapped = 0 .. (i - 1)
    BY <1>4 DEF QueryBufFails, camera
  <2>2. /\ mapped' = mapped \/ mapped' = mapped \cup {i}
        /\ stale' \subseteq stale
        /\ i \in mapped' => stale' = stale \ {i} \/ mapped' = mapped
    <3>1. CASE UNCHANGED memory
      BY <3>1 DEF memory
    <3>2. CASE stale' = stale \ {i} /\ UNCHANGED mapped
      BY <3>2
    <3>3. CASE stale' = stale \ {i} /\ mapped' = mapped \cup {i}
      BY <3>3
    <3> QED BY <1>4, <3>1, <3>2, <3>3 DEF QueryBufFails
  <2>3. mapped' = 0 .. (i - 1) \/ mapped' = 0 .. i
    <3>1. (0 .. (i - 1)) \cup {i} = 0 .. i
      BY <1>0
    <3> HIDE DEF MapInv
    <3> QED BY <2>1, <2>2, <3>1
  <2>4. \A k \in mapped' : k \in 0 .. (mBufferCnt - 1) /\ 0 .. k \subseteq mapped'
    BY <1>0, <2>1, <2>3
  <2>5. mapped' \cap stale' = {}
    BY <2>2
  <2>6. queued' \cup InHand' \subseteq mapped'
    BY <1>4, <2>1, <2>2 DEF QueryBufFails
  <2> QED BY <2>1, <2>4, <2>5, <2>6
<1>5. CASE QueryBufDone
  <2>1. /\ pc' = "stream" /\ mapped' = mapped /\ stale' = stale
        /\ mBufferCnt' = mBufferCnt /\ queued' = queued /\ held' = held
        /\ mapped = 0 .. (mBufferCnt - 1) /\ queued \cup InHand \subseteq mapped
    BY <1>5 DEF QueryBufDone, memory, buffers, camera
  <2>2. \A k \in mapped' : k \in 0 .. (mBufferCnt - 1) /\ 0 .. k \subseteq mapped'
    BY <1>0, <2>1
  <2> QED BY <2>1, <2>2
<1>6. CASE StartStreaming \/ SetFlag \/ CreateThread \/ Stop
  BY <1>6 DEF StartStreaming, SetFlag, CreateThread, Stop, memory, buffers, camera
<1>7. CASE TestState \/ NoFrameYet \/ Callback
  BY <1>7 DEF TestState, NoFrameYet, Callback, memory, buffers
<1>8. CASE GetFrame
  BY <1>8 DEF GetFrame, memory
<1>9. CASE ReleaseFrame
  BY <1>9 DEF ReleaseFrame, TypeOK, memory
<1>10. CASE Join
  BY <1>10 DEF Join, memory, buffers
<1>11. CASE StreamOff
  BY <1>11 DEF StreamOff, memory
<1>12. CASE UnmapBuf
  <2>1. CASE i' = i + 1 /\ pc' = pc
    <3>1. /\ mapped' = mapped \ {i} /\ mBufferCnt' = mBufferCnt
          /\ brokeOff' = brokeOff /\ pc = "unmap"
      BY <1>12, <2>1, <1>0 DEF UnmapBuf, buffers
    <3>2. mapped' \cap stale' = {}
      BY <1>12, <2>1, <1>0 DEF UnmapBuf
    <3>3. ASSUME NEW k \in mapped'
          PROVE  k \in i' .. (mBufferCnt - 1) /\ i' .. k \subseteq mapped'
      <4>1. k \in mapped /\ k # i
        BY <3>1
      <4>2. k \in i .. (mBufferCnt - 1) /\ i .. k \subseteq mapped
        BY <3>1, <4>1
      <4> QED BY <1>0, <2>1, <3>1, <4>1, <4>2
    <3>4. ~brokeOff => mapped' = i' .. (mBufferCnt - 1)
      BY <1>0, <2>1, <3>1
    <3> QED BY <2>1, <3>1, <3>2, <3>3, <3>4
  <2>2. CASE i \notin mapped \cup stale /\ pc' = "close" /\ UNCHANGED <<memory, i>>
    <3>1. mapped = {}
      <4>1. SUFFICES ASSUME NEW k \in mapped PROVE FALSE
        OBVIOUS
      <4>2. k \in i .. (mBufferCnt - 1) /\ i .. k \subseteq mapped
        BY <1>12 DEF UnmapBuf
      <4> QED BY <1>0, <2>2, <4>2
    <3> QED BY <2>2, <3>1 DEF memory
  <2> QED BY <1>12, <2>1, <2>2 DEF UnmapBuf
<1>13. CASE UnmapDone
  <2>1. mapped = {}
    BY <1>13, <1>0 DEF UnmapDone
  <2> QED BY <1>13, <2>1 DEF UnmapDone, memory
<1>14. CASE CloseCamera
  BY <1>14 DEF CloseCamera, Phases, TypeOK, memory, camera
<1>15. CASE UNCHANGED vars
  BY <1>15 DEF vars, memory, buffers, camera
<1> QED
  BY <1>1, <1>2, <1>3, <1>4, <1>5, <1>6, <1>7, <1>8, <1>9, <1>10, <1>11, <1>12,
     <1>13, <1>14, <1>15
  DEF Next, StartCamera, CameraThread, StopCamera

\* The layer as an invariant.
LEMMA MapInvariant == Spec => []MapInv
<1>1. Init => MapInv
  BY DEF Init, MapInv, InHand, Early, Between
<1> QED BY <1>1, MapNext, TypedInvariant, PTL DEF Spec

\* The callback never reads through an address that mmap did not return or that
\* was unmapped (V4L2.c:270-305, 350-367, videoenc.cpp:355).
THEOREM EveryFrameIsMapped == Spec => []FramesAreMapped
<1>1. TypeOK /\ Phases /\ MapInv => FramesAreMapped
  BY DEF Phases, MapInv, FramesAreMapped, Alive, Between, TypeOK
<1> QED BY <1>1, TypedInvariant, MapInvariant, PTL

\* A stop leaves no mapping and no handle, however the start before it went
\* (CameraSource.c:138-144, V4L2.c:164-172, 350-367).
THEOREM NothingIsLeft == Spec => []NothingStays
<1>1. MapInv /\ HandleInv => NothingStays
  BY DEF MapInv, HandleInv, NothingStays, Early
<1> QED BY <1>1, MapInvariant, HandleInvariant, PTL

\* No address is unmapped twice, if the last start did not break off in its
\* loop (V4L2.c:231-257, 356-358).
THEOREM OnlyItsOwnIsUnmapped == Spec => []UnmapsItsOwn
<1>1. TypeOK /\ MapInv => UnmapsItsOwn
  <2> SUFFICES ASSUME TypeOK, MapInv, pc = "unmap", i < mBufferCnt, ~brokeOff
               PROVE  i \notin stale
    BY DEF UnmapsItsOwn
  <2>1. i \in i .. (mBufferCnt - 1)
    BY BufferAssumption DEF TypeOK
  <2> QED BY <2>1 DEF MapInv
<1> QED BY <1>1, TypedInvariant, MapInvariant, PTL
-----------------------------------------------------------------------------
(***************************************************************************)
(* The format.                                                             *)
(***************************************************************************)

\* YUYV is settled for only when the device offers it; then it is what the
\* device delivers, once it has accepted a format.
Settled ==
  /\ mCaptureFormat = "YUYV" => "YUYV" \in offered
  /\ formatSet /\ mCaptureFormat = "YUYV" => format = "YUYV"
  /\ pc \in {"create", "running", "join"} => isYUYV = (mCaptureFormat = "YUYV")
  /\ ConversionFits

\* The format is agreed on while there is no thread.
LEMMA SettledNext == TypeOK /\ Phases /\ Settled /\ [Next]_vars => Settled'
<1> SUFFICES ASSUME TypeOK, Phases, Settled, [Next]_vars PROVE Settled'
  OBVIOUS
<1> USE DEF Settled, ConversionFits, Phases, formats, camera
<1>1. CASE Start
  BY <1>1 DEF Start
<1>2. CASE OpenCamera
  BY <1>2 DEF OpenCamera, tryFmt
<1>3. CASE SetVideoParams
  BY <1>3 DEF SetVideoParams, WantedFormat
<1>4. CASE \/ ReqBufs \/ QueryBuf \/ QueryBufFails \/ QueryBufDone
           \/ StartStreaming
  BY <1>4 DEF ReqBufs, QueryBuf, QueryBufFails, QueryBufDone, StartStreaming
<1>5. CASE SetFlag
  BY <1>5 DEF SetFlag
<1>6. CASE CreateThread
  BY <1>6 DEF CreateThread
<1>7. CASE TestState \/ NoFrameYet \/ GetFrame \/ ReleaseFrame
  BY <1>7 DEF TestState, NoFrameYet, GetFrame, ReleaseFrame
<1>8. CASE Callback
  BY <1>8 DEF Callback, Layout, TypeOK, Format
<1>9. CASE Stop \/ Join \/ StreamOff \/ UnmapBuf \/ UnmapDone \/ CloseCamera
  BY <1>9 DEF Stop, Join, StreamOff, UnmapBuf, UnmapDone, CloseCamera
<1>10. CASE UNCHANGED vars
  BY <1>10 DEF vars
<1> QED
  BY <1>1, <1>2, <1>3, <1>4, <1>5, <1>6, <1>7, <1>8, <1>9, <1>10
  DEF Next, StartCamera, CameraThread, StopCamera

\* The layer as an invariant.
LEMMA SettledInvariant == Spec => []Settled
<1>1. Init => Settled
  BY DEF Init, Settled, ConversionFits
<1> QED BY <1>1, SettledNext, TypedInvariant, PTL DEF Spec

\* The flag that the thread reads does not change while it is at work
\* (CameraSource.c:104-118, 138-141).
THEOREM FlagSettles == Spec => []FlagIsSettled
<1>1. TypeOK /\ Phases /\ Settled => FlagIsSettled
  BY DEF Phases, Settled, FlagIsSettled, Alive
<1> QED BY <1>1, TypedInvariant, SettledInvariant, PTL

\* Only YUYV pictures are converted, if the device accepted a format
\* (V4L2.c:134-211, videoenc.cpp:371-383).
THEOREM ConversionsFit == Spec => []ConversionFits
<1>1. Settled => ConversionFits
  BY DEF Settled
<1> QED BY <1>1, SettledInvariant, PTL
=============================================================================
