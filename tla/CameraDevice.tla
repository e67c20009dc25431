---------------------------- MODULE CameraDevice ----------------------------
(***************************************************************************)
(* The AWCameraDevice (CameraSource.c, camera.c, V4L2.c): startCamera opens*)
(* the device, agrees with it on a format, has its buffers mapped and      *)
(* queued, switches the stream on and creates CameraThread(), which takes  *)
(* frames and gives their buffers back; stopCamera ends the thread, takes  *)
(* everything down and leaves a device that can be started again.  The     *)
(* program starts its camera once and never stops it; the model has a      *)
(* client that does both, as the interface offers it.                      *)
(*                                                                         *)
(* Any of the calls may fail; the code looks at no result and goes on.     *)
(*                                                                         *)
(* The device is external: every ioctl on it may fail and does fail when   *)
(* the program has no handle on it.  It keeps to a format that it offers   *)
(* and puts one of its own in the place of one that it does not offer.  It *)
(* grants any number of buffers up to MAX_BUFFER_NUM.                      *)
(*                                                                         *)
(* The calls of the client are one step each, the loops of v4l2QueryBuf and*)
(* v4l2UnmapBuf one for every buffer.  What CameraSourceCallback() does    *)
(* besides converting is in module CameraThread.                           *)
(***************************************************************************)
EXTENDS Naturals

CONSTANTS BUFFER_NUMBER,  \* the buffers that StartCamera asks for (8)
          MAX_BUFFER_NUM  \* the places of v4l2_mem_map_t.mem (16)

ASSUME BufferAssumption ==
  /\ BUFFER_NUMBER \in Nat \ {0}
  /\ MAX_BUFFER_NUM \in Nat
  /\ BUFFER_NUMBER <= MAX_BUFFER_NUM

Index == 0 .. (MAX_BUFFER_NUM - 1)  \* v4l2_buffer.index
NoFrame == MAX_BUFFER_NUM

Format == {"NV12", "YUYV", "YUV420", "other"}

VARIABLES
  \* the device
  handle,         \* the program has it open
  offered,        \* the formats that VIDIOC_ENUM_FMT lists
  format,         \* its current one
  allocated,      \* how many buffers it has granted
  queued,         \* the buffers it may fill
  streaming,      \* VIDIOC_STREAMON
  \* V4L2_CONTEXT
  mCamFd,         \* "closed": 0; "failed": -1; "open": what open() returned
  mCaptureFormat,
  mBufferCnt,
  mapped,         \* the indices where mMapMem.mem is the address of a buffer
  stale,          \* those where it is one that was unmapped
  \* AWCameraContext and AWCameraDevice
  isStart,
  isYUYV,
  \* control
  pc,             \* where the client is
  i,              \* the variable of the loop over the buffers
  thread,         \* where CameraThread() is
  held,           \* the buffer in its hands
  picture,        \* the layout of what the callback gives to the encoder
  \* history, since the last start
  given,          \* how many buffers the start got queued
  lost,           \* the buffers that VIDIOC_QBUF did not take back
  brokeOff,       \* v4l2QueryBuf ended inside its loop
  formatSet       \* VIDIOC_S_FMT succeeded

formats == <<offered, format, mCaptureFormat, formatSet>>
memory == <<mapped, stale>>
buffers == <<allocated, queued, mBufferCnt, given, lost, brokeOff>>
camera == <<thread, held, picture>>
vars == <<formats, memory, buffers, camera, handle, streaming, mCamFd, isStart,
          isYUYV, pc, i>>

\* CreateCamera, and the device as it was left by whoever used it before.
Init ==
  /\ handle = FALSE
  /\ offered \in SUBSET Format
  /\ format \in offered
  /\ allocated = 0
  /\ queued = {}
  /\ streaming = FALSE
  /\ mCamFd = "closed"
  /\ mCaptureFormat = "NV12"
  /\ mBufferCnt = 0
  /\ mapped = {}
  /\ stale = {}
  /\ isStart = FALSE
  /\ isYUYV = FALSE
  /\ pc = "idle"
  /\ i = 0
  /\ thread = "none"
  /\ held = NoFrame
  /\ picture = "none"
  /\ given = 0
  /\ lost = {}
  /\ brokeOff = FALSE
  /\ formatSet = FALSE

tryFmt(f) == f \in offered

\* What v4l2SetVideoParams asks for: YUYV if tryFmt settled for it, and else
\* not what tryFmt found but the pix_fmt of StartCamera.
WantedFormat == IF mCaptureFormat = "YUYV" THEN "YUYV" ELSE "YUV420"

\* What the encoder gets: YUY2ToNV12 converts, memcpy does not.
Layout ==
  IF ~isYUYV THEN format
  ELSE IF format = "YUYV" THEN "NV12" ELSE "garbled"

(***************************************************************************)
(* Faulty variants, which the properties below must tell from the code.    *)
(***************************************************************************)

\* The pix_fmt of StartCamera is asked for in any case.
SetVideoParams_Always ==
  /\ pc = "params"
  /\ \/ UNCHANGED <<format, formatSet>>
     \/ /\ handle
        /\ format' \in IF "YUV420" \in offered THEN {"YUV420"} ELSE offered
        /\ formatSet' = TRUE
  /\ pc' = "request"
  /\ UNCHANGED <<offered, mCaptureFormat, memory, buffers, camera, handle,
                 streaming, mCamFd, isStart, isYUYV, i>>

\* The buffer is queued before it is mapped.
QueryBuf_QueuedFirst ==
  /\ pc = "query"
  /\ i < mBufferCnt
  /\ handle
  /\ i < allocated
  /\ queued' = queued \cup {i}
  /\ given' = i + 1
  /\ \/ mapped' = mapped \cup {i} /\ i' = i + 1 /\ UNCHANGED pc
     \/ pc' = "stream" /\ UNCHANGED <<mapped, i>>
  /\ UNCHANGED <<formats, stale, allocated, mBufferCnt, lost, brokeOff, camera,
                 handle, streaming, mCamFd, isStart, isYUYV>>

\* The loop goes on with the next buffer when one cannot be queued.
QueryBufFails_Continues ==
  /\ pc = "query"
  /\ i < mBufferCnt
  /\ i' = i + 1
  /\ UNCHANGED <<formats, memory, buffers, camera, handle, streaming, mCamFd,
                 isStart, isYUYV, pc>>

\* The last buffer is left out.
QueryBufDone_OneShort ==
  /\ pc = "query"
  /\ i + 1 >= mBufferCnt
  /\ pc' = "stream"
  /\ UNCHANGED <<formats, memory, buffers, camera, handle, streaming, mCamFd,
                 isStart, isYUYV, i>>

\* The flag is set when the thread runs already.
CreateThread_FlagAfterwards ==
  /\ pc = "create"
  /\ isStart' = TRUE
  /\ thread' \in {"none", "test"}
  /\ pc' = "running"
  /\ isYUYV' = FALSE
  /\ UNCHANGED <<formats, memory, buffers, held, picture, handle, streaming,
                 mCamFd, i>>

\* The thread waits for a frame without a timeout.
NoFrameYet_Blocks ==
  /\ thread = "grab"
  /\ UNCHANGED vars

\* The first buffer is left out.
StreamOff_FromOne ==
  /\ pc = "off"
  /\ \/ UNCHANGED <<streaming, queued, given, lost>>
     \/ /\ handle
        /\ streaming' = FALSE
        /\ queued' = {}
        /\ given' = 0
        /\ lost' = {}
  /\ i' = 1
  /\ pc' = "unmap"
  /\ UNCHANGED <<formats, memory, allocated, mBufferCnt, brokeOff, camera,
                 handle, mCamFd, isStart, isYUYV>>

(***************************************************************************)
(* startcamera().                                                          *)
(***************************************************************************)

\* The flag is cleared; a thread of an earlier start has been joined.
Start ==
  /\ pc = "idle"
  /\ isYUYV' = FALSE
  /\ brokeOff' = FALSE
  /\ formatSet' = FALSE
  /\ pc' = "open"
  /\ UNCHANGED <<offered, format, mCaptureFormat, memory, allocated, queued,
                 mBufferCnt, given, lost, camera, handle, streaming, mCamFd,
                 isStart, i>>

\* open() fails; or one of the checks after it does, and the device is closed
\* again (END_ERROR); or the device offers a format that is liked.  When
\* VIDIOC_ENUM_FMT fails it lists nothing at all.
OpenCamera ==
  /\ pc = "open"
  /\ \/ mCamFd' = "failed" /\ UNCHANGED <<handle, mCaptureFormat>>
     \/ mCamFd' = "closed" /\ UNCHANGED <<handle, mCaptureFormat>>
     \/ /\ tryFmt("NV12") \/ tryFmt("YUYV")
        /\ mCamFd' = "open"
        /\ handle' = TRUE
        /\ mCaptureFormat' = IF tryFmt("NV12") THEN "NV12" ELSE "YUYV"
  /\ pc' = "params"
  /\ UNCHANGED <<offered, format, formatSet, memory, buffers, camera, streaming,
                 isStart, isYUYV, i>>

\* v4l2SetVideoParams: mCaptureFormat is overwritten before VIDIOC_S_FMT, and
\* the format that the device settles for is not read back.
SetVideoParams ==
  /\ pc = "params"
  /\ mCaptureFormat' = WantedFormat
  /\ \/ UNCHANGED <<format, formatSet>>
     \/ /\ handle
        /\ format' \in IF WantedFormat \in offered THEN {WantedFormat}
                                                  ELSE offered
        /\ formatSet' = TRUE
  /\ pc' = "request"
  /\ UNCHANGED <<offered, memory, buffers, camera, handle, streaming, mCamFd,
                 isStart, isYUYV, i>>

\* v4l2ReqBufs: the device may grant fewer buffers, or more.
ReqBufs ==
  /\ pc = "request"
  /\ \/ mBufferCnt' = BUFFER_NUMBER /\ UNCHANGED allocated
     \/ /\ handle
        /\ allocated' \in 1..MAX_BUFFER_NUM
        /\ mBufferCnt' = allocated'
  /\ i' = 0
  /\ pc' = "query"
  /\ UNCHANGED <<formats, memory, queued, given, lost, brokeOff, camera, handle,
                 streaming, mCamFd, isStart, isYUYV>>

\* v4l2QueryBuf: VIDIOC_QUERYBUF, mmap and VIDIOC_QBUF for one buffer.
QueryBuf ==
  /\ pc = "query"
  /\ i < mBufferCnt
  /\ handle
  /\ i < allocated
  /\ mapped' = mapped \cup {i}
  /\ stale' = stale \ {i}
  /\ queued' = queued \cup {i}
  /\ given' = i + 1
  /\ i' = i + 1
  /\ UNCHANGED <<formats, allocated, mBufferCnt, lost, brokeOff, camera, handle,
                 streaming, mCamFd, isStart, isYUYV, pc>>

\* One of the three fails for this buffer: mem is as it was, or it is
\* MAP_FAILED, or it is mapped.  Nothing is undone.
QueryBufFails ==
  /\ pc = "query"
  /\ i < mBufferCnt
  /\ \/ UNCHANGED memory
     \/ handle /\ i < allocated /\ stale' = stale \ {i} /\ UNCHANGED mapped
     \/ /\ handle
        /\ i < allocated
        /\ stale' = stale \ {i}
        /\ mapped' = mapped \cup {i}
  /\ brokeOff' = TRUE
  /\ pc' = "stream"
  /\ UNCHANGED <<formats, allocated, queued, mBufferCnt, given, lost, camera,
                 handle, streaming, mCamFd, isStart, isYUYV, i>>

QueryBufDone ==
  /\ pc = "query"
  /\ i = mBufferCnt
  /\ pc' = "stream"
  /\ UNCHANGED <<formats, memory, buffers, camera, handle, streaming, mCamFd,
                 isStart, isYUYV, i>>

\* v4l2StartStreaming.
StartStreaming ==
  /\ pc = "stream"
  /\ \/ UNCHANGED streaming
     \/ handle /\ allocated > 0 /\ streaming' = TRUE
  /\ pc' = "flag"
  /\ UNCHANGED <<formats, memory, buffers, camera, handle, mCamFd, isStart,
                 isYUYV, i>>

\* isYUYV from v4l2GetCaptureFmt.
SetFlag ==
  /\ pc = "flag"
  /\ isYUYV' = (mCaptureFormat = "YUYV")
  /\ pc' = "create"
  /\ UNCHANGED <<formats, memory, buffers, camera, handle, streaming, mCamFd,
                 isStart, i>>

\* set_state(CameraCtx, 1) and pthread_create, which may fail.
CreateThread ==
  /\ pc = "create"
  /\ isStart' = TRUE
  /\ thread' \in {"none", "test"}
  /\ pc' = "running"
  /\ UNCHANGED <<formats, memory, buffers, held, picture, handle, streaming,
                 mCamFd, isYUYV, i>>

(***************************************************************************)
(* CameraThread().                                                         *)
(***************************************************************************)

\* get_state, and the end of the thread.
TestState ==
  /\ thread = "test"
  /\ thread' = IF isStart THEN "grab" ELSE "exited"
  /\ UNCHANGED <<formats, memory, buffers, held, picture, handle, streaming,
                 mCamFd, isStart, isYUYV, pc, i>>

\* v4l2WaitCameraReady times out, or VIDIOC_DQBUF has no frame.
NoFrameYet ==
  /\ thread = "grab"
  /\ thread' = "test"
  /\ UNCHANGED <<formats, memory, buffers, held, picture, handle, streaming,
                 mCamFd, isStart, isYUYV, pc, i>>

\* select() and VIDIOC_DQBUF.
GetFrame ==
  /\ thread = "grab"
  /\ streaming
  /\ \E b \in queued : held' = b /\ queued' = queued \ {b}
  /\ thread' = "callback"
  /\ UNCHANGED <<formats, memory, allocated, mBufferCnt, given, lost, brokeOff,
                 picture, handle, streaming, mCamFd, isStart, isYUYV, pc, i>>

\* The callback reads mMapMem.mem[held], or skips the frame.
Callback ==
  /\ thread = "callback"
  /\ picture' \in {"none", Layout}
  /\ thread' = "return"
  /\ UNCHANGED <<formats, memory, buffers, held, handle, streaming, mCamFd,
                 isStart, isYUYV, pc, i>>

\* releasePreviewFrame: a failure of VIDIOC_QBUF is only printed.
ReleaseFrame ==
  /\ thread = "return"
  /\ \/ queued' = queued \cup {held} /\ UNCHANGED lost
     \/ lost' = lost \cup {held} /\ UNCHANGED queued
  /\ held' = NoFrame
  /\ picture' = "none"
  /\ thread' = "test"
  /\ UNCHANGED <<formats, memory, allocated, mBufferCnt, given, brokeOff, handle,
                 streaming, mCamFd, isStart, isYUYV, pc, i>>

(***************************************************************************)
(* stopcamera().                                                           *)
(***************************************************************************)

\* set_state(CameraCtx, 0).
Stop ==
  /\ pc = "running"
  /\ isStart' = FALSE
  /\ pc' = "join"
  /\ UNCHANGED <<formats, memory, buffers, camera, handle, streaming, mCamFd,
                 isYUYV, i>>

\* pthread_join.  If there never was a thread, thread_id is undefined: the
\* call may fail or never come back.
Join ==
  /\ pc = "join"
  /\ \/ thread = "exited" /\ pc' = "off"
     \/ thread = "none" /\ pc' \in {"off", "undefined"}
  /\ thread' = "none"
  /\ UNCHANGED <<formats, memory, buffers, held, picture, handle, streaming,
                 mCamFd, isStart, isYUYV, i>>

\* v4l2StopStreaming: the device gives up all buffers, if it does as it is told.
StreamOff ==
  /\ pc = "off"
  /\ \/ UNCHANGED <<streaming, queued, given, lost>>
     \/ /\ handle
        /\ streaming' = FALSE
        /\ queued' = {}
        /\ given' = 0
        /\ lost' = {}
  /\ i' = 0
  /\ pc' = "unmap"
  /\ UNCHANGED <<formats, memory, allocated, mBufferCnt, brokeOff, camera,
                 handle, mCamFd, isStart, isYUYV>>

\* v4l2UnmapBuf for one buffer.  munmap takes the address of whatever is or
\* was there; it may refuse a null pointer or MAP_FAILED, and the loop ends.
UnmapBuf ==
  /\ pc = "unmap"
  /\ i < mBufferCnt
  /\ \/ /\ mapped' = mapped \ {i}
        /\ stale' = IF i \in mapped THEN stale \cup {i} ELSE stale
        /\ i' = i + 1
        /\ UNCHANGED pc
     \/ i \notin mapped \cup stale /\ pc' = "close" /\ UNCHANGED <<memory, i>>
  /\ UNCHANGED <<formats, buffers, camera, handle, streaming, mCamFd, isStart,
                 isYUYV>>

UnmapDone ==
  /\ pc = "unmap"
  /\ i = mBufferCnt
  /\ pc' = "close"
  /\ UNCHANGED <<formats, memory, buffers, camera, handle, streaming, mCamFd,
                 isStart, isYUYV, i>>

\* closeCameraDevice: the device forgets what it granted.
CloseCamera ==
  /\ pc = "close"
  /\ mCamFd' = "closed"
  /\ handle' = FALSE
  /\ streaming' = FALSE
  /\ allocated' = 0
  /\ queued' = {}
  /\ given' = 0
  /\ lost' = {}
  /\ pc' = "idle"
  /\ UNCHANGED <<formats, memory, mBufferCnt, brokeOff, camera, isStart, isYUYV,
                 i>>
-----------------------------------------------------------------------------
StartCamera ==
  \/ OpenCamera \/ SetVideoParams \/ ReqBufs
  \/ QueryBuf \/ QueryBufFails \/ QueryBufDone
  \/ StartStreaming \/ SetFlag \/ CreateThread

CameraThread == TestState \/ NoFrameYet \/ GetFrame \/ Callback \/ ReleaseFrame

StopCamera == Join \/ StreamOff \/ UnmapBuf \/ UnmapDone \/ CloseCamera

Next == Start \/ StartCamera \/ CameraThread \/ Stop \/ StopCamera

Spec == Init /\ [][Next]_vars

(***************************************************************************)
(* The thread is scheduled, and so is a client inside stopCamera; it need  *)
(* not call it.  Callbacks return.                                         *)
(***************************************************************************)
FairSpec == Spec /\ WF_vars(CameraThread) /\ WF_vars(StopCamera)
-----------------------------------------------------------------------------
(***************************************************************************)
(* Safety.                                                                 *)
(***************************************************************************)

\* The types of the variables.  The loops over the buffers stay inside those
\* that were asked for or granted (V4L2.c:231-275, 356).
TypeOK ==
  /\ handle \in BOOLEAN
  /\ offered \subseteq Format
  /\ format \in Format
  /\ allocated \in 0..MAX_BUFFER_NUM
  /\ queued \subseteq Index
  /\ streaming \in BOOLEAN
  /\ mCamFd \in {"closed", "failed", "open"}
  /\ mCaptureFormat \in {"NV12", "YUYV", "YUV420"}
  /\ mBufferCnt \in 0..MAX_BUFFER_NUM
  /\ mapped \subseteq Index
  /\ stale \subseteq Index
  /\ isStart \in BOOLEAN
  /\ isYUYV \in BOOLEAN
  /\ pc \in {"idle", "open", "params", "request", "query", "stream", "flag",
             "create", "running", "join", "off", "unmap", "close", "undefined"}
  /\ i \in 0..MAX_BUFFER_NUM
  /\ pc \in {"query", "unmap"} => i <= mBufferCnt
  /\ thread \in {"none", "test", "grab", "callback", "return", "exited"}
  /\ held \in Index \cup {NoFrame}
  /\ thread \in {"callback", "return"} <=> held # NoFrame
  /\ picture \in Format \cup {"none", "garbled"}
  /\ given \in 0..MAX_BUFFER_NUM
  /\ lost \subseteq Index
  /\ brokeOff \in BOOLEAN
  /\ formatSet \in BOOLEAN

\* The buffer in the hands of CameraThread(), and whether it is at work.
InHand == {held} \ {NoFrame}
Alive == thread \in {"test", "grab", "callback", "return"}

\* The program has the device open exactly when its context says so: whichever
\* check fails, the device is closed again, and nothing is granted or streamed
\* without it (V4L2.c:98-172).
HandleAgrees ==
  /\ handle <=> mCamFd = "open"
  /\ ~handle => allocated = 0 /\ queued = {} /\ ~streaming

\* While the thread is at work, all that the device may fill and all that the
\* callback may read is mapped: however far the set-up came, and although
\* stopCamera unmaps the buffers whether or not the stream could be stopped
\* (V4L2.c:270-305, 350-367, CameraSource.c:138-144, videoenc.cpp:355).
FramesAreMapped == Alive => queued \cup InHand \subseteq mapped

\* The buffers with the device, with the callback and lost are different ones,
\* and together they are the first that the start got queued, which may be
\* fewer than were granted (V4L2.c:270-308, 369-388).
BuffersAccounted ==
  /\ queued \cap lost = {}
  /\ InHand \cap (queued \cup lost) = {}
  /\ queued \cup InHand \cup lost = 0 .. (given - 1)

\* A thread at work finds isYUYV as the last agreement on the format left it:
\* no frame is converted by the flag of an earlier start, and no thread of an
\* earlier start lives on (CameraSource.c:104-118, 138-141).
FlagIsSettled == Alive => isYUYV = (mCaptureFormat = "YUYV")

\* If the device accepted a format, a picture is converted only when it is
\* YUYV, although the format is not read back (V4L2.c:134-211,
\* videoenc.cpp:371-383).
ConversionFits == formatSet => picture # "garbled"

\* stopCamera leaves nothing behind, wherever the start before it broke off and
\* whatever it could not stop: a mapping that stays would keep the device's
\* memory for good (CameraSource.c:138-144, V4L2.c:164-172, 350-367).
NothingStays == pc = "idle" => mapped = {} /\ ~handle

\* v4l2UnmapBuf unmaps what the last start has mapped, never an address that an
\* earlier stop has unmapped and that may belong to something else by now.
\* mem and mBufferCnt outlive a stop, so this needs a start that did not break
\* off (V4L2.c:231-257, 356-358).
UnmapsItsOwn == pc = "unmap" /\ i < mBufferCnt /\ ~brokeOff => i \notin stale

\* What the README requires of the source, and main() tells the encoder
\* (VENC_PIXEL_YUV420P): with a device that does what it is asked, pictures
\* are planar (README.md:23-25, videoenc.cpp:523).
EncoderGetsPlanar ==
  formatSet /\ format = mCaptureFormat => picture \in {"none", "YUV420"}

(***************************************************************************)
(* Liveness, under FairSpec.                                               *)
(***************************************************************************)

\* stopCamera comes back if there is a thread to join: the wait for a frame
\* ends by itself, and the thread looks at isStart after it
\* (CameraSource.c:60-86, 138-144, V4L2.c:402-416).
StopReturns == (pc = "join" /\ thread # "none") ~> (pc = "idle")
=============================================================================
