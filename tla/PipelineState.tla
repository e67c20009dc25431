--------------------------- MODULE PipelineState ---------------------------
(***************************************************************************)
(* The state that the threads of videoenc share (videoenc.cpp): the        *)
(* Venc_context, the queue g_inFIFO with g_mutex and g_cond, the encoder's *)
(* input buffers and the camera's.  Each thread is a module of its own     *)
(* (CameraThread, FileThread, EncoderThread, MainThread); CapturePipeline  *)
(* puts them together.                                                     *)
(*                                                                         *)
(* A step is a critical section of g_mutex, a call of the encoder library  *)
(* or of the camera driver, or one access to a field of Venc_context, which*)
(* the threads read and write without a lock.  pthread_cond_wait releases  *)
(* g_mutex and blocks in one step and may return without a signal.         *)
(***************************************************************************)
EXTENDS Naturals, FIFOQueue

CONSTANTS FIFO_SIZE,     \* the capacity of g_inFIFO (10 in the code)
          nBufferNum,    \* the encoder's input buffers (4)
          BUFFER_NUMBER, \* the camera's buffers, at most (8)
          MaxFrames      \* bound on the frames that the source delivers

ASSUME SizeAssumption ==
  /\ FIFO_SIZE \in Nat \ {0}
  /\ nBufferNum \in Nat \ {0}
  /\ BUFFER_NUMBER \in Nat \ {0}
  /\ MaxFrames \in Nat

Buf == 1..nBufferNum       \* VencInputBuffer
CamBuf == 1..BUFFER_NUMBER \* v4l2_buffer.index
NoBuf == 0

\* Frames are numbered as the source delivers them.
Partial == MaxFrames + 1   \* a buffer that read_file_data filled in part
Content == 0..Partial      \* 0: never filled

VARIABLES
  input,        \* g_options.input: "camera" or "pipe" (input == "-")
  limited,      \* duration > 0
  given,        \* how many buffers the start of the camera gets queued
  mstart,       \* venc_cxt->mstart # 0
  cameraDevice, \* venc_cxt->CameraDevice # NULL
  isStart,      \* CameraCtx->isStart
  inFIFO,       \* g_inFIFO
  pool,         \* the encoder's free input buffers
  content,      \* the frame that each input buffer holds
  main,         \* where main() is
  src,          \* where CameraThread() or file_thread() is
  srcBuf,       \* its local input_buffer
  enc,          \* where encoder_thread() is
  encBuf,       \* its local input_buffer
  driver,       \* the camera buffers that are queued in the driver
  camBuf,       \* the camera buffer in the hands of CameraThread()
  frame,        \* the number of the last frame of the source
  eof,          \* the input has ended
  encoded,      \* history: the frames given to VideoEncodeOneFrame
  raw           \* history: the frames pushed to the raw outputs

setup == <<input, limited, given>>
sourceVars == <<src, srcBuf, driver, camBuf, frame, eof, content>>
encoderVars == <<enc, encBuf, encoded, raw>>
vars == <<setup, sourceVars, encoderVars, mstart, cameraDevice, isStart,
          inFIFO, pool, main>>

\* What a source thread and the encoder thread leave alone.
sourceKeeps == <<setup, encBuf, encoded, raw, cameraDevice, main>>
encoderKeeps == <<setup, sourceVars, mstart, cameraDevice, isStart, main>>

\* The encoder has been released (ReleaseAllocInputBuffer, VideoEncDestroy).
Released == main \in {"free", "exited"}

\* Threads run until main() returns or one of them touches what is gone.
Running == main # "exited" /\ src # "crashed"

\* pthread_cond_signal(&g_cond): only the encoder thread ever waits.
Signalled == IF enc = "wait" THEN "wake" ELSE enc

\* The signal is left out when the queue was empty before.
QueueFrame_NoSignalOnEmpty ==
  /\ inFIFO' = Enqueue(inFIFO, srcBuf, FIFO_SIZE)
  /\ IF Len(inFIFO) < FIFO_SIZE
     THEN /\ enc' = IF inFIFO # <<>> THEN Signalled ELSE enc
          /\ UNCHANGED pool
     ELSE pool' = pool \cup {srcBuf} /\ UNCHANGED enc
  /\ srcBuf' = NoBuf
  /\ src' = "test"

\* The buffer is given back although it is in the queue.
QueueFrame_GivenBackToo ==
  /\ inFIFO' = Enqueue(inFIFO, srcBuf, FIFO_SIZE)
  /\ pool' = pool \cup {srcBuf}
  /\ enc' = Signalled
  /\ srcBuf' = NoBuf
  /\ src' = "test"

\* The end of both source loops: enqueue, and signal or give the buffer back
\* (videoenc.cpp:197-205 and 386-394).
QueueFrame ==
  /\ inFIFO' = Enqueue(inFIFO, srcBuf, FIFO_SIZE)
  /\ IF Len(inFIFO) < FIFO_SIZE
     THEN enc' = Signalled /\ UNCHANGED pool
     ELSE pool' = pool \cup {srcBuf} /\ UNCHANGED enc
  /\ srcBuf' = NoBuf
  /\ src' = "test"
=============================================================================
