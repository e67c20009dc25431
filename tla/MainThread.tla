----------------------------- MODULE MainThread -----------------------------
(***************************************************************************)
(* main() (videoenc.cpp) from the start of the source to the end.  No      *)
(* handler is ever installed for a signal (the sigaction structure is      *)
(* filled but not used), so quit stays 0.                                  *)
(***************************************************************************)
EXTENDS PipelineState

\* mstart is not cleared after the loop.
StopEncoder_Forgotten ==
  /\ main = "stop"
  /\ main' = "join"
  /\ UNCHANGED <<setup, sourceVars, encoderVars, mstart, cameraDevice,
                 isStart, inFIFO, pool>>

\* The encoder thread is not joined.
JoinEncoder_NoJoin ==
  /\ main = "join"
  /\ main' = "forget"
  /\ UNCHANGED <<setup, sourceVars, encoderVars, mstart, cameraDevice,
                 isStart, inFIFO, pool>>

\* The thread that reads the pipe; without it there is no point in going on.
StartFileThread ==
  /\ main = "start"
  /\ input = "pipe"
  /\ mstart' = TRUE
  /\ \E created \in BOOLEAN :
       /\ src' = IF created THEN "test" ELSE "none"
       /\ main' = IF created THEN "set" ELSE "forget"
  /\ UNCHANGED <<setup, srcBuf, driver, camBuf, frame, eof, content,
                 encoderVars, cameraDevice, isStart, inFIFO, pool>>

\* CreateCamera, setCameraDatacallback, startCamera, which queues the camera's
\* buffers, or the first few of them, or none, as the device lets it (module
\* CameraDevice).  The result of startCamera is not looked at, not even when
\* there is no thread.
StartCamera ==
  /\ main = "start"
  /\ input = "camera"
  /\ mstart' = TRUE
  /\ cameraDevice' = TRUE
  /\ isStart' = TRUE
  /\ driver' = 1..given
  /\ \E created \in BOOLEAN : src' = IF created THEN "test" ELSE "none"
  /\ main' = "size"
  /\ UNCHANGED <<setup, srcBuf, camBuf, frame, eof, content,
                 encoderVars, inFIFO, pool>>

\* The camera may have settled for another size; its thread runs already.
CheckSize ==
  /\ main = "size"
  /\ \E same \in BOOLEAN : main' = IF same THEN "set" ELSE "forget"
  /\ UNCHANGED <<setup, sourceVars, encoderVars, mstart, cameraDevice,
                 isStart, inFIFO, pool>>

\* "start encoder"
StartEncoder ==
  /\ main = "set"
  /\ mstart' = TRUE
  /\ main' = "create"
  /\ UNCHANGED <<setup, sourceVars, encoderVars, cameraDevice, isStart,
                 inFIFO, pool>>

\* A failure of pthread_create is only printed.
CreateEncoderThread ==
  /\ main = "create"
  /\ \E created \in BOOLEAN : enc' = IF created THEN "test" ELSE "none"
  /\ main' = "loop"
  /\ UNCHANGED <<setup, sourceVars, encBuf, encoded, raw, mstart,
                 cameraDevice, isStart, inFIFO, pool>>

\* The loop looks once a second whether the time is over, mstart was cleared
\* or the camera has stopped.
LeaveLoop ==
  /\ main = "loop"
  /\ limited \/ ~mstart \/ (input = "camera" /\ ~isStart)
  /\ main' = "signal"
  /\ UNCHANGED <<setup, sourceVars, encoderVars, mstart, cameraDevice,
                 isStart, inFIFO, pool>>

\* g_cond is signalled first ...
SignalEncoder ==
  /\ main = "signal"
  /\ enc' = Signalled
  /\ main' = "stop"
  /\ UNCHANGED <<setup, sourceVars, encBuf, encoded, raw, mstart,
                 cameraDevice, isStart, inFIFO, pool>>

\* ... and mstart is cleared after that, without g_mutex.
StopEncoder ==
  /\ main = "stop"
  /\ mstart' = FALSE
  /\ main' = "join"
  /\ UNCHANGED <<setup, sourceVars, encoderVars, cameraDevice, isStart,
                 inFIFO, pool>>

JoinEncoder ==
  /\ main = "join"
  /\ enc \in {"none", "exited"}
  /\ main' = "forget"
  /\ UNCHANGED <<setup, sourceVars, encoderVars, mstart, cameraDevice,
                 isStart, inFIFO, pool>>

\* fail_out: the source is not stopped, and no thread of it joined.
ForgetCamera ==
  /\ main = "forget"
  /\ cameraDevice' = FALSE
  /\ main' = "release"
  /\ UNCHANGED <<setup, sourceVars, encoderVars, mstart, isStart, inFIFO,
                 pool>>

\* ReleaseAllocInputBuffer, VideoEncUnInit, VideoEncDestroy.
ReleaseEncoder ==
  /\ main = "release"
  /\ main' = "free"
  /\ UNCHANGED <<setup, sourceVars, encoderVars, mstart, cameraDevice,
                 isStart, inFIFO, pool>>

\* Delete the writers, free venc_cxt and return.
Exit ==
  /\ main = "free"
  /\ main' = "exited"
  /\ UNCHANGED <<setup, sourceVars, encoderVars, mstart, cameraDevice,
                 isStart, inFIFO, pool>>

MainRuns ==
  /\ Running
  /\ \/ StartFileThread \/ StartCamera \/ CheckSize
     \/ StartEncoder \/ CreateEncoderThread
     \/ LeaveLoop \/ SignalEncoder \/ StopEncoder \/ JoinEncoder
     \/ ForgetCamera \/ ReleaseEncoder \/ Exit
=============================================================================
