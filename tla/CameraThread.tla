---------------------------- MODULE CameraThread ----------------------------
(***************************************************************************)
(* CameraThread() (CameraSource.c) and CameraSourceCallback(), which it    *)
(* calls for every frame (videoenc.cpp).  The driver below VIDIOC_DQBUF and*)
(* VIDIOC_QBUF hands out the buffers it was given, each with a new frame,  *)
(* and takes back every one.                                               *)
(***************************************************************************)
EXTENDS PipelineState

\* A small buffer is skipped without giving it back to the driver.
CameraCheck_SmallKept ==
  /\ src = "check"
  /\ \/ /\ ~mstart
        /\ src' = "giveBack"
        /\ UNCHANGED camBuf
     \/ /\ mstart
        /\ src' = "alloc"
        /\ UNCHANGED camBuf
     \/ /\ mstart
        /\ src' = "test"
        /\ camBuf' = NoBuf
  /\ UNCHANGED <<sourceKeeps, srcBuf, driver, frame, eof, content, mstart,
                 isStart, inFIFO, pool, enc>>

\* The state is tested with CameraCtx->lock held.
CameraTest ==
  /\ src = "test"
  /\ src' = IF isStart THEN "grab" ELSE "exited"
  /\ UNCHANGED <<sourceKeeps, srcBuf, driver, camBuf, frame, eof, content,
                 mstart, isStart, inFIFO, pool, enc>>

\* CameraGetOneframe: select() for two seconds, then VIDIOC_DQBUF.  A timeout
\* or an error only leads to the next turn of the loop.
CameraGetOneframe ==
  /\ src = "grab"
  /\ \/ /\ src' = "test"
        /\ UNCHANGED <<driver, camBuf, frame>>
     \/ /\ frame < MaxFrames
        /\ \E b \in driver : camBuf' = b /\ driver' = driver \ {b}
        /\ frame' = frame + 1
        /\ src' = "enter"
  /\ UNCHANGED <<sourceKeeps, srcBuf, eof, content, mstart, isStart, inFIFO,
                 pool, enc>>

\* The callback takes a copy of venc_cxt->CameraDevice, which it dereferences
\* on every path.
CameraEnter ==
  /\ src = "enter"
  /\ src' = IF cameraDevice THEN "check" ELSE "crashed"
  /\ UNCHANGED <<sourceKeeps, srcBuf, driver, camBuf, frame, eof, content,
                 mstart, isStart, inFIFO, pool, enc>>

\* A frame that is not wanted any more, or is too small, goes back.
CameraCheck ==
  /\ src = "check"
  /\ \/ /\ ~mstart
        /\ src' = "giveBack"
     \/ /\ mstart
        /\ \E small \in BOOLEAN : src' = IF small THEN "giveBack" ELSE "alloc"
  /\ UNCHANGED <<sourceKeeps, srcBuf, driver, camBuf, frame, eof, content,
                 mstart, isStart, inFIFO, pool, enc>>

\* GetOneAllocInputBuffer; the frame is skipped when the encoder has none.
CameraAlloc ==
  /\ src = "alloc"
  /\ IF Released
     THEN src' = "crashed" /\ UNCHANGED <<srcBuf, pool>>
     ELSE \/ /\ \E b \in pool : srcBuf' = b /\ pool' = pool \ {b}
             /\ src' = "copy"
          \/ /\ pool = {}
             /\ src' = "giveBack"
             /\ UNCHANGED <<srcBuf, pool>>
  /\ UNCHANGED <<sourceKeeps, driver, camBuf, frame, eof, content, mstart,
                 isStart, inFIFO, enc>>

\* Convert or copy the picture into the encoder's buffer.
CameraCopy ==
  /\ src = "copy"
  /\ IF Released
     THEN src' = "crashed" /\ UNCHANGED content
     ELSE src' = "return" /\ content' = [content EXCEPT ![srcBuf] = frame]
  /\ UNCHANGED <<sourceKeeps, srcBuf, driver, camBuf, frame, eof, mstart,
                 isStart, inFIFO, pool, enc>>

\* CameraDevice->returnFrame: VIDIOC_QBUF.
CameraReturnFrame ==
  /\ src \in {"giveBack", "return"}
  /\ driver' = driver \cup {camBuf}
  /\ camBuf' = NoBuf
  /\ src' = IF src = "return" THEN "queue" ELSE "test"
  /\ UNCHANGED <<sourceKeeps, srcBuf, frame, eof, content, mstart, isStart,
                 inFIFO, pool, enc>>

CameraQueue ==
  /\ src = "queue"
  /\ QueueFrame
  /\ UNCHANGED <<sourceKeeps, driver, camBuf, frame, eof, content, mstart,
                 isStart>>

CameraRuns ==
  /\ Running
  /\ input = "camera"
  /\ \/ CameraTest \/ CameraGetOneframe \/ CameraEnter \/ CameraCheck
     \/ CameraAlloc \/ CameraCopy \/ CameraReturnFrame \/ CameraQueue
=============================================================================
