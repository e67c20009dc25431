----------------------------- MODULE FileThread -----------------------------
(***************************************************************************)
(* file_thread() (videoenc.cpp): raw pictures from the standard input.  An *)
(* input that has ended stays so: every later read() returns 0.  A picture *)
(* is read in one step; module PipeReader has the calls of read() in it.   *)
(***************************************************************************)
EXTENDS PipelineState

\* The end of the input is noticed but mstart is left alone.
FileEof_FlagForgotten ==
  /\ src = "eof"
  /\ src' = "discard"
  /\ UNCHANGED <<sourceKeeps, srcBuf, driver, camBuf, frame, eof, content,
                 mstart, isStart, inFIFO, pool, enc>>

\* A picture that came in part is dropped together with its buffer.
FileDiscard_BufferForgotten ==
  /\ src = "discard"
  /\ srcBuf' = NoBuf
  /\ src' = "test"
  /\ UNCHANGED <<sourceKeeps, driver, camBuf, frame, eof, content, mstart,
                 isStart, inFIFO, pool, enc>>

FileTest ==
  /\ src = "test"
  /\ src' = IF mstart THEN "alloc" ELSE "exited"
  /\ UNCHANGED <<sourceKeeps, srcBuf, driver, camBuf, frame, eof, content,
                 mstart, isStart, inFIFO, pool, enc>>

\* GetOneAllocInputBuffer; the thread sleeps a second when there is none.
FileAlloc ==
  /\ src = "alloc"
  /\ IF Released
     THEN src' = "crashed" /\ UNCHANGED <<srcBuf, pool>>
     ELSE \/ /\ \E b \in pool : srcBuf' = b /\ pool' = pool \ {b}
             /\ src' = "read"
          \/ /\ pool = {}
             /\ src' = "test"
             /\ UNCHANGED <<srcBuf, pool>>
  /\ UNCHANGED <<sourceKeeps, driver, camBuf, frame, eof, content, mstart,
                 isStart, inFIFO, enc>>

\* read_file_data, twice: a whole picture, part of one (the input ends inside
\* it, or a read() fails), or nothing.
FileRead ==
  /\ src = "read"
  /\ IF Released
     THEN src' = "crashed" /\ UNCHANGED <<frame, eof, content>>
     ELSE \/ /\ ~eof
             /\ frame < MaxFrames
             /\ frame' = frame + 1
             /\ content' = [content EXCEPT ![srcBuf] = frame']
             /\ src' = "queue"
             /\ UNCHANGED eof
          \/ /\ ~eof
             /\ eof' \in BOOLEAN
             /\ content' = [content EXCEPT ![srcBuf] = Partial]
             /\ src' = "discard"
             /\ UNCHANGED frame
          \/ /\ eof' = TRUE
             /\ src' = "eof"
             /\ UNCHANGED <<frame, content>>
  /\ UNCHANGED <<sourceKeeps, srcBuf, driver, camBuf, mstart, isStart, inFIFO,
                 pool, enc>>

\* Nothing was read: "End of File".
FileEof ==
  /\ src = "eof"
  /\ mstart' = FALSE
  /\ src' = "discard"
  /\ UNCHANGED <<sourceKeeps, srcBuf, driver, camBuf, frame, eof, content,
                 isStart, inFIFO, pool, enc>>

\* ReturnOneAllocInputBuffer, and a second of sleep.
FileDiscard ==
  /\ src = "discard"
  /\ IF Released
     THEN src' = "crashed" /\ UNCHANGED <<srcBuf, pool>>
     ELSE pool' = pool \cup {srcBuf} /\ srcBuf' = NoBuf /\ src' = "test"
  /\ UNCHANGED <<sourceKeeps, driver, camBuf, frame, eof, content, mstart,
                 isStart, inFIFO, enc>>

FileQueue ==
  /\ src = "queue"
  /\ QueueFrame
  /\ UNCHANGED <<sourceKeeps, driver, camBuf, frame, eof, content, mstart,
                 isStart>>

FileRuns ==
  /\ Running
  /\ input = "pipe"
  /\ \/ FileTest \/ FileAlloc \/ FileRead \/ FileEof \/ FileDiscard
     \/ FileQueue
=============================================================================
