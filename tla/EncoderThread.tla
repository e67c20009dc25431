--------------------------- MODULE EncoderThread ---------------------------
(***************************************************************************)
(* encoder_thread() and process_in_buffer() (videoenc.cpp).                *)
(***************************************************************************)
EXTENDS PipelineState

\* The loop waits without looking at the queue first.
EncoderLock_Blind ==
  /\ enc = "lock"
  /\ enc' = "wait"
  /\ UNCHANGED <<encoderKeeps, encBuf, inFIFO, pool, encoded, raw>>

\* The newest frame is taken instead of the oldest.
TakeFrame_Newest ==
  /\ encBuf' = inFIFO[Len(inFIFO)]
  /\ inFIFO' = SubSeq(inFIFO, 1, Len(inFIFO) - 1)
  /\ enc' = "encode"

\* The input buffer is given back as soon as it was encoded.
EncodeFrame_EarlyReturn ==
  /\ enc = "encode"
  /\ encoded' = Append(encoded, content[encBuf])
  /\ pool' = pool \cup {encBuf}
  /\ enc' = "raw"
  /\ UNCHANGED <<encoderKeeps, encBuf, inFIFO, raw>>

EncoderTest ==
  /\ enc = "test"
  /\ enc' = IF mstart THEN "lock" ELSE "exited"
  /\ UNCHANGED <<encoderKeeps, encBuf, inFIFO, pool, encoded, raw>>

\* Dequeue the oldest frame.
TakeFrame ==
  /\ encBuf' = Head(inFIFO)
  /\ inFIFO' = Tail(inFIFO)
  /\ enc' = "encode"

\* Lock, and take a frame or wait for one.
EncoderLock ==
  /\ enc = "lock"
  /\ IF inFIFO # <<>>
     THEN TakeFrame
     ELSE enc' = "wait" /\ UNCHANGED <<encBuf, inFIFO>>
  /\ UNCHANGED <<encoderKeeps, pool, encoded, raw>>

SpuriousWakeup ==
  /\ Running
  /\ enc = "wait"
  /\ enc' = "wake"
  /\ UNCHANGED <<encoderKeeps, encBuf, inFIFO, pool, encoded, raw>>

\* After the wait: take a frame if there is one.
EncoderWake ==
  /\ enc = "wake"
  /\ IF inFIFO # <<>>
     THEN TakeFrame
     ELSE enc' = "test" /\ UNCHANGED <<encBuf, inFIFO>>
  /\ UNCHANGED <<encoderKeeps, pool, encoded, raw>>

\* FlushCacheAllocInputBuffer, AddOneInputBuffer, VideoEncodeOneFrame.  Their
\* errors are only printed.
EncodeFrame ==
  /\ enc = "encode"
  /\ encoded' = Append(encoded, content[encBuf])
  /\ enc' = "raw"
  /\ UNCHANGED <<encoderKeeps, encBuf, inFIFO, pool, raw>>

\* The same buffer goes to the raw outputs.
PushRaw ==
  /\ enc = "raw"
  /\ raw' = Append(raw, content[encBuf])
  /\ enc' = "used"
  /\ UNCHANGED <<encoderKeeps, encBuf, inFIFO, pool, encoded>>

\* AlreadyUsedInputBuffer, ReturnOneAllocInputBuffer.  What follows,
\* write_bitstream(), works on the encoder's output and the writers only.
ReturnBuffer ==
  /\ enc = "used"
  /\ pool' = pool \cup {encBuf}
  /\ encBuf' = NoBuf
  /\ enc' = "test"
  /\ UNCHANGED <<encoderKeeps, inFIFO, encoded, raw>>

EncoderRuns ==
  /\ Running
  /\ \/ EncoderTest \/ EncoderLock \/ EncoderWake
     \/ EncodeFrame \/ PushRaw \/ ReturnBuffer
=============================================================================
