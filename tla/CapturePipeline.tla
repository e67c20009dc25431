-------------------------- MODULE CapturePipeline --------------------------
(***************************************************************************)
(* The program videoenc as its threads: main(), the encoder thread and one *)
(* source thread, the camera's or the one that reads the standard input.   *)
(***************************************************************************)
EXTENDS CameraThread, FileThread, EncoderThread, MainThread

\* main() when the outputs are open and the encoder's buffers allocated.
Init ==
  /\ input \in {"camera", "pipe"}
  /\ limited \in BOOLEAN
  /\ given \in 0..BUFFER_NUMBER
  /\ input = "pipe" => given = 0
  /\ mstart = FALSE
  /\ cameraDevice = FALSE
  /\ isStart = FALSE
  /\ inFIFO = <<>>
  /\ pool = Buf
  /\ content = [b \in Buf |-> 0]
  /\ main = "start"
  /\ src = "none"
  /\ srcBuf = NoBuf
  /\ enc = "none"
  /\ encBuf = NoBuf
  /\ driver = {}
  /\ camBuf = NoBuf
  /\ frame = 0
  /\ eof = FALSE
  /\ encoded = <<>>
  /\ raw = <<>>

Next ==
  CameraRuns \/ FileRuns \/ EncoderRuns \/ MainRuns \/ SpuriousWakeup

Spec == Init /\ [][Next]_vars

(***************************************************************************)
(* Every thread is scheduled.  The camera's thread never blocks for good:  *)
(* select() times out.  The one of the pipe may, in read(), as long as the *)
(* input is open and silent; at the end of the input read() returns.  The  *)
(* loop of main() ends some time after its condition went false.           *)
(***************************************************************************)
FairSpec ==
  /\ Spec
  /\ WF_vars(CameraRuns)
  /\ WF_vars(FileRuns /\ (src # "read" \/ eof))
  /\ WF_vars(EncoderRuns)
  /\ WF_vars(MainRuns)

-----------------------------------------------------------------------------
(***************************************************************************)
(* Safety.                                                                 *)
(***************************************************************************)

SourceState == {"none", "test", "grab", "enter", "check", "alloc", "copy",
                "giveBack", "return", "read", "eof", "discard", "queue",
                "exited", "crashed"}
EncoderState == {"none", "test", "lock", "wait", "wake", "encode", "raw",
                 "used", "exited"}
MainState == {"start", "size", "set", "create", "loop", "signal", "stop",
              "join", "forget", "release", "free", "exited"}

\* The types of the variables.  A thread that is about to use a buffer has
\* one: encoder_thread() never dequeues from an empty g_inFIFO
\* (videoenc.cpp:433-447).
TypeOK ==
  /\ input \in {"camera", "pipe"}
  /\ limited \in BOOLEAN
  /\ given \in 0..BUFFER_NUMBER
  /\ mstart \in BOOLEAN
  /\ cameraDevice \in BOOLEAN
  /\ isStart \in BOOLEAN
  /\ inFIFO \in Seq(Buf)
  /\ pool \subseteq Buf
  /\ content \in [Buf -> Content]
  /\ main \in MainState
  /\ src \in SourceState
  /\ srcBuf \in Buf \cup {NoBuf}
  /\ src \in {"copy", "return", "read", "eof", "discard", "queue"}
       => srcBuf # NoBuf
  /\ enc \in EncoderState
  /\ encBuf \in Buf \cup {NoBuf}
  /\ enc \in {"encode", "raw", "used"} => encBuf # NoBuf
  /\ driver \subseteq CamBuf
  /\ camBuf \in CamBuf \cup {NoBuf}
  /\ frame \in 0..MaxFrames
  /\ eof \in BOOLEAN
  /\ encoded \in Seq(Content)
  /\ raw \in Seq(Content)

\* The buffers in the hands of a thread.
InHand(b) == {b} \ {NoBuf}

\* Every input buffer of the encoder is in one place: free, in the hands of
\* the source, in g_inFIFO or in the hands of the encoder thread.  A path that
\* forgets to return one starves the source after four of them; one that
\* returns it twice has two frames in the same memory (videoenc.cpp:176-205,
\* 309-310, 359-394).
InputBufferOwnership ==
  /\ Distinct(inFIFO)
  /\ pool \cap Elements(inFIFO) = {}
  /\ InHand(srcBuf) \cap InHand(encBuf) = {}
  /\ (InHand(srcBuf) \cup InHand(encBuf)) \cap (pool \cup Elements(inFIFO)) = {}
  /\ pool \cup Elements(inFIFO) \cup InHand(srcBuf) \cup InHand(encBuf) = Buf

\* Each camera buffer is in the driver or in the hands of the callback, on
\* each of its paths: a frame that is skipped is given back as well, and none
\* is given back twice (videoenc.cpp:340-384, CameraSource.c:68-82).
CameraBufferOwnership ==
  /\ isStart => driver \cup InHand(camBuf) = 1..given
  /\ camBuf \notin driver
  /\ src \in {"none", "test", "queue", "exited"} => camBuf = NoBuf

\* As there are fewer input buffers than places in g_inFIFO, the queue always
\* takes the frame that a source brings (videoenc.cpp:83, 198, 387, 528).
EnqueueFits ==
  nBufferNum <= FIFO_SIZE /\ src = "queue" => Len(inFIFO) < FIFO_SIZE

\* The encoder thread does not wait while a frame is in the queue, spurious
\* wakeups or not (videoenc.cpp:197-200, 386-389, 432-442).
NoLostFrameWakeup == enc = "wait" => inFIFO = <<>>

\* Frames are encoded in the order they were captured in, each at most once,
\* although their buffers are reused in any order (videoenc.cpp:401-450).
EncodedInOrder ==
  \A i \in 1..Len(encoded), j \in 1..Len(encoded) :
    i < j => encoded[i] < encoded[j]

\* The raw outputs show the frames that were encoded, the same picture for
\* each: the source does not write into the buffer in between
\* (videoenc.cpp:293-310).
RawIsEncoded ==
  /\ Len(raw) <= Len(encoded)
  /\ \A i \in 1..Len(raw) : raw[i] = encoded[i]

\* The encoder thread is over when main() releases the encoder, whichever way
\* main() came there (videoenc.cpp:605-609, 626-630, 659-678).
EncoderQuiesced ==
  main \in {"forget", "release", "free", "exited"} => enc \in {"none", "exited"}

(***************************************************************************)
(* Liveness, under FairSpec.                                               *)
(***************************************************************************)

\* A queued frame is encoded, unless mstart is cleared before
\* (videoenc.cpp:418-448).
QueuedIsEncoded ==
  \A b \in Buf :
    (b \in Elements(inFIFO) /\ enc # "none")
      ~> (b \notin Elements(inFIFO) \/ ~mstart)

\* The end of the input ends the loop of main(), even if main() sets mstart
\* again after file_thread() has cleared it, provided file_thread() has not
\* ended by then (videoenc.cpp:174-196, 634, 646).
EndOfInputStops ==
  (eof /\ main = "loop" /\ enc # "none" /\ src # "exited") ~> (main # "loop")

\* The encoder thread is asleep, or about to be, and does not look at mstart.
AsleepAtStop == enc = "wait" \/ (enc = "lock" /\ inFIFO = <<>>)

\* main() gets to its end unless the encoder thread missed the only signal
\* (or the source thread runs into what was released; videoenc.cpp:654-685).
StopUnlessAsleep ==
  (main = "join" /\ ~AsleepAtStop) ~> (main = "exited" \/ src = "crashed")

\* What -t promises: with both threads at work, the program ends once the time
\* is over (videoenc.cpp:646-685).
DurationEnds ==
  (limited /\ main = "loop" /\ src # "none" /\ enc # "none")
    ~> (main = "exited" \/ src = "crashed")
=============================================================================
