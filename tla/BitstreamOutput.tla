-------------------------- MODULE BitstreamOutput --------------------------
(***************************************************************************)
(* What goes to the outputs: main() opens them (videoenc.cpp:575-592), the *)
(* encoder thread pushes each raw picture to the NV12 outputs              *)
(* (process_in_buffer) and each encoded frame, with the stream's header now*)
(* and then, to the H264 outputs (write_bitstream).  An output is the      *)
(* channel of module OutputChannel, of which only the free buffers and the *)
(* last segment are kept; its thread gives buffers back at any time.       *)
(*                                                                         *)
(* The encoder's output buffer is external: each frame that was encoded    *)
(* stays in it until it is fetched and freed, the oldest one first, and no *)
(* frame is encoded when it is full.  A fetch may fail with a frame there. *)
(* The first frame of a stream is a key frame.                             *)
(***************************************************************************)
EXTENDS Naturals

CONSTANTS NumOutputs,   \* writers.size()
          QE_SIZE,      \* the buffers of an output (20 in the code)
          KeyLimit,     \* the header comes when keyCount passes this (5)
          MaxBacklog    \* bound: how many frames the encoder's output holds

ASSUME OutputAssumption ==
  /\ NumOutputs \in Nat \ {0}
  /\ QE_SIZE \in Nat \ {0}
  /\ KeyLimit \in Nat
  /\ MaxBacklog \in Nat \ {0}

Output == 1..NumOutputs
Kind == {"none", "header", "key", "delta", "raw"}

VARIABLES
  nv12,      \* isNV12() of each output: its name does not end in h264
  room,      \* m_qFree.count() of each output
  last,      \* what each output queued last
  lost,      \* history: the last thing offered to the output was lost or cut
  keyCount,  \* the static counter of write_bitstream, one for all outputs
  pc,        \* where main(), then the encoder thread, is
  at,        \* the index j of its loop over the writers
  encodedOk, \* VideoEncodeOneFrame returned VENC_RESULT_OK
  backlog,   \* the frames in the encoder's output
  missed,    \* history: how many times fetching one failed
  started,   \* a frame was fetched from it
  key, wraps \* output_buffer: VENC_BUFFERFLAG_KEYFRAME, nSize1 # 0

outputs == <<room, last, lost>>
encoder == <<encodedOk, backlog, missed, started, key, wraps>>
vars == <<nv12, outputs, keyCount, pc, at, encoder>>

Init ==
  /\ nv12 \in [Output -> BOOLEAN]
  /\ room = [w \in Output |-> QE_SIZE]
  /\ last = [w \in Output |-> "none"]
  /\ lost = [w \in Output |-> FALSE]
  /\ keyCount = 0
  /\ pc = "open"
  /\ at = 1
  /\ encodedOk = FALSE
  /\ backlog = 0
  /\ missed = 0
  /\ started = FALSE
  /\ key = FALSE
  /\ wraps = FALSE

\* pushBuffer() of output w: nothing is queued when no buffer is free, and
\* only the first region when one is.
Push(w, kind, regions) ==
  IF room[w] = 0
  THEN /\ lost' = [lost EXCEPT ![w] = TRUE]
       /\ UNCHANGED <<room, last>>
  ELSE /\ room' = [room EXCEPT ![w] = IF @ >= regions THEN @ - regions ELSE 0]
       /\ last' = [last EXCEPT ![w] = kind]
       /\ lost' = [lost EXCEPT ![w] = room[w] < regions]

\* The next turn of a loop over the writers, or what comes after the loop.
NextOutput(loop, after) ==
  IF at < NumOutputs
  THEN pc' = loop /\ at' = at + 1
  ELSE pc' = after /\ at' = 1

(***************************************************************************)
(* Faulty variants, which the properties below must tell from the code.    *)
(***************************************************************************)

\* The header is left out when an output is opened.
OpenOutput_NoHeader ==
  /\ pc = "open"
  /\ UNCHANGED outputs
  /\ NextOutput("open", "idle")
  /\ UNCHANGED <<nv12, keyCount, encoder>>

\* The encoded frames go to every output.
PushFrame_AllOutputs ==
  /\ pc = "push"
  /\ Push(at, IF key THEN "key" ELSE "delta", IF wraps THEN 2 ELSE 1)
  /\ NextOutput("count", "release")
  /\ UNCHANGED <<nv12, keyCount, encoder>>

\* Every frame is counted, not only the key frames.
CountKey_EveryFrame ==
  /\ pc = "count"
  /\ IF ~nv12[at]
     THEN /\ keyCount' = keyCount + 1
          /\ pc' = IF keyCount + 1 > KeyLimit THEN "header" ELSE "push"
     ELSE /\ pc' = "push"
          /\ UNCHANGED keyCount
  /\ UNCHANGED <<nv12, at, outputs, encoder>>

\* The counter starts again with every frame that is not a key frame.
CountKey_Consecutive ==
  /\ pc = "count"
  /\ keyCount' = IF key /\ ~nv12[at] THEN keyCount + 1 ELSE 0
  /\ pc' = IF keyCount' > KeyLimit THEN "header" ELSE "push"
  /\ UNCHANGED <<nv12, at, outputs, encoder>>

(***************************************************************************)
(* Opening.                                                                *)
(***************************************************************************)

\* An output is opened, its thread started and the header pushed.  The program
\* ends when an output cannot be opened.
OpenOutput ==
  /\ pc = "open"
  /\ \/ /\ pc' = "failed"
        /\ UNCHANGED <<outputs, at>>
     \/ /\ IF nv12[at] THEN UNCHANGED outputs ELSE Push(at, "header", 1)
        /\ NextOutput("open", "idle")
  /\ UNCHANGED <<nv12, keyCount, encoder>>

(***************************************************************************)
(* process_in_buffer().                                                    *)
(***************************************************************************)

\* VideoEncodeOneFrame fails when there is no room for its output, or for
\* reasons of its own.
EncodeOneFrame ==
  /\ pc = "idle"
  /\ \/ /\ backlog < MaxBacklog
        /\ backlog' = backlog + 1
        /\ encodedOk' = TRUE
     \/ /\ encodedOk' = FALSE
        /\ UNCHANGED backlog
  /\ pc' = "raw"
  /\ UNCHANGED <<nv12, outputs, keyCount, at, missed, started, key, wraps>>

\* The picture goes to the NV12 outputs, encoded or not.  What was encoded is
\* fetched once.
PushRaw ==
  /\ pc = "raw"
  /\ IF nv12[at] THEN Push(at, "raw", 1) ELSE UNCHANGED outputs
  /\ NextOutput("raw", IF encodedOk THEN "fetch" ELSE "idle")
  /\ UNCHANGED <<nv12, keyCount, encoder>>

(***************************************************************************)
(* write_bitstream().                                                      *)
(***************************************************************************)

\* GetOneBitstreamFrame.  When it fails there is a message and nothing else:
\* the frame stays where it is, and no output gets anything.
FetchFrame ==
  /\ pc = "fetch"
  /\ \/ /\ backlog > 0
        /\ key' \in BOOLEAN
        /\ ~started => key'
        /\ wraps' \in BOOLEAN
        /\ started' = TRUE
        /\ pc' = "count"
        /\ UNCHANGED missed
     \/ /\ missed' = missed + 1
        /\ pc' = "idle"
        /\ UNCHANGED <<started, key, wraps>>
  /\ UNCHANGED <<nv12, outputs, keyCount, at, encodedOk, backlog>>

\* A key frame is counted once for every H264 output.
CountKey ==
  /\ pc = "count"
  /\ IF key /\ ~nv12[at]
     THEN /\ keyCount' = keyCount + 1
          /\ pc' = IF keyCount + 1 > KeyLimit THEN "header" ELSE "push"
     ELSE /\ pc' = "push"
          /\ UNCHANGED keyCount
  /\ UNCHANGED <<nv12, at, outputs, encoder>>

\* pushHeader().
PushHeader ==
  /\ pc = "header"
  /\ Push(at, "header", 1)
  /\ keyCount' = 0
  /\ pc' = "push"
  /\ UNCHANGED <<nv12, at, encoder>>

PushFrame ==
  /\ pc = "push"
  /\ IF nv12[at]
     THEN UNCHANGED outputs
     ELSE Push(at, IF key THEN "key" ELSE "delta", IF wraps THEN 2 ELSE 1)
  /\ NextOutput("count", "release")
  /\ UNCHANGED <<nv12, keyCount, encoder>>

\* FreeOneBitStreamFrame.
ReleaseFrame ==
  /\ pc = "release"
  /\ backlog' = backlog - 1
  /\ pc' = "idle"
  /\ UNCHANGED <<nv12, outputs, keyCount, at, encodedOk, missed, started, key,
                 wraps>>

EncoderRuns ==
  EncodeOneFrame \/ PushRaw \/ FetchFrame \/ CountKey \/ PushHeader
    \/ PushFrame \/ ReleaseFrame

\* The thread of an output has written a segment: m_qFree.enqueue(myBuf).
Drain ==
  /\ pc # "failed"
  /\ \E w \in Output :
       /\ room[w] < QE_SIZE
       /\ room' = [room EXCEPT ![w] = @ + 1]
  /\ UNCHANGED <<nv12, last, lost, keyCount, pc, at, encoder>>

Next == OpenOutput \/ EncoderRuns \/ Drain

Spec == Init /\ [][Next]_vars

(***************************************************************************)
(* Frames keep coming; while there is room for what the encoder makes of   *)
(* them they keep being encoded and fetched, with a key frame now and then *)
(* (nMaxKeyInterval).  Fetching may fail again and again in between.       *)
(***************************************************************************)
FairSpec ==
  /\ Spec
  /\ WF_vars(OpenOutput /\ pc' # "failed")
  /\ WF_vars(EncoderRuns)
  /\ SF_vars(EncodeOneFrame /\ encodedOk')
  /\ SF_vars(FetchFrame /\ key')
-----------------------------------------------------------------------------
(***************************************************************************)
(* Safety.                                                                 *)
(***************************************************************************)

\* The types of the variables.  The counter passes its limit only on the way
\* to a header (videoenc.cpp:244-249).
TypeOK ==
  /\ nv12 \in [Output -> BOOLEAN]
  /\ room \in [Output -> 0..QE_SIZE]
  /\ last \in [Output -> Kind]
  /\ lost \in [Output -> BOOLEAN]
  /\ keyCount \in 0..(KeyLimit + 1)
  /\ (keyCount > KeyLimit) <=> pc = "header"
  /\ pc \in {"open", "failed", "idle", "raw", "fetch", "count", "header",
             "push", "release"}
  /\ at \in Output
  /\ encodedOk \in BOOLEAN
  /\ backlog \in 0..MaxBacklog
  /\ missed \in 0..MaxBacklog
  /\ started \in BOOLEAN
  /\ key \in BOOLEAN
  /\ wraps \in BOOLEAN

\* A raw output shows pictures only, a coded one never shows a picture,
\* although both kinds are served by the same thread from one list
\* (videoenc.cpp:301-308, 237-253, 586-590).
FormatsApart ==
  \A w \in Output :
    IF nv12[w] THEN last[w] \in {"none", "raw"} ELSE last[w] # "raw"

\* The first thing in a coded output is the header, whatever the state its
\* queue and its thread are in when it is opened (videoenc.cpp:585-590).
HeaderFirst ==
  [][\A w \in Output :
       last[w] = "none" /\ last'[w] # "none" /\ ~nv12[w]
         => last'[w] = "header"]_vars

\* A header in the stream, repeated or not, is followed by the key frame it
\* is there for, unless the output had no buffer left for that frame
\* (videoenc.cpp:242-251).
HeaderBeforeKey ==
  [][\A w \in Output :
       last[w] = "header" /\ last'[w] = "delta" => lost[w]]_vars

\* What stays in the encoder's output from one picture to the next is what a
\* fetch failed for: each fetched frame is freed, once, and neither a failed
\* encoding nor the way through the outputs leaves or frees another one.  So
\* only failed fetches can fill the encoder's output, after which nothing is
\* encoded or fetched any more (videoenc.cpp:226-268, 297-322).
FramesAccounted == pc = "idle" => backlog = missed

(***************************************************************************)
(* Liveness, under FairSpec.                                               *)
(***************************************************************************)

\* A header was queued for this output: it is not one that found no buffer.
HeaderQueued(w) ==
  pc = "push" /\ at = w /\ last[w] = "header" /\ ~lost[w]

\* The thread of this output has given back a buffer by the time that the next
\* frame comes to it.
KeepsUp(w) == pc = "count" /\ at = w => room[w] > 0

\* The encoder's output is full of frames that could not be fetched, for good.
Jammed == missed = MaxBacklog

\* While coded frames come, headers are queued again and again for at least one
\* of the coded outputs, if these keep up; so a single one that keeps up gets
\* them.  The outputs must have been opened (videoenc.cpp:242-249,
\* out_writer.cpp:91-98, 155).
HeaderRepeats ==
  LET coded == {w \in Output : ~nv12[w]}
  IN coded # {} /\ <>(pc = "idle") /\ <>[](\A w \in coded : KeepsUp(w))
       => <>Jammed \/ []<>(\E w \in coded : HeaderQueued(w))

\* What the comment of write_bitstream says of the coded outputs: each that
\* keeps up gets the header again and again (videoenc.cpp:235-236).
EveryOutputGetsHeader ==
  \A w \in Output :
    ~nv12[w] /\ <>(pc = "idle") /\ <>[]KeepsUp(w)
      => <>Jammed \/ []<>HeaderQueued(w)
=============================================================================
