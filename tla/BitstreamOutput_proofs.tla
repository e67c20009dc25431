---------------------- MODULE BitstreamOutput_proofs ----------------------
(***************************************************************************)
(* Proofs about BitstreamOutput, for every number of outputs, of buffers   *)
(* and every limit of keyCount.  First come the types, with how far the    *)
(* encoder's output and the loops over the writers are (Typed); then what  *)
(* the outputs have got so far (Opened) and which of them wait for a key   *)
(* frame (HeaderPending), from which the properties follow.                *)
(***************************************************************************)
EXTENDS BitstreamOutput, TLAPS

\* The types, and how far the encoder's output and the loops are: besides the
\* frames whose fetch failed one frame is in the encoder's output from its
\* encoding to its release, and every loop over the writers begins with the
\* first.
Typed ==
  /\ TypeOK
  /\ backlog = IF \/ pc \in {"fetch", "count", "header", "push", "release"}
                  \/ pc = "raw" /\ encodedOk
               THEN missed + 1 ELSE missed
  /\ pc \in {"idle", "fetch", "release"} => at = 1
  /\ pc = "header" => key /\ ~nv12[at]

\* Each coded output has its header once it is open, and the outputs that are
\* still to be opened are empty.
Opened ==
  /\ FormatsApart
  /\ pc = "open" =>
       \A w \in Output :
         /\ w >= at => last[w] = "none" /\ room[w] = QE_SIZE
         /\ w < at /\ ~nv12[w] => last[w] # "none"
  /\ pc \notin {"open", "failed"} =>
       \A w \in Output : ~nv12[w] => last[w] # "none"

\* An output whose last segment is a header waits for a key frame: the first
\* one, or the one that write_bitstream() is at.
HeaderPending ==
  /\ pc = "open" => ~started
  /\ pc \in {"count", "header", "push"} => started
  /\ \A w \in Output :
       last[w] = "header" /\ ~lost[w] =>
         \/ ~started
         \/ pc \in {"count", "header", "push"} /\ key /\ at <= w

-----------------------------------------------------------------------------
\* Pushing keeps the types (out_writer.cpp:153-180).
LEMMA PushType ==
  ASSUME Typed, NEW w \in Output, NEW kind \in Kind, NEW regions \in {1, 2},
         Push(w, kind, regions)
  PROVE  /\ room' \in [Output -> 0..QE_SIZE]
         /\ last' \in [Output -> Kind]
         /\ lost' \in [Output -> BOOLEAN]
<1>1. CASE room[w] = 0
  BY <1>1 DEF Push, Typed, TypeOK
<1>2. CASE room[w] # 0
  <2>1. room[w] \in 0..QE_SIZE
    BY DEF Typed, TypeOK
  <2>2. (IF room[w] >= regions THEN room[w] - regions ELSE 0) \in 0..QE_SIZE
    BY <2>1, OutputAssumption
  <2>3. room' \in [Output -> 0..QE_SIZE]
    BY <1>2, <2>2 DEF Push, Typed, TypeOK
  <2>4. lost' = [lost EXCEPT ![w] = room[w] < regions]
    BY <1>2 DEF Push
  <2>5. (room[w] < regions) \in BOOLEAN
    OBVIOUS
  <2>6. lost' \in [Output -> BOOLEAN]
    BY <2>4, <2>5 DEF Typed, TypeOK
  <2> QED BY <1>2, <2>3, <2>6 DEF Push, Typed, TypeOK
<1> QED BY <1>1, <1>2

\* Every step keeps the types.
LEMMA TypedNext == Typed /\ [Next]_vars => Typed'
<1> SUFFICES ASSUME Typed, [Next]_vars PROVE Typed'
  OBVIOUS
<1> USE OutputAssumption DEF outputs, encoder
<1>0. at \in Output /\ (at < NumOutputs => at + 1 \in Output) /\ 1 \in Output
  BY DEF Typed, TypeOK, Output
<1>1. CASE OpenOutput
  <2>1. CASE nv12[at] \/ pc' = "failed"
    BY <1>0, <1>1, <2>1 DEF OpenOutput, NextOutput, Typed, TypeOK
  <2>2. CASE ~nv12[at] /\ pc' # "failed"
    <3>1. Push(at, "header", 1) /\ NextOutput("open", "idle")
      BY <1>1, <2>2 DEF OpenOutput
    <3>2. /\ room' \in [Output -> 0..QE_SIZE]
          /\ last' \in [Output -> Kind]
          /\ lost' \in [Output -> BOOLEAN]
      BY <1>0, <3>1, PushType DEF Kind
    <3> QED BY <1>0, <1>1, <3>1, <3>2 DEF OpenOutput, NextOutput, Typed, TypeOK
  <2> QED BY <2>1, <2>2
<1>2. CASE EncodeOneFrame
  <2>1. CASE encodedOk' = TRUE
    BY <1>2, <2>1 DEF EncodeOneFrame, Typed, TypeOK
  <2>2. CASE encodedOk' = FALSE
    BY <1>2, <2>2 DEF EncodeOneFrame, Typed, TypeOK
  <2> QED BY <1>2, <2>1, <2>2 DEF EncodeOneFrame
<1>3. CASE PushRaw
  <2>1. CASE nv12[at]
    <3>1. Push(at, "raw", 1)
      BY <1>3, <2>1 DEF PushRaw
    <3>2. /\ room' \in [Output -> 0..QE_SIZE]
          /\ last' \in [Output -> Kind]
          /\ lost' \in [Output -> BOOLEAN]
      BY <1>0, <3>1, PushType DEF Kind
    <3> QED BY <1>0, <1>3, <3>2 DEF PushRaw, NextOutput, Typed, TypeOK
  <2>2. CASE ~nv12[at]
    BY <1>0, <1>3, <2>2 DEF PushRaw, NextOutput, Typed, TypeOK
  <2> QED BY <2>1, <2>2
<1>4. CASE FetchFrame
  <2>1. backlog = missed + 1 /\ backlog \in 0..MaxBacklog /\ missed \in 0..MaxBacklog
    BY <1>4 DEF FetchFrame, Typed, TypeOK
  <2>2. CASE missed' = missed
    BY <1>4, <2>1, <2>2 DEF FetchFrame, Typed, TypeOK
  <2>3. CASE missed' = missed + 1 /\ pc' = "idle"
    BY <1>4, <2>1, <2>3 DEF FetchFrame, Typed, TypeOK
  <2> QED BY <1>4, <2>2, <2>3 DEF FetchFrame
<1>5. CASE CountKey
  BY <1>5 DEF CountKey, Typed, TypeOK
<1>6. CASE PushHeader
  <2>1. Push(at, "header", 1)
    BY <1>6 DEF PushHeader
  <2>2. /\ room' \in [Output -> 0..QE_SIZE]
        /\ last' \in [Output -> Kind]
        /\ lost' \in [Output -> BOOLEAN]
    BY <1>0, <2>1, PushType DEF Kind
  <2> QED BY <1>6, <2>2 DEF PushHeader, Typed, TypeOK
<1>7. CASE PushFrame
  <2>1. CASE nv12[at]
    BY <1>0, <1>7, <2>1 DEF PushFrame, NextOutput, Typed, TypeOK
  <2>2. CASE ~nv12[at]
    <3>1. Push(at, IF key THEN "key" ELSE "delta", IF wraps THEN 2 ELSE 1)
      BY <1>7, <2>2 DEF PushFrame
    <3>2. /\ room' \in [Output -> 0..QE_SIZE]
          /\ last' \in [Output -> Kind]
          /\ lost' \in [Output -> BOOLEAN]
      BY <1>0, <3>1, PushType DEF Kind
    <3> QED BY <1>0, <1>7, <3>2 DEF PushFrame, NextOutput, Typed, TypeOK
  <2> QED BY <2>1, <2>2
<1>8. CASE ReleaseFrame
  BY <1>8 DEF ReleaseFrame, Typed, TypeOK
<1>9. CASE Drain
  BY <1>9 DEF Drain, Typed, TypeOK
<1>10. CASE UNCHANGED vars
  BY <1>10 DEF vars, Typed, TypeOK
<1> QED
  BY <1>1, <1>2, <1>3, <1>4, <1>5, <1>6, <1>7, <1>8, <1>9, <1>10
  DEF Next, EncoderRuns

\* The constructor of each output and the static variables.
LEMMA TypedInit == Init => Typed
<1> SUFFICES ASSUME Init PROVE Typed
  OBVIOUS
<1>1. 1 \in Output /\ QE_SIZE \in 0..QE_SIZE /\ 0 \in 0..(KeyLimit + 1)
  BY OutputAssumption DEF Output
<1>2. /\ room \in [Output -> 0..QE_SIZE]
      /\ last \in [Output -> Kind]
      /\ lost \in [Output -> BOOLEAN]
  BY <1>1 DEF Init, Kind
<1>3. encodedOk \in BOOLEAN /\ started \in BOOLEAN
  BY DEF Init
<1>4. key \in BOOLEAN /\ wraps \in BOOLEAN
  BY DEF Init
<1>5. /\ keyCount \in 0..(KeyLimit + 1) /\ ~(keyCount > KeyLimit)
      /\ backlog \in 0..MaxBacklog /\ missed \in 0..MaxBacklog
  BY OutputAssumption DEF Init
<1> QED BY <1>1, <1>2, <1>3, <1>4, <1>5 DEF Init, Typed, TypeOK

LEMMA TypedInvariant == Spec => []Typed
<1> QED BY TypedInit, TypedNext, PTL DEF Spec

\* The state of the outputs and of write_bitstream() is type correct; in
\* particular keyCount is past its limit only on the way to a header.
THEOREM TypeCorrect == Spec => []TypeOK
<1>1. Typed => TypeOK
  BY DEF Typed
<1> QED BY <1>1, TypedInvariant, PTL

\* However often encoding and fetching fail, what stays in the encoder's output
\* are exactly as many frames as fetches failed: all the others were fetched
\* once and freed once (videoenc.cpp:226-268, 297-322).
THEOREM OnlyMissedFramesStay == Spec => []FramesAccounted
<1>1. Typed => FramesAccounted
  BY DEF Typed, FramesAccounted
<1> QED BY <1>1, TypedInvariant, PTL

-----------------------------------------------------------------------------
\* What pushBuffer() does to the outputs: it touches one of them, which queues
\* what it was given or is marked as having lost it.
LEMMA PushEffect ==
  ASSUME Typed, NEW w \in Output, NEW kind, NEW regions \in {1, 2},
         Push(w, kind, regions)
  PROVE  /\ \A v \in Output \ {w} :
              room'[v] = room[v] /\ last'[v] = last[v] /\ lost'[v] = lost[v]
         /\ \/ last'[w] = kind
            \/ room[w] = 0 /\ last'[w] = last[w] /\ lost'[w]
<1>1. CASE room[w] = 0
  BY <1>1 DEF Push, Typed, TypeOK
<1>2. CASE room[w] # 0
  BY <1>2 DEF Push, Typed, TypeOK
<1> QED BY <1>1, <1>2

\* Every step keeps the formats apart and leaves no coded output empty.
LEMMA OpenedNext == Typed /\ Opened /\ [Next]_vars => Opened'
<1> SUFFICES ASSUME Typed, Opened, [Next]_vars PROVE Opened'
  OBVIOUS
<1> USE OutputAssumption DEF Opened, FormatsApart, outputs, encoder
<1>0. /\ at \in Output /\ Output = 1..NumOutputs
      /\ \A w \in Output : w \in Nat
  BY DEF Typed, TypeOK, Output
<1>1. CASE OpenOutput
  <2>1. CASE pc' = "failed"
    BY <1>1, <2>1 DEF OpenOutput, NextOutput
  <2>2. CASE pc' # "failed"
    <3>1. /\ pc = "open" /\ nv12' = nv12 /\ NextOutput("open", "idle")
          /\ IF nv12[at] THEN UNCHANGED outputs ELSE Push(at, "header", 1)
      BY <1>1, <2>2 DEF OpenOutput
    <3>2. /\ \A v \in Output \ {at} : last'[v] = last[v] /\ room'[v] = room[v]
          /\ IF nv12[at] THEN last'[at] = last[at] ELSE last'[at] = "header"
      BY <1>0, <3>1, PushEffect
    <3>3. /\ pc' = "open" => at' = at + 1
          /\ pc' # "open" => at = NumOutputs
      BY <1>0, <3>1 DEF NextOutput
    <3> QED BY <1>0, <3>1, <3>2, <3>3
  <2> QED BY <2>1, <2>2
<1>2. CASE PushRaw
  <2>1. /\ pc = "raw" /\ nv12' = nv12 /\ pc' \in {"raw", "fetch", "idle"}
        /\ IF nv12[at] THEN Push(at, "raw", 1) ELSE UNCHANGED outputs
    BY <1>2 DEF PushRaw, NextOutput
  <2>2. \A v \in Output :
          \/ last'[v] = last[v]
          \/ last'[v] = "raw" /\ nv12[v]
    BY <1>0, <2>1, PushEffect
  <2> QED BY <2>1, <2>2
<1>3. CASE PushHeader
  <2>1. /\ pc = "header" /\ ~nv12[at] /\ nv12' = nv12 /\ pc' = "push"
        /\ Push(at, "header", 1)
    BY <1>3 DEF PushHeader, Typed
  <2>2. \A v \in Output :
          \/ last'[v] = last[v]
          \/ last'[v] = "header" /\ ~nv12[v]
    BY <1>0, <2>1, PushEffect
  <2> QED BY <2>1, <2>2
<1>4. CASE PushFrame
  <2>1. /\ pc = "push" /\ nv12' = nv12 /\ pc' \in {"count", "release"}
        /\ IF nv12[at]
           THEN UNCHANGED outputs
           ELSE Push(at, IF key THEN "key" ELSE "delta", IF wraps THEN 2 ELSE 1)
    BY <1>4 DEF PushFrame, NextOutput
  <2>2. \A v \in Output :
          \/ last'[v] = last[v]
          \/ last'[v] \in {"key", "delta"} /\ ~nv12[v]
    BY <1>0, <2>1, PushEffect
  <2> QED BY <2>1, <2>2
<1>5. CASE EncodeOneFrame \/ FetchFrame \/ CountKey \/ ReleaseFrame
  BY <1>5 DEF EncodeOneFrame, FetchFrame, CountKey, ReleaseFrame
<1>6. CASE Drain
  <2>1. PICK v \in Output : room[v] < QE_SIZE /\ room' = [room EXCEPT ![v] = @ + 1]
    BY <1>6 DEF Drain
  <2>2. /\ UNCHANGED <<nv12, last, pc, at>>
        /\ \A w \in Output : room[w] = QE_SIZE => room'[w] = QE_SIZE
    BY <1>6, <2>1 DEF Drain, Typed, TypeOK
  <2> QED BY <2>2
<1>7. CASE UNCHANGED vars
  BY <1>7 DEF vars
<1> QED
  BY <1>1, <1>2, <1>3, <1>4, <1>5, <1>6, <1>7 DEF Next, EncoderRuns

LEMMA OpenedInvariant == Spec => []Opened
<1>1. Init => Opened
  BY OutputAssumption DEF Init, Opened, FormatsApart, Output
<1> QED BY <1>1, TypedInvariant, OpenedNext, PTL DEF Spec

\* No output ever mixes pictures and coded frames (videoenc.cpp:237-253,
\* 301-308).
THEOREM FormatsStayApart == Spec => []FormatsApart
<1>1. Opened => FormatsApart
  BY DEF Opened
<1> QED BY <1>1, OpenedInvariant, PTL

\* Every coded output begins with the header, also when its thread and the
\* other outputs are at work already (videoenc.cpp:575-592).
THEOREM StreamsBeginWithHeader == Spec => HeaderFirst
<1>1. Typed /\ Opened /\ [Next]_vars =>
        [\A w \in Output :
           last[w] = "none" /\ last'[w] # "none" /\ ~nv12[w]
             => last'[w] = "header"]_vars
  <2> SUFFICES ASSUME Typed, Opened, Next, NEW w \in Output,
                      last[w] = "none", last'[w] # "none", ~nv12[w]
               PROVE  last'[w] = "header"
    OBVIOUS
  <2>1. pc \in {"open", "failed"}
    BY DEF Opened, Typed, TypeOK
  <2>2. at \in Output
    BY DEF Typed, TypeOK
  <2>3. CASE OpenOutput
    BY <2>2, <2>3, PushEffect DEF OpenOutput, outputs
  <2>4. CASE EncoderRuns \/ Drain
    BY <2>1, <2>4 DEF EncoderRuns, EncodeOneFrame, PushRaw, FetchFrame,
       CountKey, PushHeader, PushFrame, ReleaseFrame, Drain
  <2> QED BY <2>3, <2>4 DEF Next
<1> QED BY <1>1, TypedInvariant, OpenedInvariant, PTL DEF Spec, HeaderFirst
-----------------------------------------------------------------------------
\* After a header nothing but its key frame is offered to the output
\* (videoenc.cpp:242-251).
LEMMA HeaderPendingNext ==
  Typed /\ Opened /\ HeaderPending /\ [Next]_vars => HeaderPending'
<1> SUFFICES ASSUME Typed, Opened, HeaderPending, [Next]_vars
             PROVE  HeaderPending'
  OBVIOUS
<1> USE OutputAssumption DEF HeaderPending, outputs, encoder
<1>0. /\ at \in Output /\ Output = 1..NumOutputs
      /\ \A w \in Output : w \in Nat
  BY DEF Typed, TypeOK, Output
<1>1. CASE OpenOutput
  <2>1. /\ pc = "open" /\ started' = started
        /\ pc' \in {"open", "failed", "idle"}
    BY <1>1 DEF OpenOutput, NextOutput
  <2> QED BY <2>1
<1>2. CASE EncodeOneFrame
  BY <1>2 DEF EncodeOneFrame
<1>3. CASE PushRaw
  <2>1. /\ pc = "raw" /\ started' = started
        /\ pc' \in {"raw", "fetch", "idle"}
        /\ IF nv12[at] THEN Push(at, "raw", 1) ELSE UNCHANGED outputs
    BY <1>3 DEF PushRaw, NextOutput
  <2>2. \A v \in Output :
          \/ last'[v] = last[v] /\ lost'[v] = lost[v]
          \/ last'[v] = "raw"
          \/ last'[v] = last[v] /\ lost'[v]
    BY <1>0, <2>1, PushEffect
  <2> QED BY <2>1, <2>2
<1>4. CASE FetchFrame
  <2>1. pc = "fetch" /\ at = 1
    BY <1>4 DEF FetchFrame, Typed
  <2>2. CASE started
    BY <1>0, <1>4, <2>1, <2>2 DEF FetchFrame
  <2>3. CASE ~started
    BY <1>0, <1>4, <2>1, <2>3 DEF FetchFrame
  <2> QED BY <2>2, <2>3
<1>5. CASE CountKey
  BY <1>5 DEF CountKey
<1>6. CASE PushHeader
  <2>1. /\ pc = "header" /\ key /\ pc' = "push"
        /\ UNCHANGED <<at, key, started>>
        /\ Push(at, "header", 1)
    BY <1>6 DEF PushHeader, Typed
  <2>2. \A v \in Output \ {at} : last'[v] = last[v] /\ lost'[v] = lost[v]
    BY <1>0, <2>1, PushEffect
  <2> QED BY <1>0, <2>1, <2>2
<1>7. CASE PushFrame
  <2>1. /\ pc = "push" /\ NextOutput("count", "release")
        /\ UNCHANGED <<key, started>>
    BY <1>7 DEF PushFrame
  <2>2. /\ \A v \in Output \ {at} : last'[v] = last[v] /\ lost'[v] = lost[v]
        /\ last'[at] # "header" \/ lost'[at]
    <3>1. CASE nv12[at]
      BY <1>0, <1>7, <3>1 DEF PushFrame, Opened, FormatsApart
    <3>2. CASE ~nv12[at]
      <4> DEFINE kind == IF key THEN "key" ELSE "delta"
                 regions == IF wraps THEN 2 ELSE 1
      <4>1. Push(at, kind, regions) /\ kind # "header" /\ regions \in {1, 2}
        BY <1>7, <3>2 DEF PushFrame
      <4> HIDE DEF kind, regions
      <4> QED BY <1>0, <4>1, PushEffect
    <3> QED BY <3>1, <3>2
  <2>3. \/ pc' = "count" /\ at' = at + 1
        \/ pc' = "release" /\ at = NumOutputs
    BY <1>0, <2>1 DEF NextOutput
  <2> QED BY <1>0, <2>1, <2>2, <2>3
<1>8. CASE ReleaseFrame
  BY <1>8 DEF ReleaseFrame
<1>9. CASE Drain
  BY <1>9 DEF Drain
<1>10. CASE UNCHANGED vars
  BY <1>10 DEF vars
<1> QED
  BY <1>1, <1>2, <1>3, <1>4, <1>5, <1>6, <1>7, <1>8, <1>9, <1>10
  DEF Next, EncoderRuns

\* A header is followed by its key frame or by a gap, never directly by a
\* frame that cannot be decoded without one (videoenc.cpp:242-251).
THEOREM HeadersPrecedeKeyFrames == Spec => HeaderBeforeKey
<1>1. Init => HeaderPending
  BY DEF Init, HeaderPending
<1>2. Typed /\ HeaderPending /\ [Next]_vars =>
        [\A w \in Output :
           last[w] = "header" /\ last'[w] = "delta" => lost[w]]_vars
  <2> SUFFICES ASSUME Typed, HeaderPending, Next, NEW w \in Output,
                      last[w] = "header", last'[w] = "delta"
               PROVE  lost[w]
    OBVIOUS
  <2>0. at \in Output
    BY DEF Typed, TypeOK
  <2>1. CASE PushFrame
    <3>1. pc = "push" /\ started
      BY <2>1 DEF PushFrame, Typed, HeaderPending
    <3> QED
      BY <2>0, <2>1, <3>1, PushEffect
      DEF PushFrame, HeaderPending, outputs
  <2>2. CASE OpenOutput
    BY <2>0, <2>2, PushEffect DEF OpenOutput, outputs
  <2>3. CASE PushRaw
    BY <2>0, <2>3, PushEffect DEF PushRaw, outputs
  <2>4. CASE PushHeader
    BY <2>0, <2>4, PushEffect DEF PushHeader, outputs
  <2>5. CASE EncodeOneFrame \/ FetchFrame \/ CountKey \/ ReleaseFrame \/ Drain
    BY <2>5 DEF EncodeOneFrame, FetchFrame, CountKey, ReleaseFrame, Drain,
                outputs
  <2> QED BY <2>1, <2>2, <2>3, <2>4, <2>5 DEF Next, EncoderRuns
<1> QED
  BY <1>1, <1>2, TypedInvariant, OpenedInvariant, HeaderPendingNext, PTL
  DEF Spec, HeaderBeforeKey
=============================================================================
