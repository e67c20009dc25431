------------------------- MODULE PipeReader_proofs -------------------------
(***************************************************************************)
(* Proofs about PipeReader, for every size of the pictures, every length   *)
(* of the input and any number of failed calls of read().                  *)
(*                                                                         *)
(* The layers: the types (Typed); how far read_file_data is and what the   *)
(* sizes it returned say of the input (Counted); what is in the buffer     *)
(* (Filled); and where in the input a picture starts (Placed).             *)
(***************************************************************************)
EXTENDS PipeReader, SequenceTheorems, TLAPS

ReaderState == {"test", "luma", "chroma", "check", "queue", "exited"}

Typed ==
  /\ mwidth \in Nat \ {0}
  /\ mheight \in Heights
  /\ mstart \in BOOLEAN
  /\ reader \in ReaderState
  /\ total \in Int
  /\ size \in Nat
  /\ buffer \in [Places -> Int]
  /\ taken \in 0..MaxBytes
  /\ ended \in BOOLEAN
  /\ errors \in 0..MaxErrors
  /\ torn \in BOOLEAN
  /\ queued \in Seq(Int)

\* A part is never read past its end, and no more is counted than was taken.
\* The size of a picture tells whether the input ended in it: it is the sum of
\* both parts as long as it did not.
Counted ==
  /\ size <= taken /\ size + total <= taken
  /\ -errors <= total
  /\ IF reader \in {"luma", "chroma"} THEN total <= Wanted ELSE total = 0
  /\ reader \in {"luma", "chroma"} /\ ended => total <= 0
  /\ reader = "luma" => size = 0
  /\ reader = "chroma" => size = IF ended THEN 0 ELSE Y_size
  /\ reader \in {"check", "queue"} =>
       IF ended THEN size \in {0, Y_size} ELSE size = Y_size + UV_size
  /\ reader = "queue" => size = input_size
  /\ ~mstart => ended
  /\ torn => errors > 0
  /\ ~torn => total >= 0

\* The first n bytes of a part of a buffer are those of the input from this
\* one on.
Stretch(buf, part, n, from) ==
  \A k \in 0 .. (n - 1) : buf[<<part, k>>] = from + k

\* What was taken for this picture ends at taken, without a hole.
Filled ==
  ~torn =>
    /\ reader = "luma" => Stretch(buffer, "luma", total, taken - total)
    /\ reader = "chroma" /\ ~ended =>
         /\ Stretch(buffer, "luma", Y_size, taken - total - Y_size)
         /\ Stretch(buffer, "chroma", total, taken - total)
    /\ reader \in {"check", "queue"} /\ ~ended =>
         /\ Stretch(buffer, "luma", Y_size, taken - UV_size - Y_size)
         /\ Stretch(buffer, "chroma", UV_size, taken - UV_size)

\* How much of the input belongs to the picture that is being read.
InPicture ==
  CASE reader = "luma" -> total
    [] reader = "chroma" -> Y_size + total
    [] reader \in {"check", "queue"} -> Y_size + UV_size
    [] OTHER -> 0

\* All that was taken before it was queued.
Placed ==
  errors = 0 /\ ~ended /\ input_size = Y_size + UV_size =>
    taken = Len(queued) * input_size + InPicture

\* A picture of a single row has no chroma that the program would miss: its
\* input_size is Y_size.
Tall == \A h \in Heights : h > 1

-----------------------------------------------------------------------------
(***************************************************************************)
(* The sizes.                                                              *)
(***************************************************************************)

\* Only what the sizes are compared with is used of them.
LEMMA SizeFacts ==
  ASSUME Typed
  PROVE  Y_size \in Nat \ {0} /\ UV_size \in Nat /\ input_size \in Nat
<1>1. mwidth \in Nat \ {0} /\ mheight \in Nat \ {0}
  BY PipeAssumption DEF Typed
<1>2. mwidth * mheight \in Nat \ {0}
  BY <1>1
<1>3. mheight + mheight \div 2 \in Nat
  BY <1>1
<1>4. mwidth * (mheight + mheight \div 2) \in Nat
  BY <1>1, <1>3
<1> QED BY <1>2, <1>4 DEF Y_size, UV_size, input_size

\* With more than one row the chroma counts (videoenc.cpp:480-481, 570).
LEMMA ChromaCounts ==
  ASSUME Typed, Tall
  PROVE  Y_size < input_size
<1>1. mwidth \in Nat \ {0} /\ mheight \in Nat /\ mheight > 1
  BY PipeAssumption DEF Typed, Tall
<1> DEFINE rows == mheight \div 2
<1>2. rows \in Nat /\ rows >= 1
  BY <1>1
<1> HIDE DEF rows
<1>3. mwidth * (mheight + rows) = mwidth * mheight + mwidth * rows
  BY <1>1, <1>2
<1>4. mwidth * rows >= 1 /\ mwidth * rows \in Nat /\ mwidth * mheight \in Nat
  BY <1>1, <1>2
<1> QED BY <1>3, <1>4 DEF Y_size, input_size, rows

\* The sizes are set once, before the thread runs.
LEMMA SizesKept ==
  ASSUME UNCHANGED <<mwidth, mheight>>
  PROVE  Y_size' = Y_size /\ UV_size' = UV_size /\ input_size' = input_size
BY DEF Y_size, UV_size, input_size

-----------------------------------------------------------------------------
(***************************************************************************)
(* Types.                                                                  *)
(***************************************************************************)

\* read() may bring anything between one byte and all that is missing.
LEMMA ReadSomeType ==
  ASSUME Typed, ReadSome
  PROVE  Typed'
<1>1. PICK len \in 1 .. (Wanted - total) :
        /\ taken + len <= MaxBytes
        /\ buffer' = [p \in Places |->
                        IF p[1] = reader /\ p[2] \in total .. (total + len - 1)
                        THEN taken + p[2] - total ELSE buffer[p]]
        /\ taken' = taken + len
        /\ total' = total + len
  BY DEF ReadSome
<1>2. Wanted \in Int
  BY SizeFacts DEF Wanted
<1>3. len \in Nat /\ total \in Int /\ taken \in Nat /\ MaxBytes \in Nat
  BY <1>2, PipeAssumption DEF Typed
<1>4. taken' \in 0..MaxBytes /\ total' \in Int
  BY <1>1, <1>3
<1>5. buffer' \in [Places -> Int]
  <2>1. ASSUME NEW p \in Places
        PROVE  (IF p[1] = reader /\ p[2] \in total .. (total + len - 1)
                THEN taken + p[2] - total ELSE buffer[p]) \in Int
    <3>1. p[2] \in Int
      BY PipeAssumption DEF Places
    <3>2. buffer[p] \in Int
      BY DEF Typed
    <3> QED BY <1>3, <3>1, <3>2
  <2> QED BY <1>1, <2>1
<1> QED BY <1>4, <1>5 DEF ReadSome, Typed

\* What read_file_data returns is never below zero: after the last failure it
\* goes on until all is there.
LEMMA ReturnType ==
  ASSUME Typed, ReadDone
  PROVE  total \in Nat
<1>1. Wanted \in Nat
  BY SizeFacts DEF Wanted
<1> QED BY <1>1 DEF ReadDone, Typed

LEMMA TypedNext == Typed /\ [FileThread]_vars => Typed'
<1> SUFFICES ASSUME Typed, [FileThread]_vars PROVE Typed'
  OBVIOUS
<1>1. CASE Test
  <2>1. [p \in Places |-> Unwritten] \in [Places -> Int]
    BY DEF Unwritten
  <2> QED BY <1>1, <2>1 DEF Test, Typed, ReaderState
<1>2. CASE ReadSome
  BY <1>2, ReadSomeType
<1>3. CASE ReadFails
  BY <1>3, PipeAssumption DEF ReadFails, Typed
<1>4. CASE ReadEnd
  BY <1>4 DEF ReadEnd, Return, Typed, ReaderState
<1>5. CASE ReadDone
  BY <1>5, ReturnType DEF ReadDone, Return, Typed, ReaderState
<1>6. CASE Check
  <2>1. mstart' \in BOOLEAN
    BY <1>6 DEF Check
  <2>2. reader' \in ReaderState
    BY <1>6 DEF Check, ReaderState
  <2> QED BY <1>6, <2>1, <2>2 DEF Check, Typed
<1>7. CASE Queue
  <2>1. <<"luma", 0>> \in Places
    BY PipeAssumption DEF Places
  <2>2. queued' \in Seq(Int)
    BY <1>7, <2>1, AppendProperties DEF Queue, Typed
  <2> QED BY <1>7, <2>2 DEF Queue, Typed, ReaderState
<1>8. CASE UNCHANGED vars
  BY <1>8 DEF vars, Typed
<1> QED BY <1>1, <1>2, <1>3, <1>4, <1>5, <1>6, <1>7, <1>8 DEF FileThread

LEMMA TypedInvariant == Spec => []Typed
<1>1. Init => Typed
  <2> SUFFICES ASSUME Init PROVE Typed
    OBVIOUS
  <2>1. buffer \in [Places -> Int]
    BY DEF Init, Unwritten
  <2>2. /\ mwidth \in Nat \ {0} /\ mheight \in Heights
        /\ taken \in 0..MaxBytes /\ errors \in 0..MaxErrors
        /\ queued \in Seq(Int)
    BY PipeAssumption DEF Init
  <2>3. mstart \in BOOLEAN /\ ended \in BOOLEAN /\ torn \in BOOLEAN
    BY DEF Init
  <2> QED BY <2>1, <2>2, <2>3 DEF Init, Typed, ReaderState
<1> QED BY <1>1, TypedNext, PTL DEF Spec

-----------------------------------------------------------------------------
(***************************************************************************)
(* How far it is.                                                          *)
(***************************************************************************)

LEMMA CountedNext == Typed /\ Counted /\ [FileThread]_vars => Counted'
<1> SUFFICES ASSUME Typed, Counted, [FileThread]_vars PROVE Counted'
  OBVIOUS
<1>0. /\ Y_size \in Nat \ {0} /\ UV_size \in Nat /\ input_size \in Nat
      /\ total \in Int /\ size \in Nat /\ taken \in Nat /\ errors \in Nat
  BY SizeFacts, PipeAssumption DEF Typed
<1>00. /\ mstart \in BOOLEAN /\ ended \in BOOLEAN /\ torn \in BOOLEAN
       /\ reader \in ReaderState
  BY DEF Typed
<1>9. Y_size' = Y_size /\ UV_size' = UV_size /\ input_size' = input_size
  BY SizesKept
  DEF FileThread, Test, ReadSome, ReadFails, ReadEnd, ReadDone, Check, Queue,
      vars
<1>1. CASE Test
  BY <1>0, <1>00, <1>1, <1>9 DEF Test, Counted, Wanted
<1>2. CASE ReadSome
  <2>1. PICK len \in 1 .. (Wanted - total) :
          taken' = taken + len /\ total' = total + len
    BY <1>2 DEF ReadSome
  <2>2. Wanted \in Nat /\ Wanted' = Wanted
    BY <1>0, <1>2, <1>9 DEF Wanted, ReadSome
  <2> QED BY <1>0, <1>00, <1>2, <1>9, <2>1, <2>2 DEF ReadSome, Counted
<1>3. CASE ReadFails
  <2>1. Wanted \in Nat /\ Wanted' = Wanted
    BY <1>0, <1>3, <1>9 DEF Wanted, ReadFails
  <2>2. /\ size' <= taken' /\ size' + total' <= taken' /\ -errors' <= total'
        /\ total' <= Wanted' /\ (ended' => total' <= 0) /\ errors' > 0
    BY <1>0, <1>00, <1>3, <2>1 DEF ReadFails, Counted
  <2>3. torn' /\ (~mstart' => ended')
    BY <1>3 DEF ReadFails, Counted
  <2> QED BY <1>0, <1>3, <1>9, <2>2, <2>3 DEF ReadFails, Counted
<1>4. CASE ReadEnd
  BY <1>0, <1>00, <1>4, <1>9 DEF ReadEnd, Return, Counted, Wanted
<1>5. CASE ReadDone
  <2>1. total = Wanted
    BY <1>0, <1>5 DEF ReadDone, Counted, Wanted
  <2> QED BY <1>0, <1>00, <1>5, <1>9, <2>1 DEF ReadDone, Return, Counted, Wanted
<1>6. CASE Check
  BY <1>0, <1>00, <1>6, <1>9 DEF Check, Counted, Wanted
<1>7. CASE Queue
  BY <1>0, <1>00, <1>7, <1>9 DEF Queue, Counted, Wanted
<1>8. CASE UNCHANGED vars
  BY <1>8, <1>9 DEF vars, Counted, Wanted
<1> QED BY <1>1, <1>2, <1>3, <1>4, <1>5, <1>6, <1>7, <1>8 DEF FileThread

LEMMA CountedInvariant == Spec => []Counted
<1>1. Init => Counted
  BY DEF Init, Counted
<1> QED BY <1>1, TypedInvariant, CountedNext, PTL DEF Spec

-----------------------------------------------------------------------------
(***************************************************************************)
(* What is in the buffer.                                                  *)
(***************************************************************************)

\* The bytes of one read() follow those that are there (videoenc.cpp:155-161).
LEMMA ReadSomeStretch ==
  ASSUME Typed, Counted, ReadSome, total >= 0
  PROVE  /\ taken' - total' = taken - total
         /\ total' \in Nat
         /\ Stretch(buffer, reader, total, taken - total)
              => Stretch(buffer', reader, total', taken' - total')
<1>1. PICK len \in 1 .. (Wanted - total) :
        /\ taken + len <= MaxBytes
        /\ buffer' = [p \in Places |->
                        IF p[1] = reader /\ p[2] \in total .. (total + len - 1)
                        THEN taken + p[2] - total ELSE buffer[p]]
        /\ taken' = taken + len
        /\ total' = total + len
  BY DEF ReadSome
<1>2. Wanted \in Int
  BY SizeFacts DEF Wanted
<1>3. /\ len \in Nat /\ len >= 1 /\ total \in Nat /\ taken \in Nat
      /\ size \in Nat /\ MaxBytes \in Nat /\ MaxErrors \in Nat /\ total <= taken
  BY <1>2, PipeAssumption DEF Typed, Counted
<1>4. taken' - total' = taken - total /\ total' \in Nat
  BY <1>1, <1>3
<1>5. ASSUME Stretch(buffer, reader, total, taken - total)
      PROVE  Stretch(buffer', reader, total', taken' - total')
  <2> SUFFICES ASSUME NEW k \in 0 .. (total' - 1)
               PROVE  buffer'[<<reader, k>>] = taken' - total' + k
    BY DEF Stretch, ReadSome
  <2>1. k \in Nat /\ k < total + len /\ k <= MaxBytes
    BY <1>1, <1>3
  <2>2. <<reader, k>> \in Places
    BY <2>1, <1>3 DEF Places, ReadSome
  <2>3. buffer'[<<reader, k>>] = IF k \in total .. (total + len - 1)
                                 THEN taken + k - total
                                 ELSE buffer[<<reader, k>>]
    BY <1>1, <2>2
  <2>4. CASE k < total
    <3>1. buffer[<<reader, k>>] = taken - total + k
      BY <1>3, <1>5, <2>1, <2>4 DEF Stretch
    <3> QED BY <1>3, <1>4, <2>1, <2>3, <2>4, <3>1
  <2>5. CASE k >= total
    BY <1>3, <1>4, <2>1, <2>3, <2>5
  <2> QED BY <1>3, <2>1, <2>4, <2>5
<1> QED BY <1>4, <1>5

\* They leave the other part alone.
LEMMA ReadSomeKeeps ==
  ASSUME ReadSome, NEW part, NEW n, NEW from, part # reader,
         Stretch(buffer, part, n, from),
         \A k \in 0 .. (n - 1) : <<part, k>> \in Places
  PROVE  Stretch(buffer', part, n, from)
BY DEF ReadSome, Stretch

LEMMA FilledNext == Typed /\ Counted /\ Filled /\ [FileThread]_vars => Filled'
<1> SUFFICES ASSUME Typed, Counted, Filled, [FileThread]_vars PROVE Filled'
  OBVIOUS
<1>0. /\ Y_size \in Nat \ {0} /\ UV_size \in Nat /\ input_size \in Nat
      /\ total \in Int /\ size \in Nat /\ taken \in Nat /\ errors \in Nat
  BY SizeFacts, PipeAssumption DEF Typed
<1>9. Y_size' = Y_size /\ UV_size' = UV_size
  BY SizesKept
  DEF FileThread, Test, ReadSome, ReadFails, ReadEnd, ReadDone, Check, Queue,
      vars
<1>1. CASE Test
  BY <1>0, <1>1 DEF Test, Filled, Counted, Stretch
<1>2. CASE ReadSome
  <2> SUFFICES ASSUME ~torn PROVE Filled'
    BY <1>2 DEF Filled, ReadSome
  <2>1. total >= 0 /\ ~ended /\ ~ended' /\ reader' = reader
    BY <1>2 DEF Counted, ReadSome
  <2>2. CASE reader = "luma"
    <3>1. Stretch(buffer', "luma", total', taken' - total')
      BY <1>2, <2>1, <2>2, ReadSomeStretch DEF Filled
    <3> QED BY <2>1, <2>2, <3>1 DEF Filled
  <2>3. CASE reader = "chroma"
    <3>1. Stretch(buffer', "chroma", total', taken' - total')
      BY <1>2, <2>1, <2>3, ReadSomeStretch DEF Filled
    <3>2. \A k \in 0 .. (Y_size - 1) : <<"luma", k>> \in Places
      <4>1. Y_size <= MaxBytes /\ MaxBytes \in Nat /\ MaxErrors \in Nat
        BY <1>0, <2>1, <2>3, PipeAssumption DEF Counted, Typed
      <4> QED BY <1>0, <4>1 DEF Places
    <3>3. Stretch(buffer', "luma", Y_size', taken' - total' - Y_size')
      <4>1. Stretch(buffer, "luma", Y_size, taken - total - Y_size)
        BY <2>1, <2>3 DEF Filled
      <4>2. Stretch(buffer', "luma", Y_size, taken - total - Y_size)
        BY <1>2, <2>3, <3>2, <4>1, ReadSomeKeeps
      <4>3. taken' - total' - Y_size = taken - total - Y_size
        BY <1>0, <1>2, <2>1, ReadSomeStretch
      <4> QED BY <1>9, <4>2, <4>3
    <3> QED BY <2>1, <2>3, <3>1, <3>3 DEF Filled
  <2> QED BY <1>2, <2>2, <2>3 DEF ReadSome
<1>3. CASE ReadFails
  BY <1>3 DEF ReadFails, Filled
<1>4. CASE ReadEnd
  BY <1>4 DEF ReadEnd, Return, Filled
<1>5. CASE ReadDone
  <2>1. total = Wanted
    BY <1>0, <1>5 DEF ReadDone, Counted, Wanted
  <2>2. CASE reader = "luma"
    <3>1. total = Y_size /\ total' = 0 /\ reader' = "chroma"
      BY <1>5, <2>1, <2>2 DEF ReadDone, Return, Wanted
    <3>2. Filled => (~torn => Stretch(buffer, "luma", Y_size, taken - Y_size))
      BY <2>2, <3>1 DEF Filled
    <3>3. taken - 0 - Y_size = taken - Y_size
      BY <1>0
    <3> QED BY <1>5, <1>9, <3>1, <3>2, <3>3 DEF ReadDone, Filled, Stretch
  <2>3. CASE reader = "chroma"
    <3>1. total = UV_size /\ total' = 0 /\ reader' = "check"
      BY <1>5, <2>1, <2>3 DEF ReadDone, Return, Wanted
    <3> QED BY <1>5, <1>9, <2>3, <3>1 DEF ReadDone, Filled, Stretch
  <2> QED BY <1>5, <2>2, <2>3 DEF ReadDone
<1>6. CASE Check
  BY <1>6, <1>9 DEF Check, Filled, Stretch
<1>7. CASE Queue
  BY <1>7 DEF Queue, Filled
<1>8. CASE UNCHANGED vars
  BY <1>8, <1>9 DEF vars, Filled, Stretch
<1> QED BY <1>1, <1>2, <1>3, <1>4, <1>5, <1>6, <1>7, <1>8 DEF FileThread

LEMMA FilledInvariant == Spec => []Filled
<1>1. Init => Filled
  BY DEF Init, Filled
<1> QED BY <1>1, TypedInvariant, CountedInvariant, FilledNext, PTL DEF Spec

\* A picture that is queued is one whole stretch of the input (videoenc.cpp:
\* 157-160, 183-196).
THEOREM PicturesIntact == ASSUME Tall PROVE Spec => []PictureIntact
<1>1. Typed /\ Counted /\ Filled => PictureIntact
  <2> SUFFICES ASSUME Typed, Counted, Filled, reader = "queue", ~torn
               PROVE  /\ \A k \in 0 .. (Y_size - 1) :
                           buffer[<<"luma", k>>] = buffer[<<"luma", 0>>] + k
                      /\ \A k \in 0 .. (UV_size - 1) :
                           buffer[<<"chroma", k>>]
                             = buffer[<<"luma", 0>>] + Y_size + k
    BY DEF PictureIntact
  <2>0. Y_size \in Nat \ {0} /\ UV_size \in Nat /\ taken \in Nat
    BY SizeFacts DEF Typed
  <2>1. ~ended
    BY <2>0, SizeFacts, ChromaCounts DEF Counted
  <2>2. /\ Stretch(buffer, "luma", Y_size, taken - UV_size - Y_size)
        /\ Stretch(buffer, "chroma", UV_size, taken - UV_size)
    BY <2>1 DEF Filled
  <2>3. buffer[<<"luma", 0>>] = taken - UV_size - Y_size
    BY <2>0, <2>2 DEF Stretch
  <2> QED BY <2>0, <2>2, <2>3 DEF Stretch
<1> QED BY <1>1, TypedInvariant, CountedInvariant, FilledInvariant, PTL
-----------------------------------------------------------------------------
(***************************************************************************)
(* Where in the input a picture starts.                                    *)
(***************************************************************************)

\* The pictures before it are whole ones.
LEMMA PlacedNext ==
  Typed /\ Counted /\ Placed /\ [FileThread]_vars => Placed'
<1> SUFFICES ASSUME Typed, Counted, Placed, [FileThread]_vars,
                    errors' = 0, ~ended', (input_size = Y_size + UV_size)'
             PROVE  taken' = Len(queued') * input_size' + InPicture'
  BY DEF Placed
<1>1. /\ Y_size \in Nat \ {0} /\ UV_size \in Nat /\ input_size \in Nat
      /\ total \in Int /\ size \in Nat /\ taken \in Nat /\ errors \in Nat
      /\ Len(queued) \in Nat /\ Len(queued) * input_size \in Nat
  <2>1. Len(queued) \in Nat
    BY LenProperties DEF Typed
  <2>2. input_size \in Nat
    BY SizeFacts
  <2> QED BY <2>1, <2>2, SizeFacts, PipeAssumption DEF Typed
<1>2. Y_size' = Y_size /\ UV_size' = UV_size /\ input_size' = input_size
  BY SizesKept
  DEF FileThread, Test, ReadSome, ReadFails, ReadEnd, ReadDone, Check, Queue,
      vars
<1>3. errors = 0 /\ ~ended
  BY <1>1 DEF FileThread, Test, ReadSome, ReadFails, ReadEnd, ReadDone, Check,
              Queue, vars, Typed
<1>4. taken = Len(queued) * input_size + InPicture
  BY <1>2, <1>3 DEF Placed
<1>5. CASE Test
  <2>1. InPicture = 0 /\ InPicture' = 0
    BY <1>5 DEF Test, Counted, InPicture
  <2> QED BY <1>1, <1>2, <1>4, <1>5, <2>1 DEF Test
<1>6. CASE ReadSome
  <2>1. PICK len \in 1 .. (Wanted - total) :
          taken' = taken + len /\ total' = total + len
    BY <1>6 DEF ReadSome
  <2>2. len \in Nat
    BY <1>1 DEF Wanted
  <2>3. InPicture \in Int /\ InPicture' = InPicture + len
    <3>1. CASE reader = "luma"
      BY <1>1, <1>6, <2>1, <3>1 DEF ReadSome, InPicture
    <3>2. CASE reader = "chroma"
      <4>1. InPicture = Y_size + total /\ InPicture' = Y_size' + total'
        BY <1>6, <3>2 DEF ReadSome, InPicture
      <4> QED BY <1>1, <1>2, <2>1, <2>2, <4>1
    <3> QED BY <1>6, <3>1, <3>2 DEF ReadSome
  <2>4. UNCHANGED queued
    BY <1>6 DEF ReadSome
  <2> QED BY <1>1, <1>2, <1>4, <2>1, <2>2, <2>3, <2>4
<1>7. CASE ReadFails
  BY <1>1, <1>7 DEF ReadFails
<1>8. CASE ReadEnd
  BY <1>8 DEF ReadEnd
<1>9. CASE ReadDone
  <2>1. total = Wanted
    BY <1>1, <1>9 DEF ReadDone, Counted, Wanted
  <2>2. InPicture' = InPicture
    BY <1>1, <1>2, <1>9, <2>1 DEF ReadDone, Return, InPicture, Wanted
  <2> QED BY <1>2, <1>4, <1>9, <2>2 DEF ReadDone
<1>10. CASE Check
  <2>1. size = input_size
    BY <1>1, <1>2, <1>3, <1>10 DEF Check, Counted
  <2>2. InPicture' = InPicture
    BY <1>2, <1>10, <2>1 DEF Check, InPicture
  <2> QED BY <1>2, <1>4, <1>10, <2>2 DEF Check
<1>11. CASE Queue
  <2>1. InPicture = input_size /\ InPicture' = 0
    BY <1>2, <1>11 DEF Queue, InPicture
  <2>2. Len(queued') = Len(queued) + 1
    <3>1. <<"luma", 0>> \in Places
      BY PipeAssumption DEF Places
    <3> QED BY <1>11, <3>1, AppendProperties DEF Queue, Typed
  <2>3. (Len(queued) + 1) * input_size = Len(queued) * input_size + input_size
    BY <1>1
  <2> QED BY <1>1, <1>2, <1>4, <1>11, <2>1, <2>2, <2>3, SMTT(30)
      DEF Queue
<1>12. CASE UNCHANGED vars
  <2>1. InPicture' = InPicture
    BY <1>2, <1>12 DEF vars, InPicture
  <2> QED BY <1>2, <1>4, <1>12, <2>1 DEF vars
<1> QED BY <1>5, <1>6, <1>7, <1>8, <1>9, <1>10, <1>11, <1>12 DEF FileThread

LEMMA PlacedInvariant == Spec => []Placed
<1>1. Init => Placed
  <2> SUFFICES ASSUME Init PROVE taken = Len(queued) * input_size + InPicture
    BY DEF Placed
  <2>1. Len(queued) = 0 /\ InPicture = 0 /\ taken = 0 /\ Init
    BY DEF Init, InPicture
  <2>2. input_size \in Int
    <3>1. mwidth \in Nat /\ mheight \in Nat
      BY PipeAssumption DEF Init
    <3>2. mheight + mheight \div 2 \in Nat
      BY <3>1
    <3> QED BY <3>1, <3>2 DEF input_size
  <2> QED BY <2>1, <2>2
<1> QED BY <1>1, TypedInvariant, CountedInvariant, PlacedNext, PTL DEF Spec

-----------------------------------------------------------------------------
(***************************************************************************)
(* What the thread promises.                                               *)
(***************************************************************************)

\* The picture after n others starts at their length.
LEMMA PictureNumber ==
  ASSUME NEW n \in Nat, NEW s \in Nat \ {0}
  PROVE  n * s >= 0 /\ (n * s) % s = 0 /\ (n * s) \div s = n
<1> DEFINE q == (n * s) \div s
           r == (n * s) % s
<1>1. n * s \in Nat
  OBVIOUS
<1>2. q \in Int /\ r \in 0 .. (s - 1) /\ n * s = s * q + r
  BY <1>1
<1> HIDE DEF q, r
<1>3. s * (n - q) = r
  BY <1>2
<1>4. n - q <= 0
  <2>1. n - q >= 1 => s * (n - q) >= s
    BY <1>2
  <2> QED BY <1>2, <1>3, <2>1
<1>5. n - q >= 0
  <2>1. n - q <= -1 => s * (n - q) <= -s
    BY <1>2
  <2> QED BY <1>2, <1>3, <2>1
<1>6. q = n
  BY <1>2, <1>4, <1>5
<1>7. r = 0
  BY <1>2, <1>3, <1>6
<1> QED BY <1>1, <1>6, <1>7 DEF q, r

\* The picture that is queued is the next one of the input.
LEMMA NextPicture ==
  ASSUME Tall, Typed, Counted, Filled, Placed, reader = "queue", errors = 0
  PROVE  PictureAt(buffer[<<"luma", 0>>]) = Len(queued) + 1
<1>1. /\ Y_size \in Nat \ {0} /\ UV_size \in Nat /\ input_size \in Nat \ {0}
      /\ Y_size < input_size /\ taken \in Nat /\ size \in Nat
  BY SizeFacts, ChromaCounts DEF Typed
<1>2. Len(queued) \in Nat
  BY LenProperties DEF Typed
<1>3. ~ended /\ ~torn /\ size = input_size /\ size = Y_size + UV_size
  BY <1>1 DEF Counted
<1>4. taken = Len(queued) * input_size + input_size
  BY <1>3 DEF Placed, InPicture
<1>5. Stretch(buffer, "luma", Y_size, taken - UV_size - Y_size)
  BY <1>3 DEF Filled
<1>6. buffer[<<"luma", 0>>] = taken - UV_size - Y_size + 0
  BY <1>1, <1>5 DEF Stretch
<1> DEFINE first == Len(queued) * input_size
<1>7. first \in Nat
  BY <1>1, <1>2
<1>8. first >= 0 /\ first % input_size = 0 /\ first \div input_size = Len(queued)
  BY <1>1, <1>2, PictureNumber
<1>9. taken = first + input_size
  BY <1>4
<1> HIDE DEF first
<1>10. buffer[<<"luma", 0>>] = first
  <2>1. buffer[<<"luma", 0>>] = taken - (UV_size + Y_size)
    BY <1>1, <1>6
  <2>2. UV_size + Y_size = input_size
    BY <1>1, <1>3
  <2> QED BY <1>1, <1>7, <1>9, <2>1, <2>2
<1> QED BY <1>8, <1>10 DEF PictureAt

\* A queued picture extends the stream by one.
LEMMA QueueTakes ==
  ASSUME Tall, Typed, Counted, Filled, Placed, Queue
  PROVE  Stream!Take
<1> DEFINE pictures == [k \in 1..Len(queued) |-> PictureAt(queued[k])]
<1>1. /\ Len(queued) \in Nat /\ Len(queued') = Len(queued) + 1
      /\ \A k \in 1..Len(queued) : queued'[k] = queued[k]
      /\ queued'[Len(queued) + 1] = buffer[<<"luma", 0>>]
  <2>1. <<"luma", 0>> \in Places
    BY PipeAssumption DEF Places
  <2> QED BY <2>1, AppendProperties, LenProperties DEF Queue, Typed
<1>2. ~ended
  <2>1. Y_size < input_size /\ Y_size \in Nat /\ input_size \in Nat
    BY SizeFacts, ChromaCounts
  <2> QED BY <2>1 DEF Counted, Queue
<1>3. input_size' = input_size
  BY SizesKept DEF Queue
<1>4. \A b : PictureAt(b)' = PictureAt(b)
  BY <1>3 DEF PictureAt
<1>5. Len(pictures) = Len(queued) /\ Len(pictures') = Len(queued) + 1
  BY <1>1
<1>6. SubSeq(pictures', 1, Len(pictures)) = pictures
  <2>1. \A k \in 1..Len(queued) : pictures'[k] = pictures[k]
    BY <1>1, <1>3 DEF PictureAt
  <2> QED BY <1>1, <1>5, <2>1
<1>7. errors > 0 \/ pictures'[Len(pictures')] = Len(pictures')
  <2> SUFFICES ASSUME ~(errors > 0)
               PROVE  pictures'[Len(pictures')] = Len(pictures')
    OBVIOUS
  <2>1. errors = 0
    BY PipeAssumption DEF Typed
  <2>2. pictures'[Len(queued) + 1] = PictureAt(buffer[<<"luma", 0>>])
    BY <1>1, <1>3 DEF PictureAt
  <2> QED BY <1>1, <1>5, <2>1, <2>2, NextPicture DEF Queue
<1>8. UNCHANGED <<errors, ended, mstart>>
  BY DEF Queue
<1> QED BY <1>2, <1>5, <1>6, <1>7, <1>8 DEF Stream!Take

\* The pictures of the input are queued whole, each once and in their order,
\* and only the end of the input stops the program, for every size with more
\* than one row (videoenc.cpp:165-196).
THEOREM PicturesInOrder == ASSUME Tall PROVE Spec => StreamSpec
<1>1. Init => Stream!Init
  BY DEF Init, Stream!Init
<1>2. Typed /\ Counted /\ Filled /\ Placed /\ [FileThread]_vars
        => [Stream!Next]_(Stream!vars)
  <2> SUFFICES ASSUME Typed, Counted, Filled, Placed, [FileThread]_vars
               PROVE  [Stream!Next]_(Stream!vars)
    OBVIOUS
  <2>1. \A b : UNCHANGED <<mwidth, mheight>> => PictureAt(b)' = PictureAt(b)
    BY SizesKept DEF PictureAt
  <2>2. ASSUME UNCHANGED <<mwidth, mheight, queued, errors, ended, mstart>>
        PROVE  UNCHANGED Stream!vars
    BY <2>2, SizesKept DEF Stream!vars, PictureAt
  <2>3. CASE Test
    BY <2>2, <2>3 DEF Test
  <2>4. CASE ReadSome
    BY <2>2, <2>4 DEF ReadSome
  <2>5. CASE ReadFails
    <3>1. (errors > 0)' = TRUE
      BY <2>5, PipeAssumption DEF ReadFails, Typed
    <3> QED BY <2>5, <3>1, SizesKept
            DEF ReadFails, Stream!Next, Stream!Spoil, PictureAt
  <2>6. CASE ReadEnd
    BY <2>6, SizesKept DEF ReadEnd, Stream!Next, Stream!End, PictureAt
  <2>7. CASE ReadDone
    BY <2>2, <2>7 DEF ReadDone
  <2>8. CASE Check
    <3>1. CASE mstart' = mstart
      BY <2>2, <2>8, <3>1 DEF Check
    <3>2. CASE mstart' # mstart
      <4>1. ~mstart' /\ size = 0 /\ size # input_size
        BY <2>8, <3>2 DEF Check, Typed
      <4>2. ended
        BY <2>8, <4>1, SizeFacts DEF Check, Counted
      <4>3. (~mstart)' = TRUE
        BY <4>1
      <4> QED BY <2>8, <4>2, <4>3, SizesKept
              DEF Check, Stream!Next, Stream!Stop, PictureAt
    <3> QED BY <3>1, <3>2
  <2>9. CASE Queue
    BY <2>9, QueueTakes DEF Stream!Next
  <2>10. CASE UNCHANGED vars
    BY <2>2, <2>10 DEF vars
  <2> QED BY <2>3, <2>4, <2>5, <2>6, <2>7, <2>8, <2>9, <2>10 DEF FileThread
<1> QED
  BY <1>1, <1>2, TypedInvariant, CountedInvariant, FilledInvariant,
     PlacedInvariant, PTL
  DEF Spec, StreamSpec, Stream!Spec
=============================================================================
