----------------------------- MODULE PipeReader -----------------------------
(***************************************************************************)
(* The bytes under FileThread: file_thread() and read_file_data()          *)
(* (videoenc.cpp) fill an input buffer from the standard input, luma and   *)
(* chroma one after the other, by calls of read() that may each bring less *)
(* than was asked for, fail, or find the end of the input.                 *)
(*                                                                         *)
(* A byte is known by its place in the input.  An input that has ended     *)
(* stays so.  Input buffers and the queue always have room here; what      *)
(* happens when they have not is in module FileThread.                     *)
(***************************************************************************)
EXTENDS Integers, Sequences

CONSTANTS Widths, Heights,  \* of -s
          MaxBytes,         \* bound on the length of the input
          MaxErrors         \* bound on the calls of read() that fail

ASSUME PipeAssumption ==
  /\ Widths \subseteq Nat \ {0}
  /\ Heights \subseteq Nat \ {0}
  /\ MaxBytes \in Nat
  /\ MaxErrors \in Nat

VARIABLES
  mwidth, mheight,
  mstart,
  reader,   \* where file_thread() is: "test", "luma", "chroma", "check",
            \* "queue" or "exited"
  total,    \* of read_file_data
  size,     \* of file_thread()
  buffer,   \* what is in the input buffer, and before it
  taken,    \* how many bytes of the input were taken
  ended,    \* read() has found its end
  errors,   \* how often it failed, and
  torn,     \* whether in this picture
  queued    \* the first bytes of the pictures that were queued

vars == <<mwidth, mheight, mstart, reader, total, size, buffer, taken, ended,
          errors, torn, queued>>

Y_size == mwidth * mheight
UV_size == (mwidth * mheight) \div 2
input_size == mwidth * (mheight + mheight \div 2)

\* What read_file_data is asked for.
Wanted == IF reader = "luma" THEN Y_size ELSE UV_size

\* Places in the two parts of an input buffer.  A failed read() takes one off
\* total, which may get below zero.
Places == {"luma", "chroma"} \X ((-MaxErrors) .. (MaxBytes + MaxErrors))
Unwritten == -1

Init ==
  /\ mwidth \in Widths
  /\ mheight \in Heights
  /\ mstart = TRUE
  /\ reader = "test"
  /\ total = 0
  /\ size = 0
  /\ buffer = [p \in Places |-> Unwritten]
  /\ taken = 0
  /\ ended = FALSE
  /\ errors = 0
  /\ torn = FALSE
  /\ queued = <<>>

\* read_file_data gives n back: first for luma and then for chroma.
Return(n) ==
  /\ size' = size + n
  /\ total' = 0
  /\ reader' = IF reader = "luma" THEN "chroma" ELSE "check"

(***************************************************************************)
(* Faulty variants.                                                        *)
(***************************************************************************)

\* Every read() goes to the start of the buffer.
ReadSome_SamePlace ==
  /\ reader \in {"luma", "chroma"}
  /\ total < Wanted
  /\ ~ended
  /\ \E len \in 1 .. (Wanted - total) :
       /\ taken + len <= MaxBytes
       /\ buffer' = [p \in Places |->
                       IF p[1] = reader /\ p[2] \in 0 .. (len - 1)
                       THEN taken + p[2] ELSE buffer[p]]
       /\ taken' = taken + len
       /\ total' = total + len
  /\ UNCHANGED <<mwidth, mheight, mstart, reader, size, ended, errors, torn,
                 queued>>

\* The end of the input is not told from a read() that brought nothing yet.
ReadEnd_Retries ==
  /\ reader \in {"luma", "chroma"}
  /\ total < Wanted
  /\ ended' = TRUE
  /\ UNCHANGED <<mwidth, mheight, mstart, reader, total, size, buffer, taken,
                 errors, torn, queued>>

\* What was read before the end of the input counts.
ReadEnd_Partial ==
  /\ reader \in {"luma", "chroma"}
  /\ total < Wanted
  /\ ended' = TRUE
  /\ size' = size + Wanted
  /\ total' = 0
  /\ reader' = IF reader = "luma" THEN "chroma" ELSE "check"
  /\ UNCHANGED <<mwidth, mheight, mstart, buffer, taken, errors, torn, queued>>

(***************************************************************************)
(* file_thread() and read_file_data().                                     *)
(***************************************************************************)

\* The next buffer; what was in it before is of no account.
Test ==
  /\ reader = "test"
  /\ reader' = IF mstart THEN "luma" ELSE "exited"
  /\ size' = 0
  /\ buffer' = [p \in Places |-> Unwritten]
  /\ torn' = FALSE
  /\ UNCHANGED <<mwidth, mheight, mstart, total, taken, ended, errors, queued>>

\* read() brings some of what is missing, to the address buffer + total.
ReadSome ==
  /\ reader \in {"luma", "chroma"}
  /\ total < Wanted
  /\ ~ended
  /\ \E len \in 1 .. (Wanted - total) :
       /\ taken + len <= MaxBytes
       /\ buffer' = [p \in Places |->
                       IF p[1] = reader /\ p[2] \in total .. (total + len - 1)
                       THEN taken + p[2] - total ELSE buffer[p]]
       /\ taken' = taken + len
       /\ total' = total + len
  /\ UNCHANGED <<mwidth, mheight, mstart, reader, size, ended, errors, torn,
                 queued>>

\* read() returns -1, which is added to total like any other result.
ReadFails ==
  /\ reader \in {"luma", "chroma"}
  /\ total < Wanted
  /\ errors < MaxErrors
  /\ errors' = errors + 1
  /\ total' = total - 1
  /\ torn' = TRUE
  /\ UNCHANGED <<mwidth, mheight, mstart, reader, size, buffer, taken, ended,
                 queued>>

\* read() returns 0, and so does read_file_data, whatever it had read before.
ReadEnd ==
  /\ reader \in {"luma", "chroma"}
  /\ total < Wanted
  /\ ended' = TRUE
  /\ Return(0)
  /\ UNCHANGED <<mwidth, mheight, mstart, buffer, taken, errors, torn, queued>>

ReadDone ==
  /\ reader \in {"luma", "chroma"}
  /\ total >= Wanted
  /\ Return(total)
  /\ UNCHANGED <<mwidth, mheight, mstart, buffer, taken, ended, errors, torn,
                 queued>>

\* The test of the size, and of the end of the input.
Check ==
  /\ reader = "check"
  /\ reader' = IF size = input_size THEN "queue" ELSE "test"
  /\ mstart' = (mstart /\ (size = input_size \/ size # 0))
  /\ UNCHANGED <<mwidth, mheight, total, size, buffer, taken, ended, errors,
                 torn, queued>>

Queue ==
  /\ reader = "queue"
  /\ queued' = Append(queued, buffer[<<"luma", 0>>])
  /\ reader' = "test"
  /\ UNCHANGED <<mwidth, mheight, mstart, total, size, buffer, taken, ended,
                 errors, torn>>
-----------------------------------------------------------------------------
FileThread ==
  Test \/ ReadSome \/ ReadFails \/ ReadEnd \/ ReadDone \/ Check \/ Queue

Spec == Init /\ [][FileThread]_vars

\* The thread is scheduled, and read() comes back: the input goes on or ends.
FairSpec == Spec /\ WF_vars(FileThread)
-----------------------------------------------------------------------------
(***************************************************************************)
(* Properties.                                                             *)
(***************************************************************************)

\* A picture that is queued is one stretch of the input, chroma right behind
\* luma and nothing missing, however read() has cut it up, provided no read()
\* failed in it.  (If one did, the count comes out right all the same and the
\* picture is torn: videoenc.cpp:157-160, 183-196.)
PictureIntact ==
  reader = "queue" /\ ~torn =>
    LET first == buffer[<<"luma", 0>>]
    IN /\ \A k \in 0 .. (Y_size - 1) : buffer[<<"luma", k>>] = first + k
       /\ \A k \in 0 .. (UV_size - 1) :
            buffer[<<"chroma", k>>] = first + Y_size + k

\* Which picture of the input starts at this byte; 0 if none does.
PictureAt(byte) ==
  IF byte >= 0 /\ byte % input_size = 0 THEN byte \div input_size + 1 ELSE 0

Stream == INSTANCE PictureStream WITH
  pictures <- [k \in 1..Len(queued) |-> PictureAt(queued[k])],
  spoiled <- errors > 0,
  stopped <- ~mstart

\* The pictures of the input are queued whole, each once and in their order,
\* and the program is stopped only at the end of the input, not by a part of a
\* picture or a size that is wrong (videoenc.cpp:165-196).
StreamSpec == Stream!Spec

\* The end of the input stops the program wherever it comes, after a few more
\* calls of read() (videoenc.cpp:157-159, 186-191).
InputEnds == ended ~> ~mstart
=============================================================================
