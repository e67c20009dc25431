--------------------------- MODULE OutputChannel ---------------------------
(***************************************************************************)
(* What one StreamWriterThread (out_writer.h) promises whoever pushes to   *)
(* it: a channel that is bounded, may refuse what does not fit, but keeps  *)
(* the order of what it took.  StreamWriter is shown to be such a channel. *)
(***************************************************************************)
EXTENDS Naturals, Sequences

CONSTANTS QE_SIZE,  \* the capacity
          Segment,  \* what can be pushed: a region of a call of pushBuffer
          Short     \* what the output shows of a failed or partial write()

VARIABLES open,     \* the output can be written to
          queued,   \* the segments that the channel took
          sent      \* the segments given to write()

vars == <<open, queued, sent>>

Init == ~open /\ queued = <<>> /\ sent = <<>>

Open == open' = TRUE /\ UNCHANGED <<queued, sent>>

\* The first region of a call is newer than all that was queued before; the
\* second one comes right behind the first one of the same call.
Follows(s) ==
  IF s.part = 0
  THEN \A i \in 1..Len(queued) : queued[i].call < s.call
  ELSE /\ queued # <<>>
       /\ queued[Len(queued)] = [call |-> s.call, part |-> 0]

\* No more than QE_SIZE segments are on their way.
Queue(s) ==
  /\ open
  /\ Len(queued) < Len(sent) + QE_SIZE
  /\ Follows(s)
  /\ queued' = Append(queued, s)
  /\ UNCHANGED <<open, sent>>

\* The oldest segment that was not sent yet, or what becomes of it.
Send ==
  /\ open
  /\ Len(sent) < Len(queued)
  /\ \E s \in {queued[Len(sent) + 1], Short} : sent' = Append(sent, s)
  /\ UNCHANGED <<open, queued>>

\* What was not sent yet is discarded.
Close == open' = FALSE /\ UNCHANGED <<queued, sent>>

Next == Open \/ (\E s \in Segment : Queue(s)) \/ Send \/ Close

Spec == Init /\ [][Next]_vars
=============================================================================
