--------------------------- MODULE PictureStream ---------------------------
(***************************************************************************)
(* What file_thread() promises: the pictures of the standard input, whole, *)
(* each once and in their order, until the input ends; then, and only then,*)
(* it stops the program.  FileRead of module FileThread rests on it.       *)
(***************************************************************************)
EXTENDS Naturals, Sequences

VARIABLES
  pictures,  \* those that were queued, numbered as they are in the input
  spoiled,   \* a read() has failed
  ended,     \* the input has ended
  stopped    \* mstart was cleared

vars == <<pictures, spoiled, ended, stopped>>

Init ==
  /\ pictures = <<>>
  /\ spoiled = FALSE
  /\ ended = FALSE
  /\ stopped = FALSE

\* After a failed read() nothing is known of what the pictures show.
Take ==
  /\ ~ended
  /\ Len(pictures') = Len(pictures) + 1
  /\ SubSeq(pictures', 1, Len(pictures)) = pictures
  /\ spoiled \/ pictures'[Len(pictures')] = Len(pictures')
  /\ UNCHANGED <<spoiled, ended, stopped>>

Spoil == spoiled' = TRUE /\ UNCHANGED <<pictures, ended, stopped>>

End == ended' = TRUE /\ UNCHANGED <<pictures, spoiled, stopped>>

Stop == ended /\ stopped' = TRUE /\ UNCHANGED <<pictures, spoiled, ended>>

Next == Take \/ Spoil \/ End \/ Stop

Spec == Init /\ [][Next]_vars
=============================================================================
