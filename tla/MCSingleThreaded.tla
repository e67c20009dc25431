-------------------------- MODULE MCSingleThreaded --------------------------
(***************************************************************************)
(* The two components that no two threads are ever in at once, side by     *)
(* side: SimpleFIFO, which is used under the lock of its owner only, and   *)
(* CommandLine, which ends before the first thread is created.  They share *)
(* nothing; the initial state says which of the two runs.                  *)
(***************************************************************************)
EXTENDS SimpleFIFO, MCCommandLine

VARIABLE component  \* "ring" or "options"

SingleThreadedInit ==
  \/ /\ component = "ring"
     /\ FIFOInit
     /\ argv = <<>> /\ Init
  \/ /\ component = "options"
     /\ Init
     /\ raw = [s \in Slot |-> CHOOSE e \in Elem : TRUE] /\ FIFOInit

SingleThreadedNext ==
  \/ component = "ring" /\ FIFONext /\ UNCHANGED <<component, vars>>
  \/ component = "options" /\ Next /\ UNCHANGED <<component, fifo>>

SingleThreadedSpec ==
  SingleThreadedInit /\ [][SingleThreadedNext]_<<component, fifo, vars>>
=============================================================================
