---------------------------- MODULE ReliableStream ----------------------------
(***************************************************************************)
(* What the reliable commands of one end promise the other one: they are   *)
(* delivered in order, each once and unchanged.  A command may be amended  *)
(* until it is sent for the first time.  When the connection breaks there  *)
(* are no promises left, and it stays broken.                              *)
(***************************************************************************)
EXTENDS Naturals, Sequences, SequencesExt

VARIABLES log,        \* the commands added so far, some from the start
          frozen,     \* how many of them have been sent
          delivered,  \* those that the other end has executed
          open        \* is the connection up?

vars == <<log, frozen, delivered, open>>

Init == frozen = 0 /\ delivered = <<>> /\ open = TRUE

\* In one step commands are added, amended, sent and executed.
Step ==
  /\ open /\ open'
  /\ Len(log') >= Len(log) /\ frozen' \in frozen..Len(log')
  /\ SubSeq(log', 1, frozen) = SubSeq(log, 1, frozen)
  /\ IsPrefix(delivered, delivered') /\ IsPrefix(delivered', SubSeq(log', 1, frozen'))

Next == Step \/ ~open'

Spec == Init /\ [][Next]_vars
===============================================================================
