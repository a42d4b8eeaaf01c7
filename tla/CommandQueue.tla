---------------------------- MODULE CommandQueue ----------------------------
(***************************************************************************)
(* What a command pipe promises to the two threads it connects: commands   *)
(* are executed once each, in the order of their submission, and nothing   *)
(* is executed after a command that terminates the reader.  BufPipe is   *)
(* shown to implement this module; BuiltinServer is written on top of it.  *)
(***************************************************************************)
EXTENDS Sequences, Naturals

CONSTANTS Command,  \* the commands that can be sent
          Terminal  \* those that terminate the reader

VARIABLES submitted,    \* every command submitted so far, in order
          executed      \* every command executed so far, in order

Init == submitted = <<>> /\ executed = <<>>

Submit(c) == submitted' = Append(submitted, c) /\ UNCHANGED executed

Terminated == executed # <<>> /\ executed[Len(executed)] \in Terminal

Execute == /\ ~Terminated
           /\ Len(executed) < Len(submitted)
           /\ executed' = Append(executed, submitted[Len(executed) + 1])
           /\ UNCHANGED submitted

Next == Execute \/ \E c \in Command : Submit(c)

Spec == Init /\ [][Next]_<<submitted, executed>>
=============================================================================
