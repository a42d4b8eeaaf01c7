-------------------------- MODULE MCReliableCommands --------------------------
(* Instances of ReliableCommands for TLC. *)
EXTENDS ReliableCommands

\* Two strings need fragments.
MCSizes      == <<1, 2, 2>>
MCChangeable == {0}

\* Strings of two lengths.
MCSizesMixed == <<1, 2, 1>>
===============================================================================
