----------------------------- MODULE MCNetchan -------------------------------
(* Instances of Netchan with fragments of a few cells.                       *)
EXTENDS NetchanInvariant
=============================================================================
