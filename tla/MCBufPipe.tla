------------------------------ MODULE MCBufPipe ------------------------------
(* A small instance of BufPipe: a ring of a few units, closures of different *)
(* sizes, and enough of them for the ring to wrap around more than once.     *)
EXTENDS BufPipeInvariant
=============================================================================
