---------------------------- MODULE MCConnection -----------------------------
(* Instances of Connection with a few configstrings.                         *)
EXTENDS Connection
MCAll     == {"CS_CONNECTING", "CS_CONNECTED", "CS_SPAWNED"}
=============================================================================
