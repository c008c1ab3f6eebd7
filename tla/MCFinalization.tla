--------------------------- MODULE MCFinalization ---------------------------
(* Small instances of Finalization for TLC. *)
EXTENDS Finalization
=============================================================================
