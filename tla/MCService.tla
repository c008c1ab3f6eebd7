----------------------------- MODULE MCService ------------------------------
(* Small instances of GameService for TLC. *)
EXTENDS GameService, TLC

Interchangeable == Permutations(Games) \cup Permutations(Players) \cup Permutations(Callers)
=============================================================================
