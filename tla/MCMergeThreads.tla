---------------------------- MODULE MCMergeThreads ---------------------------
(* Arrays of up to four numbers, up to five threads. *)
EXTENDS MergeThreads

ThreeValues == 0 .. 2
=============================================================================
