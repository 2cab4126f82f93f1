----------------------------- MODULE MCSnapshot -----------------------------
(* A small instance of Snapshot for TLC: three runs, of which any two overlap. *)
EXTENDS Snapshot, TLC

Symmetric == Permutations(Runs) \cup Permutations(Names)
=============================================================================
