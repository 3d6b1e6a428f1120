----------------------------- MODULE MCRecorder -----------------------------
(* Recorder with small constants for TLC. *)
EXTENDS Recorder

\* Recordings differ in nothing but their names.
Symmetry == Permutations(Ids)
=============================================================================
