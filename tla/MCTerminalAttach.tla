-------------------------- MODULE MCTerminalAttach --------------------------
(* TerminalAttach with small constants for TLC. *)
EXTENDS TerminalAttach, TLC

Symmetry == Permutations(Names)
=============================================================================
