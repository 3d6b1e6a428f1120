------------------------------ MODULE MCTunnel ------------------------------
(* Tunnel with small constants for TLC. *)
EXTENDS Tunnel, TLC

Symmetry == Permutations(Agents) \cup Permutations(Browsers)
=============================================================================
