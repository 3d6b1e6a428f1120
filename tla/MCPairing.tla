----------------------------- MODULE MCPairing -----------------------------
(* Pairing with small constants for TLC. *)
EXTENDS Pairing, TLC

Symmetry == Permutations(Mailboxes) \cup Permutations(Claims)
               \cup Permutations(Slots)
=============================================================================
