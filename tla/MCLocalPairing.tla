--------------------------- MODULE MCLocalPairing ---------------------------
(* LocalPairing with small constants for TLC. *)
EXTENDS LocalPairing, TLC
=============================================================================
