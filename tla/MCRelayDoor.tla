---------------------------- MODULE MCRelayDoor -----------------------------
(* RelayDoor with small constants for TLC. *)
EXTENDS RelayDoor, TLC

\* Connections have no order: any two may change places.
Alike == Permutations(Conns)
=============================================================================
