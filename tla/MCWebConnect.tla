---------------------------- MODULE MCWebConnect ----------------------------
(* WebConnect with small constants for TLC. *)
EXTENDS WebConnect
=============================================================================
