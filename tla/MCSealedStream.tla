--------------------------- MODULE MCSealedStream ---------------------------
(* SealedStream with small constants for TLC: the first key is the device    *)
(* d1's only pairing, the others are of d2.                                  *)
EXTENDS SealedStream, TLC

CONSTANTS k1, k2

TwoDevices == k1 :> "d1" @@ k2 :> "d2"
=============================================================================
