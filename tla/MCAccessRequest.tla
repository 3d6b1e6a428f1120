-------------------------- MODULE MCAccessRequest ---------------------------
(* AccessRequest with small constants for TLC. *)
EXTENDS AccessRequest, TLC

CONSTANTS r1, r2

\* The first browser says everything, the second only stands in its way.
Talk == [r \in Requests |-> IF r = r1 THEN 3 ELSE 0]

Symmetry == Permutations(BrowserKeys)
=============================================================================
