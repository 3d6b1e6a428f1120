---------------------------- MODULE MCApprovals -----------------------------
(* Approvals on small sets of questions, browsers and approval windows. *)
EXTENDS Approvals, TLC

Symmetry == Permutations(Questions) \cup Permutations(Phones)
                \cup Permutations(Sessions)
=============================================================================
