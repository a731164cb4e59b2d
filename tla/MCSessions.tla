----------------------------- MODULE MCSessions -----------------------------
(* Sessions with finite constants and their symmetry.                        *)
EXTENDS Sessions, TLC

Symmetry == Permutations(Rows) \cup Permutations(Reqs) \cup Permutations(Users)

=============================================================================
