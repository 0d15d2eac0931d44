----------------------------- MODULE MCSessions -----------------------------
(* Two visits of one browser, three pairs of tokens, one sign-in begun.      *)
EXTENDS Sessions, TLC

Symmetry == Permutations(Visits)

=============================================================================
