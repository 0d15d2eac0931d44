---------------------------- MODULE MCFundamentals ----------------------------
(* One ticker on two instances.  Three ticks make a day, a copy is fresh for  *)
(* two of them, and the clock starts a tick before a boundary: copies made    *)
(* before it can be fresh by age and stale by boundary, or the reverse.       *)
EXTENDS Fundamentals, TLC

Symmetry == Permutations(Instances)

=============================================================================
