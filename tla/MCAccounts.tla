----------------------------- MODULE MCAccounts -----------------------------
(* Two users, each with at most one key when the observation starts and a     *)
(* limit of one active key, three rows, and two calls that may overlap.       *)
EXTENDS Accounts, TLC

Symmetry == Permutations(Users) \cup Permutations(Keys) \cup Permutations(Calls)

=============================================================================
