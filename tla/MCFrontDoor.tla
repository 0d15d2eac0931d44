----------------------------- MODULE MCFrontDoor -----------------------------
(* Limiter: one address, a limit of one, and enough attempts to exceed it by *)
(* Redis and by each instance; days of two ticks.  Sessions: three visits,   *)
(* the pair of tokens to start with and two more, one sign-in begun.         *)
(* Accounts: two users, each with at most one key at first and a limit of    *)
(* one active key, three rows, two calls that may overlap.                   *)
(*                                                                           *)
(* Attempts, visits and rows take their values from one set: as only one     *)
(* part moves, permuting it permutes whichever part that is.                 *)
EXTENDS FrontDoor, TLC

Symmetry == Permutations(Attempts)

=============================================================================
