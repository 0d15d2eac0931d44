-------------------------- MODULE MCMeteredRequests --------------------------
(* One customer's key under a quota of one request a day, two requests that   *)
(* overlap across midnight, and account calls that revoke or rotate meanwhile. *)
EXTENDS MeteredRequests, TLC

Symmetry == Permutations(Keys) \cup Permutations(Calls) \cup Permutations(Requests)

=============================================================================
