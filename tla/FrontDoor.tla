------------------------------ MODULE FrontDoor ------------------------------
(***************************************************************************)
(* What stands between a browser and the metered API: the limit of sign-in *)
(* attempts, readiness, the browser's session, and the account routes that *)
(* a session opens.                                                        *)
(*                                                                         *)
(* The four share no state but the dependencies the limiter and readiness  *)
(* call: a session decides only whether an account call is let in, which   *)
(* Accounts leaves open.  A property of one part therefore cannot depend   *)
(* on steps of another, and a behaviour shows the steps of one of them.    *)
(***************************************************************************)
EXTENDS LoginLimiter, Readiness, Sessions, Accounts

VARIABLE focus  \* the part whose steps a behaviour shows

Parts == {"limiter", "readiness", "sessions", "accounts"}

vars == <<outageVars, limiterVars, readinessVars, sessionVars, accountVars, focus>>

Init ==
    /\ OutageInit /\ LimiterInit /\ ReadinessInit
    /\ focus \in Parts
    /\ SessionsInit /\ (focus # "sessions" => grants = <<>>)
    /\ AccountsInit /\ (focus # "accounts" => customers = {})

Next ==
    /\ UNCHANGED focus
    /\ \/ /\ focus \in {"limiter", "readiness"}
          /\ OutageNext
          /\ UNCHANGED <<limiterVars, readinessVars, sessionVars, accountVars>>
       \/ /\ focus = "limiter"
          /\ LimiterNext
          /\ UNCHANGED <<outageVars, readinessVars, sessionVars, accountVars>>
       \/ /\ focus = "readiness"
          /\ ReadinessNext
          /\ UNCHANGED <<outageVars, limiterVars, sessionVars, accountVars>>
       \/ /\ focus = "sessions"
          /\ SessionsNext
          /\ UNCHANGED <<outageVars, limiterVars, readinessVars, accountVars>>
       \/ /\ focus = "accounts"
          /\ AccountsNext
          /\ UNCHANGED <<outageVars, limiterVars, readinessVars, sessionVars>>

Spec == Init /\ [][Next]_vars

=============================================================================
