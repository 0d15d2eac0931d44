---------------------------- MODULE MCRefreshWindow ----------------------------
(* A short year for TLC: daylight time begins on day 3 and ends on day 12, so *)
(* the observation sees both transitions with full days on either side.       *)
EXTENDS RefreshWindow

MCSpringForward == 3 * 24 + 7
MCFallBack == 12 * 24 + 6
MCLastHour == 16 * 24

=============================================================================
