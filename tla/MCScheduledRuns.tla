--------------------------- MODULE MCScheduledRuns ---------------------------
(***************************************************************************)
(* The instances of ScheduledRuns that TLC checks.                         *)
(***************************************************************************)
EXTENDS ScheduledRuns, TLC

CONSTANTS a1, a2

OneRequest == {a1}
TwoRequests == {a1, a2}
=============================================================================
