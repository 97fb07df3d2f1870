------------------------- MODULE MCInteractiveTurns -------------------------
(***************************************************************************)
(* The instances of InteractiveTurns that TLC checks.                      *)
(***************************************************************************)
EXTENDS InteractiveTurns, TLC

CONSTANTS r1, r2, d1

TwoRunners == {r1, r2}
OneReader == {d1}
=============================================================================
