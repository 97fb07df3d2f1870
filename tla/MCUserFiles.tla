----------------------------- MODULE MCUserFiles -----------------------------
(***************************************************************************)
(* The instances of UserFiles that TLC checks.                             *)
(***************************************************************************)
EXTENDS UserFiles, TLC

CONSTANTS w1, w2, c1, c2

TwoWorkers == {w1, w2}
TwoClients == {c1, c2}
OneClient == {c1}
=============================================================================
