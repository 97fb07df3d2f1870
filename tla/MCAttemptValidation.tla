------------------------- MODULE MCAttemptValidation -------------------------
(***************************************************************************)
(* The instances of AttemptValidation that TLC checks.                     *)
(***************************************************************************)
EXTENDS AttemptValidation, TLC

CONSTANTS w1, w2

OneWorker == {w1}
TwoWorkers == {w1, w2}
WorkerSymmetry == Permutations(TwoWorkers)
=============================================================================
