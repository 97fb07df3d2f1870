------------------------- MODULE MCDocBatchPipeline -------------------------
(***************************************************************************)
(* The instances of DocBatchPipeline that TLC checks.                      *)
(***************************************************************************)
EXTENDS DocBatchPipeline, TLC

CONSTANTS w1, w2, present, future

OneWorker == {w1}
TwoWorkers == {w1, w2}
WorkerSymmetry == Permutations(TwoWorkers)

OneSetting == {present}
TwoSettings == {present, future}

\* The source checkpoints after its first batch and at its end
RunsOfTwo == {1, 3}
OneRun == {NumItems}
=============================================================================
