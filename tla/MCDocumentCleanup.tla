-------------------------- MODULE MCDocumentCleanup --------------------------
(***************************************************************************)
(* The instances of DocumentCleanup that TLC checks.                       *)
(***************************************************************************)
EXTENDS DocumentCleanup, TLC

CONSTANTS ccA, ccB, d1, l1, l2

TwoPairs == {ccA, ccB}
OneDocprocessor == {d1}
OneLightWorker == {l1}
TwoLightWorkers == {l1, l2}
=============================================================================
