--------------------------- MODULE AttemptLifecycle ---------------------------
(***************************************************************************)
(* What the rest of the system may rely on about the IndexAttempts of a    *)
(* cc_pair, whatever processes, workers and beat tasks do to them: an      *)
(* attempt waits, runs and ends, the claim to the poll window of a search  *)
(* setting is held by one attempt at a time, and only an attempt all of    *)
(* whose batches are counted keeps it for good.  An outcome may still be   *)
(* overwritten by another one.  DocBatchPipeline implements this module.   *)
(***************************************************************************)
CONSTANTS
    Attempts,   \* attempts that may be created
    Settings    \* search settings, each with a poll window to index

VARIABLES
    phase,      \* "none", "waiting", "running", "failed" or "succeeded"
    setting,    \* the search setting an attempt is for
    counted     \* attempts fetched to the end whose batches are all counted

vars == <<phase, setting, counted>>

Open == {"waiting", "running"}
Claim == Open \union {"succeeded"}

\* No attempt but a holds the poll window of s
Free(a, s) ==
    \A b \in Attempts \ {a} : setting[b] = s => phase[b] \notin Claim

Init ==
    /\ phase = [a \in Attempts |-> "none"]
    /\ setting \in [Attempts -> Settings]
    /\ counted = {}

\* try_creating_docfetching_task
Create(a, s) ==
    /\ phase[a] = "none" /\ Free(a, s)
    /\ phase' = [phase EXCEPT ![a] = "waiting"]
    /\ setting' = [setting EXCEPT ![a] = s]
    /\ UNCHANGED counted

\* transition_attempt_to_in_progress
Start(a) ==
    /\ phase[a] = "waiting"
    /\ phase' = [phase EXCEPT ![a] = "running"]
    /\ UNCHANGED <<setting, counted>>

\* set_total_batches, or the last update_batch_completion_and_docs.  Workers
\* carry on with the batches of an attempt that has failed.
Count(a) ==
    /\ phase[a] # "none"
    /\ counted' = counted \union {a}
    /\ UNCHANGED <<phase, setting>>

\* mark_attempt_succeeded, mark_attempt_partially_succeeded
Succeed(a) ==
    /\ phase[a] # "none" /\ a \in counted /\ Free(a, setting[a])
    /\ phase' = [phase EXCEPT ![a] = "succeeded"]
    /\ UNCHANGED <<setting, counted>>

\* mark_attempt_failed, mark_attempt_canceled
Fail(a) ==
    /\ phase[a] # "none"
    /\ phase' = [phase EXCEPT ![a] = "failed"]
    /\ UNCHANGED <<setting, counted>>

Step(a) == \/ \E s \in Settings : Create(a, s)
           \/ Start(a) \/ Count(a) \/ Succeed(a) \/ Fail(a)
Next == \E a \in Attempts : Step(a)

Spec == Init /\ [][Next]_vars

-----------------------------------------------------------------------------
TypeOK ==
    /\ phase \in [Attempts -> Claim \union {"none", "failed"}]
    /\ setting \in [Attempts -> Settings]
    /\ counted \subseteq Attempts

\* A poll window is claimed by one attempt at a time
OneClaim ==
    \A a, b \in Attempts :
        a # b /\ setting[a] = setting[b] => ~(phase[a] \in Claim /\ phase[b] \in Claim)

\* A claim that stands for good was earned
ClaimsEarned == \A a \in Attempts : phase[a] = "succeeded" => a \in counted
=============================================================================
