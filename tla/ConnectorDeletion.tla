-------------------------- MODULE ConnectorDeletion --------------------------
(***************************************************************************)
(* The deletion of one connector/credential pair (cc_pair), and the        *)
(* indexing and pruning it must wait for.                                  *)
(*                                                                         *)
(* Nothing locks the cc_pair.  check_for_connector_deletion_task, a beat   *)
(* task, sets a deletion fence in Redis, looks whether an index attempt    *)
(* runs or a pruning fence is set, sends a cleanup task per document and   *)
(* deletes the cc_pair when their taskset is gone; when it is blocked it   *)
(* sets a stop signal and, when that has timed out, resets the fences in   *)
(* its way.  Pruning sets a fence of its own and sends cleanup tasks of    *)
(* its own; docfetching looks at the fences once, when it starts.  Fences  *)
(* whose tasks were lost are reset when their active signal has expired.   *)
(***************************************************************************)
EXTENDS Integers, FiniteSets, Functions

CONSTANTS
    Docs,          \* the documents of the cc_pair's source
    MaxTasks,      \* bound: cleanup tasks queued or listed
    MaxAttempts,   \* bound: index attempts created
    MaxPrunes,     \* bound: prunings created
    Events,        \* the kinds of trouble a behaviour may contain
    MaxEvents      \* bound: how many of them

EventKinds ==
    {"beat_crash", "send_error", "http_error", "indexer_crash", "generator_crash",
     "source_error", "prune_send_error", "pause", "invalid"}
\* ConnectorCredentialPairStatus.is_active; SCHEDULED is treated as
\* INITIAL_INDEXING is
Live == {"INITIAL_INDEXING", "ACTIVE"}

ASSUME ConstantsAssumption ==
    /\ IsFiniteSet(Docs)
    /\ {MaxTasks, MaxAttempts, MaxPrunes, MaxEvents} \subseteq Nat
    /\ Events \subseteq EventKinds

VARIABLES
    \* Postgres
    status,     \* of the cc_pair; "GONE" when it is deleted
    docs,       \* documents the cc_pair references
    others,     \* documents that another cc_pair references
    attempt,    \* status of the latest index attempt, "none" or "ended"
    \* Redis
    fence,      \* connectordeletion_fence: "none", "setup" (num_tasks None), "ready"
    taskset,    \* connectordeletion_taskset
    active,     \* connectordeletion_active
    stop,       \* connectorstop: "none", "set", "timed_out", "untimed" (see Pause)
    blocked,    \* BLOCK_VALIDATE_CONNECTOR_DELETION_FENCES
    prune,      \* pruning fence: "none", "setup" (no celery_task_id), "ready"
    pruneTasks, pruneActive,
    complete,   \* generator_complete of pruning
    \* The broker
    queue,      \* queued cleanup tasks
    \* Processes
    beat,       \* check_for_connector_deletion_task
    creating,   \* an index attempt is being created
    indexer,    \* docfetching of the attempt
    batches,    \* documents dispatched to docprocessing
    writing,    \* documents docprocessing is about to write
    finalizing, \* check_indexing_completion has read the status
    pruner,     \* try_creating_prune_generator_task
    generator,  \* connector_pruning_generator_task
    attempts, prunes, spent \* how many of each have been created or happened

redis == <<fence, taskset, active, stop, blocked>>
pruning == <<prune, pruneTasks, pruneActive, complete, pruner, generator, prunes>>
indexing == <<attempt, creating, indexer, batches, writing, finalizing, attempts>>
vars == <<status, docs, others, redis, pruning, indexing, queue, beat, spent>>

Happens(kind) == kind \in Events /\ spent < MaxEvents /\ spent' = spent + 1
NothingHappens == UNCHANGED spent

Ids(tasks) == {t.id : t \in tasks}
\* Ids for a task per document, different from one another and from those of
\* other tasks: there are none when MaxTasks are queued or listed
TaskIds(ds) ==
    Injection(ds, 1..MaxTasks \ (Ids(queue) \union taskset \union pruneTasks))
\* One cleanup task per document
TasksFor(ds) ==
    LET id == CHOOSE f \in TaskIds(ds) : TRUE
    IN  {[id |-> id[d], doc |-> d] : d \in ds}

Init ==
    /\ status \in Live /\ docs = Docs /\ others = Docs /\ attempt = "none"
    /\ fence = "none" /\ taskset = {} /\ active = FALSE /\ stop = "none" /\ blocked = FALSE
    /\ prune = "none" /\ pruneTasks = {} /\ pruneActive = FALSE /\ complete = FALSE
    /\ queue = {}
    /\ beat = "idle" /\ creating = FALSE /\ indexer = "none"
    /\ batches = {} /\ writing = {} /\ finalizing = FALSE
    /\ pruner = "idle" /\ generator = "none"
    /\ attempts = 0 /\ prunes = 0 /\ spent = 0

-----------------------------------------------------------------------------
(***************************************************************************)
(* The admin                                                               *)
(***************************************************************************)

\* create_deletion_attempt_for_connector_id cancels attempts not yet started
RequestDeletion ==
    /\ status \notin {"DELETING", "GONE"}
    /\ status' = "DELETING"
    /\ attempt' = IF attempt = "NOT_STARTED" THEN "ended" ELSE attempt
    /\ UNCHANGED <<docs, others, redis, pruning, creating, indexer, batches, writing,
                   finalizing, attempts, queue, beat, spent>>

\* update_cc_pair_status: no look at the present status, and a stop signal
\* without a timeout, which deletion takes for one that has timed out
Pause ==
    /\ status # "GONE" /\ Happens("pause")
    /\ status' = "PAUSED" /\ stop' = "untimed"
    /\ UNCHANGED <<docs, others, fence, taskset, active, blocked, pruning, indexing,
                   queue, beat>>

-----------------------------------------------------------------------------
(***************************************************************************)
(* check_for_connector_deletion_task, one run at a time (beat lock)        *)
(***************************************************************************)
ResetFence ==
    fence' = "none" /\ taskset' = {} /\ active' = FALSE
ResetPrune ==
    prune' = "none" /\ pruneTasks' = {} /\ pruneActive' = FALSE /\ complete' = FALSE

AllQueued(tasks) == tasks # {} /\ tasks \subseteq Ids(queue)

\* Mutant: only a complete fence is validated
ValidatesReady == fence = "ready"
\* validate_connector_deletion_fence looks at every fence
Validates == fence # "none"

\* validate_connector_deletion_fences, at most every five minutes
BeatBegin ==
    /\ beat = "idle" /\ blocked' = TRUE
    /\ beat' = IF status = "GONE" THEN "monitor" ELSE "fence"
    /\ IF blocked \/ ~Validates THEN UNCHANGED <<fence, taskset, active>>
       ELSE IF AllQueued(taskset) THEN active' = TRUE /\ UNCHANGED <<fence, taskset>>
       ELSE IF active THEN UNCHANGED <<fence, taskset, active>>
       ELSE ResetFence
    /\ UNCHANGED <<status, docs, others, stop, pruning, indexing, queue, spent>>

\* try_generate_document_cc_pair_cleanup_tasks sets a basic fence; whatever
\* else it returns, the caller clears the stop signal
BeatFence ==
    /\ beat = "fence"
    /\ IF fence = "none" /\ status = "DELETING"
       THEN fence' = "setup" /\ active' = TRUE /\ beat' = "attempt"
       ELSE UNCHANGED <<fence, active>> /\ beat' = "unstop"
    /\ UNCHANGED <<status, docs, others, taskset, stop, blocked, pruning, indexing, queue, spent>>

\* Mutant: the fence stays when the deletion is blocked
KeepFence == "setup"
\* TaskDependencyError takes the fence back
FenceOnBlock == "none"

BeatCheckAttempt ==
    /\ beat = "attempt"
    /\ IF attempt = "IN_PROGRESS" THEN fence' = FenceOnBlock /\ beat' = "blocked"
                                  ELSE UNCHANGED fence /\ beat' = "prune"
    /\ UNCHANGED <<status, docs, others, taskset, active, stop, blocked, pruning, indexing,
                   queue, spent>>

BeatCheckPrune ==
    /\ beat = "prune"
    /\ IF prune # "none" THEN fence' = FenceOnBlock /\ beat' = "blocked"
                         ELSE UNCHANGED fence /\ beat' = "send"
    /\ UNCHANGED <<status, docs, others, taskset, active, stop, blocked, pruning, indexing,
                   queue, spent>>

\* First a stop signal and revocation of what has not started, later, when the
\* signal has timed out, a reset of the pruning fence
BeatBlocked ==
    /\ beat = "blocked" /\ beat' = "monitor"
    /\ \/ /\ stop = "none" /\ stop' = "set"
          /\ generator' = IF prune = "ready" /\ generator = "queued" THEN "none" ELSE generator
          /\ UNCHANGED <<prune, pruneTasks, pruneActive, complete>>
       \/ /\ stop \in {"timed_out", "untimed"} /\ ResetPrune
          /\ UNCHANGED <<stop, generator>>
       \/ stop = "set" /\ UNCHANGED <<stop, generator, prune, pruneTasks, pruneActive, complete>>
    /\ UNCHANGED <<status, docs, others, fence, taskset, active, blocked, pruner, prunes,
                   indexing, queue, spent>>

\* taskset_clear and generate_tasks; an exception in the middle of it takes the
\* fence back but neither the tasks sent nor the taskset
BeatSend ==
    /\ beat = "send"
    /\ \/ /\ NothingHappens /\ beat' = "ready" /\ UNCHANGED fence
          /\ TaskIds(docs) # {}
          /\ queue' = queue \union TasksFor(docs) /\ taskset' = Ids(TasksFor(docs))
       \/ /\ Happens("send_error") /\ beat' = "unstop" /\ fence' = "none"
          /\ \E ds \in SUBSET docs :
                /\ TaskIds(ds) # {}
                /\ queue' = queue \union TasksFor(ds) /\ taskset' = Ids(TasksFor(ds))
    /\ UNCHANGED <<status, docs, others, active, stop, blocked, pruning, indexing>>

BeatReady ==
    /\ beat = "ready" /\ beat' = "unstop"
    /\ fence' = "ready"
    /\ UNCHANGED <<status, docs, others, taskset, active, stop, blocked, pruning, indexing,
                   queue, spent>>

\* Mutant: the signal is cleared only for cc_pairs that are not being deleted
KeepStopWhileDeleting == IF status = "DELETING" THEN stop ELSE "none"
\* "clear the stop signal if it exists ... no longer needed"
ClearedStop == "none"

BeatUnstop ==
    /\ beat = "unstop" /\ beat' = "monitor"
    /\ stop' = ClearedStop
    /\ UNCHANGED <<status, docs, others, fence, taskset, active, blocked, pruning, indexing,
                   queue, spent>>

\* monitor_connector_deletion_taskset
BeatMonitor ==
    /\ beat = "monitor"
    /\ IF fence # "ready" \/ taskset # {} \/ status = "GONE"
       THEN beat' = "idle" /\ UNCHANGED <<status, docs, attempt, fence, taskset, active>>
       ELSE IF docs # {}   \* documents were added meanwhile: start again
       THEN beat' = "idle" /\ ResetFence /\ UNCHANGED <<status, docs, attempt>>
       ELSE /\ beat' = "finish"
            /\ status' = "GONE" /\ attempt' = "none"
            /\ UNCHANGED <<docs, fence, taskset, active>>
    /\ UNCHANGED <<others, stop, blocked, pruning, creating, indexer, batches, writing,
                   finalizing, attempts, queue, spent>>

BeatFinish ==
    /\ beat = "finish" /\ beat' = "idle"
    /\ ResetFence
    /\ UNCHANGED <<status, docs, others, stop, blocked, pruning, indexing, queue, spent>>

BeatCrash ==
    /\ beat # "idle" /\ Happens("beat_crash")
    /\ beat' = "idle"
    /\ UNCHANGED <<status, docs, others, redis, pruning, indexing, queue>>

Beat ==
    \/ BeatBegin \/ BeatFence \/ BeatCheckAttempt \/ BeatCheckPrune \/ BeatBlocked
    \/ BeatSend \/ BeatReady \/ BeatUnstop \/ BeatMonitor \/ BeatFinish

\* TTLs: the active signal (which only matters under a fence), the stop
\* timeout, the block on validation
ActiveExpires ==
    /\ active /\ fence # "none" /\ active' = FALSE
    /\ UNCHANGED <<status, docs, others, fence, taskset, stop, blocked, pruning, indexing,
                   queue, beat, spent>>
StopTimesOut ==
    /\ stop = "set" /\ stop' = "timed_out"
    /\ UNCHANGED <<status, docs, others, fence, taskset, active, blocked, pruning, indexing,
                   queue, beat, spent>>
BlockExpires ==
    /\ blocked /\ blocked' = FALSE
    /\ UNCHANGED <<status, docs, others, fence, taskset, active, stop, pruning, indexing,
                   queue, beat, spent>>

-----------------------------------------------------------------------------
(***************************************************************************)
(* A cleanup task of deletion or pruning: document_by_cc_pair_cleanup_task *)
(* counts the references and deletes the document or its reference (see    *)
(* DocumentCleanup); postrun takes the task off its taskset.               *)
(***************************************************************************)
\* one of the two cc_pairs references d, so the cleanup deletes the document
CountsOne(d) == (d \in docs) # (d \in others)

RunCleanup ==
    \E t \in queue :
        /\ queue' = queue \ {t}
        /\ taskset' = taskset \ {t.id} /\ pruneTasks' = pruneTasks \ {t.id}
        /\ \/ /\ NothingHappens
              /\ docs' = docs \ {t.doc}
              /\ others' = IF CountsOne(t.doc) THEN others \ {t.doc} ELSE others
           \/ Happens("http_error") /\ UNCHANGED <<docs, others>>  \* changes nothing
        /\ UNCHANGED <<status, fence, active, stop, blocked, prune, pruneActive, complete,
                       pruner, generator, prunes, indexing, beat>>

-----------------------------------------------------------------------------
(***************************************************************************)
(* Pruning: its creation, its generator and its monitoring                 *)
(***************************************************************************)

\* try_creating_prune_generator_task: fences first, then the refreshed status
PruneCheck ==
    /\ pruner = "idle" /\ prunes < MaxPrunes
    /\ prune = "none" /\ fence = "none" /\ status \notin {"DELETING", "GONE"}
    /\ pruner' = "checked" /\ prunes' = prunes + 1
    /\ UNCHANGED <<status, docs, others, redis, prune, pruneTasks, pruneActive, complete,
                   generator, indexing, queue, beat, spent>>

PruneFence ==
    /\ pruner = "checked" /\ pruner' = "fenced"
    /\ prune' = "setup" /\ pruneTasks' = {} /\ pruneActive' = TRUE /\ complete' = FALSE
    /\ UNCHANGED <<status, docs, others, redis, generator, prunes, indexing, queue, beat, spent>>

PruneSend ==
    /\ pruner = "fenced"
    /\ \/ NothingHappens /\ generator' = "queued" /\ pruner' = "sent"
       \/ Happens("prune_send_error") /\ pruner' = "idle" /\ UNCHANGED generator
    /\ UNCHANGED <<status, docs, others, redis, prune, pruneTasks, pruneActive, complete,
                   prunes, indexing, queue, beat>>

\* The celery task id goes into the fence: the fence is written again
PruneName ==
    /\ pruner = "sent" /\ pruner' = "idle"
    /\ prune' = "ready"
    /\ UNCHANGED <<status, docs, others, redis, pruneTasks, pruneActive, complete, generator,
                   prunes, indexing, queue, beat, spent>>

\* The generator waits for the id and writes the fence once more; without a
\* fence it raises, without a cc_pair it returns
GeneratorStart ==
    /\ generator = "queued" /\ prune # "setup"
    /\ generator' = IF prune = "ready" /\ status # "GONE" THEN "running" ELSE "none"
    /\ UNCHANGED <<status, docs, others, redis, prune, pruneTasks, pruneActive, complete,
                   pruner, prunes, indexing, queue, beat, spent>>

\* should_stop, or an exception of the connector: prune.reset()
GeneratorStops ==
    /\ generator = "running" /\ generator' = "none"
    /\ IF stop # "none" THEN NothingHappens ELSE Happens("source_error")
    /\ ResetPrune
    /\ UNCHANGED <<status, docs, others, redis, pruner, prunes, indexing, queue, beat>>

GeneratorEnumerates ==
    /\ generator = "running" /\ generator' = "enumerated"
    /\ UNCHANGED <<status, docs, others, redis, prune, pruneTasks, pruneActive, complete,
                   pruner, prunes, indexing, queue, beat, spent>>

\* The documents the source no longer lists are sent for cleanup
GeneratorSends ==
    /\ generator = "enumerated" /\ generator' = "none"
    /\ IF status = "GONE" THEN UNCHANGED <<queue, pruneTasks, complete>>
       ELSE /\ complete' = TRUE
            /\ \E ds \in SUBSET docs :
                  /\ TaskIds(ds) # {}
                  /\ queue' = queue \union TasksFor(ds)
                  /\ pruneTasks' = pruneTasks \union Ids(TasksFor(ds))
    /\ UNCHANGED <<status, docs, others, redis, prune, pruneActive, pruner, prunes, indexing,
                   beat, spent>>

GeneratorCrash ==
    /\ generator \in {"running", "enumerated"} /\ Happens("generator_crash")
    /\ generator' = "none"
    /\ UNCHANGED <<status, docs, others, redis, prune, pruneTasks, pruneActive, complete,
                   pruner, prunes, indexing, queue, beat>>

\* A generator at work renews the signal
PruneActiveExpires ==
    /\ pruneActive /\ prune # "none" /\ generator \notin {"running", "enumerated"}
    /\ pruneActive' = FALSE
    /\ UNCHANGED <<status, docs, others, redis, prune, pruneTasks, complete, pruner, generator,
                   prunes, indexing, queue, beat, spent>>

\* monitor_ccpair_pruning_taskset; marking a deleted cc_pair as pruned raises
PruneMonitor ==
    /\ prune # "none" /\ complete /\ pruneTasks = {} /\ status # "GONE"
    /\ prune' = "none" /\ complete' = FALSE
    /\ UNCHANGED <<status, docs, others, redis, pruneTasks, pruneActive, pruner, generator,
                   prunes, indexing, queue, beat, spent>>

\* Mutant: a fence whose taskset is gone is left to the monitor
PruneValidatesListed == prune = "ready" /\ pruneTasks # {}
\* validate_pruning_fence: a fence without a task id is left alone
PruneValidates == prune = "ready"

PruneValidate ==
    /\ PruneValidates
    /\ IF generator = "queued" \/ AllQueued(pruneTasks)
       THEN pruneActive' = TRUE /\ UNCHANGED <<prune, pruneTasks, complete>>
       ELSE ~pruneActive /\ ResetPrune
    /\ UNCHANGED <<status, docs, others, redis, pruner, generator, prunes, indexing, queue,
                   beat, spent>>

\* FENCE_TTL, seven days: all that ends a fence without a task id
PruneFenceExpires ==
    /\ prune = "setup" /\ pruner = "idle"
    /\ prune' = "none"
    /\ UNCHANGED <<status, docs, others, redis, pruneTasks, pruneActive, complete, pruner,
                   generator, prunes, indexing, queue, beat, spent>>

Pruner == PruneFence \/ PruneSend \/ PruneName
Generator == GeneratorStart \/ GeneratorStops \/ GeneratorEnumerates \/ GeneratorSends

-----------------------------------------------------------------------------
(***************************************************************************)
(* Indexing, as far as deletion interacts with it                          *)
(***************************************************************************)

\* try_creating_docfetching_task: the refreshed status, then the attempt
AttemptCheck ==
    /\ ~creating /\ creating' = TRUE
    /\ attempts < MaxAttempts /\ attempts' = attempts + 1
    /\ status \in Live /\ attempt \in {"none", "ended"}
    /\ UNCHANGED <<status, docs, others, redis, pruning, attempt, indexer, batches, writing,
                   finalizing, queue, beat, spent>>

AttemptCreate ==
    /\ creating /\ creating' = FALSE
    /\ attempt' = IF status = "GONE" THEN attempt ELSE "NOT_STARTED"
    /\ UNCHANGED <<status, docs, others, redis, pruning, indexer, batches, writing, finalizing,
                   attempts, queue, beat, spent>>

\* _docfetching_task looks at the fences once, when it starts
FetchStart ==
    /\ attempt = "NOT_STARTED" /\ indexer = "none"
    /\ IF fence # "none" \/ stop # "none"
       THEN attempt' = "ended" /\ UNCHANGED indexer
       ELSE indexer' = "starting" /\ UNCHANGED attempt
    /\ UNCHANGED <<status, docs, others, redis, pruning, creating, batches, writing, finalizing,
                   attempts, queue, beat, spent>>

\* transition_attempt_to_in_progress; a canceled or deleted attempt raises
FetchBegin ==
    /\ indexer = "starting"
    /\ IF attempt = "NOT_STARTED"
       THEN attempt' = "IN_PROGRESS" /\ indexer' = "running"
       ELSE indexer' = "none" /\ UNCHANGED attempt
    /\ UNCHANGED <<status, docs, others, redis, pruning, creating, batches, writing, finalizing,
                   attempts, queue, beat, spent>>

\* Before each batch: the stop signal, the status of cc_pair and attempt
MustStop == stop # "none" \/ status \in {"PAUSED", "DELETING", "GONE"} \/ attempt # "IN_PROGRESS"

EndAttempt == attempt' = IF attempt = "IN_PROGRESS" THEN "ended" ELSE attempt

FetchBatch ==
    /\ indexer = "running"
    /\ IF MustStop
       THEN EndAttempt /\ indexer' = "none" /\ UNCHANGED batches
       ELSE /\ batches' \in {batches \union {d} : d \in Docs}
            /\ indexer' \in {"running", "done"} /\ UNCHANGED attempt
    /\ UNCHANGED <<status, docs, others, redis, pruning, creating, writing, finalizing,
                   attempts, queue, beat, spent>>

\* The connector fails validation: canceled, and after enough such attempts
\* the cc_pair is marked INVALID, whatever its status is by now
FetchInvalid ==
    /\ indexer = "running" /\ Happens("invalid")
    /\ EndAttempt /\ indexer' = "none"
    /\ status' = IF status = "GONE" THEN status ELSE "INVALID"
    /\ UNCHANGED <<docs, others, redis, pruning, creating, batches, writing, finalizing,
                   attempts, queue, beat>>

\* The process dies; validation fails the attempt by its heartbeat
FetchCrash ==
    /\ indexer \in {"starting", "running"} /\ Happens("indexer_crash")
    /\ indexer' = "dead"
    /\ UNCHANGED <<status, docs, others, redis, pruning, attempt, creating, batches, writing,
                   finalizing, attempts, queue, beat>>
AttemptFails ==
    /\ indexer = "dead" /\ indexer' = "none"
    /\ attempt' = IF attempt = "none" THEN attempt ELSE "ended"
    /\ UNCHANGED <<status, docs, others, redis, pruning, creating, batches, writing, finalizing,
                   attempts, queue, beat, spent>>

\* docprocessing looks at the attempt and the stop signal, then writes
ProcessCheck ==
    \E d \in batches :
        /\ batches' = batches \ {d}
        /\ writing' = IF stop = "none" /\ attempt = "IN_PROGRESS" THEN writing \union {d}
                      ELSE writing
        /\ UNCHANGED <<status, docs, others, redis, pruning, attempt, creating, indexer,
                       finalizing, attempts, queue, beat, spent>>

\* The reference of a deleted cc_pair fails on its foreign keys
ProcessWrite ==
    \E d \in writing :
        /\ writing' = writing \ {d}
        /\ docs' = IF status = "GONE" THEN docs ELSE docs \union {d}
        /\ UNCHANGED <<status, others, redis, pruning, attempt, creating, indexer, batches,
                       finalizing, attempts, queue, beat, spent>>

\* check_indexing_completion: the attempt ends, and the first success of a
\* cc_pair makes it ACTIVE: its status is read here and written below
FinalizeRead ==
    /\ attempt = "IN_PROGRESS" /\ indexer = "done" /\ batches = {} /\ writing = {}
    /\ attempt' = "ended" /\ indexer' = "none"
    /\ finalizing' = (status = "INITIAL_INDEXING")
    /\ UNCHANGED <<status, docs, others, redis, pruning, creating, batches, writing,
                   attempts, queue, beat, spent>>
FinalizeWrite ==
    /\ finalizing /\ finalizing' = FALSE
    /\ status' = IF status = "GONE" THEN status ELSE "ACTIVE"
    /\ UNCHANGED <<docs, others, redis, pruning, attempt, creating, indexer, batches, writing,
                   attempts, queue, beat, spent>>

Fetch == FetchStart \/ FetchBegin \/ FetchBatch \/ AttemptFails \/ AttemptCreate
Process == ProcessCheck \/ ProcessWrite \/ FinalizeRead \/ FinalizeWrite

Next ==
    \/ RequestDeletion \/ Pause
    \/ Beat \/ BeatCrash \/ ActiveExpires \/ StopTimesOut \/ BlockExpires
    \/ RunCleanup
    \/ PruneCheck \/ Pruner \/ Generator \/ GeneratorCrash
    \/ PruneActiveExpires \/ PruneFenceExpires \/ PruneMonitor \/ PruneValidate
    \/ AttemptCheck \/ Fetch \/ FetchInvalid \/ FetchCrash \/ Process

Spec == Init /\ [][Next]_vars

(***************************************************************************)
(* The beat tasks recur, celery runs queued tasks, processes go on, TTLs   *)
(* run out.  Nothing makes a prune, an attempt, an admin or trouble occur. *)
(***************************************************************************)
FairSpec ==
    /\ Spec
    /\ WF_vars(Beat) /\ WF_vars(BlockExpires) /\ WF_vars(ActiveExpires)
    /\ WF_vars(StopTimesOut) /\ WF_vars(RunCleanup)
    /\ WF_vars(Pruner) /\ WF_vars(Generator)
    /\ WF_vars(PruneActiveExpires) /\ WF_vars(PruneFenceExpires)
    /\ WF_vars(PruneMonitor) /\ WF_vars(PruneValidate)
    /\ WF_vars(Fetch) /\ WF_vars(Process)

-----------------------------------------------------------------------------
(***************************************************************************)
(* Properties                                                              *)
(***************************************************************************)

\* Every variable keeps its type; the beat task holds the fence it has set up
\* until it is blocked, and takes it back then.
TypeOK ==
    /\ status \in Live \union {"PAUSED", "INVALID", "DELETING", "GONE"}
    /\ docs \subseteq Docs /\ others \subseteq Docs
    /\ batches \subseteq Docs /\ writing \subseteq Docs
    /\ attempt \in {"none", "NOT_STARTED", "IN_PROGRESS", "ended"}
    /\ fence \in {"none", "setup", "ready"} /\ prune \in {"none", "setup", "ready"}
    /\ stop \in {"none", "set", "timed_out", "untimed"}
    /\ Ids(queue) \union taskset \union pruneTasks \subseteq 1..MaxTasks
    /\ {active, blocked, pruneActive, complete, creating, finalizing} \subseteq BOOLEAN
    /\ indexer \in {"none", "starting", "running", "done", "dead"}
    /\ generator \in {"none", "queued", "running", "enumerated"}
    /\ pruner \in {"idle", "checked", "fenced", "sent"}
    /\ beat \in {"idle", "fence", "attempt", "prune", "blocked", "send", "ready", "unstop",
                 "monitor", "finish"}
    /\ beat \in {"attempt", "prune", "send", "ready"} => fence = "setup"
    /\ beat = "blocked" => fence = "none"

\* A deletion once requested is carried out, whatever it has to wait for, stop
\* or reset on its way and whichever of its own steps are lost, unless the
\* cc_pair is taken out of DELETING (see DeletingIsFinal).
DeletionCompletes == status = "DELETING" ~> status # "DELETING"

\* A deleted cc_pair leaves no fence behind for long: neither its own nor one
\* of a pruning that it overtook.
FencesRemoved == status = "GONE" ~> (fence = "none" /\ prune = "none")

\* "clear the stop signal if it exists" (connector_deletion/tasks.py:225): the
\* loop over cc_pairs that clears stop signals no longer meets a deleted
\* cc_pair, so the signal that its deletion has set is cleared by then.
NoStopForGone == status = "GONE" => stop \notin {"set", "timed_out"}

\* "NOTE: CC pairs can never go from DELETING to any other state -> it's safe
\* to ignore them" (db/document.py:644): what reads rely on.
DeletingIsFinal ==
    [][status = "DELETING" => status' \in {"DELETING", "GONE"}]_vars

\* "find all documents associated with connector / credential pair where this
\* ... is the only connector / credential pair that has indexed it; delete all
\* documents from document stores" (shared/tasks.py:88): the documents of the
\* other cc_pair stay.
OthersKept == [][others \subseteq others']_vars
=============================================================================
