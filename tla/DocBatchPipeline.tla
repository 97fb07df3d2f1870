--------------------------- MODULE DocBatchPipeline ---------------------------
(***************************************************************************)
(* One connector/credential pair (cc_pair) being indexed over one poll     *)
(* window by a succession of IndexAttempts.                                *)
(*                                                                         *)
(* A docfetching process reads the source, writes each batch of documents  *)
(* to the file store under iab/<cc_pair>/<attempt>/<num>.json and sends a  *)
(* docprocessing task for it; docprocessing workers load, index, count and *)
(* delete batches; the beat task check_for_indexing creates attempts,      *)
(* fails the ones whose heartbeat stopped and finalizes the ones whose     *)
(* batches are all counted.  An attempt that fails is followed by another  *)
(* one, which resumes from the last checkpoint and reissues the batches    *)
(* left in the file store.                                                 *)
(*                                                                         *)
(* The source is a sequence of NumItems batches.  Position p of it is a    *)
(* checkpoint when p \in PassEnds: one run of the connector yields the     *)
(* batches up to the next member of PassEnds and then its checkpoint.      *)
(* What goes wrong in a behaviour is limited to the kinds in Events, at    *)
(* most MaxEvents times in all.                                            *)
(***************************************************************************)
EXTENDS Integers, FiniteSets

CONSTANTS
    NumItems,               \* batches of documents the source holds
    PassEnds,               \* positions at which the connector checkpoints
    Settings,               \* search settings indexed for (present, future)
    MaxAttempts,            \* bound: attempts created in a behaviour
    MaxBatchNum,            \* bound: batch numbers used by an attempt
    Workers,                \* docprocessing worker threads
    CheckpointedConnector,  \* is the connector a CheckpointedConnector?
    PERSISTENT_INDEXING,    \* the configuration flag of the same name
    Events,                 \* the kinds of trouble a behaviour may contain
    MaxEvents               \* bound: how many of them

EventKinds ==
    {"connector_error", "setup_error", "kill", "pause", "cancel", "spawn_error",
     "worker_crash", "late_crash", "batch_error", "late_error", "doc_failure",
     "usage_limit", "memory_limit", "reindex", "lost_checkpoint", "monitor_error",
     "overlap", "early_delivery"}

ASSUME ConstantsAssumption ==
    /\ NumItems \in Nat \ {0}
    /\ PassEnds \subseteq 1..NumItems /\ NumItems \in PassEnds
    /\ Settings # {}
    /\ MaxAttempts \in Nat \ {0} /\ MaxBatchNum \in Nat \ {0}
    /\ CheckpointedConnector \in BOOLEAN /\ PERSISTENT_INDEXING \in BOOLEAN
    /\ Events \subseteq EventKinds /\ MaxEvents \in Nat

Items == 1..NumItems
Attempts == 1..MaxAttempts
BatchNums == 0..MaxBatchNum

None == -1        \* Python's None where a count or a position is stored
NoItem == 0       \* no file under this name
NoWindow == 0     \* poll_range_end not set

Active == {"NOT_STARTED", "IN_PROGRESS"}
Successful == {"SUCCESS", "COMPLETED_WITH_ERRORS"}
Unsuccessful == {"FAILED", "CANCELED"}
Statuses == Active \union Successful \union Unsuccessful
Terminal == Successful \union Unsuccessful

VARIABLES
    \* The rows of index_attempt
    status,       \* IndexingStatus, or "absent" before the row exists
    settings,     \* search_settings_id
    reindex,      \* from_beginning
    window,       \* poll_range_end
    checkpoint,   \* position in the file checkpoint_pointer names, or None
    total,        \* total_batches, or None
    completed,    \* completed_batches
    cancel,       \* cancellation_requested
    updated,      \* the rank of time_updated: 0 before the row exists, then 1, 2, ...
    \* Other shared state
    errors,       \* index_attempt_error: <<attempt, item>>
    store,        \* the file store: store[a][n] is the item in iab/../a/n.json
    queue,        \* docprocessing tasks in the broker, as counts
    leaked,       \* attempts whose in_flight counter a crash left above zero
    indexed,      \* <<search settings, item>> written to the document index
    \* Processes
    fetcher,      \* the docfetching process of each attempt
    worker,       \* the docprocessing worker threads
    monitor,      \* check_for_indexing, under its beat lock
    spent         \* how many Events have happened

rowVars == <<status, settings, reindex, window, checkpoint, total, completed,
             cancel, updated>>
vars == <<rowVars, errors, store, queue, leaked, indexed, fetcher, worker, monitor, spent>>

-----------------------------------------------------------------------------
(***************************************************************************)
(* Helpers                                                                 *)
(***************************************************************************)

Rows == {b \in Attempts : status[b] # "absent"}

\* onupdate=func.now(): every write to a row makes it the last updated one
Touch(a) ==
    updated' = [b \in Attempts |->
        IF b = a THEN Cardinality(Rows \union {a})
        ELSE IF 0 < updated[a] /\ updated[a] < updated[b] THEN updated[b] - 1
        ELSE updated[b]]
LastUpdated(S) ==
    LET last == {b \in S : \A c \in S : updated[c] <= updated[b]}
    IN  IF last = {} THEN 0 ELSE CHOOSE b \in last : TRUE

\* get_recent_completed_attempts_for_cc_pair, the first of them
MostRecent(s) == LastUpdated({b \in Attempts : settings[b] = s /\ status[b] \in Terminal})

SetFetcher(a, rec) == fetcher' = [fetcher EXCEPT ![a] = rec]
GoTo(a, pc) == SetFetcher(a, [fetcher[a] EXCEPT !.pc = pc])
SetWorker(w, rec) == worker' = [worker EXCEPT ![w] = rec]

Live(a) == fetcher[a].pc \notin {"none", "exited"}
Running(a) == fetcher[a].pc \notin {"none", "queued", "exited"}
InSetup(a) == fetcher[a].pc \in {"verified", "window", "connector", "reissue", "assign", "initial"}
BusyOn(w, a) == worker[w].pc # "idle" /\ worker[w].att = a
Files == {f \in Attempts \X BatchNums : store[f[1]][f[2]] # NoItem}
EmptyStore == [a \in Attempts |-> [n \in BatchNums |-> NoItem]]

Happens(kind) == kind \in Events /\ spent < MaxEvents /\ spent' = spent + 1
NothingHappens == UNCHANGED spent

\* mark_attempt_succeeded / partially_succeeded / canceled / failed: the row is
\* locked and the status overwritten, whatever it was
Mark(a, st) == status' = [status EXCEPT ![a] = st] /\ Touch(a)

IdleWorker == [pc |-> "idle", att |-> 0, num |-> 0, item |-> NoItem, failed |-> FALSE]
IdleMonitor == [pc |-> "idle", att |-> 0, failures |-> FALSE]
NewFetcher == [pc |-> "none", afresh |-> FALSE, prevEnded |-> FALSE, recent |-> 0,
               base |-> 0, pos |-> 0, num |-> 0]

Init ==
    /\ status = [a \in Attempts |-> "absent"]
    /\ settings = [a \in Attempts |-> CHOOSE s \in Settings : TRUE]
    /\ reindex = [a \in Attempts |-> FALSE]
    /\ window = [a \in Attempts |-> NoWindow]
    /\ checkpoint = [a \in Attempts |-> None]
    /\ total = [a \in Attempts |-> None]
    /\ completed = [a \in Attempts |-> 0]
    /\ cancel = [a \in Attempts |-> FALSE]
    /\ updated = [a \in Attempts |-> 0]
    /\ errors = {} /\ indexed = {} /\ leaked = {}
    /\ store = EmptyStore
    /\ queue = [a \in Attempts |-> [n \in BatchNums |-> 0]]
    /\ fetcher = [a \in Attempts |-> NewFetcher]
    /\ worker = [w \in Workers |-> IdleWorker]
    /\ monitor = IdleMonitor
    /\ spent = 0

-----------------------------------------------------------------------------
(***************************************************************************)
(* check_for_indexing, step 1: kickoff.  try_creating_docfetching_task     *)
(* inserts a NOT_STARTED row and sends the docfetching task.  A setting    *)
(* whose window has been indexed gets no further attempt here: the model   *)
(* covers one poll window.  Without "overlap" the processes of the earlier *)
(* attempts have ended when the next one is created.                       *)
(***************************************************************************)
Drained(s) ==
    \A b \in Attempts : settings[b] = s => /\ ~Live(b)
                                           /\ \A w \in Workers : ~BusyOn(w, b)

\* No attempt for s is waiting, running or successful
NoneInProgress(s) ==    \* mutant: it misses the attempts still waiting to start
    \A b \in Attempts : settings[b] = s => status[b] \notin {"IN_PROGRESS"} \union Successful
Unclaimed(s) ==
    \A b \in Attempts : settings[b] = s => status[b] \notin Active \union Successful

CreateAttempt(s) ==
    /\ monitor.pc = "idle"
    /\ Unclaimed(s)
    /\ "overlap" \in Events \/ Drained(s)
    /\ \E a \in Attempts, fromBeginning \in BOOLEAN :
        /\ status[a] = "absent" /\ \A b \in 1..(a - 1) : status[b] # "absent"
        /\ IF fromBeginning THEN Happens("reindex") ELSE NothingHappens
        /\ status' = [status EXCEPT ![a] = "NOT_STARTED"]
        /\ settings' = [settings EXCEPT ![a] = s]
        /\ reindex' = [reindex EXCEPT ![a] = fromBeginning]
        /\ GoTo(a, "queued")
        /\ Touch(a)
    /\ UNCHANGED <<window, checkpoint, total, completed, cancel, errors, store,
                   queue, leaked, indexed, worker, monitor>>

\* IndexingCoordination.request_cancellation
RequestCancellation(a) ==
    /\ status[a] \in Active /\ ~cancel[a]
    /\ Happens("cancel")
    /\ cancel' = [cancel EXCEPT ![a] = TRUE] /\ Touch(a)
    /\ UNCHANGED <<status, settings, reindex, window, checkpoint, total, completed,
                   errors, store, queue, leaked, indexed, fetcher, worker, monitor>>

-----------------------------------------------------------------------------
(***************************************************************************)
(* The docfetching process of attempt a                                    *)
(***************************************************************************)
FetcherAt(a, pc) == fetcher[a].pc = pc
Exit(a) == SetFetcher(a, [NewFetcher EXCEPT !.pc = "exited"])

\* The exception leaves the process and the watchdog marks the attempt
\* failed unless it is already terminal
ExitFailing(a) ==
    /\ Exit(a)
    /\ IF status[a] \in Terminal THEN UNCHANGED <<status, updated>>
                                 ELSE Mark(a, "FAILED")

\* _verify_indexing_attempt: the attempt has not ended and is not to be canceled
Startable(a) == status[a] \in Active /\ ~cancel[a]

VerifyAttempt(a) ==
    /\ FetcherAt(a, "queued")
    /\ IF Startable(a) THEN GoTo(a, "verified") /\ UNCHANGED <<status, updated>>
                       ELSE ExitFailing(a)
    /\ UNCHANGED <<settings, reindex, window, checkpoint, total, completed, cancel,
                   errors, store, queue, leaked, indexed, worker, monitor, spent>>

\* transition_attempt_to_in_progress looks again, with the row locked
MayStartOnceVerified(a) == TRUE    \* mutant: it does not look again
MayStart(a) == status[a] = "NOT_STARTED"

StartFetching(a) ==
    /\ FetcherAt(a, "verified")
    /\ IF MayStart(a)
         THEN Mark(a, "IN_PROGRESS") /\ GoTo(a, "window")
         ELSE ExitFailing(a)
    /\ UNCHANGED <<settings, reindex, window, checkpoint, total, completed, cancel,
                   errors, store, queue, leaked, indexed, worker, monitor, spent>>

\* The poll window: the previous attempt's when that one failed or was
\* canceled, otherwise one that ends now.  The previous attempt's row is read
\* here and stays as it was read in the session.
SetPollWindow(a) ==
    /\ FetcherAt(a, "window")
    /\ LET prev == MostRecent(settings[a])
           reuse == prev # 0 /\ status[prev] \in Unsuccessful /\ window[prev] # NoWindow
       IN  /\ window' = [window EXCEPT ![a] = IF reuse THEN window[prev] ELSE a]
           /\ SetFetcher(a, [fetcher[a] EXCEPT
                !.pc = "connector",
                !.afresh = reindex[a] \/ (prev # 0 /\ status[prev] \in Successful),
                !.prevEnded = prev # 0 /\ total[prev] # None,
                !.recent = IF prev = 0 THEN 0 ELSE completed[prev]])
    /\ Touch(a)
    /\ UNCHANGED <<status, settings, reindex, checkpoint, total, completed, cancel,
                   errors, store, queue, leaked, indexed, worker, monitor, spent>>

\* get_latest_valid_checkpoint
CheckpointCandidates(a) ==
    {b \in Attempts : /\ settings[b] = settings[a]
                      /\ status[b] \in Unsuccessful
                      /\ window[b] = window[a]
                      /\ checkpoint[b] # None}
LatestCheckpoint(a) ==
    LET source == LastUpdated(CheckpointCandidates(a))
    IN  IF fetcher[a].afresh \/ source = 0 THEN 0 ELSE checkpoint[source]

\* Mutant: a CheckpointedConnector is not told apart
ReusesFinishedOnly(a) ==
    ~fetcher[a].afresh /\ fetcher[a].prevEnded /\ LatestCheckpoint(a) = NumItems

\* Does attempt a keep the batches it finds in the file store?
ReusesOldBatches(a) ==
    /\ ~fetcher[a].afresh
    /\ \/ CheckpointedConnector /\ CheckpointCandidates(a) # {}
       \/ fetcher[a].prevEnded /\ LatestCheckpoint(a) = NumItems

\* The connector is built, the checkpoint loaded, and the old batches are
\* either kept or, for every attempt of the cc_pair, thrown away.  A checkpoint
\* that cannot be loaded counts as none.
StartAtLatest(a, readable) == LatestCheckpoint(a)    \* mutant: not the dummy checkpoint
StartPosition(a, readable) == IF readable THEN LatestCheckpoint(a) ELSE 0

LoadCheckpoint(a) ==
    /\ FetcherAt(a, "connector")
    /\ \E readable \in BOOLEAN :
        LET keep == readable /\ ReusesOldBatches(a)
            from == StartPosition(a, readable)
        IN  /\ IF readable THEN NothingHappens ELSE Happens("lost_checkpoint")
            /\ SetFetcher(a, [fetcher[a] EXCEPT !.pc = IF keep THEN "reissue" ELSE "initial",
                                                !.base = from, !.pos = from])
            /\ store' = IF keep THEN store ELSE EmptyStore
    /\ UNCHANGED <<rowVars, errors, queue, leaked, indexed, worker, monitor>>

NumberOfFiles(a) == Cardinality(Files)    \* mutant: completed batches are forgotten
NextBatchNum(a) == Cardinality(Files) + fetcher[a].recent

\* reissue_old_batches: every file of the cc_pair is renamed to attempt a,
\* keeping its number, and a task is sent for it
ReissueOldBatches(a) ==
    /\ FetcherAt(a, "reissue")
    /\ \E pick \in [{f[2] : f \in Files} -> Attempts] :
        /\ \A n \in DOMAIN pick : <<pick[n], n>> \in Files
        /\ store' = [EmptyStore EXCEPT ![a] =
                [n \in BatchNums |-> IF n \in DOMAIN pick THEN store[pick[n]][n] ELSE NoItem]]
    /\ queue' = [queue EXCEPT ![a] =
            [n \in BatchNums |-> @[n] + Cardinality({f \in Files : f[2] = n})]]
    /\ SetFetcher(a, [fetcher[a] EXCEPT !.pc = "assign", !.num = NextBatchNum(a)])
    /\ UNCHANGED <<rowVars, errors, indexed, worker, monitor, leaked, spent>>

\* index_attempt.completed_batches = completed_batches: an UPDATE is only
\* written when the value differs from the 0 that was read
CarryOverCompleted(a) ==
    /\ FetcherAt(a, "assign")
    /\ IF fetcher[a].recent = 0
         THEN UNCHANGED <<completed, updated>>
         ELSE completed' = [completed EXCEPT ![a] = fetcher[a].recent] /\ Touch(a)
    /\ GoTo(a, "initial")
    /\ UNCHANGED <<status, settings, reindex, window, checkpoint, total, cancel,
                   errors, store, queue, leaked, indexed, worker, monitor, spent>>

\* save_checkpoint, before the loop and at the end of every connector run.  The
\* pointer is the same each time, so that only the first save updates the row.
SaveCheckpoint(a) ==
    /\ FetcherAt(a, "initial") \/ FetcherAt(a, "save")
    /\ checkpoint' = [checkpoint EXCEPT ![a] = fetcher[a].pos]
    /\ IF checkpoint[a] = None THEN Touch(a) ELSE UNCHANGED updated
    /\ SetFetcher(a, [fetcher[a] EXCEPT !.pc = "loop", !.base = fetcher[a].pos])
    /\ UNCHANGED <<status, settings, reindex, window, total, completed, cancel,
                   errors, store, queue, leaked, indexed, worker, monitor, spent>>

\* checkpoint.has_more is false: the last run's checkpoint has been saved
Exhausted(a) == fetcher[a].pos = NumItems /\ fetcher[a].base = NumItems
RunEndedEarly(a) ==    \* mutant: the connector never yields its last checkpoint
    fetcher[a].pos \in PassEnds \ {NumItems} /\ fetcher[a].base # fetcher[a].pos
RunEnded(a) == fetcher[a].pos \in PassEnds /\ fetcher[a].base # fetcher[a].pos

\* The connector yields a batch, or the checkpoint that ends its run.  First
\* check that the attempt still runs ...
CheckStatus(a) ==
    /\ FetcherAt(a, "loop") /\ ~Exhausted(a)
    /\ IF status[a] = "IN_PROGRESS"
         THEN GoTo(a, IF RunEnded(a) THEN "save" ELSE "store") /\ UNCHANGED <<status, updated>>
         ELSE /\ Exit(a)
              /\ IF status[a] = "FAILED" THEN UNCHANGED <<status, updated>>
                 ELSE Mark(a, IF status[a] = "CANCELED" THEN "CANCELED" ELSE "FAILED")
    /\ UNCHANGED <<settings, reindex, window, checkpoint, total, completed, cancel,
                   errors, store, queue, leaked, indexed, worker, monitor, spent>>

\* ... write the file, replacing any under the same name ...
StoreBatch(a) ==
    /\ FetcherAt(a, "store") /\ fetcher[a].num \in BatchNums
    /\ store' = [store EXCEPT ![a][fetcher[a].num] = fetcher[a].pos + 1]
    /\ GoTo(a, "send")
    /\ UNCHANGED <<rowVars, errors, queue, leaked, indexed, worker, monitor, spent>>

\* ... and send its task
SendTask(a) ==
    /\ FetcherAt(a, "send")
    /\ queue' = [queue EXCEPT ![a][fetcher[a].num] = @ + 1]
    /\ SetFetcher(a, [fetcher[a] EXCEPT !.pc = "loop", !.pos = @ + 1, !.num = @ + 1])
    /\ UNCHANGED <<rowVars, errors, store, indexed, worker, monitor, leaked, spent>>

\* IndexingCoordination.set_total_batches, after the loop
SetTotalBatches(a) ==
    /\ FetcherAt(a, "loop") /\ Exhausted(a)
    /\ total' = [total EXCEPT ![a] = fetcher[a].num]
    /\ Touch(a) /\ Exit(a)
    /\ UNCHANGED <<status, settings, reindex, window, checkpoint, completed, cancel,
                   errors, store, queue, leaked, indexed, worker, monitor, spent>>

\* An exception before the extraction loop's try block
FailSetup(a) ==
    /\ InSetup(a)
    /\ Happens("setup_error") /\ ExitFailing(a)
    /\ UNCHANGED <<settings, reindex, window, checkpoint, total, completed, cancel,
                   errors, store, queue, leaked, indexed, worker, monitor>>

\* An exception inside it: the attempt is failed unless failed or canceled
FailExtraction(a) ==
    /\ fetcher[a].pc \in {"loop", "store", "send", "save"}
    /\ Happens("connector_error") /\ Exit(a)
    /\ IF status[a] \in Unsuccessful THEN UNCHANGED <<status, updated>>
                                     ELSE Mark(a, "FAILED")
    /\ UNCHANGED <<settings, reindex, window, checkpoint, total, completed, cancel,
                   errors, store, queue, leaked, indexed, worker, monitor>>

\* ConnectorStopSignal: the cc_pair was paused or is being deleted
StopExtraction(a) ==
    /\ FetcherAt(a, "loop") /\ ~Exhausted(a)
    /\ Happens("pause") /\ Mark(a, "CANCELED") /\ Exit(a)
    /\ UNCHANGED <<settings, reindex, window, checkpoint, total, completed, cancel,
                   errors, store, queue, leaked, indexed, worker, monitor>>

\* The pod dies with its watchdog, or (no event) the watchdog terminates the
\* process because the attempt became terminal.  Without "setup_error" neither
\* interrupts the setup of an attempt.
KillFetcher(a) ==
    /\ Running(a) /\ (InSetup(a) => "setup_error" \in Events)
    /\ \/ status[a] \in Terminal /\ NothingHappens
       \/ Happens("kill")
    /\ Exit(a)
    /\ UNCHANGED <<rowVars, errors, store, queue, leaked, indexed, worker, monitor>>

\* The process outgrows the memory limit: its watchdog fails the attempt, whatever
\* its status, before it terminates the process
ExceedMemoryLimit(a) ==
    /\ Running(a) /\ (InSetup(a) => "setup_error" \in Events)
    /\ Happens("memory_limit") /\ Mark(a, "FAILED")
    /\ UNCHANGED <<settings, reindex, window, checkpoint, total, completed, cancel,
                   errors, store, queue, leaked, indexed, fetcher, worker, monitor>>

\* The docfetching task is not sent (its creator fails the attempt), is lost, or
\* its watchdog cannot spawn the process (nobody does)
FailSpawn(a) ==
    /\ FetcherAt(a, "queued") /\ Happens("spawn_error") /\ Exit(a)
    /\ Mark(a, "FAILED") \/ UNCHANGED <<status, updated>>
    /\ UNCHANGED <<settings, reindex, window, checkpoint, total, completed, cancel,
                    errors, store, queue, leaked, indexed, worker, monitor>>

Fetch(a) == \/ VerifyAttempt(a) \/ StartFetching(a) \/ SetPollWindow(a) \/ LoadCheckpoint(a)
            \/ ReissueOldBatches(a) \/ CarryOverCompleted(a) \/ SaveCheckpoint(a)
            \/ CheckStatus(a) \/ StoreBatch(a) \/ SendTask(a) \/ SetTotalBatches(a)

FetchTrouble(a) == \/ FailSetup(a) \/ FailExtraction(a) \/ StopExtraction(a)
                   \/ KillFetcher(a) \/ FailSpawn(a)

-----------------------------------------------------------------------------
(***************************************************************************)
(* The docprocessing workers.  Tasks are acknowledged late: the one a      *)
(* worker held when it died is delivered again.                            *)
(***************************************************************************)
WAtt(w) == worker[w].att
Batch(w) == <<WAtt(w), worker[w].item>>

\* update_batch_completion_and_docs: under the row lock, whatever the status
CountBatch(a) == completed' = [completed EXCEPT ![a] = @ + 1] /\ Touch(a)

\* An exception leaves the task: the batch file stays.  Persistent indexing
\* records the failure and counts the batch.
TaskFailsSilently(a, item) ==    \* mutant: no error row, and always counted
    CountBatch(a) /\ UNCHANGED errors
TaskFails(a, item) ==
    IF PERSISTENT_INDEXING
      THEN errors' = errors \union {<<a, item>>} /\ CountBatch(a)
      ELSE UNCHANGED <<errors, completed, updated>>

\* A task is delivered.  A missing file ends it, a terminal attempt fails it.
\* Without "early_delivery" no reissued task is delivered before its attempt
\* has carried over the count of its predecessor.
LoadBatch(w, a, n) ==
    /\ worker[w].pc = "idle" /\ queue[a][n] > 0
    /\ FetcherAt(a, "assign") => "early_delivery" \in Events
    /\ queue' = [queue EXCEPT ![a][n] = @ - 1]
    /\ LET item == store[a][n]
           stopped == item = NoItem \/ status[a] \in Terminal
       IN  /\ IF stopped THEN UNCHANGED worker
              ELSE SetWorker(w, [pc |-> "loaded", att |-> a, num |-> n, item |-> item,
                           failed |-> FALSE])
           /\ IF stopped /\ item # NoItem THEN TaskFails(a, item)
                                          ELSE UNCHANGED <<errors, completed, updated>>
    /\ UNCHANGED <<status, settings, reindex, window, checkpoint, total, cancel,
                   store, indexed, fetcher, monitor, leaked, spent>>

\* The tenant is over its chunk usage limit: the attempt is failed, whatever
\* its status
RefuseBatch(w, a, n) ==
    /\ worker[w].pc = "idle" /\ queue[a][n] > 0
    /\ Happens("usage_limit")
    /\ queue' = [queue EXCEPT ![a][n] = @ - 1]
    /\ Mark(a, "FAILED")
    /\ UNCHANGED <<settings, reindex, window, checkpoint, total, completed, cancel,
                   errors, store, indexed, fetcher, worker, leaked, monitor>>

\* run_indexing_pipeline writes the batch to the index, or reports failures
\* for documents of it
IndexBatch(w) ==
    /\ worker[w].pc = "loaded"
    /\ \E bad \in BOOLEAN :
        /\ IF bad THEN Happens("doc_failure") ELSE NothingHappens
        /\ indexed' = IF bad THEN indexed
                      ELSE indexed \union {<<settings[WAtt(w)], worker[w].item>>}
        /\ SetWorker(w, [worker[w] EXCEPT !.pc = "indexed", !.failed = bad])
    /\ UNCHANGED <<rowVars, errors, store, queue, leaked, fetcher, monitor>>

\* The pipeline raises
FailBatch(w) ==
    /\ worker[w].pc = "loaded" /\ Happens("batch_error")
    /\ TaskFails(WAtt(w), worker[w].item) /\ SetWorker(w, IdleWorker)
    /\ UNCHANGED <<status, settings, reindex, window, checkpoint, total, cancel,
                   store, queue, leaked, indexed, fetcher, monitor>>

\* The completion is committed first ...
CompleteBatch(w) ==
    /\ worker[w].pc = "indexed"
    /\ CountBatch(WAtt(w)) /\ SetWorker(w, [worker[w] EXCEPT !.pc = "counted"])
    /\ UNCHANGED <<status, settings, reindex, window, checkpoint, total, cancel,
                   errors, store, queue, leaked, indexed, fetcher, monitor, spent>>

NoFailures(w) == {}    \* mutant
FailuresOf(w) == IF worker[w].failed THEN {Batch(w)} ELSE {}

\* ... then the failures are recorded and the file is deleted ...
FinishBatch(w) ==
    /\ worker[w].pc = "counted"
    /\ errors' = errors \union FailuresOf(w)
    /\ store' = [store EXCEPT ![WAtt(w)][worker[w].num] = NoItem]
    /\ SetWorker(w, IdleWorker)
    /\ UNCHANGED <<rowVars, queue, leaked, indexed, fetcher, monitor, spent>>

\* ... unless recording, the failure threshold or the deletion raises
FailFinishing(w) ==
    /\ worker[w].pc = "counted" /\ Happens("late_error")
    /\ TaskFails(WAtt(w), worker[w].item) /\ SetWorker(w, IdleWorker)
    /\ UNCHANGED <<status, settings, reindex, window, checkpoint, total, cancel,
                   store, queue, leaked, indexed, fetcher, monitor>>

\* The worker dies and the broker delivers its task again
CrashWorker(w) ==
    /\ worker[w].pc # "idle"
    /\ Happens(IF worker[w].pc = "counted" THEN "late_crash" ELSE "worker_crash")
    /\ queue' = [queue EXCEPT ![WAtt(w)][worker[w].num] = @ + 1]
    /\ leaked' = leaked \union {WAtt(w)} /\ SetWorker(w, IdleWorker)
    /\ UNCHANGED <<rowVars, errors, store, indexed, fetcher, monitor>>

Process(w) == \/ \E a \in Attempts, n \in BatchNums : LoadBatch(w, a, n)
              \/ IndexBatch(w) \/ CompleteBatch(w) \/ FinishBatch(w)

ProcessTrouble(w) == \/ \E a \in Attempts, n \in BatchNums : RefuseBatch(w, a, n)
                     \/ FailBatch(w) \/ FailFinishing(w) \/ CrashWorker(w)

\* start_heartbeat: every process of an attempt keeps updating its row
Heartbeat(a) ==
    /\ \/ Running(a)
       \/ \E w \in Workers : BusyOn(w, a)
    /\ Touch(a)
    /\ UNCHANGED <<status, settings, reindex, window, checkpoint, total, completed, cancel,
                   errors, store, queue, leaked, indexed, fetcher, worker, monitor, spent>>

-----------------------------------------------------------------------------
(***************************************************************************)
(* check_for_indexing, steps 2 and 3: validation and finalization          *)
(***************************************************************************)

\* validate_active_indexing_attempts: nobody increments the heartbeat of a and,
\* once docfetching has finished, no batch of it waits in the queue or a crashed
\* worker left the in_flight counter above zero (AttemptValidation has the detail)
Silent(a) == ~Live(a) /\ \A w \in Workers : ~BusyOn(w, a)
StalledFetching(a) == Silent(a) /\ total[a] = None    \* mutant: only before total_batches
Stalled(a) ==
    /\ Silent(a)
    /\ total[a] # None => a \in leaked \/ \A n \in BatchNums : queue[a][n] = 0

HeartbeatTimeout(a) ==
    /\ monitor.pc = "idle" /\ status[a] = "IN_PROGRESS" /\ Stalled(a)
    /\ Mark(a, "FAILED")
    /\ UNCHANGED <<settings, reindex, window, checkpoint, total, completed, cancel,
                   errors, store, queue, leaked, indexed, fetcher, worker, monitor, spent>>

\* The docfetching task of a NOT_STARTED attempt no longer exists
FailNeverStarted(a) ==
    /\ monitor.pc = "idle" /\ status[a] = "NOT_STARTED" /\ FetcherAt(a, "exited")
    /\ Mark(a, "FAILED")
    /\ UNCHANGED <<settings, reindex, window, checkpoint, total, completed, cancel,
                   errors, store, queue, leaked, indexed, fetcher, worker, monitor, spent>>

\* monitor_indexing_attempt_progress: a requested cancellation is carried out
CancelAttempt(a) ==
    /\ monitor.pc = "idle" /\ status[a] \in Active /\ cancel[a]
    /\ Mark(a, "CANCELED")
    /\ UNCHANGED <<settings, reindex, window, checkpoint, total, completed, cancel,
                   errors, store, queue, leaked, indexed, fetcher, worker, monitor, spent>>

\* check_indexing_completion: get_coordination_status is read ...
CompletedButOne(a) == total[a] # None /\ completed[a] >= total[a] - 1    \* mutant
CompletedOfNone(a) == completed[a] >= total[a]    \* mutant: None compares as the least
IndexingCompleted(a) == total[a] # None /\ completed[a] >= total[a]

ReadCompletion(a) ==
    /\ monitor.pc = "idle" /\ status[a] \in Active /\ ~cancel[a]
    /\ IndexingCompleted(a)
    /\ monitor' = [pc |-> "mark", att |-> a, failures |-> \E i \in Items : <<a, i>> \in errors]
    /\ UNCHANGED <<rowVars, errors, store, queue, leaked, indexed, fetcher, worker, spent>>

\* ... the attempt is finished as that snapshot says ...
MarkCompletion ==
    /\ monitor.pc = "mark"
    /\ Mark(monitor.att, IF monitor.failures THEN "COMPLETED_WITH_ERRORS" ELSE "SUCCESS")
    /\ monitor' = [monitor EXCEPT !.pc = "cleanup"]
    /\ UNCHANGED <<settings, reindex, window, checkpoint, total, completed, cancel,
                   errors, store, queue, leaked, indexed, fetcher, worker, spent>>

\* ... and storage.cleanup_all_batches removes the files of the cc_pair
CleanUpBatches ==
    /\ monitor.pc = "cleanup"
    /\ store' = EmptyStore
    /\ monitor' = IdleMonitor
    /\ UNCHANGED <<rowVars, errors, queue, leaked, indexed, fetcher, worker, spent>>

\* An exception before or after the commit: the attempt is failed whatever its
\* status, and the files are removed all the same
FailMonitoring ==
    /\ monitor.pc \in {"mark", "cleanup"} /\ Happens("monitor_error")
    /\ Mark(monitor.att, "FAILED")
    /\ monitor' = [monitor EXCEPT !.pc = "cleanup"]
    /\ UNCHANGED <<settings, reindex, window, checkpoint, total, completed, cancel,
                   errors, store, queue, leaked, indexed, fetcher, worker>>

Finalize == (\E a \in Attempts : ReadCompletion(a)) \/ MarkCompletion \/ CleanUpBatches

-----------------------------------------------------------------------------
\* Only without an attempt to work on may the system stop
Finished ==
    /\ \A a \in Attempts : status[a] \notin Active
    /\ UNCHANGED vars

Next ==
    \/ \E s \in Settings : CreateAttempt(s)
    \/ \E a \in Attempts :
        \/ Fetch(a) \/ FetchTrouble(a) \/ RequestCancellation(a) \/ Heartbeat(a)
        \/ ExceedMemoryLimit(a) \/ HeartbeatTimeout(a) \/ FailNeverStarted(a)
        \/ CancelAttempt(a)
    \/ \E w \in Workers : Process(w) \/ ProcessTrouble(w)
    \/ Finalize \/ FailMonitoring
    \/ Finished

Spec == Init /\ [][Next]_vars

\* Processes take their next step, and beat keeps running check_for_indexing;
\* nothing that goes wrong is fair
Fairness ==
    /\ \A a \in Attempts : /\ WF_vars(Fetch(a))
                            /\ WF_vars(HeartbeatTimeout(a))
                            /\ WF_vars(FailNeverStarted(a))
                            /\ WF_vars(CancelAttempt(a))
    /\ \A w \in Workers : WF_vars(Process(w))
    /\ WF_vars(Finalize)

FairSpec == Spec /\ Fairness

-----------------------------------------------------------------------------
(***************************************************************************)
(* Properties                                                              *)
(***************************************************************************)
FetcherType ==
    [pc : {"none", "queued", "verified", "window", "connector", "reissue", "assign", "initial",
           "loop", "store", "send", "save", "exited"},
     afresh : BOOLEAN, prevEnded : BOOLEAN, recent : Nat,
     base : {0} \union Items, pos : {0} \union Items, num : Nat]
WorkerType ==
    [pc : {"idle", "loaded", "indexed", "counted"}, att : Attempts \union {0},
     num : BatchNums, item : Items \union {NoItem}, failed : BOOLEAN]

RowsOK ==
    /\ status \in [Attempts -> Statuses \union {"absent"}]
    /\ settings \in [Attempts -> Settings]
    /\ reindex \in [Attempts -> BOOLEAN] /\ cancel \in [Attempts -> BOOLEAN]
    /\ window \in [Attempts -> Attempts \union {NoWindow}]
    /\ checkpoint \in [Attempts -> {None, 0} \union PassEnds]
    /\ total \in [Attempts -> Nat \union {None}]
    /\ completed \in [Attempts -> Nat]
    /\ updated \in [Attempts -> Nat]
SharedOK ==
    /\ errors \subseteq Attempts \X Items
    /\ indexed \subseteq Settings \X Items
    /\ store \in [Attempts -> [BatchNums -> Items \union {NoItem}]]
    /\ queue \in [Attempts -> [BatchNums -> Nat]]
    /\ leaked \subseteq Attempts
    /\ spent \in 0..MaxEvents
ProcessesOK ==
    /\ fetcher \in [Attempts -> FetcherType]
    /\ worker \in [Workers -> WorkerType]
    /\ monitor \in [pc : {"idle", "mark", "cleanup"}, att : Attempts \union {0},
                    failures : BOOLEAN]
TypeOK == RowsOK /\ SharedOK /\ ProcessesOK

\* The failure of item i while indexing for setting s is on record, or the
\* worker that counted its batch is about to record it
Reported(s, i) ==
    \/ \E a \in Attempts : settings[a] = s /\ <<a, i>> \in errors
    \/ \E w \in Workers : /\ worker[w].pc = "counted" /\ worker[w].failed
                         /\ worker[w].item = i /\ settings[WAtt(w)] = s
Accounted(s, i) == <<s, i>> \in indexed \/ Reported(s, i)

\* A successful attempt closes its poll window: the next one only asks the
\* source for later changes.  So by then every batch the source holds was
\* indexed or its failure was reported.
NoDocumentLost ==
    \A a \in Attempts : status[a] \in Successful =>
        \A i \in Items : Accounted(settings[a], i)

\* An attempt ends successfully only after its docfetching process has ended and
\* as many batches were counted as that process handed out, whatever was read
\* before it was written (the snapshot in check_indexing_completion, the count
\* carried over from the previous attempt).
SuccessMeansCounted ==
    \A a \in Attempts : status[a] \in Successful =>
        ~Live(a) /\ total[a] # None /\ completed[a] >= total[a]

\* "the index attempt status is the source of truth": an attempt that has ended
\* is never active again, so at most one attempt of a search setting is active.
StaysTerminal ==
    [][\A a \in Attempts : status[a] \in Terminal => status'[a] \in Terminal]_vars

\* run_docfetching.py: batches are kept on failure because "future runs will use
\* those batches while docfetching will continue from the saved checkpoint": a
\* checkpoint never runs ahead of what is indexed, reported or still on file.
CheckpointCovered ==
    \A a \in Attempts : status[a] \in Active /\ checkpoint[a] # None =>
        \A i \in 1..checkpoint[a] :
            \/ Accounted(settings[a], i)
            \/ \E f \in Files : store[f[1]][f[2]] = i

\* check_indexing_completion: "indexing_completed guarantees every docprocessing
\* batch has finished", which the clean-up after it relies on: no file that
\* it removes still waits for its documents to be indexed or reported.
CompletionMeansFinished ==
    monitor.pc \in {"mark", "cleanup"} =>
        \A f \in Files : Accounted(settings[monitor.att], store[f[1]][f[2]])

\* reissue_old_batches: the numbering resumes at "one more than the last batch
\* created by docfetching", so storing a batch never replaces another one.
NeverReplacesBatch ==
    [][\A a \in Attempts, n \in BatchNums :
        store[a][n] # NoItem => store'[a][n] \in {store[a][n], NoItem}]_vars

\* What the attempts look like to the rest of the system
PhaseOf(st) ==
    CASE st = "absent" -> "none"
      [] st = "NOT_STARTED" -> "waiting"
      [] st = "IN_PROGRESS" -> "running"
      [] st \in Successful -> "succeeded"
      [] st \in Unsuccessful -> "failed"
Lifecycle == INSTANCE AttemptLifecycle WITH
    phase <- [a \in Attempts |-> PhaseOf(status[a])],
    setting <- settings,
    counted <- {a \in Attempts : ~Live(a) /\ IndexingCompleted(a)}

\* Whatever interrupts the processes, whatever they read before they write:
\* an attempt starts once and ends once, one attempt at a time claims the poll
\* window of a search setting, and it keeps the claim only when its batches have
\* all been handed out and counted.
ImplementsLifecycle == Lifecycle!Spec

\* Every attempt comes to an end: it is finished, failed or canceled.
EveryAttemptEnds ==
    \A a \in Attempts : status[a] \in Active ~> status[a] \in Terminal
=============================================================================
