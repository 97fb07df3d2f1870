# Verification of the backend's document and turn protocols

TLA+ modules, TLC configurations and TLAPS proofs for the backend in `core/backend` of this
repository (paths below are relative to `src/core/backend/` unless they begin with another
directory). The backend is the Onyx server with a product layer, `mynd/`, on top.

What is modelled are the protocols in which several processes change shared state without a
common transaction: documents on their way from a connector into the document index, their
clean-up and their connector's deletion, the files users upload, and the interactive turns and scheduled
runs of the build feature. `PROJECT.json` lists components, runs, the source lines behind each definition, hazards,
findings and theorems.

## 1. Inventory

### The components

| Component | State it keeps | Operations | Talks to |
|---|---|---|---|
| Index attempt coordination: `onyx/db/indexing_coordination.py`, `onyx/db/index_attempt.py` | a row of `index_attempt` per attempt: status, poll window, checkpoint pointer, `total_batches`, `completed_batches`, `cancellation_requested`, heartbeat fields, `time_updated`; rows of `index_attempt_error` | create, start, request cancellation, count a batch, set the total, mark succeeded / partially succeeded / failed / canceled | everything below, by row locks and by reading snapshots |
| Docfetching process and watchdog: `docfetching/tasks.py`, `onyx/background/indexing/run_docfetching.py`, `checkpointing_utils.py` | checkpoint files; the process's own position | choose window and checkpoint, reissue or discard the batches on file, fetch, store and send batches, save checkpoints, stop or fail; the watchdog watches the process, the attempt's status and the memory | connector, file store, broker, attempt row |
| Document batch storage: `onyx/file_store/document_batch_storage.py` | `iab/<cc_pair>/<attempt>/<num>.json` | store, load, delete, rename to another attempt, list and clean up all of a cc_pair | file store |
| Docprocessing workers: `docprocessing/tasks.py` (`_docprocessing_task`), `onyx/indexing/persistent_indexing.py` | the batch being processed | load, index, count, record failures, delete; with PERSISTENT_INDEXING record and count a failing batch | broker (late acknowledgement), row, file store, index |
| `check_for_indexing`: `docprocessing/tasks.py` | none between runs; a beat lock | create attempts, validate active attempts (heartbeat, counters, lost tasks), finalize | rows, Redis counters, broker |
| Heartbeats and batch counters: `docprocessing/heartbeat.py`, `batch_counters.py`, `onyx/redis/redis_docprocessing.py` | `heartbeat_counter`; two counters in Redis | beat, pending +1, pending to in flight, in flight -1, delete | validation |
| Indexing of a document, document cleanup: `onyx/indexing/indexing_pipeline.py`, `onyx/indexing/adapters/`, `onyx/db/document.py`, `shared/tasks.py` | the row of a document, its references from cc_pairs, `last_modified`, `last_synced`, `content_hash`; its chunks in the document index with their access and metadata | upsert, lock, write, post-index; count references, delete or update chunks, commit | Postgres, document index |
| Document metadata sync: `vespa/tasks.py`, `vespa/document_sync.py` | a fence and a taskset in Redis | find stale documents, send a task each, copy access and metadata, mark as synced | Postgres, document index |
| Connector deletion: `connector_deletion/tasks.py`, `onyx/redis/redis_connector_delete.py`, `redis_connector_stop.py` | fence, taskset, active signal, stop signal; the cc_pair's status | set the fence, wait for indexing and pruning or stop them, send cleanup tasks, monitor, delete the cc_pair, validate the fence | rows, Redis, cleanup tasks, all of the indexing components |
| Pruning: `pruning/tasks.py`, `onyx/redis/redis_connector_prune.py` | fence with a task id, taskset, active signal, "generator complete" | create, enumerate the source, send cleanup tasks, monitor, validate | connector, cleanup tasks, deletion |
| User files: `user_file_processing/tasks.py`, `onyx/db/user_file.py`, `onyx/server/features/projects/api.py`, `onyx/indexing/adapters/user_file_indexing_adapter.py` | status and sync flag of a file, its projects, its chunks; queued guards and per-file locks in Redis | upload, link, unlink, delete; process, sync, delete tasks, and the beats that send them | Postgres, index, broker, Redis |
| Interactive turns: `onyx/server/features/build/interactive_turns/`, `session/` | a turn in the cache (status, runner, heartbeat), the session's pointer to it, a lock, the prompt slot, the interrupt fence | send a message, attach, claim, touch, finish, interrupt, read the active turn | cache, sandbox |
| Scheduled tasks and their runs: `tasks/scheduled_tasks/tasks.py`, `onyx/db/scheduled_task.py`, `onyx/server/features/build/scheduled_tasks/` | a row of `scheduled_task` (status, deleted, `next_run_at`), its rows of `scheduled_task_run` (status, trigger, error class, `started_at`) | dispatch what is due, pick up, wake the sandbox, drive the agent, sweep stuck runs; create, run now, pause, resume, edit, delete | Postgres, broker, sandbox, prompt slot |
| Schedules, requests and pre-approvals: `scheduled_tasks/api.py`, `schedule.py`, `build/db/action_approval.py` | cron expressions, grants of a task, approvals | compile a schedule, list runs, approve | the row above |
| Targeted reindexing: `targeted_reindex_task.py` | a job, synthetic attempts | run a job on chosen documents | attempts, index |
| Search settings switch-over: `onyx/db/swap_index.py` | present, future, past settings | switch when every cc_pair is indexed, cancel the old attempts | attempts |
| Chat streaming: `onyx/chat/` | a stop flag and a processing flag per chat in the cache, a stream buffer | start, stop, resume | cache |
| Cache and locks: `onyx/cache/`, `onyx/redis/lock_context.py` | keys with expiry, lists, locks, in Redis or in Postgres | get, set, pop, acquire | all of the above |
| Tenant work gating: `onyx/redis/redis_tenant_work_gating.py` | a sorted set of active tenants | mark active, list, expire | beat tasks |
| Mynd layer: `mynd/` | encrypted LLM credentials per user, organisation and system; per-product sessions | resolve, refresh, deactivate, route | LLM providers |
| Usage limits and seats: `onyx/db/usage.py`, `ee/onyx/server/tenants/` | counters per window, seats | check, add | API, indexing |
| Worker lifecycle and monitoring: `onyx/background/celery/apps/`, `tasks/monitoring/` | the primary worker's lock, metrics | start, renew, stop | Redis |
| Connectors; retrieval, model calls and tools | request-scoped | - | outside services |

Web front end, command line, migrations, deployment files and tests are no components of these
protocols and are left aside.

### How they work

Indexing.

1. The beat task `check_for_indexing` inserts a `NOT_STARTED` attempt and sends a docfetching task.
2. The task starts a process. It sets the attempt `IN_PROGRESS`, takes the poll window and the
   checkpoint of the last unsuccessful attempt, and renames the batches left on file to itself
   and sends them again (or discards them). Then it fetches: store a batch, send its task; at the
   end of each run of the connector save the checkpoint. At the end it sets `total_batches`.
3. Workers load a batch, write it to the index, add one to `completed_batches`, record failures,
   delete the file. An attempt that is already terminal gets nothing more processed.
4. `check_for_indexing` marks an attempt successful once `completed_batches >= total_batches`,
   and removes every file of the cc_pair. It fails attempts whose heartbeat stopped.
5. A failed or canceled attempt is followed by another one over the same window.

Writing a document: upsert the row and the reference of the cc_pair, each committed; lock the row; read
access; write the chunks; mark it modified and release the lock. Cleanup, for a cc_pair that is deleted or
whose source lost the document: count the references, then delete the chunks or update their
access, then the same in Postgres. Metadata sync does the last two for documents modified since they were
synced.

Deletion: a beat task sets a fence, looks for a running attempt or a pruning fence, and either takes the
fence back and sets a stop signal, or sends a cleanup task for every document and, in a later
round, when none is left, deletes the cc_pair. Docfetching and pruning look at the fence when they begin.

User files: a beat per kind of work (processing, deletion, sync) finds the rows that need it, sets a
guard and sends a task that expires; the task clears the guard, takes the lock of its kind or
gives up, and works in phases of which only the write of the chunks holds the row lock.

Turns: a message creates a turn, points the session to it and starts a runner; every attach starts
another. The first to claim it has it until its heartbeat is stale. The runner wakes the sandbox, takes the
prompt slot, looks at the interrupt fence, streams, finishes the turn, clears the fence, releases the slot.

Scheduled runs: every 30 s the dispatcher claims the tasks that are due (`FOR UPDATE SKIP LOCKED`), inserts for
each a `QUEUED` run, or a `SKIPPED` one if a run is in flight, moves `next_run_at` on, commits, and sends
a message per queued run. The executor looks at the status of its run, wakes the sandbox, marks the run
`RUNNING`, drives the agent, marks the end. Every hour a sweeper fails runs queued for more than 15 and running
for more than 45 minutes.

### What is hard about it

* Nothing is atomic over Postgres, the file store, Redis, the broker and the index; each has its own
  commit, and the processes can die in between.
* Delivery: docprocessing, cleanup, sync and user file tasks are acknowledged late (delivered again after
  a crash), docfetching tasks and scheduled runs early (lost with a crash), user file tasks and scheduled
  runs expire in the queue.
* Decisions are taken on what was read earlier: the completion snapshot, the row of the
  previous attempt, the attempt read before the validation loop (the session's identity map
  returns the same object again, as `expire_on_commit` is off), the count of references, the
  projects of a file, the pointer to a turn.
* Statuses are overwritten whatever they are: of an attempt from five places, of a cc_pair from
  three, of a user file from two, of a scheduled run from two.
* Heartbeats bump `time_updated`, which decides which attempt is "the most recent".
* Counts are per task while work is per batch.
* Fences, guards and locks outlive the processes that set them; what ends them is a time to live,
  a validation that reads three places one after the other, or nothing.

What makes the components correct: no document of the source is lost by resumption; an attempt
succeeds only when everything was counted, ends, and ends once; a live process is not taken for dead;
Postgres and the index agree when nothing is under way; a deletion, once requested, is carried out
and leaves nothing behind; an uploaded file does not stay in a transient status; a turn has one owner
and one end; a schedule fires once when it is due, does not overlap itself, and goes on.

## 2. Modules

    AttemptLifecycle
      ^ implemented by
    DocBatchPipeline        <- MCDocBatchPipeline        (TLC)
                            <- DocBatchPipelineProofs    (TLAPS, also AttemptLifecycle and the refinement)
                               <- DocBatchDocumentsProofs  (TLAPS, what resumption promises)
    AttemptValidation       <- MCAttemptValidation, AttemptValidationProofs
    DocumentCleanup         <- MCDocumentCleanup, DocumentCleanupProofs
    ConnectorDeletion       <- MCConnectorDeletion, ConnectorDeletionProofs
    UserFiles               <- MCUserFiles, UserFilesProofs
    InteractiveTurns        <- MCInteractiveTurns, InteractiveTurnsProofs
    ScheduledRuns           <- MCScheduledRuns, ScheduledRunsProofs

In all of them an action is the code between two commits (or two calls to another store). What goes wrong
is limited to the kinds in `Events` and to `MaxEvents` of them: each is a branch or an action
guarded by its kind, so that a run can say which kinds a property survives.

The modules meet at interfaces: AttemptValidation refines by hand two actions of DocBatchPipeline;
ConnectorDeletion takes a cleanup task as one step, whose inside is DocumentCleanup, and an attempt
by its status, whose inside is DocBatchPipeline; DocBatchPipeline takes the indexing of a batch as one step,
whose inside, for one document, is DocumentCleanup. AttemptLifecycle is what the others may rely on.

### AttemptLifecycle

The abstract specification of the attempts of a cc_pair: created when the poll window is free, started,
counted, ended; an end may be overwritten by another, never taken back; only an attempt that was
fetched to its end and counted may succeed. `DocBatchPipeline!ImplementsLifecycle` is the
refinement: `phase` is `PhaseOf(status[a])` (the nine statuses without what distinguishes
failed from canceled and full from partial success), `setting` is `settings`, and `counted` is the set of
attempts without a live process whose `completed_batches` reach `total_batches`. A mapping by the
columns alone would not do: a count that is assigned by the docfetching process may still go down.

### DocBatchPipeline

One cc_pair over one poll window of the source, by a succession of attempts.

* **Rows.** `status`, `settings`, `reindex`, `window`, `checkpoint`, `total`, `completed`, `cancel`
  are the columns of `index_attempt`; `updated` is the rank of `time_updated`, which is all the code
  looks at (it orders by it). `errors` are the rows of `index_attempt_error`.
* **Shared state.** `store[a][n]` is the file `iab/<cc_pair>/a/n.json`; `queue` counts the
  docprocessing tasks in the broker; `indexed` is the document index.
* **Processes.** `fetcher[a]`, `worker[w]` and `monitor` hold the program counter and the local variables
  of the docfetching process, of each worker thread and of `check_for_indexing`.
* **Trouble.** Three kinds of `Events` widen the environment instead of breaking something: `overlap` (an
  attempt is created while processes of an earlier one still run), `setup_error` (fetchers may also die
  or fail while they set up) and `early_delivery` (a reissued task may be delivered before its
  attempt has assigned the carried-over count).

| Code | Action |
|---|---|
| `try_creating_docfetching_task` | `CreateAttempt`, `FailSpawn` |
| `_verify_indexing_attempt`, `transition_attempt_to_in_progress` | `VerifyAttempt`, `StartFetching` |
| `connector_document_extraction`, lines 442-600 | `SetPollWindow`, `LoadCheckpoint` |
| `reissue_old_batches`, assignment of `completed_batches` | `ReissueOldBatches`, `CarryOverCompleted` |
| extraction loop, `save_checkpoint`, `set_total_batches` | `CheckStatus`, `StoreBatch`, `SendTask`, `SaveCheckpoint`, `SetTotalBatches` |
| its error handlers, `ConnectorStopSignal` | `FailSetup`, `FailExtraction`, `StopExtraction` |
| `docfetching_proxy_task` (watchdog) | `KillFetcher`, `ExceedMemoryLimit` |
| `_docprocessing_task` | `LoadBatch`, `RefuseBatch`, `IndexBatch`, `FailBatch`, `CompleteBatch`, `FinishBatch`, `FailFinishing`, `CrashWorker` |
| `start_heartbeat` | `Heartbeat` (only its effect on `time_updated`) |
| `validate_active_indexing_attempts` | `HeartbeatTimeout`, `FailNeverStarted` |
| `monitor_indexing_attempt_progress`, `check_indexing_completion` | `CancelAttempt`, `ReadCompletion`, `MarkCompletion`, `CleanUpBatches`, `FailMonitoring` |

Abstractions. The source is a sequence of `NumItems` batches with checkpoints at `PassEnds`; a batch is
indexed, or reported as failed, as a whole. Writing a checkpoint file and its pointer is one step
(a file without a pointer is never read). Heartbeats and Redis counters appear only as "nothing
works on the attempt" (`Silent`, `Stalled`, `leaked`); AttemptValidation has them in full. The rule that
pauses a cc_pair after fifty attempts without progress is left out, and so are the watchdog's branches
for `TERMINATED_BY_SIGNAL` and `TERMINATED_BY_ACTIVITY_TIMEOUT`, which no code path reaches.
Attempts of a window that was indexed are not followed by another one: the model ends there.

### AttemptValidation

`validate_active_indexing_attempts` in detail, for one attempt: what DocBatchPipeline takes as the
two actions `HeartbeatTimeout` and `FailNeverStarted`.

* `tracked`, `advanced` and `age` abstract `last_heartbeat_value`, `last_heartbeat_time` and
  `heartbeat_counter`: whether tracking has begun, whether the counter is beyond the value last
  recorded, and how many ticks ago that was. The code tells nothing else apart.
* `pending` and `inFlight` are the Redis counters, with the Lua scripts' floor at zero; `queued` is
  what the broker really holds.
* A tick is one heartbeat interval. Between two ticks every running thread beats or misses
  (`missed`, at most `MaxMissed`).
* `monitor` is the validation round: what it read (`advanced`, `total`, `inFlight`), whether the
  counter was raised since (`since`, so that recording the value read leaves the raise visible), how
  many ticks ago it read (`round`), and where it is. The re-reads at lines 209 and 366 of
  `docprocessing/tasks.py` return what was first read: the object is in the session's identity map
  and is not expired.
* The scan of `NOT_STARTED` attempts reads the queue, then the hash of unacknowledged tasks. Its
  12-hour threshold is left out (an attempt may be old from the start); it is only harder to get to.

Restrictions of the environment: signal handlers (`on_docprocessing_task_prerun`, `_postrun`) take
less than an interval; a round lasts at most `MaxRound` intervals for one attempt (the beat lock is
extended per attempt); counter keys expire only when nothing works on the attempt (the code's comment
on the 15 days: "long enough that no legitimate sync will hit it"); the watchdog dies with its
process (the cases in which it survives and marks the attempt are in DocBatchPipeline); a worker
that dies has not yet counted its batch (the other case is `late_crash` in DocBatchPipeline).

### DocumentCleanup

One document that the cc_pairs of `CCPairs` index, from the first write to the last reference.

* **Postgres.** `row` and `refs` are the rows of `document` and of `document_by_connector_credential_pair`;
  `dirty` is `last_modified > last_synced` (or never synced), all the sync looks at; `hashed` says that
  `content_hash` is that of the source's present content; `meta` stands for boost, hidden and document sets;
  `held` is the row lock of `prepare_to_modify_documents`.
* **Index.** `index` is `Absent` or the access and metadata last written. `Access` leaves out cc_pairs being
  deleted, as `get_access_for_document` does.
* **Redis.** `cleanups[c][r]` and `syncs[r]` are queued tasks by number of retries; `fence` is that of
  metadata sync. A taskset is abstracted to "no task is left" (`SyncPending`, `CleanupPending`).

| Code | Action |
|---|---|
| `get_docs_to_update`, `upsert_documents`, `upsert_document_by_connector_credential_pair` | `IndexPrepare`, `IndexRelate` |
| `prepare_to_modify_documents`, `prepare_enrichment`, the write, `post_index` | `IndexLock`, `IndexWrite`, `IndexPost` |
| `RedisConnectorDelete.generate_tasks`, the generator of pruning | `SendCleanup` |
| `document_by_cc_pair_cleanup_task`, phases 1 to 3, its retries and last resort | `CleanupCount`, `CleanupIndex`, `CleanupCommit`, `CleanupFails` |
| `try_generate_stale_document_sync_tasks`, `monitor_document_sync_taskset` | `GenerateSync`, `FinalizeSync` |
| `document_index_metadata_sync_task` | `SyncRead`, `SyncUpdate`, `SyncMark` |
| a worker process that dies; an admin, a curator, the source | `Crash`; `RequestDeletion`, `EditDocument`, `SourceRemoves` |

`CleanupFails` is part of `CleanupIndex`, not an action. Abstractions: all chunks of the document are
written at once; reading the references and reading access is one step; embedding and chunking are part of
`IndexWrite`; the lock is tried without the bounded waiting of the code.

### ConnectorDeletion

One cc_pair that is deleted, with one attempt at a time and one pruning at a time against it.

* `status` is the cc_pair's, `docs` the documents it references, `others` those another cc_pair references.
* `fence`, `taskset`, `active`, `stop`, `blocked` are the Redis keys of deletion (`stop` distinguishes the
  signal with a timeout, the same one after it, and the one `Pause` sets without a timeout);
  `prune`, `pruneTasks`, `pruneActive`, `complete` those of pruning. `queue` holds the cleanup tasks themselves.
* `beat`, `pruner`, `generator`, `creating`, `indexer`, `batches`, `writing`, `finalizing` are the positions
  of the processes.

| Code | Action |
|---|---|
| `check_for_connector_deletion_task`, its loop over cc_pairs | `BeatBegin` (with `validate_connector_deletion_fences`), `BeatBlocked`, `BeatUnstop`, `BeatMonitor`, `BeatFinish`, `BeatCrash` |
| `try_generate_document_cc_pair_cleanup_tasks` | `BeatFence`, `BeatCheckAttempt`, `BeatCheckPrune`, `BeatSend`, `BeatReady` |
| `document_by_cc_pair_cleanup_task` and `on_task_postrun` | `RunCleanup` |
| `try_creating_prune_generator_task` | `PruneCheck`, `PruneFence`, `PruneSend`, `PruneName` |
| `connector_pruning_generator_task` | `GeneratorStart`, `GeneratorEnumerates`, `GeneratorSends`, `GeneratorStops`, `GeneratorCrash` |
| `monitor_ccpair_pruning_taskset`, `validate_pruning_fence` | `PruneMonitor`, `PruneValidate` |
| `try_creating_docfetching_task`, docfetching, docprocessing, `check_indexing_completion` | `AttemptCheck`, `AttemptCreate`; `FetchStart` to `AttemptFails`; `ProcessCheck`, `ProcessWrite`; `FinalizeRead`, `FinalizeWrite` |
| `create_deletion_attempt_for_connector_id`, `update_cc_pair_status` | `RequestDeletion`, `Pause` |
| times to live | `ActiveExpires`, `StopTimesOut`, `BlockExpires`, `PruneActiveExpires`, `PruneFenceExpires` |

Abstractions: permission and group sync fences are treated by the beat as pruning's is and are left out; a
validation is one step although it reads the queue first and the fence then (its active signal is what
the code has against that, and it is in the model); what a source lists is a choice; a heartbeat
timeout is `AttemptFails`.

### UserFiles

One uploaded file, in the deployment with Redis and a vector database.

* `status`, `linked` (is it in the project?), `needsSync` and `held` (the row lock) are Postgres; `index` is the
  chunks with the project they were written with; `queue`, `guard`, `lock` the broker and the Redis keys by
  kind of task; `worker` and `client` the tasks and requests under way with what they have read.
* `raced` records that a deletion was committed while processing was past its status check.

| Code | Action |
|---|---|
| upload (`create_user_files`) | `Init` |
| `delete_user_file`, `link_user_file_to_project`, `unlink_user_file_from_project`, `delete_project` | `BeginDelete`/`CommitDelete`, `BeginLink`/`CommitLink`, `BeginUnlink`/`CommitUnlink`, `DeleteProject` |
| `check_user_file_processing`, `check_for_user_file_delete`, `check_for_user_file_project_sync` | `Beat` |
| task expiry, times to live of guards and locks | `MessageExpires`, `GuardExpires`, `LockExpires` |
| the beginning of each task | `Take` |
| `process_user_file_impl`, the adapter's `lock_context`, `prepare_enrichment`, `post_index` | `ProcessRead`, `ProcessLock`, `ProcessWrite`, `ProcessPost`, `ProcessFailing`, `ProcessFail` |
| `delete_user_file_impl` | `DeleteRead`, `DeleteIndex`, `DeleteRow` |
| `project_sync_user_file_impl` | `SyncRead`, `SyncIndex`, `SyncClear` |
| a worker process that dies | `Crash` |

A request reads the row in one statement and writes it in another; as the ORM writes a column only if it
differs from what was read, a request that read the value it is about to write writes nothing. That is
in the model (`flag`), since it decides what a concurrent change survives.

### InteractiveTurns

The turns of one session and the runner threads that want them, on all API pods.

* `turn`, `active`, `lock`, `slot` and `fence` are cache keys. A turn's heartbeat is reduced to `stale`: older
  than `RUNNER_STALE_AFTER_SECONDS` or not. `EXPIRED` is a turn whose key is gone or was never set.
* `runner[r]` is a thread with the turn it was started for and what it will do after the next touch;
  `sender` is the one request in `send_message` (they exclude each other by the lock); `reader[d]` is a
  request inside `get_active_turn` without the lock.
* `asked` records which turns were active when an interrupt was requested, `raced` that a reader
  removed the pointer to an active turn.

| Code | Action |
|---|---|
| `send_message`, `create_turn`, `start_turn_runner` | `SendCreate`, `SendCommit`, `SendFail` |
| `get_interactive_turn_events`, `interrupt_message` | `Attach`, `Stop` |
| `get_active_turn` | `ReadPointer`, `ReadTurn`, `ReadDelete` |
| `claim_turn_for_runner`, `touch_turn`, `finish_turn` | `Claim`, `Touch`, `FinishSave`, `FinishUnpoint` |
| the runner: sandbox, `prompt_slot`, interrupt check, stream, finally clause | `Wake`, `TakeSlot`, `Check`, `Stream`, `Leave`, `Clear` |
| times to live, a stale heartbeat | `GoStale`, `TurnExpires`, `LockExpires`, `SlotExpires`, `FenceExpires` |
| a pod that dies | `Crash` |

A request that fails its turn after the commit did not go through may give up on the lock, as the others may; in
`SendFail` that is not counted as another trouble, so that both happen within one.

Abstractions: a critical section that makes one change to the cache is one step (finishing makes two, so
that a pod can die between them); one that outlives the 60-second lease of the lock, a cache that is
unreachable or loses data are left out; the events of the agent are what the runner does next.

### ScheduledRuns

One scheduled task and its runs. Every task has rows, messages and processes of its own; what ties tasks
together is that a tick claims several in one transaction, which fails as a whole (`DispatcherDies`): the
loop goes on after a task that fails, but nothing of a transaction with a failed statement is committed.

* `task` is the row: `next` is `next_run_at`, NULL, in the future or due. `run[r]` is a row of
  `scheduled_task_run`: `error` is `error_class`, reduced to none, the sweeper's `STUCK`, and any other; `age` is
  the time since `started_at` in the steps the sweeper distinguishes (up to 15 minutes, up to 45, more).
* `executor[r]` is the message of a run or how far its executor is; `tick[d]` what a tick that has the task
  claimed found; `sweep` the rows the sweeper has selected; `request[a]` what an API request that updates the
  task has read.

| Code | Action |
|---|---|
| `create_scheduled_task` | `Init` |
| `dispatch_due_scheduled_tasks`: `claim_due_scheduled_tasks` and `has_in_flight_run_for_task`; insertion, `advance_next_run_at`, commit and `send_task`; a crash or a rollback | `Claim`; `Fire`, `Skip`; `DispatcherDies` |
| `run_now` | `RunNow` |
| `patch_task`, `delete_task`: `get_scheduled_task`; `update_scheduled_task`, `soft_delete_scheduled_task` | `Ask`; `Pause`, `Resume`, `Edit`, `Delete` |
| `run_scheduled_task_logic`, `_drive_agent` | `PickUp`, `Wake`, `StartDrive`, `EndDrive`, `ExecutorDies` |
| `cleanup_stuck_scheduled_runs` | `FindStuck`, `MarkStuck`, `SweeperDies` |
| `next_run_at` comes, a run gets old, its message expires | `BecomesDue`, `Ages`, `MessageExpires` |

The writes of executor and sweeper ignore the status of the run at that time. Both use rows read earlier in
their session: with `expire_on_commit` off the session returns the same objects again, and an UPDATE by
primary key has no condition on the status. An update of the task by a request has no condition either, and
writes a column only if it differs from what the request had read (`NextWritten`). It waits for the lock
of a claim, and so does the insertion of a run by `run_now`, as the foreign key locks the row it refers to, which
`FOR UPDATE` excludes; hence `Unlocked`.

Abstractions: a finished row that no process holds is recycled (`Forget`), as the code reads only rows in
flight; `Free` and `Idle` take the first free row and tick, which are interchangeable; edits that leave the
schedule alone, requests for the status the task has, prompt, name, grants, session, summary and notifications are
left out; `_drive_agent` is three commits, and the error that ends it is the agent's, the prompt slot's or
the budget's alike.

## 3. Runs

Passing runs:

| Run | Question | What it shows | Distinct states |
|---|---|---|---|
| `resume` | Does resumption lose or renumber anything? | Three attempts, connector errors, killed fetchers, cancellation, crashed workers, failing documents, reindexing, lost checkpoints, two of them in a behaviour: `NoDocumentLost`, `CheckpointCovered`, `NeverReplacesBatch`. | 3.5 M |
| `workers` | Does concurrency confuse the count? | Two workers, three batches, redelivery, PERSISTENT_INDEXING: `CompletionMeansFinished`, `NoDocumentLost`. | 2.4 M |
| `any_trouble` | What holds whatever goes wrong? | Every kind of trouble one at a time, with overlapping attempts, early deliveries and deaths in setup: `TypeOK`, `SuccessMeansCounted`, `StaysTerminal`, the refinement `ImplementsLifecycle` and, under fairness, `EveryAttemptEnds`. | 0.4 M |
| `validation` | Does validation spare the living and bury the dead? | All troubles, two in a behaviour, and one missed heartbeat: `FetchingNotInvalidated`, `EveryAttemptResolved`, `TypeOK`. | 38 k |
| `counters` | Can the counters be trusted? | Two workers, three batches, crashes, redelivery, lost tasks: `NoWorkAnywhere`, `QueuedTaskNotFailed`. | 0.2 M |
| `cleanup` | Do Postgres and the document index agree in the end? | A document of two cc_pairs, two indexings, retries, two troubles of all kinds: `SharedDocumentKept`, `DeletedPairLosesAccess`, `LockedRowStays`, `DeletionRemovesReference`, `DirtyIsSynced`, `TypeOK`. | 0.75 M |
| `deletion` | Is a deletion carried out? | An attempt and a pruning in its way and one trouble of any kind: `DeletionCompletes`, `FencesRemoved`, `NoStopForGone`, `TypeOK`. | 0.67 M |
| `user_files` | Does every file get where it should? | Two workers, two requests, one trouble of any kind: `WorkEnds`, `CompletedIsSearchable`, `GoneLeavesNothing`, `DeletionWins`, `TypeOK`. | 0.23 M |
| `turns` | One owner, one end? | Two turns, two runners, an unlocked reader, an interrupt, one trouble of any kind: `OneActiveTurn`, `EndedByOwner`, `EndedStaysEnded`, `TurnsEnd`, `TypeOK`. | 0.33 M |
| `scheduled` | Does the schedule fire when it should, once, and for ever? | Two rows, two ticks, two requests of the user, one trouble of any kind: `FiresOnceWhenDue`, `NoOverlap`, `EndChangedBySweepOnly`, `ScheduleGoesOn`, `TypeOK`. | 0.83 M |

The properties in words:

* `NoDocumentLost`: when an attempt is successful, every batch of the source was indexed or its failure
  is on record. The next window asks only for later changes, so anything else is lost for good.
* `CheckpointCovered`: what lies behind the checkpoint of an active attempt is indexed, reported or still on file.
* `CompletionMeansFinished`: while the monitor finishes an attempt, whose clean-up deletes all files, no
  file is still waiting to be processed.
* `NeverReplacesBatch`: a batch on file is never overwritten by another one.
* `SuccessMeansCounted`: success comes after docfetching has ended and all batches handed out were counted.
* `StaysTerminal`: an ended attempt is never active again.
* `ImplementsLifecycle`: every behaviour of the pipeline is one of AttemptLifecycle; so a poll window has
  one claimant at a time.
* `EveryAttemptEnds`, `EveryAttemptResolved`: every attempt comes to an end.
* `FetchingNotInvalidated`: a live docfetching process is never taken for dead by its heartbeat.
* `NoWorkAnywhere`: counters at zero mean that no batch is queued or in work.
* `QueuedTaskNotFailed`: the scan does not fail an attempt whose task the broker still has.
* `SharedDocumentKept`: the reference of a cc_pair to a document is removed only by a cleanup of that
  cc_pair. It is said of behaviours in which no two tasks overlapped and no cleanup ran twice (`alone`): for the
  others the run `shared_document` shows what happens.
* `DeletedPairLosesAccess`: at rest the chunks give access only through cc_pairs that reference the document, or
  the next sync is due. It leaves out a pruned cc_pair, whose access is computed before its reference goes.
* `LockedRowStays`: from the row lock to the commit of an indexed document nobody deletes its row.
* `DeletionRemovesReference`, `DirtyIsSynced`: cleanup and sync are carried through.
* `DeletionCompletes`: a cc_pair marked DELETING does not stay so.
* `FencesRemoved`: a deleted cc_pair keeps no fence for long; `NoStopForGone`: nor a stop signal of deletion.
* `CompletedIsSearchable`: a file shown as COMPLETED has its chunks, also while it is processed again or a
  deletion is on its way, unless processing had passed its check when the deletion was requested. Without that
  exception it fails, but only with three workers and three troubles: a second processing task of the file fails
  and writes FAILED over DELETING, the first completes the file, and the delete task, which has removed the
  chunks, dies before it removes the row. One trouble does not get there; it came up in the attempt to prove an
  earlier form, "unless a deletion is pending", which two workers and one trouble satisfy.
* `GoneLeavesNothing`: a deleted file has no chunks, unless processing had passed its check when the
  deletion was requested. (Then chunks written after the index delete and before the row delete of
  `delete_user_file_impl` stay.)
* `DeletionWins`: a file marked DELETING, or with an undisturbed deletion pending, never turns up COMPLETED.
* `WorkEnds`: no file stays in PROCESSING or DELETING or waits for a sync for ever.
* `OneActiveTurn`: the active turn is the one the session points to, so there is one, unless an unlocked
  reader removed the pointer to it. `EndedByOwner`: a running turn is ended by the runner it belongs to.
  `EndedStaysEnded`, `TurnsEnd`: and once, and always.
* `FiresOnceWhenDue`: a row is inserted by the schedule only while the task is due, active and not deleted, and
  the same commit makes it not due. It relates what the claim read to the commit later, with other ticks and requests in
  between.
* `NoOverlap`: two runs of the schedule are in flight only if the sweeper gave up one of them (`STUCK` stays on
  the row). The look for runs in flight takes no lock; what protects it is the lock on the task. Run Now
  starts runs beside it, by design.
* `EndChangedBySweepOnly`: an end is overwritten only by the sweeper or on a run it gave up.
* `ScheduleGoesOn`: a task that remains active is fired again and again, so that no dead, lost or waiting run blocks it.

Runs that find the code at odds with what a comment of it promises (quotations are in `PROJECT.json`):

| Run | Property | The counterexample |
|---|---|---|
| `shared_document` | `OthersKept` | Pruning looks at the fences before deletion sets its own, and deletion before pruning does: both go on, and both send a cleanup task for a document of two cc_pairs. The first task removes the reference, the second counts one reference left, the other cc_pair's, and deletes the document (`shared/tasks.py:118`). No trouble is needed. |
| `deleting_is_final` | `DeletingIsFinal` | Finalization reads INITIAL_INDEXING, the admin requests the deletion, finalization writes ACTIVE (`docprocessing/tasks.py:603`). |

Other behaviour of this kind, without a run of its own, by changing the configuration named:

| Change | Violated | What happens |
|---|---|---|
| `setup_error` added to `Events` of Resume | `NeverReplacesBatch` | An attempt reissues the batches and dies before it saves its own `completed_batches`. The next one numbers its batches from that count, 0, and overwrites a batch on file (`run_docfetching.py:1039`). |
| `early_delivery` added to `Events` of Resume | `NeverReplacesBatch` | A reissued batch is counted before line 591 of `run_docfetching.py` assigns the count. |
| `Events = {"kill", "usage_limit"}`, `MaxEvents = 3`, `NumItems = 3` in Resume | `NeverReplacesBatch` | A task of an attempt long over is refused because the tenant is over its limit, which marks that attempt FAILED again (`docprocessing/tasks.py:1645`). Its row is now the most recent one, and its smaller `completed_batches` numbers the batches of the next attempt, over those on file. |
| `overlap` added to `Events` of Resume | `CheckpointCovered` | An attempt is canceled while its process sets up, and another one is created beside it. The process finds no checkpoint it can load and starts over, which throws away all batches of the cc_pair, among them those the new attempt has stored before its checkpoint (`run_docfetching.py:600`). |
| `late_crash` added to `Events` of Workers | `CompletionMeansFinished` | A worker dies after counting its batch and before deleting the file. The redelivered task counts it again, the attempt completes with another batch untouched, and the clean-up deletes it (`docprocessing/tasks.py:1872`). |
| `late_error` added to `Events` of Workers | `CompletionMeansFinished` | A batch counted, then counted again by the error handler (`docprocessing/tasks.py:1999`). |
| `CheckpointedConnector = FALSE` in Resume | `CheckpointCovered` | A connector that is not checkpointed dies after its last checkpoint and before `set_total_batches`. The next attempt discards the batches and resumes behind them (`run_docfetching.py:600`). |
| `Settings <- TwoSettings` in Resume | `CheckpointCovered` | While two search settings are indexed for, finishing an attempt of the one removes the files a failed attempt of the other has left to resume from (`document_batch_storage.py:221`). |
| `restore` added to `Events` of Counters | `QueuedTaskNotFailed` | A task put back into the queue between the two reads is in neither. |
| `INVARIANT CancelledWasAsked` in Turns | `CancelledWasAsked` | An interrupt that no turn consumed cancels the next one: the fence is cleared at the end of a turn only (`interactive_turns/executor.py:292`), while the docstring of `clear_interrupt` (`session/interrupt_signal.py:36`) has it "called at the start and end of each turn". |
| `PROPERTY EndIsFinal` in Scheduled | `EndIsFinal` | A run is picked up late, and failed by the sweeper as queued for 15 minutes while its sandbox wakes; then the executor writes RUNNING over FAILED (`scheduled_tasks/executor.py:253`). "Terminal statuses produce no further state transitions in V1", says `onyx/db/enums.py:323`. |
| `Requests <- TwoRequests`, `MaxRequests = 5` in Scheduled (with `Events = {}` it is quick) | `ScheduleGoesOn` | Requests that overlap leave the task ACTIVE without `next_run_at`: a resume that read the time it computes anew writes only the status, over a pause that has set the time to NULL (`db/scheduled_task.py:184`). The task is never due again until somebody edits or pauses it. |

Seen while modelling, and in the models as it is:

* A worker picks up a batch of a backlogged attempt after the attempt's row was read and before the counters
  are: in flight, heartbeat stale, failed as crashed (`docprocessing/tasks.py:274`).
* An attempt that starts while the scan sleeps is failed as one that never started: the second read returns the
  row as first read (`docprocessing/tasks.py:366`).
* Validation does not look at `completed_batches` and runs before finalization: an attempt whose batches are
  all done is failed when `check_for_indexing` comes to it more than 30 minutes after its last heartbeat; the
  comment at `docprocessing/tasks.py:547` puts the gap between two runs at up to 25 minutes.
* An edit between reading a document's metadata and stamping `last_synced` is not written to the index
  (`vespa/tasks.py:522`); a change of projects during the sync of a file is lost in the same way
  (`user_file_processing/tasks.py:905`).
* Access is computed with the reference still there when a pruned, not deleted, cc_pair's document is
  updated: it stays in the index until the next sync of the document.
* `FAILED` may be written over `DELETING` (`user_file_processing/tasks.py:470`); `delete_project` removes the
  association of a file without setting its sync flag (`projects/api.py:416`).
* `touch_turn` returns False when the lock is busy as it does when the turn is lost: the runner leaves a turn it
  still owns, to be claimed by whoever attaches, or forgotten.
* The executor's docstring (`scheduled_tasks/executor.py:15`) promises a SKIP when the sandbox stays in provisioning; the
  code records FAILED. The overview (`docs/craft/features/scheduled-tasks/overview.md:47`, in `core/`) says
  `QUEUE_ONE` for Run Now; nothing limits how many of its runs are queued.
* `BeatMonitor` deletes a cc_pair whose tasks are done whatever its status has become meanwhile.

### Bounds

DocBatchPipeline:

* `MaxAttempts`: 3 in `resume` (the count carried over by the second attempt is used by the third), 2
  otherwise (one that leaves something, one that resumes).
* `NumItems` and `PassEnds`: two batches in one run of the connector, so that one may be done while the
  other is not, or three batches with a checkpoint after the first, so that an attempt may end before,
  at and after a checkpoint that is not the last.
* `MaxBatchNum` guards `StoreBatch`. It is set to the largest number the other bounds allow (4 for two
  attempts, 5 for three): no reachable state of these runs has a docfetching process at "store"
  beyond it, so it cuts nothing off.
* `MaxEvents`: 2, that an attempt may fail and its successor too; 1 in `any_trouble`, which pays for
  liveness and for all kinds at once.
* `Workers`: two in `workers` (with symmetry), one elsewhere; deliveries in any order, redelivery and crashes
  are there with one as well.

AttemptValidation: `Timeout` is 4 ticks (30 minutes are 60 intervals), the least for which the assumption
`Timeout > MaxMissed + MaxRound + 1` holds with a missed heartbeat and a round of one tick. Time beyond
the timeout makes no difference (`age` stops there). `NumBatches` is 1 for liveness and 3 with two
workers for the counters.

DocumentCleanup: two cc_pairs make a document shared; `MaxIndexing` 2 lets each index it once or one index it
again; `MaxRetries` 1 (3 in the code) has a first try, a retry and the last resort; `MaxEvents` 2 exhausts
the retries of a task. One light worker and one docprocessing worker: they interleave with each other, with the
beats and with redelivered tasks; two cleanups at once are in ConnectorDeletion.

ConnectorDeletion: one document (the taskset is empty, full, or partly lost through `send_error`), one attempt and
one pruning that may start at any moment before, during and after the request; `MaxTasks` 4 task ids are enough
for the rounds that can be under way at once (a bound in the guards: nothing is sent while no id is free); one trouble of nine kinds. The other
cc_pair is only the set of its references.

UserFiles: two workers (any two tasks overlap), two requests, `MaxQueueDepth` 1, one trouble. InteractiveTurns: two
turns (one that is ended while the next is sent), two runners (a stale one and its successor), one unlocked
reader, one interrupt, one trouble.

ScheduledRuns: two rows in flight or being finished, the least for an overlap; two ticks, the least for
a task claimed twice; two requests one after the other (a pause and a resume between two fires, or Run Now beside the
schedule), one trouble of five kinds. Time, sweeps and fires are not bounded: finished rows are recycled, ages
stop at the last threshold. Requests that overlap are in the table of changed configurations.

### Fairness

Weak fairness of what the code repeats or carries on with; nothing that goes wrong and nothing a person
does is fair.

* DocBatchPipeline: the steps of a live docfetching process (`Fetch`), of a worker that has a task or can get one
  (`Process`), and the periodic task (`HeartbeatTimeout`, `FailNeverStarted`, `CancelAttempt`, `Finalize`), which
  beat schedules every few seconds. AttemptValidation: `Validate` or `Finalize`, heartbeat threads, the
  clock and, for the counters' 15-day expiry, `ExpireCounters`: without it a pending counter that a lost task left
  above zero keeps the monitor waiting for ever, as its mutant shows.
* DocumentCleanup: one weak fairness of `SystemStep`, some step of some worker or beat without trouble. Stronger
  assumptions are not needed, as the bounds leave the system nothing to do but what it must.
* ConnectorDeletion: the beats, `RunCleanup`, the processes under way and every time to live, each weakly.
* UserFiles: the beats, times to live and the steps of each worker weakly; strongly, that a task of each
  kind in the queue is taken again and again. Weak fairness would not do, since workers are busy with other
  kinds at times; Celery's workers serve all the queues they subscribe to in turn.
* InteractiveTurns: the sender, times to live and ageing weakly. A runner needs the lock, which others take and
  release: its steps are strongly fair, as the blocking acquire polls for it. A stream ends within its
  budget (`DEFAULT_INTERACTIVE_TURN_BUDGET_SECONDS`), which is strong fairness of its ending.
* ScheduledRuns: the clock, the dispatcher, the sweeper (both beat tasks) and an executor once it has begun
  (its turns have a timeout, `SANDBOX_TURN_TIMEOUT_SECONDS`), each weakly. `PickUp` is not fair: `ScheduleGoesOn` does
  not need an executor to be there.

Deadlock is checked in the runs of DocBatchPipeline and AttemptValidation; DocBatchPipeline may stop (`Finished`)
only without an active attempt. In the other five modules the system may stop when nothing is left to do and no
one asks for anything (`CHECK_DEADLOCK FALSE`); what must not be left undone is stated as liveness.

## 4. Proofs

All theorems hold for every value of the constants that satisfies the modules' assumptions:
`ConstantsAssumption` (types and finiteness, distinct names) and, in AttemptValidation, `TimeoutAssumption`, which
states in ticks the configuration's comment that the timeout "should be much longer than" the interval.

| Theorem | States | Argument |
|---|---|---|
| `DocBatchPipelineProofs!TypeCorrect` | `Spec => []TypeOK` | `TypeInv` adds where a docfetching process may be in the source (at "send" the number is in range, at "save" the position is a checkpoint), and that a busy worker or monitor has an attempt. |
| `DocBatchPipelineProofs!SuccessCounted` | `Spec => []SuccessMeansCounted` | The property says nothing about the monitor between its read and its mark. `CountInv` adds `TotalSetLast` (the total is written by a process's last step, so the count is not assigned after it) and `SnapshotStands` (what the monitor read remains true until it marks). |
| `DocBatchPipelineProofs!EndedForGood` | `Spec => StaysTerminal` | Action by action, from the same invariants: the only step to an active status from an existing row looks at the status again under the row lock (a cancellation may have come after the verification). |
| `DocBatchPipelineProofs!LifecycleImplemented` | `Spec => ImplementsLifecycle` | Each step is one of AttemptLifecycle or none, with `ClaimInv`: whoever works on an attempt knows one that exists (`WorkKnown`), a window has one claimant (`OneClaimant`), also while the monitor is about to mark a success over a status written meanwhile (`MarkedAlone`). |
| `DocBatchPipelineProofs!OneClaimantAtATime` | `Spec => []OneClaimant` | Part of `ClaimInv`: attempts are created only over a free window, and nothing claims it back. |
| `DocBatchPipelineProofs!ClaimsHold` | `Spec => [](Lifecycle!OneClaim /\ Lifecycle!ClaimsEarned)` | Of the abstract specification (inductive with its types, `LifecycleInv`), and by `LifecycleImplemented` of the pipeline through the mapping. |
| `DocBatchDocumentsProofs!NothingOverwritten` | `Undisturbed /\ Spec => NeverReplacesBatch` | `Numbers`: the number an attempt gives next is above all its files. It resumes from the count of the most recent attempt plus the files left, so what must be shown is that of the batches ever handed out those without a file are counted (`Counted`), that all files belong to the last attempt that could place some (`LastOwns`), and that this is the one the code takes for the most recent (`Ranked`, `PlacedLater`). |
| `DocBatchDocumentsProofs!CompletionFinished` | `Undisturbed /\ Spec => []CompletionMeansFinished` | `Tasks`: a batch of the newest attempt has one task or one worker, or its file is gone or its loss recorded; `completed` plus the batches still open is at most what was handed out (`OpenBound`), so an attempt counted in full has none open. Under this and the next, `WorkerItems` (a worker holds what is on file and indexed it before it counts it). |
| `DocBatchDocumentsProofs!CheckpointsCovered` | `Undisturbed /\ CheckpointedConnector /\ Spec => []CheckpointCovered` | `CoveredOf`: what the source yielded before a checkpoint, or before the position of a process that has one, is accounted for or on file; `InheritsOf`: the window an attempt takes over is that of the last attempt with a checkpoint, so it resumes where the files stop. |
| `DocBatchDocumentsProofs!NothingLost` | `Undisturbed /\ CheckpointedConnector /\ Spec => []NoDocumentLost` | A successful attempt had its checkpoint at the end of the source (`Stages`), everything before it was accounted for or on file, and by the argument of `CompletionFinished` what is on file is accounted for. |
| `AttemptValidationProofs!TypeCorrect` | `Spec => []TypeOK` | Counters stay natural numbers: a handler that runs after the counters were deleted meets the floor. |
| `AttemptValidationProofs!FetchingSafe` | `Spec => FetchingNotInvalidated` | `HeartbeatInv`: while the process lives and no beat is recorded as new, `age` is bounded by the missed beats, the round, and the interval under way (`Lag`); the same for what the round read (`SnapshotLag`); so a round decides on failure only when the process is dead (`DecidedOnCrash`). |
| `AttemptValidationProofs!QueueRespected` | `"restore" \notin Events /\ Spec => QueuedTaskNotFailed` | `ScanInv`: once the scan missed the task in the queue it is not there later, as tasks only leave it. |
| `AttemptValidationProofs!WorkCounted` | `"redis_error" \notin Events /\ Spec => []NoWorkAnywhere` | `WorkInv`: pending + in flight are at least the tasks queued plus the busy workers, plus the batch announced and not yet sent. Each counter alone may be too low after a redelivery, the sum is not. |
| `UserFilesProofs!TypeCorrect` | `Spec => []TypeOK` | `TypeInv` adds which record a worker has at which place, and `HolderWrites`: the holder of the row lock is inside `lock_context`. |
| `UserFilesProofs!DeletedLeavesNothing` | `Spec => []GoneLeavesNothing` | `DeletionAlone`: from the request to delete on, nobody is between the status check of processing and its commit, unless one was there when it was committed; so `ChunksRemoved`: chunks are gone when the row is about to go, and nothing writes them again. |
| `UserFilesProofs!DeletionNeverCompletes` | `Spec => DeletionWins` | From the same invariants; the disjunct without `raced` needs only that `post_index` looks at the status under the row lock. |
| `UserFilesProofs!CompletedHasChunks` | `Spec => []CompletedIsSearchable` | `ChunksThere` adds the place between the write of the chunks and the commit that completes the file; chunks vanish only in a delete task, during which, by `DeletionAlone`, nobody is there. |
| `InteractiveTurnsProofs!TypeCorrect` | `Spec => []TypeOK` | `SlotOK` says at which places a runner may and must hold the prompt slot. |
| `InteractiveTurnsProofs!OneActive` | `Spec => []OneActiveTurn` | `Unpointing`: a turn whose pointer is being removed has ended. A new turn is sent only when the pointer leads to none that is active, so by the property itself no turn is. |
| `InteractiveTurnsProofs!EndedForGood` | `Spec => EndedStaysEnded` | A claim needs an active turn, a finish an owner, and a turn that has ended has none. |
| `InteractiveTurnsProofs!OwnerEnds` | `Spec => EndedByOwner` | Action by action: only the finish of a runner and the failed send write an ended status over a running one, and the first compares the runner under the lock. |
| `DocumentCleanupProofs!TypeCorrect` | `Spec => []TypeOK` | What a thread remembers at each place (`Records`), with chunks never newer than the metadata; `HolderWrites`: the row lock is held exactly between the lock and the commit of indexing. |
| `DocumentCleanupProofs!RowStaysWhileLocked` | `Spec => []LockedRowStays` | Action by action: the delete and the commit of a cleanup wait for the row lock. |
| `DocumentCleanupProofs!NoAccessLeftBehind` | `Spec => []DeletedPairLosesAccess` | `SoloInv`: while no two tasks have overlapped, one thread is at work and one cleanup of a cc_pair is on its way (`OneCleanup`), for a reference that is there, and what a thread read of access is still granted by the references (`AccessRead`), less the one the cleanup is about to remove; so at rest too (`AccessStands`). |
| `DocumentCleanupProofs!SharedDocumentStays` | `Spec => SharedDocumentKept` | From `CleanedReferenced`: a cleanup that decided on DELETE still finds only its own reference when it commits. |
| `ConnectorDeletionProofs!TypeCorrect` | `Spec => []TypeOK` | In parts; ids of new tasks differ from those in the broker and in the task sets (`TaskIds`). |
| `ConnectorDeletionProofs!StopSignalCleared` | `Spec => []NoStopForGone` | `StopCleared`: from the fence being ready for the monitor on, the signal is cleared, and the cc_pair goes only after that. |
| `ScheduledRunsProofs!TypeCorrect` | `Spec => []TypeOK` | `OneClaim` (one tick has the task claimed, which stays due: what would change it waits for the lock) and `FreeRows` (no process holds a row that is not there). |
| `ScheduledRunsProofs!RunsDoNotOverlap` | `Spec => []NoOverlap` | The property says nothing of a tick between its look for runs in flight and its commit: `NothingInFlight` adds that runs in flight by then are ones the sweeper gave up, `AliveInFlight` that an executor at work has a run in flight or given up, so that what it writes resurrects no other. |
| `ScheduledRunsProofs!FiresOnce` | `Spec => FiresOnceWhenDue` | Action by action from `OneClaim`; that no other step inserts a row of the schedule needs `FreeRows`. |
| `ScheduledRunsProofs!EndsStand` | `Spec => EndChangedBySweepOnly` | From `AliveInFlight`. |

The assumptions on `Events` are necessary. In AttemptValidation, TLC violates the first property with `restore`, and
a failed Redis call (which the code logs and forgets) loses a count. `Undisturbed` excludes six of the eighteen
kinds of trouble of DocBatchPipeline (`setup_error`, `early_delivery`, `usage_limit`, `overlap`, `late_crash`,
`late_error`) and a second search setting: for each, and for a connector that is not checkpointed, section 3 has a behaviour
that TLC finds to violate one of the four properties. The constants of Resume and Workers satisfy both
assumptions, so that those runs are instances of the theorems; the theorems add any source and checkpoints,
any number of attempts and workers, all the other kinds of trouble together, and any number of them.

The inductive invariant of the four is `Resumable`, a conjunction of named parts that each need the ones before:

1. `RowInv`: attempts follow one another, and `time_updated` ranks them so that who saved a checkpoint later is the
   more recent. `Stages`: what a docfetching process has written by the time it gets somewhere.
2. `LastOwns`, `Numbers`, `Counted`, `Resumes`: who owns the files and how they are numbered. None is inductive
   alone: reissuing renames files (`LastOwns`), numbers the next batch by a count another attempt's workers
   assigned (`Counted`), and which row gives that count depends on `time_updated`, which heartbeats move (`Ranked`).
3. `TotalBounds`, `WorkerItems`, `Tasks`: where the work on each batch is.
4. `Inherits`, `Covering`: which part of the source is accounted for. Only these need `CheckpointedConnector`.

Only model-checked: all liveness properties. Liveness under fairness is outside what the provers installed
here handle, as are ENABLED, induction over data and RECURSIVE operators (the modules use none).

## 5. Not modelled

Of the modelled components:

* attempts: the lock on their creation and its 30-second expiry, attempts without a task id, the sharing of the
  path prefix `iab/1` by cc_pairs 1 and 10, hierarchy nodes, permission sync during indexing, several attempts in
  one validation round;
* documents: chunk counts, several documents in a batch, the second index of a switch-over, the sync of document
  sets and user groups, which marks documents modified and waits for their tasks;
* deletion and pruning: permission and group sync fences, the creation lock and schedule of pruning, sync records;
* user files: the deployment without a vector database, personas, file descriptors;
* turns: subagents, persistence of the events, the sandbox;
* scheduled runs: the compilation of schedules, approvals and grants, listings.

Components left out, and why:

* targeted reindexing: one task fetches and indexes; no hand-over between processes;
* the switch-over of search settings: one transaction decides it from counts of attempts; what it relies on, that a
  window has one claimant and a success is earned, is AttemptLifecycle;
* chat streaming: a flag in the cache with one reader, the interrupt fence with less at stake;
* cache and locks: taken as given by the models, a lock with a lease and single-key operations; that the
  Postgres backend behaves as Redis does is not examined;
* tenant work gating: how often beats are sent, which every model leaves open;
* the Mynd layer, usage limits: request-scoped lookups and single-statement counters, no protocol between
  processes; the indexing limit is an event of DocBatchPipeline;
* worker lifecycle and monitoring: process start-up, signals, metrics;
* connectors, retrieval, model calls and tools: outside services and data transformation, the environment of the models.

The bulk of the repository by lines is of the last kinds (connectors, API handlers, ORM definitions, clients of
outside services) and keeps no state that several processes change.

## 6. Running it

    tlc -workers 2 -config Resume.cfg MCDocBatchPipeline.tla        (Workers, AnyTrouble)
    tlc -workers 2 -config Validation.cfg MCAttemptValidation.tla   (Counters)
    tlc -workers 2 -config Cleanup.cfg MCDocumentCleanup.tla
    tlc -workers 2 -config Deletion.cfg MCConnectorDeletion.tla     (SharedDocument, DeletingIsFinal)
    tlc -workers 2 -config UserFiles.cfg MCUserFiles.tla
    tlc -workers 2 -config Turns.cfg MCInteractiveTurns.tla
    tlc -workers 2 -config Scheduled.cfg MCScheduledRuns.tla
    tlapm DocBatchPipelineProofs.tla                                (and the other *Proofs modules)

Every passing property has a mutant of the code in `PROJECT.json` (a definition and the operator, marked
"mutant" in the module, that replaces it) under which TLC finds the property violated.
