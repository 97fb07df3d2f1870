-------------------------- MODULE AttemptValidation --------------------------
(***************************************************************************)
(* validate_active_indexing_attempts in detail, for one IndexAttempt: what *)
(* DocBatchPipeline takes as the single actions HeartbeatTimeout and       *)
(* FailNeverStarted.                                                       *)
(*                                                                         *)
(* The docfetching process and every docprocessing task run a thread that  *)
(* increments the attempt's heartbeat counter.  Two counters in Redis tell *)
(* how many batches are pending (sent, not picked up) and in flight        *)
(* (picked up, not done).  check_for_indexing reads the rows of the active *)
(* attempts once, and later decides on what it read, on the clock and on   *)
(* the Redis counters whether the attempt is dead.  For an attempt that    *)
(* has not started it asks the broker for the docfetching task instead.    *)
(*                                                                         *)
(* Time is counted in intervals of the heartbeat                           *)
(* (INDEXING_WORKER_HEARTBEAT_INTERVAL): each running thread beats once    *)
(* between two ticks, or misses.                                           *)
(***************************************************************************)
EXTENDS Integers, FiniteSets

CONSTANTS
    NumBatches,   \* batches of documents the source holds
    Workers,      \* docprocessing worker threads
    Timeout,      \* HEARTBEAT_TIMEOUT_SECONDS, in ticks
    MaxRound,     \* bound: ticks between reading an attempt and evaluating it
    MaxMissed,    \* bound: heartbeats whose UPDATE fails
    Events,       \* the kinds of trouble a behaviour may contain
    MaxEvents     \* bound: how many of them

EventKinds == {"fetcher_crash", "lost_task", "restore", "worker_crash", "batch_error",
               "lost_batch", "redis_error"}

ASSUME ConstantsAssumption ==
    /\ NumBatches \in Nat \ {0} /\ IsFiniteSet(Workers)
    /\ Timeout \in Nat /\ MaxRound \in Nat \ {0} /\ MaxMissed \in Nat
    /\ Events \subseteq EventKinds /\ MaxEvents \in Nat

\* "This should be much longer than INDEXING_WORKER_HEARTBEAT_INTERVAL"
ASSUME TimeoutAssumption == Timeout > MaxMissed + MaxRound + 1

Active == {"NOT_STARTED", "IN_PROGRESS"}
Terminal == {"SUCCESS", "FAILED"}

VARIABLES
    status,      \* the row's status
    total,       \* total_batches is set
    completed,   \* completed_batches
    tracked,     \* last_heartbeat_time is set
    advanced,    \* heartbeat_counter > last_heartbeat_value
    age,         \* ticks since last_heartbeat_time, up to Timeout
    pending,     \* docprocessing_pending_{id}
    inFlight,    \* docprocessing_in_flight_{id}
    queued,      \* docprocessing tasks of the attempt in the broker
    fetcher,     \* the docfetching task, then its process
    sent,        \* batches it has sent
    fetcherDue,  \* it has yet to beat in this interval
    worker,      \* what each worker thread does for the attempt
    due,         \* the workers that have yet to beat in this interval
    missed,      \* heartbeats missed so far
    monitor,     \* check_for_indexing, under its beat lock
    spent        \* how many Events have happened

row == <<status, total, completed>>
tracking == <<tracked, age>>
counters == <<pending, inFlight>>
fetching == <<fetcher, sent, fetcherDue>>
working == <<worker, due>>
vars == <<row, tracking, advanced, counters, queued, fetching, working, missed,
          monitor, spent>>

-----------------------------------------------------------------------------
Happens(kind) == kind \in Events /\ spent < MaxEvents /\ spent' = spent + 1

\* A call to Redis goes through, or raises, which is logged and forgotten
Redis(update) == \/ update /\ UNCHANGED spent
                 \/ Happens("redis_error") /\ UNCHANGED counters

\* mark_attempt_failed and its like: the status is overwritten and the
\* counters are deleted
Mark(st) == status' = st /\ pending' = 0 /\ inFlight' = 0

\* heartbeat_counter + 1
Beat == advanced' = TRUE /\ monitor' = [monitor EXCEPT !.since = TRUE]

\* The Lua scripts do not go below zero
DecrementedAnyway(n) == n - 1    \* mutant
Decremented(n) == IF n > 0 THEN n - 1 ELSE 0

FetcherAlive == fetcher \in {"starting", "fetching", "sending"}
Beating == {w \in Workers : worker[w] = "working"}
Busy == {w \in Workers : worker[w] # "idle"}

IdleMonitor == [pc |-> "idle", advanced |-> FALSE, since |-> FALSE, total |-> FALSE,
                round |-> 0, inFlight |-> 0]

Init ==
    /\ status = "NOT_STARTED" /\ total = FALSE /\ completed = 0
    /\ tracked = FALSE /\ advanced = FALSE /\ age = 0
    /\ pending = 0 /\ inFlight = 0 /\ queued = 0
    /\ fetcher = "queued" /\ sent = 0 /\ fetcherDue = FALSE
    /\ worker = [w \in Workers |-> "idle"] /\ due = {}
    /\ missed = 0 /\ monitor = IdleMonitor /\ spent = 0

-----------------------------------------------------------------------------
(***************************************************************************)
(* The docfetching task and its process                                    *)
(***************************************************************************)

\* The broker delivers the task to a docfetching worker, which keeps it in
\* the unacked hash until it starts on it
Prefetch ==
    /\ fetcher = "queued" /\ fetcher' = "prefetched"
    /\ UNCHANGED <<row, tracking, advanced, counters, queued, sent, fetcherDue, working,
                   missed, monitor, spent>>

\* acks_late=False: the task is acknowledged, the process is spawned and its
\* heartbeat started
TakeTask ==
    /\ fetcher = "prefetched" /\ fetcher' = "starting" /\ fetcherDue' = FALSE
    /\ UNCHANGED <<row, tracking, advanced, counters, queued, sent, working, missed,
                   monitor, spent>>

\* transition_attempt_to_in_progress, for an attempt that is still to start
StartFetching ==
    /\ fetcher = "starting"
    /\ IF status = "NOT_STARTED"
         THEN status' = "IN_PROGRESS" /\ fetcher' = "fetching" /\ UNCHANGED fetcherDue
         ELSE UNCHANGED status /\ fetcher' = "exited" /\ fetcherDue' = FALSE
    /\ UNCHANGED <<total, completed, tracking, advanced, counters, queued, sent, working,
                   missed, monitor, spent>>

\* A batch is counted as pending first ...
CountPending ==
    /\ fetcher = "fetching" /\ status = "IN_PROGRESS" /\ sent < NumBatches
    /\ fetcher' = "sending" /\ Redis(pending' = pending + 1 /\ UNCHANGED inFlight)
    /\ UNCHANGED <<row, tracking, advanced, queued, sent, fetcherDue, working, missed, monitor>>

\* ... then its task is sent
SendTask ==
    /\ fetcher = "sending"
    /\ fetcher' = "fetching" /\ queued' = queued + 1 /\ sent' = sent + 1
    /\ UNCHANGED <<row, tracking, advanced, counters, fetcherDue, working, missed,
                   monitor, spent>>

\* All batches are sent: total_batches is set.  Or the attempt no longer runs.
FinishFetching ==
    /\ fetcher = "fetching" /\ (status # "IN_PROGRESS" \/ sent = NumBatches)
    /\ total' = (total \/ sent = NumBatches)
    /\ fetcher' = "exited" /\ fetcherDue' = FALSE
    /\ UNCHANGED <<status, completed, tracking, advanced, counters, queued, sent, working,
                   missed, monitor, spent>>

Fetch == Prefetch \/ TakeTask \/ StartFetching \/ CountPending \/ SendTask \/ FinishFetching

\* The process dies together with the watchdog that would mark the attempt
CrashFetcher ==
    /\ FetcherAlive /\ Happens("fetcher_crash")
    /\ fetcher' = "exited" /\ fetcherDue' = FALSE
    /\ UNCHANGED <<row, tracking, advanced, counters, queued, sent, working, missed, monitor>>

\* The task is lost before its process starts
LoseTask ==
    /\ fetcher \in {"queued", "prefetched"} /\ Happens("lost_task")
    /\ fetcher' = "exited"
    /\ UNCHANGED <<row, tracking, advanced, counters, queued, sent, fetcherDue, working,
                   missed, monitor>>

\* The worker that prefetched the task shuts down: it goes back to the queue
RestoreTask ==
    /\ fetcher = "prefetched" /\ Happens("restore")
    /\ fetcher' = "queued"
    /\ UNCHANGED <<row, tracking, advanced, counters, queued, sent, fetcherDue, working,
                   missed, monitor>>

-----------------------------------------------------------------------------
(***************************************************************************)
(* The docprocessing workers                                               *)
(***************************************************************************)

\* on_docprocessing_task_prerun: a heartbeat ...
TakeBatch(w) ==
    /\ worker[w] = "idle" /\ queued > 0
    /\ queued' = queued - 1 /\ worker' = [worker EXCEPT ![w] = "prerun"]
    /\ Beat
    /\ UNCHANGED <<row, tracking, counters, fetching, due, missed, spent>>

\* ... then the batch moves from pending to in flight, and the task starts its
\* heartbeat thread
ForgetPending == pending' = Decremented(pending) /\ UNCHANGED inFlight    \* mutant
MovePending == pending' = Decremented(pending) /\ inFlight' = inFlight + 1

PickUp(w) ==
    /\ worker[w] = "prerun"
    /\ Redis(MovePending)
    /\ worker' = [worker EXCEPT ![w] = "working"]
    /\ UNCHANGED <<row, tracking, advanced, queued, fetching, due, missed, monitor>>

StopWorking(w) ==
    /\ worker[w] = "working"
    /\ worker' = [worker EXCEPT ![w] = "postrun"] /\ due' = due \ {w}

\* The batch is processed; a task of an ended attempt raises instead
CompleteBatch(w) ==
    /\ StopWorking(w)
    /\ completed' = IF status \in Terminal THEN completed ELSE completed + 1
    /\ UNCHANGED <<status, total, tracking, advanced, counters, queued, fetching, missed,
                   monitor, spent>>

\* The task raises: the batch is not counted
FailBatch(w) ==
    /\ StopWorking(w) /\ Happens("batch_error")
    /\ UNCHANGED <<row, tracking, advanced, counters, queued, fetching, missed, monitor>>

\* on_docprocessing_task_postrun
PostRun(w) ==
    /\ worker[w] = "postrun"
    /\ Redis(inFlight' = Decremented(inFlight) /\ UNCHANGED pending)
    /\ worker' = [worker EXCEPT ![w] = "idle"]
    /\ UNCHANGED <<row, tracking, advanced, queued, fetching, due, missed, monitor>>

Process(w) == TakeBatch(w) \/ PickUp(w) \/ CompleteBatch(w) \/ PostRun(w)

\* The worker dies before it counts its batch and the task is delivered again; no
\* signal handler runs.  DocBatchPipeline has the deaths after the count.
CrashWorker(w) ==
    /\ worker[w] \in {"prerun", "working"} /\ Happens("worker_crash")
    /\ worker' = [worker EXCEPT ![w] = "idle"] /\ due' = due \ {w}
    /\ queued' = queued + 1
    /\ UNCHANGED <<row, tracking, advanced, counters, fetching, missed, monitor>>

\* The broker loses a docprocessing task
LoseBatch ==
    /\ queued > 0 /\ Happens("lost_batch")
    /\ queued' = queued - 1
    /\ UNCHANGED <<row, tracking, advanced, counters, fetching, working, missed, monitor>>

\* The keys of the counters expire, 15 days after they were first set, "long
\* enough that no legitimate sync will hit it": nothing works on the attempt
NeverExpires == FALSE    \* mutant: the keys have no expiry
ExpireCounters ==
    /\ queued = 0 /\ Busy = {} /\ ~FetcherAlive
    /\ \/ pending > 0 /\ pending' = 0 /\ UNCHANGED inFlight
       \/ inFlight > 0 /\ inFlight' = 0 /\ UNCHANGED pending
    /\ UNCHANGED <<row, tracking, advanced, queued, fetching, working, missed, monitor, spent>>

-----------------------------------------------------------------------------
(***************************************************************************)
(* Heartbeats and the clock                                                *)
(***************************************************************************)

\* One round of heartbeat_loop in the docfetching process ...
FetcherBeat ==
    /\ fetcherDue /\ fetcherDue' = FALSE
    /\ \/ Beat /\ UNCHANGED missed
       \/ missed < MaxMissed /\ missed' = missed + 1 /\ UNCHANGED <<advanced, monitor>>
    /\ UNCHANGED <<row, tracking, counters, queued, fetcher, sent, working, spent>>

\* ... and in a docprocessing task
WorkerBeat(w) ==
    /\ w \in due /\ due' = due \ {w}
    /\ \/ Beat /\ UNCHANGED missed
       \/ missed < MaxMissed /\ missed' = missed + 1 /\ UNCHANGED <<advanced, monitor>>
    /\ UNCHANGED <<row, tracking, counters, queued, fetching, worker, spent>>

\* An interval passes: longer than a signal handler takes.  A validation round
\* evaluates what it read within MaxRound of them, the beat lock being extended
\* for every attempt.
Tick ==
    /\ ~fetcherDue /\ due = {} /\ Busy = Beating
    /\ monitor.pc = "evaluate" => monitor.round < MaxRound
    /\ fetcherDue' = FetcherAlive /\ due' = Beating
    /\ age' = IF tracked /\ age < Timeout THEN age + 1 ELSE age
    /\ monitor' = IF monitor.pc = "evaluate" THEN [monitor EXCEPT !.round = @ + 1] ELSE monitor
    /\ UNCHANGED <<row, tracked, advanced, counters, queued, fetcher, sent, worker, missed,
                   spent>>

-----------------------------------------------------------------------------
(***************************************************************************)
(* check_for_indexing: validation, then finalization                       *)
(***************************************************************************)
Proceed(pc) == monitor' = [monitor EXCEPT !.pc = pc]
Done == monitor' = [IdleMonitor EXCEPT !.pc = "finalize"]

\* The active attempts are read.  Reading a row again in the same session
\* returns the object as it was first read.
ReadAttempt ==
    /\ monitor.pc = "idle" /\ status \in Active
    /\ monitor' = [IdleMonitor EXCEPT
            !.pc = IF status = "IN_PROGRESS" THEN "evaluate" ELSE "queued_ids",
            !.advanced = advanced, !.total = total]
    /\ UNCHANGED <<row, tracking, advanced, counters, queued, fetching, working, missed, spent>>

\* last_heartbeat_value and last_heartbeat_time are set when the attempt is seen
\* for the first time, or its heartbeat was seen to advance
SeenOnce == ~tracked    \* mutant: a heartbeat seen to advance does not count
SeenAlive == ~tracked \/ monitor.advanced

Evaluate ==
    /\ monitor.pc = "evaluate"
    /\ IF SeenAlive
         THEN tracked' = TRUE /\ age' = 0 /\ advanced' = monitor.since /\ Done
         ELSE /\ UNCHANGED <<tracking, advanced>>
              /\ IF age < Timeout THEN Done
                 ELSE Proceed(IF monitor.total THEN "in_flight" ELSE "invalidate")
    /\ UNCHANGED <<row, counters, queued, fetching, working, missed, spent>>

\* The Redis counters are read one after the other
ReadInFlight ==
    /\ monitor.pc = "in_flight"
    /\ monitor' = [monitor EXCEPT !.pc = "pending", !.inFlight = inFlight]
    /\ UNCHANGED <<row, tracking, advanced, counters, queued, fetching, working, missed, spent>>

ReadPending ==
    /\ monitor.pc = "pending"
    /\ IF monitor.inFlight = 0 /\ pending > 0 THEN Done ELSE Proceed("invalidate")
    /\ UNCHANGED <<row, tracking, advanced, counters, queued, fetching, working, missed, spent>>

\* A counter cannot be read: both count as zero
FailReading ==
    /\ monitor.pc \in {"in_flight", "pending"} /\ Happens("redis_error")
    /\ Proceed("invalidate")
    /\ UNCHANGED <<row, tracking, advanced, counters, queued, fetching, working, missed>>

\* The heartbeat is stale: the attempt is marked failed
Invalidate ==
    /\ monitor.pc = "invalidate"
    /\ Mark("FAILED") /\ Done
    /\ UNCHANGED <<total, completed, tracking, advanced, queued, fetching, working, missed, spent>>

\* An attempt that was read as NOT_STARTED (and is 12 hours old): is its
\* docfetching task in the queue ...
ReadQueuedIds ==
    /\ monitor.pc = "queued_ids"
    /\ IF fetcher = "queued" THEN Done ELSE Proceed("unacked_ids")
    /\ UNCHANGED <<row, tracking, advanced, counters, queued, fetching, working, missed, spent>>

\* ... or prefetched by a worker?
NotUnacked == FALSE    \* mutant: the unacked hash is not looked at
Unacked == fetcher = "prefetched"

ReadUnackedIds ==
    /\ monitor.pc = "unacked_ids"
    /\ IF Unacked THEN Done ELSE Proceed("lost")
    /\ UNCHANGED <<row, tracking, advanced, counters, queued, fetching, working, missed, spent>>

\* Neither.  After the sleep the attempt is read again, in the same session, so
\* that it is NOT_STARTED as before, and marked failed.
FailNeverStarted ==
    /\ monitor.pc = "lost"
    /\ Mark("FAILED") /\ Done
    /\ UNCHANGED <<total, completed, tracking, advanced, queued, fetching, working, missed, spent>>

Validate == \/ ReadAttempt \/ Evaluate \/ ReadInFlight \/ ReadPending \/ Invalidate
            \/ ReadQueuedIds \/ ReadUnackedIds \/ FailNeverStarted

\* check_indexing_completion, also when validation was blocked or raised
Finalize ==
    /\ monitor.pc \in {"idle", "finalize"}
    /\ LET finished == status \in Active /\ total /\ completed >= NumBatches
       IN  /\ finished \/ monitor.pc = "finalize"
           /\ IF finished THEN Mark("SUCCESS") ELSE UNCHANGED <<status, counters>>
    /\ monitor' = IdleMonitor
    /\ UNCHANGED <<total, completed, tracking, advanced, queued, fetching, working, missed, spent>>

-----------------------------------------------------------------------------
Next ==
    \/ Fetch \/ CrashFetcher \/ LoseTask \/ RestoreTask
    \/ \E w \in Workers : Process(w) \/ FailBatch(w) \/ CrashWorker(w) \/ WorkerBeat(w)
    \/ LoseBatch \/ ExpireCounters
    \/ FetcherBeat \/ Tick
    \/ Validate \/ FailReading \/ Finalize

Spec == Init /\ [][Next]_vars

\* Processes take their next step, threads beat, time passes, keys expire, and
\* beat keeps running check_for_indexing
Fairness ==
    /\ WF_vars(Fetch) /\ WF_vars(FetcherBeat) /\ WF_vars(Tick)
    /\ \A w \in Workers : WF_vars(Process(w)) /\ WF_vars(WorkerBeat(w))
    /\ WF_vars(ExpireCounters) /\ WF_vars(Validate \/ Finalize)

FairSpec == Spec /\ Fairness

-----------------------------------------------------------------------------
(***************************************************************************)
(* Properties                                                              *)
(***************************************************************************)
MonitorPcs == {"idle", "evaluate", "in_flight", "pending", "invalidate",
               "queued_ids", "unacked_ids", "lost", "finalize"}
MonitorType == [pc : MonitorPcs, advanced : BOOLEAN, since : BOOLEAN, total : BOOLEAN,
                round : 0..MaxRound, inFlight : Nat]

TypeOK ==
    /\ status \in Active \union Terminal
    /\ total \in BOOLEAN /\ completed \in Nat
    /\ tracked \in BOOLEAN /\ advanced \in BOOLEAN /\ age \in 0..Timeout
    /\ pending \in Nat /\ inFlight \in Nat /\ queued \in Nat
    /\ fetcher \in {"queued", "prefetched", "starting", "fetching", "sending", "exited"}
    /\ sent \in 0..NumBatches /\ fetcherDue \in BOOLEAN
    /\ worker \in [Workers -> {"idle", "prerun", "working", "postrun"}]
    /\ due \subseteq Workers
    /\ missed \in 0..MaxMissed /\ spent \in 0..MaxEvents
    /\ monitor \in MonitorType

\* "a stale heartbeat here means a real crash": the heartbeat check never fails
\* an attempt while its docfetching process is alive, although it decides on a
\* row read earlier and heartbeats may be missed.
FetchingNotInvalidated ==
    [][Invalidate => ~FetcherAlive]_vars

\* "in_flight = 0, pending = 0 -> no work anywhere": as long as the attempt is
\* active, no batch is in the queue or with a worker when both counters are zero,
\* crashes and redeliveries included.
NoWorkAnywhere ==
    status \in Active /\ pending = 0 /\ inFlight = 0 => queued = 0 /\ Busy = {}

\* "if the task is still there we leave it alone": the scan for attempts that
\* never started does not fail one whose task waits in the queue or with a worker.
QueuedTaskNotFailed ==
    [][FailNeverStarted => fetcher \notin {"queued", "prefetched"}]_vars

\* Whatever crashed or was lost, the attempt is finished or failed in the end.
EveryAttemptResolved == status \in Active ~> status \in Terminal
=============================================================================
