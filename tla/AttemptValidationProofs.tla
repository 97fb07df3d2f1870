----------------------- MODULE AttemptValidationProofs -----------------------
(***************************************************************************)
(* Proofs about AttemptValidation, for every value of its constants: its   *)
(* type invariant, that the heartbeat check spares a live docfetching      *)
(* process, that the scan spares a queued task when none is restored, and  *)
(* that counters at zero mean no work when every call to Redis succeeds.   *)
(***************************************************************************)
EXTENDS AttemptValidation, FiniteSetTheorems, TLAPS

-----------------------------------------------------------------------------
(***************************************************************************)
(* Type correctness                                                        *)
(***************************************************************************)

\* A batch that is announced is one of the source's
TypeInv == TypeOK /\ (fetcher = "sending" => sent < NumBatches)


\* How the record of a validation round changes: the round ends ...
LEMMA DoneType == Done => monitor' \in MonitorType /\ monitor'.pc = "finalize"
<1>1. IdleMonitor \in MonitorType
  BY ConstantsAssumption DEF ConstantsAssumption, IdleMonitor, MonitorType, MonitorPcs
<1> QED BY <1>1 DEF Done, MonitorType, MonitorPcs

\* ... goes on to its next step ...
LEMMA ProceedType ==
    ASSUME NEW pc \in MonitorPcs, monitor \in MonitorType, Proceed(pc)
    PROVE  monitor' = [monitor EXCEPT !.pc = pc] /\ monitor' \in MonitorType
BY DEF Proceed, MonitorType

\* ... or a thread beats.
LEMMA BeatType ==
    ASSUME monitor \in MonitorType, Beat
    PROVE  advanced' = TRUE /\ monitor' \in MonitorType
BY DEF Beat, MonitorType

\* The initial states are well typed.
LEMMA TypeInit == Init => TypeInv
<1> SUFFICES ASSUME Init PROVE TypeInv OBVIOUS
<1>1. monitor \in MonitorType
  BY ConstantsAssumption
  DEF ConstantsAssumption, Init, IdleMonitor, MonitorType, MonitorPcs
<1>2. /\ age \in 0..Timeout /\ sent \in 0..NumBatches
      /\ missed \in 0..MaxMissed /\ spent \in 0..MaxEvents
  BY ConstantsAssumption DEF ConstantsAssumption, Init
<1>3. due \subseteq Workers /\ worker \in [Workers -> {"idle", "prerun", "working", "postrun"}]
  BY DEF Init
<1> QED BY <1>1, <1>2, <1>3 DEF Init, TypeInv, TypeOK, Active, Terminal

\* Every step of the docfetching task and its process keeps the types.
LEMMA FetchTypes ==
    ASSUME TypeInv, Fetch \/ CrashFetcher \/ LoseTask \/ RestoreTask \/ FetcherBeat
    PROVE  TypeInv'
<1> USE ConstantsAssumption DEF ConstantsAssumption, TypeInv, TypeOK, row, tracking, counters,
        fetching, working, Active, Terminal, Happens, Redis
<1>1. CASE Prefetch BY <1>1 DEF Prefetch
<1>2. CASE TakeTask BY <1>2 DEF TakeTask
<1>3. CASE StartFetching BY <1>3 DEF StartFetching
<1>4. CASE CountPending BY <1>4 DEF CountPending
<1>5. CASE SendTask BY <1>5 DEF SendTask
<1>6. CASE FinishFetching BY <1>6 DEF FinishFetching
<1>7. CASE CrashFetcher
  <2>1. fetcher' = "exited" /\ spent' \in 0..MaxEvents BY <1>7 DEF CrashFetcher
  <2> QED BY <1>7, <2>1 DEF CrashFetcher
<1>8. CASE LoseTask BY <1>8 DEF LoseTask
<1>9. CASE RestoreTask BY <1>9 DEF RestoreTask
<1>10. CASE FetcherBeat
  <2>1. advanced' \in BOOLEAN /\ monitor' \in MonitorType
    BY <1>10, BeatType DEF FetcherBeat
  <2>2. missed' \in 0..MaxMissed BY <1>10 DEF FetcherBeat
  <2> QED BY <1>10, <2>1, <2>2 DEF FetcherBeat
<1> QED BY <1>1, <1>2, <1>3, <1>4, <1>5, <1>6, <1>7, <1>8, <1>9, <1>10 DEF Fetch

\* Every step of a worker and of the broker keeps the types.
LEMMA WorkerTypes ==
    ASSUME TypeInv,
           \/ \E w \in Workers : Process(w) \/ FailBatch(w) \/ CrashWorker(w) \/ WorkerBeat(w)
           \/ LoseBatch \/ ExpireCounters
    PROVE  TypeInv'
<1> USE ConstantsAssumption DEF ConstantsAssumption, TypeInv, TypeOK, row, tracking, counters,
        fetching, working, Happens, Redis, Decremented, MovePending, StopWorking
<1>1. CASE LoseBatch BY <1>1 DEF LoseBatch
<1>2. CASE ExpireCounters BY <1>2 DEF ExpireCounters
<1>3. ASSUME NEW w \in Workers,
             Process(w) \/ FailBatch(w) \/ CrashWorker(w) \/ WorkerBeat(w)
      PROVE  TypeInv'
  <2>1. CASE TakeBatch(w) BY <2>1, BeatType DEF TakeBatch
  <2>2. CASE PickUp(w) BY <2>2 DEF PickUp
  <2>3. CASE CompleteBatch(w) BY <2>3 DEF CompleteBatch
  <2>4. CASE PostRun(w) BY <2>4 DEF PostRun
  <2>5. CASE FailBatch(w) BY <2>5 DEF FailBatch
  <2>6. CASE CrashWorker(w) BY <2>6 DEF CrashWorker
  <2>7. CASE WorkerBeat(w)
    <3>1. advanced' \in BOOLEAN /\ monitor' \in MonitorType
      BY <2>7, BeatType DEF WorkerBeat
    <3>2. missed' \in 0..MaxMissed BY <2>7 DEF WorkerBeat
    <3> QED BY <2>7, <3>1, <3>2 DEF WorkerBeat
  <2> QED BY <1>3, <2>1, <2>2, <2>3, <2>4, <2>5, <2>6, <2>7 DEF Process
<1> QED BY <1>1, <1>2, <1>3

\* Every step of the clock and of check_for_indexing keeps the types.
LEMMA MonitorTypes ==
    ASSUME TypeInv, Tick \/ Validate \/ FailReading \/ Finalize
    PROVE  TypeInv'
<1> USE ConstantsAssumption DEF ConstantsAssumption, TypeInv, TypeOK, row, tracking, counters,
        fetching, working, Happens, Mark, Active, Terminal
<1> monitor \in MonitorType OBVIOUS
<1>1. CASE Tick
  <2>1. monitor' \in MonitorType BY <1>1 DEF Tick, MonitorType, MonitorPcs
  <2>2. age' \in 0..Timeout BY <1>1 DEF Tick
  <2> QED BY <1>1, <2>1, <2>2 DEF Tick, FetcherAlive, Beating
<1>2. CASE ReadAttempt
  <2>1. monitor' \in MonitorType
    <3> DEFINE pc == IF status = "IN_PROGRESS" THEN "evaluate" ELSE "queued_ids"
    <3>1. pc \in MonitorPcs BY DEF MonitorPcs
    <3>2. monitor' = [pc |-> pc, advanced |-> advanced, since |-> FALSE, total |-> total,
                      round |-> 0, inFlight |-> 0]
      BY <1>2 DEF ReadAttempt, IdleMonitor
    <3> QED BY <3>1, <3>2 DEF MonitorType
  <2> QED BY <1>2, <2>1 DEF ReadAttempt
<1>3. CASE Evaluate
  <2>1. monitor.since \in BOOLEAN BY DEF MonitorType
  <2>2. "in_flight" \in MonitorPcs /\ "invalidate" \in MonitorPcs BY DEF MonitorPcs
  <2>3. CASE SeenAlive BY <1>3, <2>1, <2>3, DoneType DEF Evaluate
  <2>4. CASE ~SeenAlive
    <3>1. monitor' \in MonitorType BY <1>3, <2>2, <2>4, DoneType, ProceedType DEF Evaluate
    <3> QED BY <1>3, <2>4, <3>1 DEF Evaluate
  <2> QED BY <2>3, <2>4
<1>4. CASE ReadInFlight
  <2>1. monitor' \in MonitorType BY <1>4 DEF ReadInFlight, MonitorType, MonitorPcs
  <2> QED BY <1>4, <2>1 DEF ReadInFlight
<1>5. CASE ReadPending
  <2>1. monitor' \in MonitorType BY <1>5, DoneType, ProceedType DEF ReadPending, MonitorPcs
  <2> QED BY <1>5, <2>1 DEF ReadPending
<1>6. CASE FailReading
  <2>1. monitor' \in MonitorType BY <1>6, ProceedType DEF FailReading, MonitorPcs
  <2> QED BY <1>6, <2>1 DEF FailReading
<1>7. CASE Invalidate BY <1>7, DoneType DEF Invalidate
<1>8. CASE ReadQueuedIds
  <2>1. monitor' \in MonitorType BY <1>8, DoneType, ProceedType DEF ReadQueuedIds, MonitorPcs
  <2> QED BY <1>8, <2>1 DEF ReadQueuedIds
<1>9. CASE ReadUnackedIds
  <2>1. monitor' \in MonitorType BY <1>9, DoneType, ProceedType DEF ReadUnackedIds, MonitorPcs
  <2> QED BY <1>9, <2>1 DEF ReadUnackedIds
<1>10. CASE FailNeverStarted BY <1>10, DoneType DEF FailNeverStarted
<1>11. CASE Finalize
  <2>1. monitor' \in MonitorType
    BY <1>11 DEF Finalize, MonitorType, MonitorPcs, IdleMonitor
  <2> QED BY <1>11, <2>1 DEF Finalize
<1> QED BY <1>1, <1>2, <1>3, <1>4, <1>5, <1>6, <1>7, <1>8, <1>9, <1>10, <1>11 DEF Validate

\* So does a step that changes nothing.
LEMMA TypeStep == TypeInv /\ [Next]_vars => TypeInv'
<1> SUFFICES ASSUME TypeInv, [Next]_vars PROVE TypeInv'
    OBVIOUS
<1>1. CASE UNCHANGED vars
  BY <1>1 DEF TypeInv, TypeOK, vars, row, tracking, counters, fetching, working
<1>2. CASE Next
  BY <1>2, FetchTypes, WorkerTypes, MonitorTypes DEF Next
<1> QED BY <1>1, <1>2

\* Rows, counters, queues, threads and the validation round stay well typed; in
\* particular no counter in Redis ever goes below zero, late handlers included.
THEOREM TypeCorrect == Spec => []TypeOK
<1>1. Init => TypeInv BY TypeInit
<1>2. TypeInv /\ [Next]_vars => TypeInv' BY TypeStep
<1>3. TypeInv => TypeOK BY DEF TypeInv
<1> QED BY <1>1, <1>2, <1>3, PTL DEF Spec

-----------------------------------------------------------------------------
(***************************************************************************)
(* The heartbeat check spares a live docfetching process.  While it lives, *)
(* the ticks since last_heartbeat_time without an increment are bounded by *)
(* the increments it missed, and so are those of the row read by the       *)
(* validation round, up to the length of the round; Timeout is above that. *)
(***************************************************************************)
Started == fetcher \in {"fetching", "sending", "exited"}
Deciding == monitor.pc \in {"in_flight", "pending", "invalidate"}

DueWhenAlive == fetcherDue => FetcherAlive
TrackedWhenStarted ==
    status = "IN_PROGRESS" \/ tracked \/ monitor.pc = "evaluate" \/ Deciding => Started
Lag ==
    tracked /\ FetcherAlive /\ ~advanced =>
        age <= IF fetcherDue THEN missed + 1 ELSE missed
SnapshotLag ==
    monitor.pc = "evaluate" /\ tracked /\ FetcherAlive /\ ~monitor.advanced =>
        age <= missed + monitor.round + 1
DecidedOnCrash == Deciding => ~FetcherAlive

HeartbeatInv == DueWhenAlive /\ TrackedWhenStarted /\ Lag /\ SnapshotLag /\ DecidedOnCrash

\* What the invariant speaks of, apart from the status
heartbeatVars == <<tracked, advanced, age, fetcher, fetcherDue, missed, monitor>>

\* A step that leaves all that alone and starts no attempt keeps the invariant.
LEMMA HeartbeatAlone ==
    ASSUME HeartbeatInv, UNCHANGED heartbeatVars,
           status' = "IN_PROGRESS" => status = "IN_PROGRESS"
    PROVE  HeartbeatInv'
BY DEF HeartbeatInv, heartbeatVars, DueWhenAlive, TrackedWhenStarted, Lag, SnapshotLag,
       DecidedOnCrash, Started, Deciding, FetcherAlive

\* An increment of the heartbeat counter, or a missed one, by any thread.
LEMMA HeartbeatAfterBeat ==
    ASSUME TypeInv, HeartbeatInv,
           \/ Beat /\ UNCHANGED missed
           \/ missed' = missed + 1 /\ UNCHANGED <<advanced, monitor>>,
           UNCHANGED <<status, tracked, age, fetcher>>,
           \/ UNCHANGED fetcherDue
           \/ fetcherDue' = FALSE /\ (UNCHANGED missed => Beat)
    PROVE  HeartbeatInv'
<1> USE DEF HeartbeatInv, DueWhenAlive, TrackedWhenStarted, Lag, SnapshotLag,
        DecidedOnCrash, Started, Deciding, FetcherAlive
<1>0. age \in Nat /\ missed \in Nat /\ monitor \in MonitorType /\ monitor.round \in Nat
  BY ConstantsAssumption DEF ConstantsAssumption, TypeInv, TypeOK, MonitorType
<1>1. CASE Beat /\ UNCHANGED missed
  <2>1. advanced' = TRUE BY <1>1 DEF Beat
  <2>2. monitor'.pc = monitor.pc /\ monitor'.advanced = monitor.advanced
        /\ monitor'.round = monitor.round
    BY <1>0, <1>1 DEF Beat, MonitorType
  <2> QED BY <1>0, <1>1, <2>1, <2>2
<1>2. CASE missed' = missed + 1 /\ UNCHANGED <<advanced, monitor>>
  BY <1>0, <1>2
<1> QED BY <1>1, <1>2

\* The invariant holds initially.
LEMMA HeartbeatInit == Init => HeartbeatInv
BY DEF Init, HeartbeatInv, DueWhenAlive, TrackedWhenStarted, Lag, SnapshotLag,
       DecidedOnCrash, Started, Deciding, FetcherAlive, IdleMonitor

\* The docfetching task and its process: once started it only moves on, and it
\* is no longer alive when it exits.
LEMMA HeartbeatFetch ==
    ASSUME TypeInv, HeartbeatInv, Fetch \/ CrashFetcher \/ LoseTask \/ RestoreTask
    PROVE  HeartbeatInv'
<1> USE DEF HeartbeatInv, DueWhenAlive, TrackedWhenStarted, Lag, SnapshotLag,
        DecidedOnCrash, Started, Deciding, FetcherAlive, row, tracking
<1>1. CASE Prefetch BY <1>1 DEF Prefetch
<1>2. CASE TakeTask BY <1>2 DEF TakeTask
<1>3. CASE StartFetching BY <1>3 DEF StartFetching
<1>4. CASE CountPending BY <1>4 DEF CountPending
<1>5. CASE SendTask BY <1>5 DEF SendTask
<1>6. CASE FinishFetching BY <1>6 DEF FinishFetching
<1>7. CASE CrashFetcher BY <1>7 DEF CrashFetcher
<1>8. CASE LoseTask BY <1>8 DEF LoseTask
<1>9. CASE RestoreTask BY <1>9 DEF RestoreTask
<1> QED BY <1>1, <1>2, <1>3, <1>4, <1>5, <1>6, <1>7, <1>8, <1>9 DEF Fetch

\* A tick comes only after the process has beaten or missed.
LEMMA HeartbeatTick ==
    ASSUME TypeInv, HeartbeatInv, Tick
    PROVE  HeartbeatInv'
<1> USE DEF HeartbeatInv, DueWhenAlive, TrackedWhenStarted, Lag, SnapshotLag,
        DecidedOnCrash, Started, Deciding, FetcherAlive
<1>0. age \in Nat /\ missed \in Nat /\ monitor \in MonitorType /\ monitor.round \in Nat
  BY ConstantsAssumption DEF ConstantsAssumption, TypeInv, TypeOK, MonitorType
<1>1. UNCHANGED <<status, tracked, advanced, fetcher, missed>> /\ fetcherDue' = FetcherAlive
  BY DEF Tick, row
<1>2. age' <= age + 1 BY <1>0 DEF Tick
<1>3. /\ monitor'.pc = monitor.pc /\ monitor'.advanced = monitor.advanced
      /\ monitor.pc = "evaluate" => monitor'.round = monitor.round + 1
  BY <1>0 DEF Tick, MonitorType
<1>4. age' \in Nat BY <1>0 DEF Tick
<1>5. Lag'
  <2> SUFFICES ASSUME tracked, FetcherAlive, ~advanced PROVE age' <= missed + 1 /\ fetcherDue'
    BY <1>1
  <2>1. age <= missed BY DEF Tick
  <2>2. age' <= missed + 1 BY <1>0, <1>2, <1>4, <2>1
  <2>3. fetcherDue' BY <1>1, Zenon
  <2> QED BY <2>2, <2>3
<1>6. SnapshotLag' BY <1>0, <1>1, <1>2, <1>3, <1>4
<1> QED BY <1>1, <1>3, <1>5, <1>6

\* A validation round: what it read bounds the age when it decides.
LEMMA HeartbeatValidate ==
    ASSUME TypeInv, HeartbeatInv, Validate \/ FailReading \/ Finalize
    PROVE  HeartbeatInv'
<1> USE DEF HeartbeatInv, DueWhenAlive, TrackedWhenStarted, Lag, SnapshotLag,
        DecidedOnCrash, Started, Deciding, FetcherAlive, row, tracking, fetching
<1>0. /\ age \in Nat /\ missed \in 0..MaxMissed
      /\ monitor \in MonitorType /\ monitor.round \in 0..MaxRound
      /\ status \in Active \union Terminal
  BY ConstantsAssumption DEF ConstantsAssumption, TypeInv, TypeOK, MonitorType
<1>1. CASE ReadAttempt
  <2>1. /\ monitor'.pc = IF status = "IN_PROGRESS" THEN "evaluate" ELSE "queued_ids"
        /\ monitor'.advanced = advanced /\ monitor'.round = 0
    BY <1>1 DEF ReadAttempt, IdleMonitor
  <2> QED BY <1>0, <1>1, <2>1 DEF ReadAttempt
<1>2. CASE Evaluate
  <2>1. CASE SeenAlive
    BY <1>0, <1>2, <2>1, DoneType DEF Evaluate
  <2>2. CASE ~SeenAlive /\ age < Timeout
    BY <1>0, <1>2, <2>2, DoneType DEF Evaluate
  <2>3. CASE ~SeenAlive /\ ~(age < Timeout)
    <3>1. ~FetcherAlive
      BY <1>0, <1>2, <2>3, TimeoutAssumption, ConstantsAssumption
      DEF Evaluate, SeenAlive, ConstantsAssumption
    <3>2. /\ UNCHANGED <<status, tracked, advanced, age, fetcher, fetcherDue, missed>>
          /\ monitor'.pc = IF monitor.total THEN "in_flight" ELSE "invalidate"
      BY <1>0, <1>2, <2>3 DEF Evaluate, Proceed, MonitorType
    <3> QED BY <1>2, <3>1, <3>2 DEF Evaluate
  <2> QED BY <2>1, <2>2, <2>3
<1>3. CASE ReadInFlight BY <1>0, <1>3 DEF ReadInFlight, MonitorType
<1>4. CASE ReadPending
  BY <1>0, <1>4, DoneType, ProceedType DEF ReadPending, MonitorPcs, Proceed, MonitorType
<1>5. CASE FailReading
  BY <1>0, <1>5 DEF FailReading, Proceed, MonitorType
<1>6. CASE Invalidate BY <1>0, <1>6, DoneType DEF Invalidate, Mark
<1>7. CASE ReadQueuedIds
  <2>1. monitor'.pc \in {"finalize", "unacked_ids"}
    BY <1>0, <1>7, DoneType DEF ReadQueuedIds, Proceed, MonitorType
  <2> QED BY <1>0, <1>7, <2>1 DEF ReadQueuedIds
<1>8. CASE ReadUnackedIds
  <2>1. monitor'.pc \in {"finalize", "lost"}
    BY <1>0, <1>8, DoneType DEF ReadUnackedIds, Proceed, MonitorType
  <2> QED BY <1>0, <1>8, <2>1 DEF ReadUnackedIds
<1>9. CASE FailNeverStarted BY <1>0, <1>9, DoneType DEF FailNeverStarted, Mark
<1>10. CASE Finalize BY <1>0, <1>10 DEF Finalize, Mark, IdleMonitor
<1> QED BY <1>1, <1>2, <1>3, <1>4, <1>5, <1>6, <1>7, <1>8, <1>9, <1>10 DEF Validate

\* Every step keeps the invariant.
LEMMA HeartbeatStep == TypeInv /\ HeartbeatInv /\ [Next]_vars => HeartbeatInv'
<1> SUFFICES ASSUME TypeInv, HeartbeatInv, [Next]_vars PROVE HeartbeatInv'
    OBVIOUS
<1> USE DEF row, tracking, fetching, working, heartbeatVars
<1>0. missed \in Nat BY DEF TypeInv, TypeOK
<1>1. CASE UNCHANGED vars BY <1>1, HeartbeatAlone DEF vars
<1>2. CASE FetcherBeat
  <2>1. CASE Beat /\ UNCHANGED missed BY <1>2, <2>1, HeartbeatAfterBeat DEF FetcherBeat
  <2>2. CASE missed' = missed + 1 /\ UNCHANGED <<advanced, monitor>>
    <3>1. missed' # missed BY <1>0, <2>2
    <3> QED BY <1>2, <2>2, <3>1, HeartbeatAfterBeat DEF FetcherBeat
  <2> QED BY <1>2, <2>1, <2>2 DEF FetcherBeat
<1>3. ASSUME NEW w \in Workers,
             Process(w) \/ FailBatch(w) \/ CrashWorker(w) \/ WorkerBeat(w)
      PROVE  HeartbeatInv'
  <2>1. CASE TakeBatch(w) BY <2>1, HeartbeatAfterBeat DEF TakeBatch
  <2>2. CASE PickUp(w) BY <2>2, HeartbeatAlone DEF PickUp
  <2>3. CASE CompleteBatch(w) BY <2>3, HeartbeatAlone DEF CompleteBatch
  <2>4. CASE PostRun(w) BY <2>4, HeartbeatAlone DEF PostRun
  <2>5. CASE FailBatch(w) BY <2>5, HeartbeatAlone DEF FailBatch
  <2>6. CASE CrashWorker(w) BY <2>6, HeartbeatAlone DEF CrashWorker
  <2>7. CASE WorkerBeat(w) BY <2>7, HeartbeatAfterBeat DEF WorkerBeat
  <2> QED BY <1>3, <2>1, <2>2, <2>3, <2>4, <2>5, <2>6, <2>7 DEF Process
<1>4. CASE LoseBatch BY <1>4, HeartbeatAlone DEF LoseBatch
<1>5. CASE ExpireCounters BY <1>5, HeartbeatAlone DEF ExpireCounters
<1> QED BY <1>1, <1>2, <1>3, <1>4, <1>5, HeartbeatFetch, HeartbeatTick, HeartbeatValidate
        DEF Next

\* The heartbeat check never fails an attempt whose docfetching process is alive,
\* although it decides on a row read up to MaxRound intervals earlier and
\* MaxMissed heartbeats may have failed.
THEOREM FetchingSafe == Spec => FetchingNotInvalidated
<1>1. Init => TypeInv /\ HeartbeatInv BY TypeInit, HeartbeatInit
<1>2. TypeInv /\ HeartbeatInv /\ [Next]_vars => (TypeInv /\ HeartbeatInv)'
  BY TypeStep, HeartbeatStep
<1>3. HeartbeatInv /\ [Next]_vars => [Invalidate => ~FetcherAlive]_vars
  BY DEF HeartbeatInv, DecidedOnCrash, Deciding, Invalidate
<1> QED BY <1>1, <1>2, <1>3, PTL DEF Spec, FetchingNotInvalidated

-----------------------------------------------------------------------------
(***************************************************************************)
(* The scan for attempts that never started spares a task the broker still *)
(* has.  It looks at the queue before the unacked hash, and tasks move in  *)
(* that direction unless one is restored.                                  *)
(***************************************************************************)
ScanInv ==
    /\ monitor.pc = "unacked_ids" => fetcher # "queued"
    /\ monitor.pc = "lost" => fetcher \notin {"queued", "prefetched"}

\* Every step but the restoration of a task keeps the invariant.
LEMMA ScanStep ==
    ASSUME "restore" \notin Events, TypeInv, ScanInv, [Next]_vars
    PROVE  ScanInv'
<1> USE DEF ScanInv, fetching
<1>0. monitor \in MonitorType BY DEF TypeInv, TypeOK
<1>1. CASE UNCHANGED <<fetcher, monitor>> BY <1>1
<1>2. CASE Beat /\ UNCHANGED fetcher
  <2>1. monitor'.pc = monitor.pc BY <1>0, <1>2 DEF Beat, MonitorType
  <2> QED BY <1>2, <2>1
<1>3. CASE Fetch \/ CrashFetcher \/ LoseTask \/ RestoreTask
  BY <1>3 DEF Fetch, Prefetch, TakeTask, StartFetching, CountPending, SendTask,
        FinishFetching, CrashFetcher, FetcherAlive, LoseTask, RestoreTask, Happens
<1>4. CASE Tick
  <2>1. monitor'.pc = monitor.pc BY <1>0, <1>4 DEF Tick, MonitorType
  <2> QED BY <1>4, <2>1 DEF Tick
<1>5. CASE Validate \/ FailReading \/ Finalize
  <2>1. UNCHANGED fetcher
    BY <1>5 DEF Validate, ReadAttempt, Evaluate, ReadInFlight, ReadPending, Invalidate,
        ReadQueuedIds, ReadUnackedIds, FailNeverStarted, FailReading, Finalize
  <2>2. CASE ReadQueuedIds
    BY <1>0, <2>1, <2>2, DoneType DEF ReadQueuedIds, Proceed, MonitorType
  <2>3. CASE ReadUnackedIds
    BY <1>0, <2>1, <2>3, DoneType DEF ReadUnackedIds, Unacked, Proceed, MonitorType
  <2>4. CASE ReadAttempt \/ Finalize
    <3>1. ReadAttempt =>
              monitor'.pc = IF status = "IN_PROGRESS" THEN "evaluate" ELSE "queued_ids"
      BY DEF ReadAttempt, IdleMonitor
    <3>2. Finalize => monitor'.pc = "idle" BY DEF Finalize, IdleMonitor
    <3> QED BY <2>1, <2>4, <3>1, <3>2
  <2>5. CASE Evaluate \/ ReadInFlight \/ ReadPending \/ FailReading
    <3>1. monitor'.pc \in {"in_flight", "pending", "invalidate", "finalize"}
      BY <1>0, <2>5, DoneType
      DEF Evaluate, ReadInFlight, ReadPending, FailReading, Proceed, MonitorType
    <3> QED BY <2>1, <3>1
  <2>6. CASE Invalidate \/ FailNeverStarted
    BY <2>1, <2>6, DoneType DEF Invalidate, FailNeverStarted
  <2> QED BY <1>5, <2>2, <2>3, <2>4, <2>5, <2>6 DEF Validate
<1>6. ASSUME NEW w \in Workers,
             Process(w) \/ FailBatch(w) \/ CrashWorker(w) \/ WorkerBeat(w)
      PROVE  UNCHANGED <<fetcher, monitor>> \/ (Beat /\ UNCHANGED fetcher)
  BY <1>6 DEF Process, TakeBatch, PickUp, CompleteBatch, PostRun, FailBatch, CrashWorker,
        WorkerBeat
<1>7. LoseBatch \/ ExpireCounters \/ FetcherBeat \/ UNCHANGED vars =>
          UNCHANGED <<fetcher, monitor>> \/ (Beat /\ UNCHANGED fetcher)
  BY DEF LoseBatch, ExpireCounters, FetcherBeat, vars
<1> QED BY <1>1, <1>2, <1>3, <1>4, <1>5, <1>6, <1>7 DEF Next

\* Unless a prefetched task is put back into the queue, no attempt whose task
\* still waits in the queue or with a worker is failed as one that never started.
THEOREM QueueRespected ==
    ASSUME "restore" \notin Events
    PROVE  Spec => QueuedTaskNotFailed
<1>1. Init => TypeInv /\ ScanInv BY TypeInit DEF Init, IdleMonitor, ScanInv
<1>2. TypeInv /\ ScanInv /\ [Next]_vars => (TypeInv /\ ScanInv)'
  BY TypeStep, ScanStep
<1>3. ScanInv /\ [Next]_vars =>
          [FailNeverStarted => fetcher \notin {"queued", "prefetched"}]_vars
  BY DEF ScanInv, FailNeverStarted
<1> QED BY <1>1, <1>2, <1>3, PTL DEF Spec, QueuedTaskNotFailed

-----------------------------------------------------------------------------
(***************************************************************************)
(* Counters at zero mean no work.  A crash leaves a batch in flight and    *)
(* redelivery takes one from pending that was never added, but pending and *)
(* inFlight together never count less than there is: a batch is counted    *)
(* before its task is sent, and until its handler has run.                 *)
(***************************************************************************)
Sending == IF fetcher = "sending" THEN 1 ELSE 0
WorkInv ==
    status \in Active => pending + inFlight >= queued + Cardinality(Busy) + Sending

\* The worker threads are finitely many, so that the busy ones can be counted.
LEMMA BusyFinite ==
    /\ IsFiniteSet(Busy) /\ Cardinality(Busy) \in Nat
    /\ IsFiniteSet(Busy)' /\ Cardinality(Busy)' \in Nat
<1> USE ConstantsAssumption DEF ConstantsAssumption
<1>1. Busy \subseteq Workers /\ Busy' \subseteq Workers BY DEF Busy
<1> QED BY <1>1, FS_Subset, FS_CardinalityType

\* How many workers are busy after a worker moved.
LEMMA BusyStep ==
    ASSUME TypeInv, NEW w \in Workers, NEW st \in {"idle", "prerun", "working", "postrun"},
           worker' = [worker EXCEPT ![w] = st]
    PROVE  /\ st # "idle" /\ worker[w] = "idle" =>
                  Cardinality(Busy)' = Cardinality(Busy) + 1
           /\ st = "idle" /\ worker[w] # "idle" =>
                  Cardinality(Busy)' = Cardinality(Busy) - 1
           /\ st # "idle" /\ worker[w] # "idle" =>
                  Cardinality(Busy)' = Cardinality(Busy)
<1>0. worker \in [Workers -> {"idle", "prerun", "working", "postrun"}]
  BY DEF TypeInv, TypeOK
<1>1. CASE st = "idle" /\ worker[w] # "idle"
  <2>1. w \in Busy /\ Busy' = Busy \ {w} BY <1>0, <1>1 DEF Busy
  <2> QED BY <1>1, <2>1, BusyFinite, FS_RemoveElement
<1>2. CASE st # "idle" /\ worker[w] = "idle"
  <2>1. w \notin Busy /\ Busy' = Busy \union {w} BY <1>0, <1>2 DEF Busy
  <2> QED BY <1>2, <2>1, BusyFinite, FS_AddElement
<1>3. CASE st # "idle" /\ worker[w] # "idle"
  <2>1. Busy' = Busy BY <1>0, <1>3 DEF Busy
  <2> QED BY <1>3, <2>1, BusyFinite
<1> QED BY <1>1, <1>2, <1>3

\* A step that moves no worker leaves as many busy.
LEMMA BusySame == UNCHANGED worker => Cardinality(Busy)' = Cardinality(Busy)
BY DEF Busy

\* The broker and the workers hand batches on without losing count.
LEMMA WorkProcess ==
    ASSUME "redis_error" \notin Events, TypeInv, WorkInv,
           NEW w \in Workers,
           Process(w) \/ FailBatch(w) \/ CrashWorker(w) \/ WorkerBeat(w)
    PROVE  WorkInv'
<1> USE DEF WorkInv, Sending, row, tracking, counters, fetching
<1>0. /\ pending \in Nat /\ inFlight \in Nat /\ queued \in Nat
      /\ Cardinality(Busy) \in Nat /\ UNCHANGED <<status, fetcher>>
  BY BusyFinite DEF TypeInv, TypeOK, Process, TakeBatch, PickUp, CompleteBatch, PostRun,
        FailBatch, CrashWorker, WorkerBeat
<1>1. CASE TakeBatch(w)
  <2>1. Cardinality(Busy)' = Cardinality(Busy) + 1 
    <3>1. worker[w] = "idle" /\ worker' = [worker EXCEPT ![w] = "prerun"]
      BY <1>1 DEF TakeBatch
    <3> QED BY <3>1, BusyStep
  <2> QED BY <1>0, <1>1, <2>1 DEF TakeBatch
<1>2. CASE PickUp(w)
  <2>1. Cardinality(Busy)' = Cardinality(Busy) 
    <3>1. worker[w] = "prerun" /\ worker' = [worker EXCEPT ![w] = "working"]
      BY <1>2 DEF PickUp
    <3> QED BY <3>1, BusyStep
  <2>2. /\ pending' = IF pending > 0 THEN pending - 1 ELSE 0
        /\ inFlight' = inFlight + 1 /\ UNCHANGED queued
    BY <1>2 DEF PickUp, Redis, Happens, MovePending, Decremented
  <2> QED BY <1>0, <2>1, <2>2
<1>3. CASE CompleteBatch(w) \/ FailBatch(w)
  <2>1. Cardinality(Busy)' = Cardinality(Busy)
    <3>1. worker[w] = "working" /\ worker' = [worker EXCEPT ![w] = "postrun"]
      BY <1>3 DEF CompleteBatch, FailBatch, StopWorking
    <3> QED BY <3>1, BusyStep
  <2> QED BY <1>0, <1>3, <2>1 DEF CompleteBatch, FailBatch
<1>4. CASE PostRun(w)
  <2>1. Cardinality(Busy)' = Cardinality(Busy) - 1 
    <3>1. worker[w] = "postrun" /\ worker' = [worker EXCEPT ![w] = "idle"]
      BY <1>4 DEF PostRun
    <3> QED BY <3>1, BusyStep
  <2>2. /\ UNCHANGED <<pending, queued>>
        /\ inFlight' = IF inFlight > 0 THEN inFlight - 1 ELSE 0
    BY <1>4 DEF PostRun, Redis, Happens, Decremented
  <2> QED BY <1>0, <2>1, <2>2
<1>5. CASE CrashWorker(w)
  <2>1. Cardinality(Busy)' = Cardinality(Busy) - 1 
    <3>1. worker[w] \in {"prerun", "working"} /\ worker' = [worker EXCEPT ![w] = "idle"]
      BY <1>5 DEF CrashWorker
    <3> QED BY <3>1, BusyStep
  <2> QED BY <1>0, <1>5, <2>1 DEF CrashWorker
<1>6. CASE WorkerBeat(w)
  <2>1. Cardinality(Busy)' = Cardinality(Busy) BY <1>6, BusySame DEF WorkerBeat
  <2> QED BY <1>0, <1>6, <2>1 DEF WorkerBeat
<1> QED BY <1>1, <1>2, <1>3, <1>4, <1>5, <1>6 DEF Process

\* The docfetching process counts a batch before it sends it.
LEMMA WorkFetch ==
    ASSUME "redis_error" \notin Events, TypeInv, WorkInv,
           Fetch \/ CrashFetcher \/ LoseTask \/ RestoreTask \/ FetcherBeat
    PROVE  WorkInv'
<1> USE DEF WorkInv, Sending, row, tracking, counters, working
<1>0. /\ pending \in Nat /\ inFlight \in Nat /\ queued \in Nat /\ Cardinality(Busy) \in Nat
      /\ status' \in Active => status \in Active
      /\ UNCHANGED worker
  BY BusyFinite DEF TypeInv, TypeOK, Fetch, Prefetch, TakeTask, StartFetching, CountPending,
        SendTask, FinishFetching, CrashFetcher, LoseTask, RestoreTask, FetcherBeat, Active
<1>1. Cardinality(Busy)' = Cardinality(Busy) BY <1>0, BusySame
<1>2. CASE CountPending
  BY <1>0, <1>1, <1>2 DEF CountPending, Redis, Happens
<1>3. CASE SendTask BY <1>0, <1>1, <1>3 DEF SendTask
<1>4. CASE FetcherBeat BY <1>0, <1>1, <1>4 DEF FetcherBeat
<1>5. CASE \/ Prefetch \/ TakeTask \/ StartFetching \/ FinishFetching
           \/ CrashFetcher \/ LoseTask \/ RestoreTask
  <2>1. UNCHANGED <<pending, inFlight, queued>> /\ fetcher' # "sending"
    BY <1>5 DEF Prefetch, TakeTask, StartFetching, FinishFetching, CrashFetcher, LoseTask,
          RestoreTask
  <2> QED BY <1>0, <1>1, <2>1
<1> QED BY <1>2, <1>3, <1>4, <1>5 DEF Fetch

\* check_for_indexing only clears the counters of an attempt that it ends.
LEMMA WorkMonitor ==
    ASSUME TypeInv, WorkInv,
           \/ Validate \/ FailReading \/ Finalize \/ Tick \/ LoseBatch \/ ExpireCounters
           \/ UNCHANGED vars
    PROVE  WorkInv'
<1> USE DEF WorkInv, Sending, row, tracking, counters, fetching, working, vars
<1>0. /\ pending \in Nat /\ inFlight \in Nat /\ queued \in Nat /\ Cardinality(Busy) \in Nat
      /\ UNCHANGED <<worker, fetcher>>
  BY BusyFinite DEF TypeInv, TypeOK, Validate, ReadAttempt, Evaluate, ReadInFlight,
        ReadPending, Invalidate, ReadQueuedIds, ReadUnackedIds, FailNeverStarted,
        FailReading, Finalize, Tick, LoseBatch, ExpireCounters
<1>1. Cardinality(Busy)' = Cardinality(Busy) BY <1>0, BusySame
<1>2. CASE UNCHANGED <<status, pending, inFlight, queued>> BY <1>0, <1>1, <1>2
<1>3. CASE status' \notin Active BY <1>3
<1>4. Validate \/ FailReading \/ Finalize \/ Tick \/ UNCHANGED vars =>
          UNCHANGED <<status, pending, inFlight, queued>> \/ status' \notin Active
  BY DEF Validate, ReadAttempt, Evaluate, ReadInFlight, ReadPending, Invalidate,
        ReadQueuedIds, ReadUnackedIds, FailNeverStarted, FailReading, Finalize, Tick,
        Mark, Active
<1>5. CASE LoseBatch BY <1>0, <1>1, <1>5 DEF LoseBatch
<1>6. CASE ExpireCounters
  <2>1. Cardinality(Busy) = 0 BY <1>6, FS_EmptySet DEF ExpireCounters
  <2>2. /\ queued' = 0 /\ fetcher' # "sending"
        /\ \/ pending' = 0 /\ inFlight' = inFlight
           \/ pending' = pending /\ inFlight' = 0
    BY <1>0, <1>6 DEF ExpireCounters, FetcherAlive
  <2> QED BY <1>0, <1>1, <2>1, <2>2
<1> QED BY <1>2, <1>3, <1>4, <1>5, <1>6

\* While Redis answers: an active attempt whose counters are both zero has no
\* batch in the queue or with a worker, whatever crashed, was redelivered or lost.
THEOREM WorkCounted ==
    ASSUME "redis_error" \notin Events
    PROVE  Spec => []NoWorkAnywhere
<1>1. Init => TypeInv /\ WorkInv
  <2> SUFFICES ASSUME Init PROVE WorkInv BY TypeInit
  <2>1. Busy = {} BY DEF Init, Busy
  <2>2. Cardinality(Busy) = 0 BY <2>1, FS_EmptySet
  <2> QED BY <2>2 DEF Init, WorkInv, Sending
<1>2. TypeInv /\ WorkInv /\ [Next]_vars => (TypeInv /\ WorkInv)'
  BY TypeStep, WorkProcess, WorkFetch, WorkMonitor DEF Next
<1>3. TypeInv /\ WorkInv => NoWorkAnywhere
  <2> SUFFICES ASSUME TypeInv, WorkInv, status \in Active, pending = 0, inFlight = 0
               PROVE  queued = 0 /\ Busy = {}
    BY DEF NoWorkAnywhere
  <2>1. queued \in Nat BY DEF TypeInv, TypeOK
  <2>2. queued = 0 /\ Cardinality(Busy) = 0 BY <2>1, BusyFinite DEF WorkInv, Sending
  <2> QED BY <2>2, BusyFinite, FS_EmptySet
<1> QED BY <1>1, <1>2, <1>3, PTL DEF Spec
=============================================================================
