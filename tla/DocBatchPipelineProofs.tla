------------------------ MODULE DocBatchPipelineProofs ------------------------
(***************************************************************************)
(* Proofs about DocBatchPipeline, for every value of its constants: its    *)
(* type invariant, that a successful attempt was fetched and counted, that *)
(* an attempt that has ended is never active again, and that the pipeline  *)
(* implements AttemptLifecycle, so that one attempt at a time claims the   *)
(* poll window of a search setting.                                        *)
(***************************************************************************)
EXTENDS DocBatchPipeline, FiniteSetTheorems, TLAPS

-----------------------------------------------------------------------------
(***************************************************************************)
(* What the type invariant needs to be inductive: the position of a        *)
(* docfetching process depends on where it is, and a busy worker or        *)
(* monitor has an attempt to work on.                                      *)
(***************************************************************************)
FetcherSound(f) ==
    /\ f \in FetcherType
    /\ f.pc \in {"store", "send"} => f.pos \in 0..(NumItems - 1)
    /\ f.pc = "send" => f.num \in BatchNums
    /\ f.pc \in {"reissue", "assign", "initial", "save"} => f.pos \in {0} \union PassEnds
WorkerSound(r) ==
    /\ r \in WorkerType
    /\ r.pc # "idle" => r.att \in Attempts /\ r.item \in Items

FetchersOK ==
    /\ fetcher \in [Attempts -> FetcherType]
    /\ \A a \in Attempts : FetcherSound(fetcher[a])
WorkersOK ==
    /\ worker \in [Workers -> WorkerType]
    /\ \A w \in Workers : WorkerSound(worker[w])
MonitorOK ==
    /\ monitor \in [pc : {"idle", "mark", "cleanup"}, att : Attempts \union {0},
                    failures : BOOLEAN]
    /\ monitor.pc # "idle" => monitor.att \in Attempts

TypeInv == RowsOK /\ SharedOK /\ FetchersOK /\ WorkersOK /\ MonitorOK

(***************************************************************************)
(* What SuccessMeansCounted needs: total_batches is set by the last step   *)
(* of the docfetching process, and what check_indexing_completion read     *)
(* stays true until it marks the attempt, because the only assignment that *)
(* lowers completed_batches comes before that last step.                   *)
(***************************************************************************)
TotalSetLast ==
    \A a \in Attempts : /\ fetcher[a].pc # "exited" => total[a] = None
                        /\ status[a] = "absent" => fetcher[a].pc = "none"

SnapshotStands == monitor.pc # "idle" => IndexingCompleted(monitor.att)

CountInv == TotalSetLast /\ SnapshotStands /\ SuccessMeansCounted

-----------------------------------------------------------------------------
(***************************************************************************)
(* Lemmas about the helpers                                                *)
(***************************************************************************)

\* The sets whose members the model counts are finite.
LEMMA CountsAreNat ==
    ASSUME TRUE
    PROVE  /\ \A a \in Attempts : Cardinality(Rows \union {a}) \in Nat
           /\ Cardinality(Files) \in Nat
           /\ \A n \in BatchNums : Cardinality({f \in Files : f[2] = n}) \in Nat
<1>1. IsFiniteSet(Attempts) /\ IsFiniteSet(BatchNums)
  BY ConstantsAssumption, FS_Interval DEF Attempts, BatchNums
<1>2. IsFiniteSet(Attempts \X BatchNums)
  BY <1>1, FS_Product
<1>3. Files \subseteq Attempts \X BatchNums
  BY DEF Files
<1>4. IsFiniteSet(Files)
  BY <1>2, <1>3, FS_Subset
<1>5. \A n \in BatchNums : IsFiniteSet({f \in Files : f[2] = n})
  BY <1>4, FS_Subset
<1>6. \A a \in Attempts : IsFiniteSet(Rows \union {a})
  <2>1. \A a \in Attempts : Rows \union {a} \subseteq Attempts
    BY DEF Rows
  <2> QED BY <1>1, <2>1, FS_Subset
<1> QED BY <1>4, <1>5, <1>6, FS_CardinalityType

\* Touching a row keeps the order of time_updated well typed.
LEMMA TouchType ==
    ASSUME updated \in [Attempts -> Nat], NEW a \in Attempts, Touch(a)
    PROVE  updated' \in [Attempts -> Nat]
BY CountsAreNat DEF Touch

\* The last updated row of a set of attempts is one of them, or none.
LEMMA LastUpdatedType ==
    ASSUME NEW S \in SUBSET Attempts
    PROVE  LastUpdated(S) \in S \union {0}
BY DEF LastUpdated

\* Replacing the record of one process.
LEMMA SetFetcherOK ==
    ASSUME FetchersOK, NEW a \in Attempts, NEW f, FetcherSound(f), SetFetcher(a, f)
    PROVE  FetchersOK'
BY DEF FetchersOK, FetcherSound, SetFetcher

LEMMA SetWorkerOK ==
    ASSUME WorkersOK, NEW w \in Workers, NEW r, WorkerSound(r), SetWorker(w, r)
    PROVE  WorkersOK'
BY DEF WorkersOK, WorkerSound, SetWorker

\* A process that moves without changing its position.
LEMMA ExitSound == FetcherSound([NewFetcher EXCEPT !.pc = "exited"])
BY DEF FetcherSound, FetcherType, NewFetcher

LEMMA IdleSound == WorkerSound(IdleWorker)
BY ConstantsAssumption DEF WorkerSound, WorkerType, IdleWorker, BatchNums, NoItem

-----------------------------------------------------------------------------
(***************************************************************************)
(* Type correctness                                                        *)
(***************************************************************************)
LEMMA TypeInit == Init => TypeInv
<1> SUFFICES ASSUME Init PROVE TypeInv
  OBVIOUS
<1> USE ConstantsAssumption
<1>1. RowsOK
  BY DEF Init, RowsOK, None, NoWindow
<1>2. SharedOK
  BY DEF Init, SharedOK, EmptyStore, NoItem
<1>3. FetchersOK
  BY DEF Init, FetchersOK, FetcherSound, FetcherType, NewFetcher
<1>4. WorkersOK
  BY IdleSound DEF Init, WorkersOK, WorkerSound
<1>5. MonitorOK
  BY DEF Init, MonitorOK, IdleMonitor
<1> QED BY <1>1, <1>2, <1>3, <1>4, <1>5 DEF TypeInv

\* Every step of a docfetching process leaves it somewhere it can be.
LEMMA FetcherStep ==
    ASSUME TypeInv, NEW a \in Attempts, Fetch(a) \/ FetchTrouble(a)
    PROVE  FetchersOK'
<1> USE ConstantsAssumption DEF TypeInv
<1> DEFINE f == fetcher[a]
<1>1. FetcherSound(f)
  BY DEF FetchersOK
<1>2. ASSUME Exit(a) PROVE FetchersOK'
  BY <1>2, ExitSound, SetFetcherOK DEF Exit
<1>3. CASE VerifyAttempt(a) \/ StartFetching(a)
  <2>1. FetcherSound([f EXCEPT !.pc = "verified"]) /\ FetcherSound([f EXCEPT !.pc = "window"])
    BY <1>1 DEF FetcherSound, FetcherType
  <2> QED BY <1>2, <1>3, <2>1, SetFetcherOK DEF VerifyAttempt, StartFetching, GoTo, ExitFailing
<1>4. CASE SetPollWindow(a)
  <2> DEFINE prev == MostRecent(settings[a])
  <2>1. prev \in Attempts \union {0}
    BY LastUpdatedType DEF MostRecent
  <2>2. 0 \notin Attempts
    BY DEF Attempts
  <2>3. (IF prev = 0 THEN 0 ELSE completed[prev]) \in Nat
    BY <2>1 DEF RowsOK
  <2> DEFINE g == [f EXCEPT
                    !.pc = "connector",
                    !.afresh = reindex[a] \/ (prev # 0 /\ status[prev] \in Successful),
                    !.prevEnded = prev # 0 /\ total[prev] # None,
                    !.recent = IF prev = 0 THEN 0 ELSE completed[prev]]
  <2>4. reindex[a] \in BOOLEAN
    BY DEF RowsOK
  <2> HIDE DEF prev
  <2>5. FetcherSound(g)
    BY <1>1, <2>3, <2>4 DEF FetcherSound, FetcherType
  <2>6. SetFetcher(a, g)
    BY <1>4 DEF SetPollWindow, prev
  <2> QED BY <2>5, <2>6, SetFetcherOK
<1>5. CASE LoadCheckpoint(a)
  <2>1. LatestCheckpoint(a) \in {0} \union PassEnds
    <3> DEFINE C == CheckpointCandidates(a)
    <3>1. C \in SUBSET Attempts /\ \A b \in C : checkpoint[b] \in {0} \union PassEnds
      BY DEF CheckpointCandidates, RowsOK
    <3> HIDE DEF C
    <3>2. LastUpdated(C) \in C \union {0}
      BY <3>1, LastUpdatedType
    <3>3. LatestCheckpoint(a) = 0 \/ LastUpdated(C) \in C
      BY <3>2 DEF LatestCheckpoint, C
    <3> QED BY <3>1, <3>3 DEF LatestCheckpoint, C
  <2>2. PICK readable \in BOOLEAN :
          SetFetcher(a, [f EXCEPT
            !.pc = IF readable /\ ReusesOldBatches(a) THEN "reissue" ELSE "initial",
            !.base = StartPosition(a, readable), !.pos = StartPosition(a, readable)])
    BY <1>5 DEF LoadCheckpoint
  <2>3. StartPosition(a, readable) \in {0} \union PassEnds
    BY <2>1 DEF StartPosition
  <2> QED BY <1>1, <2>2, <2>3, SetFetcherOK DEF FetcherSound, FetcherType, Items
<1>6. CASE ReissueOldBatches(a)
  <2>1. NextBatchNum(a) \in Nat
    BY <1>1, CountsAreNat DEF NextBatchNum, FetcherSound, FetcherType
  <2>2. FetcherSound([f EXCEPT !.pc = "assign", !.num = NextBatchNum(a)])
    BY <1>1, <1>6, <2>1 DEF ReissueOldBatches, FetcherAt, FetcherSound, FetcherType
  <2> QED BY <1>6, <2>2, SetFetcherOK DEF ReissueOldBatches
<1>7. CASE CarryOverCompleted(a)
  <2>1. FetcherSound([f EXCEPT !.pc = "initial"])
    BY <1>1, <1>7 DEF CarryOverCompleted, FetcherAt, FetcherSound, FetcherType
  <2> QED BY <1>7, <2>1, SetFetcherOK DEF CarryOverCompleted, GoTo
<1>8. CASE SaveCheckpoint(a)
  <2>1. FetcherSound([f EXCEPT !.pc = "loop", !.base = f.pos])
    BY <1>1, <1>8 DEF SaveCheckpoint, FetcherAt, FetcherSound, FetcherType
  <2> QED BY <1>8, <2>1, SetFetcherOK DEF SaveCheckpoint
<1>9. CASE CheckStatus(a)
  <2>1. f.pos \in 0..NumItems /\ f.base \in 0..NumItems
    BY <1>1 DEF FetcherSound, FetcherType, Items
  <2>2. RunEnded(a) => FetcherSound([f EXCEPT !.pc = "save"])
    BY <1>1 DEF RunEnded, FetcherSound, FetcherType
  <2>3. ~Exhausted(a) /\ ~RunEnded(a) => f.pos \in 0..(NumItems - 1)
    BY <2>1 DEF Exhausted, RunEnded
  <2>4. ~Exhausted(a) /\ ~RunEnded(a) => FetcherSound([f EXCEPT !.pc = "store"])
    BY <1>1, <2>3 DEF FetcherSound, FetcherType
  <2> QED BY <1>2, <1>9, <2>2, <2>4, SetFetcherOK DEF CheckStatus, GoTo
<1>10. CASE StoreBatch(a)
  <2>1. FetcherSound([f EXCEPT !.pc = "send"])
    BY <1>1, <1>10 DEF StoreBatch, FetcherAt, FetcherSound, FetcherType
  <2> QED BY <1>10, <2>1, SetFetcherOK DEF StoreBatch, GoTo
<1>11. CASE SendTask(a)
  <2>1. f.pos \in 0..(NumItems - 1) /\ f.num \in Nat
    BY <1>1, <1>11 DEF SendTask, FetcherAt, FetcherSound, FetcherType
  <2>2. f.pos + 1 \in {0} \union Items /\ f.num + 1 \in Nat
    BY <2>1 DEF Items
  <2> DEFINE p == f.pos + 1
             n == f.num + 1
  <2>3. p \in {0} \union Items /\ n \in Nat
    BY <2>2
  <2> HIDE DEF p, n
  <2>4. FetcherSound([f EXCEPT !.pc = "loop", !.pos = p, !.num = n])
    BY <1>1, <2>3 DEF FetcherSound, FetcherType
  <2>5. SetFetcher(a, [f EXCEPT !.pc = "loop", !.pos = p, !.num = n])
    BY <1>11 DEF SendTask, p, n
  <2> QED BY <2>4, <2>5, SetFetcherOK
<1>12. CASE SetTotalBatches(a) \/ FetchTrouble(a)
  BY <1>2, <1>12 DEF SetTotalBatches, FetchTrouble, FailSetup, ExitFailing, FailExtraction,
                     StopExtraction, KillFetcher, FailSpawn
<1> QED
  BY <1>3, <1>4, <1>5, <1>6, <1>7, <1>8, <1>9, <1>10, <1>11, <1>12 DEF Fetch

\* Every step of a docprocessing worker leaves it idle or at a batch.
LEMMA WorkerStep ==
    ASSUME TypeInv, NEW w \in Workers, Process(w) \/ ProcessTrouble(w)
    PROVE  WorkersOK'
<1> USE DEF TypeInv
<1>1. WorkerSound(worker[w])
  BY DEF WorkersOK
<1>2. ASSUME SetWorker(w, IdleWorker) PROVE WorkersOK'
  BY <1>2, IdleSound, SetWorkerOK
<1>3. ASSUME NEW a \in Attempts, NEW n \in BatchNums, LoadBatch(w, a, n) PROVE WorkersOK'
  <2> DEFINE r == [pc |-> "loaded", att |-> a, num |-> n, item |-> store[a][n],
                   failed |-> FALSE]
  <2>1. CASE UNCHANGED worker
    BY <2>1 DEF WorkersOK
  <2>2. CASE store[a][n] # NoItem /\ SetWorker(w, r)
    <3>1. store[a][n] \in Items
      BY <2>2 DEF SharedOK
    <3>2. WorkerSound(r)
      BY <3>1 DEF WorkerSound, WorkerType
    <3> QED BY <2>2, <3>2, SetWorkerOK
  <2> QED BY <1>3, <2>1, <2>2 DEF LoadBatch
<1>4. CASE IndexBatch(w)
  <2>1. PICK bad \in BOOLEAN :
          SetWorker(w, [worker[w] EXCEPT !.pc = "indexed", !.failed = bad])
    BY <1>4 DEF IndexBatch
  <2>2. WorkerSound([worker[w] EXCEPT !.pc = "indexed", !.failed = bad])
    BY <1>1, <1>4 DEF IndexBatch, WorkerSound, WorkerType
  <2> QED BY <2>1, <2>2, SetWorkerOK
<1>5. CASE CompleteBatch(w)
  <2>1. WorkerSound([worker[w] EXCEPT !.pc = "counted"])
    BY <1>1, <1>5 DEF CompleteBatch, WorkerSound, WorkerType
  <2> QED BY <1>5, <2>1, SetWorkerOK DEF CompleteBatch
<1>6. CASE FinishBatch(w) \/ FailBatch(w) \/ FailFinishing(w) \/ CrashWorker(w)
  BY <1>2, <1>6 DEF FinishBatch, FailBatch, FailFinishing, CrashWorker
<1>7. ASSUME NEW a \in Attempts, NEW n \in BatchNums, RefuseBatch(w, a, n) PROVE WorkersOK'
  BY <1>7 DEF RefuseBatch, WorkersOK
<1> QED BY <1>3, <1>4, <1>5, <1>6, <1>7 DEF Process, ProcessTrouble

\* The steps of check_for_indexing keep its own state well typed.
LEMMA MonitorStep ==
    ASSUME TypeInv, Finalize \/ FailMonitoring
    PROVE  MonitorOK'
<1> USE DEF TypeInv, MonitorOK
<1>1. ASSUME NEW a \in Attempts, ReadCompletion(a) PROVE MonitorOK'
  BY <1>1 DEF ReadCompletion
<1>2. CASE MarkCompletion \/ FailMonitoring
  BY <1>2 DEF MarkCompletion, FailMonitoring
<1>3. CASE CleanUpBatches
  BY <1>3 DEF CleanUpBatches, IdleMonitor
<1> QED BY <1>1, <1>2, <1>3 DEF Finalize

\* The steps that leave the processes of the other kinds alone.
LEMMA ProcessesStep ==
    ASSUME TypeInv, [Next]_vars
    PROVE  FetchersOK' /\ WorkersOK' /\ MonitorOK'
<1> USE DEF TypeInv
<1>1. UNCHANGED fetcher => FetchersOK'
  BY DEF FetchersOK
<1>2. UNCHANGED worker => WorkersOK'
  BY DEF WorkersOK
<1>3. UNCHANGED monitor => MonitorOK'
  BY DEF MonitorOK
<1>4. ASSUME NEW s \in Settings, CreateAttempt(s)
      PROVE  FetchersOK' /\ WorkersOK' /\ MonitorOK'
  <2>1. PICK a \in Attempts : SetFetcher(a, [fetcher[a] EXCEPT !.pc = "queued"])
    BY <1>4 DEF CreateAttempt, GoTo
  <2>2. FetcherSound([fetcher[a] EXCEPT !.pc = "queued"])
    BY DEF FetchersOK, FetcherSound, FetcherType
  <2>3. FetchersOK'
    BY <2>1, <2>2, SetFetcherOK
  <2> QED BY <1>2, <1>3, <1>4, <2>3 DEF CreateAttempt
<1>5. ASSUME NEW a \in Attempts, Fetch(a) \/ FetchTrouble(a)
      PROVE  FetchersOK' /\ WorkersOK' /\ MonitorOK'
  <2>1. UNCHANGED <<worker, monitor>>
    BY <1>5 DEF Fetch, FetchTrouble, VerifyAttempt, StartFetching, SetPollWindow, LoadCheckpoint,
                ReissueOldBatches, CarryOverCompleted, SaveCheckpoint, CheckStatus,
                StoreBatch, SendTask, SetTotalBatches, FailSetup, FailExtraction,
                StopExtraction, KillFetcher, FailSpawn
  <2> QED BY <1>2, <1>3, <1>5, <2>1, FetcherStep
<1>6. ASSUME NEW w \in Workers, Process(w) \/ ProcessTrouble(w)
      PROVE  FetchersOK' /\ WorkersOK' /\ MonitorOK'
  <2>1. UNCHANGED <<fetcher, monitor>>
    BY <1>6 DEF Process, ProcessTrouble, LoadBatch, RefuseBatch, IndexBatch, FailBatch,
                CompleteBatch, FinishBatch, FailFinishing, CrashWorker
  <2> QED BY <1>1, <1>3, <1>6, <2>1, WorkerStep
<1>7. ASSUME NEW a \in Attempts,
             RequestCancellation(a) \/ Heartbeat(a) \/ HeartbeatTimeout(a)
               \/ FailNeverStarted(a) \/ CancelAttempt(a)
                \/ ExceedMemoryLimit(a)
      PROVE  FetchersOK' /\ WorkersOK' /\ MonitorOK'
  BY <1>1, <1>2, <1>3, <1>7 DEF RequestCancellation, Heartbeat, HeartbeatTimeout,
                                FailNeverStarted, CancelAttempt, ExceedMemoryLimit
<1>8. CASE Finalize \/ FailMonitoring
  <2>1. UNCHANGED <<fetcher, worker>>
    BY <1>8 DEF Finalize, ReadCompletion, MarkCompletion, CleanUpBatches, FailMonitoring
  <2> QED BY <1>1, <1>2, <1>8, <2>1, MonitorStep
<1>9. CASE UNCHANGED vars
  BY <1>1, <1>2, <1>3, <1>9 DEF vars
<1> QED BY <1>4, <1>5, <1>6, <1>7, <1>8, <1>9 DEF Next, Finished

\* Every step keeps the rows of index_attempt well typed.
LEMMA RowsStep ==
    ASSUME TypeInv, [Next]_vars
    PROVE  RowsOK'
<1> USE DEF TypeInv
<1>1. ASSUME NEW a \in Attempts, Touch(a) PROVE updated' \in [Attempts -> Nat]
  BY <1>1, TouchType DEF RowsOK
<1>2. UNCHANGED rowVars => RowsOK'
  BY DEF RowsOK, rowVars
<1>3. ASSUME NEW a \in Attempts, NEW st \in Statuses, Mark(a, st),
             UNCHANGED <<settings, reindex, window, checkpoint, total, completed, cancel>>
      PROVE  RowsOK'
  BY <1>1, <1>3 DEF Mark, RowsOK
<1>4. ASSUME NEW a \in Attempts, CountBatch(a),
             UNCHANGED <<status, settings, reindex, window, checkpoint, total, cancel>>
      PROVE  RowsOK'
  BY <1>1, <1>4 DEF CountBatch, RowsOK
<1>5. {"NOT_STARTED", "IN_PROGRESS", "SUCCESS", "COMPLETED_WITH_ERRORS",
       "FAILED", "CANCELED"} = Statuses
  BY DEF Statuses, Active, Successful, Unsuccessful
<1>6. ASSUME NEW s \in Settings, CreateAttempt(s) PROVE RowsOK'
  <2>1. PICK a \in Attempts, fromBeginning \in BOOLEAN :
          /\ status' = [status EXCEPT ![a] = "NOT_STARTED"]
          /\ settings' = [settings EXCEPT ![a] = s]
          /\ reindex' = [reindex EXCEPT ![a] = fromBeginning]
          /\ Touch(a)
    BY <1>6 DEF CreateAttempt
  <2> QED BY <1>1, <1>5, <1>6, <2>1 DEF CreateAttempt, RowsOK
<1>7. ASSUME NEW a \in Attempts,
             UNCHANGED <<settings, reindex, window, checkpoint, total, completed, cancel>>,
             UNCHANGED <<status, updated>> \/ (\E st \in Statuses : Mark(a, st))
      PROVE  RowsOK'
  BY <1>2, <1>3, <1>7 DEF rowVars
<1>8. ASSUME NEW a \in Attempts, Fetch(a) PROVE RowsOK'
  <2>1. CASE VerifyAttempt(a) \/ StartFetching(a)
    BY <1>5, <1>7, <2>1 DEF VerifyAttempt, StartFetching, ExitFailing
  <2>2. CASE SetPollWindow(a)
    <3> DEFINE prev == MostRecent(settings[a])
               reuse == prev # 0 /\ status[prev] \in Unsuccessful /\ window[prev] # NoWindow
    <3>1. prev \in Attempts \union {0}
      BY LastUpdatedType DEF MostRecent
    <3>2. (IF reuse THEN window[prev] ELSE a) \in Attempts \union {NoWindow}
      BY <3>1 DEF RowsOK
    <3>3. window' = [window EXCEPT ![a] = IF reuse THEN window[prev] ELSE a]
      BY <2>2 DEF SetPollWindow
    <3> HIDE DEF prev, reuse
    <3> QED BY <1>1, <2>2, <3>2, <3>3 DEF SetPollWindow, RowsOK
  <2>3. CASE CarryOverCompleted(a)
    <3>1. fetcher[a].recent \in Nat
      BY DEF FetchersOK, FetcherSound, FetcherType
    <3> QED BY <1>1, <2>3, <3>1 DEF CarryOverCompleted, RowsOK
  <2>4. CASE SaveCheckpoint(a)
    <3>1. fetcher[a].pos \in {0} \union PassEnds
      BY <2>4 DEF SaveCheckpoint, FetcherAt, FetchersOK, FetcherSound
    <3> QED BY <1>1, <2>4, <3>1 DEF SaveCheckpoint, RowsOK
  <2>5. CASE CheckStatus(a)
    BY <1>5, <1>7, <2>5 DEF CheckStatus
  <2>6. CASE SetTotalBatches(a)
    <3>1. fetcher[a].num \in Nat
      BY DEF FetchersOK, FetcherSound, FetcherType
    <3> QED BY <1>1, <2>6, <3>1 DEF SetTotalBatches, RowsOK
  <2>7. CASE LoadCheckpoint(a) \/ ReissueOldBatches(a) \/ StoreBatch(a) \/ SendTask(a)
    BY <1>2, <2>7 DEF LoadCheckpoint, ReissueOldBatches, StoreBatch, SendTask
  <2> QED BY <1>8, <2>1, <2>2, <2>3, <2>4, <2>5, <2>6, <2>7 DEF Fetch
<1>9. ASSUME NEW a \in Attempts, FetchTrouble(a) PROVE RowsOK'
  BY <1>2, <1>5, <1>7, <1>9 DEF FetchTrouble, FailSetup, ExitFailing, FailExtraction,
                                StopExtraction, KillFetcher, FailSpawn
<1>10. ASSUME NEW a \in Attempts, RequestCancellation(a) PROVE RowsOK'
  BY <1>1, <1>10 DEF RequestCancellation, RowsOK
<1>11. ASSUME NEW a \in Attempts, Heartbeat(a) PROVE RowsOK'
  BY <1>1, <1>11 DEF Heartbeat, RowsOK
<1>12. ASSUME NEW a \in Attempts,
              HeartbeatTimeout(a) \/ FailNeverStarted(a) \/ CancelAttempt(a)
                \/ ExceedMemoryLimit(a)
       PROVE  RowsOK'
  BY <1>3, <1>5, <1>12 DEF HeartbeatTimeout, FailNeverStarted, CancelAttempt, ExceedMemoryLimit
<1>13. ASSUME NEW w \in Workers, Process(w) \/ ProcessTrouble(w) PROVE RowsOK'
  <2>1. worker[w].pc # "idle" => WAtt(w) \in Attempts
    BY DEF WorkersOK, WorkerSound, WAtt
  <2>2. ASSUME NEW a \in Attempts, NEW i, TaskFails(a, i),
               UNCHANGED <<status, settings, reindex, window, checkpoint, total, cancel>>
        PROVE  RowsOK'
    BY <1>2, <1>4, <2>2 DEF TaskFails, rowVars
  <2>3. ASSUME NEW a \in Attempts, NEW n \in BatchNums, LoadBatch(w, a, n) PROVE RowsOK'
    BY <1>2, <2>2, <2>3 DEF LoadBatch, rowVars
  <2>4. ASSUME NEW a \in Attempts, NEW n \in BatchNums, RefuseBatch(w, a, n) PROVE RowsOK'
    BY <1>3, <1>5, <2>4 DEF RefuseBatch
  <2>5. CASE CompleteBatch(w)
    BY <1>4, <2>1, <2>5 DEF CompleteBatch
  <2>6. CASE FailBatch(w) \/ FailFinishing(w)
    BY <2>1, <2>2, <2>6 DEF FailBatch, FailFinishing
  <2>7. CASE IndexBatch(w) \/ FinishBatch(w) \/ CrashWorker(w)
    BY <1>2, <2>7 DEF IndexBatch, FinishBatch, CrashWorker
  <2> QED BY <1>13, <2>3, <2>4, <2>5, <2>6, <2>7 DEF Process, ProcessTrouble
<1>14. CASE Finalize \/ FailMonitoring
  <2>1. monitor.pc # "idle" => monitor.att \in Attempts
    BY DEF MonitorOK
  <2>2. CASE MarkCompletion \/ FailMonitoring
    BY <1>3, <1>5, <2>1, <2>2 DEF MarkCompletion, FailMonitoring
  <2>3. CASE CleanUpBatches \/ \E a \in Attempts : ReadCompletion(a)
    BY <1>2, <2>3 DEF CleanUpBatches, ReadCompletion
  <2> QED BY <1>14, <2>2, <2>3 DEF Finalize
<1>15. CASE UNCHANGED vars
  BY <1>2, <1>15 DEF vars
<1> QED
  BY <1>6, <1>8, <1>9, <1>10, <1>11, <1>12, <1>13, <1>14, <1>15 DEF Next, Finished

\* Every step keeps the rest of the shared state well typed.
LEMMA SharedStep ==
    ASSUME TypeInv, [Next]_vars
    PROVE  SharedOK'
<1> USE ConstantsAssumption DEF TypeInv
<1>1. spent \in 0..MaxEvents
  BY DEF SharedOK
<1>2. ASSUME NEW kind, Happens(kind) PROVE spent' \in 0..MaxEvents
  BY <1>1, <1>2 DEF Happens
<1>3. NothingHappens => spent' \in 0..MaxEvents
  BY <1>1 DEF NothingHappens
<1>4. UNCHANGED <<errors, store, queue, leaked, indexed>> /\ spent' \in 0..MaxEvents
        => SharedOK'
  BY DEF SharedOK
<1>5. EmptyStore \in [Attempts -> [BatchNums -> Items \union {NoItem}]]
  BY DEF EmptyStore
<1>6. \A a \in Attempts, n \in BatchNums : store[a][n] \in Items \union {NoItem}
  BY DEF SharedOK
<1>7. \A a \in Attempts, n \in BatchNums : queue[a][n] \in Nat
  BY DEF SharedOK
<1>8. ASSUME NEW s \in Settings, CreateAttempt(s) PROVE SharedOK'
  BY <1>2, <1>3, <1>4, <1>8 DEF CreateAttempt
<1>9. ASSUME NEW a \in Attempts, Fetch(a) PROVE SharedOK'
  <2>1. CASE LoadCheckpoint(a)
    <3>1. store' \in {store, EmptyStore} /\ spent' \in 0..MaxEvents
      BY <1>2, <1>3, <2>1 DEF LoadCheckpoint
    <3> QED BY <1>5, <2>1, <3>1 DEF LoadCheckpoint, SharedOK
  <2>2. CASE ReissueOldBatches(a)
    <3>1. PICK pick \in [{f[2] : f \in Files} -> Attempts] :
            store' = [EmptyStore EXCEPT ![a] = [n \in BatchNums |->
                        IF n \in DOMAIN pick THEN store[pick[n]][n] ELSE NoItem]]
      BY <2>2 DEF ReissueOldBatches
    <3>2. [n \in BatchNums |-> IF n \in DOMAIN pick THEN store[pick[n]][n] ELSE NoItem]
            \in [BatchNums -> Items \union {NoItem}]
      BY <1>6
    <3>3. store' \in [Attempts -> [BatchNums -> Items \union {NoItem}]]
      BY <1>5, <3>1, <3>2
    <3> DEFINE added(n) == queue[a][n] + Cardinality({f \in Files : f[2] = n})
    <3>4. \A n \in BatchNums : added(n) \in Nat
      BY <1>7, CountsAreNat
    <3>5. queue' = [queue EXCEPT ![a] = [n \in BatchNums |-> added(n)]]
      BY <2>2 DEF ReissueOldBatches
    <3> HIDE DEF added
    <3>6. queue' \in [Attempts -> [BatchNums -> Nat]]
      BY <3>4, <3>5 DEF SharedOK
    <3> QED BY <2>2, <3>3, <3>6 DEF ReissueOldBatches, SharedOK
  <2>3. CASE StoreBatch(a)
    <3>1. fetcher[a].pos + 1 \in Items /\ fetcher[a].num \in BatchNums
      BY <2>3 DEF StoreBatch, FetcherAt, FetchersOK, FetcherSound, Items
    <3> DEFINE i == fetcher[a].pos + 1
    <3>2. i \in Items
      BY <3>1
    <3>3. store' = [store EXCEPT ![a][fetcher[a].num] = i]
      BY <2>3 DEF StoreBatch
    <3> HIDE DEF i
    <3>4. store' \in [Attempts -> [BatchNums -> Items \union {NoItem}]]
      BY <3>2, <3>3 DEF SharedOK
    <3> QED BY <2>3, <3>4 DEF StoreBatch, SharedOK
  <2>4. CASE SendTask(a)
    <3>1. fetcher[a].num \in BatchNums
      BY <2>4 DEF SendTask, FetcherAt, FetchersOK, FetcherSound
    <3>2. queue' \in [Attempts -> [BatchNums -> Nat]]
      BY <1>7, <2>4, <3>1 DEF SendTask, SharedOK
    <3> QED BY <2>4, <3>2 DEF SendTask, SharedOK
  <2>5. CASE VerifyAttempt(a) \/ StartFetching(a) \/ SetPollWindow(a) \/ CarryOverCompleted(a)
              \/ SaveCheckpoint(a) \/ CheckStatus(a) \/ SetTotalBatches(a)
    BY <1>1, <1>4, <2>5 DEF VerifyAttempt, StartFetching, SetPollWindow, CarryOverCompleted,
                            SaveCheckpoint, CheckStatus, SetTotalBatches
  <2> QED BY <1>9, <2>1, <2>2, <2>3, <2>4, <2>5 DEF Fetch
<1>10. ASSUME NEW a \in Attempts, FetchTrouble(a) PROVE SharedOK'
  BY <1>2, <1>3, <1>4, <1>10 DEF FetchTrouble, FailSetup, FailExtraction, StopExtraction,
                                 KillFetcher, FailSpawn
<1>11. ASSUME NEW a \in Attempts,
              RequestCancellation(a) \/ Heartbeat(a) \/ HeartbeatTimeout(a)
                \/ FailNeverStarted(a) \/ CancelAttempt(a)
                \/ ExceedMemoryLimit(a) \/ ReadCompletion(a)
       PROVE  SharedOK'
  BY <1>1, <1>2, <1>4, <1>11 DEF RequestCancellation, Heartbeat, HeartbeatTimeout,
                                 FailNeverStarted, CancelAttempt, ExceedMemoryLimit, ReadCompletion
<1>12. ASSUME NEW w \in Workers, Process(w) \/ ProcessTrouble(w) PROVE SharedOK'
  <2>1. worker[w].pc # "idle" => /\ WAtt(w) \in Attempts /\ worker[w].item \in Items
                                /\ worker[w].num \in BatchNums
    BY DEF WorkersOK, WorkerSound, WorkerType, WAtt
  <2>2. ASSUME NEW a \in Attempts, NEW i \in Items, TaskFails(a, i)
        PROVE  errors' \subseteq Attempts \X Items
    BY <2>2 DEF TaskFails, SharedOK
  <2>3. ASSUME NEW a \in Attempts, NEW n \in BatchNums, LoadBatch(w, a, n) PROVE SharedOK'
    <3>1. queue' \in [Attempts -> [BatchNums -> Nat]]
      BY <1>7, <2>3 DEF LoadBatch, SharedOK
    <3>2. errors' \subseteq Attempts \X Items
      BY <1>6, <2>2, <2>3 DEF LoadBatch, SharedOK
    <3> QED BY <2>3, <3>1, <3>2 DEF LoadBatch, SharedOK
  <2>4. ASSUME NEW a \in Attempts, NEW n \in BatchNums, RefuseBatch(w, a, n) PROVE SharedOK'
    <3>1. queue' \in [Attempts -> [BatchNums -> Nat]]
      BY <1>7, <2>4 DEF RefuseBatch, SharedOK
    <3>2. spent' \in 0..MaxEvents
      BY <1>2, <2>4 DEF RefuseBatch
    <3> QED BY <2>4, <3>1, <3>2 DEF RefuseBatch, SharedOK
  <2>5. CASE IndexBatch(w)
    <3>1. indexed' \subseteq Settings \X Items
      BY <2>1, <2>5 DEF IndexBatch, SharedOK, RowsOK
    <3>2. spent' \in 0..MaxEvents
      BY <1>2, <1>3, <2>5 DEF IndexBatch
    <3> QED BY <2>5, <3>1, <3>2 DEF IndexBatch, SharedOK
  <2>6. CASE CompleteBatch(w)
    BY <1>1, <1>4, <2>6 DEF CompleteBatch
  <2>7. CASE FinishBatch(w)
    <3>1. errors' \subseteq Attempts \X Items
      BY <2>1, <2>7 DEF FinishBatch, FailuresOf, Batch, SharedOK
    <3>2. store' \in [Attempts -> [BatchNums -> Items \union {NoItem}]]
      BY <2>1, <2>7 DEF FinishBatch, SharedOK
    <3> QED BY <2>7, <3>1, <3>2 DEF FinishBatch, SharedOK
  <2>8. CASE FailBatch(w) \/ FailFinishing(w)
    <3>1. errors' \subseteq Attempts \X Items
      BY <2>1, <2>2, <2>8 DEF FailBatch, FailFinishing
    <3>2. spent' \in 0..MaxEvents
      BY <1>2, <2>8 DEF FailBatch, FailFinishing
    <3> QED BY <2>8, <3>1, <3>2 DEF FailBatch, FailFinishing, SharedOK
  <2>9. CASE CrashWorker(w)
    <3>1. queue' \in [Attempts -> [BatchNums -> Nat]]
      BY <1>7, <2>1, <2>9 DEF CrashWorker, SharedOK
    <3>2. spent' \in 0..MaxEvents
      BY <1>2, <2>9 DEF CrashWorker
    <3> QED BY <2>1, <2>9, <3>1, <3>2 DEF CrashWorker, SharedOK
  <2> QED BY <1>12, <2>3, <2>4, <2>5, <2>6, <2>7, <2>8, <2>9 DEF Process, ProcessTrouble
<1>13. CASE MarkCompletion \/ FailMonitoring
  BY <1>1, <1>2, <1>4, <1>13 DEF MarkCompletion, FailMonitoring
<1>14. CASE CleanUpBatches
  BY <1>5, <1>14 DEF CleanUpBatches, SharedOK
<1>15. CASE UNCHANGED vars
  BY <1>1, <1>4, <1>15 DEF vars
<1> QED
  BY <1>8, <1>9, <1>10, <1>11, <1>12, <1>13, <1>14, <1>15 DEF Next, Finished, Finalize

\* Rows, files, queues, counts and processes keep the types and the shapes that
\* the tasks of docfetching and docprocessing rely on.
THEOREM TypeCorrect == Spec => []TypeOK
<1>1. TypeInv /\ [Next]_vars => TypeInv'
  BY RowsStep, SharedStep, ProcessesStep DEF TypeInv
<1>2. TypeInv => TypeOK
  BY DEF TypeInv, TypeOK, ProcessesOK, FetchersOK, WorkersOK, MonitorOK
<1> QED BY TypeInit, <1>1, <1>2, PTL DEF Spec

-----------------------------------------------------------------------------
(***************************************************************************)
(* A successful attempt was fetched and counted                            *)
(***************************************************************************)

\* total_batches is None until the docfetching process takes its last step.
LEMMA TotalStep ==
    ASSUME TypeInv, TotalSetLast, [Next]_vars
    PROVE  TotalSetLast'
<1> USE DEF TypeInv
<1>1. UNCHANGED <<fetcher, total, status>> => TotalSetLast'
  BY DEF TotalSetLast
<1>2. /\ fetcher \in [Attempts -> FetcherType]
      /\ status \in [Attempts -> Statuses \union {"absent"}]
  BY DEF FetchersOK, RowsOK
<1>3. ASSUME NEW a \in Attempts, NEW st \in Statuses, Mark(a, st) \/ UNCHANGED status
      PROVE  \A b \in Attempts : status'[b] = "absent" => status[b] = "absent"
  BY <1>2, <1>3 DEF Mark, Statuses, Active, Successful, Unsuccessful
<1>4. ASSUME NEW a \in Attempts, fetcher[a].pc \notin {"none", "exited"},
             NEW f, SetFetcher(a, f),
             \/ UNCHANGED total
             \/ f.pc = "exited" /\ \A b \in Attempts \ {a} : total'[b] = total[b],
             \A b \in Attempts : status'[b] = "absent" => status[b] = "absent"
      PROVE  TotalSetLast'
  BY <1>2, <1>4 DEF TotalSetLast, SetFetcher
<1>5. ASSUME NEW s \in Settings, CreateAttempt(s) PROVE TotalSetLast'
  <2>1. PICK a \in Attempts : /\ status[a] = "absent"
                              /\ status' = [status EXCEPT ![a] = "NOT_STARTED"]
                              /\ SetFetcher(a, [fetcher[a] EXCEPT !.pc = "queued"])
    BY <1>5 DEF CreateAttempt, GoTo
  <2>2. fetcher' = [fetcher EXCEPT ![a] = [fetcher[a] EXCEPT !.pc = "queued"]]
    BY <2>1 DEF SetFetcher
  <2>3. [fetcher[a] EXCEPT !.pc = "queued"].pc = "queued"
    BY <1>2 DEF FetcherType
  <2>4. fetcher[a].pc = "none"
    BY <2>1 DEF TotalSetLast
  <2> QED BY <1>2, <1>5, <2>1, <2>2, <2>3, <2>4 DEF TotalSetLast, CreateAttempt
<1>6. ASSUME NEW a \in Attempts, Fetch(a) \/ FetchTrouble(a) PROVE TotalSetLast'
  <2> DEFINE f == fetcher'[a]
  <2>1. fetcher[a].pc \notin {"none", "exited"}
    BY <1>6 DEF Fetch, FetchTrouble, VerifyAttempt, StartFetching, SetPollWindow, LoadCheckpoint,
                ReissueOldBatches, CarryOverCompleted, SaveCheckpoint, CheckStatus,
                StoreBatch, SendTask, SetTotalBatches, FailSetup, FailExtraction,
                StopExtraction, KillFetcher, FailSpawn, FetcherAt, InSetup, Running
  <2>2. \A b \in Attempts : status'[b] = "absent" => status[b] = "absent"
    <3>1. \E st \in Statuses : Mark(a, st) \/ UNCHANGED status
      BY <1>6 DEF Fetch, FetchTrouble, VerifyAttempt, StartFetching, SetPollWindow, LoadCheckpoint,
                  ReissueOldBatches, CarryOverCompleted, SaveCheckpoint, CheckStatus,
                  StoreBatch, SendTask, SetTotalBatches, FailSetup, FailExtraction,
                  StopExtraction, KillFetcher, FailSpawn, ExitFailing, rowVars,
                  Statuses, Active, Successful, Unsuccessful
    <3> QED BY <1>3, <3>1
  <2>3. \E g : SetFetcher(a, g)
    BY <1>6 DEF Fetch, FetchTrouble, VerifyAttempt, StartFetching, SetPollWindow, LoadCheckpoint,
                ReissueOldBatches, CarryOverCompleted, SaveCheckpoint, CheckStatus,
                StoreBatch, SendTask, SetTotalBatches, FailSetup, FailExtraction,
                StopExtraction, KillFetcher, FailSpawn, ExitFailing, GoTo, Exit
  <2>4. SetFetcher(a, f)
    BY <1>2, <2>3 DEF SetFetcher
  <2>5. Exit(a) => f.pc = "exited"
    BY <1>2 DEF Exit, SetFetcher, NewFetcher
  <2>6. CASE SetTotalBatches(a)
    <3>1. \A b \in Attempts \ {a} : total'[b] = total[b]
      BY <2>6 DEF SetTotalBatches, RowsOK
    <3> QED BY <1>4, <2>1, <2>2, <2>4, <2>5, <2>6, <3>1 DEF SetTotalBatches
  <2>7. CASE ~SetTotalBatches(a)
    <3>1. UNCHANGED total
      BY <1>6, <2>7 DEF Fetch, FetchTrouble, VerifyAttempt, StartFetching, SetPollWindow, LoadCheckpoint,
                  ReissueOldBatches, CarryOverCompleted, SaveCheckpoint, CheckStatus,
                  StoreBatch, SendTask, FailSetup, FailExtraction,
                  StopExtraction, KillFetcher, FailSpawn, rowVars
    <3> QED BY <1>4, <2>1, <2>2, <2>4, <3>1
  <2> QED BY <2>6, <2>7
<1>7. ASSUME NEW a \in Attempts,
             RequestCancellation(a) \/ Heartbeat(a) \/ ReadCompletion(a)
      PROVE  TotalSetLast'
  BY <1>1, <1>7 DEF RequestCancellation, Heartbeat, ReadCompletion, rowVars
<1>8. ASSUME NEW a \in Attempts, NEW st \in Statuses, Mark(a, st), UNCHANGED <<fetcher, total>>
      PROVE  TotalSetLast'
  BY <1>3, <1>8 DEF TotalSetLast
<1>9. {"FAILED", "CANCELED", "SUCCESS", "COMPLETED_WITH_ERRORS"} \subseteq Statuses
  BY DEF Statuses, Successful, Unsuccessful
<1>10. ASSUME NEW a \in Attempts,
              HeartbeatTimeout(a) \/ FailNeverStarted(a) \/ CancelAttempt(a)
                \/ ExceedMemoryLimit(a)
       PROVE  TotalSetLast'
  BY <1>8, <1>9, <1>10 DEF HeartbeatTimeout, FailNeverStarted, CancelAttempt, ExceedMemoryLimit
<1>11. ASSUME NEW w \in Workers, Process(w) \/ ProcessTrouble(w) PROVE TotalSetLast'
  <2>1. ASSUME NEW a \in Attempts, NEW n \in BatchNums, RefuseBatch(w, a, n)
        PROVE  TotalSetLast'
    BY <1>8, <1>9, <2>1 DEF RefuseBatch
  <2>2. ASSUME NEW a \in Attempts, NEW n \in BatchNums, LoadBatch(w, a, n)
        PROVE  TotalSetLast'
    BY <1>1, <2>2 DEF LoadBatch
  <2>3. CASE IndexBatch(w) \/ CompleteBatch(w) \/ FinishBatch(w) \/ FailBatch(w)
               \/ FailFinishing(w) \/ CrashWorker(w)
    BY <1>1, <2>3 DEF IndexBatch, CompleteBatch, FinishBatch, FailBatch, FailFinishing,
                      CrashWorker, rowVars
  <2> QED BY <1>11, <2>1, <2>2, <2>3 DEF Process, ProcessTrouble
<1>12. CASE MarkCompletion \/ FailMonitoring
  BY <1>8, <1>9, <1>12 DEF MarkCompletion, FailMonitoring, MonitorOK
<1>13. CASE CleanUpBatches \/ UNCHANGED vars
  BY <1>1, <1>13 DEF CleanUpBatches, vars, rowVars
<1> QED
  BY <1>5, <1>6, <1>7, <1>10, <1>11, <1>12, <1>13 DEF Next, Finished, Finalize

\* Once all batches of an attempt are counted they stay counted: the count is
\* only lowered before total_batches is set.
LEMMA CompletionStands ==
    ASSUME TypeInv, TotalSetLast, [Next]_vars, NEW b \in Attempts, IndexingCompleted(b)
    PROVE  IndexingCompleted(b)'
<1> USE DEF TypeInv
<1>1. completed[b] \in Nat /\ total[b] \in Nat /\ total[b] # None /\ completed[b] >= total[b]
  BY DEF RowsOK, IndexingCompleted
<1>2. fetcher[b].pc = "exited"
  BY <1>1 DEF TotalSetLast
<1>3. total'[b] = total[b] /\ completed'[b] \in Nat /\ completed'[b] >= completed[b]
        => IndexingCompleted(b)'
  BY <1>1 DEF IndexingCompleted
<1>4. UNCHANGED <<total, completed>> => IndexingCompleted(b)'
  BY <1>1, <1>3
<1>5. ASSUME NEW a \in Attempts, CountBatch(a), UNCHANGED total PROVE IndexingCompleted(b)'
  BY <1>1, <1>3, <1>5 DEF CountBatch, RowsOK
<1>6. ASSUME NEW a \in Attempts, Fetch(a) PROVE IndexingCompleted(b)'
  <2>1. CASE CarryOverCompleted(a)
    <3>1. a # b
      BY <1>2, <2>1 DEF CarryOverCompleted, FetcherAt
    <3> QED BY <1>1, <1>3, <2>1, <3>1 DEF CarryOverCompleted, RowsOK
  <2>2. CASE SetTotalBatches(a)
    <3>1. a # b
      BY <1>2, <2>2 DEF SetTotalBatches, FetcherAt
    <3> QED BY <1>1, <1>3, <2>2, <3>1 DEF SetTotalBatches, RowsOK
  <2>3. CASE ~CarryOverCompleted(a) /\ ~SetTotalBatches(a)
    BY <1>4, <1>6, <2>3 DEF Fetch, VerifyAttempt, StartFetching, SetPollWindow, LoadCheckpoint,
         ReissueOldBatches, SaveCheckpoint, CheckStatus, StoreBatch, SendTask, rowVars
  <2> QED BY <2>1, <2>2, <2>3
<1>7. ASSUME NEW a \in Attempts, FetchTrouble(a) PROVE IndexingCompleted(b)'
  BY <1>4, <1>7 DEF FetchTrouble, FailSetup, FailExtraction, StopExtraction, KillFetcher,
                    FailSpawn, rowVars
<1>8. ASSUME NEW a \in Attempts,
             RequestCancellation(a) \/ Heartbeat(a) \/ ReadCompletion(a)
               \/ HeartbeatTimeout(a) \/ FailNeverStarted(a) \/ CancelAttempt(a)
                \/ ExceedMemoryLimit(a)
      PROVE  IndexingCompleted(b)'
  BY <1>4, <1>8 DEF RequestCancellation, Heartbeat, ReadCompletion, HeartbeatTimeout,
                    FailNeverStarted, CancelAttempt, ExceedMemoryLimit, rowVars
<1>9. ASSUME NEW w \in Workers, Process(w) \/ ProcessTrouble(w) PROVE IndexingCompleted(b)'
  <2>1. worker[w].pc # "idle" => WAtt(w) \in Attempts
    BY DEF WorkersOK, WorkerSound, WAtt
  <2>2. ASSUME NEW a \in Attempts, NEW i, TaskFails(a, i), UNCHANGED total
        PROVE  IndexingCompleted(b)'
    BY <1>4, <1>5, <2>2 DEF TaskFails
  <2>3. ASSUME NEW a \in Attempts, NEW n \in BatchNums,
               LoadBatch(w, a, n) \/ RefuseBatch(w, a, n)
        PROVE  IndexingCompleted(b)'
    BY <1>4, <2>2, <2>3 DEF LoadBatch, RefuseBatch
  <2>4. CASE CompleteBatch(w) \/ FailBatch(w) \/ FailFinishing(w)
    BY <1>5, <2>1, <2>2, <2>4 DEF CompleteBatch, FailBatch, FailFinishing
  <2>5. CASE IndexBatch(w) \/ FinishBatch(w) \/ CrashWorker(w)
    BY <1>4, <2>5 DEF IndexBatch, FinishBatch, CrashWorker, rowVars
  <2> QED BY <1>9, <2>3, <2>4, <2>5 DEF Process, ProcessTrouble
<1>10. ASSUME NEW s \in Settings, CreateAttempt(s) PROVE IndexingCompleted(b)'
  BY <1>4, <1>10 DEF CreateAttempt
<1>11. CASE MarkCompletion \/ CleanUpBatches \/ FailMonitoring \/ UNCHANGED vars
  BY <1>4, <1>11 DEF MarkCompletion, CleanUpBatches, FailMonitoring, vars, rowVars
<1> QED
  BY <1>6, <1>7, <1>8, <1>9, <1>10, <1>11 DEF Next, Finished, Finalize

\* How the status of an attempt changes: never from an ended one to an active one,
\* and to a successful one only when check_indexing_completion marks it.
LEMMA StatusStep ==
    ASSUME TypeInv, [Next]_vars, NEW b \in Attempts
    PROVE  /\ status[b] \in Terminal => status'[b] \in Terminal
           /\ status'[b] \in Successful =>
                status[b] \in Successful \/ (monitor.pc = "mark" /\ monitor.att = b)
<1> DEFINE Stays == status'[b] = status[b]
           Ends == status'[b] \in Unsuccessful
           Starts == status[b] \in {"absent", "NOT_STARTED"} /\ status'[b] \in Active
           Goal == /\ status[b] \in Terminal => status'[b] \in Terminal
                   /\ status'[b] \in Successful =>
                        status[b] \in Successful \/ (monitor.pc = "mark" /\ monitor.att = b)
<1> SUFFICES Goal
  OBVIOUS
<1>1. status \in [Attempts -> Statuses \union {"absent"}]
  BY DEF TypeInv, RowsOK
<1>2. Stays \/ Ends \/ Starts => Goal
  BY DEF Terminal, Active, Successful, Unsuccessful
<1>3. UNCHANGED status => Stays
  OBVIOUS
<1>4. ASSUME NEW a \in Attempts, NEW st \in Unsuccessful, Mark(a, st) PROVE Stays \/ Ends
  BY <1>1, <1>4 DEF Mark
<1>5. {"FAILED", "CANCELED"} = Unsuccessful
  BY DEF Unsuccessful
<1> HIDE DEF Goal
<1>6. ASSUME NEW s \in Settings, CreateAttempt(s) PROVE Goal
  <2>1. PICK a \in Attempts : /\ status[a] = "absent"
                              /\ status' = [status EXCEPT ![a] = "NOT_STARTED"]
    BY <1>6 DEF CreateAttempt
  <2>2. Stays \/ Starts
    BY <1>1, <2>1 DEF Active
  <2> QED BY <1>2, <2>2
<1>7. ASSUME NEW a \in Attempts, Fetch(a) PROVE Goal
  <2>1. CASE StartFetching(a)
    <3>1. CASE MayStart(a) /\ Mark(a, "IN_PROGRESS")
      <4>1. Stays \/ Starts
        BY <1>1, <3>1 DEF MayStart, Mark, Active
      <4> QED BY <1>2, <4>1
    <3>2. CASE ExitFailing(a)
      BY <1>2, <1>3, <1>4, <1>5, <3>2 DEF ExitFailing
    <3> QED BY <2>1, <3>1, <3>2 DEF StartFetching
  <2>2. CASE CheckStatus(a)
    BY <1>2, <1>3, <1>4, <1>5, <2>2 DEF CheckStatus
  <2>3. CASE VerifyAttempt(a)
    BY <1>2, <1>3, <1>4, <1>5, <2>3 DEF VerifyAttempt, ExitFailing
  <2>4. CASE ~VerifyAttempt(a) /\ ~StartFetching(a) /\ ~CheckStatus(a)
    BY <1>2, <1>3, <1>7, <2>4 DEF Fetch, SetPollWindow, LoadCheckpoint, ReissueOldBatches,
         CarryOverCompleted, SaveCheckpoint, StoreBatch, SendTask, SetTotalBatches, rowVars
  <2> QED BY <2>1, <2>2, <2>3, <2>4
<1>8. ASSUME NEW a \in Attempts, FetchTrouble(a) PROVE Goal
  <2>1. Stays \/ Ends
    BY <1>3, <1>4, <1>5, <1>8 DEF FetchTrouble, FailSetup, FailExtraction, StopExtraction,
         KillFetcher, FailSpawn, ExitFailing, rowVars
  <2> QED BY <1>2, <2>1
<1>9. ASSUME NEW a \in Attempts,
             RequestCancellation(a) \/ Heartbeat(a) \/ ReadCompletion(a)
               \/ HeartbeatTimeout(a) \/ FailNeverStarted(a) \/ CancelAttempt(a)
                \/ ExceedMemoryLimit(a)
      PROVE  Goal
  <2>1. Stays \/ Ends
    BY <1>3, <1>4, <1>5, <1>9 DEF RequestCancellation, Heartbeat, ReadCompletion,
         HeartbeatTimeout, FailNeverStarted, CancelAttempt, ExceedMemoryLimit, rowVars
  <2> QED BY <1>2, <2>1
<1>10. ASSUME NEW w \in Workers, Process(w) \/ ProcessTrouble(w) PROVE Goal
  <2>1. ASSUME NEW a \in Attempts, NEW n \in BatchNums,
               LoadBatch(w, a, n) \/ RefuseBatch(w, a, n)
        PROVE  Stays \/ Ends
    BY <1>3, <1>4, <1>5, <2>1 DEF LoadBatch, RefuseBatch
  <2>2. IndexBatch(w) \/ CompleteBatch(w) \/ FinishBatch(w) \/ FailBatch(w)
          \/ FailFinishing(w) \/ CrashWorker(w) => Stays
    BY <1>3 DEF IndexBatch, CompleteBatch, FinishBatch, FailBatch, FailFinishing,
                CrashWorker, rowVars
  <2> QED BY <1>2, <1>10, <2>1, <2>2 DEF Process, ProcessTrouble
<1>11. CASE MarkCompletion
  <2>1. (status'[b] \in Successful /\ monitor.pc = "mark" /\ monitor.att = b) \/ Stays
    BY <1>1, <1>11 DEF MarkCompletion, Mark, Successful
  <2> QED BY <1>2, <2>1 DEF Goal, Terminal
<1>12. CASE FailMonitoring
  <2>1. Stays \/ Ends
    BY <1>1, <1>5, <1>12 DEF FailMonitoring, Mark
  <2> QED BY <1>2, <2>1
<1>13. CASE CleanUpBatches \/ UNCHANGED vars
  BY <1>2, <1>3, <1>13 DEF CleanUpBatches, vars, rowVars
<1> QED
  BY <1>6, <1>7, <1>8, <1>9, <1>10, <1>11, <1>12, <1>13 DEF Next, Finished, Finalize

\* Only check_for_indexing changes what it is doing.
LEMMA MonitorMoves ==
    ASSUME [Next]_vars, ~UNCHANGED monitor
    PROVE  \/ \E a \in Attempts : ReadCompletion(a)
           \/ MarkCompletion \/ CleanUpBatches \/ FailMonitoring
<1>1. ASSUME NEW a \in Attempts, Fetch(a) \/ FetchTrouble(a) PROVE UNCHANGED monitor
  BY <1>1 DEF Fetch, FetchTrouble, VerifyAttempt, StartFetching, SetPollWindow, LoadCheckpoint,
              ReissueOldBatches, CarryOverCompleted, SaveCheckpoint, CheckStatus,
              StoreBatch, SendTask, SetTotalBatches, FailSetup, FailExtraction,
              StopExtraction, KillFetcher, FailSpawn
<1>2. ASSUME NEW w \in Workers, Process(w) \/ ProcessTrouble(w) PROVE UNCHANGED monitor
  BY <1>2 DEF Process, ProcessTrouble, LoadBatch, RefuseBatch, IndexBatch, FailBatch,
              CompleteBatch, FinishBatch, FailFinishing, CrashWorker
<1>3. ASSUME NEW a \in Attempts,
             RequestCancellation(a) \/ Heartbeat(a) \/ HeartbeatTimeout(a)
               \/ FailNeverStarted(a) \/ CancelAttempt(a)
                \/ ExceedMemoryLimit(a)
      PROVE  UNCHANGED monitor
  BY <1>3 DEF RequestCancellation, Heartbeat, HeartbeatTimeout, FailNeverStarted,
              CancelAttempt, ExceedMemoryLimit
<1>4. ASSUME NEW s \in Settings, CreateAttempt(s) PROVE UNCHANGED monitor
  BY <1>4 DEF CreateAttempt
<1> QED BY <1>1, <1>2, <1>3, <1>4 DEF Next, Finished, Finalize, vars

\* The parts of CountInv carry one another over a step.
LEMMA CountStep ==
    ASSUME TypeInv, CountInv, [Next]_vars
    PROVE  CountInv'
<1> USE DEF CountInv
<1>1. TotalSetLast'
  BY TotalStep
<1>2. \A b \in Attempts : IndexingCompleted(b) => IndexingCompleted(b)'
  BY CompletionStands
<1>3. monitor.pc # "idle" => monitor.att \in Attempts /\ IndexingCompleted(monitor.att)
  BY DEF TypeInv, MonitorOK, SnapshotStands
<1>4. SnapshotStands'
  <2>1. ASSUME monitor.pc # "idle", monitor'.att = monitor.att PROVE SnapshotStands'
    BY <1>2, <1>3, <2>1 DEF SnapshotStands, IndexingCompleted
  <2>2. ASSUME NEW a \in Attempts, ReadCompletion(a) PROVE SnapshotStands'
    <3>1. monitor'.att = a /\ IndexingCompleted(a)
      BY <2>2 DEF ReadCompletion
    <3> QED BY <1>2, <3>1 DEF SnapshotStands, IndexingCompleted
  <2>3. CASE MarkCompletion \/ FailMonitoring
    BY <2>1, <2>3 DEF MarkCompletion, FailMonitoring, TypeInv, MonitorOK
  <2>4. CASE CleanUpBatches
    BY <2>4 DEF CleanUpBatches, IdleMonitor, SnapshotStands
  <2>5. CASE UNCHANGED monitor
    BY <2>1, <2>5 DEF SnapshotStands
  <2> QED BY <2>2, <2>3, <2>4, <2>5, MonitorMoves
<1>5. SuccessMeansCounted'
  <2>1. SUFFICES ASSUME NEW b \in Attempts, status'[b] \in Successful
                 PROVE  ~Live(b)' /\ IndexingCompleted(b)'
    BY DEF SuccessMeansCounted, IndexingCompleted
  <2>2. IndexingCompleted(b)
    BY <1>3, <2>1, StatusStep DEF SuccessMeansCounted, IndexingCompleted
  <2>3. IndexingCompleted(b)'
    BY <1>2, <2>2
  <2> QED BY <1>1, <2>3 DEF TotalSetLast, IndexingCompleted, Live
<1> QED BY <1>1, <1>4, <1>5

LEMMA CountInit == Init => CountInv
BY ConstantsAssumption DEF Init, CountInv, TotalSetLast, SnapshotStands, SuccessMeansCounted,
   NewFetcher, IdleMonitor, Successful

\* What holds in every state.
LEMMA Invariants == Spec => [](TypeInv /\ CountInv)
<1>1. Init => TypeInv /\ CountInv
  BY TypeInit, CountInit
<1>2. TypeInv /\ CountInv /\ [Next]_vars => (TypeInv /\ CountInv)'
  <2>1. TypeInv /\ [Next]_vars => TypeInv'
    BY RowsStep, SharedStep, ProcessesStep DEF TypeInv
  <2> QED BY <2>1, CountStep
<1> QED BY <1>1, <1>2, PTL DEF Spec

\* No attempt ends successfully before its docfetching process has ended and as
\* many batches were counted as it handed out.
THEOREM SuccessCounted == Spec => []SuccessMeansCounted
<1>1. TypeInv /\ CountInv => SuccessMeansCounted
  BY DEF CountInv
<1> QED BY Invariants, <1>1, PTL

\* No step makes an attempt that has ended active again.
THEOREM EndedForGood == Spec => StaysTerminal
<1> DEFINE Stays == \A a \in Attempts : status[a] \in Terminal => status'[a] \in Terminal
<1>1. TypeInv /\ [Next]_vars => [Stays]_vars
  BY StatusStep
<1>2. Spec => [][Stays]_vars
  BY Invariants, <1>1, PTL DEF Spec
<1> QED BY <1>2 DEF StaysTerminal

-----------------------------------------------------------------------------
(***************************************************************************)
(* The pipeline implements AttemptLifecycle                                *)
(***************************************************************************)
Claims(a) == status[a] \in Active \union Successful
CountedAttempts == {a \in Attempts : ~Live(a) /\ IndexingCompleted(a)}

(***************************************************************************)
(* What the refinement needs besides the invariants of the pipeline: work  *)
(* is only queued or held for attempts that exist, two attempts of a       *)
(* search setting do not hold the claim together, and the attempt that     *)
(* check_indexing_completion is about to mark has no rival: it was active  *)
(* when it was read and no other is created before it is marked.           *)
(***************************************************************************)
WorkKnown ==
    \A a \in Attempts : status[a] = "absent" =>
        /\ \A n \in BatchNums : queue[a][n] = 0
        /\ \A w \in Workers : ~BusyOn(w, a)
OneClaimant ==
    \A a, b \in Attempts : a # b /\ settings[a] = settings[b] => ~(Claims(a) /\ Claims(b))
MarkedAlone ==
    monitor.pc = "mark" =>
        \A b \in Attempts \ {monitor.att} : settings[b] = settings[monitor.att] => ~Claims(b)

ClaimInv == WorkKnown /\ OneClaimant /\ MarkedAlone

-----------------------------------------------------------------------------
(***************************************************************************)
(* Lemmas about the steps                                                  *)
(***************************************************************************)

\* total_batches is set by the last step of the docfetching process, so that
\* whether an attempt is counted only depends on the two columns.
LEMMA CountedByColumns ==
    ASSUME TotalSetLast
    PROVE  CountedAttempts = {a \in Attempts : IndexingCompleted(a)}
BY DEF CountedAttempts, TotalSetLast, IndexingCompleted, Live

\* How the statuses change in a step.
LEMMA StatusMoves ==
    ASSUME TypeInv, CountInv, WorkKnown, [Next]_vars
    PROVE  \/ UNCHANGED <<status, settings>>
           \/ /\ UNCHANGED <<settings, total, completed>>
              /\ \E a \in Attempts, st \in Unsuccessful \union {"IN_PROGRESS"} :
                   /\ status[a] # "absent" /\ status' = [status EXCEPT ![a] = st]
                   /\ st = "IN_PROGRESS" => status[a] = "NOT_STARTED"
           \/ \E s \in Settings : CreateAttempt(s)
           \/ MarkCompletion
<1> DEFINE Same == UNCHANGED <<status, settings>>
           Moves == /\ UNCHANGED <<settings, total, completed>>
                    /\ \E a \in Attempts, st \in Unsuccessful \union {"IN_PROGRESS"} :
                         /\ status[a] # "absent" /\ status' = [status EXCEPT ![a] = st]
                         /\ st = "IN_PROGRESS" => status[a] = "NOT_STARTED"
<1>1. ASSUME NEW a \in Attempts, status[a] # "absent", NEW st \in {"FAILED", "CANCELED"},
             Mark(a, st), UNCHANGED <<settings, total, completed>>
      PROVE  Moves
  BY <1>1 DEF Mark, Unsuccessful
<1>2. ASSUME NEW a \in Attempts, Fetch(a) \/ FetchTrouble(a) \/ ExceedMemoryLimit(a)
      PROVE  status[a] # "absent"
  BY <1>2 DEF CountInv, TotalSetLast, Fetch, FetchTrouble, VerifyAttempt, StartFetching, SetPollWindow,
              LoadCheckpoint, ReissueOldBatches, CarryOverCompleted, SaveCheckpoint, CheckStatus,
              StoreBatch, SendTask, SetTotalBatches, FailSetup, FailExtraction, StopExtraction,
              KillFetcher, FailSpawn, ExceedMemoryLimit, FetcherAt, InSetup, Running
<1> HIDE DEF Moves
<1>3. ASSUME NEW a \in Attempts, Fetch(a) PROVE Same \/ Moves
  <2>1. CASE StartFetching(a)
    <3>1. CASE MayStart(a) /\ Mark(a, "IN_PROGRESS")
      BY <2>1, <3>1 DEF StartFetching, MayStart, Mark, Moves
    <3>2. CASE ExitFailing(a)
      BY <1>1, <1>2, <1>3, <2>1, <3>2 DEF StartFetching, ExitFailing
    <3> QED BY <2>1, <3>1, <3>2 DEF StartFetching
  <2>2. CASE CheckStatus(a)
    BY <1>1, <1>2, <1>3, <2>2 DEF CheckStatus
  <2>3. CASE VerifyAttempt(a)
    BY <1>1, <1>2, <1>3, <2>3 DEF VerifyAttempt, ExitFailing
  <2>4. CASE ~VerifyAttempt(a) /\ ~StartFetching(a) /\ ~CheckStatus(a)
    BY <1>3, <2>4 DEF Fetch, SetPollWindow, LoadCheckpoint, ReissueOldBatches,
         CarryOverCompleted, SaveCheckpoint, StoreBatch, SendTask, SetTotalBatches, rowVars
  <2> QED BY <2>1, <2>2, <2>3, <2>4
<1>4. ASSUME NEW a \in Attempts, FetchTrouble(a) PROVE Same \/ Moves
  BY <1>1, <1>2, <1>4 DEF FetchTrouble, FailSetup, FailExtraction, StopExtraction,
     KillFetcher, FailSpawn, ExitFailing, rowVars
<1>5. ASSUME NEW a \in Attempts,
             HeartbeatTimeout(a) \/ FailNeverStarted(a) \/ CancelAttempt(a)
               \/ ExceedMemoryLimit(a)
      PROVE  Moves
  BY <1>1, <1>2, <1>5 DEF HeartbeatTimeout, FailNeverStarted, CancelAttempt,
     ExceedMemoryLimit, Active
<1>6. ASSUME NEW a \in Attempts,
             RequestCancellation(a) \/ Heartbeat(a) \/ ReadCompletion(a)
      PROVE  Same
  BY <1>6 DEF RequestCancellation, Heartbeat, ReadCompletion, rowVars
<1>7. ASSUME NEW w \in Workers, Process(w) \/ ProcessTrouble(w) PROVE Same \/ Moves
  <2>1. ASSUME NEW a \in Attempts, NEW n \in BatchNums, RefuseBatch(w, a, n)
        PROVE  Moves
    <3>1. status[a] # "absent"
      BY <2>1 DEF RefuseBatch, WorkKnown
    <3> QED BY <1>1, <2>1, <3>1 DEF RefuseBatch
  <2>2. ASSUME NEW a \in Attempts, NEW n \in BatchNums, LoadBatch(w, a, n)
        PROVE  Same
    BY <2>2 DEF LoadBatch
  <2>3. CASE IndexBatch(w) \/ CompleteBatch(w) \/ FinishBatch(w) \/ FailBatch(w)
               \/ FailFinishing(w) \/ CrashWorker(w)
    BY <2>3 DEF IndexBatch, CompleteBatch, FinishBatch, FailBatch, FailFinishing,
                CrashWorker, rowVars
  <2> QED BY <1>7, <2>1, <2>2, <2>3 DEF Process, ProcessTrouble
<1>8. ASSUME FailMonitoring PROVE Moves
  <2>1. monitor.att \in Attempts /\ status[monitor.att] # "absent"
    BY <1>8 DEF FailMonitoring, TypeInv, MonitorOK, CountInv, SnapshotStands,
                IndexingCompleted, TotalSetLast
  <2> QED BY <1>1, <1>8, <2>1 DEF FailMonitoring
<1>9. ASSUME CleanUpBatches \/ UNCHANGED vars PROVE Same
  BY <1>9 DEF CleanUpBatches, vars, rowVars
<1> QED
  BY <1>3, <1>4, <1>5, <1>6, <1>7, <1>8, <1>9 DEF Next, Finished, Finalize, Moves

\* A step changes the counts of one attempt at most.
LEMMA OneRowCounts ==
    ASSUME TypeInv, [Next]_vars
    PROVE  \E a \in Attempts : \A b \in Attempts \ {a} :
              total'[b] = total[b] /\ completed'[b] = completed[b]
<1> DEFINE Only(a) == \A b \in Attempts \ {a} : total'[b] = total[b] /\ completed'[b] = completed[b]
<1>0. RowsOK /\ 1 \in Attempts
  BY ConstantsAssumption DEF TypeInv, Attempts
<1>1. UNCHANGED <<total, completed>> => \E a \in Attempts : Only(a)
  BY <1>0
<1>2. ASSUME NEW a \in Attempts, CountBatch(a), UNCHANGED total PROVE Only(a)
  BY <1>0, <1>2 DEF CountBatch, RowsOK
<1>3. ASSUME NEW a \in Attempts, NEW i, TaskFails(a, i), UNCHANGED total
      PROVE  \E c \in Attempts : Only(c)
  BY <1>1, <1>2, <1>3 DEF TaskFails
<1>4. ASSUME NEW a \in Attempts, Fetch(a) PROVE \E c \in Attempts : Only(c)
  <2>1. CASE CarryOverCompleted(a) \/ SetTotalBatches(a)
    <3>1. Only(a)
      BY <1>0, <2>1 DEF CarryOverCompleted, SetTotalBatches, RowsOK
    <3> QED BY <3>1
  <2>2. CASE ~CarryOverCompleted(a) /\ ~SetTotalBatches(a)
    <3>1. UNCHANGED <<total, completed>>
      BY <1>4, <2>2 DEF Fetch, VerifyAttempt, StartFetching, SetPollWindow, LoadCheckpoint,
           ReissueOldBatches, SaveCheckpoint, CheckStatus, StoreBatch, SendTask, rowVars
    <3> QED BY <1>1, <3>1
  <2> QED BY <2>1, <2>2
<1>5. ASSUME NEW a \in Attempts, FetchTrouble(a) PROVE UNCHANGED <<total, completed>>
  BY <1>5 DEF FetchTrouble, FailSetup, FailExtraction, StopExtraction, KillFetcher,
              FailSpawn, rowVars
<1>6. ASSUME NEW a \in Attempts,
             RequestCancellation(a) \/ Heartbeat(a) \/ ReadCompletion(a)
               \/ HeartbeatTimeout(a) \/ FailNeverStarted(a) \/ CancelAttempt(a)
               \/ ExceedMemoryLimit(a)
      PROVE  UNCHANGED <<total, completed>>
  BY <1>6 DEF RequestCancellation, Heartbeat, ReadCompletion, HeartbeatTimeout,
              FailNeverStarted, CancelAttempt, ExceedMemoryLimit, rowVars
<1>7. ASSUME NEW w \in Workers, Process(w) \/ ProcessTrouble(w)
      PROVE  \E c \in Attempts : Only(c)
  <2>1. worker[w].pc # "idle" => WAtt(w) \in Attempts
    BY DEF TypeInv, WorkersOK, WorkerSound, WAtt
  <2>2. ASSUME NEW a \in Attempts, NEW n \in BatchNums,
               LoadBatch(w, a, n) \/ RefuseBatch(w, a, n)
        PROVE  \E c \in Attempts : Only(c)
    BY <1>1, <1>3, <2>2 DEF LoadBatch, RefuseBatch
  <2>3. CASE CompleteBatch(w) \/ FailBatch(w) \/ FailFinishing(w)
    <3>1. WAtt(w) \in Attempts
      BY <2>1, <2>3 DEF CompleteBatch, FailBatch, FailFinishing
    <3> QED BY <1>2, <1>3, <2>3, <3>1 DEF CompleteBatch, FailBatch, FailFinishing
  <2>4. CASE IndexBatch(w) \/ FinishBatch(w) \/ CrashWorker(w)
    <3>1. UNCHANGED <<total, completed>>
      BY <2>4 DEF IndexBatch, FinishBatch, CrashWorker, rowVars
    <3> QED BY <1>1, <3>1
  <2> QED BY <1>7, <2>2, <2>3, <2>4 DEF Process, ProcessTrouble
<1>8. ASSUME NEW s \in Settings, CreateAttempt(s) PROVE UNCHANGED <<total, completed>>
  BY <1>8 DEF CreateAttempt
<1>9. ASSUME MarkCompletion \/ CleanUpBatches \/ FailMonitoring \/ UNCHANGED vars
      PROVE  UNCHANGED <<total, completed>>
  BY <1>9 DEF MarkCompletion, CleanUpBatches, FailMonitoring, vars, rowVars
<1> HIDE DEF Only
<1> SUFFICES \E a \in Attempts : Only(a)
  BY DEF Only
<1> QED
  BY <1>1, <1>4, <1>5, <1>6, <1>7, <1>8, <1>9 DEF Next, Finished, Finalize

\* Nothing is queued or held for an attempt that does not exist.
LEMMA WorkStep ==
    ASSUME TypeInv, CountInv, WorkKnown, [Next]_vars
    PROVE  WorkKnown'
<1>0. /\ status \in [Attempts -> Statuses \union {"absent"}]
      /\ queue \in [Attempts -> [BatchNums -> Nat]]
      /\ worker \in [Workers -> WorkerType]
  BY DEF TypeInv, RowsOK, SharedOK, WorkersOK
<1>1. \A a \in Attempts : status'[a] = "absent" => status[a] = "absent"
  <2>1. CASE UNCHANGED <<status, settings>>
    BY <2>1
  <2>2. ASSUME NEW a \in Attempts, NEW st \in Unsuccessful \union {"IN_PROGRESS", "NOT_STARTED"},
               status' = [status EXCEPT ![a] = st]
        PROVE  \A b \in Attempts : status'[b] = "absent" => status[b] = "absent"
    BY <1>0, <2>2 DEF Unsuccessful
  <2>3. CASE MarkCompletion
    BY <1>0, <2>3 DEF MarkCompletion, Mark
  <2>4. ASSUME NEW s \in Settings, CreateAttempt(s)
        PROVE  \A b \in Attempts : status'[b] = "absent" => status[b] = "absent"
    BY <2>2, <2>4 DEF CreateAttempt
  <2> QED BY <2>1, <2>2, <2>3, <2>4, StatusMoves
<1>2. UNCHANGED <<queue, worker>> => WorkKnown'
  BY <1>1 DEF WorkKnown, BusyOn
<1>3. ASSUME NEW a \in Attempts, status[a] # "absent", UNCHANGED worker,
             \A b \in Attempts \ {a} : queue'[b] = queue[b]
      PROVE  WorkKnown'
  BY <1>1, <1>3 DEF WorkKnown, BusyOn
<1>4. ASSUME NEW a \in Attempts, status[a] # "absent", NEW w \in Workers, NEW r, SetWorker(w, r),
             r.pc = "idle" \/ r.att = a,
             \A b \in Attempts \ {a} : queue'[b] = queue[b]
      PROVE  WorkKnown'
  BY <1>0, <1>1, <1>4 DEF WorkKnown, BusyOn, SetWorker
<1>5. ASSUME NEW a \in Attempts, Fetch(a) PROVE WorkKnown'
  <2>1. status[a] # "absent"
    BY <1>5 DEF CountInv, TotalSetLast, Fetch, VerifyAttempt, StartFetching, SetPollWindow,
                LoadCheckpoint, ReissueOldBatches, CarryOverCompleted, SaveCheckpoint,
                CheckStatus, StoreBatch, SendTask, SetTotalBatches, FetcherAt
  <2>2. CASE ReissueOldBatches(a) \/ SendTask(a)
    <3>1. \A b \in Attempts \ {a} : queue'[b] = queue[b]
      BY <1>0, <2>2 DEF ReissueOldBatches, SendTask
    <3> QED BY <1>3, <2>1, <2>2, <3>1 DEF ReissueOldBatches, SendTask
  <2>3. CASE ~ReissueOldBatches(a) /\ ~SendTask(a)
    BY <1>2, <1>5, <2>3 DEF Fetch, VerifyAttempt, StartFetching, SetPollWindow, LoadCheckpoint,
         CarryOverCompleted, SaveCheckpoint, CheckStatus, StoreBatch, SetTotalBatches
  <2> QED BY <2>2, <2>3
<1>6. ASSUME NEW a \in Attempts,
             FetchTrouble(a) \/ RequestCancellation(a) \/ Heartbeat(a) \/ ReadCompletion(a)
               \/ HeartbeatTimeout(a) \/ FailNeverStarted(a) \/ CancelAttempt(a)
               \/ ExceedMemoryLimit(a)
      PROVE  WorkKnown'
  BY <1>2, <1>6 DEF FetchTrouble, FailSetup, FailExtraction, StopExtraction, KillFetcher,
     FailSpawn, RequestCancellation, Heartbeat, ReadCompletion, HeartbeatTimeout,
     FailNeverStarted, CancelAttempt, ExceedMemoryLimit
<1>7. ASSUME NEW w \in Workers, Process(w) \/ ProcessTrouble(w) PROVE WorkKnown'
  <2>1. worker[w].pc # "idle" => WAtt(w) \in Attempts /\ status[WAtt(w)] # "absent"
    BY DEF TypeInv, WorkersOK, WorkerSound, WorkKnown, BusyOn, WAtt
  <2>2. IdleWorker.pc = "idle"
    BY DEF IdleWorker
  <2>3. ASSUME NEW a \in Attempts, NEW n \in BatchNums,
               LoadBatch(w, a, n) \/ RefuseBatch(w, a, n)
        PROVE  WorkKnown'
    <3>1. status[a] # "absent"
      BY <2>3 DEF LoadBatch, RefuseBatch, WorkKnown
    <3>2. \A b \in Attempts \ {a} : queue'[b] = queue[b]
      BY <1>0, <2>3 DEF LoadBatch, RefuseBatch
    <3>3. UNCHANGED worker \/ \E r : SetWorker(w, r) /\ r.att = a
      <4>1. [pc |-> "loaded", att |-> a, num |-> n, item |-> store[a][n], failed |-> FALSE].att = a
        OBVIOUS
      <4> QED BY <2>3, <4>1 DEF LoadBatch, RefuseBatch
    <3> QED BY <1>3, <1>4, <3>1, <3>2, <3>3
  <2>4. CASE IndexBatch(w) \/ CompleteBatch(w) \/ FinishBatch(w) \/ FailBatch(w)
               \/ FailFinishing(w)
    <3>1. worker[w].pc # "idle" /\ UNCHANGED queue
      BY <2>4 DEF IndexBatch, CompleteBatch, FinishBatch, FailBatch, FailFinishing
    <3>2. \E r : SetWorker(w, r) /\ (r.pc = "idle" \/ r.att = WAtt(w))
      <4>1. /\ \A bad \in BOOLEAN : [worker[w] EXCEPT !.pc = "indexed", !.failed = bad].att = WAtt(w)
            /\ [worker[w] EXCEPT !.pc = "counted"].att = WAtt(w)
        BY <1>0 DEF WorkerType, WAtt
      <4> QED BY <2>2, <2>4, <4>1 DEF IndexBatch, CompleteBatch, FinishBatch, FailBatch, FailFinishing
    <3> QED BY <1>4, <2>1, <3>1, <3>2
  <2>5. CASE CrashWorker(w)
    <3>1. worker[w].pc # "idle" /\ SetWorker(w, IdleWorker)
      BY <2>5 DEF CrashWorker
    <3>2. \A b \in Attempts \ {WAtt(w)} : queue'[b] = queue[b]
      BY <1>0, <2>5 DEF CrashWorker
    <3> QED BY <1>4, <2>1, <2>2, <3>1, <3>2
  <2> QED BY <1>7, <2>3, <2>4, <2>5 DEF Process, ProcessTrouble
<1>8. ASSUME NEW s \in Settings, CreateAttempt(s) PROVE WorkKnown'
  BY <1>2, <1>8 DEF CreateAttempt
<1>9. CASE MarkCompletion \/ CleanUpBatches \/ FailMonitoring \/ UNCHANGED vars
  BY <1>2, <1>9 DEF MarkCompletion, CleanUpBatches, FailMonitoring, vars
<1> QED
  BY <1>5, <1>6, <1>7, <1>8, <1>9 DEF Next, Finished, Finalize

-----------------------------------------------------------------------------
(***************************************************************************)
(* One claimant                                                            *)
(***************************************************************************)

\* The parts of ClaimInv carry one another over a step.
LEMMA ClaimStep ==
    ASSUME TypeInv, CountInv, ClaimInv, [Next]_vars
    PROVE  ClaimInv'
<1> USE DEF ClaimInv
<1>0. /\ status \in [Attempts -> Statuses \union {"absent"}]
      /\ settings \in [Attempts -> Settings]
  BY DEF TypeInv, RowsOK
<1>1. WorkKnown'
  BY WorkStep
<1>2. ASSUME NEW a \in Attempts, NEW st \in Unsuccessful \union {"IN_PROGRESS"},
             status[a] # "absent", status' = [status EXCEPT ![a] = st],
             st = "IN_PROGRESS" => status[a] = "NOT_STARTED"
      PROVE  \A b \in Attempts : Claims(b)' => Claims(b)
  BY <1>0, <1>2 DEF Claims, Active, Successful, Unsuccessful
<1>3. OneClaimant'
  <2>1. CASE UNCHANGED settings /\ \A b \in Attempts : Claims(b)' => Claims(b)
    BY <2>1 DEF OneClaimant
  <2>2. ASSUME NEW s \in Settings, CreateAttempt(s) PROVE OneClaimant'
    <3>1. PICK a \in Attempts : /\ status' = [status EXCEPT ![a] = "NOT_STARTED"]
                                /\ settings' = [settings EXCEPT ![a] = s]
      BY <2>2 DEF CreateAttempt
    <3>2. \A b \in Attempts \ {a} : /\ Claims(b)' <=> Claims(b)
                                    /\ settings'[b] = settings[b]
                                    /\ settings[b] = s => ~Claims(b)
      BY <1>0, <2>2, <3>1 DEF CreateAttempt, Unclaimed, Claims
    <3>3. settings'[a] = s
      BY <1>0, <3>1
    <3>4. ASSUME NEW c \in Attempts \ {a}, NEW d \in Attempts \ {a}, c # d,
                 settings'[c] = settings'[d]
          PROVE  ~(Claims(c)' /\ Claims(d)')
      <4>1. settings[c] = settings[d]
        BY <3>2, <3>4
      <4>2. ~(Claims(c) /\ Claims(d))
        BY <3>4, <4>1 DEF OneClaimant
      <4>3. (Claims(c)' <=> Claims(c)) /\ (Claims(d)' <=> Claims(d))
        BY <3>2
      <4> QED BY <4>2, <4>3
    <3>5. ASSUME NEW d \in Attempts \ {a}, settings'[d] = s PROVE ~Claims(d)'
      <4>1. settings[d] = s => ~Claims(d)
        BY <3>2
      <4>2. Claims(d)' <=> Claims(d)
        BY <3>2
      <4> QED BY <3>2, <3>5, <4>1, <4>2
    <3> QED BY <3>3, <3>4, <3>5 DEF OneClaimant
  <2>3. CASE MarkCompletion
    <3>1. \A b \in Attempts \ {monitor.att} : Claims(b)' <=> Claims(b)
      BY <1>0, <2>3 DEF MarkCompletion, Mark, Claims
    <3>2. UNCHANGED settings
      BY <2>3 DEF MarkCompletion
    <3> QED BY <2>3, <3>1, <3>2 DEF OneClaimant, MarkedAlone, MarkCompletion
  <2>4. CASE UNCHANGED <<status, settings>>
    <3>1. \A b \in Attempts : Claims(b)' => Claims(b)
      BY <2>4 DEF Claims
    <3> QED BY <2>1, <2>4, <3>1
  <2> QED BY <1>2, <2>1, <2>2, <2>3, <2>4, StatusMoves
<1>4. MarkedAlone'
  <2>1. ASSUME NEW a \in Attempts, ReadCompletion(a) PROVE MarkedAlone'
    <3>1. monitor'.att = a /\ Claims(a) /\ UNCHANGED <<status, settings>>
      BY <2>1 DEF ReadCompletion, Claims, rowVars
    <3>2. \A b \in Attempts \ {a} : settings[b] = settings[a] => ~Claims(b)
      BY <3>1 DEF OneClaimant
    <3> QED BY <3>1, <3>2 DEF MarkedAlone, Claims
  <2>2. CASE MarkCompletion \/ CleanUpBatches \/ FailMonitoring
    BY <2>2 DEF MarkCompletion, CleanUpBatches, FailMonitoring, IdleMonitor, MarkedAlone,
                TypeInv, MonitorOK
  <2>3. CASE UNCHANGED monitor /\ ~MarkCompletion
    <3>1. SUFFICES ASSUME monitor.pc = "mark" PROVE MarkedAlone'
      BY <2>3 DEF MarkedAlone
    <3>2. ~ \E s \in Settings : CreateAttempt(s)
      BY <3>1 DEF CreateAttempt
    <3>3. UNCHANGED settings /\ \A b \in Attempts : Claims(b)' => Claims(b)
      <4>1. CASE UNCHANGED <<status, settings>>
        BY <4>1 DEF Claims
      <4> QED BY <1>2, <2>3, <3>2, <4>1, StatusMoves
    <3> QED BY <2>3, <3>1, <3>3 DEF MarkedAlone, TypeInv, MonitorOK
  <2> QED BY <2>1, <2>2, <2>3, MonitorMoves
<1> QED BY <1>1, <1>3, <1>4

\* What holds in every state.
LEMMA ClaimInvariants == Spec => [](TypeInv /\ CountInv /\ ClaimInv)
<1>1. Init => ClaimInv
  BY DEF Init, ClaimInv, WorkKnown, OneClaimant, MarkedAlone, Claims, BusyOn, IdleWorker,
         IdleMonitor, Active, Successful
<1>2. TypeInv /\ CountInv /\ ClaimInv /\ [Next]_vars => ClaimInv'
  BY ClaimStep
<1> QED BY Invariants, <1>1, <1>2, PTL DEF Spec

-----------------------------------------------------------------------------
(***************************************************************************)
(* The refinement                                                          *)
(***************************************************************************)

\* Each status has one phase, and the claiming ones are those of a claim.
LEMMA PhaseOfStatus ==
    ASSUME NEW st \in Statuses \union {"absent"}
    PROVE  /\ PhaseOf(st) = "none" <=> st = "absent"
           /\ PhaseOf(st) = "waiting" <=> st = "NOT_STARTED"
           /\ PhaseOf(st) = "running" <=> st = "IN_PROGRESS"
           /\ PhaseOf(st) = "succeeded" <=> st \in Successful
           /\ PhaseOf(st) = "failed" <=> st \in Unsuccessful
           /\ PhaseOf(st) \in Lifecycle!Claim <=> st \in Active \union Successful
BY DEF PhaseOf, Lifecycle!Claim, Lifecycle!Open, Statuses, Active, Successful, Unsuccessful

Phases == [a \in Attempts |-> PhaseOf(status[a])]

\* Writing one status moves one phase.
LEMMA OnePhaseMoves ==
    ASSUME TypeInv, NEW a \in Attempts, NEW st, status' = [status EXCEPT ![a] = st]
    PROVE  Phases' = [Phases EXCEPT ![a] = PhaseOf(st)]
BY DEF Phases, TypeInv, RowsOK

\* The other attempts of a search setting leave its poll window to this one.
LEMMA FreeWhenUnclaimed ==
    ASSUME TypeInv, NEW a \in Attempts, NEW s \in Settings,
           \A b \in Attempts \ {a} : settings[b] = s => ~Claims(b)
    PROVE  Lifecycle!Free(a, s)
<1>1. \A b \in Attempts : status[b] \in Statuses \union {"absent"}
  BY DEF TypeInv, RowsOK
<1> QED BY <1>1, PhaseOfStatus DEF Lifecycle!Free, Claims

LEMMA RefinesInit == Init => Lifecycle!Init
<1> SUFFICES ASSUME Init PROVE Lifecycle!Init
  OBVIOUS
<1>1. \A a \in Attempts : status[a] = "absent" /\ total[a] = None /\ settings[a] \in Settings
  BY ConstantsAssumption DEF Init
<1>2. PhaseOf("absent") = "none"
  BY PhaseOfStatus
<1>3. settings \in [Attempts -> Settings]
  BY ConstantsAssumption DEF Init
<1> QED BY <1>1, <1>2, <1>3 DEF Lifecycle!Init, IndexingCompleted

\* Every step of the pipeline is a step of the lifecycle or leaves it as it is.
LEMMA RefinesStep ==
    ASSUME TypeInv, CountInv, ClaimInv, [Next]_vars, TypeInv', CountInv'
    PROVE  [Lifecycle!Next]_(Lifecycle!vars)
<1> DEFINE Goal == [Lifecycle!Next]_(Lifecycle!vars)
<1>0. /\ status \in [Attempts -> Statuses \union {"absent"}]
      /\ settings \in [Attempts -> Settings]
  BY DEF TypeInv, RowsOK
<1>1. ASSUME UNCHANGED <<total, completed>> PROVE CountedAttempts' = CountedAttempts
  BY <1>1, CountedByColumns
     DEF CountInv, IndexingCompleted, CountedAttempts, TotalSetLast, Live
<1>2. /\ \A b \in Attempts : status[b] \in Statuses \union {"absent"}
      /\ \A b \in Attempts : Phases[b] = PhaseOf(status[b])
  BY <1>0 DEF Phases
<1>3. CASE UNCHANGED <<status, settings>>
  <2>1. Phases' = Phases
    BY <1>3 DEF Phases
  <2>2. CountedAttempts \subseteq CountedAttempts'
    BY CountedByColumns, CompletionStands
       DEF CountInv, IndexingCompleted, CountedAttempts, TotalSetLast, Live
  <2>3. PICK a \in Attempts : \A b \in Attempts \ {a} :
                total'[b] = total[b] /\ completed'[b] = completed[b]
    BY OneRowCounts
  <2>4. CountedAttempts' \subseteq CountedAttempts \union {a}
    BY <2>3 DEF CountInv, IndexingCompleted, CountedAttempts, TotalSetLast, Live
  <2>5. CASE CountedAttempts' = CountedAttempts
    BY <1>3, <2>1, <2>5 DEF Lifecycle!vars, Phases, CountedAttempts
  <2>6. CASE CountedAttempts' = CountedAttempts \union {a} /\ CountedAttempts' # CountedAttempts
    <3>1. a \in CountedAttempts'
      BY <2>6
    <3>2. status'[a] # "absent"
      BY <3>1 DEF CountedAttempts, CountInv, TotalSetLast, IndexingCompleted
    <3>3. Phases[a] # "none"
      BY <1>2, <1>3, <3>2, PhaseOfStatus
    <3>4. Lifecycle!Count(a)
      BY <1>3, <2>1, <2>6, <3>3 DEF Lifecycle!Count, Phases, CountedAttempts
    <3> QED BY <3>4 DEF Lifecycle!Next, Lifecycle!Step
  <2> QED BY <2>2, <2>4, <2>5, <2>6
<1>4. ASSUME UNCHANGED <<settings, total, completed>>,
             NEW a \in Attempts, NEW st \in Unsuccessful \union {"IN_PROGRESS"},
             status[a] # "absent", status' = [status EXCEPT ![a] = st],
             st = "IN_PROGRESS" => status[a] = "NOT_STARTED"
      PROVE  Goal
  <2>1. /\ Phases' = [Phases EXCEPT ![a] = PhaseOf(st)]
        /\ UNCHANGED <<CountedAttempts, settings>>
    BY <1>1, <1>4, OnePhaseMoves
  <2>2. CASE st = "IN_PROGRESS"
    <3>1. PhaseOf(st) = "running" /\ Phases[a] = "waiting"
      BY <1>2, <1>4, <2>2, PhaseOfStatus DEF Statuses, Active
    <3>2. Lifecycle!Start(a)
      BY <2>1, <3>1 DEF Lifecycle!Start, Phases, CountedAttempts
    <3> QED BY <3>2 DEF Lifecycle!Next, Lifecycle!Step
  <2>3. CASE st \in Unsuccessful
    <3>1. PhaseOf(st) = "failed" /\ Phases[a] # "none"
      BY <1>2, <1>4, <2>3, PhaseOfStatus DEF Statuses
    <3>2. Lifecycle!Fail(a)
      BY <2>1, <3>1 DEF Lifecycle!Fail, Phases, CountedAttempts
    <3> QED BY <3>2 DEF Lifecycle!Next, Lifecycle!Step
  <2> QED BY <1>4, <2>2, <2>3
<1>5. ASSUME NEW s \in Settings, CreateAttempt(s) PROVE Goal
  <2>1. PICK a \in Attempts : /\ status[a] = "absent"
                              /\ status' = [status EXCEPT ![a] = "NOT_STARTED"]
                              /\ settings' = [settings EXCEPT ![a] = s]
    BY <1>5 DEF CreateAttempt
  <2>2. /\ Phases' = [Phases EXCEPT ![a] = "waiting"]
        /\ Phases[a] = "none"
    <3>1. PhaseOf("NOT_STARTED") = "waiting" /\ PhaseOf("absent") = "none"
      BY PhaseOfStatus DEF Statuses, Active
    <3>2. Phases' = [Phases EXCEPT ![a] = PhaseOf("NOT_STARTED")]
      BY <2>1, OnePhaseMoves
    <3> QED BY <1>2, <2>1, <3>1, <3>2
  <2>3. Lifecycle!Free(a, s)
    BY <1>5, FreeWhenUnclaimed DEF CreateAttempt, Unclaimed, Claims
  <2>4. CountedAttempts' = CountedAttempts
    BY <1>1, <1>5 DEF CreateAttempt
  <2>5. Lifecycle!Create(a, s)
    BY <2>1, <2>2, <2>3, <2>4 DEF Lifecycle!Create, Phases, CountedAttempts
  <2> QED BY <2>5 DEF Lifecycle!Next, Lifecycle!Step
<1>6. CASE MarkCompletion
  <2>1. PICK a \in Attempts : a = monitor.att /\ IndexingCompleted(a) /\ status[a] # "absent"
    BY <1>6 DEF MarkCompletion, TypeInv, MonitorOK, CountInv, SnapshotStands, TotalSetLast,
                IndexingCompleted
  <2>2. PICK st \in Successful : status' = [status EXCEPT ![a] = st]
    BY <1>6, <2>1 DEF MarkCompletion, Mark, Successful
  <2>3. Phases' = [Phases EXCEPT ![a] = "succeeded"] /\ Phases[a] # "none"
    <3>1. PhaseOf(st) = "succeeded"
      BY PhaseOfStatus DEF Statuses
    <3>2. Phases[a] # "none"
      BY <1>2, <2>1, PhaseOfStatus
    <3> QED BY <2>2, <3>1, <3>2, OnePhaseMoves
  <2>4. UNCHANGED settings /\ CountedAttempts' = CountedAttempts /\ a \in CountedAttempts
    BY <1>1, <1>6, <2>1, CountedByColumns DEF MarkCompletion, CountInv
  <2>5. Lifecycle!Free(a, settings[a])
    BY <1>0, <1>6, <2>1, FreeWhenUnclaimed DEF MarkCompletion, ClaimInv, MarkedAlone
  <2>6. Lifecycle!Succeed(a)
    BY <2>3, <2>4, <2>5 DEF Lifecycle!Succeed, Phases, CountedAttempts
  <2> QED BY <2>6 DEF Lifecycle!Next, Lifecycle!Step
<1> QED BY <1>3, <1>4, <1>5, <1>6, StatusMoves DEF CountInv, ClaimInv

\* The pipeline, with everything that can interrupt it, implements the lifecycle:
\* an attempt starts once and ends once, one at a time claims the poll window of
\* a search setting, and it keeps the claim only when its batches are counted.
THEOREM LifecycleImplemented == Spec => ImplementsLifecycle
<1>1. TypeInv /\ CountInv /\ ClaimInv /\ [Next]_vars /\ (TypeInv /\ CountInv /\ ClaimInv)'
        => [Lifecycle!Next]_(Lifecycle!vars)
  BY RefinesStep
<1> QED BY ClaimInvariants, RefinesInit, <1>1, PTL DEF Spec, ImplementsLifecycle, Lifecycle!Spec

\* Two attempts of a search setting are never active or successful together.
THEOREM OneClaimantAtATime == Spec => []OneClaimant
<1>1. ClaimInv => OneClaimant
  BY DEF ClaimInv
<1> QED BY ClaimInvariants, <1>1, PTL
-----------------------------------------------------------------------------
(***************************************************************************)
(* What AttemptLifecycle promises, and so what the pipeline keeps          *)
(***************************************************************************)
LifecycleInv == Lifecycle!TypeOK /\ Lifecycle!OneClaim /\ Lifecycle!ClaimsEarned

LEMMA LifecycleInit == Lifecycle!Init => LifecycleInv
BY DEF Lifecycle!Init, LifecycleInv, Lifecycle!TypeOK, Lifecycle!OneClaim, Lifecycle!ClaimsEarned,
       Lifecycle!Claim, Lifecycle!Open

\* Only creating an attempt or finishing it with success takes a claim, and
\* both look at the other attempts of the search setting.
LEMMA LifecycleStep ==
    ASSUME LifecycleInv, [Lifecycle!Next]_(Lifecycle!vars)
    PROVE  LifecycleInv'
<1> USE DEF LifecycleInv, Phases
<1>1. ASSUME NEW a \in Attempts, NEW s \in Settings, Lifecycle!Create(a, s) PROVE LifecycleInv'
  <2>1. Lifecycle!TypeOK'
    BY <1>1 DEF Lifecycle!Create, Lifecycle!TypeOK, Lifecycle!Claim, Lifecycle!Open
  <2>2. Lifecycle!OneClaim'
    BY <1>1 DEF Lifecycle!Create, Lifecycle!TypeOK, Lifecycle!OneClaim, Lifecycle!Free
  <2>3. Lifecycle!ClaimsEarned'
    BY <1>1 DEF Lifecycle!Create, Lifecycle!TypeOK, Lifecycle!ClaimsEarned
  <2> QED BY <2>1, <2>2, <2>3
<1>2. ASSUME NEW a \in Attempts, Lifecycle!Start(a) PROVE LifecycleInv'
  BY <1>2 DEF Lifecycle!Start, Lifecycle!TypeOK, Lifecycle!OneClaim, Lifecycle!ClaimsEarned,
              Lifecycle!Claim, Lifecycle!Open
<1>3. ASSUME NEW a \in Attempts, Lifecycle!Count(a) PROVE LifecycleInv'
  BY <1>3 DEF Lifecycle!Count, Lifecycle!TypeOK, Lifecycle!OneClaim, Lifecycle!ClaimsEarned
<1>4. ASSUME NEW a \in Attempts, Lifecycle!Succeed(a) PROVE LifecycleInv'
  <2>1. Lifecycle!TypeOK'
    BY <1>4 DEF Lifecycle!Succeed, Lifecycle!TypeOK, Lifecycle!Claim
  <2>2. Lifecycle!OneClaim'
    BY <1>4 DEF Lifecycle!Succeed, Lifecycle!TypeOK, Lifecycle!OneClaim, Lifecycle!Free
  <2>3. Lifecycle!ClaimsEarned'
    BY <1>4 DEF Lifecycle!Succeed, Lifecycle!TypeOK, Lifecycle!ClaimsEarned
  <2> QED BY <2>1, <2>2, <2>3
<1>5. ASSUME NEW a \in Attempts, Lifecycle!Fail(a) PROVE LifecycleInv'
  BY <1>5 DEF Lifecycle!Fail, Lifecycle!TypeOK, Lifecycle!OneClaim, Lifecycle!ClaimsEarned,
              Lifecycle!Claim, Lifecycle!Open
<1>6. CASE UNCHANGED Lifecycle!vars
  BY <1>6 DEF Lifecycle!vars, Lifecycle!TypeOK, Lifecycle!OneClaim, Lifecycle!ClaimsEarned
<1> QED BY <1>1, <1>2, <1>3, <1>4, <1>5, <1>6 DEF Lifecycle!Next, Lifecycle!Step

\* One attempt at a time claims the poll window of a search setting, and one
\* that succeeded was fetched to the end and counted: of every behaviour of
\* AttemptLifecycle, and so of the pipeline, which implements it.
THEOREM ClaimsHold == Spec => [](Lifecycle!OneClaim /\ Lifecycle!ClaimsEarned)
<1>1. LifecycleInv => Lifecycle!OneClaim /\ Lifecycle!ClaimsEarned
  BY DEF LifecycleInv
<1>2. LifecycleInv /\ [Lifecycle!Next]_(Lifecycle!vars) => LifecycleInv'
  BY LifecycleStep
<1>3. Lifecycle!Spec => [](Lifecycle!OneClaim /\ Lifecycle!ClaimsEarned)
  BY LifecycleInit, <1>1, <1>2, PTL DEF Lifecycle!Spec
<1> QED BY LifecycleImplemented, <1>3, PTL DEF ImplementsLifecycle
=============================================================================
