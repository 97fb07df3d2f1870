----------------------- MODULE ConnectorDeletionProofs -----------------------
(***************************************************************************)
(* Proofs about ConnectorDeletion, for any set of documents, any bounds    *)
(* and any trouble: its type invariant, with what the beat task knows of   *)
(* the fence it has set up, and that no stop signal outlives the cc_pair.  *)
(***************************************************************************)
EXTENDS ConnectorDeletion, TLAPS

(***************************************************************************)
(* What NoStopForGone needs to be inductive: a cc_pair is only deleted by  *)
(* a run of the beat task that finds its fence complete, such a run did    *)
(* not find the deletion blocked and so has cleared the signal, and no     *)
(* later run gets as far as setting one.                                   *)
(***************************************************************************)
Cleared == stop \notin {"set", "timed_out"}

StopCleared ==
    /\ beat = "monitor" /\ fence = "ready" => Cleared \/ status = "GONE"
    /\ status = "GONE" => Cleared /\ beat \in {"idle", "monitor", "finish"}

\* TypeOK in parts
RowsOK ==
    /\ status \in Live \union {"PAUSED", "INVALID", "DELETING", "GONE"}
    /\ docs \subseteq Docs /\ others \subseteq Docs
    /\ batches \subseteq Docs /\ writing \subseteq Docs
    /\ attempt \in {"none", "NOT_STARTED", "IN_PROGRESS", "ended"}
KeysOK ==
    /\ fence \in {"none", "setup", "ready"} /\ prune \in {"none", "setup", "ready"}
    /\ stop \in {"none", "set", "timed_out", "untimed"}
    /\ Ids(queue) \union taskset \union pruneTasks \subseteq 1..MaxTasks
FlagsOK ==
    /\ active \in BOOLEAN /\ blocked \in BOOLEAN /\ pruneActive \in BOOLEAN
    /\ complete \in BOOLEAN /\ creating \in BOOLEAN /\ finalizing \in BOOLEAN
PlacesOK ==
    /\ indexer \in {"none", "starting", "running", "done", "dead"}
    /\ generator \in {"none", "queued", "running", "enumerated"}
    /\ pruner \in {"idle", "checked", "fenced", "sent"}
    /\ beat \in {"idle", "fence", "attempt", "prune", "blocked", "send", "ready", "unstop",
                 "monitor", "finish"}
    /\ beat \in {"attempt", "prune", "send", "ready"} => fence = "setup"
    /\ beat = "blocked" => fence = "none"

TypeInv == RowsOK /\ KeysOK /\ FlagsOK /\ PlacesOK

IInv == TypeInv /\ StopCleared

-----------------------------------------------------------------------------
(***************************************************************************)
(* Lemmas                                                                  *)
(***************************************************************************)

\* The tasks sent for some documents have ids that are free.
LEMMA TasksForIds ==
    ASSUME NEW ds, TaskIds(ds) # {}
    PROVE  Ids(TasksFor(ds)) \subseteq 1..MaxTasks
<1> DEFINE id == CHOOSE f \in TaskIds(ds) : TRUE
<1>1. id \in TaskIds(ds)
  OBVIOUS
<1>2. \A f \in TaskIds(ds) : f \in [ds -> 1..MaxTasks]
  BY DEF TaskIds, Injection
<1>3. id \in [ds -> 1..MaxTasks]
  BY <1>1, <1>2
<1>4. TasksFor(ds) = {[id |-> id[d], doc |-> d] : d \in ds}
  BY DEF TasksFor
<1> HIDE DEF id
<1> QED BY <1>3, <1>4 DEF Ids

\* Sending tasks and taking one off keep the ids in the queue and in the
\* tasksets within the bound.
LEMMA SentIds ==
    ASSUME Ids(queue) \subseteq 1..MaxTasks, NEW ds, TaskIds(ds) # {},
           queue' = queue \union TasksFor(ds)
    PROVE  Ids(queue') \subseteq 1..MaxTasks /\ Ids(TasksFor(ds)) \subseteq 1..MaxTasks
<1>1. Ids(queue') = Ids(queue) \union Ids(TasksFor(ds))
  BY DEF Ids
<1> QED BY <1>1, TasksForIds

\* A step that leaves what StopCleared speaks of alone.
LEMMA StopUntouched ==
    ASSUME StopCleared, UNCHANGED <<status, fence, stop, beat>>
    PROVE  StopCleared'
BY DEF StopCleared, Cleared

-----------------------------------------------------------------------------
(***************************************************************************)
(* The steps, by who takes them                                            *)
(***************************************************************************)
LEMMA InitOK == Init => IInv
BY DEF Init, IInv, TypeInv, RowsOK, KeysOK, FlagsOK, PlacesOK, StopCleared, Cleared, Ids, Live

\* An admin, the time that passes and a crash of the beat task.
LEMMA EnvironmentStep ==
    ASSUME IInv,
           RequestDeletion \/ Pause \/ BeatCrash \/ ActiveExpires \/ StopTimesOut \/ BlockExpires
    PROVE  IInv'
<1> USE DEF IInv, TypeInv, RequestDeletion, Pause, BeatCrash, ActiveExpires, StopTimesOut,
            BlockExpires, redis, pruning, indexing
<1>1. RowsOK'
  BY DEF RowsOK
<1>2. KeysOK'
  BY DEF KeysOK
<1>3. FlagsOK'
  BY DEF FlagsOK
<1>4. PlacesOK'
  BY DEF PlacesOK
<1>5. StopCleared'
  BY DEF StopCleared, Cleared
<1> QED BY <1>1, <1>2, <1>3, <1>4, <1>5

\* The beat task.  A run that is blocked has taken its fence back, and one that
\* finds the cc_pair gone goes straight to the monitor.
LEMMA BeatStep ==
    ASSUME IInv, Beat
    PROVE  IInv'
<1> USE DEF IInv, TypeInv, Beat
<1>1. RowsOK'
  BY DEF RowsOK, BeatBegin, BeatFence, BeatCheckAttempt, BeatCheckPrune, BeatBlocked, BeatSend,
         BeatReady, BeatUnstop, BeatMonitor, BeatFinish, indexing
<1>2. KeysOK'
  <2>1. CASE BeatSend
    <3>1. PICK ds : TaskIds(ds) # {} /\ queue' = queue \union TasksFor(ds)
                      /\ taskset' = Ids(TasksFor(ds))
      BY <2>1 DEF BeatSend
    <3>2. Ids(queue') \subseteq 1..MaxTasks /\ taskset' \subseteq 1..MaxTasks
      BY <3>1, SentIds DEF KeysOK
    <3>3. UNCHANGED <<prune, pruneTasks, stop>> /\ fence' \in {fence, "none"}
      BY <2>1 DEF BeatSend, pruning
    <3> QED BY <3>2, <3>3 DEF KeysOK
  <2>2. CASE BeatBlocked
    BY <2>2 DEF KeysOK, BeatBlocked, ResetPrune
  <2>3. CASE BeatBegin \/ BeatFence \/ BeatCheckAttempt \/ BeatCheckPrune \/ BeatReady
               \/ BeatUnstop \/ BeatMonitor \/ BeatFinish
    BY <2>3 DEF KeysOK, BeatBegin, BeatFence, BeatCheckAttempt, BeatCheckPrune, BeatReady,
                BeatUnstop, BeatMonitor, BeatFinish, FenceOnBlock, ClearedStop, ResetFence, pruning
  <2> QED BY <2>1, <2>2, <2>3
<1>3. FlagsOK'
  BY DEF FlagsOK, BeatBegin, BeatFence, BeatCheckAttempt, BeatCheckPrune, BeatBlocked, BeatSend,
         BeatReady, BeatUnstop, BeatMonitor, BeatFinish, ResetFence, ResetPrune, pruning, indexing
<1>4. PlacesOK'
  BY DEF PlacesOK, BeatBegin, BeatFence, BeatCheckAttempt, BeatCheckPrune, BeatBlocked, BeatSend,
         BeatReady, BeatUnstop, BeatMonitor, BeatFinish, FenceOnBlock, ResetFence, pruning, indexing
<1>5. StopCleared'
  <2>1. CASE BeatBegin
    BY <2>1 DEF BeatBegin, StopCleared, Cleared, ResetFence
  <2>2. CASE BeatBlocked
    <3>1. fence = "none" /\ UNCHANGED <<fence, status>> /\ status # "GONE"
      BY <2>2 DEF BeatBlocked, PlacesOK, StopCleared
    <3> QED BY <3>1 DEF StopCleared
  <2>3. CASE BeatFence \/ BeatCheckAttempt \/ BeatCheckPrune \/ BeatSend \/ BeatReady
               \/ BeatUnstop \/ BeatMonitor \/ BeatFinish
    BY <2>3 DEF BeatFence, BeatCheckAttempt, BeatCheckPrune, BeatSend, BeatReady, BeatUnstop,
                BeatMonitor, BeatFinish, ClearedStop, ResetFence, StopCleared, Cleared
  <2> QED BY <2>1, <2>2, <2>3
<1> QED BY <1>1, <1>2, <1>3, <1>4, <1>5

\* A cleanup task.
LEMMA CleanupStep ==
    ASSUME IInv, RunCleanup
    PROVE  IInv'
<1> USE DEF IInv, TypeInv
<1>1. PICK t \in queue :
        /\ queue' = queue \ {t}
        /\ taskset' = taskset \ {t.id} /\ pruneTasks' = pruneTasks \ {t.id}
        /\ docs' \subseteq docs /\ others' \subseteq others
        /\ UNCHANGED <<status, fence, active, stop, blocked, prune, pruneActive, complete,
                       pruner, generator, prunes, indexing, beat>>
  BY DEF RunCleanup
<1>2. Ids(queue') \subseteq Ids(queue)
  BY <1>1 DEF Ids
<1>3. RowsOK' /\ FlagsOK' /\ PlacesOK'
  BY <1>1 DEF RowsOK, FlagsOK, PlacesOK, indexing
<1>4. KeysOK'
  BY <1>1, <1>2 DEF KeysOK
<1>5. StopCleared'
  BY <1>1, StopUntouched
<1> QED BY <1>3, <1>4, <1>5

\* Pruning: its creation, its generator, its monitoring and its validation.
LEMMA PruningStep ==
    ASSUME IInv,
           \/ PruneCheck \/ Pruner \/ Generator \/ GeneratorCrash
           \/ PruneActiveExpires \/ PruneFenceExpires \/ PruneMonitor \/ PruneValidate
    PROVE  IInv'
<1> USE DEF IInv, TypeInv, Pruner, Generator
<1>1. UNCHANGED <<status, docs, others, redis, indexing, beat>>
  BY DEF PruneCheck, PruneFence, PruneSend, PruneName, GeneratorStart,
         GeneratorStops, GeneratorEnumerates, GeneratorSends, GeneratorCrash,
         PruneActiveExpires, PruneFenceExpires, PruneMonitor, PruneValidate
<1>2. RowsOK'
  BY <1>1 DEF RowsOK, indexing
<1>3. KeysOK'
  <2>1. CASE GeneratorSends
    <3>1. \/ UNCHANGED <<queue, pruneTasks>>
          \/ \E ds : /\ TaskIds(ds) # {} /\ queue' = queue \union TasksFor(ds)
                     /\ pruneTasks' = pruneTasks \union Ids(TasksFor(ds))
      BY <2>1 DEF GeneratorSends
    <3>2. Ids(queue') \union pruneTasks' \subseteq 1..MaxTasks
      BY <3>1, SentIds DEF KeysOK
    <3>3. UNCHANGED <<prune, fence, stop, taskset>>
      BY <2>1 DEF GeneratorSends, redis
    <3> QED BY <3>2, <3>3 DEF KeysOK
  <2>2. CASE ~GeneratorSends
    <3>1. UNCHANGED queue /\ pruneTasks' \in {pruneTasks, {}}
            /\ prune' \in {"none", "setup", "ready"} \union {prune}
      BY <2>2 DEF PruneCheck, PruneFence, PruneSend, PruneName, GeneratorStart, GeneratorStops,
             GeneratorEnumerates, GeneratorCrash, PruneActiveExpires, PruneFenceExpires,
             PruneMonitor, PruneValidate, ResetPrune
    <3> QED BY <1>1, <3>1 DEF KeysOK, redis
  <2> QED BY <2>1, <2>2
<1>4. FlagsOK'
  BY <1>1 DEF FlagsOK, PruneCheck, PruneFence, PruneSend, PruneName, GeneratorStart,
         GeneratorStops, GeneratorEnumerates, GeneratorSends, GeneratorCrash, ResetPrune,
         PruneActiveExpires, PruneFenceExpires, PruneMonitor, PruneValidate, redis, indexing
<1>5. PlacesOK'
  BY <1>1 DEF PlacesOK, PruneCheck, PruneFence, PruneSend, PruneName, GeneratorStart,
         GeneratorStops, GeneratorEnumerates, GeneratorSends, GeneratorCrash,
         PruneActiveExpires, PruneFenceExpires, PruneMonitor, PruneValidate, redis, indexing
<1>6. StopCleared'
  BY <1>1, StopUntouched DEF redis
<1> QED BY <1>2, <1>3, <1>4, <1>5, <1>6

\* Indexing: only the end of an attempt writes the status of the cc_pair, and
\* never that of a deleted one.
LEMMA IndexingStep ==
    ASSUME IInv, AttemptCheck \/ Fetch \/ FetchInvalid \/ FetchCrash \/ Process
    PROVE  IInv'
<1> USE DEF IInv, TypeInv, Fetch, Process
<1>1. UNCHANGED <<others, redis, pruning, queue, beat>> /\ (status' = "GONE" <=> status = "GONE")
  BY DEF AttemptCheck, AttemptCreate, FetchStart, FetchBegin, FetchBatch, FetchInvalid,
         FetchCrash, AttemptFails, ProcessCheck, ProcessWrite, FinalizeRead, FinalizeWrite
<1>2. RowsOK'
  <2>1. batches' \subseteq Docs /\ writing' \subseteq Docs /\ docs' \subseteq Docs
    BY DEF RowsOK, AttemptCheck, AttemptCreate, FetchStart, FetchBegin, FetchBatch, FetchInvalid,
         FetchCrash, AttemptFails, ProcessCheck, ProcessWrite, FinalizeRead, FinalizeWrite
  <2>2. /\ status' \in {status, "INVALID", "ACTIVE"}
        /\ attempt' \in {attempt, "NOT_STARTED", "IN_PROGRESS", "ended"}
    BY DEF AttemptCheck, AttemptCreate, FetchStart, FetchBegin, FetchBatch, FetchInvalid, EndAttempt,
         FetchCrash, AttemptFails, ProcessCheck, ProcessWrite, FinalizeRead, FinalizeWrite
  <2> QED BY <1>1, <2>1, <2>2 DEF RowsOK, Live
<1>3. KeysOK'
  BY <1>1 DEF KeysOK, redis, pruning
<1>4. FlagsOK'
  BY <1>1 DEF FlagsOK, AttemptCheck, AttemptCreate, FetchStart, FetchBegin, FetchBatch,
         FetchInvalid, FetchCrash, AttemptFails, ProcessCheck, ProcessWrite, FinalizeRead,
         FinalizeWrite, redis, pruning
<1>5. PlacesOK'
  BY <1>1 DEF PlacesOK, AttemptCheck, AttemptCreate, FetchStart, FetchBegin, FetchBatch,
         FetchInvalid, FetchCrash, AttemptFails, ProcessCheck, ProcessWrite, FinalizeRead,
         FinalizeWrite, redis, pruning
<1>6. StopCleared'
  BY <1>1 DEF StopCleared, Cleared, redis
<1> QED BY <1>2, <1>3, <1>4, <1>5, <1>6

LEMMA IInvStep ==
    ASSUME IInv, [Next]_vars
    PROVE  IInv'
<1>1. CASE UNCHANGED vars
  BY <1>1 DEF vars, redis, pruning, indexing, IInv, TypeInv, RowsOK, KeysOK, FlagsOK, PlacesOK, StopCleared, Cleared
<1> QED
  BY <1>1, EnvironmentStep, BeatStep, CleanupStep, PruningStep, IndexingStep DEF Next

\* Fences, signals, task sets and processes stay well typed; from the moment the
\* beat task sets up the deletion fence until it takes it back or completes it,
\* no other task touches it.
THEOREM TypeCorrect == Spec => []TypeOK
<1>1. IInv => TypeOK
  BY DEF IInv, TypeInv, RowsOK, KeysOK, FlagsOK, PlacesOK, TypeOK
<1> QED BY InitOK, IInvStep, <1>1, PTL DEF Spec

\* By the time a cc_pair is gone the stop signal its deletion has set is cleared,
\* whichever runs of the beat task were blocked, timed out or died on the way.
THEOREM StopSignalCleared == Spec => []NoStopForGone
<1>1. IInv => NoStopForGone
  BY DEF IInv, StopCleared, Cleared, NoStopForGone
<1> QED BY InitOK, IInvStep, <1>1, PTL DEF Spec
=============================================================================
