----------------------- MODULE DocBatchDocumentsProofs -----------------------
(***************************************************************************)
(* Proofs about DocBatchPipeline, for every value of its constants, of     *)
(* what resumption promises: one search setting, and every kind of trouble *)
(* but the ones that are known to break it.                                *)
(***************************************************************************)
EXTENDS DocBatchPipelineProofs

(***************************************************************************)
(* What is excluded: an attempt that fails between its poll window and its *)
(* first checkpoint, a worker that dies or fails between counting a batch  *)
(* and deleting its file, a refused task of an attempt long over,          *)
(* attempts that overlap, a reissued task that overtakes its attempt, and  *)
(* a second search setting, whose batches share the path of the first.     *)
(* TLC finds a violation for each.                                         *)
(***************************************************************************)
Undisturbed ==
    /\ \A kind \in {"setup_error", "late_crash", "late_error", "usage_limit", "overlap",
                    "early_delivery"} : kind \notin Events
    /\ \E s : Settings = {s}

-----------------------------------------------------------------------------
(***************************************************************************)
(* Attempts follow one another: only the newest one is active, fetched or  *)
(* worked on, and time_updated tells which one saved a checkpoint last.    *)
(***************************************************************************)
Early == {"none", "queued", "verified", "window"}
Unplaced == Early \union {"connector", "reissue"}
Extracting == {"loop", "store", "send", "save"}

Newest(a) == \A b \in Attempts : a < b => status[b] = "absent"
\* a owns, or is about to own, the files: it has a checkpoint, or has reissued
\* or thrown away the old ones and is about to save one
Placed(a) == checkpoint[a] # None \/ fetcher[a].pc \in {"assign", "initial"}
Overtaken(a) == \E b \in Attempts : a < b /\ Placed(b)

Ordered ==
    \A a, b \in Attempts : a < b /\ status[b] # "absent" =>
        /\ status[a] \in Unsuccessful /\ ~Live(a)
        /\ \A w \in Workers : ~BusyOn(w, a)
MonitorOnNewest ==
    monitor.pc # "idle" => status[monitor.att] # "absent" /\ Newest(monitor.att)

Ranked ==
    \A a \in Attempts :
        /\ updated[a] = 0 <=> status[a] = "absent"
        /\ updated[a] <= Cardinality(Rows)
        /\ \A b \in Attempts : updated[a] = updated[b] /\ a # b => updated[a] = 0
PlacedLater ==
    \A a, b \in Attempts : b < a /\ checkpoint[a] # None => updated[b] < updated[a]

RowInv == Ordered /\ MonitorOnNewest /\ Ranked /\ PlacedLater

(***************************************************************************)
(* What a docfetching process has written by the time it gets somewhere.   *)
(***************************************************************************)
StageOf(a, f) ==
    /\ f.pc \in Early => window[a] = NoWindow
    /\ f.pc \in Unplaced => f.num = 0 /\ \A n \in BatchNums : queue[a][n] = 0
    /\ f.pc \in Unplaced \union {"assign"} =>
         completed[a] = 0 /\ \A w \in Workers : ~BusyOn(w, a)
    /\ f.pc \in Unplaced \union {"assign", "initial"} => checkpoint[a] = None
    /\ f.pc \in Extracting => checkpoint[a] = f.base
    /\ f.pc = "exited" /\ window[a] # NoWindow => checkpoint[a] # None
Stages ==
    \A a \in Attempts : /\ StageOf(a, fetcher[a])
                        /\ window[a] <= a
                        /\ total[a] # None => checkpoint[a] = NumItems

\* All files belong to the last attempt that could place some
LastOwns ==
    \A a \in Attempts, n \in BatchNums : store[a][n] # NoItem => Placed(a) /\ ~Overtaken(a)

(***************************************************************************)
(* The numbers of the batches of an attempt, and why numbering resumes     *)
(* above all files left behind: of the batches an attempt has handed out,  *)
(* those without a file are counted.                                       *)
(***************************************************************************)
OnFile(a) == {n \in BatchNums : store[a][n] # NoItem}
\* A worker has counted batch n and not deleted its file yet
InCount(a, n) ==
    \E w \in Workers : worker[w].pc = "counted" /\ WAtt(w) = a /\ worker[w].num = n
Kept(a) == {n \in OnFile(a) : ~InCount(a, n)}
KeptBelow(a, m) == {n \in Kept(a) : n < m}

NumbersOf(a, f) ==
    /\ f.pc \in {"assign", "initial"} \union Extracting =>
         /\ \A n \in OnFile(a) : n < f.num \/ (f.pc = "send" /\ n = f.num)
         /\ \A n \in BatchNums : queue[a][n] # 0 => n < f.num
         /\ \A w \in Workers : BusyOn(w, a) => worker[w].num < f.num
    /\ f.pc = "send" => store[a][f.num] = f.pos + 1
Numbers == \A a \in Attempts : NumbersOf(a, fetcher[a])

CountedOf(a, f) ==
    /\ f.pc = "assign" => f.num = f.recent + Cardinality(OnFile(a))
    /\ f.pc \in {"initial"} \union Extracting =>
         f.num <= completed[a] + Cardinality(KeptBelow(a, f.num))
    /\ f.pc = "exited" => \A n \in OnFile(a) : n < completed[a] + Cardinality(Kept(a))
Counted == \A a \in Attempts : CountedOf(a, fetcher[a])

\* What reissue_old_batches relies on
Room(a) == \A f \in Files : f[2] < fetcher[a].recent + Cardinality(Files)
Resumes ==
    \A a \in Attempts : \/ FetcherAt(a, "connector") /\ window[a] # a
                        \/ FetcherAt(a, "reissue")
                        => Room(a)

(***************************************************************************)
(* What keeps track of each batch of the newest attempt: one task or one   *)
(* worker, or else its file is gone or its loss recorded; and why an       *)
(* attempt that is counted has none left.                                  *)
(***************************************************************************)
OnBatch(w, a, n) == BusyOn(w, a) /\ worker[w].num = n
\* The batch is still to be counted
Waits(a, n) ==
    \/ queue[a][n] # 0
    \/ \E w \in Workers : OnBatch(w, a, n) /\ worker[w].pc # "counted"

OneTask(a, n) ==
    /\ queue[a][n] \in {0, 1}
    /\ queue[a][n] = 1 => \A w \in Workers : ~OnBatch(w, a, n)
    /\ \A w, v \in Workers : OnBatch(w, a, n) /\ OnBatch(v, a, n) => w = v
HasFile(a) == \A n \in BatchNums : Waits(a, n) => n \in OnFile(a)

\* How many batches the attempt has handed out
Handed(a) == IF total[a] = None THEN fetcher[a].num ELSE total[a]
LostRecorded(a) ==
    PERSISTENT_INDEXING =>
        \A n \in OnFile(a) : n < Handed(a) =>
            Waits(a, n) \/ InCount(a, n) \/ <<a, store[a][n]>> \in errors
Open(a) == {n \in Kept(a) : n < Handed(a) /\ (PERSISTENT_INDEXING => Waits(a, n))}
OpenBound(a) ==
    fetcher[a].pc \in {"initial"} \union Extracting \/ total[a] # None =>
        completed[a] + Cardinality(Open(a)) <= Handed(a)

TasksOf(a) ==
    (\A n \in BatchNums : OneTask(a, n)) /\ HasFile(a) /\ LostRecorded(a) /\ OpenBound(a)
Tasks == \A a \in Attempts : Newest(a) => TasksOf(a)

\* A worker holds what is on file, and has indexed it before it counts it
Holds(w) ==
    worker[w].pc # "idle" =>
        /\ store[WAtt(w)][worker[w].num] \in {worker[w].item, NoItem}
        /\ worker[w].pc # "loaded" =>
             worker[w].failed \/ <<settings[WAtt(w)], worker[w].item>> \in indexed
WorkerItems == \A w \in Workers : Holds(w)

TotalBounds == \A a \in Attempts : total[a] # None => \A n \in OnFile(a) : n < total[a]

(***************************************************************************)
(* What the source yielded before a checkpoint is accounted for or on      *)
(* file, and an attempt that resumes takes over the last checkpoint.       *)
(***************************************************************************)
OnDisk(i) == \E f \in Files : store[f[1]][f[2]] = i
Covered(k) == \A s \in Settings, i \in 1..k : Accounted(s, i) \/ OnDisk(i)
Positioned == {"reissue", "assign", "initial"} \union Extracting
CoveredOf(a) ==
    /\ checkpoint[a] # None /\ ~Overtaken(a) => Covered(checkpoint[a])
    /\ fetcher[a].pc \in Positioned => Covered(fetcher[a].pos)
InheritsOf(a) ==
    FetcherAt(a, "connector") /\ window[a] # a =>
        \E p \in Attempts : /\ p < a /\ checkpoint[p] # None /\ ~Overtaken(p)
                            /\ window[p] = window[a]
Covering == \A a \in Attempts : CoveredOf(a)
Inherits == \A a \in Attempts : InheritsOf(a)

-----------------------------------------------------------------------------
(***************************************************************************)
(* Lemmas                                                                  *)
(***************************************************************************)

\* Who is fetched, worked on, active or about to be marked is the newest.
LEMMA AtWork ==
    ASSUME TypeInv, CountInv, RowInv, Stages, NEW a \in Attempts,
           \/ Live(a)
           \/ status[a] \in Active \union Successful
           \/ \E w \in Workers : BusyOn(w, a)
           \/ monitor.pc # "idle" /\ monitor.att = a
    PROVE  status[a] # "absent" /\ Newest(a)
<1>1. CASE Live(a)
  BY <1>1 DEF RowInv, Ordered, CountInv, TotalSetLast, Live, Newest
<1>2. CASE status[a] \in Active \union Successful
  BY <1>2 DEF RowInv, Ordered, Newest, Active, Successful, Unsuccessful
<1>3. CASE \E w \in Workers : BusyOn(w, a)
  <2>1. status[a] # "absent"
    BY <1>3 DEF Stages, StageOf, CountInv, TotalSetLast, Unplaced, Early
  <2> QED BY <1>3, <2>1 DEF RowInv, Ordered, Newest
<1>4. CASE monitor.pc # "idle" /\ monitor.att = a
  BY <1>4 DEF RowInv, MonitorOnNewest
<1> QED BY <1>1, <1>2, <1>3, <1>4

\* The rank of a row that is written is the highest; the others keep their order.
LEMMA TouchRanks ==
    ASSUME TypeInv, Ranked, NEW a \in Attempts, Touch(a), Rows' = Rows \union {a}
    PROVE  /\ Ranked'
           /\ \A b \in Attempts \ {a} : updated'[b] < updated'[a]
           /\ \A b, c \in Attempts \ {a} : updated[b] < updated[c] => updated'[b] < updated'[c]
<1> DEFINE N == Cardinality(Rows \union {a})
<1>0. updated \in [Attempts -> Nat]
  BY DEF TypeInv, RowsOK
<1>1. /\ N \in Nat /\ N > 0 /\ Cardinality(Rows) \in Nat /\ Cardinality(Rows) <= N
      /\ a \notin Rows => N = Cardinality(Rows) + 1
  <2>1. IsFiniteSet(Rows)
    <3>1. IsFiniteSet(Attempts)
      BY ConstantsAssumption, FS_Interval DEF Attempts
    <3>2. Rows \subseteq Attempts
      BY DEF Rows
    <3> QED BY <3>1, <3>2, FS_Subset
  <2>2. Cardinality(Rows \union {a}) = IF a \in Rows THEN Cardinality(Rows) ELSE Cardinality(Rows) + 1
    BY <2>1, FS_AddElement
  <2>3. Cardinality(Rows) \in Nat
    BY <2>1, FS_CardinalityType
  <2>4. a \in Rows => Cardinality(Rows) # 0
    BY <2>1, FS_EmptySet
  <2> QED BY <2>2, <2>3, <2>4
<1>2. updated'[a] = N
  BY DEF Touch
<1>3. \A b \in Attempts \ {a} :
        updated'[b] = IF 0 < updated[a] /\ updated[a] < updated[b] THEN updated[b] - 1 ELSE updated[b]
  BY DEF Touch
<1>4. /\ \A b \in Attempts : updated[b] <= Cardinality(Rows)
      /\ \A b, c \in Attempts : updated[b] = updated[c] /\ b # c => updated[b] = 0
      /\ a \in Rows => 0 < updated[a]
      /\ a \notin Rows => updated[a] = 0
  <2>1. \A b \in Attempts : updated[b] <= Cardinality(Rows)
    BY DEF Ranked
  <2>2. \A b, c \in Attempts : updated[b] = updated[c] /\ b # c => updated[b] = 0
    BY DEF Ranked
  <2>3. updated[a] = 0 <=> a \notin Rows
    BY DEF Ranked, Rows
  <2> QED BY <1>0, <2>1, <2>2, <2>3
<1> HIDE DEF N
<1>5. \A b \in Attempts \ {a} : updated'[b] < N
  BY <1>0, <1>1, <1>3, <1>4
<1>6. \A b, c \in Attempts \ {a} : updated[b] < updated[c] => updated'[b] < updated'[c]
  BY <1>0, <1>3, <1>4
<1>7. \A b \in Attempts \ {a} : updated'[b] = 0 <=> updated[b] = 0
  BY <1>0, <1>3
<1>8. \A b \in Attempts : updated'[b] = 0 <=> status'[b] = "absent"
  BY <1>1, <1>2, <1>7 DEF Ranked, Rows
<1>9. \A b, c \in Attempts : updated'[b] = updated'[c] /\ b # c => updated'[b] = 0
  BY <1>0, <1>1, <1>2, <1>3, <1>4, <1>5
<1>10. Cardinality(Rows') = N
  BY DEF N
<1>11. \A b \in Attempts : updated'[b] <= N
  BY <1>0, <1>1, <1>2, <1>3, <1>5
<1> QED
  BY <1>2, <1>5, <1>6, <1>8, <1>9, <1>10, <1>11 DEF Ranked

-----------------------------------------------------------------------------
(***************************************************************************)
(* The steps that only write a row or let a docfetching process go on or   *)
(* end, told apart from those that move documents.                         *)
(***************************************************************************)
RowWrite(a) ==
    /\ status[a] # "absent" /\ Newest(a)
    /\ \E st \in Statuses :
         /\ status' = [status EXCEPT ![a] = st]
         /\ st \in Successful => st = status[a] \/ (monitor.pc = "mark" /\ monitor.att = a)
    /\ Touch(a) \/ UNCHANGED updated

Moves == {<<"queued", "verified">>, <<"verified", "window">>, <<"loop", "store">>, <<"loop", "save">>}
Goes(a) == \E m \in Moves : FetcherAt(a, m[1]) /\ GoTo(a, m[2])
Quits(a) == fetcher[a].pc \in {"queued", "verified"} \union Extracting /\ Exit(a)

Quiet(a) ==
    /\ RowWrite(a)
    /\ UNCHANGED <<settings, window, checkpoint, total, completed, errors, store, queue, indexed,
                   worker>>
    /\ UNCHANGED fetcher \/ Goes(a) \/ Quits(a)
    /\ UNCHANGED monitor \/ (monitor'.pc # "idle" /\ monitor'.att = a)

\* What the docfetching process of a does to documents
Fetches(a) ==
    \/ SetPollWindow(a) \/ LoadCheckpoint(a) \/ ReissueOldBatches(a) \/ CarryOverCompleted(a)
    \/ SaveCheckpoint(a) \/ StoreBatch(a) \/ SendTask(a) \/ SetTotalBatches(a)
\* A worker that has not counted its batch dies
DiesEarly(w) == CrashWorker(w) /\ worker[w].pc # "counted"
Works(w) ==
    \/ \E a \in Attempts, n \in BatchNums : LoadBatch(w, a, n)
    \/ IndexBatch(w) \/ FailBatch(w) \/ CompleteBatch(w) \/ FinishBatch(w) \/ DiesEarly(w)

\* Keeping or overwriting the status of a row, written or not.
LEMMA RowWrites ==
    ASSUME TypeInv, NEW a \in Attempts, status[a] # "absent", Newest(a)
    PROVE  /\ UNCHANGED status /\ (Touch(a) \/ UNCHANGED updated) => RowWrite(a)
           /\ \A st \in Active \union Unsuccessful : Mark(a, st) => RowWrite(a)
           /\ \A st \in Successful :
                Mark(a, st) /\ monitor.pc = "mark" /\ monitor.att = a => RowWrite(a)
<1>1. status \in [Attempts -> Statuses \union {"absent"}]
  BY DEF TypeInv, RowsOK
<1>2. status[a] \in Statuses /\ (UNCHANGED status => status' = [status EXCEPT ![a] = status[a]])
  BY <1>1
<1>3. UNCHANGED status /\ (Touch(a) \/ UNCHANGED updated) => RowWrite(a)
  BY <1>2 DEF RowWrite
<1>4. ASSUME NEW st \in Active \union Unsuccessful, Mark(a, st) PROVE RowWrite(a)
  <2>1. st \in Statuses /\ st \notin Successful
    BY DEF Statuses, Active, Unsuccessful, Successful
  <2> QED BY <1>4, <2>1 DEF RowWrite, Mark
<1>5. ASSUME NEW st \in Successful, Mark(a, st), monitor.pc = "mark", monitor.att = a
      PROVE  RowWrite(a)
  BY <1>5 DEF RowWrite, Mark, Statuses
<1> QED BY <1>3, <1>4, <1>5

LEMMA QuietFetching ==
    ASSUME Undisturbed, TypeInv, CountInv, RowInv, Stages, NEW a \in Attempts,
           \/ VerifyAttempt(a) \/ StartFetching(a) \/ CheckStatus(a)
           \/ FetchTrouble(a)
    PROVE  Quiet(a)
<1>1. Live(a)
  BY DEF VerifyAttempt, StartFetching, CheckStatus, FetchTrouble, FailSetup, FailExtraction,
         StopExtraction, KillFetcher, FailSpawn, FetcherAt, InSetup, Running, Live
<1>2. status[a] # "absent" /\ Newest(a)
  BY <1>1, AtWork
<1>3. /\ UNCHANGED status /\ (Touch(a) \/ UNCHANGED updated) => RowWrite(a)
      /\ \A st \in Active \union Unsuccessful : Mark(a, st) => RowWrite(a)
  BY <1>2, RowWrites
<1>4. {"IN_PROGRESS", "FAILED", "CANCELED"} \subseteq Active \union Unsuccessful
  BY DEF Active, Unsuccessful
<1> USE DEF Quiet
<1>5. CASE VerifyAttempt(a)
  <2>1. RowWrite(a)
    BY <1>3, <1>4, <1>5 DEF VerifyAttempt, ExitFailing
  <2>2. Goes(a) \/ Quits(a)
    BY <1>5 DEF VerifyAttempt, ExitFailing, Goes, Quits, Moves, FetcherAt
  <2> QED BY <1>5, <2>1, <2>2 DEF VerifyAttempt
<1>6. CASE StartFetching(a)
  <2>1. RowWrite(a)
    BY <1>3, <1>4, <1>6 DEF StartFetching, ExitFailing
  <2>2. Goes(a) \/ Quits(a)
    BY <1>6 DEF StartFetching, ExitFailing, Goes, Quits, Moves, FetcherAt
  <2> QED BY <1>6, <2>1, <2>2 DEF StartFetching
<1>7. CASE CheckStatus(a)
  <2>1. RowWrite(a)
    BY <1>3, <1>4, <1>7 DEF CheckStatus
  <2>2. Goes(a) \/ Quits(a)
    BY <1>7 DEF CheckStatus, Goes, Quits, Moves, FetcherAt, Extracting
  <2> QED BY <1>7, <2>1, <2>2 DEF CheckStatus
<1>8. CASE FetchTrouble(a)
  <2>1. ~FailSetup(a)
    BY DEF FailSetup, Happens, Undisturbed
  <2>2. CASE FailExtraction(a)
    BY <1>3, <1>4, <2>2 DEF FailExtraction, Quits, Extracting
  <2>3. CASE StopExtraction(a)
    BY <1>3, <1>4, <2>3 DEF StopExtraction, Quits, Extracting, FetcherAt
  <2>4. CASE KillFetcher(a)
    <3>1. fetcher[a].pc \in Extracting
      <4>1. ~InSetup(a)
        BY <2>4 DEF KillFetcher, Undisturbed
      <4>2. fetcher[a] \in FetcherType
        BY DEF TypeInv, FetchersOK
      <4> QED BY <2>4, <4>1, <4>2 DEF KillFetcher, Running, InSetup, FetcherType, Extracting
    <3> QED BY <1>3, <2>4, <3>1 DEF KillFetcher, Quits, rowVars
  <2>5. CASE FailSpawn(a)
    BY <1>3, <1>4, <2>5 DEF FailSpawn, Quits, FetcherAt
  <2> QED BY <1>8, <2>1, <2>2, <2>3, <2>4, <2>5 DEF FetchTrouble
<1> QED BY <1>5, <1>6, <1>7, <1>8

LEMMA QuietRows ==
    ASSUME TypeInv, CountInv, RowInv, Stages, NEW a \in Attempts,
           \/ RequestCancellation(a) \/ Heartbeat(a) \/ ExceedMemoryLimit(a) \/ HeartbeatTimeout(a)
           \/ FailNeverStarted(a) \/ CancelAttempt(a) \/ ReadCompletion(a)
    PROVE  Quiet(a)
<1>1. Live(a) \/ status[a] \in Active \/ \E w \in Workers : BusyOn(w, a)
  BY DEF RequestCancellation, Heartbeat, ExceedMemoryLimit, HeartbeatTimeout, FailNeverStarted,
         CancelAttempt, ReadCompletion, Running, Live, Active
<1>2. status[a] # "absent" /\ Newest(a)
  BY <1>1, AtWork
<1>3. /\ UNCHANGED status /\ (Touch(a) \/ UNCHANGED updated) => RowWrite(a)
      /\ \A st \in Active \union Unsuccessful : Mark(a, st) => RowWrite(a)
  BY <1>2, RowWrites
<1>4. {"FAILED", "CANCELED"} \subseteq Active \union Unsuccessful
  BY DEF Unsuccessful
<1> USE DEF Quiet
<1>5. CASE RequestCancellation(a) \/ Heartbeat(a)
  BY <1>3, <1>5 DEF RequestCancellation, Heartbeat
<1>6. CASE ExceedMemoryLimit(a) \/ HeartbeatTimeout(a) \/ FailNeverStarted(a) \/ CancelAttempt(a)
  BY <1>3, <1>4, <1>6 DEF ExceedMemoryLimit, HeartbeatTimeout, FailNeverStarted, CancelAttempt
<1>7. CASE ReadCompletion(a)
  BY <1>3, <1>7 DEF ReadCompletion, rowVars
<1> QED BY <1>5, <1>6, <1>7

LEMMA QuietMonitor ==
    ASSUME TypeInv, RowInv, MarkCompletion \/ FailMonitoring
    PROVE  Quiet(monitor.att)
<1>1. monitor.att \in Attempts /\ status[monitor.att] # "absent" /\ Newest(monitor.att)
  BY DEF MarkCompletion, FailMonitoring, TypeInv, MonitorOK, RowInv, MonitorOnNewest
<1>2. /\ \A st \in Active \union Unsuccessful : Mark(monitor.att, st) => RowWrite(monitor.att)
      /\ \A st \in Successful :
           Mark(monitor.att, st) /\ monitor.pc = "mark" => RowWrite(monitor.att)
  BY <1>1, RowWrites
<1>3. monitor'.att = monitor.att /\ monitor'.pc = "cleanup"
  BY DEF MarkCompletion, FailMonitoring, TypeInv, MonitorOK
<1>4. CASE MarkCompletion
  BY <1>2, <1>3, <1>4 DEF MarkCompletion, Successful, Quiet
<1>5. CASE FailMonitoring
  BY <1>2, <1>3, <1>5 DEF FailMonitoring, Unsuccessful, Quiet
<1> QED BY <1>4, <1>5

LEMMA Steps ==
    ASSUME Undisturbed, TypeInv, CountInv, RowInv, Stages, [Next]_vars
    PROVE  \/ \E s \in Settings : CreateAttempt(s)
           \/ \E a \in Attempts : Quiet(a) \/ Fetches(a)
           \/ \E w \in Workers : Works(w)
           \/ CleanUpBatches \/ UNCHANGED vars
<1>1. ASSUME NEW a \in Attempts, Fetch(a) \/ FetchTrouble(a) PROVE Quiet(a) \/ Fetches(a)
  BY <1>1, QuietFetching DEF Fetch, Fetches
<1>2. ASSUME NEW w \in Workers, Process(w) \/ ProcessTrouble(w) PROVE Works(w)
  <2>1. ~FailFinishing(w) /\ \A a \in Attempts, n \in BatchNums : ~RefuseBatch(w, a, n)
    BY DEF FailFinishing, RefuseBatch, Happens, Undisturbed
  <2>2. CrashWorker(w) => DiesEarly(w)
    BY DEF CrashWorker, DiesEarly, Happens, Undisturbed
  <2> QED BY <1>2, <2>1, <2>2 DEF Process, ProcessTrouble, Works
<1>3. ASSUME Finalize \/ FailMonitoring PROVE CleanUpBatches \/ \E a \in Attempts : Quiet(a)
  <2>1. CASE MarkCompletion \/ FailMonitoring
    <3>1. monitor.att \in Attempts
      BY <2>1 DEF MarkCompletion, FailMonitoring, TypeInv, MonitorOK
    <3> QED BY <2>1, <3>1, QuietMonitor
  <2> QED BY <1>3, <2>1, QuietRows DEF Finalize
<1> QED BY <1>1, <1>2, <1>3, QuietRows DEF Next, Finished
-----------------------------------------------------------------------------
(***************************************************************************)
(* Attempts follow one another                                             *)
(***************************************************************************)

LEMMA Blank ==
    ASSUME TypeInv, CountInv, Stages, NEW a \in Attempts, status[a] = "absent"
    PROVE  fetcher[a].pc = "none" /\ checkpoint[a] = None /\ ~Placed(a)
BY DEF Stages, StageOf, CountInv, TotalSetLast, Unplaced, Early, Placed

\* With one search setting every attempt is for it.
LEMMA SameSetting ==
    ASSUME Undisturbed, TypeInv, NEW s \in Settings, NEW a \in Attempts
    PROVE  settings[a] = s
BY DEF Undisturbed, TypeInv, RowsOK

\* The row that is written, if any, is not older than a checkpoint of a later
\* attempt, and the first save of a checkpoint writes its row.
WritesLast ==
    \/ /\ UNCHANGED updated /\ Rows' = Rows
       /\ \A b \in Attempts : checkpoint'[b] # None => checkpoint[b] # None
    \/ \E a \in Attempts :
         /\ Touch(a) /\ Rows' = Rows \union {a}
         /\ \A b \in Attempts : a < b => checkpoint[b] = None
         /\ \A b \in Attempts \ {a} : checkpoint'[b] # None => checkpoint[b] # None

LEMMA RanksKept ==
    ASSUME TypeInv, Ranked, PlacedLater, WritesLast
    PROVE  Ranked' /\ PlacedLater'
<1>0. updated \in [Attempts -> Nat] /\ Attempts \subseteq Int
  BY DEF TypeInv, RowsOK, Attempts
<1>1. CASE /\ UNCHANGED updated /\ Rows' = Rows
           /\ \A b \in Attempts : checkpoint'[b] # None => checkpoint[b] # None
  <2>1. \A b \in Attempts : status'[b] = "absent" <=> status[b] = "absent"
    BY <1>1 DEF Rows
  <2>2. Ranked'
    BY <1>1, <2>1 DEF Ranked
  <2> QED BY <1>1, <2>2 DEF PlacedLater
<1>2. ASSUME NEW a \in Attempts, Touch(a), Rows' = Rows \union {a},
             \A b \in Attempts : a < b => checkpoint[b] = None,
             \A b \in Attempts \ {a} : checkpoint'[b] # None => checkpoint[b] # None
      PROVE  Ranked' /\ PlacedLater'
  <2>1. /\ Ranked'
        /\ \A b \in Attempts \ {a} : updated'[b] < updated'[a]
        /\ \A b, c \in Attempts \ {a} : updated[b] < updated[c] => updated'[b] < updated'[c]
    BY <1>2, TouchRanks
  <2>2. ASSUME NEW b \in Attempts, NEW c \in Attempts, c < b, checkpoint'[b] # None
        PROVE  updated'[c] < updated'[b]
    <3>1. CASE b = a
      BY <1>0, <2>1, <2>2, <3>1
    <3>2. CASE b # a
      <4>1. checkpoint[b] # None /\ c # a
        BY <1>2, <2>2, <3>2
      <4> QED BY <2>1, <2>2, <3>2, <4>1 DEF PlacedLater
    <3> QED BY <3>1, <3>2
  <2> QED BY <2>1, <2>2 DEF PlacedLater
<1> QED BY <1>1, <1>2 DEF WritesLast

\* No attempt is created: what is at work stays with the newest.
NoneCreated ==
    /\ \A b \in Attempts : status'[b] # status[b] =>
         status[b] # "absent" /\ status'[b] # "absent" /\ Newest(b)
    /\ \A b \in Attempts : Live(b)' => Live(b)
    /\ \A b \in Attempts, w \in Workers : BusyOn(w, b)' => BusyOn(w, b) \/ Newest(b)
    /\ monitor'.pc # "idle" =>
         \/ UNCHANGED monitor
         \/ monitor'.att \in Attempts /\ status[monitor'.att] # "absent" /\ Newest(monitor'.att)

LEMMA OrderKept ==
    ASSUME TypeInv, RowInv, NoneCreated
    PROVE  /\ Ordered' /\ MonitorOnNewest'
           /\ \A b \in Attempts : Newest(b)' <=> Newest(b)
<1>1. \A b \in Attempts : status'[b] = "absent" <=> status[b] = "absent"
  BY DEF NoneCreated
<1>2. \A b \in Attempts : Newest(b)' <=> Newest(b)
  BY <1>1 DEF Newest
<1>3. ASSUME NEW a \in Attempts, NEW b \in Attempts, a < b, status'[b] # "absent"
      PROVE  /\ status'[a] \in Unsuccessful /\ ~Live(a)'
             /\ \A w \in Workers : ~BusyOn(w, a)'
  <2>1. status[b] # "absent" /\ ~Newest(a)
    BY <1>1, <1>3 DEF Newest
  <2>2. /\ status[a] \in Unsuccessful /\ ~Live(a)
        /\ \A w \in Workers : ~BusyOn(w, a)
    BY <1>3, <2>1 DEF RowInv, Ordered
  <2> QED BY <2>1, <2>2 DEF NoneCreated
<1>4. Ordered'
  BY <1>3 DEF Ordered
<1>5. MonitorOnNewest'
  BY <1>1, <1>2 DEF RowInv, MonitorOnNewest, NoneCreated, TypeInv, MonitorOK
<1> QED BY <1>2, <1>4, <1>5
\* A step that writes at most the row of a, which is there and newest or owns the
\* files, and saves at most the checkpoint of a.
LEMMA OneRow ==
    ASSUME TypeInv, CountInv, Stages, NEW a \in Attempts, status[a] # "absent",
           Newest(a) \/ ~Overtaken(a), Rows' = Rows, Touch(a) \/ UNCHANGED updated,
           Touch(a) \/ (checkpoint'[a] # None => checkpoint[a] # None),
           \A b \in Attempts \ {a} : checkpoint'[b] = checkpoint[b]
    PROVE  WritesLast
<1>1. \A b \in Attempts : a < b => checkpoint[b] = None
  <2>1. CASE Newest(a)
    BY <2>1, Blank DEF Newest
  <2>2. CASE ~Overtaken(a)
    BY <2>2 DEF Overtaken, Placed
  <2> QED BY <2>1, <2>2
<1>2. a \in Rows
  BY DEF Rows
<1>3. CASE Touch(a)
  BY <1>1, <1>2, <1>3 DEF WritesLast
<1>4. CASE UNCHANGED updated /\ ~Touch(a)
  <2>1. \A b \in Attempts : checkpoint'[b] # None => checkpoint[b] # None
    BY <1>4
  <2> QED BY <1>4, <2>1 DEF WritesLast
<1> QED BY <1>3, <1>4

LEMMA QuietRowStep ==
    ASSUME TypeInv, CountInv, RowInv, Stages, NEW a \in Attempts, Quiet(a)
    PROVE  NoneCreated /\ WritesLast
<1>1. /\ status[a] # "absent" /\ Newest(a)
      /\ Touch(a) \/ UNCHANGED updated
      /\ \A b \in Attempts \ {a} : status'[b] = status[b]
      /\ status'[a] # "absent"
  BY DEF Quiet, RowWrite, TypeInv, RowsOK, Statuses, Active, Successful, Unsuccessful
<1>2. Rows' = Rows
  BY <1>1 DEF Rows
<1>3. WritesLast
  BY <1>1, <1>2, OneRow DEF Quiet
<1>4. \A b \in Attempts : Live(b)' => Live(b)
  BY DEF Quiet, Goes, Quits, GoTo, Exit, SetFetcher, NewFetcher, Live, FetcherAt, Moves, TypeInv,
         FetchersOK
<1>5. NoneCreated
  BY <1>1, <1>4 DEF NoneCreated, Quiet, BusyOn
<1> QED BY <1>3, <1>5

LEMMA FetchesLive ==
    ASSUME NEW a \in Attempts, Fetches(a)
    PROVE  Live(a)
BY DEF Fetches, SetPollWindow, LoadCheckpoint, ReissueOldBatches, CarryOverCompleted,
       SaveCheckpoint, StoreBatch, SendTask, SetTotalBatches, FetcherAt, Live

LEMMA FetchesRowStep ==
    ASSUME TypeInv, CountInv, RowInv, Stages, NEW a \in Attempts, Fetches(a)
    PROVE  NoneCreated /\ WritesLast
<1>1. Live(a)
  BY FetchesLive
<1>2. status[a] # "absent" /\ Newest(a)
  BY <1>1, AtWork
<1>3. UNCHANGED <<status, worker, monitor>>
  BY DEF Fetches, SetPollWindow, LoadCheckpoint, ReissueOldBatches, CarryOverCompleted,
         SaveCheckpoint, StoreBatch, SendTask, SetTotalBatches, rowVars
<1>4. \A b \in Attempts : fetcher'[b].pc # fetcher[b].pc => b = a
  BY DEF Fetches, SetPollWindow, LoadCheckpoint, ReissueOldBatches, CarryOverCompleted,
         SaveCheckpoint, StoreBatch, SendTask, SetTotalBatches, SetFetcher, GoTo, Exit, TypeInv,
         FetchersOK
<1>5. NoneCreated
  BY <1>1, <1>3, <1>4 DEF NoneCreated, BusyOn, Live
<1>6. Touch(a) \/ UNCHANGED updated
  BY DEF Fetches, SetPollWindow, LoadCheckpoint, ReissueOldBatches, CarryOverCompleted,
         SaveCheckpoint, StoreBatch, SendTask, SetTotalBatches, rowVars
<1>7. \A b \in Attempts \ {a} : checkpoint'[b] = checkpoint[b]
  BY DEF Fetches, SetPollWindow, LoadCheckpoint, ReissueOldBatches, CarryOverCompleted,
         SaveCheckpoint, StoreBatch, SendTask, SetTotalBatches, rowVars, TypeInv, RowsOK
<1>8. Touch(a) \/ (checkpoint'[a] # None => checkpoint[a] # None)
  BY DEF Fetches, SetPollWindow, LoadCheckpoint, ReissueOldBatches, CarryOverCompleted,
         SaveCheckpoint, StoreBatch, SendTask, SetTotalBatches, rowVars
<1>9. WritesLast
  BY <1>2, <1>3, <1>6, <1>7, <1>8, OneRow DEF Rows
<1> QED BY <1>5, <1>9

\* A worker keeps its batch while it works on it.
LEMMA SameBatch ==
    ASSUME TypeInv, NEW w \in Workers,
           IndexBatch(w) \/ FailBatch(w) \/ CompleteBatch(w) \/ FinishBatch(w) \/ DiesEarly(w)
    PROVE  /\ worker[w].pc # "idle" /\ WAtt(w) \in Attempts /\ worker[w].num \in BatchNums
           /\ worker[w].item \in Items
           /\ \A v \in Workers \ {w} : worker'[v] = worker[v]
           /\ \/ worker'[w] = IdleWorker
              \/ /\ worker'[w].pc \in {"indexed", "counted"} /\ worker'[w].att = WAtt(w)
                 /\ worker'[w].num = worker[w].num /\ worker'[w].item = worker[w].item
                 /\ worker'[w].pc = "counted" => CompleteBatch(w)
<1>1. worker \in [Workers -> WorkerType] /\ worker[w] \in WorkerType
  BY DEF TypeInv, WorkersOK
<1>2. worker[w].pc # "idle"
  BY DEF IndexBatch, FailBatch, CompleteBatch, FinishBatch, DiesEarly, CrashWorker
<1>3. WAtt(w) \in Attempts /\ worker[w].num \in BatchNums /\ worker[w].item \in Items
  BY <1>1, <1>2 DEF TypeInv, WorkersOK, WorkerSound, WAtt, WorkerType
<1>4. \A v \in Workers \ {w} : worker'[v] = worker[v]
  BY <1>1 DEF IndexBatch, FailBatch, CompleteBatch, FinishBatch, DiesEarly, CrashWorker, SetWorker
<1>5. CASE IndexBatch(w)
  <2>1. PICK bad \in BOOLEAN : worker' = [worker EXCEPT ![w] = [worker[w] EXCEPT !.pc = "indexed", !.failed = bad]]
    BY <1>5 DEF IndexBatch, SetWorker
  <2>2. worker'[w] = [worker[w] EXCEPT !.pc = "indexed", !.failed = bad]
    BY <1>1, <2>1
  <2> QED BY <1>1, <1>2, <1>3, <1>4, <2>2 DEF WorkerType, WAtt
<1>6. CASE CompleteBatch(w)
  <2>1. worker'[w] = [worker[w] EXCEPT !.pc = "counted"]
    BY <1>1, <1>6 DEF CompleteBatch, SetWorker
  <2> QED BY <1>1, <1>2, <1>3, <1>4, <1>6, <2>1 DEF WorkerType, WAtt
<1>7. CASE FailBatch(w) \/ FinishBatch(w) \/ DiesEarly(w)
  BY <1>1, <1>2, <1>3, <1>4, <1>7 DEF FailBatch, FinishBatch, DiesEarly, CrashWorker, SetWorker
<1> QED BY <1>5, <1>6, <1>7

LEMMA WorksRowStep ==
    ASSUME TypeInv, CountInv, RowInv, Stages, LastOwns, NEW w \in Workers, Works(w)
    PROVE  NoneCreated /\ WritesLast
<1>1. UNCHANGED <<status, fetcher, monitor, checkpoint>>
  BY DEF Works, LoadBatch, IndexBatch, FailBatch, CompleteBatch, FinishBatch, DiesEarly, CrashWorker,
         rowVars
<1>2. ASSUME NEW b \in Attempts, NEW v \in Workers, BusyOn(v, b)'
      PROVE  BusyOn(v, b) \/ Newest(b)
  <2>1. CASE \E a \in Attempts, n \in BatchNums : LoadBatch(w, a, n)
    <3>1. PICK a \in Attempts, n \in BatchNums : LoadBatch(w, a, n)
      BY <2>1
    <3>2. CASE UNCHANGED worker
      BY <1>2, <3>2 DEF BusyOn
    <3>3. CASE ~UNCHANGED worker
      <4>1. status[a] \notin Terminal /\ store[a][n] # NoItem
        BY <3>1, <3>3 DEF LoadBatch
      <4>2. fetcher[a].pc # "none"
        BY <4>1 DEF LastOwns, Placed, Stages, StageOf, Unplaced, Early
      <4>3. status[a] \in Active \/ status[a] = "absent"
        BY <4>1 DEF TypeInv, RowsOK, Statuses, Terminal
      <4>4. Newest(a)
        BY <4>2, <4>3, AtWork DEF CountInv, TotalSetLast
      <4>5. v # w => worker'[v] = worker[v]
        BY <3>1 DEF LoadBatch, SetWorker, TypeInv, WorkersOK
      <4>6. v = w => worker'[v].att = a
        BY <3>1, <3>3 DEF LoadBatch, SetWorker, TypeInv, WorkersOK
      <4> QED BY <1>2, <4>4, <4>5, <4>6 DEF BusyOn
    <3> QED BY <3>2, <3>3
  <2>2. CASE ~\E a \in Attempts, n \in BatchNums : LoadBatch(w, a, n)
    BY <1>2, <2>2, SameBatch DEF Works, IdleWorker, BusyOn, WAtt
  <2> QED BY <2>1, <2>2
<1>3. NoneCreated
  BY <1>1, <1>2 DEF NoneCreated, Live
<1>4. ASSUME UNCHANGED updated PROVE WritesLast
  BY <1>1, <1>4 DEF WritesLast, Rows
<1>5. ASSUME NEW a \in Attempts, NEW n \in BatchNums, LoadBatch(w, a, n), ~UNCHANGED updated
      PROVE  WritesLast
  <2>1. Touch(a) /\ store[a][n] # NoItem
    BY <1>5 DEF LoadBatch, TaskFails, CountBatch
  <2>2. status[a] # "absent" /\ ~Overtaken(a)
    BY <2>1, Blank DEF LastOwns
  <2> QED BY <1>1, <2>1, <2>2, OneRow DEF Rows
<1>6. ASSUME IndexBatch(w) \/ FailBatch(w) \/ CompleteBatch(w) \/ FinishBatch(w) \/ DiesEarly(w),
             ~UNCHANGED updated
      PROVE  WritesLast
  <2>1. worker[w].pc # "idle" /\ Touch(WAtt(w))
    BY <1>6 DEF IndexBatch, FailBatch, CompleteBatch, FinishBatch, DiesEarly, CrashWorker, TaskFails,
                CountBatch, rowVars
  <2>2. WAtt(w) \in Attempts
    BY <2>1 DEF TypeInv, WorkersOK, WorkerSound, WAtt
  <2>3. status[WAtt(w)] # "absent" /\ Newest(WAtt(w))
    BY <2>1, <2>2, AtWork DEF BusyOn, WAtt
  <2> QED BY <1>1, <2>1, <2>2, <2>3, OneRow DEF Rows
<1> QED BY <1>3, <1>4, <1>5, <1>6 DEF Works
LEMMA CreateRowStep ==
    ASSUME Undisturbed, TypeInv, CountInv, RowInv, Stages, NEW s \in Settings, CreateAttempt(s)
    PROVE  RowInv'
<1>1. PICK a \in Attempts :
        /\ status[a] = "absent" /\ \A b \in 1..(a - 1) : status[b] # "absent"
        /\ status' = [status EXCEPT ![a] = "NOT_STARTED"]
        /\ GoTo(a, "queued") /\ Touch(a)
  BY DEF CreateAttempt
<1>2. \A b \in Attempts : b < a => status[b] # "absent"
  BY <1>1 DEF Attempts
<1>3. \A b \in Attempts : /\ status[b] \in Unsuccessful \union {"absent"} /\ ~Live(b)
                          /\ \A w \in Workers : ~BusyOn(w, b)
  <2>1. Drained(s) /\ Unclaimed(s)
    BY DEF CreateAttempt, Undisturbed
  <2> QED BY <2>1, SameSetting DEF Drained, Unclaimed, TypeInv, RowsOK, Statuses
<1>4. \A b \in Attempts : a < b => status[b] = "absent"
  BY <1>1 DEF RowInv, Ordered, Unsuccessful
<1>5. /\ \A b \in Attempts \ {a} : status'[b] = status[b]
      /\ status'[a] = "NOT_STARTED"
      /\ \A b \in Attempts \ {a} : fetcher'[b] = fetcher[b]
  BY <1>1 DEF GoTo, SetFetcher, TypeInv, RowsOK, FetchersOK
<1>6. UNCHANGED <<worker, monitor, checkpoint>> /\ monitor.pc = "idle"
  BY DEF CreateAttempt
<1>7. ASSUME NEW b \in Attempts, NEW c \in Attempts, b < c, status'[c] # "absent"
      PROVE  /\ status'[b] \in Unsuccessful /\ ~Live(b)'
             /\ \A w \in Workers : ~BusyOn(w, b)'
  <2>1. c <= a /\ b # a
    BY <1>4, <1>5, <1>7 DEF Attempts
  <2>2. status[b] # "absent"
    BY <1>2, <1>7, <2>1 DEF Attempts
  <2> QED BY <1>3, <1>5, <1>6, <2>1, <2>2 DEF Live, BusyOn
<1>8. Ordered' /\ MonitorOnNewest'
  BY <1>6, <1>7 DEF Ordered, MonitorOnNewest
<1>9. Rows' = Rows \union {a}
  BY <1>5 DEF Rows
<1>10. WritesLast
  BY <1>1, <1>4, <1>6, <1>9, Blank DEF WritesLast
<1> QED BY <1>8, <1>10, RanksKept DEF RowInv

LEMMA CleanUpRowStep ==
    ASSUME TypeInv, RowInv, CleanUpBatches \/ UNCHANGED vars
    PROVE  NoneCreated /\ WritesLast
BY DEF CleanUpBatches, vars, rowVars, IdleMonitor, NoneCreated, WritesLast, Live, BusyOn, Rows

LEMMA RowInvStep ==
    ASSUME Undisturbed, TypeInv, CountInv, RowInv, Stages, LastOwns, [Next]_vars
    PROVE  RowInv'
<1>1. CASE \E s \in Settings : CreateAttempt(s)
  BY <1>1, CreateRowStep
<1>2. CASE NoneCreated /\ WritesLast
  BY <1>2, OrderKept, RanksKept DEF RowInv
<1> QED
  BY <1>1, <1>2, Steps, QuietRowStep, FetchesRowStep, WorksRowStep, CleanUpRowStep
-----------------------------------------------------------------------------
(***************************************************************************)
(* Stages of docfetching                                                   *)
(***************************************************************************)

\* A docfetching process only writes the columns, tasks and state of its attempt.
LEMMA FetchesOwn ==
    ASSUME TypeInv, NEW a \in Attempts, Fetches(a)
    PROVE  /\ UNCHANGED <<status, settings, errors, indexed, worker, monitor>>
           /\ \A b \in Attempts \ {a} :
                /\ fetcher'[b] = fetcher[b] /\ window'[b] = window[b]
                /\ checkpoint'[b] = checkpoint[b] /\ total'[b] = total[b]
                /\ completed'[b] = completed[b] /\ queue'[b] = queue[b]
<1> USE DEF Fetches, TypeInv
<1>1. UNCHANGED <<status, settings, errors, indexed, worker, monitor>>
  BY DEF SetPollWindow, LoadCheckpoint, ReissueOldBatches, CarryOverCompleted,
         SaveCheckpoint, StoreBatch, SendTask, SetTotalBatches, rowVars
<1>2. \A b \in Attempts \ {a} : fetcher'[b] = fetcher[b]
  BY DEF SetPollWindow, LoadCheckpoint, ReissueOldBatches, CarryOverCompleted,
         SaveCheckpoint, StoreBatch, SendTask, SetTotalBatches, SetFetcher, GoTo, Exit, FetchersOK
<1>3. \A b \in Attempts \ {a} : window'[b] = window[b] /\ checkpoint'[b] = checkpoint[b]
  BY DEF SetPollWindow, LoadCheckpoint, ReissueOldBatches, CarryOverCompleted,
         SaveCheckpoint, StoreBatch, SendTask, SetTotalBatches, rowVars, RowsOK
<1>4. \A b \in Attempts \ {a} : total'[b] = total[b] /\ completed'[b] = completed[b]
  BY DEF SetPollWindow, LoadCheckpoint, ReissueOldBatches, CarryOverCompleted,
         SaveCheckpoint, StoreBatch, SendTask, SetTotalBatches, rowVars, RowsOK
<1>5. \A b \in Attempts \ {a} : queue'[b] = queue[b]
  BY DEF SetPollWindow, LoadCheckpoint, ReissueOldBatches, CarryOverCompleted,
         SaveCheckpoint, StoreBatch, SendTask, SetTotalBatches, rowVars, SharedOK
<1> QED BY <1>1, <1>2, <1>3, <1>4, <1>5

\* The previous attempt whose window is taken over.
LEMMA Previous ==
    ASSUME TypeInv, NEW a \in Attempts, NEW s \in Settings, MostRecent(s) # 0
    PROVE  /\ MostRecent(s) \in Attempts /\ status[MostRecent(s)] \in Terminal
           /\ \A b \in Attempts : settings[b] = s /\ status[b] \in Terminal =>
                updated[b] <= updated[MostRecent(s)]
<1> DEFINE S == {b \in Attempts : settings[b] = s /\ status[b] \in Terminal}
           last == {b \in S : \A c \in S : updated[c] <= updated[b]}
<1>1. MostRecent(s) = IF last = {} THEN 0 ELSE CHOOSE b \in last : TRUE
  BY DEF MostRecent, LastUpdated
<1>2. MostRecent(s) \in last
  BY <1>1
<1> QED BY <1>2

LEMMA StagesQuiet ==
    ASSUME TypeInv, Stages, NEW a \in Attempts, Quiet(a)
    PROVE  Stages'
<1>1. \A b \in Attempts \ {a} : fetcher'[b] = fetcher[b]
  BY DEF Quiet, Goes, Quits, GoTo, Exit, SetFetcher, TypeInv, FetchersOK
<1>2. UNCHANGED <<window, checkpoint, total, completed, queue, worker>>
  BY DEF Quiet
<1>3. StageOf(a, fetcher'[a])
  <2>1. CASE UNCHANGED fetcher
    BY <2>1 DEF Stages
  <2>2. CASE Goes(a)
    <3>1. PICK m \in Moves : fetcher[a].pc = m[1] /\ fetcher'[a] = [fetcher[a] EXCEPT !.pc = m[2]]
      BY <2>2 DEF Goes, FetcherAt, GoTo, SetFetcher, TypeInv, FetchersOK
    <3>2. /\ fetcher'[a].pc = m[2] /\ fetcher'[a].num = fetcher[a].num
          /\ fetcher'[a].base = fetcher[a].base
      BY <3>1 DEF TypeInv, FetchersOK, FetcherType
    <3>3. StageOf(a, fetcher[a])
      BY DEF Stages
    <3> QED BY <3>1, <3>2, <3>3 DEF Moves, StageOf, Early, Unplaced, Extracting
  <2>3. CASE Quits(a)
    <3>1. fetcher'[a].pc = "exited" /\ fetcher[a].pc \in {"queued", "verified"} \union Extracting
      BY <2>3 DEF Quits, Exit, SetFetcher, NewFetcher, TypeInv, FetchersOK
    <3>2. window[a] # NoWindow => checkpoint[a] = fetcher[a].base
      BY <3>1 DEF Stages, StageOf, Early
    <3>3. fetcher[a].base \in Nat
      BY DEF TypeInv, FetchersOK, FetcherType, Items
    <3> QED BY <3>1, <3>2, <3>3 DEF StageOf, Early, Unplaced, Extracting, None
  <2> QED BY <2>1, <2>2, <2>3 DEF Quiet
<1>4. \A b \in Attempts : StageOf(b, fetcher'[b])
  BY <1>1, <1>3 DEF Stages
<1> QED BY <1>2, <1>4 DEF Stages, StageOf, BusyOn

LEMMA StagesFetches ==
    ASSUME TypeInv, CountInv, RowInv, Stages, NEW a \in Attempts, Fetches(a)
    PROVE  Stages'
<1>1. /\ UNCHANGED worker
      /\ \A b \in Attempts \ {a} :
           /\ fetcher'[b] = fetcher[b] /\ window'[b] = window[b]
           /\ checkpoint'[b] = checkpoint[b] /\ total'[b] = total[b]
           /\ completed'[b] = completed[b] /\ queue'[b] = queue[b]
  BY FetchesOwn
<1>2. SUFFICES StageOf(a, fetcher[a])' /\ (window[a] <= a)' /\ (total[a] # None => checkpoint[a] = NumItems)'
  <2>1. ASSUME NEW b \in Attempts, b # a
        PROVE  StageOf(b, fetcher[b])' /\ (window[b] <= b)' /\ (total[b] # None => checkpoint[b] = NumItems)'
    BY <1>1, <2>1 DEF Stages, StageOf, BusyOn
  <2> QED BY <2>1 DEF Stages
<1>3. /\ fetcher \in [Attempts -> FetcherType] /\ fetcher[a] \in FetcherType
      /\ window \in [Attempts -> Attempts \union {NoWindow}]
      /\ checkpoint \in [Attempts -> {None, 0} \union PassEnds]
      /\ total \in [Attempts -> Nat \union {None}]
  BY DEF TypeInv, FetchersOK, RowsOK
<1>4. /\ StageOf(a, fetcher[a]) /\ window[a] <= a
      /\ fetcher[a].pc # "exited" => total[a] = None
  BY DEF Stages, CountInv, TotalSetLast
<1> USE DEF StageOf, Early, Unplaced, Extracting
<1>5. CASE SetPollWindow(a)
  <2>1. /\ FetcherAt(a, "window") /\ fetcher'[a].pc = "connector" /\ fetcher'[a].num = fetcher[a].num
        /\ UNCHANGED <<checkpoint, total, completed, queue>>
    BY <1>3, <1>5 DEF SetPollWindow, SetFetcher, FetcherType
  <2>2. window'[a] <= a
    <3>1. CASE window'[a] = a
      BY <3>1 DEF Attempts
    <3>2. CASE window'[a] # a
      <4> DEFINE prev == MostRecent(settings[a])
      <4>1. prev # 0 /\ window'[a] = window[prev]
        BY <1>3, <1>5, <3>2 DEF SetPollWindow
      <4>2. prev \in Attempts /\ status[prev] \in Terminal
        BY <4>1, Previous DEF TypeInv, RowsOK
      <4>3. prev <= a
        BY <4>2, <2>1, AtWork DEF Newest, Terminal, Successful, Unsuccessful, Attempts, Live, FetcherAt
      <4>4. window[prev] <= prev /\ window[prev] \in Int /\ prev \in Int /\ a \in Int
        BY <1>3, <4>2 DEF Stages, Attempts, NoWindow
      <4> HIDE DEF prev
      <4> QED BY <4>1, <4>3, <4>4
    <3> QED BY <3>1, <3>2
  <2> QED BY <1>1, <1>4, <2>1, <2>2 DEF FetcherAt, BusyOn
<1>6. CASE LoadCheckpoint(a)
  <2>1. /\ FetcherAt(a, "connector") /\ fetcher'[a].pc \in {"reissue", "initial"}
        /\ fetcher'[a].num = fetcher[a].num /\ UNCHANGED <<window, checkpoint, total, completed, queue>>
    BY <1>3, <1>6 DEF LoadCheckpoint, SetFetcher, FetcherType, rowVars
  <2> QED BY <1>1, <1>4, <2>1 DEF FetcherAt, BusyOn
<1>7. CASE ReissueOldBatches(a)
  <2>1. /\ FetcherAt(a, "reissue") /\ fetcher'[a].pc = "assign"
        /\ UNCHANGED <<window, checkpoint, total, completed>>
    BY <1>3, <1>7 DEF ReissueOldBatches, SetFetcher, FetcherType, rowVars
  <2> QED BY <1>1, <1>4, <2>1 DEF FetcherAt, BusyOn
<1>8. CASE CarryOverCompleted(a)
  <2>1. /\ FetcherAt(a, "assign") /\ fetcher'[a].pc = "initial"
        /\ UNCHANGED <<window, checkpoint, total>>
    BY <1>3, <1>8 DEF CarryOverCompleted, GoTo, SetFetcher, FetcherType
  <2> QED BY <1>1, <1>4, <2>1 DEF FetcherAt, BusyOn
<1>9. CASE SaveCheckpoint(a)
  <2>1. /\ fetcher[a].pc \in {"initial", "save"} /\ fetcher'[a].pc = "loop"
        /\ fetcher'[a].base = fetcher[a].pos /\ checkpoint'[a] = fetcher[a].pos
        /\ UNCHANGED <<window, total>>
    BY <1>3, <1>9 DEF SaveCheckpoint, FetcherAt, SetFetcher, FetcherType
  <2> QED BY <1>1, <1>4, <2>1
<1>10. CASE StoreBatch(a)
  <2>1. /\ FetcherAt(a, "store") /\ fetcher'[a].pc = "send" /\ fetcher'[a].base = fetcher[a].base
        /\ UNCHANGED <<window, checkpoint, total>>
    BY <1>3, <1>10 DEF StoreBatch, GoTo, SetFetcher, FetcherType, rowVars
  <2> QED BY <1>1, <1>4, <2>1 DEF FetcherAt
<1>11. CASE SendTask(a)
  <2>1. /\ FetcherAt(a, "send") /\ fetcher'[a].pc = "loop" /\ fetcher'[a].base = fetcher[a].base
        /\ UNCHANGED <<window, checkpoint, total>>
    BY <1>3, <1>11 DEF SendTask, SetFetcher, FetcherType, rowVars
  <2> QED BY <1>1, <1>4, <2>1 DEF FetcherAt
<1>12. CASE SetTotalBatches(a)
  <2>1. /\ FetcherAt(a, "loop") /\ fetcher'[a].pc = "exited" /\ fetcher[a].base = NumItems
        /\ UNCHANGED <<window, checkpoint>>
    BY <1>3, <1>12 DEF SetTotalBatches, Exhausted, Exit, SetFetcher, NewFetcher
  <2>2. NumItems # None
    BY ConstantsAssumption DEF None
  <2> QED BY <1>1, <1>4, <2>1, <2>2 DEF FetcherAt
<1> QED BY <1>5, <1>6, <1>7, <1>8, <1>9, <1>10, <1>11, <1>12 DEF Fetches

\* A task is delivered: it is dropped, it fails or a worker takes its batch.
LEMMA Delivery ==
    ASSUME TypeInv, NEW w \in Workers, NEW a \in Attempts, NEW n \in BatchNums, LoadBatch(w, a, n)
    PROVE  /\ worker[w].pc = "idle" /\ queue[a][n] > 0
           /\ UNCHANGED <<status, settings, window, checkpoint, total, store, indexed, fetcher, monitor>>
           /\ queue'[a][n] = queue[a][n] - 1
           /\ \A m \in BatchNums \ {n} : queue'[a][m] = queue[a][m]
           /\ \A b \in Attempts \ {a} : queue'[b] = queue[b] /\ completed'[b] = completed[b]
           /\ \/ /\ store[a][n] = NoItem
                 /\ UNCHANGED <<worker, errors, completed>>
              \/ /\ store[a][n] # NoItem /\ status[a] \in Terminal /\ ~PERSISTENT_INDEXING
                 /\ UNCHANGED <<worker, errors, completed>>
              \/ /\ store[a][n] # NoItem /\ status[a] \in Terminal /\ PERSISTENT_INDEXING
                 /\ errors' = errors \union {<<a, store[a][n]>>}
                 /\ completed'[a] = completed[a] + 1 /\ UNCHANGED worker
              \/ /\ store[a][n] # NoItem /\ status[a] \notin Terminal
                 /\ worker'[w] = [pc |-> "loaded", att |-> a, num |-> n, item |-> store[a][n],
                                  failed |-> FALSE]
                 /\ \A v \in Workers \ {w} : worker'[v] = worker[v]
                 /\ UNCHANGED <<errors, completed>>
<1>1. /\ worker[w].pc = "idle" /\ queue[a][n] > 0
      /\ UNCHANGED <<status, settings, window, checkpoint, total, store, indexed, fetcher, monitor>>
  BY DEF LoadBatch
<1>2. queue \in [Attempts -> [BatchNums -> Nat]] /\ completed \in [Attempts -> Nat]
  BY DEF TypeInv, SharedOK, RowsOK
<1>3. /\ queue'[a][n] = queue[a][n] - 1
      /\ \A m \in BatchNums \ {n} : queue'[a][m] = queue[a][m]
      /\ \A b \in Attempts \ {a} : queue'[b] = queue[b]
  BY <1>2 DEF LoadBatch
<1>4. \A b \in Attempts \ {a} : completed'[b] = completed[b]
  BY <1>2 DEF LoadBatch, TaskFails, CountBatch
<1>5. CASE store[a][n] = NoItem
  BY <1>1, <1>3, <1>4, <1>5 DEF LoadBatch
<1>6. CASE store[a][n] # NoItem /\ status[a] \in Terminal
  <2>1. UNCHANGED worker /\ TaskFails(a, store[a][n])
    BY <1>6 DEF LoadBatch
  <2>2. CASE PERSISTENT_INDEXING
    BY <1>1, <1>2, <1>3, <1>4, <1>6, <2>1, <2>2 DEF TaskFails, CountBatch
  <2>3. CASE ~PERSISTENT_INDEXING
    BY <1>1, <1>3, <1>4, <1>6, <2>1, <2>3 DEF TaskFails
  <2> QED BY <2>2, <2>3
<1>7. CASE store[a][n] # NoItem /\ status[a] \notin Terminal
  <2>1. /\ SetWorker(w, [pc |-> "loaded", att |-> a, num |-> n, item |-> store[a][n],
                         failed |-> FALSE])
        /\ UNCHANGED <<errors, completed>>
    BY <1>7 DEF LoadBatch
  <2>2. /\ worker'[w] = [pc |-> "loaded", att |-> a, num |-> n, item |-> store[a][n],
                         failed |-> FALSE]
        /\ \A v \in Workers \ {w} : worker'[v] = worker[v]
    BY <2>1 DEF SetWorker, TypeInv, WorkersOK
  <2> QED BY <1>1, <1>3, <1>4, <1>7, <2>1, <2>2
<1> QED BY <1>5, <1>6, <1>7

\* A task is delivered: where docfetching has got to by then.
LEMMA Delivered ==
    ASSUME Undisturbed, TypeInv, Stages, NEW w \in Workers, NEW a \in Attempts, NEW n \in BatchNums,
           LoadBatch(w, a, n)
    PROVE  fetcher[a].pc \notin Unplaced \union {"assign"}
BY DEF Undisturbed, LoadBatch, FetcherAt, Stages, StageOf, TypeInv, SharedOK

LEMMA StagesWorks ==
    ASSUME Undisturbed, TypeInv, Stages, NEW w \in Workers, Works(w)
    PROVE  Stages'
<1>1. UNCHANGED <<fetcher, window, checkpoint, total>>
  BY DEF Works, LoadBatch, IndexBatch, FailBatch, CompleteBatch, FinishBatch, DiesEarly, CrashWorker,
         rowVars
<1>2. SUFFICES ASSUME NEW b \in Attempts, fetcher[b].pc \in Unplaced \union {"assign"}
               PROVE  /\ completed'[b] = completed[b] /\ \A v \in Workers : ~BusyOn(v, b)'
                      /\ fetcher[b].pc # "assign" => queue'[b] = queue[b]
  BY <1>1 DEF Stages, StageOf, Unplaced, Early, Extracting
<1>3. \A v \in Workers : ~BusyOn(v, b)
  BY <1>2 DEF Stages, StageOf, Unplaced, Early
<1>4. ASSUME NEW a \in Attempts, NEW n \in BatchNums, LoadBatch(w, a, n)
      PROVE  /\ completed'[b] = completed[b] /\ \A v \in Workers : ~BusyOn(v, b)'
             /\ queue'[b] = queue[b]
  <2>1. a # b
    BY <1>2, <1>4, Delivered
  <2>2. queue'[b] = queue[b] /\ completed'[b] = completed[b]
    BY <1>4, <2>1, Delivery
  <2>3. \/ UNCHANGED worker
        \/ worker'[w].att = a /\ \A v \in Workers \ {w} : worker'[v] = worker[v]
    <3>1. CASE UNCHANGED worker
      BY <3>1
    <3>2. CASE ~UNCHANGED worker
      <4>1. /\ worker'[w] = [pc |-> "loaded", att |-> a, num |-> n, item |-> store[a][n],
                             failed |-> FALSE]
            /\ \A v \in Workers \ {w} : worker'[v] = worker[v]
        BY <1>4, <3>2, Delivery
      <4> QED BY <4>1
    <3> QED BY <3>1, <3>2
  <2>4. \A v \in Workers : ~BusyOn(v, b)'
    BY <1>3, <2>1, <2>3 DEF BusyOn
  <2> QED BY <2>2, <2>4
<1>5. ASSUME IndexBatch(w) \/ FailBatch(w) \/ CompleteBatch(w) \/ FinishBatch(w) \/ DiesEarly(w)
      PROVE  /\ completed'[b] = completed[b] /\ \A v \in Workers : ~BusyOn(v, b)'
             /\ queue'[b] = queue[b]
  <2>1. WAtt(w) # b
    BY <1>3, <1>5, SameBatch DEF BusyOn, WAtt
  <2>2. \A v \in Workers : ~BusyOn(v, b)'
    BY <1>3, <1>5, <2>1, SameBatch DEF BusyOn, WAtt, IdleWorker
  <2>3. completed'[b] = completed[b] /\ queue'[b] = queue[b]
    BY <1>5, <2>1 DEF IndexBatch, FailBatch, CompleteBatch, FinishBatch, DiesEarly, CrashWorker,
        TaskFails, CountBatch, rowVars, TypeInv, RowsOK, SharedOK
  <2> QED BY <2>2, <2>3
<1> QED BY <1>4, <1>5 DEF Works

LEMMA StagesStep ==
    ASSUME Undisturbed, TypeInv, CountInv, RowInv, Stages, [Next]_vars
    PROVE  Stages'
<1>1. ASSUME NEW s \in Settings, CreateAttempt(s) PROVE Stages'
  <2>1. PICK a \in Attempts : status[a] = "absent" /\ GoTo(a, "queued")
    BY <1>1 DEF CreateAttempt
  <2>2. UNCHANGED <<window, checkpoint, total, completed, queue, worker>>
    BY <1>1 DEF CreateAttempt
  <2>3. /\ \A b \in Attempts \ {a} : fetcher'[b] = fetcher[b]
        /\ fetcher'[a].pc = "queued" /\ fetcher'[a].num = fetcher[a].num /\ fetcher[a].pc = "none"
    BY <2>1, Blank DEF GoTo, SetFetcher, TypeInv, FetchersOK, FetcherType
  <2>4. \A b \in Attempts : StageOf(b, fetcher'[b])
    BY <2>3 DEF Stages, StageOf, Unplaced, Early, Extracting
  <2> QED BY <2>2, <2>4 DEF Stages, StageOf, BusyOn
<1>2. CASE CleanUpBatches \/ UNCHANGED vars
  <2>1. UNCHANGED <<fetcher, window, checkpoint, total, completed, queue, worker>>
    BY <1>2 DEF CleanUpBatches, vars, rowVars
  <2> QED BY <2>1 DEF Stages, StageOf, BusyOn
<1> QED BY <1>1, <1>2, Steps, StagesQuiet, StagesFetches, StagesWorks
-----------------------------------------------------------------------------
(***************************************************************************)
(* The files belong to the last attempt that could place some              *)
(***************************************************************************)
SamePlaced == \A b \in Attempts : Placed(b)' <=> Placed(b)
Removes == \A b \in Attempts, n \in BatchNums : store'[b][n] \in {store[b][n], NoItem}

LEMMA OwnersKept ==
    ASSUME LastOwns, SamePlaced, Removes
    PROVE  LastOwns'
BY DEF LastOwns, SamePlaced, Removes, Overtaken

\* What a quiet step does to the docfetching process.
LEMMA QuietFetcher ==
    ASSUME TypeInv, NEW a \in Attempts, Quiet(a)
    PROVE  /\ \A b \in Attempts \ {a} : fetcher'[b] = fetcher[b]
           /\ \/ fetcher'[a] = fetcher[a]
              \/ /\ <<fetcher[a].pc, fetcher'[a].pc>> \in Moves
                 /\ fetcher'[a].recent = fetcher[a].recent /\ fetcher'[a].base = fetcher[a].base
                 /\ fetcher'[a].pos = fetcher[a].pos /\ fetcher'[a].num = fetcher[a].num
              \/ /\ fetcher[a].pc \in {"queued", "verified"} \union Extracting
                 /\ fetcher'[a].pc = "exited"
<1>1. fetcher \in [Attempts -> FetcherType] /\ fetcher[a] \in FetcherType
  BY DEF TypeInv, FetchersOK
<1>2. CASE UNCHANGED fetcher
  BY <1>2
<1>3. CASE Goes(a)
  <2>1. PICK m \in Moves : FetcherAt(a, m[1]) /\ fetcher' = [fetcher EXCEPT ![a] = [fetcher[a] EXCEPT !.pc = m[2]]]
    BY <1>3 DEF Goes, GoTo, SetFetcher
  <2>2. /\ \A b \in Attempts \ {a} : fetcher'[b] = fetcher[b]
        /\ fetcher'[a] = [fetcher[a] EXCEPT !.pc = m[2]]
    BY <1>1, <2>1
  <2>3. m = <<m[1], m[2]>>
    BY DEF Moves
  <2>4. <<fetcher[a].pc, fetcher'[a].pc>> \in Moves
    BY <1>1, <2>1, <2>2, <2>3 DEF FetcherAt, FetcherType
  <2> QED BY <1>1, <2>2, <2>4 DEF FetcherType
<1>4. CASE Quits(a)
  <2>1. fetcher' = [fetcher EXCEPT ![a] = [NewFetcher EXCEPT !.pc = "exited"]]
    BY <1>4 DEF Quits, Exit, SetFetcher
  <2>2. /\ \A b \in Attempts \ {a} : fetcher'[b] = fetcher[b]
        /\ fetcher'[a].pc = "exited"
    BY <1>1, <2>1 DEF NewFetcher
  <2> QED BY <1>4, <2>2 DEF Quits
<1> QED BY <1>2, <1>3, <1>4 DEF Quiet

\* The old batches are kept, or all thrown away.
LEMMA Loading ==
    ASSUME TypeInv, NEW a \in Attempts, LoadCheckpoint(a)
    PROVE  /\ fetcher[a].pc = "connector"
           /\ fetcher'[a].recent = fetcher[a].recent /\ fetcher'[a].num = fetcher[a].num
           /\ fetcher'[a].pos \in {0, LatestCheckpoint(a)} /\ fetcher'[a].base = fetcher'[a].pos
           /\ UNCHANGED <<rowVars, errors, queue, indexed, worker, monitor>>
           /\ \/ /\ fetcher'[a].pc = "reissue" /\ ReusesOldBatches(a) /\ UNCHANGED store
                 /\ fetcher'[a].pos = LatestCheckpoint(a)
              \/ fetcher'[a].pc = "initial" /\ store' = EmptyStore
<1>1. fetcher \in [Attempts -> FetcherType] /\ fetcher[a] \in FetcherType
  BY DEF TypeInv, FetchersOK
<1>2. PICK pc \in {"reissue", "initial"}, from \in {0, LatestCheckpoint(a)} :
        /\ fetcher' = [fetcher EXCEPT ![a] = [fetcher[a] EXCEPT !.pc = pc, !.base = from, !.pos = from]]
        /\ pc = "reissue" => ReusesOldBatches(a) /\ UNCHANGED store /\ from = LatestCheckpoint(a)
        /\ pc = "initial" => store' = EmptyStore
  <2>1. PICK readable \in BOOLEAN :
          LET keep == readable /\ ReusesOldBatches(a)
              from == StartPosition(a, readable)
          IN  /\ SetFetcher(a, [fetcher[a] EXCEPT !.pc = IF keep THEN "reissue" ELSE "initial",
                                                !.base = from, !.pos = from])
              /\ store' = IF keep THEN store ELSE EmptyStore
    BY DEF LoadCheckpoint
  <2>2. CASE readable /\ ReusesOldBatches(a)
    BY <2>1, <2>2 DEF StartPosition, SetFetcher
  <2>3. CASE ~(readable /\ ReusesOldBatches(a))
    <3>1. StartPosition(a, readable) \in {0, LatestCheckpoint(a)}
      BY DEF StartPosition
    <3> QED BY <2>1, <2>3, <3>1 DEF SetFetcher
  <2> QED BY <2>2, <2>3
<1>3. fetcher'[a] = [fetcher[a] EXCEPT !.pc = pc, !.base = from, !.pos = from]
  BY <1>1, <1>2
<1>4. /\ fetcher'[a].pc = pc /\ fetcher'[a].base = from /\ fetcher'[a].pos = from
      /\ fetcher'[a].recent = fetcher[a].recent /\ fetcher'[a].num = fetcher[a].num
  BY <1>1, <1>3 DEF FetcherType
<1>5. fetcher[a].pc = "connector" /\ UNCHANGED <<rowVars, errors, queue, indexed, worker, monitor>>
  BY DEF LoadCheckpoint, FetcherAt
<1> QED BY <1>2, <1>4, <1>5

LEMMA QuietPlaced ==
    ASSUME TypeInv, NEW a \in Attempts, Quiet(a)
    PROVE  SamePlaced /\ UNCHANGED store
<1>1. UNCHANGED <<checkpoint, store>>
  BY DEF Quiet
<1>2. \A b \in Attempts : fetcher'[b].pc \in {"assign", "initial"} <=> fetcher[b].pc \in {"assign", "initial"}
  BY QuietFetcher DEF Moves, Extracting
<1> QED BY <1>1, <1>2 DEF Placed, SamePlaced

LEMMA WorksPlaced ==
    ASSUME TypeInv, NEW w \in Workers, Works(w)
    PROVE  SamePlaced /\ Removes
<1>1. UNCHANGED <<checkpoint, fetcher>>
  BY DEF Works, LoadBatch, IndexBatch, FailBatch, CompleteBatch, FinishBatch, DiesEarly, CrashWorker,
         rowVars
<1>2. CASE FinishBatch(w)
  BY <1>1, <1>2 DEF FinishBatch, Removes, SamePlaced, Placed, TypeInv, SharedOK
<1>3. CASE ~FinishBatch(w)
  BY <1>1, <1>3 DEF Works, LoadBatch, IndexBatch, FailBatch, CompleteBatch, DiesEarly, CrashWorker,
                    Removes, SamePlaced, Placed
<1> QED BY <1>2, <1>3

\* What is being fetched is overtaken by nobody.
LEMMA Foremost ==
    ASSUME TypeInv, CountInv, RowInv, Stages, NEW a \in Attempts, Live(a)
    PROVE  status[a] # "absent" /\ Newest(a) /\ \A b \in Attempts : Placed(b) => b <= a
<1>1. status[a] # "absent" /\ Newest(a)
  BY AtWork
<1>2. \A b \in Attempts : a < b => ~Placed(b)
  BY <1>1, Blank DEF Newest
<1> QED BY <1>1, <1>2 DEF Attempts

LEMMA FetchesPlaced ==
    ASSUME TypeInv, CountInv, RowInv, Stages, NEW a \in Attempts, Fetches(a)
    PROVE  \/ SamePlaced /\ Removes /\ ~StoreBatch(a) /\ ~ReissueOldBatches(a)
           \/ StoreBatch(a) /\ SamePlaced /\ Placed(a)
           \/ LoadCheckpoint(a) /\ store' = EmptyStore
           \/ ReissueOldBatches(a)
<1>1. /\ fetcher \in [Attempts -> FetcherType] /\ fetcher[a] \in FetcherType
      /\ checkpoint \in [Attempts -> {None, 0} \union PassEnds]
  BY DEF TypeInv, FetchersOK, RowsOK
<1>2. StageOf(a, fetcher[a])
  BY DEF Stages
<1>3. fetcher[a].pos # None /\ fetcher[a].base # None
  BY <1>1 DEF FetcherType, Items, None
<1> USE <1>1 DEF Placed, SamePlaced, Removes, FetcherAt
<1>4. CASE SetPollWindow(a)
  BY <1>4 DEF SetPollWindow, StoreBatch, ReissueOldBatches, SetFetcher
<1>5. CASE LoadCheckpoint(a)
  <2>1. ~StoreBatch(a) /\ ~ReissueOldBatches(a)
    BY <1>5, Loading DEF StoreBatch, ReissueOldBatches
  <2>2. UNCHANGED checkpoint /\ fetcher[a].pc = "connector"
    BY <1>5, Loading DEF rowVars
  <2>3. (UNCHANGED store /\ fetcher'[a].pc = "reissue") \/ store' = EmptyStore
    BY <1>5, Loading
  <2>4. \A b \in Attempts \ {a} : fetcher'[b] = fetcher[b]
    BY FetchesOwn
  <2> QED BY <1>5, <2>1, <2>2, <2>3, <2>4
<1>6. CASE CarryOverCompleted(a)
  BY <1>6 DEF CarryOverCompleted, StoreBatch, ReissueOldBatches, GoTo, SetFetcher
<1>7. CASE SaveCheckpoint(a)
  <2>1. Placed(a) /\ checkpoint'[a] # None
    BY <1>2, <1>3, <1>7 DEF SaveCheckpoint, StageOf, Extracting
  <2>2. \A b \in Attempts \ {a} : checkpoint'[b] = checkpoint[b] /\ fetcher'[b] = fetcher[b]
    BY <1>7 DEF SaveCheckpoint, SetFetcher
  <2> QED BY <1>7, <2>1, <2>2 DEF SaveCheckpoint, StoreBatch, ReissueOldBatches
<1>8. CASE StoreBatch(a)
  <2>1. checkpoint[a] # None
    BY <1>2, <1>3, <1>8 DEF StoreBatch, StageOf, Extracting
  <2> QED BY <1>8, <2>1 DEF StoreBatch, GoTo, SetFetcher, rowVars
<1>9. CASE SendTask(a)
  BY <1>9 DEF SendTask, StoreBatch, ReissueOldBatches, SetFetcher, rowVars
<1>10. CASE SetTotalBatches(a)
  BY <1>10 DEF SetTotalBatches, StoreBatch, ReissueOldBatches, Exit, NewFetcher, SetFetcher
<1> QED BY <1>4, <1>5, <1>6, <1>7, <1>8, <1>9, <1>10 DEF Fetches
\* All files are renamed, or replaced by one with the same number.
LEMMA Reissuing ==
    ASSUME TypeInv, NEW a \in Attempts, ReissueOldBatches(a)
    PROVE  /\ fetcher[a].pc = "reissue" /\ fetcher'[a].pc = "assign"
           /\ fetcher'[a].recent = fetcher[a].recent /\ fetcher'[a].pos = fetcher[a].pos
           /\ fetcher'[a].num = Cardinality(Files) + fetcher[a].recent
           /\ UNCHANGED <<rowVars, errors, indexed, worker, monitor>>
           /\ \A b \in Attempts \ {a} : \A n \in BatchNums : store'[b][n] = NoItem
           /\ \A n \in BatchNums :
                queue'[a][n] = queue[a][n] + Cardinality({f \in Files : f[2] = n})
           /\ \A n \in BatchNums :
                \/ \E f \in Files : f[2] = n /\ store'[a][n] = store[f[1]][n] /\ store'[a][n] # NoItem
                \/ store'[a][n] = NoItem /\ \A f \in Files : f[2] # n
<1>1. fetcher \in [Attempts -> FetcherType] /\ fetcher[a] \in FetcherType
  BY DEF TypeInv, FetchersOK
<1>2. fetcher' = [fetcher EXCEPT ![a] = [fetcher[a] EXCEPT !.pc = "assign", !.num = NextBatchNum(a)]]
  BY DEF ReissueOldBatches, SetFetcher
<1>3. fetcher'[a] = [fetcher[a] EXCEPT !.pc = "assign", !.num = NextBatchNum(a)]
  BY <1>1, <1>2
<1>4. /\ fetcher'[a].pc = "assign" /\ fetcher'[a].recent = fetcher[a].recent
      /\ fetcher'[a].pos = fetcher[a].pos
      /\ fetcher'[a].num = Cardinality(Files) + fetcher[a].recent
  BY <1>1, <1>3 DEF FetcherType, NextBatchNum
<1>5. fetcher[a].pc = "reissue" /\ UNCHANGED <<rowVars, errors, indexed, worker, monitor>>
  BY DEF ReissueOldBatches, FetcherAt
<1>6. PICK pick \in [{f[2] : f \in Files} -> Attempts] :
        /\ \A n \in DOMAIN pick : <<pick[n], n>> \in Files
        /\ store' = [EmptyStore EXCEPT ![a] =
                [n \in BatchNums |-> IF n \in DOMAIN pick THEN store[pick[n]][n] ELSE NoItem]]
  BY DEF ReissueOldBatches
<1>7. DOMAIN pick = {f[2] : f \in Files}
  OBVIOUS
<1>8. \A b \in Attempts \ {a} : \A n \in BatchNums : store'[b][n] = NoItem
  BY <1>6 DEF EmptyStore
<1>9. \A n \in BatchNums : store'[a][n] = IF n \in DOMAIN pick THEN store[pick[n]][n] ELSE NoItem
  BY <1>6 DEF EmptyStore
<1>10. ASSUME NEW n \in BatchNums
       PROVE  \/ \E f \in Files : f[2] = n /\ store'[a][n] = store[f[1]][n] /\ store'[a][n] # NoItem
              \/ store'[a][n] = NoItem /\ \A f \in Files : f[2] # n
  <2>1. CASE n \in DOMAIN pick
    <3>1. <<pick[n], n>> \in Files /\ store'[a][n] = store[pick[n]][n]
      BY <1>6, <1>9, <2>1
    <3>2. store[pick[n]][n] # NoItem
      BY <3>1 DEF Files
    <3> QED BY <3>1, <3>2
  <2>2. CASE n \notin DOMAIN pick
    BY <1>7, <1>9, <2>2
  <2> QED BY <2>1, <2>2
<1>11. \A n \in BatchNums : queue'[a][n] = queue[a][n] + Cardinality({f \in Files : f[2] = n})
  BY DEF ReissueOldBatches, TypeInv, SharedOK
<1> QED BY <1>4, <1>5, <1>8, <1>10, <1>11

LEMMA LastOwnsStep ==
    ASSUME Undisturbed, TypeInv, CountInv, RowInv, Stages, LastOwns, [Next]_vars
    PROVE  LastOwns'
<1>1. ASSUME NEW s \in Settings, CreateAttempt(s) PROVE LastOwns'
  <2>1. PICK a \in Attempts : status[a] = "absent" /\ GoTo(a, "queued")
    BY <1>1 DEF CreateAttempt
  <2>2. UNCHANGED <<checkpoint, store>>
    BY <1>1 DEF CreateAttempt
  <2>3. /\ \A b \in Attempts \ {a} : fetcher'[b] = fetcher[b]
        /\ fetcher'[a].pc = "queued" /\ fetcher[a].pc = "none"
    BY <2>1, Blank DEF GoTo, SetFetcher, TypeInv, FetchersOK, FetcherType
  <2> QED BY <2>2, <2>3, OwnersKept DEF SamePlaced, Placed, Removes
<1>2. ASSUME NEW a \in Attempts, Fetches(a) PROVE LastOwns'
  <2>1. Live(a)
    BY <1>2, FetchesLive
  <2>2. \A b \in Attempts : Placed(b) => b <= a
    BY <2>1, Foremost
  <2>3. CASE SamePlaced /\ Removes
    BY <2>3, OwnersKept
  <2>4. CASE StoreBatch(a) /\ SamePlaced /\ Placed(a)
    <3>1. \A b \in Attempts \ {a} : store'[b] = store[b]
      BY <2>4 DEF StoreBatch, TypeInv, SharedOK
    <3>2. ~Overtaken(a)
      BY <2>2 DEF Overtaken, Attempts
    <3>3. \A b \in Attempts : Overtaken(b)' <=> Overtaken(b)
      BY <2>4 DEF SamePlaced, Overtaken
    <3> QED BY <2>4, <3>1, <3>2, <3>3 DEF SamePlaced, LastOwns
  <2>5. CASE store' = EmptyStore
    BY <2>5 DEF EmptyStore, LastOwns
  <2>6. CASE ReissueOldBatches(a)
    <3>1. \A b \in Attempts, n \in BatchNums : store'[b][n] # NoItem => b = a
      BY <2>6, Reissuing
    <3>2. Placed(a)'
      BY <2>6, Reissuing DEF Placed
    <3>3. \A b \in Attempts \ {a} : Placed(b)' => Placed(b)
      BY <1>2, FetchesOwn DEF Placed
    <3>4. ~Overtaken(a)'
      BY <2>2, <3>3 DEF Overtaken, Attempts
    <3> QED BY <3>1, <3>2, <3>4 DEF LastOwns
  <2> QED BY <1>2, <2>3, <2>4, <2>5, <2>6, FetchesPlaced
<1>3. CASE CleanUpBatches \/ UNCHANGED vars
  <2>1. SamePlaced /\ Removes
    BY <1>3 DEF CleanUpBatches, vars, rowVars, SamePlaced, Placed, Removes, EmptyStore
  <2> QED BY <2>1, OwnersKept
<1>4. ASSUME NEW a \in Attempts, Quiet(a) PROVE LastOwns'
  BY <1>4, QuietPlaced, OwnersKept DEF Removes
<1> QED BY <1>1, <1>2, <1>3, <1>4, Steps, WorksPlaced, OwnersKept
-----------------------------------------------------------------------------
(***************************************************************************)
(* Batch numbers                                                           *)
(***************************************************************************)

\* Only one attempt is fetched at a time, and none once one is complete.
LEMMA FetchedAlone ==
    ASSUME TypeInv, CountInv, RowInv, Stages, NEW a \in Attempts, Live(a), NEW b \in Attempts \ {a}
    PROVE  ~Live(b) /\ fetcher[b].pc \in {"none", "exited"}
BY Foremost DEF Newest, Live, Attempts

LEMMA CleanUpAlone ==
    ASSUME TypeInv, CountInv, RowInv, Stages, CleanUpBatches, NEW a \in Attempts
    PROVE  ~Live(a)
<1>1. monitor.att \in Attempts /\ IndexingCompleted(monitor.att) /\ monitor.pc # "idle"
  BY DEF CleanUpBatches, TypeInv, MonitorOK, CountInv, SnapshotStands
<1>2. ~Live(monitor.att)
  BY <1>1 DEF IndexingCompleted, CountInv, TotalSetLast, Live
<1>3. status[monitor.att] # "absent" /\ Newest(monitor.att)
  BY <1>1, AtWork
<1>4. Live(a) => a = monitor.att
  <2>1. Live(a) => status[a] # "absent" /\ Newest(a)
    BY AtWork
  <2> QED BY <1>1, <1>3, <2>1 DEF Newest, Attempts
<1> QED BY <1>2, <1>4

LEMMA NumbersFetches ==
    ASSUME TypeInv, CountInv, RowInv, Stages, Numbers, Resumes, NEW a \in Attempts, Fetches(a)
    PROVE  NumbersOf(a, fetcher[a])'
<1>1. /\ fetcher \in [Attempts -> FetcherType] /\ fetcher[a] \in FetcherType
      /\ fetcher[a].num \in Nat
  BY DEF TypeInv, FetchersOK, FetcherType
<1>2. store \in [Attempts -> [BatchNums -> Items \union {NoItem}]]
  BY DEF TypeInv, SharedOK
<1>3. queue \in [Attempts -> [BatchNums -> Nat]]
  BY DEF TypeInv, SharedOK
<1>4. UNCHANGED worker
  BY FetchesOwn
<1>5. NumbersOf(a, fetcher[a]) /\ StageOf(a, fetcher[a])
  BY DEF Numbers, Stages
<1> USE DEF Extracting
<1>6. ASSUME fetcher[a].pc \in {"assign", "initial", "loop", "save"},
             fetcher'[a].pc \in {"initial", "loop"} , fetcher'[a].num = fetcher[a].num,
             UNCHANGED <<store, queue>>
      PROVE  NumbersOf(a, fetcher[a])'
  BY <1>4, <1>5, <1>6 DEF NumbersOf, OnFile, BusyOn
<1>7. ASSUME fetcher'[a].pc \in {"connector", "reissue", "exited"} PROVE NumbersOf(a, fetcher[a])'
  BY <1>7 DEF NumbersOf
<1>8. CASE SetPollWindow(a)
  <2>1. fetcher'[a].pc = "connector"
    BY <1>1, <1>8 DEF SetPollWindow, SetFetcher, FetcherType
  <2> QED BY <1>7, <2>1
<1>9. CASE LoadCheckpoint(a)
  <2>1. \/ fetcher'[a].pc = "reissue"
        \/ fetcher'[a].pc = "initial" /\ store' = EmptyStore
    BY <1>9, Loading
  <2>2. CASE fetcher'[a].pc = "initial" /\ store' = EmptyStore
    <3>1. UNCHANGED queue /\ fetcher[a].pc = "connector"
      BY <1>9, Loading
    <3>2. OnFile(a)' = {}
      BY <2>2 DEF OnFile, EmptyStore
    <3>3. \A n \in BatchNums : queue'[a][n] = 0
      BY <1>5, <3>1 DEF StageOf, Unplaced
    <3>4. \A w \in Workers : ~BusyOn(w, a)'
      BY <1>4, <1>5, <3>1 DEF StageOf, Unplaced, BusyOn
    <3> QED BY <2>2, <3>2, <3>3, <3>4 DEF NumbersOf
  <2> QED BY <1>7, <2>1, <2>2
<1>10. CASE ReissueOldBatches(a)
  <2>1. fetcher[a].pc = "reissue" /\ fetcher'[a].pc = "assign" /\ fetcher[a].recent \in Nat
    BY <1>1, <1>10, Reissuing DEF FetcherType
  <2>2. fetcher'[a].num = Cardinality(Files) + fetcher[a].recent
    BY <1>10, Reissuing
  <2>3. \A f \in Files : f[2] < fetcher[a].recent + Cardinality(Files)
    BY <2>1 DEF Resumes, Room, FetcherAt
  <2>4. Cardinality(Files) \in Nat
    BY CountsAreNat
  <2>5. \A f \in Files : f[2] < fetcher'[a].num
    BY <2>1, <2>2, <2>3, <2>4
  <2>6. \A n \in OnFile(a)' : \E f \in Files : f[2] = n
    <3>1. \A n \in BatchNums :
            \/ \E f \in Files : f[2] = n /\ store'[a][n] = store[f[1]][n] /\ store'[a][n] # NoItem
            \/ store'[a][n] = NoItem /\ \A f \in Files : f[2] # n
      BY <1>10, Reissuing
    <3> QED BY <3>1 DEF OnFile
  <2>7. ASSUME NEW n \in BatchNums, queue'[a][n] # 0 PROVE \E f \in Files : f[2] = n
    <3>1. queue[a][n] = 0
      BY <1>5, <2>1 DEF StageOf, Unplaced
    <3>2. queue'[a][n] = queue[a][n] + Cardinality({f \in Files : f[2] = n})
      BY <1>10, Reissuing
    <3>3. Cardinality({}) = 0
      BY FS_EmptySet
    <3>4. {f \in Files : f[2] = n} # {}
      BY <2>7, <3>1, <3>2, <3>3
    <3> QED BY <3>4
  <2>8. \A w \in Workers : ~BusyOn(w, a)'
    BY <1>4, <1>5, <2>1 DEF StageOf, Unplaced, BusyOn
  <2> QED BY <2>1, <2>5, <2>6, <2>7, <2>8 DEF NumbersOf
<1>11. CASE CarryOverCompleted(a)
  <2>1. /\ fetcher[a].pc = "assign" /\ fetcher'[a].pc = "initial"
        /\ fetcher'[a].num = fetcher[a].num /\ UNCHANGED <<store, queue>>
    BY <1>1, <1>11 DEF CarryOverCompleted, FetcherAt, GoTo, SetFetcher, FetcherType
  <2> QED BY <1>6, <2>1
<1>12. CASE SaveCheckpoint(a)
  <2>1. /\ fetcher[a].pc \in {"initial", "save"} /\ fetcher'[a].pc = "loop"
        /\ fetcher'[a].num = fetcher[a].num /\ UNCHANGED <<store, queue>>
    BY <1>1, <1>12 DEF SaveCheckpoint, FetcherAt, SetFetcher, FetcherType
  <2> QED BY <1>6, <2>1
<1>13. CASE StoreBatch(a)
  <2>1. /\ fetcher[a].pc = "store" /\ fetcher'[a].pc = "send" /\ fetcher'[a].num = fetcher[a].num
        /\ fetcher'[a].pos = fetcher[a].pos /\ fetcher[a].num \in BatchNums /\ UNCHANGED queue
    BY <1>1, <1>13 DEF StoreBatch, FetcherAt, GoTo, SetFetcher, FetcherType
  <2>2. /\ store'[a][fetcher[a].num] = fetcher[a].pos + 1
        /\ \A n \in BatchNums \ {fetcher[a].num} : store'[a][n] = store[a][n]
    BY <1>2, <1>13, <2>1 DEF StoreBatch
  <2>3. \A n \in OnFile(a)' : n \in OnFile(a) \/ n = fetcher[a].num
    BY <2>2 DEF OnFile
  <2> QED BY <1>4, <1>5, <2>1, <2>2, <2>3 DEF NumbersOf, BusyOn
<1>14. CASE SendTask(a)
  <2>1. /\ fetcher[a].pc = "send" /\ fetcher'[a].pc = "loop"
        /\ fetcher'[a].num = fetcher[a].num + 1 /\ UNCHANGED store
    BY <1>1, <1>14 DEF SendTask, FetcherAt, SetFetcher, FetcherType
  <2>2. \A n \in BatchNums \ {fetcher[a].num} : queue'[a][n] = queue[a][n]
    BY <1>3, <1>14 DEF SendTask
  <2>3. \A n \in OnFile(a) : n < fetcher[a].num + 1
    BY <1>1, <1>5, <2>1 DEF NumbersOf, OnFile, BatchNums
  <2>4. \A n \in BatchNums : queue'[a][n] # 0 => n < fetcher[a].num + 1
    BY <1>1, <1>5, <2>1, <2>2 DEF NumbersOf, BatchNums
  <2>5. \A w \in Workers : BusyOn(w, a) => worker[w].num < fetcher[a].num + 1
    <3>1. \A w \in Workers : worker[w].num \in Nat
      BY DEF TypeInv, WorkersOK, WorkerType, BatchNums
    <3> QED BY <1>1, <1>5, <2>1, <3>1 DEF NumbersOf
  <2>6. OnFile(a)' = OnFile(a)
    BY <2>1 DEF OnFile
  <2> QED BY <1>4, <2>1, <2>3, <2>4, <2>5, <2>6 DEF NumbersOf, BusyOn
<1>15. CASE SetTotalBatches(a)
  <2>1. fetcher'[a].pc = "exited"
    BY <1>1, <1>15 DEF SetTotalBatches, Exit, NewFetcher, SetFetcher
  <2> QED BY <1>7, <2>1
<1> QED BY <1>8, <1>9, <1>10, <1>11, <1>12, <1>13, <1>14, <1>15 DEF Fetches
\* How a worker changes what is on file and counted.
LEMMA WorksKept ==
    ASSUME TypeInv, NEW w \in Workers, Works(w), NEW a \in Attempts
    PROVE  /\ OnFile(a)' \subseteq OnFile(a)
           /\ \/ Kept(a)' = Kept(a) /\ completed'[a] \in {completed[a], completed[a] + 1}
              \/ \E k \in BatchNums : Kept(a)' = Kept(a) \ {k} /\ completed'[a] = completed[a] + 1
<1>1. /\ completed \in [Attempts -> Nat]
      /\ store \in [Attempts -> [BatchNums -> Items \union {NoItem}]]
      /\ worker \in [Workers -> WorkerType]
  BY DEF TypeInv, RowsOK, SharedOK, WorkersOK
<1>2. ASSUME UNCHANGED store, \A v \in Workers \ {w} : worker'[v] = worker[v],
             worker[w].pc # "counted", worker'[w].pc # "counted"
      PROVE  OnFile(a)' = OnFile(a) /\ Kept(a)' = Kept(a)
  <2>1. OnFile(a)' = OnFile(a)
    BY <1>2 DEF OnFile
  <2>2. ASSUME NEW n \in BatchNums PROVE InCount(a, n)' <=> InCount(a, n)
    BY <1>2 DEF InCount, WAtt
  <2>3. OnFile(a) \subseteq BatchNums
    BY DEF OnFile
  <2> QED BY <2>1, <2>2, <2>3 DEF Kept
<1>3. ASSUME NEW b \in Attempts, NEW i, TaskFails(b, i)
      PROVE  completed'[a] \in {completed[a], completed[a] + 1}
  BY <1>1, <1>3 DEF TaskFails, CountBatch
<1>4. ASSUME NEW b \in Attempts, NEW n \in BatchNums, LoadBatch(w, b, n)
      PROVE  OnFile(a)' = OnFile(a) /\ Kept(a)' = Kept(a) /\ completed'[a] \in {completed[a], completed[a] + 1}
  <2>1. completed'[a] \in {completed[a], completed[a] + 1}
    <3>1. CASE UNCHANGED completed
      BY <3>1
    <3>2. CASE ~UNCHANGED completed
      BY <1>3, <1>4, <3>2 DEF LoadBatch
    <3> QED BY <3>1, <3>2
  <2>2. UNCHANGED store /\ worker[w].pc = "idle"
    BY <1>4 DEF LoadBatch
  <2>3. (\A v \in Workers \ {w} : worker'[v] = worker[v]) /\ worker'[w].pc # "counted"
    <3>1. CASE UNCHANGED worker
      BY <2>2, <3>1
    <3>2. CASE ~UNCHANGED worker
      <4>1. /\ worker'[w] = [pc |-> "loaded", att |-> b, num |-> n, item |-> store[b][n],
                             failed |-> FALSE]
            /\ \A v \in Workers \ {w} : worker'[v] = worker[v]
        BY <1>4, <3>2, Delivery
      <4> QED BY <4>1
    <3> QED BY <3>1, <3>2
  <2> QED BY <1>2, <2>1, <2>2, <2>3
<1>5. CASE IndexBatch(w) \/ FailBatch(w) \/ DiesEarly(w)
  <2>1. UNCHANGED store /\ worker[w].pc # "counted" /\ WAtt(w) \in Attempts
    BY <1>5, SameBatch DEF IndexBatch, FailBatch, DiesEarly, CrashWorker
  <2>2. \A v \in Workers \ {w} : worker'[v] = worker[v]
    BY <1>5, SameBatch
  <2>3. worker'[w].pc # "counted"
    <3>1. CASE IndexBatch(w)
      <4>1. ~CompleteBatch(w)
        BY <3>1 DEF IndexBatch, CompleteBatch
      <4> QED BY <3>1, <4>1, SameBatch DEF IdleWorker
    <3>2. CASE FailBatch(w) \/ DiesEarly(w)
      BY <1>1, <3>2 DEF FailBatch, DiesEarly, CrashWorker, SetWorker, IdleWorker
    <3> QED BY <1>5, <3>1, <3>2
  <2>4. completed'[a] \in {completed[a], completed[a] + 1}
    BY <1>3, <1>5, <2>1 DEF IndexBatch, FailBatch, DiesEarly, CrashWorker, rowVars
  <2> QED BY <1>2, <2>1, <2>2, <2>3, <2>4
<1>6. CASE CompleteBatch(w)
  <2>1. UNCHANGED store /\ WAtt(w) \in Attempts /\ worker[w].num \in BatchNums
    BY <1>6, SameBatch DEF CompleteBatch
  <2>2. \A v \in Workers \ {w} : worker'[v] = worker[v]
    BY <1>6, SameBatch
  <2>3. /\ worker[w].pc = "indexed" /\ worker'[w].pc = "counted" /\ worker'[w].att = WAtt(w)
        /\ worker'[w].num = worker[w].num
    BY <1>1, <1>6 DEF CompleteBatch, SetWorker, WorkerType, WAtt
  <2>4. completed'[a] = IF a = WAtt(w) THEN completed[a] + 1 ELSE completed[a]
    BY <1>1, <1>6 DEF CompleteBatch, CountBatch
  <2>5. OnFile(a)' = OnFile(a)
    BY <2>1 DEF OnFile
  <2>6. \A n \in BatchNums : InCount(a, n)' <=> InCount(a, n) \/ (a = WAtt(w) /\ n = worker[w].num)
    BY <2>2, <2>3 DEF InCount, WAtt
  <2>7. OnFile(a) \subseteq BatchNums
    BY DEF OnFile
  <2>8. Kept(a)' = IF a = WAtt(w) THEN Kept(a) \ {worker[w].num} ELSE Kept(a)
    BY <2>5, <2>6, <2>7 DEF Kept
  <2> QED BY <2>1, <2>4, <2>5, <2>8
<1>7. CASE FinishBatch(w)
  <2>1. WAtt(w) \in Attempts /\ worker[w].num \in BatchNums
    BY <1>7, SameBatch
  <2>2. (\A v \in Workers \ {w} : worker'[v] = worker[v]) /\ worker[w].pc = "counted" /\ worker'[w].pc = "idle"
    BY <1>1, <1>7 DEF FinishBatch, SetWorker, IdleWorker
  <2>3. \A n \in BatchNums : store'[a][n] = IF a = WAtt(w) /\ n = worker[w].num THEN NoItem ELSE store[a][n]
    BY <1>1, <1>7, <2>1 DEF FinishBatch
  <2>4. completed'[a] = completed[a]
    BY <1>7 DEF FinishBatch, rowVars
  <2>5. ASSUME NEW n \in BatchNums, ~(a = WAtt(w) /\ n = worker[w].num)
        PROVE  /\ InCount(a, n)' <=> InCount(a, n)
               /\ n \in OnFile(a)' <=> n \in OnFile(a)
    BY <2>2, <2>3, <2>5 DEF InCount, OnFile, WAtt
  <2>6. ASSUME NEW n \in BatchNums, a = WAtt(w), n = worker[w].num
        PROVE  InCount(a, n) /\ n \notin OnFile(a)'
    BY <2>2, <2>3, <2>6 DEF InCount, OnFile
  <2>7. OnFile(a)' \subseteq BatchNums /\ OnFile(a) \subseteq BatchNums
    BY DEF OnFile
  <2>8. OnFile(a)' \subseteq OnFile(a)
    BY <2>5, <2>6, <2>7
  <2>9. \A n \in BatchNums : n \in Kept(a)' <=> n \in Kept(a)
    BY <2>5, <2>6 DEF Kept
  <2>10. Kept(a)' = Kept(a)
    BY <2>7, <2>9 DEF Kept
  <2> QED BY <2>4, <2>8, <2>10
<1> QED BY <1>4, <1>5, <1>6, <1>7 DEF Works
LEMMA NumbersWorks ==
    ASSUME TypeInv, Numbers, NEW w \in Workers, Works(w), NEW a \in Attempts
    PROVE  NumbersOf(a, fetcher[a])'
<1>1. UNCHANGED fetcher
  BY DEF Works, LoadBatch, IndexBatch, FailBatch, CompleteBatch, FinishBatch, DiesEarly, CrashWorker
<1>2. /\ queue \in [Attempts -> [BatchNums -> Nat]]
      /\ store \in [Attempts -> [BatchNums -> Items \union {NoItem}]]
      /\ worker \in [Workers -> WorkerType]
      /\ fetcher[a].num \in Nat
  BY DEF TypeInv, SharedOK, WorkersOK, FetchersOK, FetcherType
<1>3. /\ \A n \in OnFile(a)' : n \in OnFile(a)
      /\ NumbersOf(a, fetcher[a])
  BY WorksKept DEF Numbers
<1> DEFINE num == fetcher[a].num
<1>4. SUFFICES ASSUME fetcher[a].pc \in {"assign", "initial"} \union Extracting
               PROVE  /\ \A n \in BatchNums : queue'[a][n] # 0 => n < num
                      /\ \A v \in Workers : BusyOn(v, a)' => worker'[v].num < num
                      /\ fetcher[a].pc = "send" => store'[a][num] = store[a][num]
  BY <1>1, <1>3 DEF NumbersOf, Extracting
<1>5. /\ \A n \in BatchNums : queue[a][n] # 0 => n < num
      /\ \A v \in Workers : BusyOn(v, a) => worker[v].num < num
  BY <1>3, <1>4 DEF NumbersOf
<1> HIDE DEF num
<1>6. ASSUME NEW b \in Attempts, NEW n \in BatchNums, LoadBatch(w, b, n)
      PROVE  /\ \A m \in BatchNums : queue'[a][m] # 0 => m < num
             /\ \A v \in Workers : BusyOn(v, a)' => worker'[v].num < num
             /\ UNCHANGED store
  <2>1. UNCHANGED store /\ queue[b][n] > 0
    BY <1>6, Delivery
  <2>2. /\ queue'[b][n] = queue[b][n] - 1
        /\ \A m \in BatchNums \ {n} : queue'[b][m] = queue[b][m]
        /\ \A c \in Attempts \ {b} : queue'[c] = queue[c]
    BY <1>6, Delivery
  <2>3. \A m \in BatchNums : queue'[a][m] # 0 => queue[a][m] # 0
    BY <1>2, <2>1, <2>2
  <2>4. \A v \in Workers : BusyOn(v, a)' => worker'[v].num < num
    <3>1. CASE UNCHANGED worker
      BY <1>5, <3>1 DEF BusyOn
    <3>2. CASE ~UNCHANGED worker
      <4>1. /\ worker'[w] = [pc |-> "loaded", att |-> b, num |-> n, item |-> store[b][n],
                             failed |-> FALSE]
            /\ \A v \in Workers \ {w} : worker'[v] = worker[v]
        BY <1>6, <3>2, Delivery
      <4>2. worker'[w].att = b /\ worker'[w].num = n
        BY <4>1
      <4>3. b = a => n < num
        BY <1>2, <1>5, <2>1
      <4> QED BY <1>5, <4>1, <4>2, <4>3 DEF BusyOn
    <3> QED BY <3>1, <3>2
  <2> QED BY <1>5, <2>1, <2>3, <2>4
<1>7. ASSUME IndexBatch(w) \/ FailBatch(w) \/ CompleteBatch(w) \/ FinishBatch(w) \/ DiesEarly(w)
      PROVE  /\ \A m \in BatchNums : queue'[a][m] # 0 => m < num
             /\ \A v \in Workers : BusyOn(v, a)' => worker'[v].num < num
             /\ fetcher[a].pc = "send" => store'[a][num] = store[a][num]
  <2>1. /\ worker[w].pc # "idle" /\ WAtt(w) \in Attempts /\ worker[w].num \in BatchNums
        /\ \A v \in Workers \ {w} : worker'[v] = worker[v]
    BY <1>7, SameBatch
  <2>2. a = WAtt(w) => worker[w].num < num
    BY <1>5, <2>1 DEF BusyOn, WAtt
  <2>3. worker'[w].pc # "idle" => worker'[w].att = WAtt(w) /\ worker'[w].num = worker[w].num
    BY <1>7, SameBatch DEF IdleWorker
  <2>4. \A v \in Workers : BusyOn(v, a)' => worker'[v].num < num
    BY <1>5, <2>1, <2>2, <2>3 DEF BusyOn
  <2>5. \A m \in BatchNums : queue'[a][m] = queue[a][m] \/ (a = WAtt(w) /\ m = worker[w].num)
    <3>1. CASE DiesEarly(w)
      <4>1. queue' = [queue EXCEPT ![WAtt(w)][worker[w].num] = @ + 1]
        BY <3>1 DEF DiesEarly, CrashWorker
      <4> QED BY <1>2, <2>1, <4>1
    <3>2. CASE ~DiesEarly(w)
      BY <1>7, <3>2 DEF IndexBatch, FailBatch, CompleteBatch, FinishBatch
    <3> QED BY <3>1, <3>2
  <2>6. UNCHANGED store \/ FinishBatch(w)
    BY <1>7 DEF IndexBatch, FailBatch, CompleteBatch, DiesEarly, CrashWorker
  <2>7. fetcher[a].pc = "send" => store'[a][num] = store[a][num]
    <3>1. CASE FinishBatch(w)
      <4>1. fetcher[a].pc = "send" => num \in BatchNums
        BY DEF TypeInv, FetchersOK, FetcherSound, num
      <4>2. a = WAtt(w) => worker[w].num # num
        BY <1>2, <2>1, <2>2 DEF num, BatchNums
      <4> QED BY <1>2, <2>1, <3>1, <4>1, <4>2 DEF FinishBatch
    <3> QED BY <2>6, <3>1
  <2> QED BY <1>5, <2>2, <2>4, <2>5, <2>7
<1> QED BY <1>6, <1>7 DEF Works

\* An attempt that is created starts to be fetched; nothing else of it is there.
LEMMA Creating ==
    ASSUME TypeInv, CountInv, Stages, NEW s \in Settings, CreateAttempt(s)
    PROVE  /\ UNCHANGED <<window, checkpoint, total, completed, errors, store, queue, indexed,
                          worker, monitor>>
           /\ monitor.pc = "idle"
           /\ \E a \in Attempts : /\ status[a] = "absent" /\ fetcher[a].pc = "none"
                                  /\ fetcher'[a].pc = "queued"
                                  /\ \A b \in Attempts \ {a} : fetcher'[b] = fetcher[b]
<1>1. PICK a \in Attempts : status[a] = "absent" /\ GoTo(a, "queued")
  BY DEF CreateAttempt
<1>2. /\ \A b \in Attempts \ {a} : fetcher'[b] = fetcher[b]
      /\ fetcher'[a].pc = "queued" /\ fetcher[a].pc = "none"
  BY <1>1, Blank DEF GoTo, SetFetcher, TypeInv, FetchersOK, FetcherType
<1> QED BY <1>1, <1>2 DEF CreateAttempt

LEMMA NumbersStep ==
    ASSUME Undisturbed, TypeInv, CountInv, RowInv, Stages, Numbers, Resumes, [Next]_vars
    PROVE  Numbers'
<1> USE DEF Numbers
<1>1. ASSUME NEW s \in Settings, CreateAttempt(s) PROVE Numbers'
  BY <1>1, Creating DEF NumbersOf, OnFile, BusyOn, Extracting
<1>2. ASSUME NEW a \in Attempts, Quiet(a), NEW b \in Attempts PROVE NumbersOf(b, fetcher[b])'
  <2>1. UNCHANGED <<store, queue, worker>>
    BY <1>2 DEF Quiet
  <2> QED BY <1>2, <2>1, QuietFetcher DEF NumbersOf, OnFile, BusyOn, Moves, Extracting
<1>3. ASSUME NEW a \in Attempts, Fetches(a), NEW b \in Attempts PROVE NumbersOf(b, fetcher[b])'
  <2>1. CASE b = a
    BY <1>3, <2>1, NumbersFetches
  <2>2. CASE b # a
    <3>1. Live(a)
      BY <1>3, FetchesLive
    <3>2. fetcher'[b] = fetcher[b] /\ fetcher[b].pc \in {"none", "exited"}
      BY <1>3, <2>2, <3>1, FetchesOwn, FetchedAlone
    <3> QED BY <3>2 DEF NumbersOf, Extracting
  <2> QED BY <2>1, <2>2
<1>4. CASE CleanUpBatches
  <2>1. UNCHANGED fetcher /\ \A b \in Attempts : fetcher[b].pc \in {"none", "exited"}
    BY <1>4, CleanUpAlone DEF CleanUpBatches, Live
  <2> QED BY <2>1 DEF NumbersOf, Extracting
<1>5. CASE UNCHANGED vars
  BY <1>5 DEF vars, NumbersOf, OnFile, BusyOn, Extracting
<1> QED BY <1>1, <1>2, <1>3, <1>4, <1>5, Steps, NumbersWorks
-----------------------------------------------------------------------------
(***************************************************************************)
(* Counting files                                                          *)
(***************************************************************************)

\* Sets of batch numbers are finite, and their sizes ordered by inclusion.
LEMMA Sizes ==
    ASSUME NEW S, S \subseteq BatchNums
    PROVE  /\ IsFiniteSet(S) /\ Cardinality(S) \in Nat
           /\ \A T \in SUBSET S : Cardinality(T) \in Nat /\ Cardinality(T) <= Cardinality(S)
           /\ \A k \in S : Cardinality(S \ {k}) = Cardinality(S) - 1
           /\ \A k \in BatchNums \ S : Cardinality(S \union {k}) = Cardinality(S) + 1
<1>1. IsFiniteSet(BatchNums)
  BY ConstantsAssumption, FS_Interval DEF BatchNums
<1>2. IsFiniteSet(S) /\ Cardinality(S) \in Nat
  BY <1>1, FS_Subset, FS_CardinalityType
<1>3. ASSUME NEW T \in SUBSET S PROVE Cardinality(T) \in Nat /\ Cardinality(T) <= Cardinality(S)
  BY <1>2, FS_Subset, FS_CardinalityType
<1>4. \A k \in S : Cardinality(S \ {k}) = Cardinality(S) - 1
  BY <1>2, FS_RemoveElement
<1>5. \A k \in BatchNums \ S : Cardinality(S \union {k}) = Cardinality(S) + 1
  BY <1>2, FS_AddElement
<1> QED BY <1>2, <1>3, <1>4, <1>5

\* The files of one owner are as many as their numbers.
LEMMA OneOwner ==
    ASSUME NEW S, S \subseteq BatchNums,
           \A f, g \in Files : f[2] = g[2] => f = g,
           \A n : n \in S <=> \E f \in Files : f[2] = n
    PROVE  Cardinality(S) = Cardinality(Files)
<1>1. IsFiniteSet(S)
  BY Sizes
<1>2. DEFINE number == [f \in Files |-> f[2]]
<1>3. number \in [Files -> S]
  OBVIOUS
<1>4. \A f, g \in Files : number[f] = number[g] => f = g
  OBVIOUS
<1>5. \A n \in S : \E f \in Files : number[f] = n
  OBVIOUS
<1>6. number \in Bijection(Files, S)
  BY <1>3, <1>4, <1>5 DEF Bijection, Injection, Surjection, IsInjective
<1>7. ExistsBijection(Files, S)
  BY <1>6 DEF ExistsBijection
<1>8. IsFiniteSet(Files)
  <2>1. IsFiniteSet(Attempts \X BatchNums)
    <3>1. IsFiniteSet(Attempts) /\ IsFiniteSet(BatchNums)
      BY ConstantsAssumption, FS_Interval DEF Attempts, BatchNums
    <3> QED BY <3>1, FS_Product
  <2> QED BY <2>1, FS_Subset DEF Files
<1> QED BY <1>7, <1>8, FS_Bijection

LEMMA SameOwner ==
    ASSUME LastOwns
    PROVE  \A f, g \in Files : f[1] = g[1] /\ (f[2] = g[2] => f = g)
<1>1. SUFFICES ASSUME NEW f \in Files, NEW g \in Files PROVE f[1] = g[1] /\ (f[2] = g[2] => f = g)
  OBVIOUS
<1>2. /\ f \in Attempts \X BatchNums /\ g \in Attempts \X BatchNums
      /\ store[f[1]][f[2]] # NoItem /\ store[g[1]][g[2]] # NoItem
  BY DEF Files
<1>3. f[1] = g[1]
  BY <1>2 DEF LastOwns, Overtaken, Attempts
<1> QED BY <1>2, <1>3
\* When docfetching ends, no number left on file is above the count.
LEMMA EndsCounted ==
    ASSUME TypeInv, Stages, LastOwns, Numbers, Counted, NEW a \in Attempts,
           fetcher[a].pc \in {"queued", "verified"} \union Extracting
    PROVE  \A n \in OnFile(a) : n < completed[a] + Cardinality(Kept(a))
<1>1. CASE fetcher[a].pc \in {"queued", "verified"}
  <2>1. ~Placed(a)
    BY <1>1 DEF Placed, Stages, StageOf, Unplaced, Early
  <2>2. OnFile(a) = {}
    BY <2>1 DEF LastOwns, OnFile
  <2> QED BY <2>2
<1>2. CASE fetcher[a].pc \in Extracting
  <2> DEFINE num == fetcher[a].num
             low == Cardinality(KeptBelow(a, num))
             all == Cardinality(Kept(a))
  <2>1. num \in Nat /\ completed[a] \in Nat /\ all \in Nat /\ low \in Nat /\ low <= all
    <3>1. Kept(a) \subseteq BatchNums /\ KeptBelow(a, num) \in SUBSET Kept(a)
      BY DEF Kept, OnFile, KeptBelow
    <3> QED BY <3>1, Sizes DEF TypeInv, FetchersOK, FetcherType, RowsOK
  <2>2. num <= completed[a] + low
    BY <1>2 DEF Counted, CountedOf
  <2>3. \A n \in OnFile(a) : n < num \/ (fetcher[a].pc = "send" /\ n = num)
    BY <1>2 DEF Numbers, NumbersOf
  <2>4. ASSUME fetcher[a].pc = "send", num \in OnFile(a) PROVE low + 1 <= all
    <3>1. num \in BatchNums /\ ~InCount(a, num)
      <4>1. \A w \in Workers : BusyOn(w, a) => worker[w].num < num
        BY <1>2 DEF Numbers, NumbersOf
      <4>2. \A w \in Workers : worker[w].num \in Int
        BY DEF TypeInv, WorkersOK, WorkerType, BatchNums
      <4> QED BY <2>1, <2>4, <4>1, <4>2 DEF InCount, BusyOn, OnFile, WAtt
    <3>2. KeptBelow(a, num) \union {num} \in SUBSET Kept(a) /\ num \notin KeptBelow(a, num)
      BY <2>1, <2>4, <3>1 DEF Kept, KeptBelow
    <3>3. Kept(a) \subseteq BatchNums /\ KeptBelow(a, num) \subseteq BatchNums
      BY DEF Kept, OnFile, KeptBelow
    <3>4. Cardinality(KeptBelow(a, num) \union {num}) = low + 1
      BY <3>1, <3>2, <3>3, Sizes
    <3>5. Cardinality(KeptBelow(a, num) \union {num}) <= all
      BY <3>2, <3>3, Sizes
    <3> QED BY <3>4, <3>5
  <2>5. \A n \in OnFile(a) : n \in Nat
    BY DEF OnFile, BatchNums
  <2> HIDE DEF num, low, all
  <2>6. \A n \in OnFile(a) : n < completed[a] + all
    BY <2>1, <2>2, <2>3, <2>4, <2>5
  <2> QED BY <2>6 DEF all
<1> QED BY <1>1, <1>2

LEMMA CountedQuiet ==
    ASSUME TypeInv, Stages, LastOwns, Numbers, Counted, NEW a \in Attempts, Quiet(a)
    PROVE  Counted'
<1>1. UNCHANGED <<store, worker, completed>>
  BY DEF Quiet
<1>2. \A b \in Attempts : /\ OnFile(b)' = OnFile(b) /\ Kept(b)' = Kept(b)
                          /\ \A m \in Nat : KeptBelow(b, m)' = KeptBelow(b, m)
  BY <1>1 DEF OnFile, Kept, KeptBelow, InCount, WAtt
<1>3. \A b \in Attempts : fetcher[b].num \in Nat
  BY DEF TypeInv, FetchersOK, FetcherType
<1>4. ASSUME NEW b \in Attempts, b # a PROVE CountedOf(b, fetcher[b])'
  BY <1>1, <1>2, <1>3, <1>4, QuietFetcher DEF Counted, CountedOf
<1>5. CountedOf(a, fetcher[a])'
  <2>1. CASE fetcher'[a] = fetcher[a]
    BY <1>1, <1>2, <1>3, <2>1 DEF Counted, CountedOf
  <2>2. CASE <<fetcher[a].pc, fetcher'[a].pc>> \in Moves /\ fetcher'[a].num = fetcher[a].num
    BY <1>1, <1>2, <1>3, <2>2 DEF Counted, CountedOf, Moves, Extracting
  <2>3. CASE fetcher[a].pc \in {"queued", "verified"} \union Extracting /\ fetcher'[a].pc = "exited"
    BY <1>1, <1>2, <2>3, EndsCounted DEF CountedOf, Extracting
  <2> QED BY <2>1, <2>2, <2>3, QuietFetcher
<1> QED BY <1>4, <1>5 DEF Counted

LEMMA CountedFetches ==
    ASSUME TypeInv, CountInv, RowInv, Stages, LastOwns, Numbers, Counted, NEW a \in Attempts, Fetches(a)
    PROVE  CountedOf(a, fetcher[a])'
<1>1. /\ fetcher \in [Attempts -> FetcherType] /\ fetcher[a] \in FetcherType
      /\ fetcher[a].num \in Nat /\ fetcher[a].recent \in Nat
  BY DEF TypeInv, FetchersOK, FetcherType
<1>2. store \in [Attempts -> [BatchNums -> Items \union {NoItem}]] /\ completed \in [Attempts -> Nat]
  BY DEF TypeInv, SharedOK, RowsOK
<1>3. UNCHANGED worker
  BY FetchesOwn
<1>4. NumbersOf(a, fetcher[a]) /\ StageOf(a, fetcher[a]) /\ CountedOf(a, fetcher[a])
  BY DEF Numbers, Stages, Counted
<1>5. \A n \in BatchNums : InCount(a, n)' <=> InCount(a, n)
  BY <1>3 DEF InCount, WAtt
<1>6. ASSUME UNCHANGED store
      PROVE  /\ OnFile(a)' = OnFile(a) /\ Kept(a)' = Kept(a)
             /\ \A m \in Nat : KeptBelow(a, m)' = KeptBelow(a, m)
  BY <1>3, <1>6 DEF OnFile, Kept, KeptBelow, InCount, WAtt
<1>7. \A m \in Nat : /\ Cardinality(KeptBelow(a, m)) \in Nat
                     /\ KeptBelow(a, m) \subseteq BatchNums
  <2>1. \A m \in Nat : KeptBelow(a, m) \subseteq BatchNums
    BY DEF KeptBelow, Kept, OnFile
  <2> QED BY <2>1, Sizes
<1> USE DEF Extracting
<1>8. CASE SetPollWindow(a)
  <2>1. fetcher'[a].pc = "connector"
    BY <1>1, <1>8 DEF SetPollWindow, SetFetcher, FetcherType
  <2> QED BY <2>1 DEF CountedOf
<1>9. CASE LoadCheckpoint(a)
  <2>1. /\ fetcher'[a].pc \in {"reissue", "initial"} /\ fetcher[a].pc = "connector"
        /\ fetcher'[a].num = fetcher[a].num /\ UNCHANGED completed
    BY <1>9, Loading DEF rowVars
  <2>2. fetcher'[a].num = 0
    BY <1>4, <2>1 DEF StageOf, Unplaced
  <2>3. Cardinality(KeptBelow(a, 0)') \in Nat
    <3>1. KeptBelow(a, 0)' \subseteq BatchNums
      BY DEF KeptBelow, Kept, OnFile
    <3> QED BY <3>1, Sizes
  <2>4. 0 <= completed'[a] + Cardinality(KeptBelow(a, 0)')
    BY <1>2, <2>1, <2>3
  <2> QED BY <2>1, <2>2, <2>4 DEF CountedOf
<1>10. CASE ReissueOldBatches(a)
  <2>1. /\ fetcher'[a].pc = "assign" /\ fetcher'[a].recent = fetcher[a].recent
        /\ fetcher'[a].num = Cardinality(Files) + fetcher[a].recent
    BY <1>10, Reissuing
  <2>2. ASSUME NEW n PROVE n \in OnFile(a)' <=> \E f \in Files : f[2] = n
    <3>1. \A k \in BatchNums :
            \/ \E f \in Files : f[2] = k /\ store'[a][k] = store[f[1]][k] /\ store'[a][k] # NoItem
            \/ store'[a][k] = NoItem /\ \A f \in Files : f[2] # k
      BY <1>10, Reissuing
    <3>2. \A f \in Files : f[2] \in BatchNums
      BY DEF Files
    <3> QED BY <3>1, <3>2 DEF OnFile
  <2>3. OnFile(a)' \subseteq BatchNums
    BY DEF OnFile
  <2>4. Cardinality(OnFile(a)') = Cardinality(Files)
    BY <2>2, <2>3, OneOwner, SameOwner
  <2>5. Cardinality(Files) \in Nat
    BY CountsAreNat
  <2> QED BY <1>1, <2>1, <2>4, <2>5 DEF CountedOf
<1>11. CASE CarryOverCompleted(a)
  <2>1. /\ fetcher[a].pc = "assign" /\ fetcher'[a].pc = "initial"
        /\ fetcher'[a].num = fetcher[a].num /\ UNCHANGED store
    BY <1>1, <1>11 DEF CarryOverCompleted, FetcherAt, GoTo, SetFetcher, FetcherType
  <2>2. completed'[a] = fetcher[a].recent
    <3>1. completed[a] = 0
      BY <1>4, <2>1 DEF StageOf
    <3> QED BY <1>2, <1>11, <3>1 DEF CarryOverCompleted
  <2>3. KeptBelow(a, fetcher[a].num) = OnFile(a)
    <3>1. \A n \in OnFile(a) : n < fetcher[a].num
      BY <1>4, <2>1 DEF NumbersOf
    <3>2. \A n \in OnFile(a) : ~InCount(a, n)
      BY <1>4, <2>1 DEF StageOf, InCount, BusyOn, WAtt
    <3> QED BY <3>1, <3>2 DEF KeptBelow, Kept
  <2>4. fetcher[a].num = fetcher[a].recent + Cardinality(OnFile(a))
    BY <1>4, <2>1 DEF CountedOf
  <2>5. Cardinality(KeptBelow(a, fetcher[a].num)') = Cardinality(OnFile(a))
    BY <1>1, <1>6, <2>1, <2>3
  <2> QED BY <1>1, <2>1, <2>2, <2>4, <2>5 DEF CountedOf
<1>12. CASE SaveCheckpoint(a)
  <2>1. /\ fetcher[a].pc \in {"initial", "save"} /\ fetcher'[a].pc = "loop"
        /\ fetcher'[a].num = fetcher[a].num /\ UNCHANGED <<store, completed>>
    BY <1>1, <1>12 DEF SaveCheckpoint, FetcherAt, SetFetcher, FetcherType
  <2> QED BY <1>1, <1>4, <1>6, <2>1 DEF CountedOf
<1>13. CASE StoreBatch(a)
  <2>1. /\ fetcher[a].pc = "store" /\ fetcher'[a].pc = "send" /\ fetcher'[a].num = fetcher[a].num
        /\ fetcher[a].num \in BatchNums /\ UNCHANGED completed
    BY <1>1, <1>13 DEF StoreBatch, FetcherAt, GoTo, SetFetcher, FetcherType, rowVars
  <2>2. \A n \in BatchNums \ {fetcher[a].num} : store'[a][n] = store[a][n]
    BY <1>2, <1>13, <2>1 DEF StoreBatch
  <2>3. \A n \in BatchNums : n < fetcher[a].num => n # fetcher[a].num
    BY <1>1 DEF BatchNums
  <2>4. KeptBelow(a, fetcher[a].num)' = KeptBelow(a, fetcher[a].num)
    BY <1>5, <2>1, <2>2, <2>3 DEF KeptBelow, Kept, OnFile
  <2> QED BY <1>4, <2>1, <2>4 DEF CountedOf
<1>14. CASE SendTask(a)
  <2> DEFINE num == fetcher[a].num
  <2>1. /\ fetcher[a].pc = "send" /\ fetcher'[a].pc = "loop" /\ fetcher'[a].num = num + 1
        /\ UNCHANGED <<store, completed>>
    BY <1>1, <1>14 DEF SendTask, FetcherAt, SetFetcher, FetcherType, rowVars
  <2>2. num \in BatchNums /\ store[a][num] # NoItem
    <3>1. num \in BatchNums /\ fetcher[a].pos \in 0..(NumItems - 1)
      BY <2>1 DEF TypeInv, FetchersOK, FetcherSound
    <3>2. store[a][num] = fetcher[a].pos + 1
      BY <1>4, <2>1 DEF NumbersOf
    <3> QED BY <3>1, <3>2, ConstantsAssumption DEF NoItem
  <2>3. ~InCount(a, num)
    <3>1. \A w \in Workers : BusyOn(w, a) => worker[w].num < num
      BY <1>4, <2>1 DEF NumbersOf
    <3>2. \A w \in Workers : worker[w].num \in Int
      BY DEF TypeInv, WorkersOK, WorkerType, BatchNums
    <3> QED BY <1>1, <3>1, <3>2 DEF InCount, BusyOn, WAtt
  <2>4. /\ KeptBelow(a, num + 1) = KeptBelow(a, num) \union {num}
        /\ num \notin KeptBelow(a, num)
    <3>1. \A n \in BatchNums : n < num + 1 <=> n < num \/ n = num
      BY <1>1 DEF BatchNums
    <3> QED BY <1>1, <2>2, <2>3, <3>1 DEF KeptBelow, Kept, OnFile
  <2>5. Cardinality(KeptBelow(a, num + 1)) = Cardinality(KeptBelow(a, num)) + 1
    BY <1>1, <1>7, <2>2, <2>4, Sizes
  <2>6. num <= completed[a] + Cardinality(KeptBelow(a, num))
    BY <1>4, <2>1 DEF CountedOf
  <2>7. num + 1 <= completed[a] + Cardinality(KeptBelow(a, num + 1))
    BY <1>1, <1>2, <1>7, <2>5, <2>6
  <2>8. KeptBelow(a, num)' = KeptBelow(a, num + 1)
    BY <1>5, <2>1 DEF KeptBelow, Kept, OnFile
  <2> QED BY <2>1, <2>7, <2>8 DEF CountedOf
<1>15. CASE SetTotalBatches(a)
  <2>1. /\ fetcher[a].pc = "loop" /\ fetcher'[a].pc = "exited" /\ UNCHANGED <<store, completed>>
    BY <1>1, <1>15 DEF SetTotalBatches, FetcherAt, Exit, NewFetcher, SetFetcher
  <2> QED BY <1>6, <2>1, EndsCounted DEF CountedOf
<1> QED BY <1>8, <1>9, <1>10, <1>11, <1>12, <1>13, <1>14, <1>15 DEF Fetches
LEMMA CountedWorks ==
    ASSUME TypeInv, Counted, Stages, NEW w \in Workers, Works(w), NEW a \in Attempts
    PROVE  CountedOf(a, fetcher[a])'
<1>1. UNCHANGED fetcher
  BY DEF Works, LoadBatch, IndexBatch, FailBatch, CompleteBatch, FinishBatch, DiesEarly, CrashWorker
<1>2. fetcher[a].num \in Nat /\ completed[a] \in Nat /\ CountedOf(a, fetcher[a])
  BY DEF TypeInv, FetchersOK, FetcherType, RowsOK, Counted
<1>3. Kept(a) \subseteq BatchNums /\ OnFile(a) \subseteq BatchNums
  BY DEF Kept, OnFile
<1>4. /\ OnFile(a)' \subseteq OnFile(a)
      /\ \/ Kept(a)' = Kept(a) /\ completed'[a] \in {completed[a], completed[a] + 1}
         \/ \E k \in BatchNums : Kept(a)' = Kept(a) \ {k} /\ completed'[a] = completed[a] + 1
  BY WorksKept
\* A set of numbers loses at most one, and then the count goes up
<1>5. ASSUME NEW S \in SUBSET Kept(a), NEW T,
             \/ T = S /\ completed'[a] \in {completed[a], completed[a] + 1}
             \/ \E k \in BatchNums : T = S \ {k} /\ completed'[a] = completed[a] + 1
      PROVE  completed[a] + Cardinality(S) <= completed'[a] + Cardinality(T)
  <2>1. Cardinality(S) \in Nat /\ \A k \in S : Cardinality(S \ {k}) = Cardinality(S) - 1
    BY <1>3, Sizes
  <2>2. CASE T = S /\ completed'[a] \in {completed[a], completed[a] + 1}
    BY <1>2, <2>1, <2>2
  <2>3. ASSUME NEW k \in BatchNums, T = S \ {k}, completed'[a] = completed[a] + 1
        PROVE  completed[a] + Cardinality(S) <= completed'[a] + Cardinality(T)
    <3>1. CASE k \in S
      BY <1>2, <2>1, <2>3, <3>1
    <3>2. CASE k \notin S
      <4>1. Cardinality(T) = Cardinality(S)
        <5>1. T = S
          BY <2>3, <3>2
        <5> QED BY <5>1
      <4> QED BY <1>2, <2>1, <2>3, <4>1
    <3> QED BY <3>1, <3>2
  <2> QED BY <1>5, <2>2, <2>3
<1> DEFINE num == fetcher[a].num
<1>6. completed[a] + Cardinality(Kept(a)) <= completed'[a] + Cardinality(Kept(a)')
  BY <1>4, <1>5
<1>7. completed[a] + Cardinality(KeptBelow(a, num)) <= completed'[a] + Cardinality(KeptBelow(a, num)')
  <2>1. KeptBelow(a, num) \in SUBSET Kept(a)
    BY DEF KeptBelow
  <2>2. CASE Kept(a)' = Kept(a) /\ completed'[a] \in {completed[a], completed[a] + 1}
    <3>1. KeptBelow(a, num)' = KeptBelow(a, num)
      BY <1>1, <2>2 DEF KeptBelow
    <3> QED BY <1>5, <2>1, <2>2, <3>1
  <2>3. ASSUME NEW k \in BatchNums, Kept(a)' = Kept(a) \ {k}, completed'[a] = completed[a] + 1
        PROVE  completed[a] + Cardinality(KeptBelow(a, num)) <= completed'[a] + Cardinality(KeptBelow(a, num)')
    <3>1. KeptBelow(a, num)' = KeptBelow(a, num) \ {k}
      BY <1>1, <2>3 DEF KeptBelow
    <3> QED BY <1>5, <2>1, <2>3, <3>1
  <2> QED BY <1>4, <2>2, <2>3
<1>8. /\ Cardinality(KeptBelow(a, num)) \in Nat /\ Cardinality(Kept(a)) \in Nat
      /\ Cardinality(KeptBelow(a, num)') \in Nat /\ Cardinality(Kept(a)') \in Nat
  <2>1. /\ KeptBelow(a, num) \subseteq BatchNums /\ KeptBelow(a, num)' \subseteq BatchNums
        /\ Kept(a)' \subseteq BatchNums
    BY DEF KeptBelow, Kept, OnFile
  <2> QED BY <1>3, <2>1, Sizes
<1>9. completed'[a] \in Nat
  BY <1>2, <1>4
<1>10. ASSUME fetcher[a].pc = "assign" PROVE CountedOf(a, fetcher[a])'
  <2>1. \A v \in Workers : ~BusyOn(v, a)
    BY <1>10 DEF Stages, StageOf
  <2>2. OnFile(a)' = OnFile(a)
    <3>1. CASE FinishBatch(w)
      <4>1. WAtt(w) # a /\ store' = [store EXCEPT ![WAtt(w)][worker[w].num] = NoItem]
        BY <2>1, <3>1 DEF FinishBatch, BusyOn, WAtt
      <4> QED BY <4>1 DEF OnFile, TypeInv, SharedOK
    <3>2. CASE ~FinishBatch(w)
      <4>1. UNCHANGED store
        BY <3>2 DEF Works, LoadBatch, IndexBatch, FailBatch, CompleteBatch, DiesEarly, CrashWorker
      <4> QED BY <4>1 DEF OnFile
    <3> QED BY <3>1, <3>2
  <2> QED BY <1>1, <1>2, <1>10, <2>2 DEF CountedOf, Extracting
<1>11. ASSUME fetcher[a].pc \in {"initial"} \union Extracting PROVE CountedOf(a, fetcher[a])'
  <2>1. num <= completed[a] + Cardinality(KeptBelow(a, num))
    BY <1>2, <1>11 DEF CountedOf
  <2>2. num <= completed'[a] + Cardinality(KeptBelow(a, num)')
    BY <1>2, <1>7, <1>8, <1>9, <2>1
  <2> QED BY <1>1, <1>11, <2>2 DEF CountedOf, Extracting
<1>12. ASSUME fetcher[a].pc = "exited" PROVE CountedOf(a, fetcher[a])'
  <2>1. \A n \in OnFile(a) : n < completed[a] + Cardinality(Kept(a))
    BY <1>2, <1>12 DEF CountedOf
  <2>2. \A n \in OnFile(a)' : n < completed'[a] + Cardinality(Kept(a)')
    <3>1. \A n \in OnFile(a) : n \in Nat
      BY <1>3 DEF BatchNums
    <3> QED BY <1>2, <1>4, <1>6, <1>8, <1>9, <2>1, <3>1
  <2> QED BY <1>1, <1>12, <2>2 DEF CountedOf, Extracting
<1> QED BY <1>1, <1>10, <1>11, <1>12 DEF CountedOf

LEMMA CountedStep ==
    ASSUME Undisturbed, TypeInv, CountInv, RowInv, Stages, LastOwns, Numbers, Counted, [Next]_vars
    PROVE  Counted'
<1>1. \A b \in Attempts : fetcher[b].num \in Nat /\ CountedOf(b, fetcher[b])
  BY DEF TypeInv, FetchersOK, FetcherType, Counted
<1>2. ASSUME UNCHANGED <<store, worker>>
      PROVE  \A b \in Attempts : /\ OnFile(b)' = OnFile(b) /\ Kept(b)' = Kept(b)
                                 /\ \A m \in Nat : KeptBelow(b, m)' = KeptBelow(b, m)
  BY <1>2 DEF OnFile, Kept, KeptBelow, InCount, WAtt
<1>3. ASSUME NEW s \in Settings, CreateAttempt(s) PROVE Counted'
  <2>1. UNCHANGED <<store, worker, completed>>
    BY <1>3, Creating
  <2>2. \A b \in Attempts : fetcher'[b] = fetcher[b] \/ fetcher'[b].pc = "queued"
    BY <1>3, Creating
  <2>3. ASSUME NEW b \in Attempts PROVE CountedOf(b, fetcher[b])'
    BY <1>1, <1>2, <2>1, <2>2 DEF CountedOf, Extracting
  <2> QED BY <2>3 DEF Counted
<1>4. ASSUME NEW b \in Attempts, fetcher'[b] = fetcher[b], fetcher[b].pc \in {"none", "exited"},
             UNCHANGED worker, completed'[b] = completed[b],
             (\A n \in BatchNums : store'[b][n] = store[b][n]) \/ OnFile(b)' = {}
      PROVE  CountedOf(b, fetcher[b])'
  <2>1. CASE OnFile(b)' = {}
    BY <1>4, <2>1 DEF CountedOf, Extracting
  <2>2. CASE OnFile(b)' # {}
    <3>1. OnFile(b)' = OnFile(b) /\ Kept(b)' = Kept(b)
      BY <1>4, <2>2 DEF OnFile, Kept, InCount, WAtt
    <3> QED BY <1>1, <1>4, <3>1 DEF CountedOf, Extracting
  <2> QED BY <2>1, <2>2
<1>5. ASSUME NEW a \in Attempts, Fetches(a) PROVE Counted'
  <2>1. CountedOf(a, fetcher[a])'
    BY <1>5, CountedFetches
  <2>2. ASSUME NEW b \in Attempts \ {a} PROVE CountedOf(b, fetcher[b])'
    <3>1. /\ fetcher'[b] = fetcher[b] /\ fetcher[b].pc \in {"none", "exited"}
          /\ UNCHANGED worker /\ completed'[b] = completed[b]
      BY <1>5, FetchesOwn, FetchesLive, FetchedAlone
    <3>2. (\A n \in BatchNums : store'[b][n] = store[b][n]) \/ OnFile(b)' = {}
      <4>1. CASE StoreBatch(a)
        BY <4>1 DEF StoreBatch, TypeInv, SharedOK
      <4>2. CASE LoadCheckpoint(a)
        BY <4>2, Loading DEF OnFile, EmptyStore
      <4>3. CASE ReissueOldBatches(a)
        <5>1. \A n \in BatchNums : store'[b][n] = NoItem
          BY <4>3, Reissuing
        <5> QED BY <5>1 DEF OnFile
      <4>4. CASE ~StoreBatch(a) /\ ~LoadCheckpoint(a) /\ ~ReissueOldBatches(a)
        BY <1>5, <4>4 DEF Fetches, SetPollWindow, CarryOverCompleted, SaveCheckpoint, SendTask,
                          SetTotalBatches
      <4> QED BY <4>1, <4>2, <4>3, <4>4
    <3> QED BY <1>4, <3>1, <3>2
  <2> QED BY <2>1, <2>2 DEF Counted
<1>6. CASE CleanUpBatches
  <2>1. ASSUME NEW b \in Attempts PROVE CountedOf(b, fetcher[b])'
    <3>1. fetcher[b].pc \in {"none", "exited"}
      BY <1>6, CleanUpAlone DEF Live
    <3>2. OnFile(b)' = {} /\ UNCHANGED <<fetcher, worker, completed>>
      BY <1>6 DEF CleanUpBatches, OnFile, EmptyStore, rowVars
    <3> QED BY <1>4, <3>1, <3>2
  <2> QED BY <2>1 DEF Counted
<1>7. CASE UNCHANGED vars
  <2>1. UNCHANGED <<fetcher, store, worker, completed>>
    BY <1>7 DEF vars, rowVars
  <2>2. ASSUME NEW b \in Attempts PROVE CountedOf(b, fetcher[b])'
    BY <1>1, <1>2, <2>1 DEF CountedOf
  <2> QED BY <2>2 DEF Counted
<1>8. ASSUME NEW w \in Workers, Works(w) PROVE Counted'
  BY <1>8, CountedWorks DEF Counted
<1> QED BY <1>3, <1>5, <1>6, <1>7, <1>8, Steps, CountedQuiet
-----------------------------------------------------------------------------
(***************************************************************************)
(* Resuming                                                                *)
(***************************************************************************)

\* The attempt whose poll window is taken over: it has ended with a checkpoint, and
\* nobody has placed files since.
LEMMA TakenOver ==
    ASSUME Undisturbed, TypeInv, CountInv, RowInv, Stages, NEW a \in Attempts, FetcherAt(a, "window"),
           NEW p, p = MostRecent(settings[a]), p # 0, window[p] # NoWindow
    PROVE  /\ p \in Attempts /\ p < a /\ status[p] \in Unsuccessful /\ fetcher[p].pc = "exited"
           /\ checkpoint[p] # None /\ \A w \in Workers : ~BusyOn(w, p)
           /\ \A b \in Attempts : Placed(b) => b <= p
<1>1. /\ p \in Attempts /\ status[p] \in Terminal
      /\ \A b \in Attempts : settings[b] = settings[a] /\ status[b] \in Terminal => updated[b] <= updated[p]
  BY Previous DEF TypeInv, RowsOK
<1>2. Live(a) /\ window[a] = NoWindow /\ ~Placed(a)
  BY DEF FetcherAt, Live, Stages, StageOf, Placed, Unplaced, Early
<1>3. status[a] # "absent" /\ Newest(a) /\ \A b \in Attempts : Placed(b) => b <= a
  BY <1>2, Foremost
<1>4. p < a
  <2>1. p # a /\ ~(a < p)
    BY <1>1, <1>2, <1>3 DEF Newest, Terminal, Successful, Unsuccessful
  <2> QED BY <1>1, <2>1 DEF Attempts
<1>5. status[p] \in Unsuccessful /\ ~Live(p) /\ \A w \in Workers : ~BusyOn(w, p)
  BY <1>1, <1>3, <1>4 DEF RowInv, Ordered
<1>6. fetcher[p].pc = "exited" /\ checkpoint[p] # None
  BY <1>1, <1>5 DEF Stages, StageOf, Live, Early
<1>7. ASSUME NEW b \in Attempts, Placed(b), p < b PROVE FALSE
  <2>1. b < a
    BY <1>2, <1>3, <1>7 DEF Attempts
  <2>2. status[b] \in Unsuccessful /\ ~Live(b)
    BY <1>3, <2>1 DEF RowInv, Ordered
  <2>3. checkpoint[b] # None
    BY <1>7, <2>2 DEF Placed, Live
  <2>4. updated[p] < updated[b]
    BY <1>1, <1>7, <2>3 DEF RowInv, PlacedLater
  <2>5. settings[b] = settings[a]
    BY SameSetting DEF TypeInv, RowsOK
  <2>6. updated[b] <= updated[p]
    BY <1>1, <2>2, <2>5 DEF Terminal
  <2>7. updated[b] \in Nat /\ updated[p] \in Nat
    BY <1>1 DEF TypeInv, RowsOK
  <2> QED BY <2>4, <2>6, <2>7
<1> QED BY <1>1, <1>4, <1>5, <1>6, <1>7 DEF Attempts

LEMMA RoomOpened ==
    ASSUME Undisturbed, TypeInv, CountInv, RowInv, Stages, LastOwns, Counted,
           NEW a \in Attempts, SetPollWindow(a), window'[a] # a
    PROVE  Room(a)'
<1> DEFINE p == MostRecent(settings[a])
<1>1. /\ fetcher[a].pc = "window" /\ p # 0 /\ window[p] # NoWindow
      /\ fetcher'[a].recent = completed[p] /\ UNCHANGED store
  <2>1. fetcher[a].pc = "window" /\ UNCHANGED store
    BY DEF SetPollWindow, FetcherAt
  <2>2. p # 0 /\ window[p] # NoWindow
    BY DEF SetPollWindow, TypeInv, RowsOK
  <2>3. fetcher'[a] = [fetcher[a] EXCEPT
                !.pc = "connector",
                !.afresh = reindex[a] \/ (p # 0 /\ status[p] \in Successful),
                !.prevEnded = p # 0 /\ total[p] # None,
                !.recent = IF p = 0 THEN 0 ELSE completed[p]]
    BY DEF SetPollWindow, SetFetcher, TypeInv, FetchersOK
  <2>4. fetcher'[a].recent = completed[p]
    BY <2>2, <2>3 DEF TypeInv, FetchersOK, FetcherType
  <2> QED BY <2>1, <2>2, <2>4
<1> HIDE DEF p
<1>2. /\ p \in Attempts /\ fetcher[p].pc = "exited" /\ checkpoint[p] # None
      /\ \A w \in Workers : ~BusyOn(w, p)
      /\ \A b \in Attempts : Placed(b) => b <= p
  BY <1>1, TakenOver DEF p, FetcherAt
<1>3. \A f \in Files : f[1] = p /\ f[2] \in OnFile(p)
  <2>1. SUFFICES ASSUME NEW f \in Files PROVE f[1] = p /\ f[2] \in OnFile(p)
    OBVIOUS
  <2>2. f[1] \in Attempts /\ f[2] \in BatchNums /\ store[f[1]][f[2]] # NoItem
    BY DEF Files
  <2>3. Placed(f[1]) /\ ~(f[1] < p)
    BY <1>2, <2>2 DEF LastOwns, Overtaken, Placed
  <2> QED BY <1>2, <2>2, <2>3 DEF Attempts, OnFile
<1>4. Cardinality(OnFile(p)) = Cardinality(Files)
  <2>1. \A n : n \in OnFile(p) <=> \E f \in Files : f[2] = n
    <3>1. \A n \in OnFile(p) : <<p, n>> \in Files
      BY <1>2 DEF OnFile, Files
    <3> QED BY <1>3, <3>1
  <2>2. OnFile(p) \subseteq BatchNums
    BY DEF OnFile
  <2> QED BY <2>1, <2>2, OneOwner, SameOwner
<1>5. Kept(p) = OnFile(p)
  BY <1>2 DEF Kept, InCount, BusyOn, WAtt
<1>6. \A n \in OnFile(p) : n < completed[p] + Cardinality(OnFile(p))
  BY <1>2, <1>5 DEF Counted, CountedOf
<1>7. Files' = Files
  BY <1>1 DEF Files
<1> QED BY <1>1, <1>3, <1>4, <1>6, <1>7 DEF Room

\* Old batches are kept only in a poll window taken over.
LEMMA KeepsOnlyTakenOver ==
    ASSUME Undisturbed, TypeInv, CountInv, RowInv, Stages, NEW a \in Attempts, LoadCheckpoint(a),
           fetcher'[a].pc = "reissue"
    PROVE  window[a] # a
<1>1. ReusesOldBatches(a) /\ fetcher[a].pc = "connector"
  BY Loading
<1>2. CheckpointCandidates(a) # {}
  <2>1. CASE CheckpointedConnector /\ CheckpointCandidates(a) # {}
    BY <2>1
  <2>2. CASE LatestCheckpoint(a) = NumItems
    <3>1. LastUpdated({}) = 0
      BY DEF LastUpdated
    <3>2. CheckpointCandidates(a) = {} => LatestCheckpoint(a) = 0
      BY <3>1 DEF LatestCheckpoint
    <3> QED BY <2>2, <3>2, ConstantsAssumption
  <2> QED BY <1>1, <2>1, <2>2 DEF ReusesOldBatches
<1>3. PICK b \in Attempts : status[b] \in Unsuccessful /\ window[b] = window[a] /\ checkpoint[b] # None
  BY <1>2 DEF CheckpointCandidates
<1>4. b # a /\ b <= a
  <2>1. Live(a) /\ checkpoint[a] = None
    BY <1>1 DEF Live, Stages, StageOf, Unplaced
  <2> QED BY <1>3, <2>1, Foremost DEF Placed
<1>5. window[b] <= b
  BY DEF Stages
<1> QED BY <1>3, <1>4, <1>5 DEF Attempts

LEMMA ResumesStep ==
    ASSUME Undisturbed, TypeInv, CountInv, RowInv, Stages, LastOwns, Counted, Resumes, [Next]_vars
    PROVE  Resumes'
<1> USE DEF FetcherAt
<1>1. SUFFICES ASSUME NEW b \in Attempts,
                      \/ fetcher'[b].pc = "connector" /\ window'[b] # b
                      \/ fetcher'[b].pc = "reissue"
               PROVE  Room(b)'
  BY DEF Resumes
<1>2. ASSUME fetcher'[b] = fetcher[b], window'[b] = window[b], UNCHANGED store PROVE Room(b)'
  <2>1. Room(b)
    BY <1>1, <1>2 DEF Resumes
  <2>2. Files' = Files
    BY <1>2 DEF Files
  <2> QED BY <1>2, <2>1, <2>2 DEF Room
<1>3. ASSUME NEW s \in Settings, CreateAttempt(s) PROVE Room(b)'
  BY <1>1, <1>2, <1>3, Creating
<1>4. ASSUME NEW a \in Attempts, Quiet(a) PROVE Room(b)'
  <2>1. UNCHANGED <<window, store>>
    BY <1>4 DEF Quiet
  <2>2. fetcher'[b] = fetcher[b]
    BY <1>1, <1>4, QuietFetcher DEF Moves
  <2> QED BY <1>2, <2>1, <2>2
<1>5. ASSUME NEW a \in Attempts, Fetches(a) PROVE Room(b)'
  <2>1. b = a
    BY <1>1, <1>5, FetchesLive, FetchedAlone, FetchesOwn
  <2>2. CASE SetPollWindow(a)
    <3>1. fetcher'[a].pc = "connector"
      BY <2>2 DEF SetPollWindow, SetFetcher, TypeInv, FetchersOK, FetcherType
    <3> QED BY <1>1, <2>1, <2>2, <3>1, RoomOpened
  <2>3. CASE LoadCheckpoint(a)
    <3>1. /\ fetcher'[a].pc = "reissue" /\ fetcher[a].pc = "connector" /\ UNCHANGED store
          /\ fetcher'[a].recent = fetcher[a].recent
      BY <1>1, <2>1, <2>3, Loading
    <3>2. Room(a)
      BY <2>3, <3>1, KeepsOnlyTakenOver DEF Resumes
    <3>3. Files' = Files
      BY <3>1 DEF Files
    <3> QED BY <2>1, <3>1, <3>2, <3>3 DEF Room
  <2>4. CASE ~SetPollWindow(a) /\ ~LoadCheckpoint(a)
    <3>1. fetcher'[a].pc \notin {"connector", "reissue"}
      <4>1. fetcher \in [Attempts -> FetcherType] /\ fetcher[a] \in FetcherType
        BY DEF TypeInv, FetchersOK
      <4>2. CASE ReissueOldBatches(a)
        BY <4>2, Reissuing
      <4>3. CASE CarryOverCompleted(a) \/ StoreBatch(a) \/ SetTotalBatches(a)
        BY <4>1, <4>3 DEF CarryOverCompleted, StoreBatch, SetTotalBatches, GoTo, Exit, NewFetcher,
                          SetFetcher, FetcherType
      <4>4. CASE SaveCheckpoint(a) \/ SendTask(a)
        BY <4>1, <4>4 DEF SaveCheckpoint, SendTask, SetFetcher, FetcherType
      <4> QED BY <1>5, <2>4, <4>2, <4>3, <4>4 DEF Fetches
    <3> QED BY <1>1, <2>1, <3>1
  <2> QED BY <2>2, <2>3, <2>4
<1>6. ASSUME NEW w \in Workers, Works(w) PROVE Room(b)'
  <2>1. UNCHANGED <<fetcher, window>>
    BY <1>6 DEF Works, LoadBatch, IndexBatch, FailBatch, CompleteBatch, FinishBatch, DiesEarly,
                CrashWorker, rowVars
  <2>2. ~FinishBatch(w)
    <3>1. Live(b) /\ \A v \in Workers : ~BusyOn(v, b)
      BY <1>1, <2>1 DEF Live, Stages, StageOf, Unplaced
    <3>2. status[b] # "absent" /\ Newest(b)
      BY <3>1, AtWork
    <3>3. ASSUME FinishBatch(w) PROVE FALSE
      <4>1. WAtt(w) \in Attempts /\ BusyOn(w, WAtt(w))
        BY <3>3, SameBatch DEF BusyOn, WAtt
      <4>2. status[WAtt(w)] # "absent" /\ Newest(WAtt(w)) /\ WAtt(w) # b
        BY <3>1, <4>1, AtWork
      <4> QED BY <3>2, <4>1, <4>2 DEF Newest, Attempts
    <3> QED BY <3>3
  <2>3. UNCHANGED store
    BY <1>6, <2>2 DEF Works, LoadBatch, IndexBatch, FailBatch, CompleteBatch, DiesEarly, CrashWorker
  <2> QED BY <1>2, <2>1, <2>3
<1>7. CASE CleanUpBatches
  <2>1. UNCHANGED fetcher /\ ~Live(b)
    BY <1>7, CleanUpAlone DEF CleanUpBatches
  <2> QED BY <1>1, <2>1 DEF Live
<1>8. CASE UNCHANGED vars
  BY <1>2, <1>8 DEF vars, rowVars
<1> QED BY <1>3, <1>4, <1>5, <1>6, <1>7, <1>8, Steps
-----------------------------------------------------------------------------
(***************************************************************************)
(* Storing a batch never replaces another one                              *)
(***************************************************************************)
Numbering == RowInv /\ Stages /\ LastOwns /\ Numbers /\ Counted /\ Resumes

LEMMA NumberingInit == Init => Numbering
<1> SUFFICES ASSUME Init PROVE Numbering
  OBVIOUS
<1>1. /\ \A a \in Attempts : /\ status[a] = "absent" /\ window[a] = NoWindow /\ checkpoint[a] = None
                             /\ total[a] = None /\ completed[a] = 0 /\ updated[a] = 0
                             /\ fetcher[a] = NewFetcher
                             /\ \A n \in BatchNums : store[a][n] = NoItem /\ queue[a][n] = 0
      /\ \A w \in Workers : worker[w].pc = "idle"
      /\ monitor.pc = "idle"
  BY DEF Init, EmptyStore, IdleWorker, IdleMonitor
<1>2. Rows = {}
  BY <1>1 DEF Rows
<1>3. Cardinality(Rows) = 0
  BY <1>2, FS_EmptySet
<1>4. RowInv
  BY <1>1, <1>3 DEF RowInv, Ordered, MonitorOnNewest, Ranked, PlacedLater
<1>5. Stages
  BY <1>1 DEF Stages, StageOf, NewFetcher, Extracting, BusyOn, NoWindow, Attempts
<1>6. LastOwns /\ Numbers /\ Counted /\ Resumes
  BY <1>1 DEF LastOwns, Numbers, NumbersOf, Counted, CountedOf, Resumes, NewFetcher, Extracting,
              FetcherAt
<1> QED BY <1>4, <1>5, <1>6 DEF Numbering

LEMMA NumberingStep ==
    ASSUME Undisturbed, TypeInv, CountInv, Numbering, [Next]_vars
    PROVE  Numbering'
BY RowInvStep, StagesStep, LastOwnsStep, NumbersStep, CountedStep, ResumesStep DEF Numbering

LEMMA StaysUndisturbed == Undisturbed => []Undisturbed
<1>1. Undisturbed => Undisturbed'
  BY DEF Undisturbed
<1> QED BY <1>1, PTL

LEMMA NumberingHolds == Undisturbed /\ Spec => [](TypeInv /\ CountInv /\ Numbering)
<1>1. TypeInv /\ CountInv /\ Numbering /\ Undisturbed /\ [Next]_vars => Numbering'
  BY NumberingStep
<1> QED BY <1>1, StaysUndisturbed, NumberingInit, Invariants, PTL DEF Spec

LEMMA NothingReplaced ==
    ASSUME Undisturbed, TypeInv, CountInv, Numbering, [Next]_vars,
           NEW b \in Attempts, NEW n \in BatchNums, store[b][n] # NoItem
    PROVE  store'[b][n] \in {store[b][n], NoItem}
<1> USE DEF Numbering
<1>1. ASSUME NEW a \in Attempts, Fetches(a) PROVE store'[b][n] \in {store[b][n], NoItem}
  <2>1. CASE Removes
    BY <2>1 DEF Removes
  <2>2. CASE StoreBatch(a)
    <3>1. /\ fetcher[a].pc = "store" /\ fetcher[a].num \in BatchNums
          /\ store' = [store EXCEPT ![a][fetcher[a].num] = fetcher[a].pos + 1]
      BY <2>2 DEF StoreBatch, FetcherAt
    <3>2. ~(b = a /\ n = fetcher[a].num)
      BY <3>1 DEF Numbers, NumbersOf, Extracting, OnFile, BatchNums
    <3> QED BY <3>1, <3>2 DEF TypeInv, SharedOK
  <2>3. CASE store' = EmptyStore
    BY <2>3 DEF EmptyStore
  <2>4. CASE ReissueOldBatches(a)
    <3>1. fetcher[a].pc = "reissue" /\ (b # a => store'[b][n] = NoItem)
      BY <2>4, Reissuing
    <3>2. b # a
      BY <3>1 DEF LastOwns, Placed, Stages, StageOf, Unplaced
    <3> QED BY <3>1, <3>2
  <2> QED BY <1>1, <2>1, <2>2, <2>3, <2>4, FetchesPlaced
<1>2. CASE CleanUpBatches
  BY <1>2 DEF CleanUpBatches, EmptyStore
<1>3. ASSUME NEW w \in Workers, Works(w) PROVE store'[b][n] \in {store[b][n], NoItem}
  BY <1>3, WorksPlaced DEF Removes
<1>4. CASE (\E s \in Settings : CreateAttempt(s)) \/ (\E a \in Attempts : Quiet(a)) \/ UNCHANGED vars
  BY <1>4 DEF CreateAttempt, Quiet, vars
<1> QED BY <1>1, <1>2, <1>3, <1>4, Steps

\* With one search setting and none of the excluded troubles, storing a batch never
\* replaces another one: the numbers of an attempt that resumes start above those of
\* all the files that are left (reissue_old_batches).
THEOREM NothingOverwritten == Undisturbed /\ Spec => NeverReplacesBatch
<1> DEFINE Keeps == \A a \in Attempts, n \in BatchNums :
                      store[a][n] # NoItem => store'[a][n] \in {store[a][n], NoItem}
<1>1. TypeInv /\ CountInv /\ Numbering /\ Undisturbed /\ [Next]_vars => [Keeps]_vars
  BY NothingReplaced
<1>2. Undisturbed /\ Spec => [][Keeps]_vars
  BY NumberingHolds, <1>1, StaysUndisturbed, PTL DEF Spec
<1> QED BY <1>2 DEF NeverReplacesBatch
-----------------------------------------------------------------------------
(***************************************************************************)
(* Every batch is kept track of                                            *)
(***************************************************************************)

\* The number of batches is final: no file has a higher number.
LEMMA TotalBoundsStep ==
    ASSUME Undisturbed, TypeInv, CountInv, RowInv, Stages, Numbers, TotalBounds, [Next]_vars
    PROVE  TotalBounds'
<1>1. ASSUME NEW b \in Attempts, OnFile(b)' \subseteq OnFile(b), total'[b] = total[b]
      PROVE  total'[b] # None => \A n \in OnFile(b)' : n < total'[b]
  BY <1>1 DEF TotalBounds
<1>2. ASSUME NEW a \in Attempts, Fetches(a), NEW b \in Attempts
      PROVE  total'[b] # None => \A n \in OnFile(b)' : n < total'[b]
  <2>1. CASE b # a
    <3>1. total'[b] = total[b]
      BY <1>2, <2>1, FetchesOwn
    <3>2. OnFile(b)' \subseteq OnFile(b)
      <4>1. CASE StoreBatch(a)
        BY <2>1, <4>1 DEF StoreBatch, TypeInv, SharedOK, OnFile
      <4>2. CASE ReissueOldBatches(a)
        <5>1. \A n \in BatchNums : store'[b][n] = NoItem
          BY <2>1, <4>2, Reissuing
        <5> QED BY <5>1 DEF OnFile
      <4>3. CASE Removes \/ store' = EmptyStore
        BY <4>3 DEF Removes, EmptyStore, OnFile
      <4> QED BY <1>2, <4>1, <4>2, <4>3, FetchesPlaced
    <3> QED BY <1>1, <3>1, <3>2
  <2>2. CASE b = a /\ SetTotalBatches(a)
    <3>1. total'[b] = fetcher[a].num /\ fetcher[a].pc = "loop" /\ UNCHANGED store
      BY <2>2 DEF SetTotalBatches, FetcherAt, TypeInv, RowsOK
    <3>2. \A n \in OnFile(a) : n < fetcher[a].num
      BY <3>1 DEF Numbers, NumbersOf, Extracting
    <3> QED BY <2>2, <3>1, <3>2 DEF OnFile
  <2>3. CASE b = a /\ ~SetTotalBatches(a)
    <3>1. total[a] = None
      BY <1>2, FetchesLive DEF CountInv, TotalSetLast, Live
    <3>2. UNCHANGED total
      BY <1>2, <2>3 DEF Fetches, SetPollWindow, LoadCheckpoint, ReissueOldBatches, CarryOverCompleted,
                        SaveCheckpoint, StoreBatch, SendTask, rowVars
    <3> QED BY <2>3, <3>1, <3>2
  <2> QED BY <2>1, <2>2, <2>3
<1>3. ASSUME NEW w \in Workers, Works(w), NEW b \in Attempts
      PROVE  total'[b] # None => \A n \in OnFile(b)' : n < total'[b]
  <2>1. UNCHANGED total
    BY <1>3 DEF Works, LoadBatch, IndexBatch, FailBatch, CompleteBatch, FinishBatch, DiesEarly,
                CrashWorker, rowVars
  <2> QED BY <1>1, <1>3, <2>1, WorksKept
<1>4. CASE UNCHANGED <<store, total>>
  BY <1>4 DEF TotalBounds, OnFile
<1>5. CASE CleanUpBatches
  BY <1>5 DEF CleanUpBatches, EmptyStore, OnFile, TotalBounds
<1>6. ASSUME NEW a \in Attempts, Quiet(a) PROVE UNCHANGED <<store, total>>
  BY <1>6 DEF Quiet
<1>7. (\E s \in Settings : CreateAttempt(s)) \/ UNCHANGED vars => UNCHANGED <<store, total>>
  BY DEF CreateAttempt, vars, rowVars
<1> QED BY <1>2, <1>3, <1>4, <1>5, <1>6, <1>7, Steps DEF TotalBounds

\* A worker that is at work, and the batch it holds.
LEMMA WorkerItemsStep ==
    ASSUME Undisturbed, TypeInv, CountInv, RowInv, Stages, Numbers, WorkerItems, [Next]_vars
    PROVE  WorkerItems'
<1>1. \A v \in Workers : worker[v].pc # "idle" => WAtt(v) \in Attempts /\ worker[v].num \in BatchNums
  BY DEF TypeInv, WorkersOK, WorkerSound, WorkerType, WAtt
<1>2. \A v \in Workers : worker[v].pc # "idle" => BusyOn(v, WAtt(v))
  BY DEF BusyOn, WAtt
<1>3. ASSUME NEW v \in Workers, worker'[v] = worker[v], indexed \subseteq indexed',
             worker[v].pc # "idle" =>
               /\ settings'[WAtt(v)] = settings[WAtt(v)]
               /\ store'[WAtt(v)][worker[v].num] \in {store[WAtt(v)][worker[v].num], NoItem}
      PROVE  Holds(v)'
  <2>1. Holds(v)
    BY DEF WorkerItems
  <2> QED BY <1>1, <1>3, <2>1 DEF Holds, WAtt
<1>4. ASSUME NEW s \in Settings, CreateAttempt(s), NEW v \in Workers PROVE Holds(v)'
  <2>1. PICK a \in Attempts : status[a] = "absent" /\ settings' = [settings EXCEPT ![a] = s]
    BY <1>4 DEF CreateAttempt
  <2>2. worker[v].pc # "idle" => WAtt(v) # a
    BY <1>1, <1>2, <2>1, AtWork
  <2>3. worker[v].pc # "idle" => settings'[WAtt(v)] = settings[WAtt(v)]
    BY <1>1, <2>1, <2>2 DEF TypeInv, RowsOK
  <2> QED BY <1>3, <1>4, <2>3, Creating
<1>5. ASSUME NEW a \in Attempts, Quiet(a), NEW v \in Workers PROVE Holds(v)'
  BY <1>3, <1>5 DEF Quiet
<1>6. ASSUME NEW a \in Attempts, Fetches(a), NEW v \in Workers PROVE Holds(v)'
  <2>1. UNCHANGED <<worker, settings, indexed>>
    BY <1>6, FetchesOwn
  <2>2. ASSUME worker[v].pc # "idle"
        PROVE  store'[WAtt(v)][worker[v].num] \in {store[WAtt(v)][worker[v].num], NoItem}
    <3>1. WAtt(v) \in Attempts /\ worker[v].num \in BatchNums /\ BusyOn(v, WAtt(v))
      BY <1>1, <1>2, <2>2
    <3>2. CASE Removes
      BY <3>1, <3>2 DEF Removes
    <3>3. CASE StoreBatch(a)
      <4>1. fetcher[a].pc = "store" /\ store' = [store EXCEPT ![a][fetcher[a].num] = fetcher[a].pos + 1]
        BY <3>3 DEF StoreBatch, FetcherAt
      <4>2. WAtt(v) = a => worker[v].num < fetcher[a].num
        BY <3>1, <4>1 DEF Numbers, NumbersOf, Extracting
      <4>3. ~(WAtt(v) = a /\ worker[v].num = fetcher[a].num)
        BY <3>1, <4>2 DEF BatchNums
      <4> QED BY <3>1, <4>1, <4>3 DEF TypeInv, SharedOK
    <3>4. CASE store' = EmptyStore
      BY <3>1, <3>4 DEF EmptyStore
    <3>5. CASE ReissueOldBatches(a)
      <4>1. WAtt(v) # a
        BY <3>1, <3>5, Reissuing DEF Stages, StageOf, Unplaced
      <4> QED BY <3>1, <3>5, <4>1, Reissuing
    <3> QED BY <1>6, <3>2, <3>3, <3>4, <3>5, FetchesPlaced
  <2> QED BY <1>3, <2>1, <2>2
<1>7. ASSUME NEW a \in Attempts, NEW n \in BatchNums, NEW w \in Workers, LoadBatch(w, a, n), NEW v \in Workers
      PROVE  Holds(v)'
  <2>1. UNCHANGED <<store, settings, indexed>>
    BY <1>7, Delivery
  <2>2. CASE worker'[v] = worker[v]
    BY <1>3, <2>1, <2>2
  <2>3. CASE worker'[v] # worker[v]
    <3>1. worker'[v] = [pc |-> "loaded", att |-> a, num |-> n, item |-> store[a][n], failed |-> FALSE]
      BY <1>7, <2>3, Delivery
    <3>2. worker'[v].pc = "loaded" /\ worker'[v].att = a /\ worker'[v].num = n /\ worker'[v].item = store[a][n]
      BY <3>1
    <3> QED BY <2>1, <3>2 DEF Holds, WAtt
  <2> QED BY <2>2, <2>3
<1>8. ASSUME NEW w \in Workers, NEW v \in Workers,
             IndexBatch(w) \/ FailBatch(w) \/ CompleteBatch(w) \/ FinishBatch(w) \/ DiesEarly(w)
      PROVE  Holds(v)'
  <2>1. UNCHANGED settings /\ indexed \subseteq indexed' /\ Removes
    <3>1. UNCHANGED settings /\ indexed \subseteq indexed'
      BY <1>8 DEF IndexBatch, FailBatch, CompleteBatch, FinishBatch, DiesEarly, CrashWorker, rowVars
    <3> QED BY <1>8, <3>1, WorksPlaced DEF Works
  <2>2. CASE v # w
    <3>1. worker'[v] = worker[v]
      BY <1>8, <2>2, SameBatch
    <3> QED BY <1>1, <1>3, <2>1, <3>1 DEF Removes
  <2>3. CASE v = w /\ worker'[w].pc = "idle"
    BY <2>3 DEF Holds
  <2>4. CASE v = w /\ worker'[w].pc # "idle"
    <3>1. /\ WAtt(w) \in Attempts /\ worker[w].num \in BatchNums
          /\ worker'[w].att = WAtt(w) /\ worker'[w].num = worker[w].num
          /\ worker'[w].item = worker[w].item
          /\ worker'[w].pc = "counted" => CompleteBatch(w)
          /\ worker[w].pc # "idle"
      BY <1>8, <2>4, SameBatch DEF IdleWorker
    <3>2. Holds(w)
      BY DEF WorkerItems
    <3>3. worker[w] \in WorkerType
      BY DEF TypeInv, WorkersOK
    <3>4. CASE IndexBatch(w)
      <4>1. PICK bad \in BOOLEAN :
              /\ indexed' = IF bad THEN indexed
                      ELSE indexed \union {<<settings[WAtt(w)], worker[w].item>>}
              /\ worker' = [worker EXCEPT ![w] = [worker[w] EXCEPT !.pc = "indexed", !.failed = bad]]
        BY <3>4 DEF IndexBatch, SetWorker
      <4>2. worker'[w] = [worker[w] EXCEPT !.pc = "indexed", !.failed = bad]
        BY <4>1 DEF TypeInv, WorkersOK
      <4>3. worker'[w].failed = bad
        BY <3>3, <4>2 DEF WorkerType
      <4>4. bad \/ <<settings[WAtt(w)], worker[w].item>> \in indexed'
        BY <4>1
      <4>5. worker'[w].failed \/ <<settings[WAtt(w)], worker[w].item>> \in indexed'
        BY <4>3, <4>4
      <4> QED BY <2>1, <2>4, <3>1, <3>2, <4>5 DEF Holds, WAtt, Removes
    <3>5. CASE CompleteBatch(w)
      <4>1. worker[w].pc = "indexed" /\ worker'[w].failed = worker[w].failed
        BY <3>3, <3>5 DEF CompleteBatch, SetWorker, TypeInv, WorkersOK, WorkerType
      <4>2. worker[w].failed \/ <<settings[WAtt(w)], worker[w].item>> \in indexed
        BY <3>2, <4>1 DEF Holds
      <4>3. worker'[w].failed \/ <<settings[WAtt(w)], worker[w].item>> \in indexed'
        BY <2>1, <4>1, <4>2
      <4> QED BY <2>1, <2>4, <3>1, <3>2, <4>3 DEF Holds, WAtt, Removes
    <3>6. CASE FailBatch(w) \/ FinishBatch(w) \/ DiesEarly(w)
      BY <2>4, <3>6 DEF FailBatch, FinishBatch, DiesEarly, CrashWorker, SetWorker, IdleWorker,
                        TypeInv, WorkersOK
    <3> QED BY <1>8, <3>4, <3>5, <3>6
  <2> QED BY <2>2, <2>3, <2>4
<1>9. ASSUME CleanUpBatches, NEW v \in Workers PROVE Holds(v)'
  BY <1>1, <1>3, <1>9 DEF CleanUpBatches, EmptyStore, rowVars
<1>10. ASSUME UNCHANGED vars, NEW v \in Workers PROVE Holds(v)'
  BY <1>3, <1>10 DEF vars, rowVars
<1> QED
  BY <1>4, <1>5, <1>6, <1>7, <1>8, <1>9, <1>10, Steps DEF WorkerItems, Works
-----------------------------------------------------------------------------
(***************************************************************************)
(* Tasks is inductive.                                                     *)
(***************************************************************************)

\* What is counted depends on the queue, the files and the workers alone.
LEMMA TasksSame ==
    ASSUME NEW b \in Attempts, TasksOf(b), UNCHANGED worker, errors \subseteq errors',
           queue'[b] = queue[b], store'[b] = store[b], completed'[b] = completed[b],
           Handed(b)' = Handed(b) \/ Handed(b)' = 0,
           fetcher'[b].pc \in {"initial"} \union Extracting \/ total'[b] # None =>
               /\ fetcher[b].pc \in {"initial"} \union Extracting \/ total[b] # None
               /\ Handed(b)' = Handed(b)
    PROVE  TasksOf(b)'
<1>1. /\ \A n \in BatchNums : Waits(b, n)' <=> Waits(b, n)
      /\ \A n \in BatchNums : InCount(b, n)' <=> InCount(b, n)
      /\ OnFile(b)' = OnFile(b)
  BY DEF Waits, InCount, OnFile, OnBatch, BusyOn, WAtt
<1>2. OnFile(b) \subseteq BatchNums
  BY DEF OnFile
<1>3. \A n \in BatchNums : OneTask(b, n)'
  BY DEF TasksOf, OneTask, OnBatch, BusyOn
<1>4. HasFile(b)'
  BY <1>1 DEF TasksOf, HasFile
<1>5. LostRecorded(b)'
  <2>1. SUFFICES ASSUME PERSISTENT_INDEXING, NEW n \in OnFile(b), n < Handed(b)'
                 PROVE  Waits(b, n) \/ InCount(b, n) \/ <<b, store[b][n]>> \in errors
    BY <1>1, <1>2 DEF LostRecorded
  <2>2. n \in Nat
    BY <1>2 DEF BatchNums
  <2>3. n < Handed(b)
    BY <2>1, <2>2
  <2> QED BY <2>1, <2>3 DEF TasksOf, LostRecorded
<1>6. OpenBound(b)'
  <2>1. SUFFICES ASSUME fetcher'[b].pc \in {"initial"} \union Extracting \/ total'[b] # None
                 PROVE  completed'[b] + Cardinality(Open(b)') <= Handed(b)'
    BY DEF OpenBound, Extracting
  <2>2. Handed(b)' = Handed(b)
    BY <2>1
  <2>3. Open(b)' = Open(b)
    BY <1>1, <1>2, <2>2 DEF Open, Kept
  <2> QED BY <2>1, <2>2, <2>3 DEF TasksOf, OpenBound
<1> QED BY <1>3, <1>4, <1>5, <1>6 DEF TasksOf

LEMMA TasksQuiet ==
    ASSUME TypeInv, CountInv, RowInv, Stages, Tasks, NEW a \in Attempts, Quiet(a)
    PROVE  Tasks'
<1>1. \A b \in Attempts : Newest(b)' <=> Newest(b)
  BY QuietRowStep, OrderKept
<1>2. SUFFICES ASSUME NEW b \in Attempts, TasksOf(b) PROVE TasksOf(b)'
  BY <1>1 DEF Tasks
<1>3. UNCHANGED <<total, completed, errors, store, queue, worker>>
  BY DEF Quiet
<1>4. CASE fetcher'[b] = fetcher[b]
  <2>1. Handed(b)' = Handed(b)
    BY <1>3, <1>4 DEF Handed
  <2> QED BY <1>2, <1>3, <1>4, <2>1, TasksSame
<1>5. ASSUME b = a, <<fetcher[a].pc, fetcher'[a].pc>> \in Moves, fetcher'[a].num = fetcher[a].num
      PROVE  TasksOf(b)'
  <2>1. Handed(b)' = Handed(b)
    BY <1>3, <1>5 DEF Handed
  <2>2. fetcher'[b].pc \in {"initial"} \union Extracting => fetcher[b].pc \in {"initial"} \union Extracting
    BY <1>5 DEF Moves, Extracting
  <2> QED BY <1>2, <1>3, <2>1, <2>2, TasksSame
<1>6. ASSUME b = a, fetcher[a].pc \in {"queued", "verified"} \union Extracting,
             ~UNCHANGED fetcher, ~Goes(a)
      PROVE  TasksOf(b)'
  <2>1. fetcher'[a].pc = "exited" /\ fetcher'[a].num = 0
    BY <1>6 DEF Quiet, Quits, Exit, SetFetcher, NewFetcher, TypeInv, FetchersOK
  <2>2. total[a] = None
    BY <1>6 DEF CountInv, TotalSetLast, Extracting
  <2>3. Handed(b)' = 0
    BY <1>3, <1>6, <2>1, <2>2 DEF Handed
  <2> QED BY <1>2, <1>3, <1>6, <2>1, <2>2, <2>3, TasksSame DEF Extracting
<1>7. CASE b # a
  BY <1>4, <1>7, QuietFetcher
<1>8. CASE b = a /\ fetcher'[a] # fetcher[a]
  <2>1. CASE Goes(a)
    <3>1. PICK m \in Moves : FetcherAt(a, m[1]) /\ GoTo(a, m[2])
      BY <2>1 DEF Goes
    <3>2. fetcher[a].pc = m[1] /\ fetcher'[a].pc = m[2] /\ fetcher'[a].num = fetcher[a].num
      BY <3>1 DEF FetcherAt, GoTo, SetFetcher, TypeInv, FetchersOK, FetcherType
    <3>3. <<fetcher[a].pc, fetcher'[a].pc>> \in Moves
      BY <3>2 DEF Moves
    <3> QED BY <1>5, <1>8, <3>2, <3>3
  <2>2. CASE ~Goes(a)
    <3>1. ~UNCHANGED fetcher
      BY <1>8
    <3>2. Quits(a)
      BY <2>2, <3>1 DEF Quiet
    <3> QED BY <1>6, <1>8, <2>2, <3>1, <3>2 DEF Quits
  <2> QED BY <2>1, <2>2
<1> QED BY <1>4, <1>7, <1>8

\* Whoever is created has been handed nothing.
LEMMA TasksCreate ==
    ASSUME Undisturbed, TypeInv, CountInv, RowInv, Stages, Tasks, NEW s \in Settings, CreateAttempt(s)
    PROVE  Tasks'
<1>1. SUFFICES ASSUME NEW b \in Attempts, Newest(b)' PROVE TasksOf(b)'
  BY DEF Tasks
<1>2. PICK a \in Attempts : /\ status[a] = "absent" /\ GoTo(a, "queued")
                            /\ status' = [status EXCEPT ![a] = "NOT_STARTED"]
  BY DEF CreateAttempt
<1>3. Newest(b)
  BY <1>1, <1>2 DEF Newest, TypeInv, RowsOK
<1>4. TasksOf(b)
  BY <1>3 DEF Tasks
<1>5. UNCHANGED <<total, completed, errors, store, queue, worker>>
  BY Creating
<1>6. /\ fetcher'[b].num = fetcher[b].num
      /\ fetcher'[b].pc \in {"initial"} \union Extracting => fetcher[b].pc \in {"initial"} \union Extracting
  BY <1>2 DEF GoTo, SetFetcher, TypeInv, FetchersOK, FetcherType, Extracting
<1>7. Handed(b)' = Handed(b)
  BY <1>5, <1>6 DEF Handed
<1> QED BY <1>4, <1>5, <1>6, <1>7, TasksSame
\* A worker's step is about one batch (c, k); nothing changes for any other.
OnlyTouches(c, k) ==
    /\ \A b \in Attempts, n \in BatchNums : b # c \/ n # k =>
         /\ queue'[b][n] = queue[b][n] /\ store'[b][n] = store[b][n]
         /\ \A v \in Workers :
              (OnBatch(v, b, n) \/ OnBatch(v, b, n)') => worker'[v] = worker[v]
    /\ \A b \in Attempts \ {c} : completed'[b] = completed[b]

LEMMA WorksTouch ==
    ASSUME TypeInv, NEW w \in Workers, Works(w)
    PROVE  \E c \in Attempts, k \in BatchNums :
               /\ OnlyTouches(c, k)
               /\ LoadBatch(w, c, k) \/ (worker[w].pc # "idle" /\ WAtt(w) = c /\ worker[w].num = k)
<1>1. /\ queue \in [Attempts -> [BatchNums -> Nat]]
      /\ store \in [Attempts -> [BatchNums -> Items \union {NoItem}]]
      /\ worker \in [Workers -> WorkerType] /\ completed \in [Attempts -> Nat]
  BY DEF TypeInv, SharedOK, WorkersOK, RowsOK
<1>2. ASSUME NEW c \in Attempts, NEW k \in BatchNums, LoadBatch(w, c, k)
      PROVE  OnlyTouches(c, k)
  <2>1. /\ worker[w].pc = "idle" /\ UNCHANGED store
        /\ \A m \in BatchNums \ {k} : queue'[c][m] = queue[c][m]
        /\ \A b \in Attempts \ {c} : queue'[b] = queue[b] /\ completed'[b] = completed[b]
    BY <1>2, Delivery
  <2>2. ASSUME NEW b \in Attempts, NEW n \in BatchNums, b # c \/ n # k, NEW v \in Workers,
               OnBatch(v, b, n) \/ OnBatch(v, b, n)'
        PROVE  worker'[v] = worker[v]
    <3>1. CASE UNCHANGED worker
      BY <3>1
    <3>2. CASE ~UNCHANGED worker
      <4>1. /\ worker'[w] = [pc |-> "loaded", att |-> c, num |-> k, item |-> store[c][k],
                             failed |-> FALSE]
            /\ \A u \in Workers \ {w} : worker'[u] = worker[u]
        BY <1>2, <3>2, Delivery
      <4>2. worker'[w].att = c /\ worker'[w].num = k
        BY <4>1
      <4> QED BY <2>1, <2>2, <4>1, <4>2 DEF OnBatch, BusyOn
    <3> QED BY <3>1, <3>2
  <2> QED BY <2>1, <2>2 DEF OnlyTouches
<1>3. ASSUME IndexBatch(w) \/ FailBatch(w) \/ CompleteBatch(w) \/ FinishBatch(w) \/ DiesEarly(w)
      PROVE  /\ worker[w].pc # "idle" /\ WAtt(w) \in Attempts /\ worker[w].num \in BatchNums
             /\ OnlyTouches(WAtt(w), worker[w].num)
  <2>1. /\ worker[w].pc # "idle" /\ WAtt(w) \in Attempts /\ worker[w].num \in BatchNums
        /\ \A v \in Workers \ {w} : worker'[v] = worker[v]
    BY <1>3, SameBatch
  <2>2. worker'[w].pc # "idle" => worker'[w].att = WAtt(w) /\ worker'[w].num = worker[w].num
    BY <1>3, SameBatch DEF IdleWorker
  <2>3. \A b \in Attempts, n \in BatchNums : b # WAtt(w) \/ n # worker[w].num =>
          \A v \in Workers : (OnBatch(v, b, n) \/ OnBatch(v, b, n)') => worker'[v] = worker[v]
    BY <2>1, <2>2 DEF OnBatch, BusyOn, WAtt
  <2>4. \A b \in Attempts, n \in BatchNums : b # WAtt(w) \/ n # worker[w].num =>
          queue'[b][n] = queue[b][n]
    <3>1. CASE DiesEarly(w)
      <4>1. queue' = [queue EXCEPT ![WAtt(w)][worker[w].num] = @ + 1]
        BY <3>1 DEF DiesEarly, CrashWorker
      <4> QED BY <1>1, <2>1, <4>1
    <3>2. CASE ~DiesEarly(w)
      BY <1>3, <3>2 DEF IndexBatch, FailBatch, CompleteBatch, FinishBatch
    <3> QED BY <3>1, <3>2
  <2>5. \A b \in Attempts, n \in BatchNums : b # WAtt(w) \/ n # worker[w].num =>
          store'[b][n] = store[b][n]
    <3>1. CASE FinishBatch(w)
      <4>1. store' = [store EXCEPT ![WAtt(w)][worker[w].num] = NoItem]
        BY <3>1 DEF FinishBatch
      <4> QED BY <1>1, <2>1, <4>1
    <3>2. CASE ~FinishBatch(w)
      BY <1>3, <3>2 DEF IndexBatch, FailBatch, CompleteBatch, DiesEarly, CrashWorker
    <3> QED BY <3>1, <3>2
  <2>6. \A b \in Attempts \ {WAtt(w)} : completed'[b] = completed[b]
    <3>1. CASE FailBatch(w) \/ CompleteBatch(w)
      BY <1>1, <2>1, <3>1 DEF FailBatch, CompleteBatch, TaskFails, CountBatch
    <3>2. CASE ~(FailBatch(w) \/ CompleteBatch(w))
      BY <1>3, <3>2 DEF IndexBatch, FinishBatch, DiesEarly, CrashWorker, rowVars
    <3> QED BY <3>1, <3>2
  <2> QED BY <2>1, <2>3, <2>4, <2>5, <2>6 DEF OnlyTouches
<1>4. CASE \E a \in Attempts, n \in BatchNums : LoadBatch(w, a, n)
  BY <1>2, <1>4
<1>5. CASE ~\E a \in Attempts, n \in BatchNums : LoadBatch(w, a, n)
  BY <1>3, <1>5 DEF Works
<1> QED BY <1>4, <1>5

\* Errors only accumulate while workers work.
LEMMA ErrorsKept ==
    ASSUME TypeInv, NEW w \in Workers, Works(w)
    PROVE  errors \subseteq errors'
<1>1. \A b, i : TaskFails(b, i) => errors \subseteq errors'
  BY DEF TaskFails
<1> QED
  BY <1>1 DEF Works, LoadBatch, IndexBatch, FailBatch, CompleteBatch, FinishBatch, DiesEarly, CrashWorker

\* So nothing is to be proved about other batches ...
LEMMA Untouched ==
    ASSUME NEW c \in Attempts, NEW k \in BatchNums, OnlyTouches(c, k),
           NEW b \in Attempts, NEW n \in BatchNums, b # c \/ n # k
    PROVE  /\ queue'[b][n] = queue[b][n] /\ store'[b][n] = store[b][n]
           /\ \A v \in Workers : OnBatch(v, b, n)' <=> OnBatch(v, b, n)
           /\ Waits(b, n)' <=> Waits(b, n)
           /\ InCount(b, n)' <=> InCount(b, n)
           /\ OneTask(b, n) => OneTask(b, n)'
<1>1. /\ queue'[b][n] = queue[b][n] /\ store'[b][n] = store[b][n]
      /\ \A v \in Workers : (OnBatch(v, b, n) \/ OnBatch(v, b, n)') => worker'[v] = worker[v]
  BY DEF OnlyTouches
<1>2. \A v \in Workers : OnBatch(v, b, n)' <=> OnBatch(v, b, n)
  BY <1>1 DEF OnBatch, BusyOn
<1>3. Waits(b, n)' <=> Waits(b, n)
  BY <1>1, <1>2 DEF Waits
<1>4. InCount(b, n)' <=> InCount(b, n)
  <2>1. \A v \in Workers :
          (worker[v].pc = "counted" /\ worker[v].att = b /\ worker[v].num = n) => OnBatch(v, b, n)
    BY DEF OnBatch, BusyOn
  <2>2. \A v \in Workers :
          (worker'[v].pc = "counted" /\ worker'[v].att = b /\ worker'[v].num = n) => OnBatch(v, b, n)'
    BY DEF OnBatch, BusyOn
  <2> QED BY <1>1, <2>1, <2>2 DEF InCount, WAtt
<1>5. OneTask(b, n) => OneTask(b, n)'
  BY <1>1, <1>2 DEF OneTask
<1> QED BY <1>1, <1>2, <1>3, <1>4, <1>5
\* ... and the batch it is about is kept in a task or at a worker, dropped with
\* its file, dropped with an error on record, counted, or done with.
KeepsBatch(c, k) ==
    /\ Waits(c, k)' /\ Waits(c, k) /\ ~InCount(c, k)' /\ ~InCount(c, k)
    /\ store'[c][k] = store[c][k] /\ completed'[c] = completed[c]
DropsBatch(c, k) ==
    /\ ~PERSISTENT_INDEXING
    /\ ~Waits(c, k)' /\ Waits(c, k) /\ ~InCount(c, k)' /\ ~InCount(c, k)
    /\ store'[c][k] = store[c][k] /\ completed'[c] = completed[c]
RecordsBatch(c, k) ==
    /\ PERSISTENT_INDEXING /\ <<c, store[c][k]>> \in errors'
    /\ ~Waits(c, k)' /\ Waits(c, k) /\ ~InCount(c, k)' /\ ~InCount(c, k)
    /\ store'[c][k] = store[c][k] /\ completed'[c] = completed[c] + 1
CountsBatch(c, k) ==
    /\ ~Waits(c, k)' /\ Waits(c, k) /\ InCount(c, k)' /\ ~InCount(c, k)
    /\ store'[c][k] = store[c][k] /\ completed'[c] = completed[c] + 1
DoneWith(c, k) ==
    /\ ~Waits(c, k)' /\ ~Waits(c, k) /\ ~InCount(c, k)' /\ InCount(c, k)
    /\ store'[c][k] = NoItem /\ completed'[c] = completed[c]
Outcome(c, k) ==
    \/ KeepsBatch(c, k) \/ DropsBatch(c, k) \/ RecordsBatch(c, k) \/ CountsBatch(c, k)
    \/ DoneWith(c, k)

LEMMA LoadOutcome ==
    ASSUME TypeInv, NEW w \in Workers, NEW c \in Attempts, NEW k \in BatchNums, LoadBatch(w, c, k),
           OneTask(c, k), HasFile(c)
    PROVE  OneTask(c, k)' /\ Outcome(c, k)
<1>1. /\ queue[c][k] > 0 /\ queue'[c][k] = queue[c][k] - 1 /\ UNCHANGED store
      /\ worker[w].pc = "idle"
  BY Delivery
<1>2. queue[c][k] = 1 /\ queue'[c][k] = 0
  BY <1>1 DEF OneTask
<1>3. (\A v \in Workers : ~OnBatch(v, c, k)) /\ Waits(c, k) /\ ~InCount(c, k)
  BY <1>2 DEF OneTask, Waits, InCount, OnBatch, BusyOn, WAtt
<1>4. store[c][k] # NoItem
  BY <1>3 DEF HasFile, OnFile
<1>5. CASE UNCHANGED worker
  <2>1. (\A v \in Workers : ~OnBatch(v, c, k)') /\ ~InCount(c, k)'
    BY <1>3, <1>5 DEF OnBatch, BusyOn, InCount, WAtt
  <2>2. OneTask(c, k)' /\ ~Waits(c, k)'
    BY <1>2, <2>1 DEF OneTask, Waits
  <2>3. \/ ~PERSISTENT_INDEXING /\ UNCHANGED completed
        \/ /\ PERSISTENT_INDEXING /\ <<c, store[c][k]>> \in errors'
           /\ completed'[c] = completed[c] + 1
    <3>1. \/ /\ store[c][k] = NoItem
             /\ UNCHANGED <<worker, errors, completed>>
          \/ /\ store[c][k] # NoItem /\ status[c] \in Terminal /\ ~PERSISTENT_INDEXING
             /\ UNCHANGED <<worker, errors, completed>>
          \/ /\ store[c][k] # NoItem /\ status[c] \in Terminal /\ PERSISTENT_INDEXING
             /\ errors' = errors \union {<<c, store[c][k]>>}
             /\ completed'[c] = completed[c] + 1 /\ UNCHANGED worker
          \/ /\ store[c][k] # NoItem /\ status[c] \notin Terminal
             /\ worker'[w] = [pc |-> "loaded", att |-> c, num |-> k, item |-> store[c][k],
                              failed |-> FALSE]
             /\ \A v \in Workers \ {w} : worker'[v] = worker[v]
             /\ UNCHANGED <<errors, completed>>
      BY Delivery
    <3>2. ~(worker'[w] = [pc |-> "loaded", att |-> c, num |-> k, item |-> store[c][k],
                          failed |-> FALSE])
      BY <1>1, <1>5
    <3> QED BY <1>4, <3>1, <3>2
  <2> QED BY <1>1, <1>3, <2>1, <2>2, <2>3 DEF Outcome, DropsBatch, RecordsBatch
<1>6. CASE ~UNCHANGED worker
  <2>1. /\ worker'[w] = [pc |-> "loaded", att |-> c, num |-> k, item |-> store[c][k],
                         failed |-> FALSE]
        /\ \A v \in Workers \ {w} : worker'[v] = worker[v]
        /\ UNCHANGED completed
    BY <1>6, Delivery
  <2>2. worker'[w].pc = "loaded" /\ worker'[w].att = c /\ worker'[w].num = k
    BY <2>1
  <2>3. \A v \in Workers : OnBatch(v, c, k)' <=> v = w
    BY <1>3, <2>1, <2>2 DEF OnBatch, BusyOn
  <2>4. OneTask(c, k)'
    BY <1>2, <2>3 DEF OneTask
  <2>5. Waits(c, k)'
    BY <2>2, <2>3 DEF Waits
  <2>6. ~InCount(c, k)'
    BY <1>3, <2>1, <2>2 DEF InCount, WAtt
  <2> QED BY <1>1, <1>3, <2>1, <2>4, <2>5, <2>6 DEF Outcome, KeepsBatch
<1> QED BY <1>5, <1>6

LEMMA WorkOutcome ==
    ASSUME TypeInv, NEW w \in Workers, NEW c \in Attempts, NEW k \in BatchNums,
           IndexBatch(w) \/ FailBatch(w) \/ CompleteBatch(w) \/ FinishBatch(w) \/ DiesEarly(w),
           WAtt(w) = c, worker[w].num = k, OneTask(c, k), HasFile(c), Holds(w)
    PROVE  OneTask(c, k)' /\ Outcome(c, k)
<1>1. /\ queue \in [Attempts -> [BatchNums -> Nat]]
      /\ store \in [Attempts -> [BatchNums -> Items \union {NoItem}]]
      /\ worker \in [Workers -> WorkerType] /\ completed \in [Attempts -> Nat]
  BY DEF TypeInv, SharedOK, WorkersOK, RowsOK
<1>2. /\ worker[w].pc # "idle" /\ \A v \in Workers \ {w} : worker'[v] = worker[v]
      /\ worker'[w].pc # "idle" => worker'[w].att = c /\ worker'[w].num = k
  BY SameBatch DEF IdleWorker
<1>3. OnBatch(w, c, k)
  BY <1>2 DEF OnBatch, BusyOn, WAtt
<1>4. queue[c][k] = 0 /\ \A v \in Workers : OnBatch(v, c, k) => v = w
  BY <1>3 DEF OneTask
<1>5. \A v \in Workers \ {w} : ~OnBatch(v, c, k) /\ ~OnBatch(v, c, k)'
  BY <1>2, <1>4 DEF OnBatch, BusyOn
<1>6. OnBatch(w, c, k)' <=> worker'[w].pc # "idle"
  BY <1>2 DEF OnBatch, BusyOn
<1>7. /\ Waits(c, k) <=> worker[w].pc # "counted"
      /\ Waits(c, k)' <=> queue'[c][k] # 0 \/ worker'[w].pc \notin {"idle", "counted"}
  BY <1>3, <1>4, <1>5, <1>6 DEF Waits
<1>8. /\ InCount(c, k) <=> worker[w].pc = "counted"
      /\ InCount(c, k)' <=> worker'[w].pc = "counted"
  <2>1. \A v \in Workers :
          /\ (worker[v].pc = "counted" /\ worker[v].att = c /\ worker[v].num = k) => OnBatch(v, c, k)
          /\ (worker'[v].pc = "counted" /\ worker'[v].att = c /\ worker'[v].num = k) => OnBatch(v, c, k)'
    BY DEF OnBatch, BusyOn
  <2> QED BY <1>2, <1>3, <1>5, <2>1 DEF InCount, WAtt
<1>9. queue'[c][k] \in {0, 1} /\ (queue'[c][k] = 1 => worker'[w].pc = "idle") => OneTask(c, k)'
  BY <1>5, <1>6 DEF OneTask
<1>10. CASE IndexBatch(w)
  <2>1. /\ worker[w].pc = "loaded" /\ worker'[w].pc = "indexed"
        /\ UNCHANGED <<queue, store, completed>>
    <3>1. PICK bad \in BOOLEAN :
            SetWorker(w, [worker[w] EXCEPT !.pc = "indexed", !.failed = bad])
      BY <1>10 DEF IndexBatch
    <3>2. worker'[w].pc = "indexed"
      BY <1>1, <3>1 DEF SetWorker, WorkerType
    <3> QED BY <1>10, <3>2 DEF IndexBatch, rowVars
  <2> QED BY <1>4, <1>7, <1>8, <1>9, <2>1 DEF Outcome, KeepsBatch
<1>11. CASE DiesEarly(w)
  <2>1. /\ worker[w].pc # "counted" /\ worker'[w].pc = "idle"
        /\ queue'[c][k] = queue[c][k] + 1 /\ UNCHANGED <<store, completed>>
    BY <1>1, <1>11 DEF DiesEarly, CrashWorker, SetWorker, IdleWorker, rowVars
  <2>2. queue'[c][k] = 1
    BY <1>4, <2>1
  <2> QED BY <1>7, <1>8, <1>9, <2>1, <2>2 DEF Outcome, KeepsBatch
<1>12. CASE FailBatch(w)
  <2>1. /\ worker[w].pc = "loaded" /\ worker'[w].pc = "idle" /\ UNCHANGED <<queue, store>>
    BY <1>1, <1>12 DEF FailBatch, SetWorker, IdleWorker
  <2>2. store[c][k] = worker[w].item
    <3>1. k \in OnFile(c)
      BY <1>7, <2>1 DEF HasFile
    <3> QED BY <2>1, <3>1 DEF Holds, OnFile
  <2>3. \/ ~PERSISTENT_INDEXING /\ completed'[c] = completed[c]
        \/ /\ PERSISTENT_INDEXING /\ <<c, store[c][k]>> \in errors'
           /\ completed'[c] = completed[c] + 1
    BY <1>1, <1>12, <2>2 DEF FailBatch, TaskFails, CountBatch
  <2>4. OneTask(c, k)' /\ ~Waits(c, k)' /\ Waits(c, k) /\ ~InCount(c, k)' /\ ~InCount(c, k)
    BY <1>4, <1>7, <1>8, <1>9, <2>1
  <2> QED BY <2>1, <2>3, <2>4 DEF Outcome, DropsBatch, RecordsBatch
<1>13. CASE CompleteBatch(w)
  <2>1. /\ worker[w].pc = "indexed" /\ worker'[w].pc = "counted" /\ UNCHANGED <<queue, store>>
        /\ completed'[c] = completed[c] + 1
    BY <1>1, <1>13 DEF CompleteBatch, SetWorker, WorkerType, CountBatch
  <2>2. OneTask(c, k)' /\ ~Waits(c, k)' /\ Waits(c, k) /\ InCount(c, k)' /\ ~InCount(c, k)
    BY <1>4, <1>7, <1>8, <1>9, <2>1
  <2> QED BY <2>1, <2>2 DEF Outcome, CountsBatch
<1>14. CASE FinishBatch(w)
  <2>1. /\ worker[w].pc = "counted" /\ worker'[w].pc = "idle" /\ UNCHANGED <<queue, completed>>
        /\ store'[c][k] = NoItem
    BY <1>1, <1>14 DEF FinishBatch, SetWorker, IdleWorker, rowVars
  <2>2. OneTask(c, k)' /\ ~Waits(c, k)' /\ ~Waits(c, k) /\ ~InCount(c, k)' /\ InCount(c, k)
    BY <1>4, <1>7, <1>8, <1>9, <2>1
  <2> QED BY <2>1, <2>2 DEF Outcome, DoneWith
<1> QED BY <1>10, <1>11, <1>12, <1>13, <1>14
\* A batch that is still to be counted was handed out.
LEMMA WaitsHanded ==
    ASSUME TypeInv, CountInv, Numbers, TotalBounds, NEW b \in Attempts, HasFile(b),
           fetcher[b].pc \in {"initial"} \union Extracting \/ total[b] # None,
           NEW n \in BatchNums, Waits(b, n)
    PROVE  n < Handed(b)
<1>1. CASE total[b] # None
  BY <1>1 DEF HasFile, TotalBounds, Handed
<1>2. CASE total[b] = None
  BY <1>2 DEF Handed, Numbers, NumbersOf, Waits, OnBatch
<1> QED BY <1>1, <1>2

LEMMA TasksWorks ==
    ASSUME TypeInv, CountInv, Numbers, TotalBounds, WorkerItems, NEW w \in Workers, Works(w),
           NEW b \in Attempts, TasksOf(b)
    PROVE  TasksOf(b)'
<1>1. PICK c \in Attempts, k \in BatchNums :
        /\ OnlyTouches(c, k)
        /\ LoadBatch(w, c, k) \/ (worker[w].pc # "idle" /\ WAtt(w) = c /\ worker[w].num = k)
  BY WorksTouch
<1>2. \A n \in BatchNums : b # c \/ n # k =>
        /\ store'[b][n] = store[b][n] /\ (Waits(b, n)' <=> Waits(b, n))
        /\ InCount(b, n)' <=> InCount(b, n)
        /\ OneTask(b, n) => OneTask(b, n)'
  BY <1>1, Untouched
<1>3. b = c => OneTask(b, k)' /\ Outcome(b, k)
  <2>1. SUFFICES ASSUME b = c PROVE OneTask(b, k)' /\ Outcome(b, k)
    OBVIOUS
  <2>2. OneTask(c, k) /\ HasFile(c) /\ Holds(w)
    BY <2>1 DEF TasksOf, WorkerItems
  <2>3. CASE LoadBatch(w, c, k)
    BY <2>1, <2>2, <2>3, LoadOutcome
  <2>4. CASE worker[w].pc # "idle" /\ WAtt(w) = c /\ worker[w].num = k
    <3>1. ~\E a \in Attempts, n \in BatchNums : LoadBatch(w, a, n)
      BY <2>4 DEF LoadBatch
    <3>2. IndexBatch(w) \/ FailBatch(w) \/ CompleteBatch(w) \/ FinishBatch(w) \/ DiesEarly(w)
      BY <3>1 DEF Works
    <3> QED BY <2>1, <2>2, <2>4, <3>2, WorkOutcome
  <2> QED BY <1>1, <2>3, <2>4
<1>4. /\ UNCHANGED <<fetcher, total>> /\ errors \subseteq errors'
      /\ b # c => completed'[b] = completed[b]
  <2>1. UNCHANGED <<fetcher, total>>
    BY DEF Works, LoadBatch, IndexBatch, FailBatch, CompleteBatch, FinishBatch, DiesEarly, CrashWorker,
           rowVars
  <2> QED BY <1>1, <2>1, ErrorsKept DEF OnlyTouches
<1>5. \A n \in BatchNums : OneTask(b, n)'
  BY <1>2, <1>3 DEF TasksOf
<1>6. HasFile(b)'
  <2>1. ASSUME NEW n \in BatchNums, Waits(b, n)' PROVE Waits(b, n) /\ store'[b][n] = store[b][n]
    BY <1>2, <1>3, <2>1 DEF Outcome, KeepsBatch, DropsBatch, RecordsBatch, CountsBatch, DoneWith
  <2> QED BY <2>1 DEF TasksOf, HasFile, OnFile
<1>7. Handed(b)' = Handed(b)
  BY <1>4 DEF Handed
<1>8. LostRecorded(b)'
  <2>1. SUFFICES ASSUME PERSISTENT_INDEXING, NEW n \in BatchNums, store'[b][n] # NoItem, n < Handed(b)
                 PROVE  Waits(b, n)' \/ InCount(b, n)' \/ <<b, store'[b][n]>> \in errors'
    BY <1>7 DEF LostRecorded, OnFile
  <2>2. CASE b # c \/ n # k
    <3>1. Waits(b, n) \/ InCount(b, n) \/ <<b, store[b][n]>> \in errors
      BY <1>2, <2>1, <2>2 DEF TasksOf, LostRecorded, OnFile
    <3> QED BY <1>2, <1>4, <2>2, <3>1
  <2>3. CASE b = c /\ n = k
    BY <1>3, <2>1, <2>3 DEF Outcome, KeepsBatch, DropsBatch, RecordsBatch, CountsBatch, DoneWith
  <2> QED BY <2>2, <2>3
<1>9. OpenBound(b)'
  <2>1. SUFFICES ASSUME fetcher[b].pc \in {"initial"} \union Extracting \/ total[b] # None
                 PROVE  completed'[b] + Cardinality(Open(b)') <= Handed(b)
    BY <1>4, <1>7 DEF OpenBound, Extracting
  <2>2. completed[b] + Cardinality(Open(b)) <= Handed(b)
    BY <2>1 DEF TasksOf, OpenBound
  <2>3. completed[b] \in Nat /\ Handed(b) \in Nat
    <3>1. total[b] \in Nat \union {None} /\ fetcher[b].num \in Nat /\ completed[b] \in Nat
      BY DEF TypeInv, RowsOK, FetchersOK, FetcherType
    <3> QED BY <3>1 DEF Handed
  <2>4. Open(b) \subseteq BatchNums /\ Open(b)' \subseteq BatchNums
    BY DEF Open, Kept, OnFile
  <2>5. /\ \A S \in SUBSET Open(b) : Cardinality(S) \in Nat /\ Cardinality(S) <= Cardinality(Open(b))
        /\ \A m \in Open(b) : Cardinality(Open(b) \ {m}) = Cardinality(Open(b)) - 1
        /\ Cardinality(Open(b)) \in Nat
    BY <2>4, Sizes
  <2>6. ASSUME NEW n \in BatchNums, b # c \/ n # k PROVE n \in Open(b)' <=> n \in Open(b)
    BY <1>2, <1>7, <2>6 DEF Open, Kept, OnFile
  <2>7. CASE b # c
    <3>1. Open(b)' = Open(b)
      BY <2>4, <2>6, <2>7
    <3> QED BY <1>4, <2>2, <2>7, <3>1
  <2>8. CASE b = c /\ (KeepsBatch(b, k) \/ DropsBatch(b, k) \/ DoneWith(b, k))
    <3>1. k \in Open(b)' => k \in Open(b)
      BY <1>7, <2>8 DEF Open, Kept, OnFile, KeepsBatch, DropsBatch, DoneWith
    <3>2. Open(b)' \subseteq Open(b)
      BY <2>4, <2>6, <3>1
    <3>3. completed'[b] = completed[b]
      BY <2>8 DEF KeepsBatch, DropsBatch, DoneWith
    <3> QED BY <2>2, <2>3, <2>5, <3>2, <3>3
  <2>9. CASE b = c /\ (RecordsBatch(b, k) \/ CountsBatch(b, k))
    <3>1. completed'[b] = completed[b] + 1 /\ Waits(b, k) /\ ~InCount(b, k)
      BY <2>9 DEF RecordsBatch, CountsBatch
    <3>2. k \in Open(b)
      <4>1. k \in OnFile(b)
        BY <3>1 DEF TasksOf, HasFile
      <4>2. k < Handed(b)
        BY <2>1, <3>1, WaitsHanded DEF TasksOf
      <4> QED BY <3>1, <4>1, <4>2 DEF Open, Kept
    <3>3. k \notin Open(b)'
      BY <2>9 DEF Open, Kept, RecordsBatch, CountsBatch
    <3>4. Open(b)' \subseteq Open(b) \ {k}
      BY <2>4, <2>6, <3>3
    <3>5. Cardinality(Open(b)') \in Nat /\ Cardinality(Open(b)') <= Cardinality(Open(b)) - 1
      <4>1. \A T \in SUBSET (Open(b) \ {k}) :
              Cardinality(T) \in Nat /\ Cardinality(T) <= Cardinality(Open(b) \ {k})
        BY <2>4, Sizes
      <4> QED BY <2>5, <3>2, <3>4, <4>1
    <3> QED BY <2>2, <2>3, <2>5, <3>1, <3>5
  <2> QED BY <1>3, <2>7, <2>8, <2>9 DEF Outcome
<1> QED BY <1>5, <1>6, <1>8, <1>9 DEF TasksOf
\* Attempts that are yet to be created are handed nothing.
LEMMA TasksAway ==
    ASSUME Undisturbed, TypeInv, CountInv, RowInv, Stages, LastOwns,
           NEW a \in Attempts, Fetches(a), NEW b \in Attempts \ {a}, Newest(b), TasksOf(b)
    PROVE  TasksOf(b)'
<1>1. status[a] # "absent" /\ Newest(a)
  BY FetchesLive, AtWork
<1>2. status[b] = "absent"
  BY <1>1 DEF Newest, Attempts
<1>3. fetcher[b].pc = "none" /\ ~Placed(b)
  BY <1>2, Blank
<1>4. /\ fetcher'[b] = fetcher[b] /\ checkpoint'[b] = checkpoint[b] /\ total'[b] = total[b]
      /\ completed'[b] = completed[b] /\ queue'[b] = queue[b] /\ UNCHANGED <<errors, worker>>
  BY FetchesOwn
<1>5. LastOwns'
  <2>1. [Next]_vars
    BY DEF Fetches, Next, Fetch
  <2> QED BY <2>1, LastOwnsStep
<1>6. \A n \in BatchNums : store[b][n] = NoItem /\ store'[b][n] = NoItem
  <2>1. ~Placed(b)'
    BY <1>3, <1>4 DEF Placed
  <2> QED BY <1>3, <1>5, <2>1 DEF LastOwns
<1>7. store'[b] = store[b]
  <2>1. TypeInv'
    <3>1. [Next]_vars
      BY DEF Fetches, Next, Fetch
    <3> QED BY <3>1, ProcessesStep, RowsStep, SharedStep DEF TypeInv
  <2>2. store[b] \in [BatchNums -> Items \union {NoItem}] /\ store'[b] \in [BatchNums -> Items \union {NoItem}]
    BY <2>1 DEF TypeInv, SharedOK
  <2> QED BY <1>6, <2>2
<1>8. Handed(b)' = Handed(b)
  BY <1>4 DEF Handed
<1> QED BY <1>4, <1>7, <1>8, TasksSame

LEMMA TasksFetched ==
    ASSUME TypeInv, CountInv, RowInv, Stages, LastOwns, Numbers, Counted,
           NEW a \in Attempts, Fetches(a), TasksOf(a)
    PROVE  TasksOf(a)'
<1>1. /\ fetcher \in [Attempts -> FetcherType] /\ fetcher[a] \in FetcherType
      /\ fetcher[a].num \in Nat /\ fetcher[a].recent \in Nat
  BY DEF TypeInv, FetchersOK, FetcherType
<1>2. /\ store \in [Attempts -> [BatchNums -> Items \union {NoItem}]]
      /\ queue \in [Attempts -> [BatchNums -> Nat]] /\ completed \in [Attempts -> Nat]
      /\ total \in [Attempts -> Nat \union {None}]
  BY DEF TypeInv, SharedOK, RowsOK
<1>3. UNCHANGED <<worker, errors>>
  BY FetchesOwn
<1>4. NumbersOf(a, fetcher[a]) /\ StageOf(a, fetcher[a]) /\ CountedOf(a, fetcher[a])
  BY DEF Numbers, Stages, Counted
<1>5. total[a] = None /\ Handed(a) = fetcher[a].num
  <2>1. Live(a)
    BY FetchesLive
  <2> QED BY <2>1 DEF CountInv, TotalSetLast, Live, Handed
<1>6. /\ \A n \in BatchNums : OneTask(a, n)
      /\ HasFile(a) /\ LostRecorded(a) /\ OpenBound(a)
  BY DEF TasksOf
<1>7. \A n \in BatchNums : InCount(a, n)' <=> InCount(a, n)
  BY <1>3 DEF InCount, WAtt
<1> USE DEF Extracting
<1>8. ASSUME UNCHANGED <<queue, store, completed, total>>, fetcher'[a].num = fetcher[a].num,
             fetcher'[a].pc \in {"initial"} \union Extracting => fetcher[a].pc \in {"initial"} \union Extracting
      PROVE  TasksOf(a)'
  <2>1. Handed(a)' = Handed(a)
    BY <1>5, <1>8 DEF Handed
  <2> QED BY <1>3, <1>5, <1>8, <2>1, TasksSame
<1>9. CASE SetPollWindow(a)
  <2>1. fetcher'[a].pc = "connector" /\ fetcher'[a].num = fetcher[a].num
    BY <1>1, <1>9 DEF SetPollWindow, SetFetcher, FetcherType
  <2> QED BY <1>8, <1>9, <2>1 DEF SetPollWindow
<1>10. CASE LoadCheckpoint(a)
  <2>1. /\ fetcher[a].pc = "connector" /\ fetcher'[a].num = fetcher[a].num
        /\ UNCHANGED <<completed, total, queue>>
        /\ \/ fetcher'[a].pc = "reissue" /\ UNCHANGED store
           \/ fetcher'[a].pc = "initial" /\ store' = EmptyStore
    BY <1>10, Loading DEF rowVars
  <2>2. CASE fetcher'[a].pc = "reissue" /\ UNCHANGED store
    BY <1>8, <2>1, <2>2
  <2>3. CASE fetcher'[a].pc = "initial" /\ store' = EmptyStore
    <3>1. /\ fetcher[a].num = 0 /\ completed[a] = 0
          /\ \A n \in BatchNums : queue'[a][n] = 0
          /\ \A w \in Workers : ~BusyOn(w, a)
      BY <1>4, <2>1 DEF StageOf, Unplaced
    <3>2. OnFile(a)' = {}
      BY <2>3 DEF OnFile, EmptyStore
    <3>3. Open(a)' = {}
      BY <3>2 DEF Open, Kept
    <3>4. \A n \in BatchNums : OneTask(a, n)' /\ ~Waits(a, n)'
      BY <1>3, <3>1 DEF OneTask, Waits, OnBatch, BusyOn
    <3>5. Handed(a)' = 0
      BY <1>5, <2>1, <3>1 DEF Handed
    <3>6. Cardinality(Open(a)') = 0
      BY <3>3, FS_EmptySet
    <3> QED BY <2>1, <3>1, <3>2, <3>4, <3>5, <3>6 DEF TasksOf, HasFile, LostRecorded, OpenBound
  <2> QED BY <2>1, <2>2, <2>3
<1>11. CASE ReissueOldBatches(a)
  <2>1. /\ fetcher[a].pc = "reissue" /\ fetcher'[a].pc = "assign"
        /\ UNCHANGED total
    BY <1>11, Reissuing DEF rowVars
  <2>2. /\ \A n \in BatchNums : queue[a][n] = 0
        /\ \A w \in Workers : ~BusyOn(w, a)
    BY <1>4, <2>1 DEF StageOf, Unplaced
  <2>3. \A n \in BatchNums : queue'[a][n] = queue[a][n] + Cardinality({f \in Files : f[2] = n})
    BY <1>11, Reissuing
  <2>4. \A n \in BatchNums :
          \/ \E f \in Files : f[2] = n /\ store'[a][n] = store[f[1]][n] /\ store'[a][n] # NoItem
          \/ store'[a][n] = NoItem /\ \A f \in Files : f[2] # n
    BY <1>11, Reissuing
  <2>5. ASSUME NEW n \in BatchNums
        PROVE  \/ n \in OnFile(a)' /\ queue'[a][n] = 1
               \/ n \notin OnFile(a)' /\ queue'[a][n] = 0
    <3>1. ASSUME NEW f \in Files, f[2] = n PROVE queue'[a][n] = 1
      <4>1. {g \in Files : g[2] = n} = {f}
        BY <3>1, SameOwner
      <4>2. Cardinality({f}) = 1
        BY FS_Singleton
      <4> QED BY <2>2, <2>3, <4>1, <4>2
    <3>2. ASSUME \A f \in Files : f[2] # n PROVE queue'[a][n] = 0
      <4>1. {g \in Files : g[2] = n} = {}
        BY <3>2
      <4>2. Cardinality({}) = 0
        BY FS_EmptySet
      <4> QED BY <2>2, <2>3, <4>1, <4>2
    <3> QED BY <2>4, <3>1, <3>2 DEF OnFile
  <2>6. \A w \in Workers, n \in BatchNums : ~OnBatch(w, a, n)'
    BY <1>3, <2>2 DEF OnBatch, BusyOn
  <2>7. \A n \in BatchNums : OneTask(a, n)'
    BY <2>5, <2>6 DEF OneTask
  <2>8. \A n \in BatchNums : Waits(a, n)' <=> n \in OnFile(a)'
    BY <2>5, <2>6 DEF Waits
  <2>9. OpenBound(a)'
    BY <1>5, <2>1 DEF OpenBound
  <2>10. OnFile(a)' \subseteq BatchNums
    BY DEF OnFile
  <2> QED BY <2>7, <2>8, <2>9, <2>10 DEF TasksOf, HasFile, LostRecorded
<1>12. CASE CarryOverCompleted(a)
  <2>1. /\ fetcher[a].pc = "assign" /\ fetcher'[a].pc = "initial"
        /\ fetcher'[a].num = fetcher[a].num /\ UNCHANGED <<store, queue, total>>
    BY <1>1, <1>12 DEF CarryOverCompleted, FetcherAt, GoTo, SetFetcher, FetcherType
  <2>2. completed'[a] = fetcher[a].recent
    <3>1. completed[a] = 0
      BY <1>4, <2>1 DEF StageOf
    <3> QED BY <1>2, <1>12, <3>1 DEF CarryOverCompleted
  <2>3. fetcher[a].num = fetcher[a].recent + Cardinality(OnFile(a))
    BY <1>4, <2>1 DEF CountedOf
  <2>4. Handed(a)' = Handed(a)
    BY <1>5, <2>1 DEF Handed
  <2>5. /\ \A n \in BatchNums : (Waits(a, n)' <=> Waits(a, n)) /\ OneTask(a, n)'
        /\ OnFile(a)' = OnFile(a) /\ \A n \in BatchNums : store'[a][n] = store[a][n]
    BY <1>3, <1>6, <2>1 DEF Waits, OneTask, OnBatch, BusyOn, OnFile
  <2>6. OnFile(a) \subseteq BatchNums
    BY DEF OnFile
  <2>7. HasFile(a)'
    BY <1>6, <2>5 DEF HasFile
  <2>8. LostRecorded(a)'
    BY <1>3, <1>6, <1>7, <2>4, <2>5, <2>6 DEF LostRecorded
  <2>9. Open(a)' \subseteq OnFile(a)
    BY <2>5 DEF Open, Kept
  <2>10. /\ Cardinality(Open(a)') \in Nat /\ Cardinality(OnFile(a)) \in Nat
         /\ Cardinality(Open(a)') <= Cardinality(OnFile(a))
    BY <2>6, <2>9, Sizes
  <2>11. OpenBound(a)'
    BY <1>1, <1>5, <2>2, <2>3, <2>4, <2>10 DEF OpenBound
  <2> QED BY <2>5, <2>7, <2>8, <2>11 DEF TasksOf
<1>13. CASE SaveCheckpoint(a)
  <2>1. /\ fetcher[a].pc \in {"initial", "save"} /\ fetcher'[a].num = fetcher[a].num
        /\ UNCHANGED <<store, queue, completed, total>>
    BY <1>1, <1>13 DEF SaveCheckpoint, FetcherAt, SetFetcher, FetcherType
  <2> QED BY <1>8, <2>1
<1>14. CASE StoreBatch(a)
  <2> DEFINE num == fetcher[a].num
  <2>1. /\ fetcher[a].pc = "store" /\ fetcher'[a].num = num /\ num \in BatchNums
        /\ UNCHANGED <<queue, completed, total>>
    BY <1>1, <1>14 DEF StoreBatch, FetcherAt, GoTo, SetFetcher, FetcherType, rowVars
  <2>2. /\ \A n \in BatchNums \ {num} : store'[a][n] = store[a][n]
        /\ store'[a][num] # NoItem
    <3>1. store'[a][num] = fetcher[a].pos + 1 /\ \A n \in BatchNums \ {num} : store'[a][n] = store[a][n]
      BY <1>2, <1>14, <2>1 DEF StoreBatch
    <3>2. fetcher[a].pos \in Nat
      BY <1>1 DEF FetcherType, Items
    <3> QED BY <3>1, <3>2 DEF NoItem
  <2>3. /\ \A n \in BatchNums : (Waits(a, n)' <=> Waits(a, n)) /\ OneTask(a, n)'
        /\ Handed(a)' = num /\ Handed(a) = num
    BY <1>3, <1>5, <1>6, <2>1 DEF Waits, OneTask, OnBatch, BusyOn, Handed
  <2>4. HasFile(a)'
    BY <1>6, <2>2, <2>3 DEF HasFile, OnFile
  <2>5. \A n \in BatchNums : n < num => n # num
    BY <1>1 DEF BatchNums
  <2>6. LostRecorded(a)'
    BY <1>3, <1>6, <1>7, <2>2, <2>3, <2>5 DEF LostRecorded, OnFile
  <2>7. Open(a)' = Open(a)
    BY <1>7, <2>2, <2>3, <2>5 DEF Open, Kept, OnFile
  <2>8. OpenBound(a)'
    BY <1>6, <2>1, <2>3, <2>7 DEF OpenBound
  <2> QED BY <2>3, <2>4, <2>6, <2>8 DEF TasksOf
<1>15. CASE SendTask(a)
  <2> DEFINE num == fetcher[a].num
  <2>1. /\ fetcher[a].pc = "send" /\ fetcher'[a].pc = "loop" /\ fetcher'[a].num = num + 1
        /\ UNCHANGED <<store, completed, total>>
    BY <1>1, <1>15 DEF SendTask, FetcherAt, SetFetcher, FetcherType, rowVars
  <2>2. num \in BatchNums /\ store[a][num] # NoItem
    <3>1. num \in BatchNums /\ fetcher[a].pos \in 0..(NumItems - 1)
      BY <2>1 DEF TypeInv, FetchersOK, FetcherSound
    <3>2. store[a][num] = fetcher[a].pos + 1
      BY <1>4, <2>1 DEF NumbersOf
    <3> QED BY <3>1, <3>2, ConstantsAssumption DEF NoItem
  <2>3. /\ queue[a][num] = 0 /\ \A w \in Workers : ~OnBatch(w, a, num)
    BY <1>1, <1>4, <2>1, <2>2 DEF NumbersOf, OnBatch
  <2>4. queue'[a][num] = 1 /\ \A n \in BatchNums \ {num} : queue'[a][n] = queue[a][n]
    BY <1>2, <1>15, <2>2, <2>3 DEF SendTask
  <2>5. \A n \in BatchNums : /\ Waits(a, n)' <=> Waits(a, n) \/ n = num
                             /\ OneTask(a, n)'
    BY <1>3, <1>6, <2>3, <2>4 DEF Waits, OneTask, OnBatch, BusyOn
  <2>6. Handed(a)' = num + 1 /\ Handed(a) = num
    BY <1>5, <2>1 DEF Handed
  <2>7. HasFile(a)'
    BY <1>6, <2>1, <2>2, <2>5 DEF HasFile, OnFile
  <2>8. \A n \in BatchNums : n < num + 1 => n < num \/ n = num
    BY <1>1 DEF BatchNums
  <2>9. LostRecorded(a)'
    BY <1>3, <1>6, <1>7, <2>1, <2>5, <2>6, <2>8 DEF LostRecorded, OnFile
  <2>10. Open(a)' \subseteq Open(a) \union {num}
    BY <1>7, <2>1, <2>5, <2>6, <2>8 DEF Open, Kept, OnFile
  <2>11. num \notin Open(a) /\ Open(a) \subseteq BatchNums
    BY <1>1, <2>6 DEF Open, Kept, OnFile
  <2>12. /\ Cardinality(Open(a)') \in Nat /\ Cardinality(Open(a)) \in Nat
         /\ Cardinality(Open(a)') <= Cardinality(Open(a)) + 1
    <3>1. Cardinality(Open(a) \union {num}) = Cardinality(Open(a)) + 1 /\ Cardinality(Open(a)) \in Nat
      BY <2>2, <2>11, Sizes
    <3>2. Open(a) \union {num} \subseteq BatchNums
      BY <2>2, <2>11
    <3>3. Cardinality(Open(a)') \in Nat /\ Cardinality(Open(a)') <= Cardinality(Open(a) \union {num})
      BY <2>10, <3>2, Sizes
    <3> QED BY <3>1, <3>3
  <2>13. OpenBound(a)'
    <3>1. completed[a] + Cardinality(Open(a)) <= num
      BY <1>6, <2>1, <2>6 DEF OpenBound
    <3>2. completed'[a] + Cardinality(Open(a)') <= num + 1
      BY <1>1, <1>2, <2>1, <2>12, <3>1
    <3> QED BY <2>6, <3>2 DEF OpenBound
  <2> QED BY <2>5, <2>7, <2>9, <2>13 DEF TasksOf
<1>16. CASE SetTotalBatches(a)
  <2>1. /\ fetcher[a].pc = "loop" /\ total'[a] = fetcher[a].num
        /\ UNCHANGED <<store, queue, completed>>
    BY <1>2, <1>16 DEF SetTotalBatches, FetcherAt
  <2>2. Handed(a)' = Handed(a)
    BY <1>1, <1>5, <2>1 DEF Handed, None
  <2> QED BY <1>3, <2>1, <2>2, TasksSame
<1> QED BY <1>9, <1>10, <1>11, <1>12, <1>13, <1>14, <1>15, <1>16 DEF Fetches
\* When all batches are counted none is open, and no task or worker is left that
\* has one to count.
LEMMA NothingOpen ==
    ASSUME TypeInv, TotalBounds, NEW a \in Attempts, TasksOf(a), IndexingCompleted(a)
    PROVE  Open(a) = {} /\ \A n \in BatchNums : ~Waits(a, n)
<1>1. /\ total[a] # None /\ completed[a] >= total[a]
      /\ total[a] \in Nat /\ completed[a] \in Nat
  BY DEF IndexingCompleted, TypeInv, RowsOK
<1>2. completed[a] + Cardinality(Open(a)) <= total[a]
  BY <1>1 DEF TasksOf, OpenBound, Handed
<1>3. Open(a) \subseteq BatchNums
  BY DEF Open, Kept, OnFile
<1>4. Open(a) = {}
  <2>1. IsFiniteSet(Open(a)) /\ Cardinality(Open(a)) \in Nat
    BY <1>3, Sizes
  <2>2. Cardinality(Open(a)) = 0
    BY <1>1, <1>2, <2>1
  <2> QED BY <2>1, <2>2, FS_EmptySet
<1>5. ASSUME NEW n \in BatchNums, Waits(a, n) PROVE n \in Open(a)
  <2>1. n \in OnFile(a)
    BY <1>5 DEF TasksOf, HasFile
  <2>2. n < Handed(a)
    BY <1>1, <2>1 DEF TotalBounds, Handed
  <2>3. OneTask(a, n)
    BY DEF TasksOf
  <2>4. ~InCount(a, n)
    <3>1. SUFFICES ASSUME NEW w \in Workers, worker[w].pc = "counted", WAtt(w) = a, worker[w].num = n
                   PROVE  FALSE
      BY DEF InCount
    <3>2. OnBatch(w, a, n)
      BY <3>1 DEF OnBatch, BusyOn, WAtt
    <3> QED BY <1>5, <2>3, <3>1, <3>2 DEF OneTask, Waits
  <2> QED BY <1>5, <2>1, <2>2, <2>4 DEF Open, Kept
<1> QED BY <1>4, <1>5

LEMMA TasksCleanUp ==
    ASSUME TypeInv, CountInv, RowInv, Stages, LastOwns, TotalBounds, CleanUpBatches,
           NEW b \in Attempts, Newest(b), TasksOf(b)
    PROVE  TasksOf(b)'
<1>1. /\ UNCHANGED <<completed, total, errors, queue, fetcher, worker>> /\ store' = EmptyStore
      /\ monitor.pc = "cleanup"
  BY DEF CleanUpBatches, rowVars
<1>2. IndexingCompleted(monitor.att) /\ status[monitor.att] # "absent" /\ Newest(monitor.att)
  BY <1>1 DEF CountInv, SnapshotStands, RowInv, MonitorOnNewest
<1>3. \A n \in BatchNums : ~Waits(b, n)
  <2>1. CASE b = monitor.att
    BY <1>2, <2>1, NothingOpen
  <2>2. CASE b # monitor.att
    <3>1. status[b] = "absent"
      <4>1. monitor.att \in Attempts
        BY <1>1 DEF TypeInv, MonitorOK
      <4> QED BY <1>2, <2>2, <4>1 DEF Newest, Attempts
    <3>2. ~Placed(b)
      BY <3>1, Blank
    <3>3. OnFile(b) = {}
      BY <3>2 DEF LastOwns, OnFile
    <3> QED BY <3>3 DEF TasksOf, HasFile
  <2> QED BY <2>1, <2>2
<1>4. OnFile(b)' = {}
  BY <1>1 DEF OnFile, EmptyStore
<1>5. \A n \in BatchNums : (Waits(b, n)' <=> Waits(b, n)) /\ OneTask(b, n)'
  BY <1>1 DEF TasksOf, Waits, OneTask, OnBatch, BusyOn
<1>6. HasFile(b)' /\ LostRecorded(b)'
  BY <1>3, <1>4, <1>5 DEF HasFile, LostRecorded
<1>7. OpenBound(b)'
  <2>1. SUFFICES ASSUME fetcher[b].pc \in {"initial"} \union Extracting \/ total[b] # None
                 PROVE  completed'[b] + Cardinality(Open(b)') <= Handed(b)'
    BY <1>1 DEF OpenBound, Extracting
  <2>2. completed[b] + Cardinality(Open(b)) <= Handed(b)
    BY <2>1 DEF TasksOf, OpenBound
  <2>3. Cardinality(Open(b)) \in Nat
    <3>1. Open(b) \subseteq BatchNums
      BY DEF Open, Kept, OnFile
    <3> QED BY <3>1, Sizes
  <2>4. completed[b] \in Nat /\ Handed(b) \in Int
    BY DEF TypeInv, RowsOK, FetchersOK, FetcherType, Handed, None
  <2>5. Open(b)' = {}
    BY <1>4 DEF Open, Kept
  <2>6. Cardinality(Open(b)') = 0
    BY <2>5, FS_EmptySet
  <2>7. completed'[b] = completed[b] /\ Handed(b)' = Handed(b)
    BY <1>1 DEF Handed
  <2> QED BY <2>2, <2>3, <2>4, <2>6, <2>7
<1> QED BY <1>5, <1>6, <1>7 DEF TasksOf

LEMMA TasksStep ==
    ASSUME Undisturbed, TypeInv, CountInv, Numbering, TotalBounds, WorkerItems, Tasks, [Next]_vars
    PROVE  Tasks'
<1> USE DEF Numbering
<1>1. CASE \E s \in Settings : CreateAttempt(s)
  BY <1>1, TasksCreate
<1>2. CASE \E a \in Attempts : Quiet(a)
  BY <1>2, TasksQuiet
<1>3. ASSUME NoneCreated, \A b \in Attempts : Newest(b) /\ TasksOf(b) => TasksOf(b)'
      PROVE  Tasks'
  <2>1. \A b \in Attempts : Newest(b)' <=> Newest(b)
    BY <1>3, OrderKept
  <2> QED BY <1>3, <2>1 DEF Tasks
<1>4. ASSUME NEW a \in Attempts, Fetches(a) PROVE Tasks'
  <2>1. NoneCreated
    BY <1>4, FetchesRowStep
  <2>2. \A b \in Attempts : Newest(b) /\ TasksOf(b) => TasksOf(b)'
    BY <1>4, TasksAway, TasksFetched
  <2> QED BY <1>3, <2>1, <2>2
<1>5. ASSUME NEW w \in Workers, Works(w) PROVE Tasks'
  <2>1. NoneCreated
    BY <1>5, WorksRowStep
  <2>2. \A b \in Attempts : TasksOf(b) => TasksOf(b)'
    BY <1>5, TasksWorks
  <2> QED BY <1>3, <2>1, <2>2
<1>6. CASE CleanUpBatches
  <2>1. NoneCreated
    BY <1>6, CleanUpRowStep
  <2>2. \A b \in Attempts : Newest(b) /\ TasksOf(b) => TasksOf(b)'
    BY <1>6, TasksCleanUp
  <2> QED BY <1>3, <2>1, <2>2
<1>7. CASE UNCHANGED vars
  <2>1. NoneCreated
    BY <1>7, CleanUpRowStep
  <2>2. \A b \in Attempts : TasksOf(b) => TasksOf(b)'
    <3>1. UNCHANGED <<completed, total, errors, queue, fetcher, worker, store>>
      BY <1>7 DEF vars, rowVars
    <3>2. \A b \in Attempts : Handed(b)' = Handed(b)
      BY <3>1 DEF Handed
    <3> QED BY <3>1, <3>2, TasksSame
  <2> QED BY <1>3, <2>1, <2>2
<1> QED BY <1>1, <1>2, <1>4, <1>5, <1>6, <1>7, Steps

\* What keeps track of batches and documents, together.
Tracking == TotalBounds /\ WorkerItems /\ Tasks

LEMMA TrackingInit == Init => Tracking
<1> SUFFICES ASSUME Init PROVE Tracking
  OBVIOUS
<1>1. /\ \A a \in Attempts : total[a] = None /\ fetcher[a] = NewFetcher
      /\ \A a \in Attempts, n \in BatchNums : store[a][n] = NoItem /\ queue[a][n] = 0
      /\ \A w \in Workers : worker[w].pc = "idle"
  BY DEF Init, EmptyStore, IdleWorker
<1>2. TotalBounds /\ WorkerItems
  BY <1>1 DEF TotalBounds, WorkerItems, Holds
<1>3. ASSUME NEW a \in Attempts PROVE TasksOf(a)
  <2>1. OnFile(a) = {} /\ \A n \in BatchNums : ~Waits(a, n) /\ OneTask(a, n)
    BY <1>1 DEF OnFile, Waits, OneTask, OnBatch, BusyOn
  <2>2. OpenBound(a)
    BY <1>1 DEF OpenBound, NewFetcher, Extracting
  <2> QED BY <2>1, <2>2 DEF TasksOf, HasFile, LostRecorded
<1> QED BY <1>2, <1>3 DEF Tracking, Tasks

LEMMA TrackingStep ==
    ASSUME Undisturbed, TypeInv, CountInv, Numbering, Tracking, [Next]_vars
    PROVE  Tracking'
BY TotalBoundsStep, WorkerItemsStep, TasksStep DEF Tracking, Numbering

LEMMA TrackingHolds == Undisturbed /\ Spec => [](TypeInv /\ CountInv /\ Numbering /\ Tracking)
<1>1. Init => Tracking
  BY TrackingInit
<1>2. Undisturbed /\ TypeInv /\ CountInv /\ Numbering /\ Tracking /\ [Next]_vars => Tracking'
  BY TrackingStep
<1> QED BY <1>1, <1>2, StaysUndisturbed, NumberingHolds, PTL DEF Spec
-----------------------------------------------------------------------------
(***************************************************************************)
(* What is indexed or reported by the time an attempt is counted.          *)
(***************************************************************************)

\* An attempt whose process has set total_batches owns all the files.
LEMMA OwnsAll ==
    ASSUME TypeInv, CountInv, Numbering, NEW m \in Attempts, Newest(m), checkpoint[m] # None,
           NEW f \in Files
    PROVE  f[1] = m
<1>1. f[1] \in Attempts /\ Placed(f[1]) /\ ~Overtaken(f[1])
  BY DEF Files, Numbering, LastOwns
<1>2. ~(f[1] < m)
  BY <1>1 DEF Overtaken, Placed
<1>3. ~(m < f[1])
  BY <1>1, Blank DEF Newest, Numbering
<1> QED BY <1>1, <1>2, <1>3 DEF Attempts

LEMMA FinishedByThen ==
    ASSUME TypeInv, CountInv, Numbering, Tracking, monitor.pc # "idle", NEW f \in Files
    PROVE  Accounted(settings[monitor.att], store[f[1]][f[2]])
<1> DEFINE m == monitor.att
<1>1. m \in Attempts /\ Newest(m) /\ IndexingCompleted(m)
  <2>1. status[m] # "absent" /\ Newest(m) /\ IndexingCompleted(m)
    BY DEF CountInv, SnapshotStands, Numbering, RowInv, MonitorOnNewest
  <2>2. m \in Attempts
    BY DEF TypeInv, MonitorOK
  <2> QED BY <2>1, <2>2
<1>2. total[m] # None /\ checkpoint[m] # None
  <2>1. total[m] # None
    BY <1>1 DEF IndexingCompleted
  <2>2. checkpoint[m] = NumItems
    BY <1>1, <2>1 DEF Numbering, Stages
  <2> QED BY <2>1, <2>2, ConstantsAssumption DEF None
<1> HIDE DEF m
<1>3. f[1] = m /\ f[2] \in OnFile(m)
  <2>1. f[1] = m
    BY <1>1, <1>2, OwnsAll
  <2> QED BY <2>1 DEF Files, OnFile
<1> DEFINE n == f[2]
<1>4. n \in BatchNums /\ store[m][n] # NoItem
  BY <1>3 DEF OnFile
<1>5. TasksOf(m)
  BY <1>1 DEF Tracking, Tasks
<1>6. n \notin Open(m) /\ ~Waits(m, n)
  BY <1>1, <1>4, <1>5, NothingOpen DEF Tracking
<1>7. n < Handed(m)
  BY <1>1, <1>2, <1>3 DEF Tracking, TotalBounds, Handed
<1>8. CASE InCount(m, n)
  <2>1. PICK w \in Workers : worker[w].pc = "counted" /\ WAtt(w) = m /\ worker[w].num = n
    BY <1>8 DEF InCount
  <2>2. Holds(w)
    BY DEF Tracking, WorkerItems
  <2>3. worker[w].item = store[m][n]
    BY <1>4, <2>1, <2>2 DEF Holds
  <2>4. worker[w].failed \/ <<settings[m], store[m][n]>> \in indexed
    BY <2>1, <2>2, <2>3 DEF Holds
  <2> QED BY <1>3, <2>1, <2>3, <2>4 DEF Accounted, Reported, m
<1>9. CASE ~InCount(m, n)
  <2>1. n \in Kept(m)
    BY <1>3, <1>9 DEF Kept
  <2>2. PERSISTENT_INDEXING
    BY <1>6, <1>7, <2>1 DEF Open
  <2>3. <<m, store[m][n]>> \in errors
    BY <1>3, <1>5, <1>6, <1>7, <1>9, <2>2 DEF TasksOf, LostRecorded
  <2> QED BY <1>1, <1>3, <2>3 DEF Accounted, Reported, m
<1> QED BY <1>8, <1>9

\* "indexing_completed guarantees every docprocessing batch has finished": no file
\* that the clean-up of a completed attempt removes still waits for its documents to
\* be indexed or for their failure to be reported.
THEOREM CompletionFinished == Undisturbed /\ Spec => []CompletionMeansFinished
<1>1. TypeInv /\ CountInv /\ Numbering /\ Tracking => CompletionMeansFinished
  BY FinishedByThen DEF CompletionMeansFinished
<1> QED BY <1>1, TrackingHolds, PTL
-----------------------------------------------------------------------------
(***************************************************************************)
(* A checkpoint never runs ahead of the documents                          *)
(***************************************************************************)

\* What is indexed or reported stays so.
LEMMA AccountedKept ==
    ASSUME Undisturbed, TypeInv, CountInv, Numbering, [Next]_vars,
           NEW s \in Settings, NEW i, Accounted(s, i)
    PROVE  Accounted(s, i)'
<1> USE DEF Numbering
<1>1. \A a \in Attempts : settings[a] = s
  BY SameSetting
<1>2. \A a \in Attempts : settings'[a] = s
  <2>1. settings' \in [Attempts -> Settings]
    BY RowsStep DEF RowsOK
  <2> QED BY <2>1 DEF Undisturbed
<1>3. ASSUME indexed \subseteq indexed', errors \subseteq errors',
             \A w \in Workers : worker[w].pc = "counted" /\ worker[w].failed =>
                 worker'[w] = worker[w] \/ Batch(w) \in errors'
      PROVE  Accounted(s, i)'
  <2>1. CASE <<s, i>> \in indexed
    BY <1>3, <2>1 DEF Accounted
  <2>2. ASSUME NEW a \in Attempts, <<a, i>> \in errors PROVE Accounted(s, i)'
    <3>1. <<a, i>> \in errors' /\ settings'[a] = s
      BY <1>2, <1>3, <2>2
    <3> QED BY <3>1 DEF Accounted, Reported
  <2>3. ASSUME NEW w \in Workers, worker[w].pc = "counted", worker[w].failed, worker[w].item = i,
               settings[WAtt(w)] = s
        PROVE  Accounted(s, i)'
    <3>1. WAtt(w) \in Attempts
      BY <2>3 DEF TypeInv, WorkersOK, WorkerSound, WAtt
    <3>2. settings'[WAtt(w)] = s
      BY <1>2, <3>1
    <3>3. CASE worker'[w] = worker[w]
      <4>1. Reported(s, i)'
        BY <2>3, <3>2, <3>3 DEF Reported, WAtt
      <4> QED BY <4>1 DEF Accounted
    <3>4. CASE Batch(w) \in errors'
      <4>1. <<WAtt(w), i>> \in errors'
        BY <2>3, <3>4 DEF Batch
      <4>2. Reported(s, i)'
        BY <3>1, <3>2, <4>1 DEF Reported
      <4> QED BY <4>2 DEF Accounted
    <3> QED BY <1>3, <2>3, <3>3, <3>4
  <2> QED BY <2>1, <2>2, <2>3 DEF Accounted, Reported
<1>4. ASSUME NEW t \in Settings, CreateAttempt(t) PROVE Accounted(s, i)'
  BY <1>3, <1>4, Creating
<1>5. ASSUME NEW a \in Attempts, Quiet(a) PROVE Accounted(s, i)'
  BY <1>3, <1>5 DEF Quiet
<1>6. ASSUME NEW a \in Attempts, Fetches(a) PROVE Accounted(s, i)'
  BY <1>3, <1>6, FetchesOwn
<1>7. ASSUME NEW w \in Workers, Works(w) PROVE Accounted(s, i)'
  <2>1. errors \subseteq errors'
    BY <1>7, ErrorsKept
  <2>2. indexed \subseteq indexed'
    BY <1>7 DEF Works, LoadBatch, IndexBatch, FailBatch, CompleteBatch, FinishBatch, DiesEarly,
                CrashWorker
  <2>3. \A v \in Workers \ {w} : worker'[v] = worker[v]
    <3>1. ASSUME NEW a \in Attempts, NEW n \in BatchNums, LoadBatch(w, a, n)
          PROVE  \A v \in Workers \ {w} : worker'[v] = worker[v]
      <4>1. CASE UNCHANGED worker
        BY <4>1
      <4>2. CASE ~UNCHANGED worker
        BY <3>1, <4>2, Delivery
      <4> QED BY <4>1, <4>2
    <3>2. CASE ~\E a \in Attempts, n \in BatchNums : LoadBatch(w, a, n)
      <4>1. IndexBatch(w) \/ FailBatch(w) \/ CompleteBatch(w) \/ FinishBatch(w) \/ DiesEarly(w)
        BY <1>7, <3>2 DEF Works
      <4> QED BY <4>1, SameBatch
    <3> QED BY <3>1, <3>2
  <2>4. worker[w].pc = "counted" /\ worker[w].failed => Batch(w) \in errors'
    <3>1. SUFFICES ASSUME worker[w].pc = "counted", worker[w].failed PROVE Batch(w) \in errors'
      OBVIOUS
    <3>2. FinishBatch(w)
      BY <1>7, <3>1 DEF Works, LoadBatch, IndexBatch, FailBatch, CompleteBatch, DiesEarly
    <3> QED BY <3>1, <3>2 DEF FinishBatch, FailuresOf
  <2> QED BY <1>3, <2>1, <2>2, <2>3, <2>4
<1>8. CASE CleanUpBatches
  BY <1>3, <1>8 DEF CleanUpBatches
<1>9. CASE UNCHANGED vars
  BY <1>3, <1>9 DEF vars
<1> QED BY <1>4, <1>5, <1>6, <1>7, <1>8, <1>9, Steps
\* A batch on file stays there until it is accounted for, unless they are all thrown
\* away by an attempt that starts over.
LEMMA OnDiskKept ==
    ASSUME Undisturbed, TypeInv, CountInv, Numbering, Tracking, [Next]_vars,
           \A a \in Attempts : LoadCheckpoint(a) => UNCHANGED store,
           NEW s \in Settings, NEW f \in Files, NEW i, store[f[1]][f[2]] = i
    PROVE  Accounted(s, i)' \/ OnDisk(i)'
<1> DEFINE b == f[1]  n == f[2]
<1>1. b \in Attempts /\ n \in BatchNums /\ store[b][n] = i /\ i # NoItem
  BY DEF Files
<1>2. ASSUME store'[b][n] = i PROVE OnDisk(i)'
  <2>1. <<b, n>> \in Files'
    BY <1>1, <1>2 DEF Files
  <2> QED BY <1>1, <1>2, <2>1 DEF OnDisk
<1>3. ASSUME NEW a \in Attempts, settings[a] = s, Accounted(settings[a], i) PROVE Accounted(s, i)'
  BY <1>3, AccountedKept
<1>4. \A a \in Attempts : settings[a] = s
  BY SameSetting
<1>5. CASE \E t \in Settings : CreateAttempt(t)
  BY <1>1, <1>2, <1>5, Creating DEF Numbering
<1>6. CASE \E a \in Attempts : Quiet(a)
  BY <1>1, <1>2, <1>6 DEF Quiet
<1>7. ASSUME NEW a \in Attempts, Fetches(a) PROVE OnDisk(i)'
  <2>1. CASE LoadCheckpoint(a)
    BY <1>1, <1>2, <2>1
  <2>2. CASE StoreBatch(a)
    <3>1. store'[b][n] \in {i, NoItem}
      BY <1>1, NothingReplaced
    <3>2. store'[b][n] # NoItem
      <4>1. /\ store \in [Attempts -> [BatchNums -> Items \union {NoItem}]]
            /\ fetcher[a].pos \in Nat
        BY DEF TypeInv, SharedOK, FetchersOK, FetcherType, Items
      <4>2. store' = [store EXCEPT ![a][fetcher[a].num] = fetcher[a].pos + 1] /\ fetcher[a].num \in BatchNums
        BY <2>2 DEF StoreBatch
      <4>3. store'[b][n] \in {store[b][n], fetcher[a].pos + 1}
        BY <1>1, <4>1, <4>2
      <4> QED BY <1>1, <4>1, <4>3 DEF NoItem
    <3> QED BY <1>2, <3>1, <3>2
  <2>3. CASE ReissueOldBatches(a)
    <3>1. PICK g \in Files : g[2] = n /\ store'[a][n] = store[g[1]][n] /\ store'[a][n] # NoItem
      <4>1. \/ \E g \in Files : g[2] = n /\ store'[a][n] = store[g[1]][n] /\ store'[a][n] # NoItem
            \/ store'[a][n] = NoItem /\ \A g \in Files : g[2] # n
        BY <1>1, <2>3, Reissuing
      <4> QED BY <4>1
    <3>2. g = f
      BY <3>1, SameOwner DEF Numbering
    <3>3. store'[a][n] = i /\ <<a, n>> \in Files'
      BY <1>1, <3>1, <3>2 DEF Files
    <3> QED BY <3>3 DEF OnDisk
  <2>4. CASE ~LoadCheckpoint(a) /\ ~StoreBatch(a) /\ ~ReissueOldBatches(a)
    <3>1. UNCHANGED store
      BY <1>7, <2>4 DEF Fetches, SetPollWindow, CarryOverCompleted, SaveCheckpoint, SendTask, SetTotalBatches
    <3> QED BY <1>1, <1>2, <3>1
  <2> QED BY <2>1, <2>2, <2>3, <2>4
<1>8. ASSUME NEW w \in Workers, Works(w) PROVE Accounted(s, i)' \/ OnDisk(i)'
  <2>1. CASE FinishBatch(w) /\ WAtt(w) = b /\ worker[w].num = n
    <3>1. worker[w].item = i /\ (worker[w].failed \/ <<settings[b], i>> \in indexed)
      BY <1>1, <2>1 DEF FinishBatch, Tracking, WorkerItems, Holds
    <3>2. Accounted(settings[b], i)
      BY <2>1, <3>1 DEF Accounted, Reported, FinishBatch
    <3> QED BY <1>1, <1>3, <1>4, <3>2
  <2>2. CASE ~(FinishBatch(w) /\ WAtt(w) = b /\ worker[w].num = n)
    <3>1. store'[b][n] = store[b][n]
      <4>1. CASE FinishBatch(w)
        <5>1. /\ store \in [Attempts -> [BatchNums -> Items \union {NoItem}]]
              /\ store' = [store EXCEPT ![WAtt(w)][worker[w].num] = NoItem]
          BY <4>1 DEF FinishBatch, TypeInv, SharedOK
        <5>2. WAtt(w) \in Attempts /\ worker[w].num \in BatchNums
          BY <4>1, SameBatch
        <5> QED BY <1>1, <2>2, <4>1, <5>1, <5>2
      <4>2. CASE ~FinishBatch(w)
        BY <1>8, <4>2 DEF Works, LoadBatch, IndexBatch, FailBatch, CompleteBatch, DiesEarly, CrashWorker
      <4> QED BY <4>1, <4>2
    <3> QED BY <1>1, <1>2, <3>1
  <2> QED BY <2>1, <2>2
<1>9. ASSUME CleanUpBatches PROVE Accounted(s, i)'
  <2>1. monitor.pc # "idle"
    BY <1>9 DEF CleanUpBatches
  <2>2. Accounted(settings[monitor.att], i)
    BY <2>1, FinishedByThen
  <2>3. monitor.att \in Attempts
    BY <2>1 DEF TypeInv, MonitorOK
  <2> QED BY <1>3, <1>4, <2>2, <2>3
<1>10. CASE UNCHANGED vars
  BY <1>1, <1>2, <1>10 DEF vars
<1> QED BY <1>5, <1>6, <1>7, <1>8, <1>9, <1>10, Steps DEF Numbering

LEMMA CoveredKept ==
    ASSUME Undisturbed, TypeInv, CountInv, Numbering, Tracking, [Next]_vars,
           \A a \in Attempts : LoadCheckpoint(a) => UNCHANGED store,
           NEW k, Covered(k)
    PROVE  \A s \in Settings, i \in 1..k : Accounted(s, i)' \/ OnDisk(i)'
<1>1. SUFFICES ASSUME NEW s \in Settings, NEW i \in 1..k PROVE Accounted(s, i)' \/ OnDisk(i)'
  OBVIOUS
<1>2. CASE Accounted(s, i)
  BY <1>2, AccountedKept
<1>3. ASSUME NEW f \in Files, store[f[1]][f[2]] = i PROVE Accounted(s, i)' \/ OnDisk(i)'
  BY <1>3, OnDiskKept
<1> QED BY <1>2, <1>3 DEF Covered, OnDisk
\* A poll window taken over stays that of the last attempt with a checkpoint.
LEMMA InheritsStep ==
    ASSUME Undisturbed, TypeInv, CountInv, Numbering, Inherits, [Next]_vars
    PROVE  Inherits'
<1> USE DEF Numbering
<1>1. SUFFICES ASSUME NEW a \in Attempts, fetcher'[a].pc = "connector", window'[a] # a
               PROVE  \E p \in Attempts : /\ p < a /\ checkpoint'[p] # None /\ ~Overtaken(p)'
                                          /\ window'[p] = window'[a]
  BY DEF Inherits, InheritsOf, FetcherAt
<1> DEFINE Goal == \E p \in Attempts : /\ p < a /\ checkpoint'[p] # None /\ ~Overtaken(p)'
                                       /\ window'[p] = window'[a]
<1>2. ASSUME fetcher'[a] = fetcher[a], UNCHANGED <<window, checkpoint>>, SamePlaced
      PROVE  Goal
  <2>1. PICK p \in Attempts : /\ p < a /\ checkpoint[p] # None /\ ~Overtaken(p)
                              /\ window[p] = window[a]
    BY <1>1, <1>2 DEF Inherits, InheritsOf, FetcherAt
  <2>2. ~Overtaken(p)'
    BY <1>2, <2>1 DEF Overtaken, SamePlaced
  <2> QED BY <1>2, <2>1, <2>2
<1>3. ASSUME NEW s \in Settings, CreateAttempt(s) PROVE Goal
  <2>1. UNCHANGED <<window, checkpoint>>
    BY <1>3, Creating
  <2>2. PICK b \in Attempts : /\ fetcher[b].pc = "none" /\ fetcher'[b].pc = "queued"
                              /\ \A c \in Attempts \ {b} : fetcher'[c] = fetcher[c]
    BY <1>3, Creating
  <2>3. SamePlaced
    BY <2>1, <2>2 DEF SamePlaced, Placed
  <2>4. fetcher'[a] = fetcher[a]
    BY <1>1, <2>2
  <2> QED BY <1>2, <2>1, <2>3, <2>4
<1>4. ASSUME NEW b \in Attempts, Quiet(b) PROVE Goal
  <2>1. UNCHANGED <<window, checkpoint>> /\ SamePlaced
    BY <1>4, QuietPlaced DEF Quiet
  <2>2. fetcher'[a] = fetcher[a]
    BY <1>1, <1>4, QuietFetcher DEF Moves
  <2> QED BY <1>2, <2>1, <2>2
<1>5. ASSUME NEW b \in Attempts, Fetches(b) PROVE Goal
  <2>1. a = b
    BY <1>1, <1>5, FetchesLive, FetchedAlone, FetchesOwn
  <2>2. SetPollWindow(a)
    <3>1. fetcher \in [Attempts -> FetcherType] /\ fetcher[a] \in FetcherType
      BY DEF TypeInv, FetchersOK
    <3>2. ~LoadCheckpoint(a)
      BY <1>1, Loading
    <3>3. ~ReissueOldBatches(a)
      BY <1>1, Reissuing
    <3>4. ~(CarryOverCompleted(a) \/ StoreBatch(a) \/ SetTotalBatches(a))
      BY <1>1, <3>1 DEF CarryOverCompleted, StoreBatch, SetTotalBatches, GoTo, Exit, NewFetcher,
                        SetFetcher, FetcherType
    <3>5. ~(SaveCheckpoint(a) \/ SendTask(a))
      BY <1>1, <3>1 DEF SaveCheckpoint, SendTask, SetFetcher, FetcherType
    <3> QED BY <1>5, <2>1, <3>2, <3>3, <3>4, <3>5 DEF Fetches
  <2>3. FetcherAt(a, "window") /\ UNCHANGED checkpoint
    BY <2>2 DEF SetPollWindow
  <2> PICK p : p = MostRecent(settings[a])
    OBVIOUS
  <2>4. p # 0 /\ window[p] # NoWindow /\ window'[a] = window[p]
    BY <1>1, <2>2 DEF SetPollWindow, TypeInv, RowsOK
  <2>5. /\ p \in Attempts /\ p < a /\ checkpoint[p] # None
        /\ \A c \in Attempts : Placed(c) => c <= p
    BY <2>3, <2>4, TakenOver
  <2>6. window'[p] = window[p]
    BY <2>1, <2>5, <1>5, FetchesOwn DEF Attempts
  <2>7. ~Overtaken(p)'
    <3>1. ~StoreBatch(a) /\ ~LoadCheckpoint(a) /\ ~ReissueOldBatches(a)
      BY <2>2 DEF SetPollWindow, StoreBatch, LoadCheckpoint, ReissueOldBatches, FetcherAt
    <3>2. SamePlaced
      BY <1>5, <2>1, <3>1, FetchesPlaced
    <3> QED BY <2>5, <3>2 DEF Overtaken, SamePlaced, Attempts
  <2> QED BY <2>3, <2>4, <2>5, <2>6, <2>7
<1>6. ASSUME NEW w \in Workers, Works(w) PROVE Goal
  <2>1. UNCHANGED <<fetcher, window, checkpoint>>
    BY <1>6 DEF Works, LoadBatch, IndexBatch, FailBatch, CompleteBatch, FinishBatch, DiesEarly,
                CrashWorker, rowVars
  <2> QED BY <1>2, <1>6, <2>1, WorksPlaced
<1>7. CASE CleanUpBatches \/ UNCHANGED vars
  <2>1. UNCHANGED <<fetcher, window, checkpoint>>
    BY <1>7 DEF CleanUpBatches, vars, rowVars
  <2>2. SamePlaced
    BY <2>1 DEF SamePlaced, Placed
  <2> QED BY <1>2, <2>1, <2>2
<1> QED BY <1>3, <1>4, <1>5, <1>6, <1>7, Steps

\* The checkpoint an attempt resumes from is that of the last attempt that saved one.
LEMMA ResumesFromLast ==
    ASSUME Undisturbed, TypeInv, CountInv, Numbering, Inherits, Covering,
           NEW a \in Attempts, LoadCheckpoint(a), fetcher'[a].pc = "reissue"
    PROVE  Covered(fetcher'[a].pos)
<1> USE DEF Numbering
<1>1. fetcher[a].pc = "connector" /\ fetcher'[a].pos = LatestCheckpoint(a)
  BY Loading
<1>2. PICK p \in Attempts : /\ p < a /\ checkpoint[p] # None /\ ~Overtaken(p)
                            /\ window[p] = window[a]
  BY <1>1, KeepsOnlyTakenOver DEF Inherits, InheritsOf, FetcherAt
<1>3. settings[p] = settings[a]
  BY SameSetting DEF TypeInv, RowsOK
<1>4. p \in CheckpointCandidates(a)
  <2>1. status[a] # "absent"
    BY <1>1, AtWork DEF Live
  <2> QED BY <1>2, <1>3, <2>1 DEF CheckpointCandidates, RowInv, Ordered
<1> DEFINE source == LastUpdated(CheckpointCandidates(a))
<1>5. ASSUME source # 0 PROVE source = p
  <2>1. /\ source \in CheckpointCandidates(a)
        /\ \A c \in CheckpointCandidates(a) : updated[c] <= updated[source]
    BY <1>5 DEF LastUpdated
  <2>2. source \in Attempts /\ checkpoint[source] # None /\ updated[p] <= updated[source]
    BY <1>4, <2>1 DEF CheckpointCandidates
  <2>3. ~(p < source)
    BY <1>2, <2>2 DEF Overtaken, Placed
  <2>4. ~(source < p)
    <3>1. updated[p] \in Nat /\ updated[source] \in Nat
      BY <2>2 DEF TypeInv, RowsOK
    <3>2. source < p => updated[source] < updated[p]
      BY <1>2, <2>2 DEF RowInv, PlacedLater
    <3> QED BY <2>2, <3>1, <3>2
  <2> QED BY <2>2, <2>3, <2>4 DEF Attempts
<1>6. CASE LatestCheckpoint(a) = 0
  BY <1>1, <1>6 DEF Covered
<1>7. CASE LatestCheckpoint(a) # 0
  <2>1. LatestCheckpoint(a) = checkpoint[p]
    BY <1>5, <1>7 DEF LatestCheckpoint
  <2>2. Covered(checkpoint[p])
    BY <1>2 DEF Covering, CoveredOf
  <2> QED BY <1>1, <2>1, <2>2
<1> QED BY <1>6, <1>7
\* With a CheckpointedConnector an attempt that throws the files away starts over.
LEMMA StartsOver ==
    ASSUME TypeInv, CheckpointedConnector, NEW a \in Attempts, LoadCheckpoint(a),
           fetcher'[a].pc = "initial"
    PROVE  fetcher'[a].pos = 0
<1>1. PICK readable \in BOOLEAN :
        SetFetcher(a, [fetcher[a] EXCEPT
            !.pc = IF readable /\ ReusesOldBatches(a) THEN "reissue" ELSE "initial",
            !.base = StartPosition(a, readable), !.pos = StartPosition(a, readable)])
  BY DEF LoadCheckpoint
<1>2. /\ fetcher'[a].pc = IF readable /\ ReusesOldBatches(a) THEN "reissue" ELSE "initial"
      /\ fetcher'[a].pos = StartPosition(a, readable)
  BY <1>1 DEF SetFetcher, TypeInv, FetchersOK, FetcherType
<1>3. ~(readable /\ ReusesOldBatches(a))
  BY <1>2
<1>4. ~ReusesOldBatches(a) => LatestCheckpoint(a) = 0
  <2>1. LastUpdated({}) = 0
    BY DEF LastUpdated
  <2>2. ~ReusesOldBatches(a) => fetcher[a].afresh \/ CheckpointCandidates(a) = {}
    BY DEF ReusesOldBatches
  <2> QED BY <2>1, <2>2 DEF LatestCheckpoint
<1> QED BY <1>2, <1>3, <1>4 DEF StartPosition

LEMMA CoveringFetched ==
    ASSUME Undisturbed, CheckpointedConnector, TypeInv, CountInv, Numbering, Tracking, Inherits,
           Covering, NEW a \in Attempts, Fetches(a), NEW b \in Attempts
    PROVE  CoveredOf(b)'
<1> USE DEF Numbering
<1>1. [Next]_vars
  BY DEF Fetches, Next, Fetch
<1>2. \A c \in Attempts \ {a} : fetcher'[c] = fetcher[c] /\ checkpoint'[c] = checkpoint[c]
  BY FetchesOwn
<1>3. Live(a) /\ \A c \in Attempts : Placed(c) => c <= a
  BY FetchesLive, Foremost
<1>4. ASSUME NEW k, Covered(k), LoadCheckpoint(a) => UNCHANGED store
      PROVE  \A s \in Settings, i \in 1..k : Accounted(s, i)' \/ OnDisk(i)'
  <2>1. ASSUME NEW c \in Attempts \ {a} PROVE ~LoadCheckpoint(c)
    <3>1. ~Live(c)
      BY <1>3, FetchedAlone
    <3> QED BY <3>1 DEF LoadCheckpoint, FetcherAt, Live
  <2> QED BY <1>1, <1>4, <2>1, CoveredKept
<1>5. ASSUME b # a, checkpoint'[b] # None, ~Overtaken(b)'
      PROVE  \A s \in Settings, i \in 1..checkpoint'[b] : Accounted(s, i)' \/ OnDisk(i)'
  <2>1. b < a /\ checkpoint'[b] = checkpoint[b]
    BY <1>2, <1>3, <1>5 DEF Placed, Attempts
  <2>2. ~Placed(a)'
    BY <1>5, <2>1 DEF Overtaken
  <2>3. ~(LoadCheckpoint(a) /\ fetcher'[a].pc = "initial") /\ ~ReissueOldBatches(a)
    BY <2>2, Reissuing DEF Placed
  <2>4. LoadCheckpoint(a) => UNCHANGED store
    BY <2>3, Loading
  <2>5. SamePlaced
    <3>1. CASE LoadCheckpoint(a)
      <4>1. /\ fetcher'[a].pc = "reissue" /\ fetcher[a].pc = "connector" /\ UNCHANGED checkpoint
        BY <2>3, <3>1, Loading DEF rowVars
      <4> QED BY <1>2, <4>1 DEF SamePlaced, Placed
    <3>2. CASE ~LoadCheckpoint(a)
      BY <2>3, <3>2, FetchesPlaced
    <3> QED BY <3>1, <3>2
  <2>6. ~Overtaken(b)
    BY <1>5, <2>5 DEF Overtaken, SamePlaced
  <2>7. Covered(checkpoint[b])
    BY <1>5, <2>1, <2>6 DEF Covering, CoveredOf
  <2> QED BY <1>4, <2>1, <2>4, <2>7
<1>6. CASE b # a
  <2>1. fetcher'[b].pc \notin Positioned
    BY <1>2, <1>3, <1>6, FetchedAlone DEF Positioned, Extracting
  <2> QED BY <1>5, <1>6, <2>1 DEF CoveredOf, Covered
<1>7. CASE b = a
  <2>1. /\ fetcher \in [Attempts -> FetcherType] /\ fetcher[a] \in FetcherType
        /\ fetcher[a].pos \in Nat /\ checkpoint \in [Attempts -> {None, 0} \union PassEnds]
    BY DEF TypeInv, FetchersOK, RowsOK, FetcherType, Items
  <2>2. ~Overtaken(a)
    BY <1>3 DEF Overtaken, Attempts
  <2>3. /\ fetcher[a].pc \in Positioned => Covered(fetcher[a].pos)
        /\ checkpoint[a] # None => Covered(checkpoint[a])
        /\ StageOf(a, fetcher[a])
    BY <2>2 DEF Covering, CoveredOf, Stages
  <2>4. SUFFICES /\ checkpoint'[a] # None =>
                      \A s \in Settings, i \in 1..checkpoint'[a] : Accounted(s, i)' \/ OnDisk(i)'
                 /\ fetcher'[a].pc \in Positioned =>
                      \A s \in Settings, i \in 1..fetcher'[a].pos : Accounted(s, i)' \/ OnDisk(i)'
    BY <1>7 DEF CoveredOf, Covered, Positioned, Extracting
  <2> USE DEF Positioned, Extracting
  <2>5. CASE SetPollWindow(a)
    <3>1. fetcher'[a].pc = "connector" /\ checkpoint'[a] = None
      BY <2>1, <2>3, <2>5 DEF SetPollWindow, SetFetcher, FetcherType, FetcherAt, StageOf, Unplaced, Early
    <3> QED BY <3>1
  <2>6. CASE LoadCheckpoint(a)
    <3>1. checkpoint'[a] = None
      BY <2>3, <2>6, Loading DEF rowVars, StageOf, Unplaced
    <3>2. CASE fetcher'[a].pc = "reissue"
      <4>1. UNCHANGED store
        BY <2>6, <3>2, Loading
      <4>2. Covered(fetcher'[a].pos)
        BY <2>6, <3>2, ResumesFromLast
      <4> QED BY <1>4, <3>1, <4>1, <4>2
    <3>3. CASE fetcher'[a].pc = "initial"
      BY <2>6, <3>1, <3>3, StartsOver
    <3> QED BY <2>6, <3>2, <3>3, Loading
  <2>7. CASE ReissueOldBatches(a)
    <3>1. /\ fetcher[a].pc = "reissue" /\ fetcher'[a].pos = fetcher[a].pos
          /\ UNCHANGED checkpoint /\ ~LoadCheckpoint(a)
      BY <2>7, Reissuing DEF rowVars, LoadCheckpoint, FetcherAt
    <3>2. checkpoint'[a] = None
      BY <2>3, <3>1 DEF StageOf, Unplaced
    <3> QED BY <1>4, <2>3, <3>1, <3>2
  <2>8. CASE CarryOverCompleted(a)
    <3>1. /\ fetcher[a].pc = "assign" /\ fetcher'[a].pos = fetcher[a].pos
          /\ UNCHANGED checkpoint /\ ~LoadCheckpoint(a)
      BY <2>1, <2>8 DEF CarryOverCompleted, FetcherAt, GoTo, SetFetcher, FetcherType, LoadCheckpoint
    <3>2. checkpoint'[a] = None
      BY <2>3, <3>1 DEF StageOf
    <3> QED BY <1>4, <2>3, <3>1, <3>2
  <2>9. CASE SaveCheckpoint(a)
    <3>1. /\ fetcher[a].pc \in {"initial", "save"} /\ fetcher'[a].pos = fetcher[a].pos
          /\ checkpoint'[a] = fetcher[a].pos /\ ~LoadCheckpoint(a)
      BY <2>1, <2>9 DEF SaveCheckpoint, FetcherAt, SetFetcher, FetcherType, LoadCheckpoint
    <3> QED BY <1>4, <2>3, <3>1
  <2>10. CASE StoreBatch(a)
    <3>1. /\ fetcher[a].pc = "store" /\ fetcher'[a].pos = fetcher[a].pos
          /\ checkpoint'[a] = checkpoint[a] /\ ~LoadCheckpoint(a)
      BY <2>1, <2>10 DEF StoreBatch, FetcherAt, GoTo, SetFetcher, FetcherType, LoadCheckpoint, rowVars
    <3> QED BY <1>4, <2>3, <3>1
  <2>11. CASE SendTask(a)
    <3>1. /\ fetcher[a].pc = "send" /\ fetcher'[a].pos = fetcher[a].pos + 1
          /\ checkpoint'[a] = checkpoint[a] /\ ~LoadCheckpoint(a) /\ UNCHANGED store
      BY <2>1, <2>11 DEF SendTask, FetcherAt, SetFetcher, FetcherType, LoadCheckpoint, rowVars
    <3>2. \A s \in Settings, i \in 1..fetcher[a].pos : Accounted(s, i)' \/ OnDisk(i)'
      BY <1>4, <2>3, <3>1
    <3>3. OnDisk(fetcher[a].pos + 1)
      <4>1. fetcher[a].num \in BatchNums /\ store[a][fetcher[a].num] = fetcher[a].pos + 1
        BY <3>1 DEF TypeInv, FetchersOK, FetcherSound, Numbers, NumbersOf
      <4>2. <<a, fetcher[a].num>> \in Files
        BY <2>1, <4>1 DEF Files, NoItem
      <4> QED BY <4>1, <4>2 DEF OnDisk
    <3>4. \A i : OnDisk(i) => OnDisk(i)'
      BY <3>1 DEF OnDisk, Files
    <3>5. \A s \in Settings, i \in 1..(fetcher[a].pos + 1) : Accounted(s, i)' \/ OnDisk(i)'
      <4>1. \A i \in 1..(fetcher[a].pos + 1) : i \in 1..fetcher[a].pos \/ i = fetcher[a].pos + 1
        BY <2>1
      <4> QED BY <3>2, <3>3, <3>4, <4>1
    <3> QED BY <1>4, <2>3, <3>1, <3>5
  <2>12. CASE SetTotalBatches(a)
    <3>1. fetcher'[a].pc = "exited" /\ checkpoint'[a] = checkpoint[a] /\ ~LoadCheckpoint(a)
      BY <2>1, <2>12 DEF SetTotalBatches, FetcherAt, Exit, NewFetcher, SetFetcher, LoadCheckpoint
    <3> QED BY <1>4, <2>3, <3>1
  <2> QED BY <2>5, <2>6, <2>7, <2>8, <2>9, <2>10, <2>11, <2>12 DEF Fetches
<1> QED BY <1>6, <1>7
\* Other steps move no checkpoint.
LEMMA CoveringStep ==
    ASSUME Undisturbed, CheckpointedConnector, TypeInv, CountInv, Numbering, Tracking, Inherits,
           Covering, [Next]_vars
    PROVE  Covering'
<1> USE DEF Numbering
<1>1. SUFFICES ASSUME NEW b \in Attempts PROVE CoveredOf(b)'
  BY DEF Covering
<1>2. ASSUME UNCHANGED checkpoint, SamePlaced, \A a \in Attempts : ~LoadCheckpoint(a),
             fetcher'[b].pc \in Positioned =>
                 fetcher[b].pc \in Positioned /\ fetcher'[b].pos = fetcher[b].pos
      PROVE  CoveredOf(b)'
  <2>1. ASSUME NEW k, Covered(k)
        PROVE  \A s \in Settings, i \in 1..k : Accounted(s, i)' \/ OnDisk(i)'
    BY <1>2, <2>1, CoveredKept
  <2>2. Overtaken(b)' <=> Overtaken(b)
    BY <1>2 DEF Overtaken, SamePlaced
  <2>3. CoveredOf(b)
    BY DEF Covering
  <2>4. checkpoint'[b] # None /\ ~Overtaken(b)' =>
          \A s \in Settings, i \in 1..checkpoint'[b] : Accounted(s, i)' \/ OnDisk(i)'
    BY <1>2, <2>1, <2>2, <2>3 DEF CoveredOf
  <2>5. fetcher'[b].pc \in Positioned =>
          \A s \in Settings, i \in 1..fetcher'[b].pos : Accounted(s, i)' \/ OnDisk(i)'
    BY <1>2, <2>1, <2>3 DEF CoveredOf
  <2> QED BY <2>4, <2>5 DEF CoveredOf, Covered, Positioned, Extracting
<1>3. ASSUME UNCHANGED <<fetcher, checkpoint>> PROVE CoveredOf(b)'
  <2>1. \A a \in Attempts : ~LoadCheckpoint(a)
    <3>1. ASSUME NEW a \in Attempts, LoadCheckpoint(a) PROVE FALSE
      BY <1>3, <3>1, Loading
    <3> QED BY <3>1
  <2>2. SamePlaced
    BY <1>3 DEF SamePlaced, Placed
  <2> QED BY <1>2, <1>3, <2>1, <2>2
<1>4. ASSUME NEW s \in Settings, CreateAttempt(s) PROVE CoveredOf(b)'
  <2>1. UNCHANGED checkpoint
    BY <1>4, Creating
  <2>2. PICK a \in Attempts : /\ fetcher[a].pc = "none" /\ fetcher'[a].pc = "queued"
                              /\ \A c \in Attempts \ {a} : fetcher'[c] = fetcher[c]
    BY <1>4, Creating
  <2>3. SamePlaced
    BY <2>1, <2>2 DEF SamePlaced, Placed
  <2>4. \A c \in Attempts : ~LoadCheckpoint(c)
    <3>1. ASSUME NEW c \in Attempts, LoadCheckpoint(c) PROVE FALSE
      <4>1. fetcher[c].pc = "connector" /\ fetcher'[c].pc \in {"reissue", "initial"}
        BY <3>1, Loading
      <4> QED BY <2>2, <4>1
    <3> QED BY <3>1
  <2> QED BY <1>2, <2>1, <2>2, <2>3, <2>4 DEF Positioned, Extracting
<1>5. ASSUME NEW a \in Attempts, Quiet(a) PROVE CoveredOf(b)'
  <2>1. UNCHANGED checkpoint /\ SamePlaced
    BY <1>5, QuietPlaced DEF Quiet
  <2>2. \/ fetcher'[b] = fetcher[b]
        \/ /\ <<fetcher[b].pc, fetcher'[b].pc>> \in Moves
           /\ fetcher'[b].pos = fetcher[b].pos
        \/ fetcher'[b].pc = "exited"
    BY <1>5, QuietFetcher
  <2>3. \A c \in Attempts : ~LoadCheckpoint(c)
    <3>1. ASSUME NEW c \in Attempts, LoadCheckpoint(c) PROVE FALSE
      <4>1. fetcher[c].pc = "connector" /\ fetcher'[c].pc \in {"reissue", "initial"}
        BY <3>1, Loading
      <4> QED BY <1>5, <4>1, QuietFetcher DEF Moves, Extracting
    <3> QED BY <3>1
  <2> QED BY <1>2, <2>1, <2>2, <2>3 DEF Moves, Positioned, Extracting
<1>6. CASE \E a \in Attempts : Fetches(a)
  BY <1>6, CoveringFetched
<1>7. ASSUME NEW w \in Workers, Works(w) PROVE CoveredOf(b)'
  <2>1. UNCHANGED <<fetcher, checkpoint>>
    BY <1>7 DEF Works, LoadBatch, IndexBatch, FailBatch, CompleteBatch, FinishBatch, DiesEarly,
                CrashWorker, rowVars
  <2> QED BY <1>3, <2>1
<1>8. CASE CleanUpBatches \/ UNCHANGED vars
  BY <1>3, <1>8 DEF CleanUpBatches, vars, rowVars
<1> QED BY <1>4, <1>5, <1>6, <1>7, <1>8, Steps

LEMMA CoveringInit == Init => Covering /\ Inherits
<1> SUFFICES ASSUME Init PROVE Covering /\ Inherits
  OBVIOUS
<1>1. \A a \in Attempts : checkpoint[a] = None /\ fetcher[a].pc = "none"
  BY DEF Init, NewFetcher
<1> QED BY <1>1 DEF Covering, CoveredOf, Inherits, InheritsOf, Positioned, Extracting, FetcherAt

Resumable == TypeInv /\ CountInv /\ Numbering /\ Tracking /\ Inherits /\ Covering

LEMMA ResumableHolds == Undisturbed /\ CheckpointedConnector /\ Spec => []Resumable
<1>1. Init => Covering /\ Inherits
  BY CoveringInit
<1>2. /\ Undisturbed /\ CheckpointedConnector
      /\ TypeInv /\ CountInv /\ Numbering /\ Tracking /\ Inherits /\ Covering /\ [Next]_vars
      => Inherits' /\ Covering'
  BY InheritsStep, CoveringStep
<1>3. CheckpointedConnector => []CheckpointedConnector
  <2>1. CheckpointedConnector => CheckpointedConnector'
    OBVIOUS
  <2> QED BY <2>1, PTL
<1> QED BY <1>1, <1>2, <1>3, StaysUndisturbed, TrackingHolds, PTL DEF Spec, Resumable

\* Batches are kept on failure because "future runs will use those batches while
\* docfetching will continue from the saved checkpoint" (run_docfetching.py): with a
\* connector that is checkpointed, what the source yielded before the checkpoint of an
\* active attempt is indexed, reported or still on file.
THEOREM CheckpointsCovered == Undisturbed /\ CheckpointedConnector /\ Spec => []CheckpointCovered
<1>1. Resumable => CheckpointCovered
  <2>1. SUFFICES ASSUME Resumable, NEW a \in Attempts, status[a] \in Active, checkpoint[a] # None,
                        NEW i \in 1..checkpoint[a]
                 PROVE  Accounted(settings[a], i) \/ OnDisk(i)
    BY DEF CheckpointCovered, OnDisk
  <2>2. status[a] # "absent" /\ Newest(a)
    BY <2>1, AtWork DEF Resumable, Numbering
  <2>3. ~Overtaken(a)
    BY <2>1, <2>2, Blank DEF Overtaken, Newest, Resumable, Numbering
  <2>4. Covered(checkpoint[a])
    BY <2>1, <2>3 DEF Resumable, Covering, CoveredOf
  <2>5. settings[a] \in Settings
    BY <2>1 DEF Resumable, TypeInv, RowsOK
  <2> QED BY <2>4, <2>5 DEF Covered
<1> QED BY <1>1, ResumableHolds, PTL

\* When an attempt is marked as successful every batch of the source is accounted for.
LEMMA AccountedAtTheEnd ==
    ASSUME Resumable, monitor.pc = "mark", NEW i \in Items
    PROVE  Accounted(settings[monitor.att], i)
<1> USE DEF Resumable, Numbering
<1> DEFINE m == monitor.att
<1>1. m \in Attempts /\ status[m] # "absent" /\ Newest(m) /\ IndexingCompleted(m)
  BY DEF RowInv, MonitorOnNewest, CountInv, SnapshotStands, TypeInv, MonitorOK
<1>2. checkpoint[m] = NumItems /\ settings[m] \in Settings
  BY <1>1 DEF IndexingCompleted, Stages, TypeInv, RowsOK
<1>3. ~Overtaken(m)
  BY <1>1, Blank DEF Overtaken, Newest
<1>4. Covered(NumItems)
  BY <1>1, <1>2, <1>3, ConstantsAssumption DEF Covering, CoveredOf, None
<1>5. Accounted(settings[m], i) \/ OnDisk(i)
  BY <1>2, <1>4 DEF Covered, Items
<1>6. OnDisk(i) => Accounted(settings[m], i)
  BY FinishedByThen DEF OnDisk
<1> QED BY <1>5, <1>6

LEMMA NothingLostStep ==
    ASSUME Undisturbed, Resumable, NoDocumentLost, [Next]_vars,
           NEW a \in Attempts, status'[a] \in Successful, NEW i \in Items, NEW s, s = settings[a]
    PROVE  settings'[a] = s /\ Accounted(s, i)'
<1> USE DEF Resumable
<1>1. s \in Settings /\ settings'[a] = s
  <2>1. settings \in [Attempts -> Settings] /\ settings' \in [Attempts -> Settings]
    BY RowsStep DEF RowsOK, TypeInv
  <2> QED BY <2>1 DEF Undisturbed
<1>2. CASE status[a] \in Successful
  BY <1>1, <1>2, AccountedKept DEF NoDocumentLost
<1>3. CASE monitor.pc = "mark" /\ monitor.att = a
  BY <1>1, <1>3, AccountedAtTheEnd, AccountedKept
<1> QED BY <1>1, <1>2, <1>3, StatusStep

\* A successful attempt closes its poll window: by then, with a connector that is
\* checkpointed, every batch the source holds was indexed or its failure reported,
\* whatever else interrupted the attempts before it.
THEOREM NothingLost == Undisturbed /\ CheckpointedConnector /\ Spec => []NoDocumentLost
<1>1. Init => NoDocumentLost
  BY DEF Init, NoDocumentLost, Successful
<1>2. Undisturbed /\ Resumable /\ NoDocumentLost /\ [Next]_vars => NoDocumentLost'
  <2>1. SUFFICES ASSUME Undisturbed, Resumable, NoDocumentLost, [Next]_vars,
                        NEW a \in Attempts, status'[a] \in Successful, NEW i \in Items
                 PROVE  Accounted(settings[a], i)'
    BY DEF NoDocumentLost
  <2>2. PICK s : s = settings[a]
    OBVIOUS
  <2>3. settings'[a] = s /\ Accounted(s, i)'
    BY <2>1, <2>2, NothingLostStep
  <2> QED BY <2>3 DEF Accounted, Reported
<1> QED BY <1>1, <1>2, StaysUndisturbed, ResumableHolds, PTL DEF Spec
=============================================================================
