---------------------------- MODULE UserFilesProofs ----------------------------
(***************************************************************************)
(* Proofs about UserFiles, for any number of workers, requests and events: *)
(* its type invariant, that a file whose deletion was requested is never   *)
(* completed, and that a deleted file leaves nothing in the index.         *)
(***************************************************************************)
EXTENDS UserFiles, TLAPS

-----------------------------------------------------------------------------
(***************************************************************************)
(* The inductive invariant.  TypeInv adds to TypeOK what a worker's record *)
(* holds at each place and what kind of task it is.                        *)
(***************************************************************************)
ProcessPcs == {"p_read", "p_lock", "p_failing", "p_fail"}
DeletePcs == {"d_read", "d_index", "d_row"}

Records ==
    {Idle}
    \union [pc : ProcessPcs, kind : {"process"}]
    \union [pc : {"p_write", "p_post", "p_failing", "p_fail"}, kind : {"process"},
            project : BOOLEAN]
    \union [pc : DeletePcs, kind : {"delete"}]
    \union [pc : {"s_read"}, kind : {"sync"}]
    \union [pc : {"s_index", "s_clear"}, kind : {"sync"}, project : BOOLEAN]
Requests ==
    {Idle} \union [pc : {"delete", "link", "unlink"}, flag : BOOLEAN]

ColumnsOK ==
    /\ status \in {"PROCESSING", "COMPLETED", "FAILED", "SKIPPED", "DELETING", "GONE"}
    /\ linked \in BOOLEAN /\ needsSync \in BOOLEAN
    /\ index \in {Absent} \union {Chunks(b) : b \in BOOLEAN}
    /\ raced \in BOOLEAN
KeysOK ==
    /\ queue \in [Kinds -> Nat] /\ guard \subseteq Kinds
    /\ lock \in [Kinds -> Workers \union {Nobody, Dead}]
ProcessesOK ==
    /\ worker \in [Workers -> Records]
    /\ client \in [Clients -> Requests]
HolderWrites ==
    /\ held \in Workers \union {Nobody}
    /\ \A w \in Workers : (held = w) <=> (worker[w].pc \in {"p_write", "p_post"})

TypeInv == ColumnsOK /\ KeysOK /\ ProcessesOK /\ HolderWrites

(***************************************************************************)
(* From the request to delete a file on, no worker is between the status   *)
(* check of processing and its commit, unless one was there when the       *)
(* request was committed: so nothing makes the file COMPLETED and nothing  *)
(* writes chunks once the delete task has removed them.                    *)
(***************************************************************************)
DeletionBegun ==
    \/ status \in {"DELETING", "GONE"}
    \/ DeletePending
    \/ \E c \in Clients : client[c].pc = "delete" /\ client[c].flag
Indexing(w) == worker[w].pc \in {"p_lock", "p_write", "p_post"}

DeletionAlone ==
    DeletionBegun /\ ~raced =>
        /\ status \in {"DELETING", "FAILED", "GONE"}
        /\ \A w \in Workers : ~Indexing(w)
ChunksRemoved ==
    ~raced /\ (\/ status = "GONE"
               \/ \E w \in Workers : worker[w].pc = "d_row") => index = Absent

ChunksThere ==
    ~raced /\ (\/ status = "COMPLETED"
               \/ \E w \in Workers : worker[w].pc = "p_post") => index # Absent

IInv == TypeInv /\ DeletionAlone /\ ChunksRemoved /\ ChunksThere

-----------------------------------------------------------------------------
(***************************************************************************)
(* Type correctness                                                        *)
(***************************************************************************)

\* What a worker's record says of its kind, and where it may go from here.
LEMMA RecordFacts ==
    ASSUME NEW r \in Records
    PROVE  /\ r.pc = "idle" <=> r = Idle
           /\ r # Idle => r.kind \in Kinds
           /\ r # Idle => (r.kind = "delete" <=> r.pc \in DeletePcs)
           /\ r.pc \in Pcs \union {"idle"}
           /\ r.pc \in {"p_write", "s_index"} => r.project \in BOOLEAN
BY DEF Records, Idle, ProcessPcs, DeletePcs, Pcs, Kinds

\* The places a worker goes to without changing the rest of its record.
LEMMA RecordMoves ==
    ASSUME NEW r \in Records
    PROVE  /\ r.pc = "p_read" => [r EXCEPT !.pc = "p_lock"] \in Records
           /\ r.pc = "p_lock" => [r EXCEPT !.pc = "p_failing"] \in Records
           /\ r.pc = "p_write" => [r EXCEPT !.pc = "p_post"] \in Records
           /\ r.pc \in {"p_write", "p_post"} => [r EXCEPT !.pc = "p_failing"] \in Records
           /\ r.pc = "p_failing" => [r EXCEPT !.pc = "p_fail"] \in Records
           /\ r.pc = "d_read" => [r EXCEPT !.pc = "d_index"] \in Records
           /\ r.pc = "d_index" => [r EXCEPT !.pc = "d_row"] \in Records
           /\ r.pc = "s_index" => [r EXCEPT !.pc = "s_clear"] \in Records
           /\ r # Idle => \A p \in Pcs : [r EXCEPT !.pc = p].pc = p
<1> USE DEF ProcessPcs, DeletePcs
<1>1. CASE r = Idle
  BY <1>1 DEF Idle
<1>2. CASE r \in [pc : ProcessPcs, kind : {"process"}]
  BY <1>2 DEF Records
<1>3. CASE r \in [pc : {"p_write", "p_post", "p_failing", "p_fail"}, kind : {"process"},
                  project : BOOLEAN]
  BY <1>3 DEF Records
<1>4. CASE r \in [pc : DeletePcs, kind : {"delete"}]
  BY <1>4 DEF Records
<1>5. CASE r \in [pc : {"s_read"}, kind : {"sync"}]
  BY <1>5 DEF Records
<1>6. CASE r \in [pc : {"s_index", "s_clear"}, kind : {"sync"}, project : BOOLEAN]
  BY <1>6 DEF Records
<1> QED BY <1>1, <1>2, <1>3, <1>4, <1>5, <1>6 DEF Records

\* A worker goes on, or ends its task and releases the lock of its kind.
LEMMA GotoOK ==
    ASSUME ProcessesOK, NEW w \in Workers, NEW p \in Pcs, worker[w] # Idle,
           [worker[w] EXCEPT !.pc = p] \in Records, Goto(w, p), UNCHANGED client
    PROVE  /\ ProcessesOK'
           /\ worker'[w].pc = p /\ worker'[w] # Idle
           /\ \A v \in Workers \ {w} : worker'[v] = worker[v]
<1>1. worker[w] \in Records
  BY DEF ProcessesOK
<1>2. [worker[w] EXCEPT !.pc = p].pc = p
  BY <1>1, RecordMoves
<1>3. worker' = [worker EXCEPT ![w] = [worker[w] EXCEPT !.pc = p]]
  BY DEF Goto
<1>4. p # "idle"
  BY DEF Pcs
<1> QED BY <1>2, <1>3, <1>4 DEF ProcessesOK, Idle

LEMMA BecomesOK ==
    ASSUME ProcessesOK, NEW w \in Workers, NEW r \in Records,
           worker' = [worker EXCEPT ![w] = r], UNCHANGED client
    PROVE  /\ ProcessesOK' /\ worker'[w] = r
           /\ \A v \in Workers \ {w} : worker'[v] = worker[v]
BY DEF ProcessesOK

LEMMA EndOK ==
    ASSUME ProcessesOK, KeysOK, NEW w \in Workers, worker[w] # Idle, End(w), UNCHANGED <<queue, guard, client>>
    PROVE  /\ ProcessesOK' /\ KeysOK'
           /\ worker'[w] = Idle /\ worker'[w].pc = "idle"
           /\ \A v \in Workers \ {w} : worker'[v] = worker[v]
<1>1. Idle \in Records /\ Idle.pc = "idle"
  BY DEF Records, Idle
<1>2. worker[w].kind \in Kinds
  BY RecordFacts DEF ProcessesOK
<1>3. KeysOK'
  BY <1>2 DEF KeysOK, End
<1> QED BY <1>1, <1>3, BecomesOK DEF End

\* From where to where one step of a task takes a worker.
Arcs ==
    {<<"p_read", "p_lock">>, <<"p_read", "idle">>, <<"p_lock", "p_write">>,
     <<"p_lock", "p_failing">>, <<"p_write", "p_post">>, <<"p_write", "p_failing">>,
     <<"p_post", "idle">>, <<"p_post", "p_failing">>, <<"p_failing", "idle">>,
     <<"p_failing", "p_fail">>, <<"p_fail", "idle">>, <<"d_read", "d_index">>,
     <<"d_read", "idle">>, <<"d_index", "d_row">>, <<"d_index", "idle">>,
     <<"d_row", "idle">>, <<"s_read", "s_index">>, <<"s_read", "idle">>,
     <<"s_index", "s_clear">>, <<"s_index", "idle">>, <<"s_clear", "idle">>}

LEMMA WorkerMoves ==
    ASSUME TypeInv, NEW w \in Workers, WorkerStep(w)
    PROVE  /\ ProcessesOK' /\ KeysOK'
           /\ UNCHANGED <<client, queue, raced>>
           /\ \A v \in Workers \ {w} : worker'[v] = worker[v]
           /\ <<worker[w].pc, worker'[w].pc>> \in Arcs
<1> DEFINE Goal == /\ ProcessesOK' /\ KeysOK'
                   /\ UNCHANGED <<client, queue, raced>>
                   /\ \A v \in Workers \ {w} : worker'[v] = worker[v]
                   /\ <<worker[w].pc, worker'[w].pc>> \in Arcs
<1>1. ProcessesOK /\ KeysOK /\ worker[w] \in Records
  BY DEF TypeInv, ProcessesOK
<1>2. worker[w] # Idle /\ UNCHANGED <<client, queue, guard, raced>>
  BY DEF WorkerStep, ProcessRead, ProcessLock, ProcessWrite, ProcessPost, ProcessFailing, ProcessFail,
         DeleteRead, DeleteIndex, DeleteRow, SyncRead, SyncIndex, SyncClear, Step, Idle
<1>3. ASSUME NEW p \in Pcs, [worker[w] EXCEPT !.pc = p] \in Records, Go(w, p),
             <<worker[w].pc, p>> \in Arcs
      PROVE  Goal
  <2>1. KeysOK'
    BY <1>1, <1>2, <1>3 DEF KeysOK, Go
  <2> QED BY <1>1, <1>2, <1>3, <2>1, GotoOK DEF Go
<1>4. ASSUME End(w), <<worker[w].pc, "idle">> \in Arcs PROVE Goal
  BY <1>1, <1>2, <1>4, EndOK
<1>5. ASSUME NEW r \in Records, worker' = [worker EXCEPT ![w] = r], UNCHANGED lock,
             <<worker[w].pc, r.pc>> \in Arcs
      PROVE  Goal
  <2>1. KeysOK'
    BY <1>1, <1>2, <1>5 DEF KeysOK
  <2> QED BY <1>1, <1>2, <1>5, <2>1, BecomesOK
<1> HIDE DEF Goal
<1>6. linked \in BOOLEAN
  BY DEF TypeInv, ColumnsOK
<1>7. ASSUME ProcessRead(w) PROVE Goal
  BY <1>1, <1>3, <1>4, <1>7, RecordMoves DEF ProcessRead, Step, Arcs, Pcs
<1>8. ASSUME ProcessLock(w) PROVE Goal
  <2>1. [pc |-> "p_write", kind |-> "process", project |-> linked] \in Records
    BY <1>6 DEF Records
  <2>2. CASE worker' = [worker EXCEPT ![w] = [pc |-> "p_write", kind |-> "process", project |-> linked]]
             /\ UNCHANGED lock
    BY <1>5, <1>8, <2>1, <2>2 DEF ProcessLock, Step, Arcs
  <2>3. CASE Go(w, "p_failing")
    BY <1>1, <1>3, <1>8, <2>3, RecordMoves DEF ProcessLock, Step, Arcs, Pcs
  <2> QED BY <1>8, <2>2, <2>3 DEF ProcessLock
<1>9. ASSUME ProcessWrite(w) PROVE Goal
  BY <1>1, <1>3, <1>9, RecordMoves DEF ProcessWrite, Step, Arcs, Pcs
<1>10. ASSUME ProcessPost(w) PROVE Goal
  BY <1>1, <1>3, <1>4, <1>10, RecordMoves DEF ProcessPost, Step, Arcs, Pcs
<1>11. ASSUME ProcessFailing(w) PROVE Goal
  BY <1>1, <1>3, <1>4, <1>11, RecordMoves DEF ProcessFailing, Step, Arcs, Pcs
<1>12. ASSUME ProcessFail(w) \/ DeleteRow(w) \/ SyncClear(w) PROVE Goal
  BY <1>4, <1>12 DEF ProcessFail, DeleteRow, SyncClear, Step, Arcs
<1>13. ASSUME DeleteRead(w) PROVE Goal
  BY <1>1, <1>3, <1>4, <1>13, RecordMoves DEF DeleteRead, Step, Arcs, Pcs
<1>14. ASSUME DeleteIndex(w) PROVE Goal
  BY <1>1, <1>3, <1>4, <1>14, RecordMoves DEF DeleteIndex, Step, Arcs, Pcs
<1>15. ASSUME SyncRead(w) PROVE Goal
  <2>1. [pc |-> "s_index", kind |-> "sync", project |-> linked] \in Records
    BY <1>6 DEF Records
  <2> QED BY <1>4, <1>5, <1>15, <2>1 DEF SyncRead, Step, Arcs
<1>16. ASSUME SyncIndex(w) PROVE Goal
  BY <1>1, <1>3, <1>4, <1>16, RecordMoves DEF SyncIndex, Step, Arcs, Pcs
<1> QED
  BY <1>7, <1>8, <1>9, <1>10, <1>11, <1>12, <1>13, <1>14, <1>15, <1>16 DEF WorkerStep, Goal

\* The row lock: taken when a worker begins to write chunks, released when it
\* commits, fails or dies.
LEMMA HolderStep ==
    ASSUME TypeInv, [Next]_vars
    PROVE  HolderWrites'
<1> USE ConstantsAssumption
<1>1. held \in Workers \union {Nobody}
  BY DEF TypeInv, HolderWrites
<1>2. \A w \in Workers : (held = w) <=> (worker[w].pc \in {"p_write", "p_post"})
  BY DEF TypeInv, HolderWrites
<1>3. ASSUME NEW w \in Workers, \A v \in Workers \ {w} : worker'[v] = worker[v], UNCHANGED held,
             worker[w].pc \in {"p_write", "p_post"} <=> worker'[w].pc \in {"p_write", "p_post"}
      PROVE  HolderWrites'
  BY <1>1, <1>2, <1>3 DEF HolderWrites
<1>4. ASSUME NEW w \in Workers, \A v \in Workers \ {w} : worker'[v] = worker[v],
             held' = Released(w), worker'[w].pc \notin {"p_write", "p_post"}
      PROVE  HolderWrites'
  BY <1>1, <1>2, <1>4 DEF HolderWrites, Released
<1>5. UNCHANGED <<worker, held>> => HolderWrites'
  BY <1>1, <1>2 DEF HolderWrites
<1>6. ASSUME NEW w \in Workers, WorkerStep(w) PROVE HolderWrites'
  <2>1. /\ \A v \in Workers \ {w} : worker'[v] = worker[v]
        /\ <<worker[w].pc, worker'[w].pc>> \in Arcs
    BY <1>6, WorkerMoves
  <2>2. CASE ProcessLock(w)
    <3>1. CASE held' = w /\ held = Nobody
                 /\ worker' = [worker EXCEPT ![w] = [pc |-> "p_write", kind |-> "process",
                                                     project |-> linked]]
      <4>1. worker'[w].pc = "p_write"
        BY <3>1 DEF TypeInv, ProcessesOK
      <4>2. \A v \in Workers : worker[v].pc \notin {"p_write", "p_post"}
        BY <1>2, <3>1
      <4> QED BY <2>1, <3>1, <4>1, <4>2 DEF HolderWrites
    <3>2. CASE UNCHANGED held /\ Go(w, "p_failing")
      <4>1. worker[w].pc = "p_lock"
        BY <2>2 DEF ProcessLock, Step
      <4>2. worker'[w].pc # "p_write"
        <5>1. worker' = [worker EXCEPT ![w] = [worker[w] EXCEPT !.pc = "p_failing"]]
          BY <3>2 DEF Go, Goto
        <5>2. worker[w] \in Records /\ worker[w] # Idle
          BY <4>1 DEF TypeInv, ProcessesOK, Idle
        <5>3. [worker[w] EXCEPT !.pc = "p_failing"].pc = "p_failing"
          BY <5>2, RecordMoves DEF Pcs
        <5> QED BY <5>1, <5>3 DEF TypeInv, ProcessesOK
      <4>3. worker'[w].pc # "p_post"
        BY <2>1, <4>1 DEF Arcs
      <4> QED BY <1>3, <2>1, <3>2, <4>1, <4>2, <4>3
    <3> QED BY <2>2, <3>1, <3>2 DEF ProcessLock, Unlocked
  <2>3. CASE ProcessWrite(w)
    <3>1. worker[w].pc = "p_write"
      BY <2>3 DEF ProcessWrite, Step
    <3>2. CASE UNCHANGED held /\ Go(w, "p_post")
      <4>1. [worker[w] EXCEPT !.pc = "p_post"].pc = "p_post"
        BY <3>1, RecordMoves DEF Pcs, TypeInv, ProcessesOK, Idle
      <4>2. worker'[w].pc = "p_post"
        BY <3>2, <4>1 DEF Go, Goto, TypeInv, ProcessesOK
      <4> QED BY <1>3, <2>1, <3>1, <3>2, <4>2
    <3>3. CASE held' = Released(w) /\ Go(w, "p_failing")
      <4>1. [worker[w] EXCEPT !.pc = "p_failing"].pc = "p_failing"
        BY <3>1, RecordMoves DEF Pcs, TypeInv, ProcessesOK, Idle
      <4>2. worker'[w].pc = "p_failing"
        BY <3>3, <4>1 DEF Go, Goto, TypeInv, ProcessesOK
      <4> QED BY <1>4, <2>1, <3>3, <4>2
    <3> QED BY <2>3, <3>2, <3>3 DEF ProcessWrite
  <2>4. CASE ProcessPost(w)
    <3>1. worker[w].pc = "p_post" /\ held' = Released(w)
      BY <2>4 DEF ProcessPost, Step
    <3>2. worker'[w].pc \notin {"p_write", "p_post"}
      BY <2>1, <3>1 DEF Arcs
    <3> QED BY <1>4, <2>1, <3>1, <3>2
  <2>5. CASE ~ProcessLock(w) /\ ~ProcessWrite(w) /\ ~ProcessPost(w)
    <3>1. UNCHANGED held /\ worker[w].pc \notin {"p_lock", "p_write", "p_post"}
      BY <1>6, <2>5 DEF WorkerStep, ProcessRead, ProcessFailing, ProcessFail, DeleteRead, DeleteIndex,
                  DeleteRow, SyncRead, SyncIndex, SyncClear, Step, postgres
    <3>2. worker'[w].pc \notin {"p_write", "p_post"}
      BY <2>1, <3>1 DEF Arcs
    <3> QED BY <1>3, <2>1, <3>1, <3>2
  <2> QED BY <2>2, <2>3, <2>4, <2>5
<1>7. ASSUME NEW w \in Workers, Crash(w) PROVE HolderWrites'
  <2>1. worker' = [worker EXCEPT ![w] = Idle] /\ held' = Released(w)
    BY <1>7 DEF Crash
  <2>2. worker'[w].pc = "idle" /\ \A v \in Workers \ {w} : worker'[v] = worker[v]
    BY <2>1 DEF TypeInv, ProcessesOK, Idle
  <2> QED BY <1>4, <2>1, <2>2
<1>8. ASSUME NEW w \in Workers, NEW k \in Kinds, Take(w, k) PROVE HolderWrites'
  <2>1. UNCHANGED held /\ worker[w] = Idle
    BY <1>8 DEF Take, postgres
  <2>2. CASE worker' = [worker EXCEPT ![w] = [pc |-> FirstPc(k), kind |-> k]]
    <3>1. worker'[w].pc \notin {"p_write", "p_post"}
      BY <2>2 DEF TypeInv, ProcessesOK, FirstPc, Kinds
    <3>2. worker[w].pc \notin {"p_write", "p_post"}
      BY <2>1 DEF Idle
    <3>3. \A v \in Workers \ {w} : worker'[v] = worker[v]
      BY <2>2 DEF TypeInv, ProcessesOK
    <3> QED BY <1>3, <2>1, <3>1, <3>2, <3>3
  <2>3. CASE UNCHANGED worker
    BY <1>5, <2>1, <2>3
  <2> QED BY <1>8, <2>2, <2>3 DEF Take
<1>9. ASSUME NEW c \in Clients, ClientStep(c) PROVE UNCHANGED <<worker, held>>
  BY <1>9 DEF ClientStep, BeginDelete, BeginLink, BeginUnlink, Begins, CommitDelete, CommitLink,
              CommitUnlink, postgres
<1>10. ASSUME NEW k \in Kinds, Beat(k) \/ MessageExpires(k) \/ GuardExpires(k) \/ LockExpires(k)
       PROVE  UNCHANGED <<worker, held>>
  BY <1>10 DEF Beat, MessageExpires, GuardExpires, LockExpires, postgres
<1>11. DeleteProject \/ UNCHANGED vars => UNCHANGED <<worker, held>>
  BY DEF DeleteProject, vars, postgres
<1> QED
  BY <1>5, <1>6, <1>7, <1>8, <1>9, <1>10, <1>11 DEF Next

\* The processes and the keys after every other step.
LEMMA ProcessesStep ==
    ASSUME TypeInv, [Next]_vars
    PROVE  ProcessesOK' /\ KeysOK'
<1>1. ProcessesOK /\ KeysOK
  BY DEF TypeInv
<1>2. UNCHANGED <<worker, client>> => ProcessesOK'
  BY <1>1 DEF ProcessesOK
<1>3. ASSUME NEW w \in Workers, WorkerStep(w) PROVE ProcessesOK' /\ KeysOK'
  BY <1>3, WorkerMoves
<1>4. ASSUME NEW w \in Workers, Crash(w) PROVE ProcessesOK' /\ KeysOK'
  <2>1. worker[w].kind \in Kinds /\ Idle \in Records
    BY <1>1, <1>4, RecordFacts DEF Crash, ProcessesOK, Records
  <2>2. ProcessesOK'
    BY <1>1, <1>4, <2>1 DEF Crash, ProcessesOK
  <2>3. KeysOK'
    <3>1. lock' \in [Kinds -> Workers \union {Nobody, Dead}] /\ UNCHANGED guard
      BY <1>1, <1>4, <2>1 DEF Crash, KeysOK
    <3>2. queue' \in [Kinds -> Nat]
      BY <1>1, <1>4, <2>1 DEF Crash, KeysOK
    <3> QED BY <1>1, <3>1, <3>2 DEF KeysOK
  <2> QED BY <2>2, <2>3
<1>5. ASSUME NEW w \in Workers, NEW k \in Kinds, Take(w, k) PROVE ProcessesOK' /\ KeysOK'
  <2>1. [pc |-> FirstPc(k), kind |-> k] \in Records
    BY DEF FirstPc, Kinds, Records, ProcessPcs, DeletePcs
  <2>2. ProcessesOK'
    BY <1>1, <1>5, <2>1 DEF Take, ProcessesOK
  <2>3. lock' \in [Kinds -> Workers \union {Nobody, Dead}] /\ guard' \subseteq Kinds
    BY <1>1, <1>5 DEF Take, KeysOK
  <2>4. queue' \in [Kinds -> Nat]
    BY <1>1, <1>5 DEF Take, KeysOK
  <2> QED BY <2>2, <2>3, <2>4 DEF KeysOK
<1>6. ASSUME NEW c \in Clients, ClientStep(c) PROVE ProcessesOK' /\ KeysOK'
  <2>0. (status = "DELETING") \in BOOLEAN /\ needsSync \in BOOLEAN
    BY DEF TypeInv, ColumnsOK
  <2>1. ASSUME NEW r \in Requests, client' = [client EXCEPT ![c] = r], UNCHANGED worker
        PROVE  ProcessesOK'
    BY <1>1, <2>1 DEF ProcessesOK
  <2>2. Idle \in Requests
    BY DEF Requests
  <2>3. ASSUME NEW b \in BOOLEAN, NEW p \in {"delete", "link", "unlink"}
        PROVE  [pc |-> p, flag |-> b] \in Requests
    BY DEF Requests
  <2>4. CASE BeginDelete(c) \/ BeginLink(c) \/ BeginUnlink(c)
    <3>1. UNCHANGED <<worker, redis>>
      BY <2>4 DEF BeginDelete, BeginLink, BeginUnlink, Begins
    <3>2. \E r \in Requests : client' = [client EXCEPT ![c] = r]
      BY <2>0, <2>3, <2>4 DEF BeginDelete, BeginLink, BeginUnlink, Begins
    <3> QED BY <1>1, <2>1, <3>1, <3>2 DEF KeysOK, redis
  <2>5. CASE CommitDelete(c)
    <3>1. ProcessesOK'
      BY <2>1, <2>2, <2>5 DEF CommitDelete
    <3>2. KeysOK'
      BY <1>1, <2>5 DEF CommitDelete, KeysOK, Kinds
    <3> QED BY <3>1, <3>2
  <2>6. CASE CommitLink(c) \/ CommitUnlink(c)
    <3>1. ProcessesOK'
      BY <2>1, <2>2, <2>6 DEF CommitLink, CommitUnlink
    <3>2. ASSUME EnqueueSync PROVE guard' \subseteq Kinds /\ queue' \in [Kinds -> Nat]
      <4>1. \/ guard' = guard \union {"sync"} /\ queue' = [queue EXCEPT !["sync"] = @ + 1]
            \/ UNCHANGED <<guard, queue>>
        BY <3>2 DEF EnqueueSync
      <4>2. "sync" \in Kinds
        BY DEF Kinds
      <4> QED BY <1>1, <4>1, <4>2 DEF KeysOK
    <3>3. KeysOK'
      BY <1>1, <2>6, <3>2 DEF CommitLink, CommitUnlink, KeysOK
    <3> QED BY <3>1, <3>3
  <2> QED BY <1>6, <2>4, <2>5, <2>6 DEF ClientStep
<1>7. ASSUME NEW k \in Kinds, Beat(k) \/ MessageExpires(k) \/ GuardExpires(k) \/ LockExpires(k)
      PROVE  ProcessesOK' /\ KeysOK'
  <2>1. UNCHANGED <<worker, client>>
    BY <1>7 DEF Beat, MessageExpires, GuardExpires, LockExpires
  <2>2. KeysOK'
    <3>1. CASE Beat(k)
      BY <1>1, <3>1 DEF Beat, KeysOK
    <3>2. CASE MessageExpires(k)
      BY <1>1, <3>2 DEF MessageExpires, KeysOK
    <3>3. CASE GuardExpires(k) \/ LockExpires(k)
      BY <1>1, <3>3 DEF GuardExpires, LockExpires, KeysOK
    <3> QED BY <1>7, <3>1, <3>2, <3>3
  <2> QED BY <1>2, <2>1, <2>2
<1>8. DeleteProject \/ UNCHANGED vars => ProcessesOK' /\ KeysOK'
  BY <1>1, <1>2 DEF DeleteProject, vars, redis, KeysOK
<1> QED
  BY <1>3, <1>4, <1>5, <1>6, <1>7, <1>8 DEF Next

\* The columns and the chunks take one of their values.
LEMMA ColumnsStep ==
    ASSUME TypeInv, [Next]_vars
    PROVE  ColumnsOK'
<1>1. ColumnsOK
  BY DEF TypeInv
<1>2. UNCHANGED <<postgres, index, raced>> => ColumnsOK'
  BY <1>1 DEF ColumnsOK, postgres
<1>3. ASSUME NEW w \in Workers, WorkerStep(w) PROVE ColumnsOK'
  <2>1. raced' = raced
    BY <1>3, WorkerMoves
  <2>2. worker[w] \in Records
    BY DEF TypeInv, ProcessesOK
  <2>3. worker[w].pc \in {"p_write", "s_index"} => worker[w].project \in BOOLEAN
    BY <2>2, RecordFacts
  <2>4. CASE ProcessWrite(w) \/ SyncIndex(w)
    <3>1. index' \in {Absent} \union {Chunks(b) : b \in BOOLEAN}
      BY <1>1, <2>3, <2>4 DEF ProcessWrite, SyncIndex, Step, ColumnsOK
    <3> QED BY <1>1, <2>1, <2>4, <3>1 DEF ProcessWrite, SyncIndex, ColumnsOK, postgres
  <2>5. CASE ProcessPost(w) \/ ProcessFail(w)
    BY <1>1, <2>1, <2>5 DEF ProcessPost, ProcessFail, Completed, ColumnsOK
  <2>6. CASE DeleteIndex(w)
    BY <1>1, <2>1, <2>6 DEF DeleteIndex, ColumnsOK, postgres
  <2>7. CASE DeleteRow(w) \/ SyncClear(w)
    BY <1>1, <2>1, <2>7 DEF DeleteRow, SyncClear, ClearedFlag, ColumnsOK
  <2>8. CASE ProcessRead(w) \/ ProcessLock(w) \/ ProcessFailing(w) \/ DeleteRead(w) \/ SyncRead(w)
    BY <1>1, <2>1, <2>8 DEF ProcessRead, ProcessLock, ProcessFailing, DeleteRead, SyncRead, ColumnsOK, postgres
  <2> QED BY <1>3, <2>4, <2>5, <2>6, <2>7, <2>8 DEF WorkerStep
<1>4. ASSUME NEW w \in Workers, Crash(w) \/ \E k \in Kinds : Take(w, k) PROVE ColumnsOK'
  BY <1>1, <1>4 DEF Crash, Take, ColumnsOK, postgres
<1>5. ASSUME NEW c \in Clients, ClientStep(c) PROVE ColumnsOK'
  <2>1. CASE BeginDelete(c) \/ BeginLink(c) \/ BeginUnlink(c)
    BY <1>2, <2>1 DEF BeginDelete, BeginLink, BeginUnlink, Begins
  <2>2. CASE CommitDelete(c)
    BY <1>1, <2>2 DEF CommitDelete, ColumnsOK
  <2>3. CASE CommitLink(c) \/ CommitUnlink(c)
    BY <1>1, <2>3 DEF CommitLink, CommitUnlink, ColumnsOK
  <2> QED BY <1>5, <2>1, <2>2, <2>3 DEF ClientStep
<1>6. ASSUME NEW k \in Kinds, Beat(k) \/ MessageExpires(k) \/ GuardExpires(k) \/ LockExpires(k)
      PROVE  ColumnsOK'
  BY <1>2, <1>6 DEF Beat, MessageExpires, GuardExpires, LockExpires
<1>7. DeleteProject \/ UNCHANGED vars => ColumnsOK'
  BY <1>1, <1>2 DEF DeleteProject, vars, ColumnsOK
<1> QED
  BY <1>3, <1>4, <1>5, <1>6, <1>7 DEF Next

LEMMA TypeInit == Init => TypeInv
<1> SUFFICES ASSUME Init PROVE TypeInv
  OBVIOUS
<1> USE ConstantsAssumption
<1>1. ColumnsOK
  BY DEF Init, ColumnsOK
<1>2. KeysOK
  BY DEF Init, KeysOK, Kinds
<1>3. ProcessesOK
  BY DEF Init, ProcessesOK, Records, Requests
<1>4. HolderWrites
  BY DEF Init, HolderWrites, Idle
<1> QED BY <1>1, <1>2, <1>3, <1>4 DEF TypeInv

-----------------------------------------------------------------------------
(***************************************************************************)
(* Nothing works against a deletion                                        *)
(***************************************************************************)

\* How the status changes: who writes DELETING, GONE, and takes it back.
LEMMA StatusMoves ==
    ASSUME TypeInv, [Next]_vars
    PROVE  \/ UNCHANGED status
           \/ \E c \in Clients : CommitDelete(c) /\ status' = "DELETING"
           \/ \E w \in Workers :
                \/ worker[w].pc = "p_post" /\ status' = Completed(status)
                \/ worker[w].pc = "p_fail" /\ Exists /\ status' = "FAILED"
                \/ worker[w].pc = "d_row" /\ status' = "GONE"
<1>1. ASSUME NEW w \in Workers, WorkerStep(w)
      PROVE  \/ UNCHANGED status
             \/ worker[w].pc = "p_post" /\ status' = Completed(status)
             \/ worker[w].pc = "p_fail" /\ Exists /\ status' = "FAILED"
             \/ worker[w].pc = "d_row" /\ status' = "GONE"
  BY <1>1 DEF WorkerStep, ProcessRead, ProcessLock, ProcessWrite, ProcessPost, ProcessFailing, ProcessFail,
         DeleteRead, DeleteIndex, DeleteRow, SyncRead, SyncIndex, SyncClear, Step, postgres
<1>2. ASSUME NEW c \in Clients, ClientStep(c)
      PROVE  UNCHANGED status \/ (CommitDelete(c) /\ status' = "DELETING")
  BY <1>2 DEF ClientStep, BeginDelete, BeginLink, BeginUnlink, Begins, CommitDelete, CommitLink,
              CommitUnlink, postgres
<1>3. ASSUME NEW w \in Workers, Crash(w) \/ \E k \in Kinds : Take(w, k) PROVE UNCHANGED status
  BY <1>3 DEF Crash, Take, postgres
<1>4. ASSUME NEW k \in Kinds, Beat(k) \/ MessageExpires(k) \/ GuardExpires(k) \/ LockExpires(k)
      PROVE  UNCHANGED status
  BY <1>4 DEF Beat, MessageExpires, GuardExpires, LockExpires, postgres
<1>5. DeleteProject \/ UNCHANGED vars => UNCHANGED status
  BY DEF DeleteProject, vars, postgres
<1> QED
  BY <1>1, <1>2, <1>3, <1>4, <1>5 DEF Next

\* A deletion begins when its request is committed; everything else that is part
\* of one follows from another part of it.
LEMMA BegunBefore ==
    ASSUME TypeInv, [Next]_vars, DeletionBegun'
    PROVE  DeletionBegun \/ \E c \in Clients : CommitDelete(c) /\ status' = "DELETING"
<1>0. ProcessesOK /\ KeysOK
  BY DEF TypeInv
<1>1. CASE status' \in {"DELETING", "GONE"}
  <2>1. ASSUME NEW w \in Workers, worker[w].pc = "p_post", status' = Completed(status)
        PROVE  DeletionBegun
    BY <1>1, <2>1 DEF Completed, DeletionBegun
  <2>2. ASSUME NEW w \in Workers, worker[w].pc = "d_row" PROVE DeletionBegun
    BY <2>2 DEF DeletionBegun, DeletePending
  <2> QED BY <1>1, <2>1, <2>2, StatusMoves DEF DeletionBegun
<1>2. CASE queue'["delete"] > 0 /\ queue["delete"] = 0
  <2>0. "delete" \in Kinds
    BY DEF Kinds
  <2>1. ASSUME NEW w \in Workers, WorkerStep(w) PROVE FALSE
    <3>1. queue' = queue
      BY <2>1, WorkerMoves
    <3> QED BY <1>2, <3>1
  <2>2. ASSUME NEW w \in Workers, Crash(w) PROVE DeletionBegun
    <3>1. worker[w].kind = "delete"
      BY <1>0, <1>2, <2>0, <2>2 DEF Crash, KeysOK
    <3>2. worker[w].pc \in DeletePcs
      BY <1>0, <2>2, <3>1, RecordFacts DEF Crash, ProcessesOK
    <3> QED BY <3>2 DEF DeletionBegun, DeletePending, DeletePcs
  <2>3. ASSUME NEW w \in Workers, NEW k \in Kinds, Take(w, k) PROVE FALSE
    BY <1>0, <1>2, <2>0, <2>3 DEF Take, KeysOK
  <2>4. ASSUME NEW c \in Clients, ClientStep(c)
        PROVE  DeletionBegun \/ (CommitDelete(c) /\ status' = "DELETING")
    <3>1. CASE CommitDelete(c)
      BY <1>2, <3>1 DEF CommitDelete, DeletionBegun
    <3>2. CASE CommitLink(c) \/ CommitUnlink(c)
      <4>1. queue' = queue \/ queue' = [queue EXCEPT !["sync"] = @ + 1]
        BY <3>2 DEF CommitLink, CommitUnlink, EnqueueSync
      <4>2. queue'["delete"] = queue["delete"]
        BY <1>0, <2>0, <4>1 DEF KeysOK
      <4> QED BY <1>2, <4>2
    <3>3. CASE BeginDelete(c) \/ BeginLink(c) \/ BeginUnlink(c)
      BY <1>2, <3>3 DEF BeginDelete, BeginLink, BeginUnlink, Begins, redis
    <3> QED BY <2>4, <3>1, <3>2, <3>3 DEF ClientStep
  <2>5. ASSUME NEW k \in Kinds, Beat(k) PROVE DeletionBegun
    <3>0. queue' = [queue EXCEPT ![k] = @ + 1] \/ UNCHANGED queue
      BY <2>5 DEF Beat
    <3>1. k = "delete"
      BY <1>0, <1>2, <2>0, <3>0 DEF KeysOK
    <3> QED BY <2>5, <3>1 DEF Beat, Wanted, DeletionBegun
  <2>6. ASSUME NEW k \in Kinds, MessageExpires(k) PROVE FALSE
    <3>1. UNCHANGED queue \/ (queue[k] > 0 /\ queue' = [queue EXCEPT ![k] = @ - 1])
      BY <2>6 DEF MessageExpires
    <3>2. CASE k = "delete"
      BY <1>2, <3>1, <3>2
    <3>3. CASE k # "delete"
      <4>1. queue'["delete"] = queue["delete"]
        BY <1>0, <2>0, <3>1, <3>3 DEF KeysOK
      <4> QED BY <1>2, <4>1
    <3> QED BY <3>2, <3>3
  <2>7. ASSUME NEW k \in Kinds, GuardExpires(k) \/ LockExpires(k) PROVE FALSE
    BY <1>2, <2>7 DEF GuardExpires, LockExpires
  <2>8. DeleteProject \/ UNCHANGED vars => FALSE
    BY <1>2 DEF DeleteProject, vars, redis
  <2> QED BY <2>1, <2>2, <2>3, <2>4, <2>5, <2>6, <2>7, <2>8 DEF Next
<1>3. ASSUME NEW w \in Workers, worker'[w].pc \in DeletePcs PROVE DeletionBegun
  <2>1. CASE worker[w].pc \in DeletePcs
    BY <2>1 DEF DeletionBegun, DeletePending, DeletePcs
  <2>2. CASE worker[w].pc \notin DeletePcs
    <3>1. ASSUME NEW v \in Workers, WorkerStep(v) PROVE FALSE
      <4>1. v = w
        BY <1>3, <2>2, <3>1, WorkerMoves
      <4> QED BY <1>3, <2>2, <3>1, <4>1, WorkerMoves DEF Arcs, DeletePcs
    <3>2. ASSUME NEW v \in Workers, Crash(v) PROVE FALSE
      BY <1>0, <1>3, <2>2, <3>2 DEF Crash, ProcessesOK, Idle, DeletePcs
    <3>3. ASSUME NEW v \in Workers, NEW k \in Kinds, Take(v, k) PROVE DeletionBegun
      <4>1. v = w /\ worker'[w].pc = FirstPc(k) /\ queue[k] > 0
        BY <1>0, <1>3, <2>2, <3>3 DEF Take, ProcessesOK
      <4>2. k = "delete"
        BY <1>3, <4>1 DEF FirstPc, Kinds, DeletePcs
      <4> QED BY <4>1, <4>2 DEF DeletionBegun, DeletePending
    <3>4. ASSUME NEW c \in Clients, ClientStep(c) PROVE FALSE
      BY <1>3, <2>2, <3>4 DEF ClientStep, BeginDelete, BeginLink, BeginUnlink, Begins, CommitDelete,
         CommitLink, CommitUnlink
    <3>5. ASSUME NEW k \in Kinds, Beat(k) \/ MessageExpires(k) \/ GuardExpires(k) \/ LockExpires(k)
          PROVE  FALSE
      BY <1>3, <2>2, <3>5 DEF Beat, MessageExpires, GuardExpires, LockExpires
    <3>6. DeleteProject \/ UNCHANGED vars => FALSE
      BY <1>3, <2>2 DEF DeleteProject, vars
    <3> QED BY <3>1, <3>2, <3>3, <3>4, <3>5, <3>6 DEF Next
  <2> QED BY <2>1, <2>2
<1>4. ASSUME NEW c \in Clients, client'[c].pc = "delete", client'[c].flag PROVE DeletionBegun
  <2>1. CASE client'[c] = client[c]
    BY <1>4, <2>1 DEF DeletionBegun
  <2>2. CASE client'[c] # client[c]
    <3>1. ASSUME NEW d \in Clients, ClientStep(d) PROVE DeletionBegun
      <4>1. CASE BeginDelete(d)
        <5>1. client'[c] = [pc |-> "delete", flag |-> status = "DELETING"]
          BY <1>0, <2>2, <4>1 DEF BeginDelete, Begins, ProcessesOK
        <5>2. client'[c].flag = (status = "DELETING")
          BY <5>1
        <5> QED BY <1>4, <5>2 DEF DeletionBegun
      <4>2. CASE BeginLink(d) \/ BeginUnlink(d)
        BY <1>0, <1>4, <2>2, <4>2 DEF BeginLink, BeginUnlink, Begins, ProcessesOK
      <4>3. CASE CommitDelete(d) \/ CommitLink(d) \/ CommitUnlink(d)
        BY <1>0, <1>4, <2>2, <4>3 DEF CommitDelete, CommitLink, CommitUnlink, ProcessesOK, Idle
      <4> QED BY <3>1, <4>1, <4>2, <4>3 DEF ClientStep
    <3>2. ASSUME NEW v \in Workers, WorkerStep(v) \/ Crash(v) \/ \E k \in Kinds : Take(v, k)
          PROVE  FALSE
      BY <2>2, <3>2, WorkerMoves DEF Crash, Take
    <3>3. ASSUME NEW k \in Kinds, Beat(k) \/ MessageExpires(k) \/ GuardExpires(k) \/ LockExpires(k)
          PROVE  FALSE
      BY <2>2, <3>3 DEF Beat, MessageExpires, GuardExpires, LockExpires
    <3>4. DeleteProject \/ UNCHANGED vars => FALSE
      BY <2>2 DEF DeleteProject, vars
    <3> QED BY <3>1, <3>2, <3>3, <3>4 DEF Next
  <2> QED BY <2>1, <2>2
<1>5. queue["delete"] \in Nat
  BY <1>0 DEF KeysOK, Kinds
<1> QED
  BY <1>1, <1>2, <1>3, <1>4, <1>5 DEF DeletionBegun, DeletePending, DeletePcs

\* Who may start or go on indexing: a worker that saw PROCESSING, or one that
\* was already at it.
LEMMA IndexingBefore ==
    ASSUME TypeInv, [Next]_vars, NEW w \in Workers, Indexing(w)'
    PROVE  Indexing(w) \/ (status = "PROCESSING" /\ UNCHANGED status)
<1>0. ProcessesOK
  BY DEF TypeInv
<1>1. ASSUME NEW v \in Workers, WorkerStep(v)
      PROVE  Indexing(w) \/ (status = "PROCESSING" /\ UNCHANGED status)
  <2>1. CASE v # w
    <3>1. worker'[w] = worker[w]
      BY <1>1, <2>1, WorkerMoves
    <3> QED BY <3>1 DEF Indexing
  <2>2. CASE v = w /\ ~Indexing(w)
    <3>1. <<worker[w].pc, worker'[w].pc>> \in Arcs
      BY <1>1, <2>2, WorkerMoves
    <3>2. worker[w].pc = "p_read" /\ worker'[w].pc = "p_lock"
      BY <2>2, <3>1 DEF Arcs, Indexing
    <3>3. ProcessRead(w)
      BY <1>1, <2>2, <3>2 DEF WorkerStep, ProcessLock, ProcessWrite, ProcessPost, ProcessFailing,
         ProcessFail, DeleteRead, DeleteIndex, DeleteRow, SyncRead, SyncIndex, SyncClear, Step
    <3>4. ~End(w)
      BY <1>0, <3>2 DEF End, ProcessesOK, Idle
    <3> QED BY <3>3, <3>4 DEF ProcessRead, Processable, postgres
  <2> QED BY <2>1, <2>2
<1>2. ASSUME NEW v \in Workers, Crash(v) PROVE Indexing(w)
  BY <1>0, <1>2 DEF Crash, Indexing, ProcessesOK, Idle
<1>3. ASSUME NEW v \in Workers, NEW k \in Kinds, Take(v, k) PROVE Indexing(w)
  <2>1. FirstPc(k) \in {"p_read", "d_read", "s_read"}
    BY DEF FirstPc, Kinds
  <2> QED BY <1>0, <1>3, <2>1 DEF Take, Indexing, ProcessesOK
<1>4. ASSUME UNCHANGED worker PROVE Indexing(w)
  BY <1>4 DEF Indexing
<1>5. ASSUME NEW c \in Clients, ClientStep(c) PROVE UNCHANGED worker
  BY <1>5 DEF ClientStep, BeginDelete, BeginLink, BeginUnlink, Begins, CommitDelete,
     CommitLink, CommitUnlink
<1>6. ASSUME NEW k \in Kinds, Beat(k) \/ MessageExpires(k) \/ GuardExpires(k) \/ LockExpires(k)
      PROVE  UNCHANGED worker
  BY <1>6 DEF Beat, MessageExpires, GuardExpires, LockExpires
<1>7. DeleteProject \/ UNCHANGED vars => UNCHANGED worker
  BY DEF DeleteProject, vars
<1> QED BY <1>1, <1>2, <1>3, <1>4, <1>5, <1>6, <1>7 DEF Next

\* A deletion once known to have raced with processing stays so.
LEMMA RacedStays ==
    ASSUME TypeInv, [Next]_vars, ~raced'
    PROVE  ~raced
<1>1. ASSUME NEW w \in Workers, WorkerStep(w) PROVE UNCHANGED raced
  BY <1>1, WorkerMoves
<1>2. ASSUME NEW w \in Workers, Crash(w) \/ \E k \in Kinds : Take(w, k) PROVE UNCHANGED raced
  BY <1>2 DEF Crash, Take
<1>3. ASSUME NEW c \in Clients, ClientStep(c) PROVE raced => raced'
  BY <1>3 DEF ClientStep, BeginDelete, BeginLink, BeginUnlink, Begins, CommitDelete,
     CommitLink, CommitUnlink
<1>4. ASSUME NEW k \in Kinds, Beat(k) \/ MessageExpires(k) \/ GuardExpires(k) \/ LockExpires(k)
      PROVE  UNCHANGED raced
  BY <1>4 DEF Beat, MessageExpires, GuardExpires, LockExpires
<1>5. DeleteProject \/ UNCHANGED vars => UNCHANGED raced
  BY DEF DeleteProject, vars
<1> QED BY <1>1, <1>2, <1>3, <1>4, <1>5 DEF Next

LEMMA AloneStep ==
    ASSUME TypeInv, DeletionAlone, [Next]_vars
    PROVE  DeletionAlone'
<1> SUFFICES ASSUME DeletionBegun', ~raced'
             PROVE  /\ status' \in {"DELETING", "FAILED", "GONE"}
                    /\ \A w \in Workers : ~Indexing(w)'
  BY DEF DeletionAlone
<1>1. ~raced
  BY RacedStays
<1>2. CASE DeletionBegun
  <2>1. status \in {"DELETING", "FAILED", "GONE"} /\ \A w \in Workers : ~Indexing(w)
    BY <1>1, <1>2 DEF DeletionAlone
  <2>2. \A w \in Workers : ~Indexing(w)'
    BY <2>1, IndexingBefore
  <2>3. status' \in {"DELETING", "FAILED", "GONE"}
    BY <2>1, StatusMoves DEF Indexing
  <2> QED BY <2>2, <2>3
<1>3. ASSUME NEW c \in Clients, CommitDelete(c), status' = "DELETING"
      PROVE  \A w \in Workers : ~Indexing(w)'
  <2>1. UNCHANGED worker /\ Unlocked
    BY <1>3 DEF CommitDelete
  <2>2. \A w \in Workers : worker[w].pc # "p_lock"
    <3>1. Exists \/ status = "GONE"
      BY DEF Exists
    <3>2. Exists \/ (status' = status /\ status = "GONE")
      BY <1>3, <3>1 DEF CommitDelete
    <3>3. raced' = (raced \/ \E w \in Workers : worker[w].pc = "p_lock")
      BY <1>3, <3>2 DEF CommitDelete
    <3> QED BY <3>3
  <2>3. \A w \in Workers : worker[w].pc \notin {"p_write", "p_post"}
    BY <2>1, ConstantsAssumption DEF TypeInv, HolderWrites, Unlocked
  <2> QED BY <2>1, <2>2, <2>3 DEF Indexing
<1> QED BY <1>2, <1>3, BegunBefore

\* Chunks only appear while a worker holds the row lock to write them.
LEMMA ChunksAppear ==
    ASSUME TypeInv, [Next]_vars, index = Absent, index' # Absent
    PROVE  \E w \in Workers : Indexing(w)
<1>1. ASSUME NEW w \in Workers, WorkerStep(w) PROVE Indexing(w)
  BY <1>1 DEF WorkerStep, ProcessRead, ProcessLock, ProcessWrite, ProcessPost, ProcessFailing, ProcessFail,
         DeleteRead, DeleteIndex, DeleteRow, SyncRead, SyncIndex, SyncClear, Step, Indexing
<1>2. ASSUME NEW w \in Workers, Crash(w) \/ \E k \in Kinds : Take(w, k) PROVE FALSE
  BY <1>2 DEF Crash, Take
<1>3. ASSUME NEW c \in Clients, ClientStep(c) PROVE FALSE
  BY <1>3 DEF ClientStep, BeginDelete, BeginLink, BeginUnlink, Begins, CommitDelete,
     CommitLink, CommitUnlink
<1>4. ASSUME NEW k \in Kinds, Beat(k) \/ MessageExpires(k) \/ GuardExpires(k) \/ LockExpires(k)
      PROVE  FALSE
  BY <1>4 DEF Beat, MessageExpires, GuardExpires, LockExpires
<1>5. DeleteProject \/ UNCHANGED vars => FALSE
  BY DEF DeleteProject, vars
<1> QED BY <1>1, <1>2, <1>3, <1>4, <1>5 DEF Next

\* A worker about to delete the row has removed the chunks.
LEMMA RowLast ==
    ASSUME TypeInv, [Next]_vars, NEW w \in Workers, worker'[w].pc = "d_row"
    PROVE  worker[w].pc = "d_row" \/ index' = Absent
<1>0. ProcessesOK
  BY DEF TypeInv
<1>1. ASSUME NEW v \in Workers, WorkerStep(v) PROVE worker[w].pc = "d_row" \/ index' = Absent
  <2>1. CASE v # w
    BY <1>1, <2>1, WorkerMoves
  <2>2. CASE v = w
    <3>1. worker[w].pc = "d_index"
      BY <1>1, <2>2, WorkerMoves DEF Arcs
    <3>2. DeleteIndex(w)
      BY <1>1, <2>2, <3>1 DEF WorkerStep, ProcessRead, ProcessLock, ProcessWrite, ProcessPost,
         ProcessFailing, ProcessFail, DeleteRead, DeleteRow, SyncRead, SyncIndex, SyncClear, Step
    <3>3. ~End(w)
      BY <1>0 DEF End, ProcessesOK, Idle
    <3> QED BY <3>2, <3>3 DEF DeleteIndex
  <2> QED BY <2>1, <2>2
<1>2. ASSUME NEW v \in Workers, Crash(v) PROVE worker[w].pc = "d_row"
  BY <1>0, <1>2 DEF Crash, ProcessesOK, Idle
<1>3. ASSUME NEW v \in Workers, NEW k \in Kinds, Take(v, k) PROVE worker[w].pc = "d_row"
  <2>1. FirstPc(k) \in {"p_read", "d_read", "s_read"}
    BY DEF FirstPc, Kinds
  <2> QED BY <1>0, <1>3, <2>1 DEF Take, ProcessesOK
<1>4. ASSUME NEW c \in Clients, ClientStep(c) PROVE UNCHANGED worker
  BY <1>4 DEF ClientStep, BeginDelete, BeginLink, BeginUnlink, Begins, CommitDelete,
     CommitLink, CommitUnlink
<1>5. ASSUME NEW k \in Kinds, Beat(k) \/ MessageExpires(k) \/ GuardExpires(k) \/ LockExpires(k)
      PROVE  UNCHANGED worker
  BY <1>5 DEF Beat, MessageExpires, GuardExpires, LockExpires
<1>6. DeleteProject \/ UNCHANGED vars => UNCHANGED worker
  BY DEF DeleteProject, vars
<1> QED BY <1>1, <1>2, <1>3, <1>4, <1>5, <1>6 DEF Next

LEMMA ChunksStep ==
    ASSUME TypeInv, DeletionAlone, ChunksRemoved, [Next]_vars
    PROVE  ChunksRemoved'
<1> SUFFICES ASSUME ~raced', status' = "GONE" \/ \E w \in Workers : worker'[w].pc = "d_row",
                    index' # Absent
             PROVE  FALSE
  BY DEF ChunksRemoved
<1>1. ~raced
  BY RacedStays
<1>2. status = "GONE" \/ \E w \in Workers : worker[w].pc = "d_row"
  <2>1. CASE status' = "GONE"
    BY <2>1, StatusMoves DEF Completed
  <2>2. CASE \E w \in Workers : worker'[w].pc = "d_row"
    BY <2>2, RowLast
  <2> QED BY <2>1, <2>2
<1>3. index = Absent /\ DeletionBegun
  BY <1>1, <1>2 DEF ChunksRemoved, DeletionBegun, DeletePending
<1>4. \A w \in Workers : ~Indexing(w)
  BY <1>1, <1>3 DEF DeletionAlone
<1> QED BY <1>3, <1>4, ChunksAppear

\* Chunks are only removed by a delete task.
LEMMA ChunksVanish ==
    ASSUME TypeInv, [Next]_vars, index # Absent, index' = Absent
    PROVE  DeletePending
<1>0. \A b : Chunks(b) # Absent
  <2> SUFFICES ASSUME NEW b, Chunks(b) = Absent PROVE FALSE
    OBVIOUS
  <2>1. DOMAIN Chunks(b) = {"project"} /\ DOMAIN Absent = {"absent"}
    BY DEF Chunks, Absent
  <2> QED BY <2>1
<1>1. ASSUME NEW w \in Workers, WorkerStep(w) PROVE worker[w].pc = "d_index"
  BY <1>0, <1>1 DEF WorkerStep, ProcessRead, ProcessLock, ProcessWrite, ProcessPost, ProcessFailing,
     ProcessFail, DeleteRead, DeleteIndex, DeleteRow, SyncRead, SyncIndex, SyncClear, Step
<1>2. ASSUME NEW w \in Workers, Crash(w) \/ \E k \in Kinds : Take(w, k) PROVE FALSE
  BY <1>2 DEF Crash, Take
<1>3. ASSUME NEW c \in Clients, ClientStep(c) PROVE FALSE
  BY <1>3 DEF ClientStep, BeginDelete, BeginLink, BeginUnlink, Begins, CommitDelete,
     CommitLink, CommitUnlink
<1>4. ASSUME NEW k \in Kinds, Beat(k) \/ MessageExpires(k) \/ GuardExpires(k) \/ LockExpires(k)
      PROVE  FALSE
  BY <1>4 DEF Beat, MessageExpires, GuardExpires, LockExpires
<1>5. DeleteProject \/ UNCHANGED vars => FALSE
  BY DEF DeleteProject, vars
<1> QED BY <1>1, <1>2, <1>3, <1>4, <1>5 DEF Next, DeletePending

\* A worker about to complete the file has written the chunks.
LEMMA PostAfterWrite ==
    ASSUME TypeInv, [Next]_vars, NEW w \in Workers, worker'[w].pc = "p_post"
    PROVE  worker[w].pc = "p_post" \/ index' # Absent
<1>0. ProcessesOK
  BY DEF TypeInv
<1>1. ASSUME NEW v \in Workers, WorkerStep(v) PROVE worker[w].pc = "p_post" \/ index' # Absent
  <2>1. CASE v # w
    BY <1>1, <2>1, WorkerMoves
  <2>2. CASE v = w
    <3>1. worker[w].pc = "p_write"
      BY <1>1, <2>2, WorkerMoves DEF Arcs
    <3>2. ProcessWrite(w)
      BY <1>1, <2>2, <3>1 DEF WorkerStep, ProcessRead, ProcessLock, ProcessPost, ProcessFailing,
         ProcessFail, DeleteRead, DeleteIndex, DeleteRow, SyncRead, SyncIndex, SyncClear, Step
    <3>3. CASE index' = Chunks(worker[w].project)
      <4>1. DOMAIN index' = {"project"} /\ DOMAIN Absent = {"absent"}
        BY <3>3 DEF Chunks, Absent
      <4> QED BY <4>1
    <3>4. CASE Go(w, "p_failing")
      <4>1. [worker[w] EXCEPT !.pc = "p_failing"] \in Records /\ "p_failing" \in Pcs
        BY <1>0, <3>1, RecordMoves DEF ProcessesOK, Pcs
      <4>3. worker[w] # Idle
        BY <3>1 DEF Idle
      <4>2. UNCHANGED client
        BY <1>1, WorkerMoves
      <4> QED BY <1>0, <2>2, <3>4, <4>1, <4>2, <4>3, GotoOK DEF Go
    <3> QED BY <3>2, <3>3, <3>4 DEF ProcessWrite
  <2> QED BY <2>1, <2>2
<1>2. ASSUME NEW v \in Workers, Crash(v) PROVE worker[w].pc = "p_post"
  BY <1>0, <1>2 DEF Crash, ProcessesOK, Idle
<1>3. ASSUME NEW v \in Workers, NEW k \in Kinds, Take(v, k) PROVE worker[w].pc = "p_post"
  <2>1. FirstPc(k) \in {"p_read", "d_read", "s_read"}
    BY DEF FirstPc, Kinds
  <2> QED BY <1>0, <1>3, <2>1 DEF Take, ProcessesOK
<1>4. ASSUME NEW c \in Clients, ClientStep(c) PROVE UNCHANGED worker
  BY <1>4 DEF ClientStep, BeginDelete, BeginLink, BeginUnlink, Begins, CommitDelete,
     CommitLink, CommitUnlink
<1>5. ASSUME NEW k \in Kinds, Beat(k) \/ MessageExpires(k) \/ GuardExpires(k) \/ LockExpires(k)
      PROVE  UNCHANGED worker
  BY <1>5 DEF Beat, MessageExpires, GuardExpires, LockExpires
<1>6. DeleteProject \/ UNCHANGED vars => UNCHANGED worker
  BY DEF DeleteProject, vars
<1> QED BY <1>1, <1>2, <1>3, <1>4, <1>5, <1>6 DEF Next

LEMMA ThereStep ==
    ASSUME TypeInv, DeletionAlone, ChunksThere, [Next]_vars
    PROVE  ChunksThere'
<1> SUFFICES ASSUME ~raced', index' = Absent,
                    status' = "COMPLETED" \/ \E w \in Workers : worker'[w].pc = "p_post"
             PROVE  FALSE
  BY DEF ChunksThere
<1>1. ~raced
  BY RacedStays
<1>2. status = "COMPLETED" \/ \E w \in Workers : worker[w].pc = "p_post"
  <2>1. CASE status' = "COMPLETED"
    BY <2>1, StatusMoves
  <2>2. CASE \E w \in Workers : worker'[w].pc = "p_post"
    BY <2>2, PostAfterWrite
  <2> QED BY <2>1, <2>2
<1>3. index # Absent
  BY <1>1, <1>2 DEF ChunksThere
<1>4. DeletePending
  BY <1>3, ChunksVanish
<1> QED BY <1>1, <1>2, <1>4 DEF DeletionAlone, DeletionBegun, Indexing

-----------------------------------------------------------------------------
(***************************************************************************)
(* The theorems                                                            *)
(***************************************************************************)
LEMMA Invariants == Spec => []IInv
<1>1. Init => IInv
  <2>1. Init => DeletionAlone /\ ChunksRemoved /\ ChunksThere
    BY DEF Init, DeletionAlone, ChunksRemoved, ChunksThere, DeletionBegun, DeletePending, Indexing, Idle, Kinds
  <2> QED BY <2>1, TypeInit DEF IInv
<1>2. IInv /\ [Next]_vars => IInv'
  <2>1. TypeInv /\ [Next]_vars => TypeInv'
    BY ColumnsStep, ProcessesStep, HolderStep DEF TypeInv
  <2> QED BY <2>1, AloneStep, ChunksStep, ThereStep DEF IInv
<1> QED BY <1>1, <1>2, PTL DEF Spec

\* Types hold, and whoever holds the row lock is a live worker writing chunks.
THEOREM TypeCorrect == Spec => []TypeOK
<1>1. IInv => TypeOK
  <2> SUFFICES ASSUME IInv PROVE TypeOK
    OBVIOUS
  <2>1. \A w \in Workers : worker[w] = Idle \/ worker[w].pc \in Pcs
    BY RecordFacts DEF IInv, TypeInv, ProcessesOK
  <2> QED BY <2>1 DEF IInv, TypeInv, ColumnsOK, KeysOK, HolderWrites, TypeOK
<1> QED BY Invariants, <1>1, PTL

\* A deleted file leaves no chunks, unless the request overtook processing.
THEOREM DeletedLeavesNothing == Spec => []GoneLeavesNothing
<1>1. IInv => GoneLeavesNothing
  BY DEF IInv, ChunksRemoved, GoneLeavesNothing
<1> QED BY Invariants, <1>1, PTL

\* From the request to delete a file on it never turns up as COMPLETED.
THEOREM DeletionNeverCompletes == Spec => DeletionWins
<1> DEFINE Wins == status = "DELETING" \/ (DeletePending /\ ~raced) => status' # "COMPLETED"
<1>1. IInv /\ [Next]_vars => [Wins]_vars
  <2> SUFFICES ASSUME IInv, [Next]_vars, status = "DELETING" \/ (DeletePending /\ ~raced),
                      status' = "COMPLETED"
               PROVE  FALSE
    OBVIOUS
  <2>1. CASE status = "DELETING"
    BY <2>1, StatusMoves DEF IInv, Completed
  <2>2. CASE DeletePending /\ ~raced
    <3>1. status \in {"DELETING", "FAILED", "GONE"} /\ \A w \in Workers : ~Indexing(w)
      BY <2>2 DEF IInv, DeletionAlone, DeletionBegun
    <3> QED BY <3>1, StatusMoves DEF IInv, Indexing
  <2> QED BY <2>1, <2>2
<1>2. Spec => [][Wins]_vars
  BY Invariants, <1>1, PTL DEF Spec
<1> QED BY <1>2 DEF DeletionWins

\* A file is shown as COMPLETED only with its chunks in the document index, unless
\* the request to delete it overtook processing.
THEOREM CompletedHasChunks == Spec => []CompletedIsSearchable
<1>1. IInv => CompletedIsSearchable
  BY DEF IInv, ChunksThere, CompletedIsSearchable
<1> QED BY Invariants, <1>1, PTL
=============================================================================
