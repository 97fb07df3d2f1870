------------------------------ MODULE UserFiles ------------------------------
(***************************************************************************)
(* One uploaded user file: its row in Postgres, its chunks in the document *)
(* index, and the three kinds of Celery task that work on it (processing,  *)
(* deletion, project sync), in the deployment with Redis and a vector DB.  *)
(*                                                                         *)
(* Each kind has a beat that looks for rows to work on, a queued guard in  *)
(* Redis that stops the beat from sending a second task, and a per-file    *)
(* lock that a task takes without waiting.  The kinds exclude themselves,  *)
(* not each other: the only lock that processing, deletion and the API     *)
(* have in common is the Postgres row lock that processing holds while it  *)
(* writes chunks and the statements of the others wait for.                *)
(* Tasks are acknowledged late: a task whose worker dies may run again.    *)
(***************************************************************************)
EXTENDS Integers, FiniteSets

CONSTANTS
    Workers,       \* user_file_processing worker threads
    Clients,       \* concurrent API requests
    MaxQueueDepth, \* USER_FILE_*_MAX_QUEUE_DEPTH
    MaxRequests,   \* bound: API requests
    Events,        \* the kinds of trouble a behaviour may contain
    MaxEvents      \* bound: how many of them

Kinds == {"process", "delete", "sync"}
EventKinds == {"index_error", "send_error", "crash", "expired", "slow"}

Nobody == [none |-> TRUE]
Dead == [dead |-> TRUE]      \* the lock of a worker that died

ASSUME ConstantsAssumption ==
    /\ Nobody \notin Workers /\ Dead \notin Workers
    /\ MaxQueueDepth \in Nat /\ MaxRequests \in Nat
    /\ Events \subseteq EventKinds /\ MaxEvents \in Nat

VARIABLES
    \* Postgres
    status,    \* UserFileStatus, or "GONE" without a row
    linked,    \* is the file in the project?
    needsSync, \* needs_project_sync
    held,      \* the worker that holds the row lock, or Nobody
    \* The document index: Absent, or the chunks with their project field
    index,
    \* Redis and the broker
    queue,     \* queued tasks of each kind
    guard,     \* kinds whose queued key is set
    lock,      \* per-file lock of each kind: its holder, Nobody or Dead
    \* Processes
    worker, client,
    requests,  \* API requests begun
    raced,     \* the deletion was requested while processing was under way
    spent      \* how many Events have happened

postgres == <<status, linked, needsSync, held>>
redis == <<queue, guard, lock>>
vars == <<postgres, index, redis, worker, client, requests, raced, spent>>

-----------------------------------------------------------------------------
Absent == [absent |-> TRUE]
Chunks(project) == [project |-> project]
Idle == [pc |-> "idle"]

Exists == status # "GONE"
\* A statement that changes the row waits for its lock
Unlocked == held = Nobody

Happens(kind) == kind \in Events /\ spent < MaxEvents /\ spent' = spent + 1
NothingHappens == UNCHANGED spent

\* Mutant: the check that keeps deleted files deleted is missing
CompletedAlways(s) == "COMPLETED"
\* post_index leaves the status of a file being deleted alone
Completed(s) == IF s = "DELETING" THEN s ELSE "COMPLETED"

\* What the three beats select
Wanted(kind) ==
    \/ kind = "process" /\ status = "PROCESSING"
    \/ kind = "delete" /\ status = "DELETING"
    \/ kind = "sync" /\ status = "COMPLETED" /\ needsSync

\* Mutant: the lock is taken without a timeout
LockOutlives(kind) == FALSE
\* The timeout of a lock frees it when its holder died, or is slower than it
LockTimesOut(kind) ==
    \/ lock[kind] = Dead /\ NothingHappens
    \/ lock[kind] \in Workers /\ Happens("slow")

\* Mutant: a task works on the file whatever its status
AnyStatus == Exists
\* process_user_file_impl skips a file that is not waiting for it; INDEXING
\* belongs to the deployment without a vector DB
Processable == status = "PROCESSING"

ClearedFlag == FALSE

\* Mutant: a worker that dies leaves its transaction open
HeldForever(w) == held
\* The row lock goes with its transaction
Released(w) == IF held = w THEN Nobody ELSE held

-----------------------------------------------------------------------------
\* create_user_files and its task, with expiry and without the guard
Init ==
    /\ status \in {"PROCESSING", "SKIPPED"}
    /\ linked \in BOOLEAN /\ needsSync = FALSE /\ held = Nobody
    /\ index = Absent
    /\ queue = [k \in Kinds |-> IF k = "process" /\ status = "PROCESSING" THEN 1 ELSE 0]
    /\ guard = {} /\ lock = [k \in Kinds |-> Nobody]
    /\ worker = [w \in Workers |-> Idle] /\ client = [c \in Clients |-> Idle]
    /\ requests = 0 /\ raced = FALSE /\ spent = 0

-----------------------------------------------------------------------------
(***************************************************************************)
(* The API.  A request reads the row in one statement and writes it in     *)
(* another; nothing it read is locked.                                     *)
(***************************************************************************)
Begins(c, rec) ==
    /\ client[c] = Idle /\ requests < MaxRequests
    /\ requests' = requests + 1 /\ client' = [client EXCEPT ![c] = rec]
    /\ UNCHANGED <<postgres, index, redis, worker, raced, spent>>

\* A file in a project is not deleted, an association is changed only if it
\* has to be.  The ORM writes a column only if it differs from what was read.
BeginDelete(c) == Exists /\ ~linked /\ Begins(c, [pc |-> "delete", flag |-> status = "DELETING"])
BeginLink(c) == Exists /\ ~linked /\ Begins(c, [pc |-> "link", flag |-> needsSync])
BeginUnlink(c) == Exists /\ linked /\ Begins(c, [pc |-> "unlink", flag |-> needsSync])

\* delete_user_file: the status, committed, then a task without guard or expiry.
\* For a row that is gone the request fails.
CommitDelete(c) ==
    /\ client[c].pc = "delete" /\ Unlocked
    /\ \/ /\ Exists
          /\ status' = IF client[c].flag THEN status ELSE "DELETING"
          /\ raced' = (raced \/ \E w \in Workers : worker[w].pc = "p_lock")
          /\ \/ queue' = [queue EXCEPT !["delete"] = @ + 1] /\ NothingHappens
             \/ Happens("send_error") /\ UNCHANGED queue
       \/ ~Exists /\ UNCHANGED <<status, queue, raced, spent>>
    /\ client' = [client EXCEPT ![c] = Idle]
    /\ UNCHANGED <<linked, needsSync, held, index, guard, lock, worker, requests>>

\* enqueue_user_file_project_sync_task; a failed send leaves no guard
EnqueueSync ==
    \/ /\ queue["sync"] <= MaxQueueDepth /\ "sync" \notin guard
       /\ guard' = guard \union {"sync"}
       /\ queue' = [queue EXCEPT !["sync"] = @ + 1]
       /\ NothingHappens
    \/ /\ queue["sync"] > MaxQueueDepth \/ "sync" \in guard
       /\ UNCHANGED <<guard, queue, spent>>
    \/ Happens("send_error") /\ UNCHANGED <<guard, queue>>

\* link_user_file_to_project: the foreign key of the association needs the row
CommitLink(c) ==
    /\ client[c].pc = "link" /\ Unlocked
    /\ \/ /\ Exists
          /\ linked' = TRUE /\ needsSync' = (client[c].flag => needsSync)
          /\ EnqueueSync
       \/ ~Exists /\ UNCHANGED <<linked, needsSync, guard, queue, spent>>
    /\ client' = [client EXCEPT ![c] = Idle]
    /\ UNCHANGED <<status, held, index, lock, worker, requests, raced>>

\* unlink_user_file_from_project: with the flag already set only the
\* association changes, and the row lock does not matter
CommitUnlink(c) ==
    /\ client[c].pc = "unlink"
    /\ client[c].flag \/ Unlocked
    /\ \/ /\ Exists
          /\ linked' = FALSE /\ needsSync' = (client[c].flag => needsSync)
          /\ EnqueueSync
       \/ ~Exists /\ UNCHANGED <<linked, needsSync, guard, queue, spent>>
    /\ client' = [client EXCEPT ![c] = Idle]
    /\ UNCHANGED <<status, held, index, lock, worker, requests, raced>>

\* delete_project removes the association and sets no flag
DeleteProject ==
    /\ linked /\ requests < MaxRequests /\ requests' = requests + 1
    /\ linked' = FALSE
    /\ UNCHANGED <<status, needsSync, held, index, redis, worker, client, raced, spent>>

-----------------------------------------------------------------------------
(***************************************************************************)
(* The beats and the expiry of keys and messages.                          *)
(***************************************************************************)
\* check_user_file_processing, check_for_user_file_delete and
\* check_for_user_file_project_sync; a failed send leaves no guard, a beat
\* that dies after setting the guard leaves it without a task
Beat(kind) ==
    /\ Wanted(kind) /\ kind \notin guard /\ queue[kind] <= MaxQueueDepth
    /\ guard' = guard \union {kind}
    /\ \/ queue' = [queue EXCEPT ![kind] = @ + 1] /\ NothingHappens
       \/ Happens("crash") /\ UNCHANGED queue
    /\ UNCHANGED <<postgres, index, lock, worker, client, requests, raced>>

\* A task waits longer than its expiry and is discarded; the guard, set for
\* as long, goes too, and may go before the task
MessageExpires(kind) ==
    /\ Happens("expired")
    /\ \/ queue[kind] > 0 /\ queue' = [queue EXCEPT ![kind] = @ - 1]
       \/ kind \in guard /\ UNCHANGED queue
    /\ guard' = guard \ {kind}
    /\ UNCHANGED <<postgres, index, lock, worker, client, requests, raced>>

\* The guard of a task that no longer exists ends with its time to live
GuardExpires(kind) ==
    /\ kind \in guard /\ queue[kind] = 0
    /\ guard' = guard \ {kind}
    /\ UNCHANGED <<postgres, index, queue, lock, worker, client, requests, raced, spent>>

LockExpires(kind) ==
    /\ LockTimesOut(kind)
    /\ lock' = [lock EXCEPT ![kind] = Nobody]
    /\ UNCHANGED <<postgres, index, queue, guard, worker, client, requests, raced>>

-----------------------------------------------------------------------------
(***************************************************************************)
(* The tasks.                                                              *)
(***************************************************************************)
FirstPc(kind) ==
    CASE kind = "process" -> "p_read" [] kind = "delete" -> "d_read" [] kind = "sync" -> "s_read"

\* The task clears its guard first, then takes the lock or gives up
Take(w, kind) ==
    /\ worker[w] = Idle /\ queue[kind] > 0
    /\ queue' = [queue EXCEPT ![kind] = @ - 1]
    /\ guard' = guard \ {kind}
    /\ \/ /\ lock[kind] = Nobody
          /\ lock' = [lock EXCEPT ![kind] = w]
          /\ worker' = [worker EXCEPT ![w] = [pc |-> FirstPc(kind), kind |-> kind]]
       \/ lock[kind] # Nobody /\ UNCHANGED <<lock, worker>>
    /\ UNCHANGED <<postgres, index, client, requests, raced, spent>>

Goto(w, pc) == worker' = [worker EXCEPT ![w].pc = pc]
\* finally: if file_lock.owned(): file_lock.release()
End(w) ==
    /\ worker' = [worker EXCEPT ![w] = Idle]
    /\ lock' = [lock EXCEPT ![worker[w].kind] = IF @ = w THEN Nobody ELSE @]
Step(w, pc) == worker[w].pc = pc /\ UNCHANGED <<queue, guard, client, requests, raced>>
Go(w, pc) == Goto(w, pc) /\ UNCHANGED lock

\* process_user_file_impl: the session of this read ends before the file I/O
ProcessRead(w) ==
    /\ Step(w, "p_read")
    /\ IF Processable THEN Go(w, "p_lock") ELSE End(w)
    /\ UNCHANGED <<postgres, index, spent>>

\* lock_context, three attempts that do not wait, and prepare_enrichment;
\* everything before it (loading, chunking, embedding) may fail
ProcessLock(w) ==
    /\ Step(w, "p_lock") /\ UNCHANGED <<status, linked, needsSync, index>>
    /\ \/ /\ Exists /\ Unlocked
          /\ held' = w
          /\ worker' = [worker EXCEPT ![w] = [pc |-> "p_write", kind |-> "process",
                                              project |-> linked]]
          /\ UNCHANGED <<lock, spent>>
       \/ /\ ~Exists \/ ~Unlocked
          /\ Go(w, "p_failing") /\ NothingHappens /\ UNCHANGED held
       \/ /\ Happens("index_error")
          /\ Go(w, "p_failing") /\ UNCHANGED held

\* Mutant: an error of the document index is swallowed
ProcessWriteAnyway(w) ==
    /\ Step(w, "p_write") /\ UNCHANGED <<status, linked, needsSync, held>>
    /\ \/ index' = Chunks(worker[w].project) /\ NothingHappens
       \/ Happens("index_error") /\ UNCHANGED index
    /\ Go(w, "p_post")

ProcessWrite(w) ==
    /\ Step(w, "p_write") /\ UNCHANGED <<status, linked, needsSync>>
    /\ \/ /\ index' = Chunks(worker[w].project)
          /\ Go(w, "p_post") /\ NothingHappens /\ UNCHANGED held
       \/ /\ Happens("index_error")
          /\ held' = Released(w)
          /\ Go(w, "p_failing") /\ UNCHANGED index

\* post_index, committed with the end of lock_context; documents the pipeline
\* reports as failed are found afterwards
ProcessPost(w) ==
    /\ Step(w, "p_post")
    /\ status' = Completed(status)
    /\ held' = Released(w)
    /\ \/ End(w) /\ NothingHappens
       \/ Happens("index_error") /\ Go(w, "p_failing")
    /\ UNCHANGED <<linked, needsSync, index>>

\* The failure handler reads the status and writes FAILED without a lock
ProcessFailing(w) ==
    /\ Step(w, "p_failing")
    /\ IF status \in {"DELETING", "GONE"} THEN End(w) ELSE Go(w, "p_fail")
    /\ UNCHANGED <<postgres, index, spent>>

ProcessFail(w) ==
    /\ Step(w, "p_fail") /\ Unlocked
    /\ status' = IF Exists THEN "FAILED" ELSE status
    /\ End(w)
    /\ UNCHANGED <<linked, needsSync, held, index, spent>>

\* delete_user_file_impl, phase 1: only the existence of the row matters
DeleteRead(w) ==
    /\ Step(w, "d_read")
    /\ IF Exists THEN Go(w, "d_index") ELSE End(w)
    /\ UNCHANGED <<postgres, index, spent>>

\* Phase 2: the chunks and the stored files
DeleteIndex(w) ==
    /\ Step(w, "d_index")
    /\ \/ index' = Absent /\ Go(w, "d_row") /\ NothingHappens
       \/ Happens("index_error") /\ End(w) /\ UNCHANGED index
    /\ UNCHANGED postgres

\* Phase 3: the row and its associations
DeleteRow(w) ==
    /\ Step(w, "d_row") /\ Unlocked
    /\ status' = "GONE" /\ linked' = FALSE /\ needsSync' = FALSE
    /\ End(w)
    /\ UNCHANGED <<held, index, spent>>

\* project_sync_user_file_impl, phase 1
SyncRead(w) ==
    /\ Step(w, "s_read")
    /\ \/ /\ Exists
          /\ worker' = [worker EXCEPT ![w] = [pc |-> "s_index", kind |-> "sync",
                                              project |-> linked]]
          /\ UNCHANGED lock
       \/ ~Exists /\ End(w)
    /\ UNCHANGED <<postgres, index, spent>>

\* Phase 2: chunks that do not exist are not updated
SyncIndex(w) ==
    /\ Step(w, "s_index")
    /\ \/ /\ index' = IF index = Absent THEN Absent ELSE Chunks(worker[w].project)
          /\ Go(w, "s_clear") /\ NothingHappens
       \/ Happens("index_error") /\ End(w) /\ UNCHANGED index
    /\ UNCHANGED postgres

\* Phase 3: the flag is cleared whatever has happened since phase 1
SyncClear(w) ==
    /\ Step(w, "s_clear") /\ Unlocked
    /\ needsSync' = ClearedFlag
    /\ End(w)
    /\ UNCHANGED <<status, linked, held, index, spent>>

\* The process dies: its transaction is rolled back, its lock stays until it
\* times out, the task comes back unless it has expired
Crash(w) ==
    /\ worker[w] # Idle /\ Happens("crash")
    /\ worker' = [worker EXCEPT ![w] = Idle]
    /\ lock' = [lock EXCEPT ![worker[w].kind] = IF @ = w THEN Dead ELSE @]
    /\ held' = Released(w)
    /\ \/ queue' = [queue EXCEPT ![worker[w].kind] = @ + 1]
       \/ UNCHANGED queue
    /\ UNCHANGED <<status, linked, needsSync, index, guard, client, requests, raced>>

-----------------------------------------------------------------------------
ClientStep(c) ==
    \/ BeginDelete(c) \/ BeginLink(c) \/ BeginUnlink(c)
    \/ CommitDelete(c) \/ CommitLink(c) \/ CommitUnlink(c)

WorkerStep(w) ==
    \/ ProcessRead(w) \/ ProcessLock(w) \/ ProcessWrite(w) \/ ProcessPost(w)
    \/ ProcessFailing(w) \/ ProcessFail(w)
    \/ DeleteRead(w) \/ DeleteIndex(w) \/ DeleteRow(w)
    \/ SyncRead(w) \/ SyncIndex(w) \/ SyncClear(w)

Next ==
    \/ \E c \in Clients : ClientStep(c)
    \/ DeleteProject
    \/ \E k \in Kinds : Beat(k) \/ MessageExpires(k) \/ GuardExpires(k) \/ LockExpires(k)
    \/ \E w \in Workers : WorkerStep(w) \/ Crash(w)
    \/ \E w \in Workers, k \in Kinds : Take(w, k)

Spec == Init /\ [][Next]_vars

\* The beats are periodic, keys have times to live, worker threads run and
\* serve every queue they are subscribed to
Fairness ==
    /\ \A k \in Kinds : /\ WF_vars(Beat(k)) /\ WF_vars(GuardExpires(k))
                        /\ WF_vars(LockExpires(k))
                        /\ SF_vars(\E w \in Workers : Take(w, k))
    /\ \A w \in Workers : WF_vars(WorkerStep(w))

FairSpec == Spec /\ Fairness

-----------------------------------------------------------------------------
Pcs == {"p_read", "p_lock", "p_write", "p_post", "p_failing", "p_fail",
        "d_read", "d_index", "d_row", "s_read", "s_index", "s_clear"}

\* Types, and: whoever holds the row lock is a live worker inside lock_context.
TypeOK ==
    /\ status \in {"PROCESSING", "COMPLETED", "FAILED", "SKIPPED", "DELETING", "GONE"}
    /\ linked \in BOOLEAN /\ needsSync \in BOOLEAN
    /\ index \in {Absent} \union {Chunks(b) : b \in BOOLEAN}
    /\ queue \in [Kinds -> Nat] /\ guard \subseteq Kinds
    /\ lock \in [Kinds -> Workers \union {Nobody, Dead}]
    /\ raced \in BOOLEAN
    /\ \A w \in Workers : worker[w] = Idle \/ worker[w].pc \in Pcs
    /\ \A w \in Workers : (held = w) <=> (worker[w].pc \in {"p_write", "p_post"})

DeletePending ==
    \/ queue["delete"] > 0
    \/ \E w \in Workers : worker[w].pc \in {"d_read", "d_index", "d_row"}

\* A file shown as COMPLETED has its chunks in the document index, whatever
\* processing, deletion and failures overlapped, unless processing had passed
\* its status check when a deletion was requested: then a second processing task
\* that fails takes DELETING back, the first one completes the file, and a delete
\* task that dies after it has removed the chunks leaves a COMPLETED file without.
CompletedIsSearchable ==
    status = "COMPLETED" /\ ~raced => index # Absent

\* A deleted file leaves no chunks behind, unless processing had passed its
\* status check when the deletion was requested: then chunks written between
\* the two deletes of delete_user_file_impl stay.
GoneLeavesNothing == status = "GONE" /\ ~raced => index = Absent

\* A file whose deletion was requested never turns up as COMPLETED: processing
\* that was under way finds DELETING under the row lock (post_index), and the
\* API waits for it.  Only a file that processing had begun to index, and that
\* a second, failing processing task marked FAILED in spite of the request,
\* gets past post_index.
DeletionWins ==
    [][status = "DELETING" \/ (DeletePending /\ ~raced) => status' # "COMPLETED"]_vars

\* What is to be done with a file is done, in spite of lost tasks, crashed
\* workers and the locks they leave behind: an uploaded file leaves PROCESSING,
\* one marked DELETING does not stay in that status, and one whose projects
\* changed is synced, or is no longer completed.
WorkEnds ==
    /\ (status = "PROCESSING") ~> (status # "PROCESSING")
    /\ (status = "DELETING") ~> (status # "DELETING")
    /\ (status = "COMPLETED" /\ needsSync) ~> (status # "COMPLETED" \/ ~needsSync)

=============================================================================
