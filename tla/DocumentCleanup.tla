--------------------------- MODULE DocumentCleanup ---------------------------
(***************************************************************************)
(* One document that several connector/credential pairs (cc_pairs) index,  *)
(* and the tasks that change it.                                           *)
(*                                                                         *)
(* Postgres holds the document row and one reference per cc_pair that      *)
(* indexed the document; the document index holds its chunks with the      *)
(* access and metadata they were last written with.  Three kinds of task   *)
(* keep the two stores together, none of them in one transaction:          *)
(*   - docprocessing writes the row, the reference and then the chunks;    *)
(*   - document_by_cc_pair_cleanup_task, sent by connector deletion and by *)
(*     pruning, counts the references, then changes the document index,    *)
(*     then Postgres;                                                      *)
(*   - document_index_metadata_sync_task, sent by check_for_vespa_sync     *)
(*     for documents with last_modified > last_synced, copies access and   *)
(*     metadata to the document index and then marks the document synced.  *)
(* Tasks are acknowledged late: a task whose worker dies runs again.       *)
(***************************************************************************)
EXTENDS Integers, FiniteSets

CONSTANTS
    CCPairs,     \* the connector/credential pairs
    Docprocessors, \* docprocessing worker threads
    LightWorkers,  \* light worker threads: cleanup and metadata sync
    MaxRetries,  \* DOCUMENT_BY_CC_PAIR_CLEANUP_MAX_RETRIES
    MaxIndexing, \* bound: docprocessing tasks for the document
    Events,      \* the kinds of trouble a behaviour may contain
    MaxEvents    \* bound: how many of them

EventKinds ==
    {"index_error", "http_error", "crash", "redelivery", "restart", "beat_crash",
     "source_removal", "edit"}

ASSUME ConstantsAssumption ==
    /\ CCPairs # {} /\ IsFiniteSet(CCPairs)
    /\ Docprocessors \intersect LightWorkers = {}
    /\ MaxRetries \in Nat /\ MaxIndexing \in Nat
    /\ Events \subseteq EventKinds /\ MaxEvents \in Nat

VARIABLES
    \* Postgres
    status,    \* ConnectorCredentialPairStatus: "ACTIVE" or "DELETING"
    row,       \* is there a document row?
    refs,      \* cc_pairs with a document_by_connector_credential_pair row
    dirty,     \* last_modified > last_synced, or never synced
    hashed,    \* content_hash is set and is the source's present content
    meta,      \* version of boost, hidden and document sets
    held,      \* the thread that holds the row lock of the document, or Nobody
    \* The document index: Absent, or the access and metadata of the chunks
    index,
    \* The sources and Redis
    source,    \* cc_pairs whose source still has the document
    cleanups,  \* queued cleanup tasks: cleanups[c][retries] of them
    syncs,     \* queued metadata sync tasks: syncs[retries] of them
    fence,     \* documentsync_fence
    \* Processes
    thread,
    alone,     \* no two tasks have overlapped and no cleanup ran twice so far
    indexings, \* docprocessing tasks begun
    spent      \* how many Events have happened

postgres == <<status, row, refs, dirty, hashed, meta, held>>
queues == <<cleanups, syncs, fence>>
vars == <<postgres, index, source, queues, thread, alone, indexings, spent>>

-----------------------------------------------------------------------------
Threads == Docprocessors \union LightWorkers

Nobody == [none |-> TRUE]
ASSUME NobodyAssumption == Nobody \notin Threads
Absent == [absent |-> TRUE]
Chunks(access, version) == [access |-> access, meta |-> version]

\* Mutant: the access a cc_pair gives outlives its deletion
AccessOfAll == refs
\* get_access_for_document: cc_pairs being deleted give no access
Access == {c \in refs : status[c] # "DELETING"}

Retries == 0..MaxRetries
Idle == [pc |-> "idle"]
CleanupPcs == {"clean_io", "clean_db"}
SyncPcs == {"sync_io", "sync_db"}
IndexPcs == {"relate", "lock", "write", "post"}

IsIdle(t) == thread[t].pc = "idle"
Run(t, rec) == thread' = [thread EXCEPT ![t] = rec]
Goto(t, pc) == Run(t, [thread[t] EXCEPT !.pc = pc])
End(t) == Run(t, Idle)

\* A thread takes a task
Take(t) ==
    /\ IsIdle(t)
    /\ alone' = (alone /\ \A u \in Threads : IsIdle(u))

Happens(kind) == kind \in Events /\ spent < MaxEvents /\ spent' = spent + 1
NothingHappens == UNCHANGED spent

AddCleanup(c, r) == cleanups' = [cleanups EXCEPT ![c][r] = @ + 1]
AddSync(r) == syncs' = [syncs EXCEPT ![r] = @ + 1]

CleanupPending(c) ==
    \/ \E r \in Retries : cleanups[c][r] > 0
    \/ \E t \in Threads : thread[t].pc \in CleanupPcs /\ thread[t].cc = c
SyncPending ==
    \/ \E r \in Retries : syncs[r] > 0
    \/ \E t \in Threads : thread[t].pc \in SyncPcs

\* Mutant: deleting the document does not wait for the row lock
NoLock == TRUE
\* Writes to the document row wait for its lock
Unlocked == held = Nobody
\* Mutant: the lock outlives the transaction
StillHeld(t) == held
\* The end of a transaction releases its row lock
Released(t) == IF held = t THEN Nobody ELSE held

\* Mutant: a document shared by two cc_pairs counts as unshared
ActionOffByOne(n) == IF n = 0 THEN "SKIP" ELSE IF n <= 2 THEN "DELETE" ELSE "UPDATE"
\* DocumentCleanupAction for a document with n references
ActionFor(n) == IF n = 0 THEN "SKIP" ELSE IF n = 1 THEN "DELETE" ELSE "UPDATE"

\* Mutant: only pruning sends cleanup tasks
NeedsPruning(c) == c \notin source
NeedsCleanup(c) == status[c] = "DELETING" \/ c \notin source

\* Mutant: the query its docstring describes, which leaves out documents that
\* no cc_pair references
NeedsSyncIfReferenced == row /\ dirty /\ refs # {}
\* construct_document_id_select_by_needs_sync
NeedsSync == row /\ dirty

Init ==
    /\ status = [c \in CCPairs |-> "ACTIVE"]
    /\ row = FALSE /\ refs = {} /\ dirty = FALSE /\ hashed = FALSE /\ meta = 0
    /\ held = Nobody
    /\ index = Absent
    /\ source = CCPairs
    /\ cleanups = [c \in CCPairs |-> [r \in Retries |-> 0]]
    /\ syncs = [r \in Retries |-> 0]
    /\ fence = FALSE
    /\ thread = [t \in Threads |-> Idle] /\ alone = TRUE
    /\ indexings = 0 /\ spent = 0

-----------------------------------------------------------------------------
(***************************************************************************)
(* The environment: an admin deletes a cc_pair, a curator edits boost or   *)
(* visibility, the source loses the document.                              *)
(***************************************************************************)
RequestDeletion(c) ==
    /\ status[c] = "ACTIVE"
    /\ status' = [status EXCEPT ![c] = "DELETING"]
    /\ UNCHANGED <<row, refs, dirty, hashed, meta, held, index, source, queues,
                   thread, alone, indexings, spent>>

EditDocument ==
    /\ row /\ Unlocked /\ Happens("edit")
    /\ meta' = meta + 1 /\ dirty' = TRUE
    /\ UNCHANGED <<status, row, refs, hashed, held, index, source, queues, thread,
                   alone, indexings>>

SourceRemoves(c) ==
    /\ c \in source /\ Happens("source_removal")
    /\ source' = source \ {c}
    /\ UNCHANGED <<postgres, index, queues, thread, alone, indexings>>

-----------------------------------------------------------------------------
(***************************************************************************)
(* docprocessing indexes the document for c.  A document whose content is  *)
(* already indexed only gets the reference.                                *)
(***************************************************************************)
IndexPrepare(t, c) ==
    /\ Take(t) /\ c \in source /\ status[c] = "ACTIVE"
    /\ indexings < MaxIndexing /\ indexings' = indexings + 1
    /\ \/ \* get_docs_to_update skips it: the content hash is unchanged
          /\ row /\ hashed
          /\ refs' = refs \union {c}
          /\ UNCHANGED <<row, dirty, hashed, thread>>
       \/ \* new, changed or not yet hashed: upsert_documents
          /\ row' = TRUE
          /\ dirty' = (dirty \/ ~row)
          /\ hashed' = FALSE
          /\ Run(t, [pc |-> "relate", cc |-> c])
          /\ UNCHANGED refs
    /\ UNCHANGED <<status, meta, held, index, source, queues, spent>>

\* upsert_document_by_connector_credential_pair, in a transaction of its own;
\* the foreign key fails when the row is gone and the batch with it
IndexRelate(t) ==
    /\ thread[t].pc = "relate"
    /\ IF row THEN refs' = refs \union {thread[t].cc} /\ Goto(t, "lock")
              ELSE End(t) /\ UNCHANGED refs
    /\ UNCHANGED <<status, row, dirty, hashed, meta, held, index, source, queues,
                   alone, indexings, spent>>

\* prepare_to_modify_documents locks the row; prepare_enrichment reads access
IndexLock(t) ==
    /\ thread[t].pc = "lock"
    /\ \/ /\ row /\ Unlocked
          /\ held' = t
          /\ Run(t, [pc |-> "write", cc |-> thread[t].cc, chunks |-> Chunks(Access, meta)])
       \/ /\ ~row      \* no row to lock: the batch fails
          /\ End(t) /\ UNCHANGED held
    /\ UNCHANGED <<status, row, refs, dirty, hashed, meta, index, source, queues,
                   alone, indexings, spent>>

IndexWrite(t) ==
    /\ thread[t].pc = "write"
    /\ \/ /\ NothingHappens
          /\ index' = thread[t].chunks
          /\ Goto(t, "post") /\ UNCHANGED held
       \/ /\ Happens("index_error")
          /\ held' = Released(t)
          /\ End(t) /\ UNCHANGED index
    /\ UNCHANGED <<status, row, refs, dirty, hashed, meta, source, queues, alone, indexings>>

\* post_index and the content hash, committed with the lock released
IndexPost(t) ==
    /\ thread[t].pc = "post"
    /\ dirty' = TRUE /\ hashed' = TRUE /\ held' = Released(t)
    /\ End(t)
    /\ UNCHANGED <<status, row, refs, meta, index, source, queues, alone, indexings, spent>>

-----------------------------------------------------------------------------
(***************************************************************************)
(* document_by_cc_pair_cleanup_task                                        *)
(***************************************************************************)

\* RedisConnectorDelete.generate_tasks for a cc_pair being deleted, the
\* generator of pruning for one whose source has lost the document.  The
\* tasks of an earlier round have ended, unless its fence was reset while
\* they were on their way ("restart").
SendCleanup(c) ==
    /\ c \in refs
    /\ NeedsCleanup(c)
    /\ IF CleanupPending(c) THEN Happens("restart") /\ alone' = FALSE
                            ELSE NothingHappens /\ UNCHANGED alone
    /\ AddCleanup(c, 0)
    /\ UNCHANGED <<postgres, index, source, syncs, fence, thread, indexings>>

\* Phase 1, in a session of its own: count the references
CleanupCount(t, c, r) ==
    /\ Take(t) /\ cleanups[c][r] > 0
    /\ cleanups' = [cleanups EXCEPT ![c][r] = @ - 1]
    /\ LET action == ActionFor(Cardinality(refs))
       IN  IF action = "SKIP" THEN End(t)
           ELSE Run(t, [pc |-> "clean_io", cc |-> c, retries |-> r, action |-> action,
                        chunks |-> IF action = "UPDATE" THEN Chunks(Access, meta) ELSE Absent])
    /\ UNCHANGED <<postgres, index, source, syncs, fence, indexings, spent>>

\* An exception: retried with a countdown; after the last retry the reference
\* is removed and the document left to reconciliation
CleanupFails(t) ==
    LET c == thread[t].cc  r == thread[t].retries IN
    /\ IF r < MaxRetries
       THEN AddCleanup(c, r + 1) /\ UNCHANGED <<refs, dirty>>
       ELSE /\ IF row /\ Unlocked
               THEN refs' = refs \ {c} /\ dirty' = TRUE
               ELSE UNCHANGED <<refs, dirty>>      \* mark_document_as_modified raises
            /\ UNCHANGED cleanups
    /\ End(t)
    /\ UNCHANGED <<row, hashed, index>>

\* Phase 2: the document index, no database session held
CleanupIndex(t) ==
    /\ thread[t].pc = "clean_io"
    /\ \/ /\ NothingHappens
          /\ index' = IF thread[t].action = "DELETE" \/ index = Absent THEN Absent
                      ELSE thread[t].chunks
          /\ Goto(t, "clean_db")
          /\ UNCHANGED <<row, refs, dirty, hashed, cleanups>>
       \/ Happens("index_error") /\ CleanupFails(t)
       \/ /\ Happens("http_error")                 \* HTTPStatusError: not retried
          /\ End(t) /\ UNCHANGED <<row, refs, dirty, hashed, index, cleanups>>
    /\ UNCHANGED <<status, meta, held, source, syncs, fence, alone, indexings>>

\* Phase 3: Postgres, in a fresh transaction
CleanupCommit(t) ==
    LET c == thread[t].cc  r == thread[t].retries IN
    /\ thread[t].pc = "clean_db" /\ Unlocked
    /\ IF thread[t].action = "DELETE"
       THEN \* delete_documents_complete: the row and every reference to it
            /\ row' = FALSE /\ refs' = {} /\ dirty' = FALSE /\ hashed' = FALSE
       ELSE IF row
       THEN /\ refs' = refs \ {c} /\ dirty' = FALSE
            /\ UNCHANGED <<row, hashed>>
       ELSE UNCHANGED <<row, refs, dirty, hashed>>
    /\ \/ /\ thread[t].action = "UPDATE" /\ ~row   \* mark_document_as_synced raises
          /\ cleanups' = IF r < MaxRetries THEN [cleanups EXCEPT ![c][r + 1] = @ + 1]
                         ELSE cleanups
          /\ NothingHappens /\ UNCHANGED alone
       \/ /\ thread[t].action = "DELETE" \/ row
          /\ NothingHappens /\ UNCHANGED <<cleanups, alone>>
       \/ \* the worker dies between the commit and the acknowledgement
          /\ thread[t].action = "DELETE" \/ row
          /\ Happens("redelivery") /\ AddCleanup(c, r) /\ alone' = FALSE
    /\ End(t)
    /\ UNCHANGED <<status, meta, held, index, source, syncs, fence, indexings>>

-----------------------------------------------------------------------------
(***************************************************************************)
(* check_for_vespa_sync_task and document_index_metadata_sync_task         *)
(***************************************************************************)

\* try_generate_stale_document_sync_tasks: the fence is set after the tasks
GenerateSync ==
    /\ ~fence /\ NeedsSync
    /\ AddSync(0)
    /\ \/ fence' = TRUE /\ NothingHappens
       \/ fence' = FALSE /\ Happens("beat_crash")
    /\ UNCHANGED <<postgres, index, source, cleanups, thread, alone, indexings>>

\* monitor_document_sync_taskset
FinalizeSync ==
    /\ fence /\ ~SyncPending
    /\ fence' = FALSE
    /\ UNCHANGED <<postgres, index, source, cleanups, syncs, thread, alone, indexings, spent>>

SyncRead(t, r) ==
    /\ Take(t) /\ syncs[r] > 0
    /\ syncs' = [syncs EXCEPT ![r] = @ - 1]
    /\ IF row THEN Run(t, [pc |-> "sync_io", retries |-> r, chunks |-> Chunks(Access, meta)])
              ELSE End(t)
    /\ UNCHANGED <<postgres, index, source, cleanups, fence, indexings, spent>>

SyncUpdate(t) ==
    /\ thread[t].pc = "sync_io"
    /\ \/ /\ NothingHappens
          /\ index' = IF index = Absent THEN Absent ELSE thread[t].chunks
          /\ Goto(t, "sync_db")
          /\ UNCHANGED syncs
       \/ /\ Happens("index_error")
          /\ IF thread[t].retries < MaxRetries THEN AddSync(thread[t].retries + 1)
                                               ELSE UNCHANGED syncs
          /\ End(t) /\ UNCHANGED index
       \/ /\ Happens("http_error")
          /\ End(t) /\ UNCHANGED <<index, syncs>>
    /\ UNCHANGED <<postgres, source, cleanups, fence, alone, indexings>>

\* mark_document_as_synced: last_synced = now; raises when the row is gone
SyncMark(t) ==
    /\ thread[t].pc = "sync_db" /\ Unlocked
    /\ dirty' = FALSE
    /\ IF ~row /\ thread[t].retries < MaxRetries THEN AddSync(thread[t].retries + 1)
                                                 ELSE UNCHANGED syncs
    /\ End(t)
    /\ UNCHANGED <<status, row, refs, hashed, meta, held, index, source, cleanups, fence,
                   alone, indexings, spent>>

-----------------------------------------------------------------------------
\* A worker dies in the middle of a task: the broker delivers the task again,
\* Postgres rolls the open transaction back and releases its lock
Crash(t) ==
    /\ ~IsIdle(t) /\ Happens("crash")
    /\ IF thread[t].pc \in CleanupPcs THEN AddCleanup(thread[t].cc, thread[t].retries)
                                      ELSE UNCHANGED cleanups
    /\ IF thread[t].pc \in SyncPcs THEN AddSync(thread[t].retries) ELSE UNCHANGED syncs
    /\ held' = Released(t)
    /\ End(t)
    /\ UNCHANGED <<status, row, refs, dirty, hashed, meta, index, source, fence, alone, indexings>>

Index(t) ==
    \/ \E c \in CCPairs : IndexPrepare(t, c)
    \/ IndexRelate(t) \/ IndexLock(t) \/ IndexWrite(t) \/ IndexPost(t)
Cleanup(t) ==
    \/ \E c \in CCPairs, r \in Retries : CleanupCount(t, c, r)
    \/ CleanupIndex(t) \/ CleanupCommit(t)
Sync(t) == (\E r \in Retries : SyncRead(t, r)) \/ SyncUpdate(t) \/ SyncMark(t)

Next ==
    \/ \E c \in CCPairs : RequestDeletion(c) \/ SourceRemoves(c) \/ SendCleanup(c)
    \/ EditDocument
    \/ GenerateSync \/ FinalizeSync
    \/ \E t \in Docprocessors : Index(t)
    \/ \E t \in LightWorkers : Cleanup(t) \/ Sync(t)
    \/ \E t \in Threads : Crash(t)

Spec == Init /\ [][Next]_vars

(***************************************************************************)
(* Celery runs queued tasks, the beat tasks recur and a thread goes on     *)
(* with its task: something of all this happens as long as it can.         *)
(* Nothing makes an admin act, a source deliver or trouble occur.          *)
(***************************************************************************)
SystemStep ==
    /\ \/ \E c \in CCPairs : SendCleanup(c)
       \/ GenerateSync \/ FinalizeSync
       \/ \E t \in Docprocessors :
            IndexRelate(t) \/ IndexLock(t) \/ IndexWrite(t) \/ IndexPost(t)
       \/ \E t \in LightWorkers : Cleanup(t) \/ Sync(t)
    /\ spent' = spent
FairSpec == Spec /\ WF_vars(SystemStep)

-----------------------------------------------------------------------------
(***************************************************************************)
(* Properties                                                              *)
(***************************************************************************)
ThreadOf(t) ==
    \/ thread[t] = Idle
    \/ /\ thread[t].pc \in CleanupPcs \union SyncPcs
       /\ thread[t].retries \in Retries
       /\ thread[t].pc \in CleanupPcs => thread[t].action \in {"DELETE", "UPDATE"}
    \/ thread[t].pc \in IndexPcs /\ thread[t].cc \in CCPairs

\* Every variable keeps its type, and the row lock is held by the thread that
\* writes the chunks.
TypeOK ==
    /\ status \in [CCPairs -> {"ACTIVE", "DELETING"}]
    /\ row \in BOOLEAN /\ dirty \in BOOLEAN /\ hashed \in BOOLEAN /\ fence \in BOOLEAN
    /\ refs \subseteq CCPairs /\ source \subseteq CCPairs
    /\ meta \in Nat /\ spent \in Nat /\ indexings \in 0..MaxIndexing
    /\ held \in Threads \union {Nobody}
    /\ index # Absent => index.access \subseteq CCPairs /\ index.meta \in 0..meta
    /\ cleanups \in [CCPairs -> [Retries -> Nat]]
    /\ syncs \in [Retries -> Nat]
    /\ \A t \in Threads : ThreadOf(t)
    /\ \A t \in Threads : held = t <=> thread[t].pc \in {"write", "post"}

\* No task for the document is queued or running
AtRest ==
    /\ \A t \in Threads : IsIdle(t)
    /\ \A r \in Retries : syncs[r] = 0 /\ \A c \in CCPairs : cleanups[c][r] = 0

\* "find all documents associated with connector / credential pair where ...
\* this is the only connector / credential pair that has indexed it; delete all
\* documents from document stores" (shared/tasks.py:88): a reference is only
\* ever removed by a cleanup task of the same cc_pair, so deleting one cc_pair
\* never takes a shared document from another.  Said of behaviours in which no
\* two tasks have overlapped and no cleanup task ran twice: the count decides
\* without regard to whose the last reference is.
SharedDocumentKept ==
    [][alone => \A c \in refs \ refs' :
        \E t \in Threads : thread[t].pc \in CleanupPcs /\ thread[t].cc = c]_vars

\* At rest the chunks grant access through a cc_pair only while it references
\* the document, unless the next metadata sync is due: a cc_pair whose deletion
\* has removed its reference leaves no access behind, whichever of the retries
\* and partial failures it went through.  (A pruned cc_pair that still exists
\* does: access is computed before its reference is removed.)
DeletedPairLosesAccess ==
    alone /\ AtRest /\ index # Absent =>
        \A c \in index.access : c \in refs \/ dirty \/ c \notin source

\* prepare_to_modify_documents, "to prevent other jobs from modifying them at
\* the same time" (db/document.py:1116): from the moment the row is locked until
\* the chunks are written and the row is committed no other task deletes it.
LockedRowStays == \A t \in Threads : thread[t].pc \in {"write", "post"} => row

\* Deleting a cc_pair eventually removes its reference to the document: cleanup
\* tasks that are retried, give up or die are sent again until one succeeds.
AwaitsCleanup == \E c \in refs : status[c] = "DELETING"
DeletionRemovesReference == AwaitsCleanup ~> ~AwaitsCleanup

\* A document whose metadata changed is eventually synced, or gone.
DirtyIsSynced == dirty ~> ~dirty
=============================================================================
