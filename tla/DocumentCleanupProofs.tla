------------------------ MODULE DocumentCleanupProofs ------------------------
(***************************************************************************)
(* Proofs about DocumentCleanup, for any number of cc_pairs and threads    *)
(* and any trouble: its type invariant, that a row stays while docprocess- *)
(* ing writes its chunks, and, while no two tasks overlap, that deleting a *)
(* cc_pair takes no shared document away and leaves no access behind.      *)
(***************************************************************************)
EXTENDS DocumentCleanup, FiniteSetTheorems, TLAPS

-----------------------------------------------------------------------------
(***************************************************************************)
(* Types: what a thread remembers at each place of its task.  The chunks   *)
(* it is about to write were read at most at the present version of the    *)
(* metadata.                                                               *)
(***************************************************************************)
ChunkSet(m) == [access : SUBSET CCPairs, meta : 0..m]
Deletes == [pc : CleanupPcs, cc : CCPairs, retries : Retries, action : {"DELETE"},
            chunks : {Absent}]
Updates(m) == [pc : CleanupPcs, cc : CCPairs, retries : Retries, action : {"UPDATE"},
               chunks : ChunkSet(m)]
SyncTasks(m) == [pc : SyncPcs, retries : Retries, chunks : ChunkSet(m)]
Relating == [pc : {"relate", "lock"}, cc : CCPairs]
Writing(m) == [pc : {"write", "post"}, cc : CCPairs, chunks : ChunkSet(m)]
Records(m) ==
    {Idle} \union Deletes \union Updates(m) \union SyncTasks(m) \union Relating
           \union Writing(m)

ColumnsOK ==
    /\ status \in [CCPairs -> {"ACTIVE", "DELETING"}]
    /\ row \in BOOLEAN /\ dirty \in BOOLEAN /\ hashed \in BOOLEAN /\ fence \in BOOLEAN
    /\ refs \subseteq CCPairs /\ source \subseteq CCPairs
    /\ meta \in Nat /\ spent \in Nat /\ indexings \in 0..MaxIndexing
IndexOK == index \in {Absent} \union ChunkSet(meta)
QueuesOK ==
    /\ cleanups \in [CCPairs -> [Retries -> Nat]]
    /\ syncs \in [Retries -> Nat]
ThreadsOK == thread \in [Threads -> Records(meta)]
HolderWrites ==
    /\ held \in Threads \union {Nobody}
    /\ \A t \in Threads : held = t <=> thread[t].pc \in {"write", "post"}

TypeInv == ColumnsOK /\ IndexOK /\ QueuesOK /\ ThreadsOK /\ HolderWrites

(***************************************************************************)
(* While no two tasks have overlapped and no cleanup ran twice: one thread *)
(* at most is at work, at most one cleanup of a cc_pair is on its way, for *)
(* a reference that is still there, and what a thread read of references   *)
(* and access is still what the row says.                                  *)
(***************************************************************************)
Cleaning(t) == thread[t].pc \in CleanupPcs

OneTask == \A t, u \in Threads : ~IsIdle(t) /\ ~IsIdle(u) => t = u
OneCleanup ==
    \A c \in CCPairs, r \in Retries : cleanups[c][r] > 0 =>
        /\ cleanups[c][r] = 1
        /\ \A q \in Retries \ {r} : cleanups[c][q] = 0
        /\ \A t \in Threads : ~(Cleaning(t) /\ thread[t].cc = c)
QueuedReferenced ==
    \A c \in CCPairs, r \in Retries : cleanups[c][r] > 0 => c \in refs /\ NeedsCleanup(c)
CleanedReferenced ==
    \A t \in Threads : Cleaning(t) =>
        /\ thread[t].cc \in refs /\ NeedsCleanup(thread[t].cc)
        /\ thread[t].action = "DELETE" => refs = {thread[t].cc}

\* Access that is granted through references, and not through the one that a
\* cleanup of c is about to remove unless its source lost the document
Granted(access) == access \subseteq refs
GrantedWithout(access, c) == access \subseteq refs /\ (c \in access => c \notin source)
AccessRead ==
    \A t \in Threads :
        /\ thread[t].pc \in {"write", "sync_io"} => Granted(thread[t].chunks.access)
        /\ thread[t].pc = "clean_io" /\ thread[t].action = "UPDATE" =>
             GrantedWithout(thread[t].chunks.access, thread[t].cc)
        /\ thread[t].pc = "sync_db" /\ index # Absent => Granted(index.access)
        /\ thread[t].pc = "clean_db" /\ index # Absent =>
             thread[t].action = "UPDATE" /\ GrantedWithout(index.access, thread[t].cc)
AccessStands ==
    index # Absent => \A c \in index.access : c \in refs \/ dirty \/ c \notin source

Solo ==
    /\ OneTask /\ OneCleanup /\ QueuedReferenced /\ CleanedReferenced
    /\ AccessRead /\ AccessStands
SoloInv == alone \in BOOLEAN /\ (alone => Solo)

-----------------------------------------------------------------------------
(***************************************************************************)
(* Lemmas                                                                  *)
(***************************************************************************)

\* What the record of a thread says at each place.
LEMMA RecordFacts ==
    ASSUME NEW m \in Nat, NEW r \in Records(m)
    PROVE  /\ r.pc = "idle" <=> r = Idle
           /\ r.pc \in CleanupPcs =>
                /\ r.cc \in CCPairs /\ r.retries \in Retries
                /\ r.action \in {"DELETE", "UPDATE"}
                /\ r.action = "UPDATE" => r.chunks \in ChunkSet(m)
           /\ r.pc \in SyncPcs => r.retries \in Retries /\ r.chunks \in ChunkSet(m)
           /\ r.pc \in IndexPcs => r.cc \in CCPairs
           /\ r.pc \in {"write", "post"} => r.chunks \in ChunkSet(m)
           /\ r.pc \in {"idle"} \union CleanupPcs \union SyncPcs \union IndexPcs
BY DEF Records, Deletes, Updates, SyncTasks, Relating, Writing, Idle, CleanupPcs, SyncPcs, IndexPcs

\* The moves within a task.
LEMMA RecordMoves ==
    ASSUME NEW m \in Nat, NEW r \in Records(m)
    PROVE  /\ r.pc = "relate" => [r EXCEPT !.pc = "lock"] \in Records(m)
           /\ r.pc = "write" => [r EXCEPT !.pc = "post"] \in Records(m)
           /\ r.pc = "clean_io" => [r EXCEPT !.pc = "clean_db"] \in Records(m)
           /\ r.pc = "sync_io" => [r EXCEPT !.pc = "sync_db"] \in Records(m)
<1> USE DEF CleanupPcs, SyncPcs
<1>1. CASE r = Idle
  BY <1>1 DEF Idle
<1>2. CASE r \in Deletes
  BY <1>2 DEF Records, Deletes
<1>3. CASE r \in Updates(m)
  BY <1>3 DEF Records, Updates
<1>4. CASE r \in SyncTasks(m)
  BY <1>4 DEF Records, SyncTasks
<1>5. CASE r \in Relating
  BY <1>5 DEF Records, Relating
<1>6. CASE r \in Writing(m)
  BY <1>6 DEF Records, Writing
<1> QED BY <1>1, <1>2, <1>3, <1>4, <1>5, <1>6 DEF Records

\* Records and chunks stay well typed when the metadata changes.
LEMMA LaterVersion ==
    ASSUME NEW m \in Nat
    PROVE  Records(m) \subseteq Records(m + 1) /\ ChunkSet(m) \subseteq ChunkSet(m + 1)
<1>1. ChunkSet(m) \subseteq ChunkSet(m + 1)
  BY DEF ChunkSet
<1>2. /\ Updates(m) \subseteq Updates(m + 1) /\ SyncTasks(m) \subseteq SyncTasks(m + 1)
      /\ Writing(m) \subseteq Writing(m + 1)
  BY <1>1 DEF Updates, SyncTasks, Writing
<1> QED BY <1>1, <1>2 DEF Records

\* What a task reads of access and metadata.
LEMMA ChunksRead ==
    ASSUME ColumnsOK
    PROVE  /\ Chunks(Access, meta) \in ChunkSet(meta)
           /\ Chunks(Access, meta).access = Access
           /\ Access \subseteq refs /\ \A c \in Access : status[c] # "DELETING"
BY DEF ColumnsOK, Chunks, Access, ChunkSet

LEMMA AbsentHasNoAccess == \A m \in Nat : Absent \notin ChunkSet(m)
<1> SUFFICES ASSUME NEW m \in Nat, Absent \in ChunkSet(m) PROVE FALSE
  OBVIOUS
<1>1. DOMAIN Absent = {"access", "meta"}
  BY DEF ChunkSet
<1>2. DOMAIN Absent = {"absent"}
  BY DEF Absent
<1> QED BY <1>1, <1>2

\* One thread takes a step, to a record r.
LEMMA RunOK ==
    ASSUME ThreadsOK, NEW t \in Threads, NEW r \in Records(meta), Run(t, r), UNCHANGED meta
    PROVE  /\ ThreadsOK' /\ thread'[t] = r
           /\ \A u \in Threads \ {t} : thread'[u] = thread[u]
BY DEF ThreadsOK, Run

LEMMA EndOK ==
    ASSUME ThreadsOK, NEW t \in Threads, End(t), UNCHANGED meta
    PROVE  /\ ThreadsOK' /\ thread'[t] = Idle /\ IsIdle(t)'
           /\ \A u \in Threads \ {t} : thread'[u] = thread[u]
BY RunOK DEF End, Records, Idle, IsIdle

LEMMA GotoOK ==
    ASSUME ThreadsOK, NEW t \in Threads, NEW p, ~IsIdle(t),
           [thread[t] EXCEPT !.pc = p] \in Records(meta), Goto(t, p), UNCHANGED meta
    PROVE  /\ ThreadsOK' /\ thread'[t] = [thread[t] EXCEPT !.pc = p]
           /\ \A u \in Threads \ {t} : thread'[u] = thread[u]
BY RunOK DEF Goto

\* A move within a task changes nothing but the place.
LEMMA Moved ==
    ASSUME ThreadsOK, meta \in Nat, NEW t \in Threads, NEW p, Goto(t, p)
    PROVE  /\ thread'[t].pc = p
           /\ thread[t].pc \in CleanupPcs =>
                /\ thread'[t].cc = thread[t].cc /\ thread'[t].action = thread[t].action
                /\ thread'[t].chunks = thread[t].chunks
<1>1. thread'[t] = [thread[t] EXCEPT !.pc = p] /\ thread[t] \in Records(meta)
  BY DEF Goto, Run, ThreadsOK
<1>2. ASSUME NEW r \in Records(meta), NEW q, q = [r EXCEPT !.pc = p]
      PROVE  /\ q.pc = p
             /\ r.pc \in CleanupPcs => q.cc = r.cc /\ q.action = r.action /\ q.chunks = r.chunks
  BY <1>2 DEF Records, Deletes, Updates, SyncTasks, Relating, Writing, Idle, CleanupPcs, SyncPcs
<1> QED BY <1>1, <1>2

\* The row lock: a thread that ends its transaction releases it.
LEMMA ReleasedOK ==
    ASSUME HolderWrites, NEW t \in Threads, held' = Released(t),
           thread'[t].pc \notin {"write", "post"},
           \A u \in Threads \ {t} : thread'[u] = thread[u]
    PROVE  HolderWrites'
BY NobodyAssumption DEF HolderWrites, Released

LEMMA HolderUntouched ==
    ASSUME HolderWrites, NEW t \in Threads, UNCHANGED held,
           thread'[t].pc \in {"write", "post"} <=> thread[t].pc \in {"write", "post"},
           \A u \in Threads \ {t} : thread'[u] = thread[u]
    PROVE  HolderWrites'
BY DEF HolderWrites

\* More events, more queued tasks.
LEMMA HappensOK ==
    ASSUME ColumnsOK
    PROVE  /\ \A kind : Happens(kind) => spent' \in Nat
           /\ NothingHappens => spent' \in Nat
BY DEF ColumnsOK, Happens, NothingHappens

LEMMA AddsOK ==
    ASSUME QueuesOK
    PROVE  /\ \A c \in CCPairs, r \in Retries : AddCleanup(c, r) =>
                cleanups' \in [CCPairs -> [Retries -> Nat]]
           /\ \A r \in Retries : AddSync(r) => syncs' \in [Retries -> Nat]
BY DEF QueuesOK, AddCleanup, AddSync

LEMMA NextRetry ==
    ASSUME NEW r \in Retries
    PROVE  0 \in Retries /\ (r < MaxRetries => r + 1 \in Retries)
BY ConstantsAssumption DEF Retries

-----------------------------------------------------------------------------
(***************************************************************************)
(* Type correctness and the row lock                                       *)
(***************************************************************************)
LEMMA TypeInit == Init => TypeInv /\ LockedRowStays
<1> SUFFICES ASSUME Init PROVE TypeInv /\ LockedRowStays
  OBVIOUS
<1> USE ConstantsAssumption
<1>1. IndexOK
  BY DEF Init, IndexOK
<1>2. ColumnsOK
  <2>1. status \in [CCPairs -> {"ACTIVE", "DELETING"}] /\ refs = {} /\ source = CCPairs
    BY DEF Init
  <2>2. meta = 0 /\ spent = 0 /\ indexings \in 0..MaxIndexing
    BY DEF Init
  <2>3. row = FALSE /\ dirty = FALSE /\ hashed = FALSE /\ fence = FALSE
    BY DEF Init
  <2> QED BY <2>1, <2>2, <2>3 DEF ColumnsOK
<1>3. QueuesOK /\ ThreadsOK
  BY NextRetry DEF Init, QueuesOK, ThreadsOK, Records
<1>4. HolderWrites /\ LockedRowStays
  BY NobodyAssumption DEF Init, HolderWrites, LockedRowStays, Idle
<1> QED BY <1>1, <1>2, <1>3, <1>4 DEF TypeInv

\* While a row is not locked no thread is between its lock and its commit.
LEMMA NobodyWrites ==
    ASSUME HolderWrites, Unlocked
    PROVE  \A t \in Threads : thread[t].pc \notin {"write", "post"}
BY NobodyAssumption DEF HolderWrites, Unlocked

\* A step of one thread keeps LockedRowStays if the row stays, or if the row is
\* not locked and the thread does not go on to write.
LEMMA LockedStep ==
    ASSUME LockedRowStays, HolderWrites, NEW t \in Threads,
           \A u \in Threads \ {t} : thread'[u] = thread[u],
           \/ row' = row /\ (thread'[t].pc \in {"write", "post"} =>
                               row \/ thread[t].pc \in {"write", "post"})
           \/ row' = TRUE
           \/ Unlocked /\ thread'[t].pc \notin {"write", "post"}
    PROVE  LockedRowStays'
BY NobodyWrites DEF LockedRowStays

\* The steps that move no thread.
LEMMA EnvironmentTypes ==
    ASSUME TypeInv, LockedRowStays,
           \/ \E c \in CCPairs : RequestDeletion(c) \/ SourceRemoves(c) \/ SendCleanup(c)
           \/ EditDocument \/ GenerateSync \/ FinalizeSync \/ UNCHANGED vars
    PROVE  (TypeInv /\ LockedRowStays)'
<1> USE DEF TypeInv
<1>1. UNCHANGED <<row, held, thread, refs, index>>
  BY DEF RequestDeletion, SourceRemoves, SendCleanup, EditDocument, GenerateSync, FinalizeSync,
         postgres, vars
<1>2. meta' \in {meta, meta + 1} /\ meta \in Nat
  BY DEF RequestDeletion, SourceRemoves, SendCleanup, EditDocument, GenerateSync, FinalizeSync,
         postgres, vars, ColumnsOK
<1>3. IndexOK' /\ ThreadsOK'
  BY <1>1, <1>2, LaterVersion DEF IndexOK, ThreadsOK
<1>4. HolderWrites' /\ LockedRowStays'
  BY <1>1 DEF HolderWrites, LockedRowStays
<1>5. ColumnsOK'
  <2>1. spent' \in Nat
    BY HappensOK DEF RequestDeletion, SourceRemoves, SendCleanup, EditDocument, GenerateSync,
         FinalizeSync, vars, ColumnsOK
  <2>2. status' \in [CCPairs -> {"ACTIVE", "DELETING"}] /\ source' \subseteq CCPairs
    BY DEF RequestDeletion, SourceRemoves, SendCleanup, EditDocument, GenerateSync,
         FinalizeSync, postgres, vars, ColumnsOK
  <2>3. UNCHANGED <<hashed, indexings>>
    BY DEF RequestDeletion, SourceRemoves, SendCleanup, EditDocument, GenerateSync,
         FinalizeSync, postgres, vars
  <2>4. dirty' \in BOOLEAN
    BY DEF RequestDeletion, SourceRemoves, SendCleanup, EditDocument, GenerateSync,
         FinalizeSync, postgres, vars, ColumnsOK
  <2>5. fence' \in BOOLEAN
    BY DEF RequestDeletion, SourceRemoves, SendCleanup, EditDocument, GenerateSync,
         FinalizeSync, queues, vars, ColumnsOK
  <2> QED BY <1>1, <1>2, <2>1, <2>2, <2>3, <2>4, <2>5 DEF ColumnsOK
<1>6. QueuesOK'
  <2>0. 0 \in Retries
    BY ConstantsAssumption DEF Retries
  <2>1. ASSUME NEW c \in CCPairs, SendCleanup(c) PROVE QueuesOK'
    <3>1. AddCleanup(c, 0) /\ UNCHANGED syncs
      BY <2>1 DEF SendCleanup
    <3> QED BY <2>0, <3>1, AddsOK DEF QueuesOK
  <2>2. CASE GenerateSync
    <3>1. AddSync(0) /\ UNCHANGED cleanups
      BY <2>2 DEF GenerateSync
    <3> QED BY <2>0, <3>1, AddsOK DEF QueuesOK
  <2>3. ASSUME UNCHANGED <<cleanups, syncs>> PROVE QueuesOK'
    BY <2>3 DEF QueuesOK
  <2> QED BY <2>1, <2>2, <2>3 DEF RequestDeletion, SourceRemoves, EditDocument,
         FinalizeSync, queues, vars
<1> QED BY <1>3, <1>4, <1>5, <1>6

\* docprocessing
LEMMA IndexTypes ==
    ASSUME TypeInv, LockedRowStays, NEW t \in Threads, Index(t)
    PROVE  (TypeInv /\ LockedRowStays)'
<1> USE DEF TypeInv
<1>0. thread[t] \in Records(meta) /\ meta \in Nat
  BY DEF ThreadsOK, ColumnsOK
<1>1. UNCHANGED <<meta, queues, status, source, fence>>
  BY DEF Index, IndexPrepare, IndexRelate, IndexLock, IndexWrite, IndexPost, queues
<1>2. QueuesOK'
  BY <1>1 DEF QueuesOK, queues
<1>3. ASSUME NEW c \in CCPairs, IndexPrepare(t, c)
      PROVE  (TypeInv /\ LockedRowStays)'
  <2>1. [pc |-> "relate", cc |-> c] \in Records(meta)
    BY DEF Records, Relating
  <2>2. IsIdle(t) /\ UNCHANGED <<held, index, spent>>
    BY <1>3 DEF IndexPrepare, Take
  <2>3. /\ ThreadsOK' /\ thread'[t].pc \in {"idle", "relate"}
        /\ \A u \in Threads \ {t} : thread'[u] = thread[u]
    BY <1>1, <1>3, <2>1, <2>2, RunOK DEF IndexPrepare, ThreadsOK, IsIdle
  <2>4. HolderWrites'
    BY <2>2, <2>3, HolderUntouched DEF IsIdle
  <2>5. row' \in {row, TRUE}
    BY <1>3 DEF IndexPrepare
  <2>6. LockedRowStays'
    BY <2>3, <2>5, LockedStep
  <2>7. ColumnsOK'
    <3>1. indexings' \in 0..MaxIndexing
      BY <1>3, ConstantsAssumption DEF IndexPrepare, ColumnsOK
    <3>2. refs' \subseteq CCPairs /\ dirty' \in BOOLEAN /\ hashed' \in BOOLEAN
      BY <1>3 DEF IndexPrepare, ColumnsOK
    <3> QED BY <1>1, <2>2, <2>5, <3>1, <3>2 DEF ColumnsOK
  <2> QED BY <1>1, <1>2, <2>2, <2>3, <2>4, <2>6, <2>7 DEF IndexOK
<1>4. CASE IndexRelate(t)
  <2>1. thread[t].pc = "relate" /\ UNCHANGED <<held, index, row, dirty, hashed, indexings, spent>>
    BY <1>4 DEF IndexRelate
  <2>2. /\ ThreadsOK' /\ thread'[t].pc \in {"idle", "lock"}
        /\ \A u \in Threads \ {t} : thread'[u] = thread[u]
    <3>1. [thread[t] EXCEPT !.pc = "lock"] \in Records(meta)
      BY <1>0, <2>1, RecordMoves
    <3>2. [thread[t] EXCEPT !.pc = "lock"].pc = "lock"
      BY <1>0, <2>1 DEF Records, Idle, Deletes, Updates, SyncTasks, Relating, Writing
    <3> QED BY <1>1, <1>4, <2>1, <3>1, <3>2, GotoOK, EndOK DEF IndexRelate, IsIdle, Idle
  <2>3. HolderWrites' /\ LockedRowStays'
    BY <2>1, <2>2, HolderUntouched, LockedStep
  <2>4. refs' \subseteq CCPairs
    BY <1>0, <1>4, <2>1, RecordFacts DEF IndexRelate, IndexPcs, ColumnsOK
  <2> QED BY <1>1, <1>2, <2>1, <2>2, <2>3, <2>4 DEF IndexOK, ColumnsOK
<1>5. CASE IndexLock(t)
  <2>1. /\ thread[t].pc = "lock"
        /\ UNCHANGED <<index, row, refs, dirty, hashed, indexings, spent>>
    BY <1>5 DEF IndexLock
  <2> DEFINE r == [pc |-> "write", cc |-> thread[t].cc, chunks |-> Chunks(Access, meta)]
  <2>2. r \in Records(meta)
    <3>1. thread[t].cc \in CCPairs
      BY <1>0, <2>1, RecordFacts DEF IndexPcs
    <3> QED BY <3>1, ChunksRead DEF Records, Writing
  <2>3. CASE row /\ Unlocked /\ held' = t /\ Run(t, r)
    <3>1. /\ ThreadsOK' /\ thread'[t] = r
          /\ \A u \in Threads \ {t} : thread'[u] = thread[u]
      BY <1>1, <2>2, <2>3, RunOK
    <3>2. HolderWrites'
      BY <2>3, <3>1, NobodyWrites DEF HolderWrites
    <3>3. LockedRowStays'
      BY <2>1, <2>3, <3>1, LockedStep
    <3> QED BY <1>1, <1>2, <2>1, <3>1, <3>2, <3>3 DEF IndexOK, ColumnsOK
  <2>4. CASE End(t) /\ UNCHANGED held
    <3>1. /\ ThreadsOK' /\ thread'[t].pc = "idle"
          /\ \A u \in Threads \ {t} : thread'[u] = thread[u]
      BY <1>1, <2>4, EndOK DEF IsIdle
    <3>2. HolderWrites' /\ LockedRowStays'
      BY <2>1, <2>4, <3>1, HolderUntouched, LockedStep
    <3> QED BY <1>1, <1>2, <2>1, <3>1, <3>2 DEF IndexOK, ColumnsOK
  <2> QED BY <1>5, <2>3, <2>4 DEF IndexLock
<1>6. CASE IndexWrite(t)
  <2>1. /\ thread[t].pc = "write" /\ spent' \in Nat
        /\ UNCHANGED <<row, refs, dirty, hashed, indexings>>
    BY <1>6, HappensOK DEF IndexWrite
  <2>2. CASE index' = thread[t].chunks /\ Goto(t, "post") /\ UNCHANGED held
    <3>1. [thread[t] EXCEPT !.pc = "post"] \in Records(meta) /\ thread[t].chunks \in ChunkSet(meta)
      BY <1>0, <2>1, RecordMoves, RecordFacts
    <3>2. [thread[t] EXCEPT !.pc = "post"].pc = "post"
      BY <1>0, <2>1 DEF Records, Idle, Deletes, Updates, SyncTasks, Relating, Writing
    <3>3. /\ ThreadsOK' /\ thread'[t].pc = "post"
          /\ \A u \in Threads \ {t} : thread'[u] = thread[u]
      BY <1>1, <2>1, <2>2, <3>1, <3>2, GotoOK DEF IsIdle
    <3>4. HolderWrites' /\ LockedRowStays'
      BY <2>1, <2>2, <3>3, HolderUntouched, LockedStep
    <3> QED BY <1>1, <1>2, <2>1, <2>2, <3>1, <3>3, <3>4 DEF IndexOK, ColumnsOK
  <2>3. CASE held' = Released(t) /\ End(t) /\ UNCHANGED index
    <3>1. /\ ThreadsOK' /\ thread'[t].pc = "idle"
          /\ \A u \in Threads \ {t} : thread'[u] = thread[u]
      BY <1>1, <2>3, EndOK DEF IsIdle
    <3>2. HolderWrites' /\ LockedRowStays'
      BY <2>1, <2>3, <3>1, ReleasedOK, LockedStep
    <3> QED BY <1>1, <1>2, <2>1, <2>3, <3>1, <3>2 DEF IndexOK, ColumnsOK
  <2> QED BY <1>6, <2>2, <2>3 DEF IndexWrite
<1>7. CASE IndexPost(t)
  <2>1. /\ thread[t].pc = "post" /\ dirty' = TRUE /\ hashed' = TRUE
        /\ held' = Released(t) /\ End(t)
        /\ UNCHANGED <<row, refs, index, indexings, spent>>
    BY <1>7 DEF IndexPost
  <2>2. /\ ThreadsOK' /\ thread'[t].pc = "idle"
        /\ \A u \in Threads \ {t} : thread'[u] = thread[u]
    BY <1>1, <2>1, EndOK DEF IsIdle
  <2>3. HolderWrites' /\ LockedRowStays'
    BY <2>1, <2>2, ReleasedOK, LockedStep
  <2> QED BY <1>1, <1>2, <2>1, <2>2, <2>3 DEF IndexOK, ColumnsOK
<1> QED BY <1>3, <1>4, <1>5, <1>6, <1>7 DEF Index

\* A thread that neither holds the lock nor takes it goes on or ends: what is
\* left to show is that the columns, the chunks and the queues keep their types.
LEMMA UnlockedMove ==
    ASSUME TypeInv, LockedRowStays, NEW t \in Threads, UNCHANGED <<meta, held>>,
           thread[t].pc \notin {"write", "post"},
           \/ \E r \in Records(meta) : Run(t, r) /\ r.pc \notin {"write", "post"}
           \/ End(t),
           row' = row \/ Unlocked
    PROVE  ThreadsOK' /\ HolderWrites' /\ LockedRowStays'
<1> USE DEF TypeInv
<1>1. Idle \in Records(meta) /\ Idle.pc = "idle"
  BY DEF Records, Idle
<1>2. /\ ThreadsOK' /\ thread'[t].pc \notin {"write", "post"}
      /\ \A u \in Threads \ {t} : thread'[u] = thread[u]
  BY <1>1, RunOK DEF End
<1> QED BY <1>2, HolderUntouched, LockedStep

\* The cleanup tasks
LEMMA CleanupTypes ==
    ASSUME TypeInv, LockedRowStays, NEW t \in Threads, Cleanup(t)
    PROVE  (TypeInv /\ LockedRowStays)'
<1> USE DEF TypeInv
<1>0. thread[t] \in Records(meta) /\ meta \in Nat
  BY DEF ThreadsOK, ColumnsOK
<1>1. UNCHANGED <<meta, held, status, source, syncs, fence, indexings>>
  BY DEF Cleanup, CleanupCount, CleanupIndex, CleanupCommit, postgres
<1>2. spent' \in Nat
  BY HappensOK DEF Cleanup, CleanupCount, CleanupIndex, CleanupCommit, ColumnsOK
<1>3. ASSUME NEW c \in CCPairs, NEW r \in Retries, CleanupCount(t, c, r)
      PROVE  (TypeInv /\ LockedRowStays)'
  <2> DEFINE action == ActionFor(Cardinality(refs))
             task == [pc |-> "clean_io", cc |-> c, retries |-> r, action |-> action,
                      chunks |-> IF action = "UPDATE" THEN Chunks(Access, meta) ELSE Absent]
  <2>1. IsIdle(t) /\ UNCHANGED <<postgres, index>>
    BY <1>3 DEF CleanupCount, Take
  <2>2. cleanups' \in [CCPairs -> [Retries -> Nat]]
    <3>1. cleanups[c][r] - 1 \in Nat
      BY <1>3 DEF CleanupCount, QueuesOK
    <3> QED BY <1>3, <3>1 DEF CleanupCount, QueuesOK
  <2>3. End(t) \/ (action # "SKIP" /\ Run(t, task))
    BY <1>3 DEF CleanupCount
  <2>4. action # "SKIP" => task \in Records(meta) /\ task.pc = "clean_io"
    <3>1. action \in {"SKIP", "DELETE", "UPDATE"}
      BY DEF ActionFor
    <3> HIDE DEF action
    <3>2. action = "DELETE" => task \in Deletes
      BY DEF Deletes, CleanupPcs
    <3>3. action = "UPDATE" => task \in Updates(meta)
      BY ChunksRead DEF Updates, CleanupPcs
    <3> QED BY <3>1, <3>2, <3>3 DEF Records
  <2> HIDE DEF task, action
  <2>5. ThreadsOK' /\ HolderWrites' /\ LockedRowStays'
    BY <1>1, <2>1, <2>3, <2>4, UnlockedMove DEF IsIdle, postgres
  <2> QED BY <1>1, <1>2, <2>1, <2>2, <2>5 DEF ColumnsOK, IndexOK, QueuesOK, postgres
<1>4. ASSUME thread[t].pc \in CleanupPcs
      PROVE  thread[t].cc \in CCPairs /\ thread[t].retries \in Retries
               /\ thread[t].pc \notin {"write", "post"} /\ ~IsIdle(t)
  BY <1>0, <1>4, RecordFacts DEF CleanupPcs, IsIdle
<1>5. CASE CleanupIndex(t)
  <2>1. thread[t].pc = "clean_io"
    BY <1>5 DEF CleanupIndex
  <2>2. thread[t].cc \in CCPairs /\ thread[t].retries \in Retries
    BY <1>4, <2>1 DEF CleanupPcs
  <2>3. CASE /\ index' = IF thread[t].action = "DELETE" \/ index = Absent THEN Absent
                          ELSE thread[t].chunks
             /\ Goto(t, "clean_db")
             /\ UNCHANGED <<row, refs, dirty, hashed, cleanups>>
    <3>1. /\ [thread[t] EXCEPT !.pc = "clean_db"] \in Records(meta)
          /\ [thread[t] EXCEPT !.pc = "clean_db"].pc = "clean_db"
      BY <1>0, <2>1, RecordMoves DEF Records, Idle, Deletes, Updates, SyncTasks, Relating, Writing
    <3>2. ThreadsOK' /\ HolderWrites' /\ LockedRowStays'
      BY <1>1, <2>1, <2>3, <3>1, UnlockedMove DEF Goto
    <3>3. IndexOK'
      <4>1. thread[t].action \in {"DELETE", "UPDATE"}
              /\ (thread[t].action = "UPDATE" => thread[t].chunks \in ChunkSet(meta))
        BY <1>0, <2>1, RecordFacts DEF CleanupPcs
      <4> QED BY <1>1, <2>3, <4>1 DEF IndexOK
    <3> QED BY <1>1, <1>2, <2>3, <3>2, <3>3 DEF ColumnsOK, QueuesOK
  <2>4. CASE CleanupFails(t)
    <3>1. ThreadsOK' /\ HolderWrites' /\ LockedRowStays'
      BY <1>1, <2>1, <2>4, UnlockedMove DEF CleanupFails
    <3>2. QueuesOK'
      BY <1>1, <2>2, <2>4, AddsOK, NextRetry DEF CleanupFails, QueuesOK
    <3>3. ColumnsOK'
      BY <1>1, <1>2, <2>4 DEF CleanupFails, ColumnsOK
    <3> QED BY <1>1, <2>4, <3>1, <3>2, <3>3 DEF CleanupFails, IndexOK
  <2>5. CASE End(t) /\ UNCHANGED <<row, refs, dirty, hashed, index, cleanups>>
    <3>1. ThreadsOK' /\ HolderWrites' /\ LockedRowStays'
      BY <1>1, <2>1, <2>5, UnlockedMove
    <3> QED BY <1>1, <1>2, <2>5, <3>1 DEF ColumnsOK, IndexOK, QueuesOK
  <2> QED BY <1>5, <2>3, <2>4, <2>5 DEF CleanupIndex
<1>6. CASE CleanupCommit(t)
  <2>1. thread[t].pc = "clean_db" /\ Unlocked /\ End(t) /\ UNCHANGED index
    BY <1>6 DEF CleanupCommit
  <2>2. thread[t].cc \in CCPairs /\ thread[t].retries \in Retries
    BY <1>4, <2>1 DEF CleanupPcs
  <2>3. ThreadsOK' /\ HolderWrites' /\ LockedRowStays'
    BY <1>1, <2>1, UnlockedMove
  <2>4. QueuesOK'
    <3>1. cleanups' = cleanups \/ (\E r \in Retries : AddCleanup(thread[t].cc, r))
      BY <1>6, <2>2, NextRetry DEF CleanupCommit, AddCleanup
    <3> QED BY <1>1, <2>2, <3>1, AddsOK DEF QueuesOK
  <2>5. ColumnsOK'
    <3>1. refs' \subseteq refs /\ row' \in BOOLEAN /\ dirty' \in BOOLEAN /\ hashed' \in BOOLEAN
      BY <1>6 DEF CleanupCommit, ColumnsOK
    <3> QED BY <1>1, <1>2, <3>1 DEF ColumnsOK
  <2> QED BY <1>1, <2>1, <2>3, <2>4, <2>5 DEF IndexOK
<1> QED BY <1>3, <1>5, <1>6 DEF Cleanup

\* The metadata sync tasks
LEMMA SyncTypes ==
    ASSUME TypeInv, LockedRowStays, NEW t \in Threads, Sync(t)
    PROVE  (TypeInv /\ LockedRowStays)'
<1> USE DEF TypeInv
<1>0. thread[t] \in Records(meta) /\ meta \in Nat
  BY DEF ThreadsOK, ColumnsOK
<1>1. UNCHANGED <<meta, held, status, row, refs, hashed, source, cleanups, fence, indexings>>
  BY DEF Sync, SyncRead, SyncUpdate, SyncMark, postgres
<1>2. spent' \in Nat
  BY HappensOK DEF Sync, SyncRead, SyncUpdate, SyncMark, ColumnsOK
<1>3. dirty' \in {dirty, FALSE}
  BY DEF Sync, SyncRead, SyncUpdate, SyncMark, postgres
<1>4. ColumnsOK'
  BY <1>1, <1>2, <1>3 DEF ColumnsOK
<1>5. thread[t].pc \in {"sync_io", "sync_db"} =>
        thread[t].retries \in Retries /\ thread[t].chunks \in ChunkSet(meta)
  BY <1>0, RecordFacts DEF SyncPcs
<1>6. ASSUME NEW r \in Retries, SyncRead(t, r)
      PROVE  (TypeInv /\ LockedRowStays)'
  <2> DEFINE task == [pc |-> "sync_io", retries |-> r, chunks |-> Chunks(Access, meta)]
  <2>1. IsIdle(t) /\ UNCHANGED index
    BY <1>6 DEF SyncRead, Take
  <2>2. task \in Records(meta)
    BY ChunksRead DEF Records, SyncTasks, SyncPcs
  <2>3. ThreadsOK' /\ HolderWrites' /\ LockedRowStays'
    BY <1>1, <1>6, <2>1, <2>2, UnlockedMove DEF SyncRead, IsIdle
  <2>4. QueuesOK'
    <3>1. syncs[r] - 1 \in Nat
      BY <1>6 DEF SyncRead, QueuesOK
    <3> QED BY <1>1, <1>6, <3>1 DEF SyncRead, QueuesOK
  <2> QED BY <1>1, <1>4, <2>1, <2>3, <2>4 DEF IndexOK
<1>7. CASE SyncUpdate(t)
  <2>1. thread[t].pc = "sync_io"
    BY <1>7 DEF SyncUpdate
  <2>2. /\ [thread[t] EXCEPT !.pc = "sync_db"] \in Records(meta)
        /\ [thread[t] EXCEPT !.pc = "sync_db"].pc = "sync_db"
    BY <1>0, <2>1, RecordMoves DEF Records, Idle, Deletes, Updates, SyncTasks, Relating, Writing
  <2>3. ThreadsOK' /\ HolderWrites' /\ LockedRowStays'
    BY <1>1, <1>7, <2>1, <2>2, UnlockedMove DEF SyncUpdate, Goto
  <2>4. QueuesOK'
    BY <1>1, <1>5, <1>7, <2>1, AddsOK, NextRetry DEF SyncUpdate, QueuesOK
  <2>5. IndexOK'
    BY <1>1, <1>5, <1>7, <2>1 DEF SyncUpdate, IndexOK
  <2> QED BY <1>4, <2>3, <2>4, <2>5
<1>8. CASE SyncMark(t)
  <2>1. thread[t].pc = "sync_db" /\ UNCHANGED index
    BY <1>8 DEF SyncMark
  <2>2. ThreadsOK' /\ HolderWrites' /\ LockedRowStays'
    BY <1>1, <1>8, <2>1, UnlockedMove DEF SyncMark
  <2>3. QueuesOK'
    BY <1>1, <1>5, <1>8, <2>1, AddsOK, NextRetry DEF SyncMark, QueuesOK
  <2> QED BY <1>1, <1>4, <2>1, <2>2, <2>3 DEF IndexOK
<1> QED BY <1>6, <1>7, <1>8 DEF Sync

\* The death of a worker
LEMMA CrashTypes ==
    ASSUME TypeInv, LockedRowStays, NEW t \in Threads, Crash(t)
    PROVE  (TypeInv /\ LockedRowStays)'
<1> USE DEF TypeInv
<1>0. thread[t] \in Records(meta) /\ meta \in Nat
  BY DEF ThreadsOK, ColumnsOK
<1>1. /\ UNCHANGED <<status, row, refs, dirty, hashed, meta, index, source, fence, indexings>>
      /\ held' = Released(t) /\ End(t)
  BY DEF Crash
<1>2. ColumnsOK' /\ IndexOK'
  <2>1. spent' \in Nat
    BY HappensOK DEF Crash
  <2> QED BY <1>1, <2>1 DEF ColumnsOK, IndexOK
<1>3. QueuesOK'
  <2>1. thread[t].pc \in CleanupPcs => thread[t].cc \in CCPairs /\ thread[t].retries \in Retries
    BY <1>0, RecordFacts
  <2>2. thread[t].pc \in SyncPcs => thread[t].retries \in Retries
    BY <1>0, RecordFacts
  <2>3. cleanups' \in [CCPairs -> [Retries -> Nat]]
    BY <2>1, AddsOK DEF Crash, QueuesOK
  <2>4. syncs' \in [Retries -> Nat]
    BY <2>2, AddsOK DEF Crash, QueuesOK
  <2> QED BY <2>3, <2>4 DEF QueuesOK
<1>4. /\ ThreadsOK' /\ thread'[t].pc = "idle"
      /\ \A u \in Threads \ {t} : thread'[u] = thread[u]
  BY <1>1, EndOK DEF IsIdle
<1>5. HolderWrites' /\ LockedRowStays'
  BY <1>1, <1>4, ReleasedOK, LockedStep
<1> QED BY <1>2, <1>3, <1>4, <1>5

LEMMA TypeStep ==
    ASSUME TypeInv, LockedRowStays, [Next]_vars
    PROVE  (TypeInv /\ LockedRowStays)'
<1>1. Docprocessors \subseteq Threads /\ LightWorkers \subseteq Threads
  BY DEF Threads
<1> QED
  BY <1>1, EnvironmentTypes, IndexTypes, CleanupTypes, SyncTypes, CrashTypes DEF Next

\* Rows, chunks, queues and tasks stay well typed, no chunk is written with access
\* or metadata from the future, and the row lock is held by the thread that writes.
THEOREM TypeCorrect == Spec => []TypeOK
<1>1. TypeInv => TypeOK
  <2> SUFFICES ASSUME TypeInv PROVE TypeOK
    OBVIOUS
  <2> USE DEF TypeInv
  <2>1. \A t \in Threads : ThreadOf(t)
    <3> SUFFICES ASSUME NEW t \in Threads PROVE ThreadOf(t)
      OBVIOUS
    <3>1. thread[t] \in Records(meta) /\ meta \in Nat
      BY DEF ThreadsOK, ColumnsOK
    <3> QED BY <3>1, RecordFacts DEF ThreadOf
  <2>2. index # Absent => index.access \subseteq CCPairs /\ index.meta \in 0..meta
    BY DEF IndexOK, ChunkSet
  <2> QED BY <2>1, <2>2 DEF ColumnsOK, QueuesOK, HolderWrites, TypeOK
<1> QED BY TypeInit, TypeStep, <1>1, PTL DEF Spec

\* From the moment docprocessing has locked the row of a document until it commits
\* no cleanup task deletes it: the batch never writes the chunks of a deleted row.
THEOREM RowStaysWhileLocked == Spec => []LockedRowStays
BY TypeInit, TypeStep, PTL DEF Spec

-----------------------------------------------------------------------------
(***************************************************************************)
(* One task at a time                                                      *)
(***************************************************************************)

\* Who is at work while no tasks overlap.
LEMMA AloneAtWork ==
    ASSUME Solo, NEW t \in Threads, ~IsIdle(t)
    PROVE  \A u \in Threads \ {t} : thread[u].pc = "idle"
BY DEF Solo, OneTask, IsIdle

\* What keeps the references and the chunks, and only makes the metadata dirtier
\* and the cc_pairs to clean up more, keeps everything.
LEMMA QuietStep ==
    ASSUME Solo, UNCHANGED <<thread, refs, index, cleanups>>,
           source' \subseteq source, dirty => dirty',
           \A c \in CCPairs : NeedsCleanup(c) => NeedsCleanup(c)',
           \A t \in Threads : Cleaning(t) => thread[t].cc \in CCPairs
    PROVE  Solo'
<1> USE DEF Solo
<1>1. OneTask' /\ OneCleanup'
  BY DEF OneTask, OneCleanup, IsIdle, Cleaning
<1>2. QueuedReferenced' /\ CleanedReferenced'
  BY DEF QueuedReferenced, CleanedReferenced, Cleaning
<1>3. AccessRead'
  BY DEF AccessRead, Granted, GrantedWithout
<1>4. AccessStands'
  BY DEF AccessStands
<1> QED BY <1>1, <1>2, <1>3, <1>4

\* A step of docprocessing or of a metadata sync leaves the cleanups alone.
LEMMA OtherWork ==
    ASSUME Solo, NEW t \in Threads,
           \A u \in Threads \ {t} : thread'[u].pc = "idle",
           thread'[t].pc \notin CleanupPcs,
           UNCHANGED <<cleanups, status, source>>, refs \subseteq refs'
    PROVE  OneTask' /\ OneCleanup' /\ QueuedReferenced' /\ CleanedReferenced'
<1> USE DEF Solo
<1>1. \A u \in Threads : ~Cleaning(u)'
  BY DEF Cleaning, CleanupPcs
<1>2. OneTask'
  BY DEF OneTask, IsIdle
<1>3. OneCleanup' /\ CleanedReferenced'
  BY <1>1 DEF OneCleanup, CleanedReferenced
<1>4. QueuedReferenced'
  BY DEF QueuedReferenced, NeedsCleanup
<1> QED BY <1>2, <1>3, <1>4

\* With every thread but t idle, what is read and granted concerns t alone.
LEMMA AccessOfOne ==
    ASSUME NEW t \in Threads,
           \A u \in Threads \ {t} : thread[u].pc = "idle",
           thread[t].pc \in {"write", "sync_io"} => Granted(thread[t].chunks.access),
           thread[t].pc = "clean_io" /\ thread[t].action = "UPDATE" =>
             GrantedWithout(thread[t].chunks.access, thread[t].cc),
           thread[t].pc = "sync_db" /\ index # Absent => Granted(index.access),
           thread[t].pc = "clean_db" /\ index # Absent =>
             thread[t].action = "UPDATE" /\ GrantedWithout(index.access, thread[t].cc)
    PROVE  AccessRead
BY DEF AccessRead

\* A thread takes a task: no other is at work.
LEMMA TakeAlone ==
    ASSUME NEW t \in Threads, Take(t), alone', alone \in BOOLEAN
    PROVE  alone /\ IsIdle(t) /\ \A u \in Threads : thread[u].pc = "idle"
BY DEF Take, IsIdle

LEMMA EnvironmentSolo ==
    ASSUME TypeInv, Solo, alone',
           \/ \E c \in CCPairs : RequestDeletion(c) \/ SourceRemoves(c) \/ SendCleanup(c)
           \/ EditDocument \/ GenerateSync \/ FinalizeSync \/ UNCHANGED vars
    PROVE  Solo'
<1>0. \A t \in Threads : Cleaning(t) => thread[t].cc \in CCPairs
  BY RecordFacts DEF TypeInv, ThreadsOK, ColumnsOK, Cleaning
<1>1. ASSUME NEW c \in CCPairs, RequestDeletion(c) PROVE Solo'
  <2>1. UNCHANGED <<thread, refs, index, cleanups, source, dirty>>
    BY <1>1 DEF RequestDeletion, queues
  <2>2. \A b \in CCPairs : NeedsCleanup(b) => NeedsCleanup(b)'
    BY <1>1, <2>1 DEF RequestDeletion, NeedsCleanup, TypeInv, ColumnsOK
  <2> QED BY <1>0, <2>1, <2>2, QuietStep
<1>2. ASSUME NEW c \in CCPairs, SourceRemoves(c) PROVE Solo'
  <2>1. UNCHANGED <<thread, refs, index, cleanups, status, dirty>> /\ source' \subseteq source
    BY <1>2 DEF SourceRemoves, queues, postgres
  <2>2. \A b \in CCPairs : NeedsCleanup(b) => NeedsCleanup(b)'
    BY <2>1 DEF NeedsCleanup
  <2> QED BY <1>0, <2>1, <2>2, QuietStep
<1>3. ASSUME NEW c \in CCPairs, SendCleanup(c) PROVE Solo'
  <2>1. UNCHANGED <<status, thread, refs, index, source, dirty>> /\ AddCleanup(c, 0)
          /\ ~CleanupPending(c) /\ c \in refs /\ NeedsCleanup(c)
    BY <1>3 DEF SendCleanup, postgres
  <2>2. 0 \in Retries
    BY ConstantsAssumption DEF Retries
  <2>3. \A r \in Retries : cleanups[c][r] = 0
    BY <2>1 DEF CleanupPending, TypeInv, QueuesOK
  <2>4. \A t \in Threads : ~(Cleaning(t) /\ thread[t].cc = c)
    BY <2>1 DEF CleanupPending, Cleaning
  <2>5. /\ cleanups'[c][0] = 1 /\ \A r \in Retries \ {0} : cleanups'[c][r] = 0
        /\ \A b \in CCPairs \ {c} : cleanups'[b] = cleanups[b]
    BY <2>1, <2>2, <2>3 DEF AddCleanup, TypeInv, QueuesOK
  <2>6. OneCleanup'
    BY <2>1, <2>2, <2>4, <2>5 DEF Solo, OneCleanup, Cleaning
  <2>7. QueuedReferenced'
    BY <2>1, <2>5 DEF Solo, QueuedReferenced, NeedsCleanup
  <2>8. OneTask' /\ CleanedReferenced' /\ AccessRead' /\ AccessStands'
    BY <2>1 DEF Solo, OneTask, CleanedReferenced, AccessRead, AccessStands, IsIdle, Cleaning,
                NeedsCleanup, Granted, GrantedWithout
  <2> QED BY <2>6, <2>7, <2>8 DEF Solo
<1>4. CASE EditDocument \/ GenerateSync \/ FinalizeSync \/ UNCHANGED vars
  <2>1. UNCHANGED <<thread, refs, index, cleanups, status, source>>
    BY <1>4 DEF EditDocument, GenerateSync, FinalizeSync, vars, postgres, queues
  <2>3. dirty' = dirty \/ dirty' = TRUE
    BY <1>4 DEF EditDocument, GenerateSync, FinalizeSync, vars, postgres, queues
  <2>2. \A b \in CCPairs : NeedsCleanup(b) => NeedsCleanup(b)'
    BY <2>1 DEF NeedsCleanup
  <2>4. dirty => dirty'
    BY ZenonT(30), <2>3
  <2> QED BY <1>0, <2>1, <2>2, <2>4, QuietStep
<1> QED BY <1>1, <1>2, <1>3, <1>4

LEMMA IndexSolo ==
    ASSUME TypeInv, SoloInv, alone', NEW t \in Threads, Index(t)
    PROVE  Solo'
<1> USE DEF TypeInv, SoloInv
<1>0. thread[t] \in Records(meta) /\ meta \in Nat
  BY DEF ThreadsOK, ColumnsOK
<1>1. UNCHANGED <<status, source, cleanups, meta>>
  BY DEF Index, IndexPrepare, IndexRelate, IndexLock, IndexWrite, IndexPost, queues
<1>2. ASSUME NEW c \in CCPairs, IndexPrepare(t, c) PROVE Solo'
  <2>0. Take(t)
    BY <1>2 DEF IndexPrepare
  <2>1. alone /\ Solo /\ \A u \in Threads : thread[u].pc = "idle"
    BY <2>0, TakeAlone
  <2>2. /\ \A u \in Threads \ {t} : thread'[u].pc = "idle"
        /\ thread'[t].pc \in {"idle", "relate"}
    BY <1>2, <2>1 DEF IndexPrepare, Run, ThreadsOK
  <2>3. refs \subseteq refs' /\ UNCHANGED index
    BY <1>2 DEF IndexPrepare
  <2>7. dirty' = dirty \/ dirty' = (dirty \/ ~row)
    BY <1>2 DEF IndexPrepare
  <2>4. OneTask' /\ OneCleanup' /\ QueuedReferenced' /\ CleanedReferenced'
    BY <1>1, <2>1, <2>2, <2>3, OtherWork DEF CleanupPcs
  <2>5. AccessRead'
    BY <2>2, AccessOfOne DEF AccessRead
  <2>6. AccessStands'
    <3>1. dirty => dirty'
      BY ZenonT(30), <2>7
    <3> QED BY <1>1, <2>1, <2>3, <3>1 DEF Solo, AccessStands
  <2> QED BY <2>4, <2>5, <2>6 DEF Solo
<1>3. ASSUME IndexRelate(t) \/ IndexLock(t) \/ IndexWrite(t) \/ IndexPost(t) PROVE Solo'
  <2>1. ~IsIdle(t) /\ alone /\ Solo /\ \A u \in Threads \ {t} : thread[u].pc = "idle"
    BY <1>3, AloneAtWork DEF IndexRelate, IndexLock, IndexWrite, IndexPost, IsIdle
  <2>2. \E r : Run(t, r)
    BY <1>3 DEF IndexRelate, IndexLock, IndexWrite, IndexPost, Goto, End
  <2>3. \A u \in Threads \ {t} : thread'[u].pc = "idle"
    BY <2>1, <2>2 DEF Run, ThreadsOK
  <2>4. refs \subseteq refs'
    BY <1>3 DEF IndexRelate, IndexLock, IndexWrite, IndexPost
  <2>5. CASE IndexRelate(t)
    <3>1. thread'[t].pc \in {"idle", "lock"} /\ UNCHANGED <<index, dirty>>
      <4>2. Goto(t, "lock") \/ End(t)
        BY <2>5 DEF IndexRelate
      <4>3. thread'[t].pc \in {"idle", "lock"}
        BY <1>0, <4>2, Moved, EndOK, <1>1 DEF Idle
      <4> QED BY <2>5, <4>3 DEF IndexRelate
    <3>2. OneTask' /\ OneCleanup' /\ QueuedReferenced' /\ CleanedReferenced'
      BY <1>1, <2>1, <2>3, <2>4, <3>1, OtherWork DEF CleanupPcs
    <3>3. AccessRead'
      BY <2>3, <3>1 DEF AccessRead
    <3>4. AccessStands'
      BY <1>1, <2>1, <2>4, <3>1 DEF Solo, AccessStands
    <3> QED BY <3>2, <3>3, <3>4 DEF Solo
  <2>6. CASE IndexLock(t)
    <3> DEFINE r == [pc |-> "write", cc |-> thread[t].cc, chunks |-> Chunks(Access, meta)]
    <3>1. UNCHANGED <<index, dirty, refs>> /\ (thread'[t] = r \/ thread'[t].pc = "idle")
      BY <2>6 DEF IndexLock, End, Run, Idle, ThreadsOK
    <3>2. OneTask' /\ OneCleanup' /\ QueuedReferenced' /\ CleanedReferenced'
      BY <1>1, <2>1, <2>3, <2>4, <3>1, OtherWork DEF CleanupPcs
    <3>3. AccessRead'
      BY <2>3, <3>1, ChunksRead DEF AccessRead, Granted
    <3>4. AccessStands'
      BY <1>1, <2>1, <3>1 DEF Solo, AccessStands
    <3> QED BY <3>2, <3>3, <3>4 DEF Solo
  <2>7. CASE IndexWrite(t)
    <3>2. thread'[t].pc \in {"post", "idle"} /\ UNCHANGED refs /\ UNCHANGED dirty
            /\ index' \in {index, thread[t].chunks} /\ thread[t].pc = "write"
      <4>1. Goto(t, "post") \/ End(t)
        BY <2>7 DEF IndexWrite
      <4>2. thread'[t].pc \in {"post", "idle"}
        BY <1>0, <4>1, Moved, EndOK, <1>1 DEF Idle
      <4>3. UNCHANGED refs /\ index' \in {index, thread[t].chunks} /\ thread[t].pc = "write"
        BY <2>7 DEF IndexWrite
      <4>4. UNCHANGED dirty
        BY <2>7 DEF IndexWrite
      <4> QED BY <4>2, <4>3, <4>4
    <3>3. OneTask' /\ OneCleanup' /\ QueuedReferenced' /\ CleanedReferenced'
      BY <1>1, <2>1, <2>3, <2>4, <3>2, OtherWork DEF CleanupPcs
    <3>4. AccessRead'
      BY <2>3, <3>2 DEF AccessRead
    <3>5. AccessStands'
      BY <1>1, <2>1, <3>2 DEF Solo, AccessRead, AccessStands, Granted
    <3> QED BY <3>3, <3>4, <3>5 DEF Solo
  <2>8. CASE IndexPost(t)
    <3>1. thread'[t].pc = "idle" /\ UNCHANGED <<refs, index>> /\ dirty' = TRUE
      BY <2>8 DEF IndexPost, End, Run, Idle, ThreadsOK
    <3>2. OneTask' /\ OneCleanup' /\ QueuedReferenced' /\ CleanedReferenced'
      BY <1>1, <2>1, <2>3, <2>4, <3>1, OtherWork DEF CleanupPcs
    <3>3. AccessRead'
      BY <2>3, <3>1 DEF AccessRead
    <3>4. AccessStands'
      BY <3>1 DEF AccessStands
    <3> QED BY <3>2, <3>3, <3>4 DEF Solo
  <2> QED BY <1>3, <2>5, <2>6, <2>7, <2>8
<1> QED BY <1>2, <1>3 DEF Index

\* A cleanup task that ends has no other of its cc_pair queued; it is queued again,
\* or takes its own reference or all of them with it.
LEMMA CleanupEnds ==
    ASSUME TypeInv, Solo, NEW t \in Threads, Cleaning(t), thread'[t].pc = "idle",
           \A u \in Threads \ {t} : thread'[u] = thread[u],
           UNCHANGED <<status, source>>,
           \/ UNCHANGED cleanups /\ refs \ {thread[t].cc} \subseteq refs'
           \/ UNCHANGED cleanups /\ thread[t].action = "DELETE"
           \/ (\E r \in Retries : AddCleanup(thread[t].cc, r)) /\ UNCHANGED refs
    PROVE  OneTask' /\ OneCleanup' /\ QueuedReferenced' /\ CleanedReferenced' /\ AccessRead'
<1> DEFINE c == thread[t].cc
<1> USE DEF Solo
<1>1. \A u \in Threads : thread'[u].pc = "idle"
  BY AloneAtWork DEF Cleaning, IsIdle, CleanupPcs
<1>2. OneTask' /\ CleanedReferenced' /\ AccessRead'
  BY <1>1 DEF OneTask, CleanedReferenced, AccessRead, IsIdle, Cleaning, CleanupPcs
<1>3. c \in CCPairs /\ \A r \in Retries : cleanups[c][r] = 0
  <2>1. c \in CCPairs
    BY RecordFacts DEF TypeInv, ThreadsOK, ColumnsOK, Cleaning
  <2> QED BY <2>1 DEF OneCleanup, TypeInv, QueuesOK
<1>4. c \in refs /\ NeedsCleanup(c) /\ (thread[t].action = "DELETE" => refs = {c})
  BY DEF CleanedReferenced
<1>5. CASE UNCHANGED cleanups
  <2>1. OneCleanup'
    BY <1>1, <1>5 DEF OneCleanup, Cleaning, CleanupPcs
  <2>2. QueuedReferenced'
    BY <1>3, <1>4, <1>5 DEF QueuedReferenced, NeedsCleanup
  <2> QED BY <1>2, <2>1, <2>2
<1>6. CASE (\E r \in Retries : AddCleanup(c, r)) /\ UNCHANGED refs
  <2>1. PICK r \in Retries : AddCleanup(c, r)
    BY <1>6
  <2>2. /\ cleanups'[c][r] = 1 /\ \A q \in Retries \ {r} : cleanups'[c][q] = 0
        /\ \A b \in CCPairs \ {c} : cleanups'[b] = cleanups[b]
    BY <1>3, <2>1 DEF AddCleanup, TypeInv, QueuesOK
  <2>3. OneCleanup'
    BY <1>1, <1>3, <2>2 DEF OneCleanup, Cleaning, CleanupPcs
  <2>4. QueuedReferenced'
    BY <1>3, <1>4, <1>6, <2>2 DEF QueuedReferenced, NeedsCleanup
  <2> QED BY <1>2, <2>3, <2>4
<1> QED BY <1>5, <1>6

LEMMA CountSolo ==
    ASSUME TypeInv, SoloInv, alone', NEW t \in Threads, NEW c \in CCPairs, NEW r \in Retries,
           CleanupCount(t, c, r)
    PROVE  Solo'
<1> USE DEF TypeInv, SoloInv
<1> DEFINE action == ActionFor(Cardinality(refs))
           task == [pc |-> "clean_io", cc |-> c, retries |-> r, action |-> action,
                    chunks |-> IF action = "UPDATE" THEN Chunks(Access, meta) ELSE Absent]
<1>1. alone /\ Solo /\ \A u \in Threads : thread[u].pc = "idle"
  <2>1. Take(t)
    BY DEF CleanupCount
  <2> QED BY <2>1, TakeAlone
<1>2. UNCHANGED <<status, source, refs, index, dirty>>
  BY DEF CleanupCount, postgres
<1>3. (thread'[t] = Idle \/ thread'[t] = task) /\ \A u \in Threads \ {t} : thread'[u].pc = "idle"
  BY <1>1 DEF CleanupCount, End, Run, ThreadsOK
<1>4. /\ \A q \in Retries : cleanups'[c][q] = 0
      /\ \A b \in CCPairs \ {c} : cleanups'[b] = cleanups[b]
  <2>1. cleanups[c][r] = 1 /\ \A q \in Retries \ {r} : cleanups[c][q] = 0
    BY <1>1 DEF CleanupCount, Solo, OneCleanup
  <2>2. cleanups' = [cleanups EXCEPT ![c][r] = @ - 1]
    BY DEF CleanupCount
  <2> QED BY <2>1, <2>2 DEF QueuesOK
<1>5. c \in refs /\ NeedsCleanup(c)
  BY <1>1 DEF CleanupCount, Solo, QueuedReferenced
<1>6. action = "DELETE" => refs = {c}
  <2>1. IsFiniteSet(refs)
    BY ConstantsAssumption, FS_Subset DEF ColumnsOK
  <2>2. Cardinality(refs \ {c}) = Cardinality(refs) - 1 /\ IsFiniteSet(refs \ {c})
    BY <1>5, <2>1, FS_RemoveElement
  <2>3. action = "DELETE" => Cardinality(refs) = 1
    BY DEF ActionFor
  <2>4. Cardinality(refs) = 1 => refs \ {c} = {}
    BY <2>2, FS_EmptySet
  <2> QED BY <1>5, <2>3, <2>4
<1>7. OneTask'
  BY <1>3 DEF OneTask, IsIdle
<1>8. OneCleanup'
  BY <1>1, <1>3, <1>4 DEF Solo, OneCleanup, Cleaning, CleanupPcs, Idle
<1>9. QueuedReferenced'
  BY <1>1, <1>2, <1>4 DEF Solo, QueuedReferenced, NeedsCleanup
<1>10. CleanedReferenced'
  BY <1>2, <1>3, <1>5, <1>6 DEF CleanedReferenced, Cleaning, CleanupPcs, Idle, NeedsCleanup
<1>11. AccessRead'
  <2>1. /\ Chunks(Access, meta).access \subseteq refs
        /\ c \in Chunks(Access, meta).access => c \notin source
    BY <1>5, ChunksRead DEF NeedsCleanup
  <2> QED BY <1>2, <1>3, <2>1 DEF AccessRead, GrantedWithout, Idle
<1>12. AccessStands'
  BY <1>1, <1>2 DEF Solo, AccessStands
<1> QED BY <1>7, <1>8, <1>9, <1>10, <1>11, <1>12 DEF Solo

LEMMA CleanupSolo ==
    ASSUME TypeInv, SoloInv, alone', NEW t \in Threads, CleanupIndex(t) \/ CleanupCommit(t)
    PROVE  Solo'
<1> USE DEF TypeInv, SoloInv
<1> DEFINE c == thread[t].cc
<1>0. thread[t] \in Records(meta) /\ meta \in Nat
  BY DEF ThreadsOK, ColumnsOK
<1>1. alone
  <2>1. CleanupIndex(t) => alone' = alone
    BY DEF CleanupIndex
  <2>2. CleanupCommit(t) => alone' = alone \/ alone' = FALSE
    BY DEF CleanupCommit
  <2> QED BY <2>1, <2>2
<1>2. Solo /\ Cleaning(t)
  BY <1>1 DEF CleanupIndex, CleanupCommit, Cleaning, CleanupPcs
<1>3. \A u \in Threads \ {t} : thread[u].pc = "idle"
  BY <1>2, AloneAtWork DEF Cleaning, CleanupPcs, IsIdle
<1>4. UNCHANGED <<status, source, meta>>
  BY DEF CleanupIndex, CleanupCommit
<1>5. /\ thread[t].action \in {"DELETE", "UPDATE"} /\ thread[t].retries \in Retries
      /\ c \in refs /\ NeedsCleanup(c) /\ (thread[t].action = "DELETE" => refs = {c})
  BY <1>0, <1>2, RecordFacts DEF Cleaning, Solo, CleanedReferenced
<1>6. ASSUME End(t) PROVE thread'[t].pc = "idle" /\ \A u \in Threads \ {t} : thread'[u] = thread[u]
  BY <1>4, <1>6, EndOK DEF Idle
<1>7. ASSUME thread[t].pc = "clean_io", Goto(t, "clean_db"), UNCHANGED <<refs, dirty, cleanups>>,
             index' = IF thread[t].action = "DELETE" \/ index = Absent THEN Absent
                      ELSE thread[t].chunks
      PROVE  Solo'
  <2>1. /\ thread'[t].pc = "clean_db" /\ thread'[t].cc = c
        /\ thread'[t].action = thread[t].action
    BY <1>0, <1>7, Moved DEF CleanupPcs
  <2>2. \A u \in Threads \ {t} : thread'[u] = thread[u]
    BY <1>7 DEF Goto, Run, ThreadsOK
  <2>3. OneTask' /\ OneCleanup'
    BY <1>2, <1>3, <1>7, <2>1, <2>2 DEF Solo, OneTask, OneCleanup, Cleaning, CleanupPcs, IsIdle
  <2>4. QueuedReferenced' /\ CleanedReferenced'
    BY <1>2, <1>3, <1>4, <1>5, <1>7, <2>1, <2>2 DEF Solo, QueuedReferenced, CleanedReferenced,
       Cleaning, CleanupPcs, NeedsCleanup
  <2>5. index' # Absent => /\ thread[t].action = "UPDATE" /\ index' = thread[t].chunks
                           /\ GrantedWithout(thread[t].chunks.access, c)
    BY <1>2, <1>5, <1>7 DEF Solo, AccessRead
  <2>6. AccessRead'
    BY <1>3, <1>4, <1>7, <2>1, <2>2, <2>5 DEF AccessRead, GrantedWithout
  <2>7. AccessStands'
    BY <1>4, <1>7, <2>5 DEF AccessStands, GrantedWithout
  <2> QED BY <2>3, <2>4, <2>6, <2>7 DEF Solo
<1>8. ASSUME CleanupFails(t) PROVE Solo'
  <2>1. End(t) /\ UNCHANGED index
    BY <1>8 DEF CleanupFails
  <2>2. CASE AddCleanup(c, thread[t].retries + 1) /\ thread[t].retries < MaxRetries
             /\ UNCHANGED <<refs, dirty>>
    <3>1. thread[t].retries + 1 \in Retries
      BY <1>5, <2>2, NextRetry
    <3>2. AccessStands'
      BY <1>2, <1>4, <2>1, <2>2 DEF Solo, AccessStands
    <3> QED BY <1>2, <1>4, <1>6, <2>1, <2>2, <3>1, <3>2, CleanupEnds DEF Solo
  <2>3. CASE UNCHANGED cleanups /\ refs \ {c} \subseteq refs'
             /\ (dirty' = TRUE \/ UNCHANGED <<refs, dirty>>)
    <3>1. AccessStands'
      BY <1>2, <1>4, <2>1, <2>3 DEF Solo, AccessStands
    <3> QED BY <1>2, <1>4, <1>6, <2>1, <2>3, <3>1, CleanupEnds DEF Solo
  <2> QED BY <1>8, <2>2, <2>3 DEF CleanupFails
<1>9. CASE CleanupIndex(t)
  <2>1. ASSUME End(t), UNCHANGED <<refs, dirty, index, cleanups>> PROVE Solo'
    <3>1. AccessStands'
      BY <1>2, <1>4, <2>1 DEF Solo, AccessStands
    <3> QED BY <1>2, <1>4, <1>6, <2>1, <3>1, CleanupEnds DEF Solo
  <2> QED BY <1>7, <1>8, <1>9, <2>1 DEF CleanupIndex
<1>10. CASE CleanupCommit(t)
  <2>1. End(t) /\ UNCHANGED index /\ thread[t].pc = "clean_db"
    BY <1>10 DEF CleanupCommit
  <2>2. index # Absent => thread[t].action = "UPDATE" /\ GrantedWithout(index.access, c)
    BY <1>2, <2>1 DEF Solo, AccessRead
  <2>3. CASE thread[t].action = "UPDATE" /\ ~row
    <3>1. UNCHANGED refs /\ UNCHANGED dirty
      BY <1>10, <2>3 DEF CleanupCommit
    <3>2. UNCHANGED cleanups \/ \E r \in Retries : AddCleanup(c, r)
      <4>1. cleanups' = cleanups
            \/ (thread[t].retries < MaxRetries /\ AddCleanup(c, thread[t].retries + 1))
        BY <1>10, <2>3 DEF CleanupCommit, AddCleanup
      <4> QED BY <1>5, <4>1, NextRetry
    <3>3. AccessStands'
      BY <1>2, <1>4, <2>1, <3>1 DEF Solo, AccessStands
    <3>4. refs \ {c} \subseteq refs'
      BY <3>1
    <3> QED BY <1>2, <1>4, <1>6, <2>1, <3>1, <3>2, <3>3, <3>4, CleanupEnds DEF Solo
  <2>4. CASE thread[t].action = "UPDATE" /\ row
    <3>1. refs' = refs \ {c}
      BY <1>10, <2>4 DEF CleanupCommit
    <3>2. UNCHANGED cleanups
      BY <1>10, <2>4 DEF CleanupCommit
    <3>3. AccessStands'
      BY <1>4, <2>1, <2>2, <3>1 DEF AccessStands, GrantedWithout
    <3> QED BY <1>2, <1>4, <1>6, <2>1, <3>1, <3>2, <3>3, CleanupEnds DEF Solo
  <2>5. CASE thread[t].action = "DELETE"
    <3>1. UNCHANGED cleanups
      BY <1>10, <2>5 DEF CleanupCommit
    <3>2. AccessStands'
      BY <2>1, <2>2, <2>5 DEF AccessStands
    <3> QED BY <1>2, <1>4, <1>6, <2>1, <2>5, <3>1, <3>2, CleanupEnds DEF Solo
  <2> QED BY <1>5, <2>3, <2>4, <2>5
<1> QED BY <1>9, <1>10

LEMMA SyncSolo ==
    ASSUME TypeInv, SoloInv, alone', NEW t \in Threads, Sync(t)
    PROVE  Solo'
<1> USE DEF TypeInv, SoloInv
<1>0. thread[t] \in Records(meta) /\ meta \in Nat
  BY DEF ThreadsOK, ColumnsOK
<1>1. UNCHANGED <<status, source, cleanups, refs, meta>>
  BY DEF Sync, SyncRead, SyncUpdate, SyncMark, postgres
<1>2. ASSUME NEW r \in Retries, SyncRead(t, r) PROVE Solo'
  <2> DEFINE task == [pc |-> "sync_io", retries |-> r, chunks |-> Chunks(Access, meta)]
  <2>0. Take(t) /\ UNCHANGED index
    BY <1>2 DEF SyncRead
  <2>1. alone /\ Solo /\ \A u \in Threads : thread[u].pc = "idle"
    BY <2>0, TakeAlone
  <2>2. /\ \A u \in Threads \ {t} : thread'[u].pc = "idle"
        /\ thread'[t] = Idle \/ thread'[t] = task
    BY <1>2, <2>1 DEF SyncRead, Run, End, ThreadsOK
  <2>3. OneTask' /\ OneCleanup' /\ QueuedReferenced' /\ CleanedReferenced'
    BY <1>1, <2>1, <2>2, OtherWork DEF CleanupPcs, Idle
  <2>4. AccessRead'
    BY <1>1, <2>2, ChunksRead DEF AccessRead, Granted, Idle
  <2>5. UNCHANGED dirty
    BY <1>2 DEF SyncRead, postgres
  <2>6. AccessStands'
    BY <1>1, <2>0, <2>1, <2>5 DEF Solo, AccessStands
  <2> QED BY <2>3, <2>4, <2>6 DEF Solo
<1>3. ASSUME SyncUpdate(t) PROVE Solo'
  <2>1. thread[t].pc = "sync_io" /\ alone /\ Solo /\ UNCHANGED dirty
    BY <1>3 DEF SyncUpdate, postgres
  <2>2. \A u \in Threads \ {t} : thread[u].pc = "idle"
    BY <2>1, AloneAtWork DEF IsIdle
  <2>3. \/ Goto(t, "sync_db") /\ index' = IF index = Absent THEN Absent ELSE thread[t].chunks
        \/ End(t) /\ UNCHANGED index
    BY <1>3 DEF SyncUpdate
  <2>4. \A u \in Threads \ {t} : thread'[u].pc = "idle"
    BY <2>2, <2>3 DEF Goto, End, Run, ThreadsOK
  <2>5. /\ thread'[t].pc \in {"idle", "sync_db"}
        /\ thread'[t].pc = "sync_db" => index' \in {Absent, thread[t].chunks}
    BY <1>0, <1>1, <2>3, Moved, EndOK DEF Idle
  <2>6. OneTask' /\ OneCleanup' /\ QueuedReferenced' /\ CleanedReferenced'
    BY <1>1, <2>1, <2>4, <2>5, OtherWork DEF CleanupPcs
  <2>7. Granted(thread[t].chunks.access)
    BY <2>1 DEF Solo, AccessRead
  <2>8. AccessRead'
    BY <1>1, <2>4, <2>5, <2>7 DEF AccessRead, Granted
  <2>9. AccessStands'
    BY <1>1, <2>1, <2>3, <2>7 DEF Solo, AccessStands, Granted
  <2> QED BY <2>6, <2>8, <2>9 DEF Solo
<1>4. ASSUME SyncMark(t) PROVE Solo'
  <2>1. thread[t].pc = "sync_db" /\ alone /\ Solo /\ End(t) /\ UNCHANGED index
    BY <1>4 DEF SyncMark
  <2>2. \A u \in Threads \ {t} : thread[u].pc = "idle"
    BY <2>1, AloneAtWork DEF IsIdle
  <2>3. thread'[t].pc = "idle" /\ \A u \in Threads \ {t} : thread'[u].pc = "idle"
    BY <1>1, <2>1, <2>2, EndOK DEF Idle
  <2>4. OneTask' /\ OneCleanup' /\ QueuedReferenced' /\ CleanedReferenced'
    BY <1>1, <2>1, <2>3, OtherWork DEF CleanupPcs
  <2>5. AccessRead'
    BY <2>3 DEF AccessRead
  <2>6. AccessStands'
    BY <1>1, <2>1 DEF Solo, AccessRead, AccessStands, Granted
  <2> QED BY <2>4, <2>5, <2>6 DEF Solo
<1> QED BY <1>2, <1>3, <1>4 DEF Sync

LEMMA CrashSolo ==
    ASSUME TypeInv, SoloInv, alone', NEW t \in Threads, Crash(t)
    PROVE  Solo'
<1> USE DEF TypeInv, SoloInv
<1>1. /\ UNCHANGED <<status, source, refs, index, meta>> /\ End(t) /\ ~IsIdle(t)
      /\ alone /\ Solo
  BY DEF Crash
<1>2. thread'[t].pc = "idle" /\ \A u \in Threads \ {t} : thread'[u] = thread[u]
  BY <1>1, EndOK DEF Idle
<1>3. UNCHANGED dirty
  BY DEF Crash
<1>4. AccessStands'
  BY <1>1, <1>3 DEF Solo, AccessStands
<1>5. CASE Cleaning(t)
  <2>1. thread[t].retries \in Retries
    BY <1>5, RecordFacts DEF ThreadsOK, ColumnsOK, Cleaning
  <2>2. \E r \in Retries : AddCleanup(thread[t].cc, r)
    BY <1>5, <2>1 DEF Crash, Cleaning
  <2> QED BY <1>1, <1>2, <1>4, <1>5, <2>2, CleanupEnds DEF Solo
<1>6. CASE ~Cleaning(t)
  <2>1. UNCHANGED cleanups
    BY <1>6 DEF Crash, Cleaning
  <2>2. \A u \in Threads : thread'[u].pc = "idle"
    BY <1>1, <1>2, AloneAtWork
  <2>3. OneTask' /\ OneCleanup' /\ QueuedReferenced' /\ CleanedReferenced'
    BY <1>1, <2>1, <2>2, OtherWork DEF CleanupPcs
  <2>4. AccessRead'
    BY <2>2 DEF AccessRead
  <2> QED BY <1>4, <2>3, <2>4 DEF Solo
<1> QED BY <1>5, <1>6

LEMMA SoloInit == Init => SoloInv
<1> SUFFICES ASSUME Init PROVE SoloInv
  OBVIOUS
<1>0. 0 \in Retries
  BY NextRetry, ConstantsAssumption DEF Retries
<1>1. (\A t \in Threads : thread[t] = Idle) /\ index = Absent /\ alone = TRUE
  BY DEF Init
<1>2. \A c \in CCPairs, r \in Retries : cleanups[c][r] = 0
  BY DEF Init
<1>3. OneTask /\ CleanedReferenced /\ AccessRead /\ AccessStands
  BY <1>1 DEF OneTask, CleanedReferenced, AccessRead, AccessStands, Idle, IsIdle, Cleaning, CleanupPcs
<1>4. OneCleanup /\ QueuedReferenced
  BY <1>2 DEF OneCleanup, QueuedReferenced
<1> QED BY <1>1, <1>3, <1>4 DEF Solo, SoloInv

LEMMA SoloStep ==
    ASSUME TypeInv, SoloInv, [Next]_vars
    PROVE  SoloInv'
<1>1. Docprocessors \subseteq Threads /\ LightWorkers \subseteq Threads
  BY DEF Threads
<1>2. alone' \in BOOLEAN
  <2>1. \/ alone' = alone \/ alone' = FALSE
        \/ \E t \in Threads : alone' = (alone /\ \A u \in Threads : IsIdle(u))
    BY <1>1 DEF Next, vars, RequestDeletion, SourceRemoves, SendCleanup, EditDocument, GenerateSync,
       FinalizeSync, Index, IndexPrepare, IndexRelate, IndexLock, IndexWrite, IndexPost, Cleanup,
       CleanupCount, CleanupIndex, CleanupCommit, Sync, SyncRead, SyncUpdate, SyncMark, Crash, Take
  <2> QED BY <2>1 DEF SoloInv
<1>3. ASSUME alone' PROVE Solo'
  <2>1. CASE \/ \E c \in CCPairs : RequestDeletion(c) \/ SourceRemoves(c) \/ SendCleanup(c)
             \/ EditDocument \/ GenerateSync \/ FinalizeSync \/ UNCHANGED vars
    <3>1. alone
      <4>1. alone' = alone \/ alone' = FALSE
        BY <2>1 DEF RequestDeletion, SourceRemoves, SendCleanup, EditDocument, GenerateSync,
           FinalizeSync, vars
      <4> QED BY <1>3, <4>1
    <3> QED BY <1>3, <2>1, <3>1, EnvironmentSolo DEF SoloInv
  <2>2. ASSUME NEW t \in Threads, Index(t) \/ Cleanup(t) \/ Sync(t) \/ Crash(t) PROVE Solo'
    BY <1>3, <2>2, IndexSolo, CountSolo, CleanupSolo, SyncSolo, CrashSolo DEF Cleanup
  <2> QED BY <1>1, <2>1, <2>2 DEF Next
<1> QED BY <1>2, <1>3 DEF SoloInv

LEMMA Invariants == Spec => [](TypeInv /\ LockedRowStays /\ SoloInv)
BY TypeInit, TypeStep, SoloInit, SoloStep, PTL DEF Spec

\* While tasks do not overlap and no cleanup runs twice, chunks at rest grant access
\* only through cc_pairs that still reference the document, unless a metadata sync
\* is due: whatever the cleanups' retries, failures and crashes, a deleted cc_pair
\* leaves no access behind.
THEOREM NoAccessLeftBehind == Spec => []DeletedPairLosesAccess
<1>1. SoloInv => DeletedPairLosesAccess
  BY DEF SoloInv, Solo, AccessStands, DeletedPairLosesAccess
<1> QED BY <1>1, Invariants, PTL

\* Under the same condition a reference is only ever removed by a cleanup task of
\* its own cc_pair: the count of references that decides between deleting the
\* document and updating it is still right when Postgres is changed.
THEOREM SharedDocumentStays == Spec => SharedDocumentKept
<1> DEFINE A == alone => \A c \in refs \ refs' :
                   \E t \in Threads : thread[t].pc \in CleanupPcs /\ thread[t].cc = c
<1>1. ASSUME TypeInv, SoloInv, [Next]_vars PROVE A
  <2> SUFFICES ASSUME alone, NEW c \in refs \ refs'
               PROVE  \E t \in Threads : thread[t].pc \in CleanupPcs /\ thread[t].cc = c
    OBVIOUS
  <2>1. PICK t \in LightWorkers : CleanupIndex(t) \/ CleanupCommit(t)
    BY <1>1 DEF Next, vars, postgres, RequestDeletion, SourceRemoves, SendCleanup, EditDocument,
       GenerateSync, FinalizeSync, Index, IndexPrepare, IndexRelate, IndexLock, IndexWrite,
       IndexPost, Cleanup, CleanupCount, Sync, SyncRead, SyncUpdate, SyncMark, Crash
  <2>2. t \in Threads /\ Cleaning(t)
    BY <2>1 DEF Threads, CleanupIndex, CleanupCommit, Cleaning, CleanupPcs
  <2>3. c \in CCPairs /\ refs \in SUBSET CCPairs
    BY <1>1 DEF TypeInv, ColumnsOK
  <2>4. thread[t].action = "DELETE" => refs = {thread[t].cc}
    BY <1>1, <2>2 DEF SoloInv, Solo, CleanedReferenced
  <2>5. refs \ {thread[t].cc} \subseteq refs' \/ thread[t].action = "DELETE"
    BY <2>1 DEF CleanupIndex, CleanupFails, CleanupCommit
  <2>6. thread[t].cc = c
    BY <2>4, <2>5
  <2> QED BY <2>2, <2>6 DEF Cleaning
<1> QED BY <1>1, Invariants, PTL DEF Spec, SharedDocumentKept
=============================================================================
