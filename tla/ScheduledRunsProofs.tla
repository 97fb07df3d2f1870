------------------------- MODULE ScheduledRunsProofs -------------------------
(***************************************************************************)
(* Proofs about ScheduledRuns: the types with the claim of a tick, that    *)
(* each due time fires once, that runs of the schedule do not overlap, and *)
(* that the end of a run is changed by a sweep only.                       *)
(***************************************************************************)
EXTENDS ScheduledRuns, TLAPS

Rows == [status : Statuses \union {"NONE"}, trigger : {"none", "SCHEDULED", "MANUAL_RUN_NOW"},
         error : {"none", "other", "STUCK"}, age : 0..2]
Alive == {"waking", "woken", "driving"}

\* The types of the variables
RowTypes == run \in [Runs -> Rows]
ProcessTypes ==
    /\ executor \in [Runs -> {"idle", "sent"} \union Alive]
    /\ tick \in [Ticks -> {"idle", "fire", "skip"}]
    /\ sweep \subseteq Runs
TaskTypes ==
    task \in [status : {"ACTIVE", "PAUSED"}, deleted : BOOLEAN, next : {"none", "future", "due"}]
RequestTypes ==
    /\ request = [a \in Requests |-> request[a]]
    /\ \A a \in Requests : request[a].op \in {"none", "pause", "resume", "edit", "delete"}
    /\ asked \in 0..MaxRequests /\ spent \in 0..MaxEvents

\* One tick has the task claimed, and the task stays as it was when claimed
OneClaim ==
    /\ \A d, e \in Ticks : tick[d] # "idle" /\ tick[e] # "idle" => d = e
    /\ ~Unlocked => Due

\* A row that is not there is held by nobody
FreeRows == \A r \in Runs :
    IF run[r].status = "NONE" THEN run[r] = NoRow /\ executor[r] = "idle" /\ r \notin sweep
                              ELSE run[r].trigger # "none"

TypeInv == RowTypes /\ ProcessTypes /\ TaskTypes /\ RequestTypes /\ OneClaim /\ FreeRows

\* A run whose executor is alive is in flight, unless the sweeper gave it up
AliveInFlight == \A r \in Runs :
    executor[r] \in Alive => run[r].status \in InFlightStatuses \/ run[r].error = "STUCK"

\* What a tick that is about to fire has found remains so: a run in flight by
\* then was given up before
NothingInFlight ==
    (\E d \in Ticks : tick[d] = "fire") =>
        \A r \in Runs : run[r].status \in InFlightStatuses => run[r].error = "STUCK"

IInv == TypeInv /\ AliveInFlight /\ NothingInFlight /\ NoOverlap

-----------------------------------------------------------------------------
(***************************************************************************)
(* Rows                                                                    *)
(***************************************************************************)

LEMMA MarkedRow ==
    ASSUME NEW row \in Rows, NEW s \in Statuses
    PROVE  /\ Marked(row, s) \in Rows /\ Marked(row, s).status = s
           /\ Marked(row, s).trigger = row.trigger /\ Marked(row, s).error = row.error
BY DEF Rows, Marked

LEMMA FailedRow ==
    ASSUME NEW row \in Rows, NEW c \in {"other", "STUCK"}
    PROVE  /\ Failed(row, c) \in Rows /\ Failed(row, c).status = "FAILED"
           /\ Failed(row, c).trigger = row.trigger /\ Failed(row, c).error = c
BY DEF Rows, Failed, Statuses, TerminalStatuses

LEMMA OlderRow ==
    ASSUME NEW row \in Rows, row.age < 2
    PROVE  LET o == [row EXCEPT !.age = @ + 1]
           IN  /\ o \in Rows /\ o.status = row.status
               /\ o.trigger = row.trigger /\ o.error = row.error
<1>1. row.age \in 0..2 /\ row.age + 1 \in 0..2
  BY DEF Rows
<1> QED BY <1>1 DEF Rows

LEMMA NewRows ==
    /\ NoRow \in Rows
    /\ NoRow.status = "NONE" /\ NoRow.trigger = "none" /\ NoRow.error = "none"
    /\ \A s \in Statuses, t \in {"SCHEDULED", "MANUAL_RUN_NOW"} :
           /\ NewRow(s, t) \in Rows /\ NewRow(s, t).status = s
           /\ NewRow(s, t).trigger = t /\ NewRow(s, t).error = "none"
<1>1. NoRow \in Rows /\ NoRow.status = "NONE" /\ NoRow.trigger = "none" /\ NoRow.error = "none"
  BY DEF Rows, NoRow
<1>2. ASSUME NEW s \in Statuses, NEW t \in {"SCHEDULED", "MANUAL_RUN_NOW"}
      PROVE  /\ NewRow(s, t) \in Rows /\ NewRow(s, t).status = s
             /\ NewRow(s, t).trigger = t /\ NewRow(s, t).error = "none"
  BY DEF Rows, NewRow
<1> QED BY <1>1, <1>2

LEMMA StatusNames ==
    /\ Statuses = {"QUEUED", "RUNNING", "SUCCEEDED", "FAILED", "SKIPPED", "AWAITING_APPROVAL"}
    /\ InFlightStatuses = {"QUEUED", "RUNNING"}
    /\ TerminalStatuses = {"SUCCEEDED", "FAILED", "SKIPPED"}
BY DEF Statuses, InFlightStatuses, TerminalStatuses

-----------------------------------------------------------------------------
(***************************************************************************)
(* The actions, by what they change                                        *)
(***************************************************************************)

\* A step of an executor: one row is rewritten, or none.  What it may leave
\* behind is what these lemmas ask of it.
ExecutorWrites(r, row) ==
    /\ row \in Rows /\ row.status # "NONE" /\ row.trigger = run[r].trigger
    /\ row.status \in InFlightStatuses =>
           row.error = run[r].error /\ (run[r].status \in InFlightStatuses \/ row.error = "STUCK")

LEMMA ExecutorKeeps ==
    ASSUME IInv, NEW r \in Runs, executor[r] # "idle", NEW row, ExecutorWrites(r, row),
           NEW pc \in {"idle"} \union Alive,
           pc \in Alive => row.status \in InFlightStatuses \/ row.error = "STUCK",
           run' = [run EXCEPT ![r] = row], executor' = [executor EXCEPT ![r] = pc],
           Elsewhere, spent' \in 0..MaxEvents
    PROVE  IInv'
<1> USE DEF IInv, TypeInv
<1>1. /\ run'[r] = row /\ executor'[r] = pc
      /\ \A s \in Runs : s # r => run'[s] = run[s] /\ executor'[s] = executor[s]
  BY DEF RowTypes, ProcessTypes
<1>2. run[r].status # "NONE" /\ run[r].trigger # "none"
  BY DEF FreeRows
<1>3. TypeInv'
  <2>1. RowTypes' /\ ProcessTypes' /\ TaskTypes' /\ RequestTypes'
    BY DEF RowTypes, ProcessTypes, TaskTypes, RequestTypes, Elsewhere, ExecutorWrites
  <2>2. OneClaim'
    BY DEF OneClaim, Unlocked, Due, Active, Elsewhere
  <2>3. FreeRows'
    BY <1>1, <1>2 DEF FreeRows, Elsewhere, ExecutorWrites
  <2> QED BY <2>1, <2>2, <2>3
<1>4. AliveInFlight'
  BY <1>1 DEF AliveInFlight
<1>5. NothingInFlight'
  BY <1>1 DEF NothingInFlight, ExecutorWrites, Elsewhere
<1>6. NoOverlap'
  BY <1>1 DEF NoOverlap, ExecutorWrites
<1> QED BY <1>3, <1>4, <1>5, <1>6

LEMMA EventsCounted ==
    ASSUME RequestTypes, NEW k, Happens(k) \/ NothingHappens
    PROVE  spent' \in 0..MaxEvents
BY ConstantsAssumption DEF RequestTypes, Happens, NothingHappens

\* What an executor writes, in the terms of the lemma above.
LEMMA Written ==
    ASSUME IInv, NEW r \in Runs
    PROVE  /\ executor[r] \in Alive => ExecutorWrites(r, Marked(run[r], "RUNNING"))
           /\ executor[r] # "idle" =>
                  /\ ExecutorWrites(r, run[r])
                  /\ ExecutorWrites(r, Failed(run[r], "other"))
                  /\ \A s \in {"SUCCEEDED", "AWAITING_APPROVAL"} : ExecutorWrites(r, Marked(run[r], s))
<1> USE DEF IInv, TypeInv
<1>1. run[r] \in Rows
  BY DEF RowTypes
<1>2. executor[r] # "idle" => run[r].status # "NONE"
  BY DEF FreeRows
<1>3. executor[r] \in Alive => executor[r] # "idle"
  BY DEF Alive
<1>4. executor[r] \in Alive => ExecutorWrites(r, Marked(run[r], "RUNNING"))
  BY <1>1, <1>2, <1>3, MarkedRow, StatusNames DEF ExecutorWrites, AliveInFlight
<1>5. executor[r] # "idle" => ExecutorWrites(r, run[r])
  BY <1>1, <1>2 DEF ExecutorWrites
<1>6. executor[r] # "idle" => ExecutorWrites(r, Failed(run[r], "other"))
  BY <1>1, <1>2, FailedRow, StatusNames DEF ExecutorWrites
<1>7. executor[r] # "idle" =>
          \A s \in {"SUCCEEDED", "AWAITING_APPROVAL"} : ExecutorWrites(r, Marked(run[r], s))
  BY <1>1, <1>2, MarkedRow, StatusNames DEF ExecutorWrites
<1> QED BY <1>4, <1>5, <1>6, <1>7

\* The commit of a new run ends the claim, or nobody has claimed the task: no
\* tick is left that found no run in flight.
LEMMA InsertedKeeps ==
    ASSUME IInv, NEW r \in Runs, Free(r),
           NEW s \in {"QUEUED", "SKIPPED"}, NEW t \in {"SCHEDULED", "MANUAL_RUN_NOW"},
           s = "QUEUED" /\ t = "SCHEDULED" => \E d \in Ticks : tick[d] = "fire",
           run' = [run EXCEPT ![r] = NewRow(s, t)],
           executor' \in {executor, [executor EXCEPT ![r] = "sent"]},
           tick' \in [Ticks -> {"idle", "fire", "skip"}], \A d \in Ticks : tick'[d] = "idle",
           UNCHANGED sweep, TaskTypes', RequestTypes'
    PROVE  IInv'
<1> USE DEF IInv, TypeInv
<1> DEFINE row == NewRow(s, t)
<1>1. row \in Rows /\ row.status = s /\ row.trigger = t /\ row.error = "none"
  BY NewRows, StatusNames
<1>2. /\ run'[r] = row /\ \A q \in Runs : q # r => run'[q] = run[q]
      /\ executor'[r] \in {executor[r], "sent"}
      /\ \A q \in Runs : q # r => executor'[q] = executor[q]
  BY DEF RowTypes, ProcessTypes
<1>3. run[r].status = "NONE" /\ executor[r] = "idle" /\ r \notin sweep
  BY NewRows DEF Free, FreeRows
<1> HIDE DEF row
<1>4. TypeInv'
  <2>1. RowTypes'
    BY <1>1 DEF RowTypes, row
  <2>2. ProcessTypes'
    BY DEF ProcessTypes
  <2>3. OneClaim'
    BY DEF OneClaim, Unlocked
  <2>4. FreeRows'
    BY <1>1, <1>2, <1>3 DEF FreeRows
  <2> QED BY <2>1, <2>2, <2>3, <2>4
<1>5. AliveInFlight'
  BY <1>2, <1>3 DEF AliveInFlight, Alive
<1>6. NothingInFlight'
  BY DEF NothingInFlight
<1>7. NoOverlap'
  <2> SUFFICES ASSUME NEW p \in Runs, NEW q \in Runs, p # q,
                      run'[p].trigger = "SCHEDULED", run'[q].trigger = "SCHEDULED",
                      run'[p].status \in InFlightStatuses, run'[q].status \in InFlightStatuses
               PROVE  "STUCK" \in {run'[p].error, run'[q].error}
    BY DEF NoOverlap
  <2>1. CASE p # r /\ q # r
    BY <2>1, <1>2 DEF NoOverlap
  <2>2. CASE p = r
    BY <2>2, <1>1, <1>2, StatusNames DEF NothingInFlight
  <2>3. CASE q = r
    BY <2>3, <1>1, <1>2, StatusNames DEF NothingInFlight
  <2> QED BY <2>1, <2>2, <2>3
<1> QED BY <1>4, <1>5, <1>6, <1>7

\* A step of the requests, the clock or a tick that writes no row.
LEMMA RowsLeftAlone ==
    ASSUME IInv, UNCHANGED <<run, executor, sweep>>,
           tick' \in [Ticks -> {"idle", "fire", "skip"}], TaskTypes', RequestTypes', OneClaim',
           (\E d \in Ticks : tick'[d] = "fire") =>
               (\E d \in Ticks : tick[d] = "fire")
               \/ \A r \in Runs : run[r].status \notin InFlightStatuses
    PROVE  IInv'
<1> USE DEF IInv, TypeInv
<1>1. TypeInv'
  BY DEF RowTypes, ProcessTypes, FreeRows
<1>2. AliveInFlight' /\ NoOverlap'
  BY DEF AliveInFlight, NoOverlap
<1>3. NothingInFlight'
  BY DEF NothingInFlight
<1> QED BY <1>1, <1>2, <1>3

\* A request writes next_run_at anew or leaves what is there.
LEMMA OneOfTwo ==
    ASSUME NEW read, NEW next, NEW n \in NextWritten(read, next)
    PROVE  n \in {next, task.next}
BY DEF NextWritten

-----------------------------------------------------------------------------
(***************************************************************************)
(* The invariant                                                           *)
(***************************************************************************)

LEMMA Initially == Init => IInv
<1> SUFFICES ASSUME Init PROVE IInv
  OBVIOUS
<1>1. TypeInv
  <2>1. RowTypes /\ ProcessTypes
    BY NewRows DEF Init, RowTypes, ProcessTypes
  <2>2. RequestTypes
    BY ConstantsAssumption DEF Init, RequestTypes
  <2>3. OneClaim
    BY DEF Init, OneClaim, Unlocked
  <2>4. FreeRows
    BY NewRows DEF Init, FreeRows
  <2>5. TaskTypes
    <3>1. CASE task = [status |-> "ACTIVE", deleted |-> FALSE, next |-> "future"]
      BY <3>1 DEF TaskTypes
    <3>2. CASE task = [status |-> "PAUSED", deleted |-> FALSE, next |-> "none"]
      BY <3>2 DEF TaskTypes
    <3> QED BY <3>1, <3>2 DEF Init
  <2> QED BY <2>1, <2>2, <2>3, <2>4, <2>5 DEF TypeInv
<1>2. AliveInFlight
  BY DEF Init, AliveInFlight, Alive
<1>3. NothingInFlight
  BY DEF Init, NothingInFlight
<1>4. NoOverlap
  BY NewRows, StatusNames DEF Init, NoOverlap
<1> QED BY <1>1, <1>2, <1>3, <1>4 DEF IInv

LEMMA ClockKeeps ==
    ASSUME IInv,
           BecomesDue \/ \E r \in Runs : Ages(r) \/ MessageExpires(r) \/ Forget(r)
    PROVE  IInv'
<1> USE DEF IInv, TypeInv
<1>1. CASE BecomesDue
  <2>1. TaskTypes' /\ RequestTypes'
    BY <1>1 DEF BecomesDue, TaskTypes, RequestTypes
  <2>2. Unlocked /\ OneClaim'
    BY <1>1 DEF BecomesDue, OneClaim, Unlocked, Due
  <2> QED BY <1>1, <2>1, <2>2, RowsLeftAlone DEF BecomesDue, ProcessTypes
<1>2. ASSUME NEW r \in Runs, Ages(r) PROVE IInv'
  <2>1. /\ RowTypes'
        /\ \A s \in Runs : /\ run'[s].status = run[s].status /\ run'[s].error = run[s].error
                           /\ run'[s].trigger = run[s].trigger
        /\ \A s \in Runs : s # r => run'[s] = run[s]
    BY <1>2, OlderRow DEF Ages, RowTypes
  <2>2. ProcessTypes' /\ TaskTypes' /\ RequestTypes' /\ OneClaim'
    BY <1>2 DEF Ages, ProcessTypes, TaskTypes, RequestTypes, OneClaim, Unlocked, Due, Active
  <2>3. FreeRows'
    BY <1>2, <2>1 DEF Ages, FreeRows
  <2>4. AliveInFlight' /\ NothingInFlight' /\ NoOverlap'
    BY <1>2, <2>1 DEF Ages, AliveInFlight, NothingInFlight, NoOverlap
  <2> QED BY <2>1, <2>2, <2>3, <2>4
<1>3. ASSUME NEW r \in Runs, MessageExpires(r) PROVE IInv'
  <2>1. ProcessTypes' /\ \A s \in Runs : executor'[s] \in {executor[s], "idle"}
    BY <1>3 DEF MessageExpires, ProcessTypes
  <2>2. RowTypes' /\ TaskTypes' /\ RequestTypes' /\ OneClaim'
    BY <1>3 DEF MessageExpires, RowTypes, TaskTypes, RequestTypes, OneClaim, Unlocked, Due, Active
  <2>3. FreeRows'
    BY <1>3, <2>1 DEF MessageExpires, FreeRows
  <2>4. AliveInFlight' /\ NothingInFlight' /\ NoOverlap'
    BY <1>3, <2>1 DEF MessageExpires, AliveInFlight, Alive, NothingInFlight, NoOverlap
  <2> QED BY <2>1, <2>2, <2>3, <2>4
<1>4. ASSUME NEW r \in Runs, Forget(r) PROVE IInv'
  <2>1. /\ RowTypes' /\ run'[r] = NoRow
        /\ \A s \in Runs : s # r => run'[s] = run[s]
    BY <1>4, NewRows DEF Forget, RowTypes
  <2>2. ProcessTypes' /\ TaskTypes' /\ RequestTypes' /\ OneClaim'
    BY <1>4 DEF Forget, ProcessTypes, TaskTypes, RequestTypes, OneClaim, Unlocked, Due, Active
  <2>3. FreeRows'
    BY <1>4, <2>1, NewRows DEF Forget, FreeRows
  <2>4. AliveInFlight'
    BY <1>4, <2>1 DEF Forget, AliveInFlight, Alive
  <2>5. NothingInFlight' /\ NoOverlap'
    BY <1>4, <2>1, NewRows, StatusNames DEF Forget, NothingInFlight, NoOverlap
  <2> QED BY <2>1, <2>2, <2>3, <2>4, <2>5
<1> QED BY <1>1, <1>2, <1>3, <1>4

LEMMA DispatcherKeeps ==
    ASSUME IInv, NEW d \in Ticks, Claim(d) \/ Dispatch(d) \/ DispatcherDies(d)
    PROVE  IInv'
<1> USE DEF IInv, TypeInv
<1>1. CASE Claim(d)
  <2>1. /\ tick' \in [Ticks -> {"idle", "fire", "skip"}]
        /\ \A e \in Ticks : e # d => tick'[e] = "idle"
    BY <1>1 DEF Claim, ProcessTypes, NotSkipped, Unlocked
  <2>2. TaskTypes' /\ RequestTypes' /\ Due'
    BY <1>1 DEF Claim, TaskTypes, RequestTypes, Due, Active
  <2>3. OneClaim'
    BY <2>1, <2>2 DEF OneClaim
  <2>4. (\E e \in Ticks : tick'[e] = "fire") => \A s \in Runs : run[s].status \notin InFlightStatuses
    BY <1>1 DEF Claim, ProcessTypes, NotSkipped, Unlocked
  <2> QED BY <1>1, <2>1, <2>2, <2>3, <2>4, RowsLeftAlone DEF Claim
<1>2. ASSUME NEW r \in Runs, Fire(d, r) PROVE IInv'
  <2>1. /\ tick' \in [Ticks -> {"idle", "fire", "skip"}]
        /\ \A e \in Ticks : tick'[e] = "idle"
    BY <1>2 DEF Fire, ProcessTypes, OneClaim
  <2>2. RequestTypes'
    BY <1>2, EventsCounted DEF Fire, Send, RequestTypes
  <2>3. TaskTypes'
    BY <1>2 DEF Fire, TaskTypes
  <2>4. executor' \in {executor, [executor EXCEPT ![r] = "sent"]}
    BY <1>2 DEF Fire, Send
  <2>5. /\ Free(r) /\ tick[d] = "fire" /\ UNCHANGED sweep
        /\ run' = [run EXCEPT ![r] = NewRow("QUEUED", "SCHEDULED")]
    BY <1>2 DEF Fire
  <2> QED BY <2>1, <2>2, <2>3, <2>4, <2>5, InsertedKeeps
<1>3. ASSUME NEW r \in Runs, Skip(d, r) PROVE IInv'
  <2>1. /\ tick' \in [Ticks -> {"idle", "fire", "skip"}]
        /\ \A e \in Ticks : tick'[e] = "idle"
    BY <1>3 DEF Skip, ProcessTypes, OneClaim
  <2>2. RequestTypes' /\ TaskTypes'
    BY <1>3 DEF Skip, RequestTypes, TaskTypes
  <2>3. /\ Free(r) /\ UNCHANGED <<executor, sweep>>
        /\ run' = [run EXCEPT ![r] = NewRow("SKIPPED", "SCHEDULED")]
    BY <1>3 DEF Skip
  <2> QED BY <2>1, <2>2, <2>3, InsertedKeeps
<1>4. CASE DispatcherDies(d)
  <2>1. /\ tick' \in [Ticks -> {"idle", "fire", "skip"}]
        /\ \A e \in Ticks : tick'[e] \in {tick[e], "idle"}
    BY <1>4 DEF DispatcherDies, ProcessTypes
  <2>2. RequestTypes'
    BY <1>4, EventsCounted DEF DispatcherDies, RequestTypes
  <2>3. TaskTypes' /\ OneClaim'
    BY <1>4, <2>1 DEF DispatcherDies, TaskTypes, OneClaim, Unlocked, Due, Active
  <2> QED BY <1>4, <2>1, <2>2, <2>3, RowsLeftAlone DEF DispatcherDies
<1> QED BY <1>1, <1>2, <1>3, <1>4 DEF Dispatch

LEMMA UserKeeps ==
    ASSUME IInv,
           (\E r \in Runs : RunNow(r)) \/ (\E a \in Requests : Ask(a) \/ Answer(a))
    PROVE  IInv'
<1> USE DEF IInv, TypeInv
<1>1. ASSUME NEW r \in Runs, RunNow(r) PROVE IInv'
  <2>1. spent' \in 0..MaxEvents
    BY <1>1, EventsCounted DEF RunNow, Send
  <2>2. RequestTypes' /\ TaskTypes'
    BY <1>1, <2>1, ConstantsAssumption DEF RunNow, RequestTypes, TaskTypes
  <2>3. /\ tick' \in [Ticks -> {"idle", "fire", "skip"}]
        /\ \A e \in Ticks : tick'[e] = "idle"
    BY <1>1 DEF RunNow, ProcessTypes, Unlocked
  <2>4. executor' \in {executor, [executor EXCEPT ![r] = "sent"]}
    BY <1>1 DEF RunNow, Send
  <2>5. /\ Free(r) /\ UNCHANGED sweep
        /\ run' = [run EXCEPT ![r] = NewRow("QUEUED", "MANUAL_RUN_NOW")]
    BY <1>1 DEF RunNow
  <2> QED BY <2>2, <2>3, <2>4, <2>5, InsertedKeeps
<1>2. ASSUME NEW a \in Requests, Ask(a) PROVE IInv'
  <2>1. PICK op \in {"pause", "edit", "delete", "resume"} :
            request' = [request EXCEPT ![a] = [op |-> op, read |-> task.next]]
    BY <1>2 DEF Ask
  <2>2. \A b \in Requests : request'[b].op = IF b = a THEN op ELSE request[b].op
    BY <2>1 DEF RequestTypes
  <2>3. asked' \in 0..MaxRequests /\ spent' \in 0..MaxEvents
    BY <1>2, ConstantsAssumption DEF Ask, RequestTypes
  <2>4. RequestTypes'
    BY <2>1, <2>2, <2>3 DEF RequestTypes
  <2>5. TaskTypes' /\ OneClaim'
    BY <1>2 DEF Ask, TaskTypes, OneClaim, Unlocked, Due, Active
  <2> QED BY <1>2, <2>4, <2>5, RowsLeftAlone DEF Ask, ProcessTypes
<1>3. ASSUME NEW a \in Requests, Answer(a) PROVE IInv'
  <2>1. Unlocked /\ Answered(a)
    BY <1>3 DEF Answer, Pause, Resume, Edit, Delete
  <2>2. TaskTypes'
    <3>1. CASE Pause(a)
      <4>1. PICK next \in NextWritten(request[a].read, "none") :
                task' = [task EXCEPT !.status = "PAUSED", !.next = next]
        BY <3>1 DEF Pause
      <4>2. next \in {"none", task.next}
        BY OneOfTwo
      <4> QED BY <4>1, <4>2 DEF TaskTypes
    <3>2. CASE Resume(a)
      <4>1. PICK next \in NextWritten(request[a].read, "future") :
                task' = [task EXCEPT !.status = "ACTIVE", !.next = next]
        BY <3>2 DEF Resume
      <4>2. next \in {"future", task.next}
        BY OneOfTwo
      <4> QED BY <4>1, <4>2 DEF TaskTypes
    <3>3. CASE Edit(a)
      <4>1. PICK next \in NextWritten(request[a].read, "future") :
                task' = [task EXCEPT !.next = next]
        BY <3>3 DEF Edit
      <4>2. next \in {"future", task.next}
        BY OneOfTwo
      <4> QED BY <4>1, <4>2 DEF TaskTypes
    <3>4. CASE Delete(a)
      <4>1. PICK next \in NextWritten(request[a].read, "none") :
                task' = [task EXCEPT !.deleted = TRUE, !.next = next]
        BY <3>4 DEF Delete
      <4>2. next \in {"none", task.next}
        BY OneOfTwo
      <4> QED BY <4>1, <4>2 DEF TaskTypes
    <3> QED BY <1>3, <3>1, <3>2, <3>3, <3>4 DEF Answer
  <2>3. \A b \in Requests : request'[b].op \in {"none", request[b].op}
    BY <2>1 DEF Answered, RequestTypes
  <2>4. RequestTypes'
    BY <2>1, <2>3 DEF Answered, RequestTypes
  <2>5. OneClaim'
    BY <2>1 DEF Answered, OneClaim, Unlocked
  <2> QED BY <2>1, <2>2, <2>4, <2>5, RowsLeftAlone DEF Answered, ProcessTypes
<1> QED BY <1>1, <1>2, <1>3

LEMMA ExecutorStepKeeps ==
    ASSUME IInv, NEW r \in Runs, ExecutorStep(r) \/ ExecutorDies(r)
    PROVE  IInv'
<1> USE DEF IInv, TypeInv
<1>1. run = [run EXCEPT ![r] = run[r]] /\ run[r] \in Rows
  BY DEF RowTypes
<1>2. Elsewhere /\ executor[r] # "idle" /\ spent' \in 0..MaxEvents
  BY EventsCounted DEF ExecutorStep, ExecutorDies, PickUp, Wake, StartDrive, EndDrive, At
<1>3. CASE PickUp(r)
  <2>1. /\ run' = [run EXCEPT ![r] = run[r]]
        /\ executor' = [executor EXCEPT ![r] = IF run[r].status = "QUEUED" THEN "waking" ELSE "idle"]
    BY <1>1, <1>3 DEF PickUp, Goes
  <2> QED BY <1>2, <2>1, Written, ExecutorKeeps, StatusNames DEF Alive
<1>4. CASE Wake(r)
  <2>1. executor[r] \in Alive
    BY <1>4 DEF Wake, At, Alive
  <2>2. CASE Writes(r, Marked(run[r], "RUNNING")) /\ Goes(r, "woken")
    <3>1. Marked(run[r], "RUNNING").status \in InFlightStatuses
      BY <1>1, MarkedRow, StatusNames
    <3> QED BY <1>2, <2>1, <2>2, <3>1, Written, ExecutorKeeps DEF Writes, Goes, Alive
  <2>3. CASE Writes(r, Failed(run[r], "other")) /\ Goes(r, AfterFailedWake)
    BY <1>2, <2>3, Written, ExecutorKeeps DEF Writes, Goes, AfterFailedWake, Alive
  <2> QED BY <1>4, <2>2, <2>3 DEF Wake
<1>5. CASE StartDrive(r)
  <2>1. executor[r] \in Alive
    BY <1>5 DEF StartDrive, At, Alive
  <2>2. CASE Writes(r, Marked(run[r], "RUNNING")) /\ Goes(r, "driving")
    <3>1. Marked(run[r], "RUNNING").status \in InFlightStatuses
      BY <1>1, MarkedRow, StatusNames
    <3> QED BY <1>2, <2>1, <2>2, <3>1, Written, ExecutorKeeps DEF Writes, Goes, Alive
  <2>3. CASE Goes(r, "idle") /\ UNCHANGED run
    BY <1>1, <1>2, <2>3, Written, ExecutorKeeps DEF Goes, Alive
  <2>4. CASE Goes(r, "idle") /\ Writes(r, Failed(run[r], "other"))
    BY <1>2, <2>4, Written, ExecutorKeeps DEF Writes, Goes, Alive
  <2> QED BY <1>5, <2>2, <2>3, <2>4 DEF StartDrive
<1>6. CASE EndDrive(r)
  <2>1. PICK row : /\ ExecutorWrites(r, row) /\ Writes(r, row) /\ Goes(r, "idle")
    BY <1>2, <1>6, Written DEF EndDrive
  <2> QED BY <1>2, <2>1, ExecutorKeeps DEF Writes, Goes, Alive
<1>7. CASE ExecutorDies(r)
  <2>1. Goes(r, "idle") /\ UNCHANGED run
    BY <1>7 DEF ExecutorDies
  <2> QED BY <1>1, <1>2, <2>1, Written, ExecutorKeeps DEF Goes, Alive
<1> QED BY <1>3, <1>4, <1>5, <1>6, <1>7 DEF ExecutorStep

\* The sweeper writes terminal statuses, with its mark.
LEMMA SweptRows ==
    ASSUME IInv, MarkStuck, NEW r \in Runs
    PROVE  /\ run'[r] \in Rows
           /\ run'[r] = run[r] \/ /\ r \in sweep /\ run'[r].status = "FAILED"
                                  /\ run'[r].error = "STUCK" /\ run'[r].trigger = run[r].trigger
BY FailedRow DEF IInv, TypeInv, RowTypes, MarkStuck

LEMMA SweeperKeeps ==
    ASSUME IInv, FindStuck \/ MarkStuck \/ SweeperDies
    PROVE  IInv'
<1> USE DEF IInv, TypeInv
<1>1. RequestTypes' /\ TaskTypes' /\ OneClaim'
  BY EventsCounted DEF FindStuck, MarkStuck, SweeperDies, RequestTypes, TaskTypes,
                       OneClaim, Unlocked, Due, Active
<1>2. CASE FindStuck
  <2>1. RowTypes' /\ ProcessTypes'
    BY <1>2 DEF FindStuck, RowTypes, ProcessTypes
  <2>2. FreeRows'
    BY <1>2 DEF FindStuck, FreeRows, Stuck
  <2>3. AliveInFlight' /\ NothingInFlight' /\ NoOverlap'
    BY <1>2 DEF FindStuck, AliveInFlight, NothingInFlight, NoOverlap
  <2> QED BY <1>1, <2>1, <2>2, <2>3
<1>3. CASE MarkStuck
  <2>1. RowTypes' /\ ProcessTypes'
    BY <1>3, SweptRows DEF MarkStuck, RowTypes, ProcessTypes
  <2>2. FreeRows'
    BY <1>3, SweptRows DEF MarkStuck, FreeRows
  <2>3. AliveInFlight'
    BY <1>3, SweptRows DEF MarkStuck, AliveInFlight
  <2>4. NothingInFlight'
    BY <1>3, SweptRows DEF MarkStuck, NothingInFlight
  <2>5. NoOverlap'
    BY <1>3, SweptRows DEF NoOverlap
  <2> QED BY <1>1, <2>1, <2>2, <2>3, <2>4, <2>5
<1>4. CASE SweeperDies
  <2>1. RowTypes' /\ ProcessTypes' /\ FreeRows'
    BY <1>4 DEF SweeperDies, RowTypes, ProcessTypes, FreeRows
  <2>2. AliveInFlight' /\ NothingInFlight' /\ NoOverlap'
    BY <1>4 DEF SweeperDies, AliveInFlight, NothingInFlight, NoOverlap
  <2> QED BY <1>1, <2>1, <2>2
<1> QED BY <1>2, <1>3, <1>4

LEMMA Inductive == IInv /\ [Next]_vars => IInv'
<1> SUFFICES ASSUME IInv, [Next]_vars PROVE IInv'
  OBVIOUS
<1>1. CASE UNCHANGED vars
  BY <1>1 DEF vars, IInv, TypeInv, RowTypes, ProcessTypes, TaskTypes, RequestTypes, OneClaim,
              Unlocked, Due, Active, FreeRows, AliveInFlight, NothingInFlight, NoOverlap
<1>2. CASE Next
  <2>1. CASE BecomesDue \/ \E r \in Runs : Ages(r) \/ MessageExpires(r) \/ Forget(r)
    BY <2>1, ClockKeeps
  <2>2. CASE \E d \in Ticks : Claim(d) \/ Dispatch(d) \/ DispatcherDies(d)
    BY <2>2, DispatcherKeeps
  <2>3. CASE \E r \in Runs : ExecutorStep(r) \/ ExecutorDies(r)
    BY <2>3, ExecutorStepKeeps
  <2>4. CASE \/ \E r \in Runs : RunNow(r)
             \/ \E a \in Requests : Ask(a) \/ Answer(a)
    BY <2>4, UserKeeps
  <2>5. CASE FindStuck \/ MarkStuck \/ SweeperDies
    BY <2>5, SweeperKeeps
  <2> QED BY <1>2, <2>1, <2>2, <2>3, <2>4, <2>5 DEF Next
<1> QED BY <1>1, <1>2

LEMMA Invariance == Spec => []IInv
BY Initially, Inductive, PTL DEF Spec

-----------------------------------------------------------------------------
(***************************************************************************)
(* The theorems                                                            *)
(***************************************************************************)

\* In every behaviour the variables have their types, and one tick at most has
\* the task claimed, which stays due until it is dispatched.
THEOREM TypeCorrect == Spec => []TypeOK
<1>1. IInv => TypeOK
  <2> SUFFICES ASSUME IInv PROVE TypeOK
    OBVIOUS
  <2>1. \A r \in Runs : run[r] = NoRow \/
            run[r] \in [status : Statuses, trigger : {"SCHEDULED", "MANUAL_RUN_NOW"},
                        error : {"none", "other", "STUCK"}, age : 0..2]
    BY DEF IInv, TypeInv, RowTypes, FreeRows, Rows
  <2>2. executor \in [Runs -> {"idle", "sent", "waking", "woken", "driving"}]
    BY DEF IInv, TypeInv, ProcessTypes, Alive
  <2> QED BY <2>1, <2>2 DEF IInv, TypeInv, ProcessTypes, TaskTypes, RequestTypes, OneClaim, TypeOK
<1> QED BY <1>1, Invariance, PTL

\* SKIP_IF_RUNNING for any number of rows, of overlapping ticks and of
\* requests: the dispatcher looks for runs in flight without a lock, and yet two
\* are in flight only if the sweeper gave one of them up.
THEOREM RunsDoNotOverlap == Spec => []NoOverlap
<1>1. IInv => NoOverlap
  BY DEF IInv
<1> QED BY <1>1, Invariance, PTL

\* Each due time of an active task has one row: what the claim has read is still
\* true when the tick commits, and the commit makes it false.
THEOREM FiresOnce == Spec => FiresOnceWhenDue
<1>1. IInv /\ [Next]_vars =>
          [(\E r \in Runs : run[r] = NoRow /\ run'[r].trigger = "SCHEDULED") => Due /\ ~Due']_vars
  <2> SUFFICES ASSUME IInv, Next, NEW r \in Runs, run[r] = NoRow, run'[r].trigger = "SCHEDULED"
               PROVE  Due /\ ~Due'
    OBVIOUS
  <2> USE DEF IInv, TypeInv
  <2>0. run[r].status = "NONE" /\ run[r].trigger = "none" /\ executor[r] = "idle" /\ r \notin sweep
    BY NewRows DEF FreeRows
  <2>1. CASE \E d \in Ticks : Dispatch(d)
    <3>1. Due
      BY <2>1 DEF Dispatch, Fire, Skip, OneClaim, Unlocked
    <3>2. task' = [task EXCEPT !.next = "future"]
      BY <2>1 DEF Dispatch, Fire, Skip
    <3>3. ~Due'
      BY <3>2 DEF TaskTypes, Due
    <3> QED BY <3>1, <3>3
  <2>2. ASSUME NEW s \in Runs, RunNow(s) PROVE FALSE
    <3>1. run' = [run EXCEPT ![s] = NewRow("QUEUED", "MANUAL_RUN_NOW")]
      BY <2>2 DEF RunNow
    <3>2. NewRow("QUEUED", "MANUAL_RUN_NOW").trigger = "MANUAL_RUN_NOW"
      BY NewRows, StatusNames
    <3> QED BY <2>0, <3>1, <3>2 DEF RowTypes
  <2>3. ASSUME NEW s \in Runs, Ages(s) \/ Forget(s) PROVE FALSE
    BY <2>0, <2>3, StatusNames DEF Ages, Forget, RowTypes
  <2>4. ASSUME NEW s \in Runs, ExecutorStep(s) \/ ExecutorDies(s) PROVE FALSE
    <3>1. executor[s] # "idle"
      BY <2>4 DEF ExecutorStep, ExecutorDies, PickUp, Wake, StartDrive, EndDrive, At
    <3>2. run' = run \/ \E row : run' = [run EXCEPT ![s] = row]
      BY <2>4 DEF ExecutorStep, ExecutorDies, PickUp, Wake, StartDrive, EndDrive, Writes
    <3> QED BY <2>0, <3>1, <3>2 DEF RowTypes
  <2>5. CASE MarkStuck
    BY <2>0, <2>5, SweptRows
  <2>6. CASE UNCHANGED run
    BY <2>0, <2>6
  <2> QED
    BY <2>1, <2>2, <2>3, <2>4, <2>5, <2>6
    DEF Next, BecomesDue, MessageExpires, Claim, DispatcherDies, Ask, Answer, Pause, Resume,
        Edit, Delete, Answered, FindStuck, SweeperDies
<1> QED BY <1>1, Invariance, PTL DEF Spec, FiresOnceWhenDue

\* The end of a run is changed only by a sweep or after one: an executor whose
\* run has ended and that still writes was given up, and what else writes is
\* the sweeper.
THEOREM EndsStand == Spec => EndChangedBySweepOnly
<1>1. IInv /\ [Next]_vars =>
          [\A r \in Runs : /\ run[r].status \in TerminalStatuses
                           /\ run'[r].status \notin {run[r].status, "NONE"}
                           => "STUCK" \in {run[r].error, run'[r].error}]_vars
  <2> SUFFICES ASSUME IInv, Next, NEW r \in Runs, run[r].status \in TerminalStatuses,
                      run'[r].status \notin {run[r].status, "NONE"}
               PROVE  "STUCK" \in {run[r].error, run'[r].error}
    OBVIOUS
  <2> USE DEF IInv, TypeInv
  <2>1. ASSUME NEW s \in Runs, NEW row, Free(s), run' = [run EXCEPT ![s] = row] PROVE FALSE
    BY <2>1, NewRows, StatusNames DEF Free, RowTypes
  <2>2. CASE \E d \in Ticks : Dispatch(d)
    BY <2>1, <2>2 DEF Dispatch, Fire, Skip
  <2>3. CASE \E s \in Runs : RunNow(s)
    BY <2>1, <2>3 DEF RunNow
  <2>4. ASSUME NEW s \in Runs, Ages(s) \/ Forget(s) PROVE FALSE
    BY <2>4, StatusNames, NewRows DEF Ages, Forget, RowTypes
  <2>5. ASSUME NEW s \in Runs, ExecutorStep(s) \/ ExecutorDies(s)
        PROVE  "STUCK" \in {run[r].error, run'[r].error}
    <3>1. run' = run \/ (executor[s] \in Alive /\ \E row : run' = [run EXCEPT ![s] = row])
      BY <2>5 DEF ExecutorStep, ExecutorDies, PickUp, Wake, StartDrive, EndDrive, Writes, At, Alive
    <3>2. s = r /\ executor[r] \in Alive
      BY <3>1 DEF RowTypes
    <3> QED BY <3>2, StatusNames DEF AliveInFlight
  <2>6. CASE MarkStuck
    BY <2>6, SweptRows
  <2>7. CASE UNCHANGED run
    BY <2>7
  <2> QED
    BY <2>2, <2>3, <2>4, <2>5, <2>6, <2>7
    DEF Next, BecomesDue, MessageExpires, Claim, DispatcherDies, Ask, Answer, Pause, Resume,
        Edit, Delete, Answered, FindStuck, SweeperDies
<1> QED BY <1>1, Invariance, PTL DEF Spec, EndChangedBySweepOnly
=============================================================================
