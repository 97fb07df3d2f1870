---------------------------- MODULE ScheduledRuns ----------------------------
(***************************************************************************)
(* One scheduled task of the build feature and its runs: the row of        *)
(* scheduled_task, the rows of scheduled_task_run, and the processes that  *)
(* write them.  The dispatcher (a tick every 30 s, ticks may overlap)      *)
(* claims the due task with FOR UPDATE SKIP LOCKED and inserts a QUEUED or *)
(* SKIPPED run; the executor takes the message of a run, wakes the         *)
(* sandbox, which takes minutes, and drives the agent; the sweeper (hourly)*)
(* fails runs that are too old; the user's requests edit the task.         *)
(*                                                                         *)
(* Messages are acknowledged early and never sent again.  Nobody looks at  *)
(* the status of a run when writing it: the executor did so once, before   *)
(* it woke the sandbox, and the sweeper when it selected its rows.         *)
(***************************************************************************)
EXTENDS Integers, FiniteSets

CONSTANTS
    NumRuns,     \* bound: rows of scheduled_task_run at a time
    NumTicks,    \* bound: ticks of the dispatcher under way at a time
    Requests,    \* requests of the user under way at a time
    MaxRequests, \* bound: requests, Run Now included
    Events,      \* the kinds of trouble a behaviour may contain
    MaxEvents    \* bound: how many of them

EventKinds == {"crash", "send_error", "wake_error", "session_error", "approval"}

ASSUME ConstantsAssumption ==
    /\ NumRuns \in Nat /\ NumTicks \in Nat /\ IsFiniteSet(Requests)
    /\ MaxRequests \in Nat /\ MaxEvents \in Nat
    /\ Events \subseteq EventKinds

VARIABLES
    task,     \* the row of the task; next: next_run_at, "none" for NULL
    run,      \* the rows of its runs; age: time since started_at
    executor, \* of each run: its message or how far its executor is
    tick,     \* what each tick of the dispatcher has read
    sweep,    \* the rows the sweeper has selected
    request,  \* the user's requests between read and write
    asked,    \* how many requests there have been
    spent     \* how many Events have happened

vars == <<task, run, executor, tick, sweep, request, asked, spent>>

-----------------------------------------------------------------------------
Runs == 1..NumRuns
Ticks == 1..NumTicks

NoRow == [status |-> "NONE", trigger |-> "none", error |-> "none", age |-> 0]
NewRow(status, trigger) ==
    [status |-> status, trigger |-> trigger, error |-> "none", age |-> 0]

\* error_class is kept by a status written without one, finished_at likewise
Marked(row, status) == [row EXCEPT !.status = status]
Failed(row, class) == [row EXCEPT !.status = "FAILED", !.error = class]

\* Rows and ticks are interchangeable, the first free one is taken
Free(r) == run[r] = NoRow /\ \A s \in 1..(r - 1) : run[s] # NoRow
Idle(d) == tick[d] = "idle" /\ \A e \in 1..(d - 1) : tick[e] # "idle"

TerminalStatuses == {"SUCCEEDED", "FAILED", "SKIPPED"}

\* Mutant: only running runs count
InFlightRunningOnly == {"RUNNING"}
\* has_in_flight_run_for_task
InFlightStatuses == {"QUEUED", "RUNNING"}

\* Mutant: the sweeper overlooks runs nobody picked up
StuckRunningOnly(row) == row.status = "RUNNING" /\ row.age = 2
\* find_stuck_runs.  Age 1 is more than 15 minutes, age 2 more than 45, both
\* since the row was inserted; nothing distinguishes a higher age
Stuck(row) ==
    \/ row.status = "QUEUED" /\ row.age >= 1
    \/ row.status = "RUNNING" /\ row.age = 2

\* Mutant: the rows are read without locking them
UnlockedAlways == TRUE
\* The row lock of the claim, held until its transaction ends
Unlocked == \A d \in Ticks : tick[d] = "idle"
\* Mutant: FOR SHARE, a lock that several ticks may hold together
NotLockedExclusively == TRUE
\* SKIP LOCKED: what another tick has locked is not claimed
NotSkipped == Unlocked

\* Mutant: the early return after a failed wake-up is missing
AfterFailedWakeGoOn == "woken"
AfterFailedWake == "idle"

Active == task.status = "ACTIVE" /\ ~task.deleted
Due == Active /\ task.next = "due"

Happens(kind) == kind \in Events /\ spent < MaxEvents /\ spent' = spent + 1
NothingHappens == UNCHANGED spent

-----------------------------------------------------------------------------
\* create_scheduled_task: a paused task has no next_run_at
Init ==
    /\ task \in {[status |-> "ACTIVE", deleted |-> FALSE, next |-> "future"],
                 [status |-> "PAUSED", deleted |-> FALSE, next |-> "none"]}
    /\ run = [r \in Runs |-> NoRow]
    /\ executor = [r \in Runs |-> "idle"]
    /\ tick = [d \in Ticks |-> "idle"]
    /\ sweep = {}
    /\ request = [a \in Requests |-> [op |-> "none"]]
    /\ asked = 0 /\ spent = 0

-----------------------------------------------------------------------------
\* Time

BecomesDue ==
    /\ task.next = "future"
    /\ task' = [task EXCEPT !.next = "due"]
    /\ UNCHANGED <<run, executor, tick, sweep, request, asked, spent>>

\* Towards the cutoffs of find_stuck_runs; bound: age 2
Ages(r) ==
    /\ run[r].status \in {"QUEUED", "RUNNING"} /\ run[r].age < 2
    /\ run' = [run EXCEPT ![r].age = @ + 1]
    /\ UNCHANGED <<task, executor, tick, sweep, request, asked, spent>>

\* The message was sent after the row was inserted and expires in 15 minutes
MessageExpires(r) ==
    /\ executor[r] = "sent" /\ run[r].age >= 1
    /\ executor' = [executor EXCEPT ![r] = "idle"]
    /\ UNCHANGED <<task, run, tick, sweep, request, asked, spent>>

\* History is read by nobody here: a finished row that no process holds makes
\* room for another
Forget(r) ==
    /\ run[r].status \in TerminalStatuses
    /\ executor[r] = "idle" /\ r \notin sweep
    /\ run' = [run EXCEPT ![r] = NoRow]
    /\ UNCHANGED <<task, executor, tick, sweep, request, asked, spent>>

-----------------------------------------------------------------------------
\* The dispatcher

\* The claim locks the row if it is still due and skips it if it is locked;
\* then runs in flight are looked for, without a lock
Claim(d) ==
    /\ Idle(d) /\ NotSkipped /\ Due
    /\ tick' = [tick EXCEPT ![d] =
           IF \E r \in Runs : run[r].status \in InFlightStatuses THEN "skip" ELSE "fire"]
    /\ UNCHANGED <<task, run, executor, sweep, request, asked, spent>>

\* Sent after the commit, which a crash or an error of the broker may prevent
Send(r) ==
    \/ NothingHappens /\ executor' = [executor EXCEPT ![r] = "sent"]
    \/ Happens("send_error") /\ UNCHANGED executor

\* The run, its trigger and next_run_at are committed together
Fire(d, r) ==
    /\ tick[d] = "fire" /\ Free(r)
    /\ run' = [run EXCEPT ![r] = NewRow("QUEUED", "SCHEDULED")]
    /\ task' = [task EXCEPT !.next = "future"]
    /\ tick' = [tick EXCEPT ![d] = "idle"]
    /\ Send(r)
    /\ UNCHANGED <<sweep, request, asked>>

Skip(d, r) ==
    /\ tick[d] = "skip" /\ Free(r)
    /\ run' = [run EXCEPT ![r] = NewRow("SKIPPED", "SCHEDULED")]
    /\ task' = [task EXCEPT !.next = "future"]
    /\ tick' = [tick EXCEPT ![d] = "idle"]
    /\ UNCHANGED <<executor, sweep, request, asked, spent>>

\* Also: a statement fails.  The loop logs it and goes on to the next task, but
\* nothing of a transaction with a failed statement is committed; the lock goes
\* with it.  (compute_next_run_at does not raise here: a schedule without a
\* future time is refused when the task becomes active.)
DispatcherDies(d) ==
    /\ tick[d] # "idle" /\ Happens("crash")
    /\ tick' = [tick EXCEPT ![d] = "idle"]
    /\ UNCHANGED <<task, run, executor, sweep, request, asked>>

-----------------------------------------------------------------------------
\* The user's requests.  An update of the row waits for the lock of a claim, as
\* does the insertion of a run that refers to it.

\* run_now, and create_task with run_immediately
RunNow(r) ==
    /\ asked < MaxRequests /\ asked' = asked + 1
    /\ ~task.deleted /\ Unlocked /\ Free(r)
    /\ run' = [run EXCEPT ![r] = NewRow("QUEUED", "MANUAL_RUN_NOW")]
    /\ Send(r)
    /\ UNCHANGED <<task, tick, sweep, request>>

\* Requests that find the task in the status they ask for, and edits of a
\* paused one, change nothing modelled here
Ask(a) ==
    /\ request[a].op = "none" /\ asked < MaxRequests /\ asked' = asked + 1
    /\ ~task.deleted
    /\ \E op \in IF task.status = "ACTIVE" THEN {"pause", "edit", "delete"}
                                           ELSE {"resume", "delete"} :
           request' = [request EXCEPT ![a] = [op |-> op, read |-> task.next]]
    /\ UNCHANGED <<task, run, executor, tick, sweep, spent>>

\* The session writes next_run_at only if it differs from what was read; a
\* time computed anew may be the one that was read
NextWritten(read, next) ==
    CASE read # next -> {next}
      [] read = "none" /\ next = "none" -> {task.next}
      [] OTHER -> {next, task.next}

Answered(a) ==
    /\ request' = [request EXCEPT ![a] = [op |-> "none"]]
    /\ UNCHANGED <<run, executor, tick, sweep, asked, spent>>

Pause(a) ==
    /\ request[a].op = "pause" /\ Unlocked
    /\ \E next \in NextWritten(request[a].read, "none") :
           task' = [task EXCEPT !.status = "PAUSED", !.next = next]
    /\ Answered(a)

Resume(a) ==
    /\ request[a].op = "resume" /\ Unlocked
    /\ \E next \in NextWritten(request[a].read, "future") :
           task' = [task EXCEPT !.status = "ACTIVE", !.next = next]
    /\ Answered(a)

\* Another cron expression
Edit(a) ==
    /\ request[a].op = "edit" /\ Unlocked
    /\ \E next \in NextWritten(request[a].read, "future") :
           task' = [task EXCEPT !.next = next]
    /\ Answered(a)

Delete(a) ==
    /\ request[a].op = "delete" /\ Unlocked
    /\ \E next \in NextWritten(request[a].read, "none") :
           task' = [task EXCEPT !.deleted = TRUE, !.next = next]
    /\ Answered(a)

Answer(a) == Pause(a) \/ Resume(a) \/ Edit(a) \/ Delete(a)

-----------------------------------------------------------------------------
\* The executor

At(r, pc) == executor[r] = pc
Goes(r, pc) == executor' = [executor EXCEPT ![r] = pc]
Writes(r, row) == run' = [run EXCEPT ![r] = row]
Elsewhere == UNCHANGED <<task, tick, sweep, request, asked>>

\* The only look at the status; a task deleted meanwhile is run all the same
PickUp(r) ==
    /\ At(r, "sent") /\ Goes(r, IF run[r].status = "QUEUED" THEN "waking" ELSE "idle")
    /\ NothingHappens /\ UNCHANGED run /\ Elsewhere

\* ensure_sandbox_running takes minutes, then the status is overwritten
Wake(r) ==
    /\ At(r, "waking")
    /\ \/ NothingHappens /\ Writes(r, Marked(run[r], "RUNNING")) /\ Goes(r, "woken")
       \/ /\ Happens("wake_error") /\ Writes(r, Failed(run[r], "other"))
          /\ Goes(r, AfterFailedWake)
    /\ Elsewhere

\* _drive_agent: RUNNING again, with the session.  What fails before the agent
\* is driven is recorded if the run is not terminal by then
StartDrive(r) ==
    /\ At(r, "woken")
    /\ \/ NothingHappens /\ Writes(r, Marked(run[r], "RUNNING")) /\ Goes(r, "driving")
       \/ /\ Happens("session_error") /\ Goes(r, "idle")
          /\ IF run[r].status \in TerminalStatuses
             THEN UNCHANGED run
             ELSE Writes(r, Failed(run[r], "other"))
    /\ Elsewhere

\* A busy prompt slot, errors, cancellation, an incomplete stream and the budget
\* all end as FAILED
EndDrive(r) ==
    /\ At(r, "driving") /\ Goes(r, "idle")
    /\ \/ NothingHappens /\ Writes(r, Marked(run[r], "SUCCEEDED"))
       \/ NothingHappens /\ Writes(r, Failed(run[r], "other"))
       \/ Happens("approval") /\ Writes(r, Marked(run[r], "AWAITING_APPROVAL"))
    /\ Elsewhere

\* Also: an error that keeps the executor from recording its failure
ExecutorDies(r) ==
    /\ executor[r] \in {"waking", "woken", "driving"} /\ Happens("crash")
    /\ Goes(r, "idle")
    /\ UNCHANGED run /\ Elsewhere

-----------------------------------------------------------------------------
\* The sweeper

FindStuck ==
    /\ sweep = {}
    /\ sweep' = {r \in Runs : Stuck(run[r])}
    /\ sweep' # {}
    /\ UNCHANGED <<task, run, executor, tick, request, asked, spent>>

MarkStuck ==
    /\ sweep # {} /\ sweep' = {}
    /\ run' = [r \in Runs |-> IF r \in sweep THEN Failed(run[r], "STUCK") ELSE run[r]]
    /\ UNCHANGED <<task, executor, tick, request, asked, spent>>

SweeperDies ==
    /\ sweep # {} /\ sweep' = {} /\ Happens("crash")
    /\ UNCHANGED <<task, run, executor, tick, request, asked>>

-----------------------------------------------------------------------------
Dispatch(d) == \E r \in Runs : Fire(d, r) \/ Skip(d, r)
ExecutorStep(r) == PickUp(r) \/ Wake(r) \/ StartDrive(r) \/ EndDrive(r)

Next ==
    \/ BecomesDue
    \/ \E r \in Runs : Ages(r) \/ MessageExpires(r) \/ Forget(r)
    \/ \E d \in Ticks : Claim(d) \/ Dispatch(d) \/ DispatcherDies(d)
    \/ \E r \in Runs : RunNow(r) \/ ExecutorStep(r) \/ ExecutorDies(r)
    \/ \E a \in Requests : Ask(a) \/ Answer(a)
    \/ FindStuck \/ MarkStuck \/ SweeperDies

Spec == Init /\ [][Next]_vars

\* Time passes, the dispatcher and the sweeper are periodic, the turns of the
\* agent have a timeout; nobody need take a message
Fairness ==
    /\ WF_vars(BecomesDue) /\ WF_vars(\E d \in Ticks : Claim(d))
    /\ \A d \in Ticks : WF_vars(Dispatch(d))
    /\ \A r \in Runs : /\ WF_vars(Ages(r)) /\ WF_vars(MessageExpires(r)) /\ WF_vars(Forget(r))
                       /\ WF_vars(Wake(r)) /\ WF_vars(StartDrive(r)) /\ WF_vars(EndDrive(r))
    /\ WF_vars(FindStuck) /\ WF_vars(MarkStuck)

FairSpec == Spec /\ Fairness

-----------------------------------------------------------------------------
Statuses == InFlightStatuses \union TerminalStatuses \union {"AWAITING_APPROVAL"}

\* Types, and: one tick at most has the task claimed, and what it claimed stays
\* due until it is dispatched.
TypeOK ==
    /\ task \in [status : {"ACTIVE", "PAUSED"}, deleted : BOOLEAN,
                 next : {"none", "future", "due"}]
    /\ \A r \in Runs : run[r] = NoRow \/
           run[r] \in [status : Statuses, trigger : {"SCHEDULED", "MANUAL_RUN_NOW"},
                       error : {"none", "other", "STUCK"}, age : 0..2]
    /\ executor \in [Runs -> {"idle", "sent", "waking", "woken", "driving"}]
    /\ tick \in [Ticks -> {"idle", "fire", "skip"}]
    /\ sweep \subseteq Runs
    /\ \A a \in Requests : request[a].op \in {"none", "pause", "resume", "edit", "delete"}
    /\ asked \in 0..MaxRequests /\ spent \in 0..MaxEvents
    /\ \A d, e \in Ticks : tick[d] # "idle" /\ tick[e] # "idle" => d = e
    /\ ~Unlocked => Due

\* The schedule inserts a row only for a task that is due, active and not
\* deleted at that moment, and each due time has one row: overlapping ticks do
\* not fire twice, a pause, an edit or a deletion does not come in between the
\* claim and the commit.
FiresOnceWhenDue ==
    [][(\E r \in Runs : run[r] = NoRow /\ run'[r].trigger = "SCHEDULED")
           => Due /\ ~Due']_vars

\* SKIP_IF_RUNNING: two runs of the schedule are in flight together only if the
\* sweeper had given up one of them while its executor was still alive.
NoOverlap ==
    \A r, s \in Runs :
        /\ r # s
        /\ run[r].trigger = "SCHEDULED" /\ run[s].trigger = "SCHEDULED"
        /\ run[r].status \in InFlightStatuses /\ run[s].status \in InFlightStatuses
        => "STUCK" \in {run[r].error, run[s].error}

\* The end of a run is changed in two ways alone: by the executor of a run the
\* sweeper gave up, or by a sweep that had selected the run before its end.
EndChangedBySweepOnly ==
    [][\A r \in Runs :
           /\ run[r].status \in TerminalStatuses
           /\ run'[r].status \notin {run[r].status, "NONE"}
           => "STUCK" \in {run[r].error, run'[r].error}]_vars

\* A task that remains active is fired again and again: no earlier run, dead,
\* lost, stuck or waiting for an approval that never comes, makes the
\* dispatcher skip for ever.
ScheduleGoesOn ==
    []<>~Active \/ []<><<\E d \in Ticks, r \in Runs : Fire(d, r)>>_vars

\* "Terminal statuses produce no further state transitions in V1"
\* (ScheduledTaskRunStatus.is_terminal).
EndIsFinal ==
    [][\A r \in Runs : run[r].status \in TerminalStatuses
           => run'[r].status \in {run[r].status, "NONE"}]_vars

=============================================================================
