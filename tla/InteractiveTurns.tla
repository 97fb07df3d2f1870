-------------------------- MODULE InteractiveTurns --------------------------
(***************************************************************************)
(* The interactive turns of one Craft (build) session.                     *)
(*                                                                         *)
(* A turn is a record in the cache, with a pointer from the session to its *)
(* active turn; send_message creates it and starts a runner thread, and    *)
(* every attach of a live stream starts another one, on any API pod.       *)
(* claim_turn_for_runner lets one of them have the turn, a heartbeat keeps *)
(* it, and a turn whose heartbeat is stale is claimed again.  The changes  *)
(* of turns are made under the session's active-turn lock, but readers use *)
(* get_active_turn without it, and get_active_turn deletes.  A second      *)
(* lock, the prompt slot, keeps two prompts from running at once, and a    *)
(* fence asks the running turn to stop.                                    *)
(*                                                                         *)
(* Left out: a critical section that outlives the 60 second lease of the   *)
(* lock, a cache that is unreachable, and the cache losing data.           *)
(***************************************************************************)
EXTENDS Integers, FiniteSets

CONSTANTS
    Runners,    \* runner threads, on all pods
    Readers,    \* requests that call get_active_turn without the lock
    MaxTurns,   \* bound: turns sent; turn n is the n-th one
    MaxStops,   \* bound: interrupts requested
    Events,     \* the kinds of trouble a behaviour may contain
    MaxEvents   \* bound: how many of them

EventKinds == {"crash", "busy", "stall", "commit_error", "start_error", "agent_error"}
Sender == [sender |-> TRUE]
Nobody == [none |-> TRUE]
Dead == [dead |-> TRUE]      \* the lock of a pod that died

ASSUME ConstantsAssumption ==
    /\ Sender \notin Runners /\ Nobody \notin Runners /\ Dead \notin Runners
    /\ MaxTurns \in Nat /\ MaxStops \in Nat
    /\ Events \subseteq EventKinds /\ MaxEvents \in Nat

VARIABLES
    \* The cache
    turn,    \* turn n: its status, runner_id and whether its heartbeat is stale
    active,  \* the session's active-turn pointer, or NoTurn
    lock,    \* the session's active-turn lock: its holder, Nobody or Dead
    slot,    \* the prompt slot of the session: its holder, Nobody or Dead
    fence,   \* the interrupt fence
    \* Processes
    runner, sender, reader,
    sent,    \* turns created
    asked,   \* turns that were active when an interrupt was requested
    raced,   \* a reader has deleted the pointer to an active turn
    stops,   \* interrupts requested
    spent    \* how many Events have happened

cache == <<turn, active, lock, slot, fence>>
history == <<asked, raced, stops>>
vars == <<cache, runner, sender, reader, sent, history, spent>>

-----------------------------------------------------------------------------
Turns == 1..MaxTurns
NoTurn == 0
Idle == [pc |-> "idle"]

Terminal == {"SUCCEEDED", "FAILED", "CANCELLED"}
Statuses == {"QUEUED", "RUNNING", "EXPIRED"} \union Terminal
Turn(s, r, old) == [status |-> s, runner |-> r, stale |-> old]

\* InteractiveTurn.is_active; a turn whose key has expired is not found
IsActive(t) == turn[t].status \in {"QUEUED", "RUNNING"}

\* Mutant: a turn no runner has claimed yet does not count
BusyIfRunning == active # NoTurn /\ turn[active].status = "RUNNING"
\* Does get_active_turn find a turn?
Busy == active # NoTurn /\ IsActive(active)

\* Mutant: the status is not checked again under the lock
ClaimableIfKnown(t) ==
    turn[t].status # "EXPIRED" /\ (turn[t].status = "RUNNING" => turn[t].stale)
\* What claim_turn_for_runner requires, under the lock
Claimable(t) == IsActive(t) /\ (turn[t].status = "RUNNING" => turn[t].stale)

\* Mutant: finish_turn does not compare the runner
OwnedByAnyone(r, t) == TRUE
\* The runner_id of the turn is the caller's
Owns(r, t) == turn[t].runner = r

\* Mutant: the keys of a turn are saved without a time to live
NeverForgotten(t) == FALSE
\* Nobody has touched the turn for ACTIVE_TURN_TTL_SECONDS: no runner has it,
\* or its runner died or gave up
Forgotten(t) ==
    /\ IsActive(t)
    /\ turn[t].stale
    /\ \A r \in Runners : runner[r] # Idle => runner[r].turn # t

Happens(kind) == kind \in Events /\ spent < MaxEvents /\ spent' = spent + 1
NothingHappens == UNCHANGED spent

Run(r, rec) == runner' = [runner EXCEPT ![r] = rec]
At(r, pc) == runner[r].pc = pc
Goto(r, pc) == Run(r, [runner[r] EXCEPT !.pc = pc])
Finish(r, result) == Run(r, [runner[r] EXCEPT !.pc = "finish", !.result = result])
End(r) == Run(r, Idle)

\* Mutant: the slot is kept by a thread that is gone
SlotKept(r) == slot
\* prompt_slot_cm.__exit__
SlotReleased(r) == IF slot = r THEN Nobody ELSE slot

Init ==
    /\ turn = [t \in Turns |-> Turn("EXPIRED", Nobody, FALSE)]
    /\ active = NoTurn /\ lock = Nobody /\ slot = Nobody /\ fence = FALSE
    /\ runner = [r \in Runners |-> Idle] /\ sender = Idle
    /\ reader = [d \in Readers |-> Idle]
    /\ sent = 0 /\ asked = {} /\ raced = FALSE /\ stops = 0 /\ spent = 0

-----------------------------------------------------------------------------
(***************************************************************************)
(* send_message.  A request sent again finds its turn by                   *)
(* client_request_id and changes nothing.                                  *)
(***************************************************************************)
\* Under the lock: no active turn, then the turn and the pointer to it
SendCreate ==
    /\ sender = Idle /\ lock = Nobody /\ sent < MaxTurns
    /\ ~Busy
    /\ lock' = Sender
    /\ sent' = sent + 1
    /\ turn' = [turn EXCEPT ![sent + 1] = Turn("QUEUED", Nobody, FALSE)]
    /\ active' = sent + 1
    /\ sender' = [pc |-> "commit"]
    /\ UNCHANGED <<slot, fence, runner, reader, history, spent>>

\* The user message is committed, the lock released and a runner started;
\* without one (also when the model has no thread left) the turn waits for an
\* attach
SendCommit(r) ==
    /\ sender.pc = "commit"
    /\ \/ /\ runner[r] = Idle /\ NothingHappens
          /\ Run(r, [pc |-> "claim", turn |-> sent, result |-> "none"])
          /\ sender' = Idle
       \/ /\ IF \E q \in Runners : runner[q] = Idle THEN Happens("start_error") ELSE NothingHappens
          /\ sender' = Idle /\ UNCHANGED runner
       \/ Happens("commit_error") /\ sender' = [pc |-> "fail"] /\ UNCHANGED runner
    /\ lock' = Nobody
    /\ UNCHANGED <<turn, active, slot, fence, reader, sent, history>>

\* finish_turn without a runner_id, after the lock was released.  It gives up
\* when the lock stays taken, which leaves the turn as it is; the failed commit
\* is the trouble that is counted
SendFail ==
    /\ sender.pc = "fail"
    /\ \/ /\ lock = Nobody
          /\ turn' = [turn EXCEPT ![sent] =
                          IF @.status = "EXPIRED" THEN @ ELSE Turn("FAILED", Nobody, FALSE)]
          /\ active' = IF active = sent THEN NoTurn ELSE active
       \/ /\ lock # Nobody /\ "busy" \in Events
          /\ UNCHANGED <<turn, active>>
    /\ sender' = Idle
    /\ UNCHANGED <<lock, slot, fence, runner, reader, sent, history, spent>>

-----------------------------------------------------------------------------
(***************************************************************************)
(* The other requests.                                                     *)
(***************************************************************************)
\* get_interactive_turn_events starts a runner for the active turn
Attach(r) ==
    /\ runner[r] = Idle /\ Busy
    /\ Run(r, [pc |-> "claim", turn |-> active, result |-> "none"])
    /\ UNCHANGED <<cache, sender, reader, sent, history, spent>>

\* interrupt_message sets the fence, whether or not a turn is running
Stop ==
    /\ stops < MaxStops /\ stops' = stops + 1
    /\ fence' = TRUE
    /\ asked' = asked \union {t \in Turns : IsActive(t)}
    /\ UNCHANGED <<turn, active, lock, slot, runner, sender, reader, sent, raced, spent>>

\* get_active_turn: the pointer, then the turn, then the deletion of a
\* pointer to a turn that has ended
ReadPointer(d) ==
    /\ reader[d] = Idle /\ active # NoTurn
    /\ reader' = [reader EXCEPT ![d] = [pc |-> "read", turn |-> active]]
    /\ UNCHANGED <<cache, runner, sender, sent, history, spent>>

ReadTurn(d) ==
    /\ reader[d].pc = "read"
    /\ reader' = [reader EXCEPT ![d] = IF IsActive(@.turn) THEN Idle ELSE [@ EXCEPT !.pc = "delete"]]
    /\ UNCHANGED <<cache, runner, sender, sent, history, spent>>

ReadDelete(d) ==
    /\ reader[d].pc = "delete"
    /\ active' = NoTurn
    /\ raced' = (raced \/ Busy)
    /\ reader' = [reader EXCEPT ![d] = Idle]
    /\ UNCHANGED <<turn, lock, slot, fence, runner, sender, sent, asked, stops, spent>>

-----------------------------------------------------------------------------
(***************************************************************************)
(* Time.                                                                   *)
(***************************************************************************)
\* RUNNER_STALE_AFTER_SECONDS without a heartbeat: nothing touches a turn
\* that nobody runs; a runner touches it in time unless it stalls, which it
\* may do while ensure_sandbox_running waits.  A queued turn is claimed
\* whatever its age; it ages towards its time to live.
GoStale(t) ==
    /\ IsActive(t) /\ ~turn[t].stale
    /\ IF \E r \in Runners : runner[r].pc \notin {"idle", "claim"} /\ Owns(r, t)
       THEN Happens("stall") ELSE NothingHappens
    /\ turn' = [turn EXCEPT ![t].stale = TRUE]
    /\ UNCHANGED <<active, lock, slot, fence, runner, sender, reader, sent, history>>

\* The turn and the pointer to it were last saved together
TurnExpires(t) ==
    /\ Forgotten(t)
    /\ sender = Idle
    /\ turn' = [turn EXCEPT ![t] = Turn("EXPIRED", Nobody, FALSE)]
    /\ active' = IF active = t THEN NoTurn ELSE active
    /\ UNCHANGED <<lock, slot, fence, runner, sender, reader, sent, history, spent>>

\* The locks of a pod that died
LockExpires ==
    /\ lock = Dead /\ lock' = Nobody
    /\ UNCHANGED <<turn, active, slot, fence, runner, sender, reader, sent, history, spent>>

SlotExpires ==
    /\ slot = Dead /\ slot' = Nobody
    /\ UNCHANGED <<turn, active, lock, fence, runner, sender, reader, sent, history, spent>>

\* FENCE_TTL; a runner that streams looks every second
FenceExpires ==
    /\ fence /\ \A r \in Runners : ~At(r, "stream")
    /\ fence' = FALSE
    /\ UNCHANGED <<turn, active, lock, slot, runner, sender, reader, sent, history, spent>>

-----------------------------------------------------------------------------
(***************************************************************************)
(* A runner: claim, wake the sandbox, take the slot, stream, finish.  Its  *)
(* calls give up when the lock stays taken for TURN_LOCK_WAIT_SECONDS.     *)
(***************************************************************************)
GivesUp == lock # Nobody /\ Happens("busy")

Claim(r) ==
    /\ At(r, "claim")
    /\ LET t == runner[r].turn IN
       \/ /\ lock = Nobody /\ Claimable(t)
          /\ turn' = [turn EXCEPT ![t] = Turn("RUNNING", r, FALSE)]
          /\ active' = t
          /\ Goto(r, "wake") /\ NothingHappens
       \/ /\ lock = Nobody /\ ~Claimable(t)
          /\ End(r) /\ NothingHappens /\ UNCHANGED <<turn, active>>
       \/ GivesUp /\ End(r) /\ UNCHANGED <<turn, active>>
    /\ UNCHANGED <<lock, slot, fence, sender, reader, sent, history>>

\* ensure_sandbox_running takes minutes and does not touch the turn
Wake(r) ==
    /\ At(r, "wake")
    /\ \/ Run(r, [runner[r] EXCEPT !.pc = "touch", !.result = "slot"]) /\ NothingHappens
       \/ Happens("agent_error") /\ Finish(r, "FAILED")
    /\ UNCHANGED <<cache, sender, reader, sent, history>>

\* touch_turn, and what the runner goes on to do; False means that the
\* ownership is lost, also when the lock was not to be had
Touch(r) ==
    /\ At(r, "touch")
    /\ LET t == runner[r].turn  next == runner[r].result IN
       \/ /\ lock = Nobody /\ IsActive(t) /\ Owns(r, t)
          /\ turn' = [turn EXCEPT ![t].stale = FALSE]
          /\ IF next \in Terminal THEN Finish(r, next) ELSE Goto(r, next)
          /\ NothingHappens
       \/ /\ lock = Nobody /\ ~(IsActive(t) /\ Owns(r, t))
          /\ Goto(r, "leave") /\ NothingHappens /\ UNCHANGED turn
       \/ GivesUp /\ Goto(r, "leave") /\ UNCHANGED turn
    /\ UNCHANGED <<active, lock, slot, fence, sender, reader, sent, history>>

\* prompt_slot waits for a while; refused, the turn fails without side effects
TakeSlot(r) ==
    /\ At(r, "slot")
    /\ IF slot = Nobody THEN slot' = r /\ Goto(r, "check")
                        ELSE Finish(r, "FAILED") /\ UNCHANGED slot
    /\ UNCHANGED <<turn, active, lock, fence, sender, reader, sent, history, spent>>

\* An interrupt from before the prompt
Check(r) ==
    /\ At(r, "check")
    /\ IF fence THEN Finish(r, "CANCELLED") ELSE Goto(r, "stream")
    /\ UNCHANGED <<cache, sender, reader, sent, history, spent>>

\* An event of the agent: more output, the final response, an error or the
\* answer to an interrupt.  Each one is preceded by a touch; the budget ends
\* the turn without one
Stream(r) ==
    /\ At(r, "stream")
    /\ \/ \E next \in {"stream", "SUCCEEDED", "FAILED"} \union (IF fence THEN {"CANCELLED"} ELSE {}) :
              Run(r, [runner[r] EXCEPT !.pc = "touch", !.result = next])
       \/ Finish(r, "FAILED")
    /\ UNCHANGED <<cache, sender, reader, sent, history, spent>>

\* finish_turn saves the turn, then removes the pointer to it
FinishSave(r) ==
    /\ At(r, "finish")
    /\ LET t == runner[r].turn IN
       \/ /\ lock = Nobody /\ turn[t].status # "EXPIRED" /\ Owns(r, t)
          /\ turn' = [turn EXCEPT ![t] = Turn(runner[r].result, Nobody, FALSE)]
          /\ lock' = r
          /\ Goto(r, "unpoint") /\ NothingHappens
       \/ /\ lock = Nobody /\ ~(turn[t].status # "EXPIRED" /\ Owns(r, t))
          /\ Goto(r, "leave") /\ NothingHappens /\ UNCHANGED <<turn, lock>>
       \/ GivesUp /\ Goto(r, "leave") /\ UNCHANGED <<turn, lock>>
    /\ UNCHANGED <<active, slot, fence, sender, reader, sent, history>>

FinishUnpoint(r) ==
    /\ At(r, "unpoint")
    /\ active' = IF active = runner[r].turn THEN NoTurn ELSE active
    /\ lock' = Nobody
    /\ Goto(r, "leave")
    /\ UNCHANGED <<turn, slot, fence, sender, reader, sent, history, spent>>

\* The finally clause: _can_clear_interrupt_fence asks get_active_turn, which
\* removes a pointer to a turn that has ended
Leave(r) ==
    /\ At(r, "leave")
    /\ IF slot = r
       THEN /\ active' = IF Busy THEN active ELSE NoTurn
            /\ IF Busy => active = runner[r].turn /\ Owns(r, active)
               THEN Goto(r, "clear") /\ UNCHANGED slot
               ELSE End(r) /\ slot' = SlotReleased(r)
       ELSE End(r) /\ UNCHANGED <<active, slot>>
    /\ UNCHANGED <<turn, lock, fence, sender, reader, sent, history, spent>>

\* clear_interrupt and the release of the slot
Clear(r) ==
    /\ At(r, "clear")
    /\ fence' = FALSE
    /\ slot' = SlotReleased(r)
    /\ End(r)
    /\ UNCHANGED <<turn, active, lock, sender, reader, sent, history, spent>>

\* The pod dies; its locks stay until their leases end
Crash(r) ==
    /\ runner[r] # Idle /\ Happens("crash")
    /\ End(r)
    /\ lock' = IF lock = r THEN Dead ELSE lock
    /\ slot' = IF slot = r THEN Dead ELSE slot
    /\ UNCHANGED <<turn, active, fence, sender, reader, sent, history>>

-----------------------------------------------------------------------------
SenderStep == SendCreate \/ SendFail \/ \E r \in Runners : SendCommit(r)
ReaderStep(d) == ReadPointer(d) \/ ReadTurn(d) \/ ReadDelete(d)
RunnerStep(r) ==
    \/ Claim(r) \/ Wake(r) \/ Touch(r) \/ TakeSlot(r) \/ Check(r) \/ Stream(r)
    \/ FinishSave(r) \/ FinishUnpoint(r) \/ Leave(r) \/ Clear(r)

Next ==
    \/ SenderStep \/ Stop
    \/ \E d \in Readers : ReaderStep(d)
    \/ \E t \in Turns : GoStale(t) \/ TurnExpires(t)
    \/ LockExpires \/ SlotExpires \/ FenceExpires
    \/ \E r \in Runners : RunnerStep(r) \/ Attach(r) \/ Crash(r)

Spec == Init /\ [][Next]_vars

\* Threads run and get a lock that is released again and again, a stream ends
\* within its budget, keys have times to live; nobody has to attach or to read
Fairness ==
    /\ WF_vars(SenderStep) /\ WF_vars(LockExpires)
    /\ \A r \in Runners :
        /\ SF_vars(RunnerStep(r))
        /\ SF_vars(At(r, "stream") /\ Stream(r) /\ runner'[r].pc = "finish")
    /\ \A t \in Turns : WF_vars(GoStale(t) \/ TurnExpires(t))

FairSpec == Spec /\ Fairness

-----------------------------------------------------------------------------
Pcs == {"claim", "wake", "touch", "slot", "check", "stream", "finish", "unpoint",
        "leave", "clear"}

\* Types, and: only the runner that has the slot talks to the agent.
TypeOK ==
    /\ turn \in [Turns -> [status : Statuses, runner : Runners \union {Nobody},
                           stale : BOOLEAN]]
    /\ active \in Turns \union {NoTurn}
    /\ lock \in Runners \union {Sender, Nobody, Dead}
    /\ slot \in Runners \union {Nobody, Dead}
    /\ fence \in BOOLEAN /\ raced \in BOOLEAN /\ asked \subseteq Turns
    /\ \A r \in Runners : runner[r] = Idle \/ runner[r].pc \in Pcs
    /\ \A r \in Runners : slot = r => runner[r] # Idle
    /\ \A r \in Runners : At(r, "stream") => slot = r

\* One active turn per session, through claims, reclaims, failures and
\* expiries, as long as no unlocked reader removed the pointer to a turn that
\* was sent while it looked at the one before.
OneActiveTurn ==
    ~raced => \A t \in Turns : IsActive(t) => active = t

\* A turn that is running is ended by the runner it belongs to (or by the
\* send_message that could not commit it), never by one it was taken from.
EndedByOwner ==
    [][\A t \in Turns :
        turn[t].status = "RUNNING" /\ turn'[t].status \in Terminal =>
            \/ sender.pc = "fail"
            \/ \E r \in Runners : At(r, "finish") /\ runner[r].turn = t /\ turn[t].runner = r]_vars

\* A turn that has ended stays ended, however many runners were started for it.
EndedStaysEnded ==
    [][\A t \in Turns : turn[t].status \in Terminal =>
            turn'[t].status \in Terminal]_vars

\* Every turn ends or is forgotten: a runner that dies, gives up or is never
\* started does not block the session for good.
TurnsEnd == \A t \in Turns : IsActive(t) ~> ~IsActive(t)

\* clear_interrupt is "called at the start and end of each turn", so that a
\* turn is cancelled only by an interrupt requested while it was active.
CancelledWasAsked ==
    \A t \in Turns : turn[t].status = "CANCELLED" => t \in asked

=============================================================================
