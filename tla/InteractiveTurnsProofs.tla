------------------------ MODULE InteractiveTurnsProofs ------------------------
(***************************************************************************)
(* Proofs about InteractiveTurns, for any number of runners, readers,      *)
(* turns and events: its type invariant with the exclusive prompt slot,    *)
(* that a session has one active turn, and that a turn that has ended      *)
(* stays ended.                                                            *)
(***************************************************************************)
EXTENDS InteractiveTurns, TLAPS

-----------------------------------------------------------------------------
(***************************************************************************)
(* The inductive invariant                                                 *)
(***************************************************************************)
Results == {"none", "slot", "stream"} \union Terminal
Records == {Idle} \union [pc : Pcs, turn : Turns, result : Results]

\* A runner works on a turn that was sent, and knows what to do next.
RunnerSound(f) ==
    /\ f \in Records
    /\ f # Idle => f.turn <= sent
    /\ f.pc = "touch" => f.result # "none"
    /\ f.pc = "finish" => f.result \in Terminal
RunnersOK ==
    /\ runner \in [Runners -> Records]
    /\ \A r \in Runners : RunnerSound(runner[r])

\* Turns are numbered in the order they are sent.
TurnsOK ==
    /\ turn \in [Turns -> [status : Statuses, runner : Runners \union {Nobody},
                           stale : BOOLEAN]]
    /\ sent \in 0..MaxTurns
    /\ active \in 0..sent
    /\ \A t \in Turns : t > sent => turn[t].status = "EXPIRED"
    /\ sender \in {Idle, [pc |-> "commit"], [pc |-> "fail"]}
    /\ sender # Idle => sent > 0
LocksOK ==
    /\ lock \in Runners \union {Sender, Nobody, Dead}
    /\ fence \in BOOLEAN /\ raced \in BOOLEAN /\ asked \subseteq Turns

\* Where a runner may hold the prompt slot, and where it must.
WithSlot(f) ==
    \/ f.pc \in {"check", "stream", "finish", "unpoint", "leave", "clear"}
    \/ f.pc = "touch" /\ f.result # "slot"
NeedsSlot(f) ==
    \/ f.pc \in {"check", "stream", "clear"}
    \/ f.pc = "touch" /\ f.result # "slot"
SlotOK ==
    /\ slot \in Runners \union {Nobody, Dead}
    /\ \A r \in Runners : /\ slot = r => WithSlot(runner[r])
                          /\ NeedsSlot(runner[r]) => slot = r

\* finish_turn saves the turn before it removes the pointer to it.
Unpointing == \A r \in Runners : At(r, "unpoint") => ~IsActive(runner[r].turn)

TypeInv == RunnersOK /\ TurnsOK /\ LocksOK
IInv == TypeInv /\ SlotOK /\ Unpointing /\ OneActiveTurn

-----------------------------------------------------------------------------
(***************************************************************************)
(* Steps of the runners                                                    *)
(***************************************************************************)
LEMMA Constants ==
    ASSUME TRUE
    PROVE  /\ Idle \in Records /\ Idle.pc = "idle" /\ "idle" \notin Pcs
           /\ \A f \in Records : f.pc = "idle" <=> f = Idle
           /\ Terminal \subseteq Statuses
BY DEF Records, Idle, Pcs, Statuses

\* A runner's record after it went on.
LEMMA RecordMoves ==
    ASSUME NEW f \in Records, f # Idle, NEW p \in Pcs, NEW q \in Results
    PROVE  /\ [f EXCEPT !.pc = p] \in Records \ {Idle}
           /\ [f EXCEPT !.pc = p].pc = p
           /\ [f EXCEPT !.pc = p].turn = f.turn
           /\ [f EXCEPT !.pc = p].result = f.result
           /\ [f EXCEPT !.pc = p, !.result = q] \in Records \ {Idle}
           /\ [f EXCEPT !.pc = p, !.result = q].pc = p
           /\ [f EXCEPT !.pc = p, !.result = q].turn = f.turn
           /\ [f EXCEPT !.pc = p, !.result = q].result = q
<1>1. f \in [pc : Pcs, turn : Turns, result : Results]
  BY DEF Records
<1> QED BY <1>1 DEF Records, Idle, Pcs

\* A step of a runner: what its record is like afterwards, and that the other
\* runners, the sender and the number of turns stay as they are.
Goes(r) ==
    /\ runner' = [runner EXCEPT ![r] = runner'[r]]
    /\ UNCHANGED <<sender, sent>>
    /\ runner[r] # Idle
    /\ runner'[r] \in Records
    /\ runner'[r] # Idle => runner'[r].turn = runner[r].turn
    /\ runner'[r].pc = "touch" => runner'[r].result # "none"
    /\ runner'[r].pc = "finish" => runner'[r].result \in Terminal

LEMMA RunnerGoes ==
    ASSUME TypeInv, NEW r \in Runners, RunnerStep(r)
    PROVE  Goes(r)
<1> DEFINE f == runner[r]
<1>1. /\ f \in Records /\ runner \in [Runners -> Records]
      /\ f.pc = "touch" => f.result # "none"
      /\ f.pc = "finish" => f.result \in Terminal
  BY DEF TypeInv, RunnersOK, RunnerSound
<1>2. f # Idle /\ UNCHANGED <<sender, sent>>
  <2>1. f.pc # "idle"
    BY DEF RunnerStep, Claim, Wake, Touch, TakeSlot, Check, Stream, FinishSave, FinishUnpoint, Leave,
           Clear, At
  <2>2. UNCHANGED <<sender, sent>>
    BY DEF RunnerStep, Claim, Wake, Touch, TakeSlot, Check, Stream, FinishSave, FinishUnpoint, Leave,
           Clear
  <2> QED BY <2>1, <2>2 DEF Idle
<1>3. ASSUME End(r) PROVE Goes(r)
  BY <1>1, <1>2, <1>3, Constants DEF End, Run, Goes
<1>4. ASSUME NEW p \in Pcs, Goto(r, p), p = "touch" => f.result # "none",
             p = "finish" => f.result \in Terminal
      PROVE  Goes(r)
  <2>1. f.result \in Results
    BY <1>1, <1>2 DEF Records
  <2>2. /\ [f EXCEPT !.pc = p] \in Records \ {Idle}
        /\ [f EXCEPT !.pc = p].pc = p
        /\ [f EXCEPT !.pc = p].turn = f.turn
        /\ [f EXCEPT !.pc = p].result = f.result
    BY <1>1, <1>2, <2>1, RecordMoves
  <2> QED BY <1>1, <1>2, <1>4, <2>2 DEF Goto, Run, Goes
<1>5. ASSUME NEW p \in Pcs, NEW q \in Results, Run(r, [f EXCEPT !.pc = p, !.result = q]),
             p = "touch" => q # "none", p = "finish" => q \in Terminal
      PROVE  Goes(r)
  <2>1. f \in [pc : Pcs, turn : Turns, result : Results]
    BY <1>1, <1>2 DEF Records
  <2> DEFINE g == [f EXCEPT !.pc = p, !.result = q]
  <2>2. /\ g \in [pc : Pcs, turn : Turns, result : Results]
        /\ g.pc = p /\ g.turn = f.turn /\ g.result = q
    BY <2>1
  <2>3. g \in Records
    BY <2>2 DEF Records
  <2> QED BY <1>1, <1>2, <1>5, <2>2, <2>3 DEF Run, Goes
<1>6. ASSUME NEW q \in Terminal, Finish(r, q) PROVE Goes(r)
  BY <1>5, <1>6 DEF Finish, Results, Pcs
<1>7. ASSUME Claim(r) PROVE Goes(r)
  BY <1>3, <1>4, <1>7 DEF Claim, Pcs
<1>8. ASSUME Wake(r) PROVE Goes(r)
  BY <1>5, <1>6, <1>8 DEF Wake, Pcs, Results, Terminal
<1>9. ASSUME Touch(r) PROVE Goes(r)
  <2>1. f.result \in Results \ {"none"}
    BY <1>1, <1>2, <1>9 DEF Touch, At, Records
  <2>2. Goto(r, "leave") => Goes(r)
    BY <1>4 DEF Pcs
  <2>3. f.result \notin Terminal => f.result \in {"slot", "stream"}
    BY <2>1 DEF Results
  <2>4. f.result \notin Terminal /\ Goto(r, f.result) => Goes(r)
    BY <1>4, <2>3 DEF Pcs
  <2> QED BY <1>6, <1>9, <2>2, <2>4 DEF Touch
<1>10. ASSUME TakeSlot(r) \/ Check(r) PROVE Goes(r)
  BY <1>4, <1>6, <1>10 DEF TakeSlot, Check, Pcs, Terminal
<1>11. ASSUME Stream(r) PROVE Goes(r)
  <2>1. ASSUME NEW q \in {"stream", "SUCCEEDED", "FAILED", "CANCELLED"},
               Run(r, [runner[r] EXCEPT !.pc = "touch", !.result = q])
        PROVE  Goes(r)
    BY <1>5, <2>1 DEF Results, Terminal, Pcs
  <2> QED BY <1>6, <1>11, <2>1 DEF Stream, Terminal
<1>12. ASSUME FinishSave(r) \/ FinishUnpoint(r) PROVE Goes(r)
  BY <1>4, <1>12 DEF FinishSave, FinishUnpoint, Pcs
<1>13. ASSUME Leave(r) \/ Clear(r) PROVE Goes(r)
  BY <1>3, <1>4, <1>13 DEF Leave, Clear, Pcs
<1> QED BY <1>7, <1>8, <1>9, <1>10, <1>11, <1>12, <1>13 DEF RunnerStep

\* Where a runner goes.
LEMMA Went ==
    ASSUME TypeInv, NEW r \in Runners, runner[r] # Idle
    PROVE  /\ End(r) => runner'[r] = Idle
           /\ \A p \in Pcs : Goto(r, p) => /\ runner'[r].pc = p
                                           /\ runner'[r].result = runner[r].result
           /\ \A p \in Pcs, q \in Results :
                  Run(r, [runner[r] EXCEPT !.pc = p, !.result = q]) =>
                      runner'[r].pc = p /\ runner'[r].result = q
           /\ \A q \in Terminal : Finish(r, q) => runner'[r].pc = "finish"
<1>1. /\ runner \in [Runners -> Records]
      /\ runner[r] \in [pc : Pcs, turn : Turns, result : Results]
  BY DEF TypeInv, RunnersOK, Records
<1> QED BY <1>1 DEF End, Goto, Run, Finish

-----------------------------------------------------------------------------
(***************************************************************************)
(* Turns and the pointer                                                   *)
(***************************************************************************)
TurnRecords == [status : Statuses, runner : Runners \union {Nobody}, stale : BOOLEAN]

\* What every step but SendCreate leaves of the turns: none becomes active,
\* an ended one stays ended, and the pointer keeps to an active turn.
Calm ==
    /\ turn' \in [Turns -> TurnRecords]
    /\ \A t \in Turns : /\ IsActive(t)' => IsActive(t)
                        /\ turn[t].status \in Terminal => turn'[t].status \in Terminal
                        /\ turn[t].status = "EXPIRED" => turn'[t].status = "EXPIRED"
    /\ active' \in 0..sent
    /\ \/ raced'
       \/ UNCHANGED active
       \/ active' \in Turns /\ IsActive(active')
       \/ active' = NoTurn /\ \A t \in Turns : t = active => ~IsActive(t)'
    /\ raced => raced'

\* One turn changes, and does not become active.
LEMMA OneTurn ==
    ASSUME TypeInv, NEW t \in Turns, NEW x \in TurnRecords,
           turn' = [turn EXCEPT ![t] = x],
           x.status \in {"QUEUED", "RUNNING"} => IsActive(t),
           turn[t].status \in Terminal => x.status \in Terminal,
           turn[t].status = "EXPIRED" => x.status = "EXPIRED"
    PROVE  /\ turn' \in [Turns -> TurnRecords]
           /\ turn'[t] = x
           /\ \A u \in Turns : /\ IsActive(u)' => IsActive(u)
                               /\ turn[u].status \in Terminal => turn'[u].status \in Terminal
                               /\ turn[u].status = "EXPIRED" => turn'[u].status = "EXPIRED"
BY DEF TypeInv, TurnsOK, TurnRecords, IsActive

LEMMA TurnFacts ==
    ASSUME TRUE
    PROVE  /\ \A s \in Statuses, q \in Runners \union {Nobody}, b \in BOOLEAN :
                  Turn(s, q, b) \in TurnRecords /\ Turn(s, q, b).status = s
           /\ "QUEUED" \in Statuses /\ "RUNNING" \in Statuses /\ "EXPIRED" \in Statuses
           /\ Terminal \subseteq Statuses
           /\ "QUEUED" \notin Terminal /\ "RUNNING" \notin Terminal /\ "EXPIRED" \notin Terminal
           /\ "FAILED" \in Terminal
BY DEF Turn, TurnRecords, Statuses, Terminal

\* The steps that change no turn.
LEMMA NoTurnChanges ==
    ASSUME TypeInv, UNCHANGED turn
    PROVE  /\ turn' \in [Turns -> TurnRecords]
           /\ \A u \in Turns : IsActive(u)' <=> IsActive(u)
           /\ \A u \in Turns : turn'[u] = turn[u]
BY DEF TypeInv, TurnsOK, TurnRecords, IsActive

LEMMA RunnerIsCalm ==
    ASSUME TypeInv, Unpointing, NEW r \in Runners, RunnerStep(r)
    PROVE  Calm /\ UNCHANGED <<raced, asked>>
<1> DEFINE t == runner[r].turn
<1>1. runner[r] # Idle
  BY RunnerGoes DEF Goes
<1>2. t \in Turns /\ t <= sent /\ t \in 0..sent
  BY <1>1 DEF TypeInv, RunnersOK, RunnerSound, Records, Turns, TurnsOK
<1>3. /\ active \in 0..sent /\ sent \in Nat
      /\ turn \in [Turns -> TurnRecords]
  BY DEF TypeInv, TurnsOK, TurnRecords
<1>4. UNCHANGED <<raced, asked>>
  BY DEF RunnerStep, Claim, Wake, Touch, TakeSlot, Check, Stream, FinishSave, FinishUnpoint, Leave,
         Clear, cache, history
<1>5. ASSUME UNCHANGED <<turn, active>> PROVE Calm
  BY <1>3, <1>4, <1>5, NoTurnChanges DEF Calm
<1>6. ASSUME Claim(r) PROVE Calm
  <2>1. CASE UNCHANGED <<turn, active>>
    BY <1>5, <2>1
  <2>2. CASE /\ Claimable(t) /\ active' = t
             /\ turn' = [turn EXCEPT ![t] = Turn("RUNNING", r, FALSE)]
    <3>1. IsActive(t) /\ turn[t].status \in {"QUEUED", "RUNNING"}
      BY <2>2 DEF Claimable, IsActive
    <3>2. /\ turn' \in [Turns -> TurnRecords]
          /\ \A u \in Turns : /\ IsActive(u)' => IsActive(u)
                              /\ turn[u].status \in Terminal => turn'[u].status \in Terminal
                              /\ turn[u].status = "EXPIRED" => turn'[u].status = "EXPIRED"
      BY <1>2, <2>2, <3>1, OneTurn, TurnFacts
    <3> QED BY <1>2, <1>4, <2>2, <3>1, <3>2 DEF Calm
  <2> QED BY <1>6, <2>1, <2>2 DEF Claim
<1>7. ASSUME Touch(r) PROVE Calm
  <2>1. CASE UNCHANGED turn
    BY <1>5, <1>7, <2>1 DEF Touch
  <2>2. CASE IsActive(t) /\ turn' = [turn EXCEPT ![t].stale = FALSE]
    <3>1. turn[t] \in TurnRecords
      BY <1>2, <1>3
    <3>2. [turn[t] EXCEPT !.stale = FALSE] \in TurnRecords
          /\ [turn[t] EXCEPT !.stale = FALSE].status = turn[t].status
      BY <3>1 DEF TurnRecords
    <3>3. /\ turn' \in [Turns -> TurnRecords]
          /\ \A u \in Turns : /\ IsActive(u)' => IsActive(u)
                              /\ turn[u].status \in Terminal => turn'[u].status \in Terminal
                              /\ turn[u].status = "EXPIRED" => turn'[u].status = "EXPIRED"
      BY <1>2, <1>3, <2>2, <3>2, OneTurn
    <3> QED BY <1>3, <1>4, <1>7, <3>3 DEF Calm, Touch
  <2> QED BY <1>7, <2>1, <2>2 DEF Touch
<1>8. ASSUME FinishSave(r) PROVE Calm
  <2>1. CASE UNCHANGED turn
    BY <1>5, <1>8, <2>1 DEF FinishSave
  <2>2. CASE /\ turn[t].status # "EXPIRED"
             /\ turn' = [turn EXCEPT ![t] = Turn(runner[r].result, Nobody, FALSE)]
    <3>1. runner[r].result \in Terminal
      BY <1>8 DEF FinishSave, At, TypeInv, RunnersOK, RunnerSound
    <3> DEFINE x == Turn(runner[r].result, Nobody, FALSE)
    <3>2. x \in TurnRecords /\ x.status \in Terminal
      BY <3>1, TurnFacts
    <3>3. /\ turn' \in [Turns -> TurnRecords]
          /\ \A u \in Turns : /\ IsActive(u)' => IsActive(u)
                              /\ turn[u].status \in Terminal => turn'[u].status \in Terminal
                              /\ turn[u].status = "EXPIRED" => turn'[u].status = "EXPIRED"
      BY <1>2, <2>2, <3>2, OneTurn, TurnFacts
    <3> QED BY <1>3, <1>4, <1>8, <3>3 DEF Calm, FinishSave
  <2> QED BY <1>8, <2>1, <2>2 DEF FinishSave
<1>9. ASSUME FinishUnpoint(r) PROVE Calm
  <2>1. ~IsActive(t) /\ UNCHANGED turn
    BY <1>9 DEF FinishUnpoint, Unpointing
  <2>2. (active' = NoTurn /\ active = t) \/ UNCHANGED active
    BY <1>9 DEF FinishUnpoint
  <2>3. 0 \in 0..sent
    BY <1>3
  <2> QED BY <1>3, <1>4, <2>1, <2>2, <2>3, NoTurnChanges, <1>2 DEF Calm, NoTurn, IsActive
<1>10. ASSUME Leave(r) PROVE Calm
  <2>1. UNCHANGED turn /\ (UNCHANGED active \/ (active' = NoTurn /\ ~Busy))
    BY <1>10 DEF Leave
  <2>2. 0 \in 0..sent
    BY <1>3
  <2> QED BY <1>3, <1>4, <2>1, <2>2, NoTurnChanges DEF Calm, NoTurn, Busy, IsActive
<1>11. ASSUME Wake(r) \/ TakeSlot(r) \/ Check(r) \/ Stream(r) \/ Clear(r) PROVE Calm
  BY <1>5, <1>11 DEF Wake, TakeSlot, Check, Stream, Clear, cache
<1> QED BY <1>4, <1>6, <1>7, <1>8, <1>9, <1>10, <1>11 DEF RunnerStep

-----------------------------------------------------------------------------
(***************************************************************************)
(* Every step keeps the types of the turns and of the locks                *)
(***************************************************************************)
LEMMA OthersAreCalm ==
    ASSUME TypeInv, [Next]_vars, ~SendCreate, ~\E r \in Runners : RunnerStep(r)
    PROVE  Calm
<1>1. /\ active \in 0..sent /\ sent \in Nat /\ sent <= MaxTurns /\ 0 \in 0..sent
      /\ turn \in [Turns -> TurnRecords]
      /\ MaxTurns \in Nat
  BY ConstantsAssumption DEF TypeInv, TurnsOK, TurnRecords
<1>2. ASSUME UNCHANGED <<turn, active, raced>> PROVE Calm
  BY <1>1, <1>2, NoTurnChanges DEF Calm
<1>3. ASSUME SendFail, lock = Nobody PROVE Calm
  <2>1. sent \in Turns
    BY <1>1, <1>3 DEF SendFail, TypeInv, TurnsOK, Idle, Turns
  <2> DEFINE x == IF turn[sent].status = "EXPIRED" THEN turn[sent] ELSE Turn("FAILED", Nobody, FALSE)
  <2>2. turn' = [turn EXCEPT ![sent] = x]
    BY <1>3 DEF SendFail
  <2>3. turn[sent] \in TurnRecords
    BY <1>1, <2>1
  <2>4. /\ x \in TurnRecords
        /\ x.status \in Terminal \/ (x.status = "EXPIRED" /\ turn[sent].status = "EXPIRED")
        /\ turn[sent].status = "EXPIRED" => x.status = "EXPIRED"
    BY <2>3, TurnFacts
  <2>5. /\ turn' \in [Turns -> TurnRecords]
        /\ turn'[sent] = x
        /\ \A u \in Turns : /\ IsActive(u)' => IsActive(u)
                            /\ turn[u].status \in Terminal => turn'[u].status \in Terminal
                            /\ turn[u].status = "EXPIRED" => turn'[u].status = "EXPIRED"
    BY <2>1, <2>2, <2>4, OneTurn, TurnFacts
  <2>6. x.status \notin {"QUEUED", "RUNNING"}
    BY <2>4, TurnFacts
  <2>7. ~IsActive(sent)'
    BY <2>5, <2>6, <1>3 DEF IsActive, SendFail
  <2>8. UNCHANGED raced /\ ((active' = NoTurn /\ active = sent) \/ UNCHANGED active)
    BY <1>3 DEF SendFail, history
  <2>9. \A t \in Turns : t = sent => ~IsActive(t)'
    BY <2>5, <2>6 DEF IsActive
  <2> QED BY <1>1, <2>5, <2>8, <2>9 DEF Calm, NoTurn
<1>8. ASSUME SendFail, lock # Nobody PROVE Calm
  <2>1. UNCHANGED <<turn, active, raced>>
    BY <1>8 DEF SendFail, history
  <2> QED BY <1>2, <2>1
<1>4. ASSUME NEW d \in Readers, ReadDelete(d) PROVE Calm
  <2>1. UNCHANGED turn /\ active' = NoTurn /\ raced' = (raced \/ Busy)
    BY <1>4 DEF ReadDelete
  <2>2. raced' \/ \A t \in Turns : t = active => ~IsActive(t)'
    <3>1. CASE Busy
      BY <2>1, <3>1
    <3>2. CASE ~Busy
      BY <3>2, <2>1, NoTurnChanges DEF Busy, NoTurn, Turns
    <3> QED BY <3>1, <3>2
  <2> QED BY <1>1, <2>1, <2>2, NoTurnChanges DEF Calm, NoTurn
<1>5. ASSUME NEW t \in Turns, GoStale(t) PROVE Calm
  <2>1. turn[t] \in TurnRecords
    BY <1>1
  <2> DEFINE x == [turn[t] EXCEPT !.stale = TRUE]
  <2>2. x \in TurnRecords /\ x.status = turn[t].status
    BY <2>1 DEF TurnRecords
  <2>3. turn' = [turn EXCEPT ![t] = x] /\ IsActive(t) /\ UNCHANGED <<active, raced>>
    BY <1>1, <1>5 DEF GoStale, history
  <2>4. /\ turn' \in [Turns -> TurnRecords]
        /\ \A u \in Turns : /\ IsActive(u)' => IsActive(u)
                            /\ turn[u].status \in Terminal => turn'[u].status \in Terminal
                            /\ turn[u].status = "EXPIRED" => turn'[u].status = "EXPIRED"
    BY <2>2, <2>3, OneTurn
  <2> QED BY <1>1, <2>3, <2>4 DEF Calm
<1>6. ASSUME NEW t \in Turns, TurnExpires(t) PROVE Calm
  <2> DEFINE x == Turn("EXPIRED", Nobody, FALSE)
  <2>1. x \in TurnRecords /\ x.status = "EXPIRED" /\ x.status \notin {"QUEUED", "RUNNING"}
    BY TurnFacts
  <2>2. /\ turn' = [turn EXCEPT ![t] = x] /\ UNCHANGED raced
        /\ turn[t].status \in {"QUEUED", "RUNNING"}
        /\ (active' = NoTurn /\ active = t) \/ UNCHANGED active
    BY <1>6 DEF TurnExpires, Forgotten, IsActive, history
  <2>3. /\ turn' \in [Turns -> TurnRecords]
        /\ turn'[t] = x
        /\ \A u \in Turns : /\ IsActive(u)' => IsActive(u)
                            /\ turn[u].status \in Terminal => turn'[u].status \in Terminal
                            /\ turn[u].status = "EXPIRED" => turn'[u].status = "EXPIRED"
    BY <2>1, <2>2, OneTurn, TurnFacts
  <2>4. \A u \in Turns : u = t => ~IsActive(u)'
    BY <2>1, <2>3 DEF IsActive
  <2> QED BY <1>1, <2>2, <2>3, <2>4 DEF Calm, NoTurn
<1>7. ASSUME \/ Stop \/ LockExpires \/ SlotExpires \/ FenceExpires \/ UNCHANGED vars
             \/ \E d \in Readers : ReadPointer(d) \/ ReadTurn(d)
             \/ \E r \in Runners : SendCommit(r) \/ Attach(r) \/ Crash(r)
      PROVE  Calm
  <2>1. UNCHANGED <<turn, active, raced>>
    BY <1>7 DEF Stop, LockExpires, SlotExpires, FenceExpires, vars, cache, history, ReadPointer, ReadTurn,
                SendCommit, Attach, Crash
  <2> QED BY <1>2, <2>1
<1> QED BY <1>3, <1>8, <1>4, <1>5, <1>6, <1>7 DEF Next, SenderStep, ReaderStep

\* A thread starts.
LEMMA RunnerStarts ==
    ASSUME TypeInv, NEW r \in Runners, NEW t \in Turns, t <= sent,
           Run(r, [pc |-> "claim", turn |-> t, result |-> "none"])
    PROVE  /\ runner' \in [Runners -> Records]
           /\ runner'[r].pc = "claim"
           /\ runner'[r].turn = t
           /\ runner'[r] # Idle
           /\ \A q \in Runners \ {r} : runner'[q] = runner[q]
<1> DEFINE f == [pc |-> "claim", turn |-> t, result |-> "none"]
<1>1. f \in Records /\ f.pc = "claim" /\ f # Idle /\ f.turn = t
  BY DEF Records, Pcs, Results, Idle
<1> HIDE DEF f
<1>2. runner' = [runner EXCEPT ![r] = f] /\ runner \in [Runners -> Records]
  BY DEF Run, f, TypeInv, RunnersOK
<1> QED BY <1>1, <1>2

LEMMA RunnersKept ==
    ASSUME TypeInv, [Next]_vars
    PROVE  RunnersOK'
<1>1. /\ runner \in [Runners -> Records]
      /\ \A q \in Runners : RunnerSound(runner[q])
      /\ sent \in Nat /\ MaxTurns \in Nat /\ sent <= MaxTurns /\ active \in 0..sent
  BY ConstantsAssumption DEF TypeInv, RunnersOK, TurnsOK
<1>2. sent' \in Nat /\ sent <= sent'
  <2>1. CASE SendCreate
    BY <1>1, <2>1 DEF SendCreate
  <2>2. CASE \E r \in Runners : RunnerStep(r)
    BY <1>1, <2>2, RunnerGoes DEF Goes
  <2>3. ASSUME \/ SendFail \/ Stop \/ LockExpires \/ SlotExpires \/ FenceExpires \/ UNCHANGED vars
               \/ \E d \in Readers : ReaderStep(d)
               \/ \E t \in Turns : GoStale(t) \/ TurnExpires(t)
               \/ \E r \in Runners : SendCommit(r) \/ Attach(r) \/ Crash(r)
        PROVE  sent' = sent
    BY <2>3 DEF SendFail, SendCommit, Stop, ReaderStep, ReadPointer, ReadTurn,
       ReadDelete, GoStale, TurnExpires, LockExpires, SlotExpires, FenceExpires, Attach, Crash, vars
  <2> QED BY <1>1, <2>1, <2>2, <2>3 DEF Next, SenderStep
<1>3. \A f \in Records : RunnerSound(f) => RunnerSound(f)'
  <2>1. ASSUME NEW f \in Records, f # Idle PROVE f.turn \in Nat
    BY <1>1, <2>1 DEF Records, Turns
  <2> QED BY <1>1, <1>2, <2>1 DEF RunnerSound
<1>4. ASSUME UNCHANGED runner PROVE RunnersOK'
  BY <1>1, <1>3, <1>4 DEF RunnersOK
<1>5. ASSUME NEW r \in Runners, NEW t \in Turns, t <= sent,
             Run(r, [pc |-> "claim", turn |-> t, result |-> "none"])
      PROVE  RunnersOK'
  <2>1. /\ runner' \in [Runners -> Records] /\ runner'[r].pc = "claim" /\ runner'[r].turn = t
        /\ \A q \in Runners \ {r} : runner'[q] = runner[q]
    BY <1>5, RunnerStarts
  <2>2. RunnerSound(runner[r])'
    BY <1>1, <1>2, <1>5, <2>1 DEF RunnerSound, Turns
  <2>3. \A q \in Runners \ {r} : RunnerSound(runner[q])'
    <3> SUFFICES ASSUME NEW q \in Runners \ {r} PROVE RunnerSound(runner[q])'
      OBVIOUS
    <3>1. runner'[q] = runner[q] /\ runner[q] \in Records /\ RunnerSound(runner[q])
      BY <1>1, <2>1
    <3> QED BY <1>3, <3>1 DEF RunnerSound
  <2> QED BY <2>1, <2>2, <2>3 DEF RunnersOK
<1>6. ASSUME NEW r \in Runners, RunnerStep(r) PROVE RunnersOK'
  <2>1. Goes(r)
    BY <1>6, RunnerGoes
  <2>2. /\ runner' \in [Runners -> Records]
        /\ \A q \in Runners \ {r} : runner'[q] = runner[q]
    BY <1>1, <2>1 DEF Goes
  <2>3. RunnerSound(runner[r])'
    BY <1>1, <2>1 DEF RunnerSound, Goes
  <2>4. \A q \in Runners \ {r} : RunnerSound(runner[q])'
    <3> SUFFICES ASSUME NEW q \in Runners \ {r} PROVE RunnerSound(runner[q])'
      OBVIOUS
    <3>1. runner'[q] = runner[q] /\ runner[q] \in Records /\ RunnerSound(runner[q])
      BY <1>1, <2>2
    <3> QED BY <1>3, <3>1 DEF RunnerSound
  <2> QED BY <2>2, <2>3, <2>4 DEF RunnersOK
<1>7. ASSUME NEW r \in Runners, Crash(r) PROVE RunnersOK'
  <2>1. runner' = [runner EXCEPT ![r] = Idle]
    BY <1>7 DEF Crash, End, Run
  <2>2. /\ runner' \in [Runners -> Records] /\ runner'[r] = Idle
        /\ \A q \in Runners \ {r} : runner'[q] = runner[q]
    BY <1>1, <2>1, Constants
  <2>3. RunnerSound(runner[r])'
    BY <2>2, Constants DEF RunnerSound
  <2>4. \A q \in Runners \ {r} : RunnerSound(runner[q])'
    <3> SUFFICES ASSUME NEW q \in Runners \ {r} PROVE RunnerSound(runner[q])'
      OBVIOUS
    <3>1. runner'[q] = runner[q] /\ runner[q] \in Records /\ RunnerSound(runner[q])
      BY <1>1, <2>2
    <3> QED BY <1>3, <3>1 DEF RunnerSound
  <2> QED BY <2>2, <2>3, <2>4 DEF RunnersOK
<1>8. ASSUME NEW r \in Runners, SendCommit(r) PROVE RunnersOK'
  <2>1. sent \in Turns
    BY <1>1, <1>8 DEF SendCommit, TypeInv, TurnsOK, Idle, Turns
  <2>2. CASE UNCHANGED runner
    BY <1>4, <2>2
  <2>3. CASE Run(r, [pc |-> "claim", turn |-> sent, result |-> "none"])
    BY <1>1, <1>5, <2>1, <2>3
  <2> QED BY <1>8, <2>2, <2>3 DEF SendCommit
<1>9. ASSUME NEW r \in Runners, Attach(r) PROVE RunnersOK'
  <2>1. active \in Turns /\ active <= sent
    BY <1>1, <1>9 DEF Attach, Busy, NoTurn, Turns
  <2> QED BY <1>5, <1>9, <2>1 DEF Attach
<1>10. ASSUME \/ SendCreate \/ SendFail \/ Stop \/ LockExpires \/ SlotExpires \/ FenceExpires
              \/ \E d \in Readers : ReaderStep(d)
              \/ \E t \in Turns : GoStale(t) \/ TurnExpires(t)
              \/ UNCHANGED vars
       PROVE  RunnersOK'
  <2>1. UNCHANGED runner
    BY <1>10 DEF SendCreate, SendFail, Stop, LockExpires, SlotExpires, FenceExpires, ReaderStep,
       ReadPointer, ReadTurn, ReadDelete, GoStale, TurnExpires, vars
  <2> QED BY <1>4, <2>1
<1> QED BY <1>6, <1>7, <1>8, <1>9, <1>10 DEF Next, SenderStep

LEMMA CalmUnlessSent ==
    ASSUME TypeInv, Unpointing, [Next]_vars, ~SendCreate
    PROVE  Calm
BY RunnerIsCalm, OthersAreCalm

\* What a turn that is sent finds and leaves.
LEMMA Sent ==
    ASSUME TypeInv, SendCreate
    PROVE  /\ ~Busy /\ active' = sent + 1 /\ sent' = sent + 1 /\ sent + 1 \in Turns
           /\ turn' \in [Turns -> TurnRecords]
           /\ turn[sent + 1].status = "EXPIRED"
           /\ \A t \in Turns \ {sent + 1} : turn'[t] = turn[t]
           /\ UNCHANGED <<runner, raced>>
           /\ sender' = [pc |-> "commit"]
<1>1. sent \in 0..MaxTurns /\ sent < MaxTurns /\ MaxTurns \in Nat /\ turn \in [Turns -> TurnRecords]
  BY ConstantsAssumption DEF TypeInv, TurnsOK, TurnRecords, SendCreate
<1>2. sent + 1 \in Turns /\ sent + 1 > sent
  BY <1>1 DEF Turns
<1>3. turn[sent + 1].status = "EXPIRED"
  BY <1>2 DEF TypeInv, TurnsOK
<1>4. Turn("QUEUED", Nobody, FALSE) \in TurnRecords
  BY TurnFacts
<1> QED BY <1>1, <1>2, <1>3, <1>4 DEF SendCreate, history

LEMMA TurnsKept ==
    ASSUME TypeInv, Unpointing, [Next]_vars
    PROVE  TurnsOK'
<1>1. /\ sent \in 0..MaxTurns /\ MaxTurns \in Nat
      /\ \A t \in Turns : t > sent => turn[t].status = "EXPIRED"
      /\ sender \in {Idle, [pc |-> "commit"], [pc |-> "fail"]}
      /\ sender # Idle => sent > 0
  BY ConstantsAssumption DEF TypeInv, TurnsOK
<1>2. CASE SendCreate
  <2>1. /\ turn' \in [Turns -> TurnRecords] /\ sent' = sent + 1 /\ active' = sent + 1
        /\ sent + 1 \in Turns /\ sender' = [pc |-> "commit"]
        /\ \A t \in Turns \ {sent + 1} : turn'[t] = turn[t]
    BY <1>2, Sent
  <2>2. sent' \in 0..MaxTurns /\ active' \in 0..sent' /\ sent' > 0
    BY <1>1, <2>1 DEF Turns
  <2>3. \A t \in Turns : t > sent' => turn'[t].status = "EXPIRED"
    BY <1>1, <2>1 DEF Turns
  <2> QED BY <2>1, <2>2, <2>3 DEF TurnsOK, TurnRecords
<1>3. CASE ~SendCreate
  <2>1. Calm
    BY <1>3, CalmUnlessSent
  <2>2. ASSUME \/ SendFail \/ Stop \/ LockExpires \/ SlotExpires \/ FenceExpires \/ UNCHANGED vars
               \/ \E d \in Readers : ReaderStep(d)
               \/ \E t \in Turns : GoStale(t) \/ TurnExpires(t)
               \/ \E r \in Runners : Attach(r) \/ Crash(r)
        PROVE  sent' = sent /\ (sender' = sender \/ sender' = Idle)
    BY <2>2 DEF SendFail, Stop, ReaderStep, ReadPointer, ReadTurn,
       ReadDelete, GoStale, TurnExpires, LockExpires, SlotExpires, FenceExpires, Attach, Crash, vars
  <2>3. ASSUME NEW r \in Runners, SendCommit(r)
        PROVE  sent' = sent /\ (sender' = Idle \/ sender' = [pc |-> "fail"]) /\ sender # Idle
    BY <2>3 DEF SendCommit, Idle
  <2>4. ASSUME NEW r \in Runners, RunnerStep(r)
        PROVE  sent' = sent /\ sender' = sender
    BY <2>4, RunnerGoes DEF Goes
  <2>5. sent' = sent /\ (sender' = sender \/ sender' = Idle \/
                            (sender' = [pc |-> "fail"] /\ sender # Idle))
    BY <1>3, <2>2, <2>3, <2>4 DEF Next, SenderStep
  <2>6. /\ sender' \in {Idle, [pc |-> "commit"], [pc |-> "fail"]}
        /\ sender' # Idle => sent > 0
    BY <1>1, <2>5
  <2>7. turn' \in [Turns -> TurnRecords] /\ active' \in 0..sent
        /\ \A t \in Turns : t > sent => turn'[t].status = "EXPIRED"
    BY <1>1, <2>1 DEF Calm
  <2> QED BY <1>1, <2>5, <2>6, <2>7 DEF TurnsOK, TurnRecords
<1> QED BY <1>2, <1>3

LEMMA LocksKept ==
    ASSUME TypeInv, [Next]_vars
    PROVE  LocksOK'
<1>1. /\ lock \in Runners \union {Sender, Nobody, Dead}
      /\ fence \in BOOLEAN /\ raced \in BOOLEAN /\ asked \subseteq Turns
  BY DEF TypeInv, LocksOK
<1>2. ASSUME NEW r \in Runners, RunnerStep(r) PROVE LocksOK'
  <2>1. lock' \in {lock, r, Nobody} /\ fence' \in {fence, FALSE} /\ UNCHANGED <<raced, asked>>
    BY <1>2 DEF RunnerStep, Claim, Wake, Touch, TakeSlot, Check, Stream, FinishSave, FinishUnpoint,
       Leave, Clear, cache, history
  <2> QED BY <1>1, <2>1 DEF LocksOK
<1>3. ASSUME \/ SendCreate \/ SendFail \/ LockExpires \/ SlotExpires \/ FenceExpires
             \/ UNCHANGED vars
             \/ \E d \in Readers : ReadPointer(d) \/ ReadTurn(d)
             \/ \E t \in Turns : GoStale(t) \/ TurnExpires(t)
             \/ \E r \in Runners : SendCommit(r) \/ Attach(r) \/ Crash(r)
      PROVE  LocksOK'
  <2>1. lock' \in {lock, Sender, Nobody, Dead} /\ fence' \in {fence, FALSE} /\ UNCHANGED <<raced, asked>>
    BY <1>3 DEF SendCreate, SendFail, LockExpires, SlotExpires, FenceExpires, vars, ReadPointer, ReadTurn,
       GoStale, TurnExpires, SendCommit, Attach, Crash, cache, history
  <2> QED BY <1>1, <2>1 DEF LocksOK
<1>4. ASSUME Stop PROVE LocksOK'
  BY <1>1, <1>4 DEF Stop, LocksOK
<1>5. ASSUME NEW d \in Readers, ReadDelete(d) PROVE LocksOK'
  <2>1. UNCHANGED <<lock, fence, asked>> /\ raced' = (raced \/ Busy)
    BY <1>5 DEF ReadDelete
  <2>2. raced' \in BOOLEAN
    BY <2>1, Zenon
  <2> QED BY <1>1, <2>1, <2>2 DEF LocksOK
<1> QED BY <1>2, <1>3, <1>4, <1>5 DEF Next, SenderStep, ReaderStep

-----------------------------------------------------------------------------
(***************************************************************************)
(* One active turn                                                         *)
(***************************************************************************)
LEMMA OneActiveTurnKept ==
    ASSUME IInv, [Next]_vars
    PROVE  OneActiveTurn'
<1> SUFFICES ASSUME ~raced', NEW t \in Turns, IsActive(t)'
             PROVE  active' = t
  BY DEF OneActiveTurn
<1>1. active \in 0..sent /\ sent \in Nat
  BY DEF IInv, TypeInv, TurnsOK
<1>2. CASE SendCreate
  <2>1. /\ ~Busy /\ active' = sent + 1 /\ UNCHANGED raced
        /\ \A u \in Turns \ {sent + 1} : turn'[u] = turn[u]
    BY <1>2, Sent DEF IInv
  <2>2. ASSUME t # sent + 1 PROVE FALSE
    <3>1. IsActive(t)
      BY <2>1, <2>2 DEF IsActive
    <3>2. active = t
      BY <2>1, <3>1 DEF IInv, OneActiveTurn
    <3> QED BY <2>1, <3>1, <3>2 DEF Busy, NoTurn, Turns
  <2> QED BY <2>1, <2>2
<1>3. CASE ~SendCreate
  <2>1. Calm
    BY <1>3, CalmUnlessSent DEF IInv
  <2>2. IsActive(t) /\ ~raced
    BY <2>1 DEF Calm
  <2>3. active = t
    BY <2>2 DEF IInv, OneActiveTurn
  <2>4. \A u \in Turns : IsActive(u) => active = u
    BY <2>2 DEF IInv, OneActiveTurn
  <2> QED BY <2>1, <2>3, <2>4 DEF Calm
<1> QED BY <1>2, <1>3

LEMMA UnpointingKept ==
    ASSUME IInv, [Next]_vars, RunnersOK'
    PROVE  Unpointing'
<1> SUFFICES ASSUME NEW q \in Runners, runner'[q].pc = "unpoint"
             PROVE  turn'[runner'[q].turn].status \notin {"QUEUED", "RUNNING"}
  BY DEF Unpointing, At, IsActive
<1>1. /\ runner \in [Runners -> Records]
      /\ \A r \in Runners : RunnerSound(runner[r])
      /\ sent \in Nat
  BY DEF IInv, TypeInv, RunnersOK, TurnsOK
<1>2. ASSUME runner'[q] = runner[q]
      PROVE  turn'[runner'[q].turn].status \notin {"QUEUED", "RUNNING"}
  <2>1. runner[q] # Idle /\ runner[q].turn \in Turns /\ runner[q].turn <= sent
    BY <1>1, <1>2, Constants DEF Records, RunnerSound, Idle
  <2>2. ~IsActive(runner[q].turn)
    BY <1>2 DEF IInv, Unpointing, At
  <2>3. CASE SendCreate
    <3>1. turn'[runner[q].turn] = turn[runner[q].turn]
      BY <1>1, <2>1, <2>3, Sent DEF IInv
    <3> QED BY <1>2, <2>2, <3>1 DEF IsActive
  <2>4. CASE ~SendCreate
    <3>1. Calm
      BY <2>4, CalmUnlessSent DEF IInv
    <3> QED BY <1>2, <2>1, <2>2, <3>1 DEF Calm, IsActive
  <2> QED BY <2>3, <2>4
<1>3. ASSUME NEW r \in Runners, RunnerStep(r)
      PROVE  turn'[runner'[q].turn].status \notin {"QUEUED", "RUNNING"}
  <2>1. Goes(r)
    BY <1>3, RunnerGoes DEF IInv
  <2>2. CASE q # r
    BY <1>1, <1>2, <2>1, <2>2 DEF Goes
  <2>3. CASE q = r
    <3>1. runner[r] # Idle /\ runner[r].turn \in Turns /\ runner'[r].turn = runner[r].turn
      BY <1>1, <2>1, <2>3, Constants DEF Goes, Records, Idle
    <3>2. ASSUME ~FinishSave(r) PROVE FALSE
      <4>1. /\ End(r) => runner'[r] = Idle
            /\ \A p \in Pcs : Goto(r, p) => runner'[r].pc = p
            /\ \A p \in Pcs, z \in Results :
                   Run(r, [runner[r] EXCEPT !.pc = p, !.result = z]) => runner'[r].pc = p
            /\ \A z \in Terminal : Finish(r, z) => runner'[r].pc = "finish"
        BY <3>1, Went DEF IInv
      <4>2. runner'[r].pc = "unpoint" /\ runner'[r] # Idle
        BY <2>3, Constants
      <4>3. CASE Claim(r) \/ Leave(r) \/ Clear(r) \/ FinishUnpoint(r)
        BY <4>1, <4>2, <4>3 DEF Claim, Leave, Clear, FinishUnpoint, Pcs
      <4>4. CASE Wake(r) \/ Check(r) \/ TakeSlot(r)
        BY <4>1, <4>2, <4>4 DEF Wake, Check, TakeSlot, Pcs, Terminal, Results
      <4>5. CASE Touch(r)
        <5>1. runner[r].result \in Results \ {"none"}
          BY <1>1, <3>1, <4>5 DEF Touch, At, Records, RunnerSound
        <5>2. runner[r].result \notin Terminal => runner[r].result \in {"slot", "stream"}
          BY <5>1 DEF Results
        <5>3. "slot" \in Pcs /\ "stream" \in Pcs /\ "leave" \in Pcs
          BY DEF Pcs
        <5> QED BY <4>1, <4>2, <4>5, <5>2, <5>3 DEF Touch
      <4>6. CASE Stream(r)
        <5>1. {"stream", "SUCCEEDED", "FAILED", "CANCELLED"} \subseteq Results
              /\ "touch" \in Pcs /\ "FAILED" \in Terminal
          BY DEF Results, Terminal, Pcs
        <5> QED BY <4>1, <4>2, <4>6, <5>1 DEF Stream
      <4> QED BY <1>3, <3>2, <4>3, <4>4, <4>5, <4>6 DEF RunnerStep
    <3>3. CASE FinishSave(r)
      <4>1. runner[r].result \in Terminal
        BY <1>1, <3>3 DEF FinishSave, At, RunnerSound
      <4>2. Goto(r, "leave") => runner'[r].pc = "leave"
        BY <3>1, Went DEF IInv, Pcs
      <4>3. turn' = [turn EXCEPT ![runner[r].turn] = Turn(runner[r].result, Nobody, FALSE)]
        BY <2>3, <3>3, <4>2 DEF FinishSave
      <4>4. turn'[runner[r].turn] = Turn(runner[r].result, Nobody, FALSE)
        BY <3>1, <4>3 DEF IInv, TypeInv, TurnsOK
      <4> QED BY <2>3, <3>1, <4>1, <4>4 DEF Turn, Terminal
    <3> QED BY <3>2, <3>3
  <2> QED BY <2>2, <2>3
<1>4. ASSUME NEW r \in Runners, SendCommit(r) \/ Attach(r) \/ Crash(r)
      PROVE  turn'[runner'[q].turn].status \notin {"QUEUED", "RUNNING"}
  <2>1. runner'[q] = runner[q] \/ runner'[q].pc \in {"idle", "claim"}
    <3>1. CASE SendCommit(r)
      <4> DEFINE f == [pc |-> "claim", turn |-> sent, result |-> "none"]
      <4>1. f.pc = "claim"
        OBVIOUS
      <4>2. runner' = [runner EXCEPT ![r] = f] \/ UNCHANGED runner
        BY <3>1 DEF SendCommit, Run
      <4> HIDE DEF f
      <4> QED BY <1>1, <4>1, <4>2
    <3>2. CASE Attach(r)
      <4> DEFINE f == [pc |-> "claim", turn |-> active, result |-> "none"]
      <4>1. f.pc = "claim"
        OBVIOUS
      <4>2. runner' = [runner EXCEPT ![r] = f]
        BY <3>2 DEF Attach, Run
      <4> HIDE DEF f
      <4> QED BY <1>1, <4>1, <4>2
    <3>3. CASE Crash(r)
      <4>1. runner' = [runner EXCEPT ![r] = Idle]
        BY <3>3 DEF Crash, End, Run
      <4> QED BY <1>1, <4>1, Constants
    <3> QED BY <1>4, <3>1, <3>2, <3>3
  <2> QED BY <1>2, <2>1
<1>5. ASSUME \/ SendCreate \/ SendFail \/ Stop \/ LockExpires \/ SlotExpires \/ FenceExpires
             \/ \E d \in Readers : ReaderStep(d)
             \/ \E t \in Turns : GoStale(t) \/ TurnExpires(t)
             \/ UNCHANGED vars
      PROVE  turn'[runner'[q].turn].status \notin {"QUEUED", "RUNNING"}
  <2>1. UNCHANGED runner
    BY <1>5 DEF SendCreate, SendFail, Stop, LockExpires, SlotExpires, FenceExpires, ReaderStep,
       ReadPointer, ReadTurn, ReadDelete, GoStale, TurnExpires, vars
  <2> QED BY <1>2, <2>1
<1> QED BY <1>3, <1>4, <1>5 DEF Next, SenderStep

-----------------------------------------------------------------------------
(***************************************************************************)
(* The prompt slot                                                         *)
(***************************************************************************)
\* What a step of a runner does with the slot.
SlotGoes(r) ==
    /\ slot' = r => WithSlot(runner'[r])
    /\ NeedsSlot(runner'[r]) => slot' = r
    /\ \/ slot' = slot
       \/ slot = Nobody /\ slot' = r
       \/ slot = r /\ slot' \in {Nobody, Dead}

LEMMA SlotGoesOn ==
    ASSUME TypeInv, SlotOK, NEW r \in Runners, RunnerStep(r)
    PROVE  SlotGoes(r)
<1> DEFINE f == runner[r]
<1>1. f # Idle
  BY RunnerGoes DEF Goes
<1>2. /\ End(r) => runner'[r] = Idle
      /\ \A p \in Pcs : Goto(r, p) => runner'[r].pc = p /\ runner'[r].result = f.result
      /\ \A p \in Pcs, z \in Results :
             Run(r, [f EXCEPT !.pc = p, !.result = z]) =>
                 runner'[r].pc = p /\ runner'[r].result = z
      /\ \A z \in Terminal : Finish(r, z) => runner'[r].pc = "finish"
  BY <1>1, Went
<1>3. /\ slot = r => WithSlot(f)
      /\ NeedsSlot(f) => slot = r
  BY DEF SlotOK
<1>4. ~NeedsSlot(Idle) /\ ~WithSlot(Idle)
  BY DEF NeedsSlot, WithSlot, Idle
<1>5. Nobody \notin Runners
  BY ConstantsAssumption
<1>6. ASSUME Claim(r) PROVE SlotGoes(r)
  <2>1. slot' = slot /\ slot # r
    BY <1>3, <1>6 DEF Claim, At, WithSlot
  <2>2. runner'[r] = Idle \/ runner'[r].pc = "wake"
    BY <1>2, <1>6 DEF Claim, Pcs
  <2> QED BY <1>4, <2>1, <2>2 DEF SlotGoes, NeedsSlot
<1>7. ASSUME Wake(r) PROVE SlotGoes(r)
  <2>1. slot' = slot /\ slot # r
    BY <1>3, <1>7 DEF Wake, At, WithSlot, cache
  <2>2. \/ runner'[r].pc = "touch" /\ runner'[r].result = "slot"
        \/ runner'[r].pc = "finish"
    BY <1>2, <1>7 DEF Wake, Pcs, Results, Terminal
  <2> QED BY <2>1, <2>2 DEF SlotGoes, NeedsSlot
<1>8. ASSUME Touch(r) PROVE SlotGoes(r)
  <2>1. slot' = slot /\ f.pc = "touch"
    BY <1>8 DEF Touch, At
  <2>2. f.result \in Results \ {"none"}
    BY <1>1, <2>1 DEF TypeInv, RunnersOK, RunnerSound, Records
  <2>3. \/ f.result \in Terminal /\ runner'[r].pc = "finish"
        \/ f.result \notin Terminal /\ runner'[r].pc = f.result
        \/ runner'[r].pc = "leave"
    <3>1. f.result \notin Terminal => f.result \in Pcs
      BY <2>2 DEF Results, Pcs
    <3>2. "leave" \in Pcs
      BY DEF Pcs
    <3> QED BY <1>2, <1>8, <3>1, <3>2 DEF Touch
  <2>4. f.result = "slot" => slot # r
    BY <1>3, <2>1 DEF WithSlot
  <2>5. f.result # "slot" => slot = r
    BY <1>3, <2>1 DEF NeedsSlot
  <2>6. f.result \in Terminal => f.result # "slot"
    BY DEF Terminal
  <2>7. f.result \notin Terminal => f.result \in {"slot", "stream"}
    BY <2>2 DEF Results
  <2>8. f.result = "slot" => ~NeedsSlot(runner'[r])
    BY <2>3, <2>6 DEF NeedsSlot
  <2>9. f.result # "slot" => WithSlot(runner'[r])
    BY <2>3, <2>7 DEF WithSlot
  <2> QED BY <2>1, <2>4, <2>5, <2>8, <2>9 DEF SlotGoes
<1>9. ASSUME TakeSlot(r) PROVE SlotGoes(r)
  <2>1. slot # r
    BY <1>3, <1>9 DEF TakeSlot, At, WithSlot
  <2>2. \/ slot = Nobody /\ slot' = r /\ runner'[r].pc = "check"
        \/ slot' = slot /\ runner'[r].pc = "finish"
    BY <1>2, <1>9 DEF TakeSlot, Pcs, Terminal
  <2> QED BY <2>1, <2>2 DEF SlotGoes, NeedsSlot, WithSlot
<1>10. ASSUME Check(r) PROVE SlotGoes(r)
  <2>1. slot' = slot /\ slot = r
    BY <1>3, <1>10 DEF Check, At, NeedsSlot, cache
  <2>2. runner'[r].pc \in {"finish", "stream"}
    BY <1>2, <1>10 DEF Check, Pcs, Terminal
  <2> QED BY <2>1, <2>2 DEF SlotGoes, WithSlot
<1>11. ASSUME Stream(r) PROVE SlotGoes(r)
  <2>1. slot' = slot /\ slot = r
    BY <1>3, <1>11 DEF Stream, At, NeedsSlot, cache
  <2>2. /\ {"stream", "SUCCEEDED", "FAILED", "CANCELLED"} \subseteq Results \ {"slot"}
        /\ "touch" \in Pcs /\ "FAILED" \in Terminal
    BY DEF Results, Terminal, Pcs
  <2>3. \/ runner'[r].pc = "touch" /\ runner'[r].result # "slot"
        \/ runner'[r].pc = "finish"
    BY <1>2, <1>11, <2>2 DEF Stream
  <2> QED BY <2>1, <2>3 DEF SlotGoes, WithSlot
<1>12. ASSUME FinishSave(r) \/ FinishUnpoint(r) PROVE SlotGoes(r)
  <2>1. slot' = slot
    BY <1>12 DEF FinishSave, FinishUnpoint
  <2>2. runner'[r].pc \in {"unpoint", "leave"}
    BY <1>2, <1>12 DEF FinishSave, FinishUnpoint, Pcs
  <2> QED BY <2>1, <2>2 DEF SlotGoes, WithSlot, NeedsSlot
<1>13. ASSUME Leave(r) PROVE SlotGoes(r)
  <2>1. \/ slot = r /\ slot' = r /\ runner'[r].pc = "clear"
        \/ slot = r /\ slot' = Nobody /\ runner'[r] = Idle
        \/ slot # r /\ slot' = slot /\ runner'[r] = Idle
    BY <1>2, <1>13 DEF Leave, Pcs, SlotReleased
  <2> QED BY <1>4, <1>5, <2>1 DEF SlotGoes, WithSlot
<1>14. ASSUME Clear(r) PROVE SlotGoes(r)
  <2>1. slot = r /\ slot' = Nobody /\ runner'[r] = Idle
    BY <1>2, <1>3, <1>14 DEF Clear, At, NeedsSlot, SlotReleased
  <2> QED BY <1>4, <1>5, <2>1 DEF SlotGoes
<1> QED BY <1>6, <1>7, <1>8, <1>9, <1>10, <1>11, <1>12, <1>13, <1>14 DEF RunnerStep

LEMMA SlotKeptOK ==
    ASSUME TypeInv, SlotOK, [Next]_vars
    PROVE  SlotOK'
<1>1. /\ slot \in Runners \union {Nobody, Dead}
      /\ \A q \in Runners : /\ slot = q => WithSlot(runner[q])
                            /\ NeedsSlot(runner[q]) => slot = q
      /\ runner \in [Runners -> Records]
  BY DEF SlotOK, TypeInv, RunnersOK
<1>2. ~NeedsSlot(Idle) /\ ~WithSlot(Idle) /\ Nobody \notin Runners /\ Dead \notin Runners
  BY ConstantsAssumption DEF NeedsSlot, WithSlot, Idle
<1>3. ASSUME NEW r \in Runners, SlotGoes(r), \A q \in Runners \ {r} : runner'[q] = runner[q]
      PROVE  SlotOK'
  <2>1. slot' \in Runners \union {Nobody, Dead}
    BY <1>1, <1>3 DEF SlotGoes
  <2>2. ASSUME NEW q \in Runners
        PROVE  /\ slot' = q => WithSlot(runner'[q])
               /\ NeedsSlot(runner'[q]) => slot' = q
    <3>1. CASE q = r
      BY <1>3, <3>1 DEF SlotGoes
    <3>2. CASE q # r
      <4>1. runner'[q] = runner[q]
        BY <1>3, <3>2
      <4> QED BY <1>1, <1>2, <1>3, <3>2, <4>1 DEF SlotGoes
    <3> QED BY <3>1, <3>2
  <2> QED BY <2>1, <2>2 DEF SlotOK, WithSlot, NeedsSlot
<1>4. ASSUME NEW r \in Runners, RunnerStep(r) PROVE SlotOK'
  <2>1. \A q \in Runners \ {r} : runner'[q] = runner[q]
    BY <1>1, <1>4, RunnerGoes DEF Goes
  <2>2. SlotGoes(r)
    BY <1>4, SlotGoesOn
  <2> QED BY <1>3, <2>1, <2>2
<1>5. ASSUME NEW r \in Runners, NEW t, runner[r] = Idle,
             Run(r, [pc |-> "claim", turn |-> t, result |-> "none"]), UNCHANGED slot
      PROVE  SlotOK'
  <2> DEFINE f == [pc |-> "claim", turn |-> t, result |-> "none"]
  <2>1. f.pc = "claim" /\ runner' = [runner EXCEPT ![r] = f]
    BY <1>5 DEF Run
  <2> HIDE DEF f
  <2>2. runner'[r].pc = "claim" /\ \A q \in Runners \ {r} : runner'[q] = runner[q]
    BY <1>1, <2>1
  <2>3. slot # r /\ UNCHANGED slot
    BY <1>1, <1>2, <1>5
  <2>4. SlotGoes(r)
    BY <2>2, <2>3 DEF SlotGoes, NeedsSlot
  <2> QED BY <1>3, <2>2, <2>4
<1>6. ASSUME UNCHANGED <<runner, slot>> PROVE SlotOK'
  BY <1>1, <1>6 DEF SlotOK, WithSlot, NeedsSlot
<1>7. ASSUME NEW r \in Runners, SendCommit(r) \/ Attach(r) PROVE SlotOK'
  BY <1>5, <1>6, <1>7 DEF SendCommit, Attach, cache
<1>8. ASSUME NEW r \in Runners, Crash(r) PROVE SlotOK'
  <2>1. runner' = [runner EXCEPT ![r] = Idle] /\ slot' = IF slot = r THEN Dead ELSE slot
    BY <1>8 DEF Crash, End, Run
  <2>2. runner'[r] = Idle /\ \A q \in Runners \ {r} : runner'[q] = runner[q]
    BY <1>1, <2>1
  <2>3. SlotGoes(r)
    BY <1>2, <2>1, <2>2 DEF SlotGoes
  <2> QED BY <1>3, <2>2, <2>3
<1>9. ASSUME SlotExpires PROVE SlotOK'
  <2>1. slot = Dead /\ slot' = Nobody /\ UNCHANGED runner
    BY <1>9 DEF SlotExpires
  <2>2. \A q \in Runners : ~NeedsSlot(runner[q])
    BY <1>1, <1>2, <2>1
  <2> QED BY <1>2, <2>1, <2>2 DEF SlotOK, WithSlot, NeedsSlot
<1>10. ASSUME \/ SendCreate \/ SendFail \/ Stop \/ LockExpires \/ FenceExpires
              \/ \E d \in Readers : ReaderStep(d)
              \/ \E t \in Turns : GoStale(t) \/ TurnExpires(t)
              \/ UNCHANGED vars
       PROVE  SlotOK'
  <2>1. UNCHANGED <<runner, slot>>
    BY <1>10 DEF SendCreate, SendFail, Stop, LockExpires, FenceExpires, ReaderStep, ReadPointer,
       ReadTurn, ReadDelete, GoStale, TurnExpires, vars, cache
  <2> QED BY <1>6, <2>1
<1> QED BY <1>4, <1>7, <1>8, <1>9, <1>10 DEF Next, SenderStep

-----------------------------------------------------------------------------
(***************************************************************************)
(* The theorems                                                            *)
(***************************************************************************)
LEMMA Invariance == Spec => []IInv
<1>1. Init => IInv
  <2> SUFFICES ASSUME Init PROVE IInv
    OBVIOUS
  <2>1. RunnersOK
    BY Constants DEF Init, RunnersOK, RunnerSound
  <2>2. TurnsOK
    <3>1. Turn("EXPIRED", Nobody, FALSE) \in TurnRecords
          /\ Turn("EXPIRED", Nobody, FALSE).status = "EXPIRED"
      BY TurnFacts
    <3>2. /\ turn = [t \in Turns |-> Turn("EXPIRED", Nobody, FALSE)]
          /\ active = 0 /\ sent = 0 /\ sender = Idle
      BY DEF Init, NoTurn
    <3>3. turn \in [Turns -> TurnRecords] /\ \A t \in Turns : turn[t].status = "EXPIRED"
      BY <3>1, <3>2, Zenon
    <3>4. sent \in 0..MaxTurns /\ active \in 0..sent
      BY <3>2, ConstantsAssumption
    <3> QED BY <3>2, <3>3, <3>4 DEF TurnsOK, TurnRecords
  <2>3. LocksOK /\ SlotOK
    BY ConstantsAssumption DEF Init, LocksOK, SlotOK, WithSlot, NeedsSlot, Idle
  <2>4. \A t \in Turns : ~IsActive(t)
    BY TurnFacts DEF Init, IsActive, Turn
  <2>5. Unpointing
    BY DEF Init, Unpointing, At, Idle
  <2> QED BY <2>1, <2>2, <2>3, <2>4, <2>5 DEF IInv, TypeInv, OneActiveTurn
<1>2. IInv /\ [Next]_vars => IInv'
  <2> SUFFICES ASSUME IInv, [Next]_vars PROVE IInv'
    OBVIOUS
  <2>1. TypeInv'
    BY RunnersKept, TurnsKept, LocksKept DEF IInv, TypeInv
  <2>2. SlotOK' /\ OneActiveTurn' /\ Unpointing'
    BY <2>1, SlotKeptOK, OneActiveTurnKept, UnpointingKept DEF IInv, TypeInv
  <2> QED BY <2>1, <2>2 DEF IInv
<1> QED BY <1>1, <1>2, PTL DEF Spec

\* The prompt slot is exclusive and never left behind: a runner that talks to
\* the agent has it, and a thread that has ended does not (prompt_slot and the
\* finally clause of _drive_turn).
THEOREM TypeCorrect == Spec => []TypeOK
<1>1. IInv => TypeOK
  <2> SUFFICES ASSUME IInv PROVE TypeOK
    OBVIOUS
  <2>1. /\ turn \in [Turns -> [status : Statuses, runner : Runners \union {Nobody}, stale : BOOLEAN]]
        /\ active \in 0..sent /\ sent \in 0..MaxTurns /\ MaxTurns \in Nat
    BY ConstantsAssumption DEF IInv, TypeInv, TurnsOK
  <2>2. active \in Turns \union {NoTurn}
    BY <2>1 DEF Turns, NoTurn
  <2>3. ASSUME NEW r \in Runners
        PROVE  /\ runner[r] = Idle \/ runner[r].pc \in Pcs
               /\ slot = r => runner[r] # Idle
               /\ At(r, "stream") => slot = r
    <3>1. runner[r] \in Records
      BY DEF IInv, TypeInv, RunnersOK
    <3>2. /\ slot = r => WithSlot(runner[r])
          /\ NeedsSlot(runner[r]) => slot = r
      BY DEF IInv, SlotOK
    <3> QED BY <3>1, <3>2 DEF Records, WithSlot, NeedsSlot, At, Idle
  <2> QED BY <2>1, <2>2, <2>3 DEF TypeOK, IInv, TypeInv, LocksOK, SlotOK
<1> QED BY <1>1, Invariance, PTL

\* A session has at most one active turn, and it is the one its pointer names
\* (create_turn and claim_turn_for_runner under the session's lock).
THEOREM OneActive == Spec => []OneActiveTurn
<1>1. IInv => OneActiveTurn
  BY DEF IInv
<1> QED BY <1>1, Invariance, PTL

\* A turn that has ended is never claimed, failed or cancelled into an active
\* one again, however many runners are started for it.
THEOREM EndedForGood == Spec => EndedStaysEnded
<1>1. IInv /\ [Next]_vars =>
          [\A t \in Turns : turn[t].status \in Terminal => turn'[t].status \in Terminal]_vars
  <2> SUFFICES ASSUME IInv, [Next]_vars, NEW t \in Turns, turn[t].status \in Terminal
               PROVE  turn'[t].status \in Terminal
    OBVIOUS
  <2>1. CASE SendCreate
    <3>1. t # sent + 1
      BY <2>1, Sent, TurnFacts DEF IInv
    <3> QED BY <2>1, <3>1, Sent DEF IInv
  <2>2. CASE ~SendCreate
    BY <2>2, CalmUnlessSent DEF IInv, Calm
  <2> QED BY <2>1, <2>2
<1> QED BY <1>1, Invariance, PTL DEF Spec, EndedStaysEnded

\* A running turn is ended by the runner whose id it carries, or by the send_message
\* that could not commit it: finish_turn compares the runner under the lock.
THEOREM OwnerEnds == Spec => EndedByOwner
<1> DEFINE Owned == \A t \in Turns :
                turn[t].status = "RUNNING" /\ turn'[t].status \in Terminal =>
                    \/ sender.pc = "fail"
                    \/ \E r \in Runners : At(r, "finish") /\ runner[r].turn = t /\ turn[t].runner = r
<1>1. IInv /\ [Next]_vars => [Owned]_vars
  <2> SUFFICES ASSUME IInv, [Next]_vars, NEW t \in Turns, turn[t].status = "RUNNING",
                      turn'[t].status \in Terminal
               PROVE  \/ sender.pc = "fail"
                      \/ \E r \in Runners : At(r, "finish") /\ runner[r].turn = t /\ turn[t].runner = r
    OBVIOUS
  <2>1. turn \in [Turns -> TurnRecords]
    BY DEF IInv, TypeInv, TurnsOK, TurnRecords
  <2>3. ASSUME NEW r \in Runners, RunnerStep(r)
        PROVE  At(r, "finish") /\ runner[r].turn = t /\ turn[t].runner = r
    <3>1. ~Claim(r)
      <4> SUFFICES ASSUME Claim(r) PROVE FALSE
        OBVIOUS
      <4>1. turn' = [turn EXCEPT ![runner[r].turn] = Turn("RUNNING", r, FALSE)]
        BY <2>1, TurnFacts DEF Claim
      <4> QED BY <2>1, <4>1, TurnFacts DEF Turn
    <3>2. ~Touch(r)
      <4> SUFFICES ASSUME Touch(r) PROVE FALSE
        OBVIOUS
      <4>1. turn' = [turn EXCEPT ![runner[r].turn].stale = FALSE]
        BY <2>1, TurnFacts DEF Touch
      <4> QED BY <2>1, <4>1, TurnFacts DEF TurnRecords
    <3>3. FinishSave(r)
      BY <2>1, <2>3, <3>1, <3>2, TurnFacts DEF RunnerStep, Wake, TakeSlot, Check, Stream, FinishUnpoint,
         Leave, Clear, cache
    <3>4. /\ Owns(r, runner[r].turn) /\ At(r, "finish")
          /\ turn' = [turn EXCEPT ![runner[r].turn] = Turn(runner[r].result, Nobody, FALSE)]
      BY <3>3, <2>1, TurnFacts DEF FinishSave
    <3>5. runner[r].turn = t
      BY <2>1, <3>4, TurnFacts
    <3> QED BY <3>4, <3>5 DEF Owns
  <2>4. CASE SendCreate
    BY <2>1, <2>4, TurnFacts DEF SendCreate, Turn
  <2>5. CASE SendFail
    BY <2>5 DEF SendFail
  <2>6. ASSUME NEW u \in Turns, GoStale(u) PROVE FALSE
    BY <2>1, <2>6, TurnFacts DEF GoStale, TurnRecords
  <2>7. ASSUME NEW u \in Turns, TurnExpires(u) PROVE FALSE
    BY <2>1, <2>7, TurnFacts DEF TurnExpires, Turn
  <2>8. ASSUME UNCHANGED turn PROVE FALSE
    BY <2>8, TurnFacts
  <2> QED
    BY <2>3, <2>4, <2>5, <2>6, <2>7, <2>8 DEF Next, SenderStep, SendCommit, Stop, ReaderStep, ReadPointer,
       ReadTurn, ReadDelete, LockExpires, SlotExpires, FenceExpires, Attach, Crash, vars, cache
<1> QED BY <1>1, Invariance, PTL DEF Spec, EndedByOwner
=============================================================================
