------------------------------ MODULE TeamState ------------------------------
(***************************************************************************)
(* The repository-wide coordination ledger of engines/team-state.ts, the   *)
(* durable merge queue of engines/merge-queue.ts, and the part of the      *)
(* scheduler's runOnce and runSingleOnce that drives them.                 *)
(*                                                                         *)
(* One execution is one run of runSingleOnce: it claims the write scopes   *)
(* of a task, runs a coding engine in a worktree, waits for the merge      *)
(* turn, lands on the main branch and reports to the backlog.  Every       *)
(* method of TeamState is one SQLite transaction (BEGIN IMMEDIATE), hence  *)
(* one action; the scheduler's steps between them interleave, a daemon may *)
(* crash between any two of them, and a single write may fail.             *)
(*                                                                         *)
(* Time is one flag per lease: a lease that nobody renews may lapse, and   *)
(* whoever next calls reapExpired acts on it.                              *)
(***************************************************************************)
EXTENDS Integers, Sequences, FiniteSets, Functions

CONSTANTS
    Exec,         \* execution identifiers; each names one run at most
    Task,         \* backlog tasks
    Project,      \* configurations that share one Git common directory, each
                  \* with its backlog, its run.db and at most one daemon
    Home,         \* the configuration whose backlog holds a task
    Scope,        \* the leaves of the repository that manifests are made of
    Manifest,     \* write scopes of a task; all of Scope when undeclared
    Concurrency,  \* cfg.concurrency
    FixedCost,    \* the engine's fixed cost of one turn, in some unit
    HardCap,      \* cfg.dailyHardUsd in that unit; 0 disables the check
    AttemptCap,   \* the engine's dailyAttemptCap; 0 stands for undefined
    MaxTurns,     \* bound: worker turns of one execution
    MaxFaults,    \* bound: writes that fail in one behaviour
    Stoppable,    \* configurations whose operator creates and removes a stop file
    Stallable,    \* configurations whose process may be suspended for longer
                  \* than a lease (machine sleep, blocked event loop)
    None          \* no captain, no task

ASSUME TeamAssumption ==
    /\ IsFiniteSet(Exec)
    /\ Home \in [Task -> Project]
    /\ Manifest \in [Task -> SUBSET Scope]
    /\ \A t \in Task : Manifest[t] # {}
    /\ Concurrency \in Nat \ {0}
    /\ FixedCost \in Nat /\ HardCap \in Nat /\ AttemptCap \in Nat
    /\ MaxTurns \in Nat \ {0} /\ MaxFaults \in Nat
    /\ Stoppable \subseteq Project /\ Stallable \subseteq Project
    /\ None \notin Exec /\ None \notin Task

VARIABLES
    pc, task,     \* where an execution is, and the task it works on
    frame,        \* its local variables, see Frame
    \* team_claims, and team_control_attempts as a count per execution
    state, active, lapsed, reserved, extra,
    \* merge_queue and the 'merge-captain' row of team_leases
    row, seq, captain, captainLapsed,
    \* backlogs, main branch, run.db's billed totals, stop files
    backlog, main, spent, stop,
    faults        \* writes that have failed so far

claimVars == <<state, active, lapsed, reserved, extra>>
queueVars == <<row, seq, captain, captainLapsed>>
worldVars == <<backlog, main, spent, stop>>
vars      == <<pc, task, frame, claimVars, queueVars, worldVars, faults>>

------------------------------------------------------------------------------
\* Where an execution of a live process can be.
Live == {"picking", "running", "produced", "pausing", "queued", "merging",
         "verifying", "leaving", "settling", "recovering", "reporting", "closing"}

\* Where its worker or its merge may touch the scopes it owns.
Working == Live \ {"picking"}

\* Where it has a place in the promise chain of its own process.
Chained == {"queued", "merging", "verifying", "leaving", "settling", "recovering"}

\* Where it runs the function passed to withMergeTurn.
InTurn == {"merging", "verifying"}

Waiting == {"READY", "MERGING"}

(***************************************************************************)
(* The locals of runSingleOnce: the billed total read at the start, the    *)
(* worker turns dispatched, the length of main the worktree was forked from *)
(* or rebased onto, that length when the gate last passed, what the merge  *)
(* turn returned, whether the run is a retry, and whether its runOnce has  *)
(* already rejected because another member of the batch threw.             *)
(***************************************************************************)
Results == {"none", "merged", "paused", "refused", "recovery", "threw"}

Frame == [seen : Nat, turns : Nat, base : Nat, gated : Nat, result : Results,
          retried : BOOLEAN, loose : BOOLEAN]

Blank == [seen |-> 0, turns |-> 0, base |-> 0, gated |-> 0, result |-> "none",
          retried |-> FALSE, loose |-> FALSE]

Conflict(t, u) == Manifest[t] \cap Manifest[u] # {}

\* The execution's configuration: its daemon, backlog and stop file.
ProjectOf(e) == Home[task[e]]

LiveIn(p) == {e \in Exec : pc[e] \in Live /\ ProjectOf(e) = p}

Attempts == Cardinality({e \in Exec : state[e] # "NONE"})
            + SumFunctionOnSet(extra, Exec)

AttemptCapReached == AttemptCap > 0 /\ Attempts >= AttemptCap

(***************************************************************************)
(* reapExpired: what the tables hold once the lapsed leases are reaped.    *)
(* A lapsed claim is quarantined together with its waiting queue row; a    *)
(* lapsed captain's row goes back to READY and the lease row is deleted.   *)
(***************************************************************************)
Expired == {e \in Exec : active[e] /\ lapsed[e]}

ReapedActive == [e \in Exec |-> active[e] /\ e \notin Expired]

\* Mutant: an expired claim is released, as an ordinary lock would be.
ReapedStateReleased == [e \in Exec |-> IF e \in Expired THEN "RELEASED" ELSE state[e]]

ReapedState == [e \in Exec |-> IF e \in Expired THEN "QUARANTINED" ELSE state[e]]

\* Mutant: the queue rows of expired claims are left alone.
ReapedRowKept ==
    [e \in Exec |-> IF captain = e /\ captainLapsed /\ row[e] = "MERGING" THEN "READY" ELSE row[e]]

ReapedRow ==
    [e \in Exec |->
        IF e \in Expired /\ row[e] \in Waiting THEN "QUARANTINED"
        ELSE IF captain = e /\ captainLapsed /\ row[e] = "MERGING" THEN "READY"
        ELSE row[e]]

\* Mutant: the lease row of a lapsed captain is not deleted.
ReapedCaptainKept == captain

ReapedCaptain == IF captainLapsed THEN None ELSE captain

\* Claims that own their scopes and a share of the cost cap after the reaping.
Holders == {e \in Exec : ReapedActive[e] \/ ReapedState[e] = "QUARANTINED"}

ReapExpired ==
    /\ active' = ReapedActive
    /\ state' = ReapedState
    /\ row' = ReapedRow
    /\ captain' = ReapedCaptain
    /\ captainLapsed' = FALSE
    /\ lapsed' = [e \in Exec |-> FALSE]

\* A write that fails, within the bound.
Fault == faults < MaxFaults /\ faults' = faults + 1

\* blockTask: the task leaves the open list, unless the backlog write fails;
\* that failure is only logged, and the task stays open.
BlockTask(t) ==
    \/ backlog' = [backlog EXCEPT ![t] = "blocked"] /\ UNCHANGED faults
    \/ Fault /\ UNCHANGED backlog

Goto(e, label) == pc' = [pc EXCEPT ![e] = label]

\* The executions in E are over, and their locals with them.
Return(E, label) ==
    /\ pc' = [e \in Exec |-> IF e \in E THEN label ELSE pc[e]]
    /\ frame' = [e \in Exec |-> IF e \in E THEN Blank ELSE frame[e]]

------------------------------------------------------------------------------
Init ==
    /\ pc = [e \in Exec |-> "idle"]
    /\ task = [e \in Exec |-> None]
    /\ frame = [e \in Exec |-> Blank]
    /\ state = [e \in Exec |-> "NONE"]
    /\ active = [e \in Exec |-> FALSE]
    /\ lapsed = [e \in Exec |-> FALSE]
    /\ reserved = [e \in Exec |-> 0]
    /\ extra = [e \in Exec |-> 0]
    /\ row = [e \in Exec |-> "NONE"]
    /\ seq = [e \in Exec |-> 0]
    /\ captain = None
    /\ captainLapsed = FALSE
    /\ backlog = [t \in Task |-> "open"]
    /\ main = <<>>
    /\ spent = [p \in Project |-> 0]
    /\ stop = {}
    /\ faults = 0

------------------------------------------------------------------------------
(* runOnce: one cycle of a daemon. *)

Idle == {e \in Exec : pc[e] = "idle"}

\* A cycle starts a batch of compatible open tasks, one execution each.  It
\* begins when the last one has settled, or rejected because a member threw.
\* The billed total is read here, before the preflight that yields.
StartCycle(p) ==
    /\ p \notin stop
    /\ \A e \in LiveIn(p) : frame[e].loose
    /\ HardCap > 0 => spent[p] < HardCap
    /\ \E E \in SUBSET Idle :
        /\ E # {} /\ Cardinality(E) <= Concurrency
        /\ \E pick \in [E -> {t \in Task : Home[t] = p /\ backlog[t] = "open"}] :
            /\ \A e, f \in E : e # f => ~Conflict(pick[e], pick[f])
            /\ pc' = [e \in Exec |-> IF e \in E THEN "picking" ELSE pc[e]]
            /\ task' = [e \in Exec |-> IF e \in E THEN pick[e] ELSE task[e]]
            /\ frame' = [e \in Exec |->
                            IF e \in E THEN [Blank EXCEPT !.seen = spent[p]] ELSE frame[e]]
    /\ UNCHANGED <<claimVars, queueVars, worldVars, faults>>

\* Nothing was claimed: preflight failed or no candidate was left; or the main
\* worktree was dirty or the ledger could not be used, and the task is blocked.
PickNothing(e) ==
    /\ pc[e] = "picking"
    /\ UNCHANGED <<backlog, faults>> \/ BlockTask(task[e])
    /\ Return({e}, "ended")
    /\ UNCHANGED <<task, claimVars, queueVars, main, spent, stop>>

------------------------------------------------------------------------------
(* TeamState.claim.  The attempt cap is looked at before the reaping. *)

ClaimAttemptCap(e) ==
    /\ pc[e] = "picking"
    /\ AttemptCapReached
    /\ Return({e}, "ended")
    /\ UNCHANGED <<task, claimVars, queueVars, worldVars, faults>>

\* A claim or a queue row that needs manual recovery stands for the task.
NeedsRecovery(t) ==
    \E e \in Exec : /\ task[e] = t
                    /\ \/ ReapedState[e] = "QUARANTINED"
                       \/ ReapedRow[e] \in {"QUARANTINED", "PAUSED_READY"}

OwnershipConflict(t) == \E e \in Holders : Conflict(t, task[e])

CostExceeded(e) ==
    /\ HardCap > 0
    /\ frame[e].seen + SumFunctionOnSet(reserved, Holders) + FixedCost > HardCap

ClaimQuarantined(e) ==
    /\ pc[e] = "picking"
    /\ ~AttemptCapReached
    /\ NeedsRecovery(task[e])
    /\ ReapExpired
    /\ BlockTask(task[e])
    /\ Return({e}, "ended")
    /\ UNCHANGED <<task, reserved, extra, seq, main, spent, stop>>

ClaimDeferred(e) ==
    /\ pc[e] = "picking"
    /\ ~AttemptCapReached
    /\ ~NeedsRecovery(task[e])
    /\ OwnershipConflict(task[e]) \/ CostExceeded(e)
    /\ ReapExpired
    /\ Return({e}, "ended")
    /\ UNCHANGED <<task, reserved, extra, seq, worldVars, faults>>

\* The claim is inserted and prepareWorktree forks from the current main.
ClaimGranted(e) ==
    /\ pc[e] = "picking"
    /\ ~AttemptCapReached
    /\ ~NeedsRecovery(task[e])
    /\ ~OwnershipConflict(task[e])
    /\ ~CostExceeded(e)
    /\ active' = [ReapedActive EXCEPT ![e] = TRUE]
    /\ state' = [ReapedState EXCEPT ![e] = "RUNNING"]
    /\ lapsed' = [f \in Exec |-> FALSE]
    /\ reserved' = [reserved EXCEPT ![e] = FixedCost]
    /\ row' = ReapedRow
    /\ captain' = ReapedCaptain
    /\ captainLapsed' = FALSE
    /\ frame' = [frame EXCEPT ![e].turns = 1, ![e].base = Len(main)]
    /\ Goto(e, "running")
    /\ UNCHANGED <<task, extra, seq, worldVars, faults>>

------------------------------------------------------------------------------
(* The engine at work. *)

\* nudgeNoCommit: one more turn of the same attempt when the first left no
\* commit; it looks at the execution's own charge and the billed total only.
Nudge(e) ==
    /\ pc[e] = "running"
    /\ frame[e].turns = 1 /\ MaxTurns > 1
    /\ ProjectOf(e) \notin stop
    /\ HardCap > 0 => spent[ProjectOf(e)] + 2 * FixedCost <= HardCap
    /\ frame' = [frame EXCEPT ![e].turns = 2]
    /\ UNCHANGED <<pc, task, claimVars, queueVars, worldVars, faults>>

\* What admitAdditionalTurn reserves for one more turn.
ExtraReservation(e) ==
    LET need == FixedCost * (frame[e].turns + 1)
    IN  IF need > reserved[e] THEN need ELSE reserved[e]

ExtraTurnFits(e) ==
    /\ ReapedActive[e] /\ ReapedState[e] = "RUNNING"
    /\ row[e] = "NONE"
    /\ ~AttemptCapReached
    /\ HardCap > 0 =>
        spent[ProjectOf(e)] + SumFunctionOnSet(reserved, Holders \ {e})
            + ExtraReservation(e) <= HardCap

\* TeamState.admitAdditionalTurn, for a queued operator instruction.
AdmitAdditionalTurn(e) ==
    /\ pc[e] = "running"
    /\ frame[e].turns < MaxTurns
    /\ ProjectOf(e) \notin stop
    /\ ExtraTurnFits(e)
    /\ ReapExpired
    /\ extra' = [extra EXCEPT ![e] = @ + 1]
    /\ reserved' = [reserved EXCEPT ![e] = ExtraReservation(e)]
    /\ frame' = [frame EXCEPT ![e].turns = @ + 1]
    /\ UNCHANGED <<pc, task, seq, worldVars, faults>>

\* A refused turn still reaps.
RefuseAdditionalTurn(e) ==
    /\ pc[e] = "running"
    /\ frame[e].turns < MaxTurns
    /\ ProjectOf(e) \notin stop
    /\ ~ExtraTurnFits(e)
    /\ ReapExpired
    /\ UNCHANGED <<pc, task, frame, reserved, extra, seq, worldVars, faults>>

Charge(e) == spent' = [spent EXCEPT ![ProjectOf(e)] = @ + FixedCost * frame[e].turns]

\* The engine finished with a candidate commit; its charge is recorded.
RunSucceeds(e) ==
    /\ pc[e] = "running"
    /\ Charge(e)
    /\ Goto(e, "produced")
    /\ UNCHANGED <<task, frame, claimVars, queueVars, backlog, main, stop, faults>>

\* The worktree could not be made, or the engine failed: resolveFailure keeps the
\* task open for another attempt, or blocks it at the attempt limit.
RunFails(e) ==
    /\ pc[e] = "running"
    /\ Charge(e) \/ UNCHANGED spent
    /\ UNCHANGED <<backlog, faults>> \/ BlockTask(task[e])
    /\ Goto(e, "closing")
    /\ UNCHANGED <<task, frame, claimVars, queueVars, main, stop>>

\* TeamState.release as the scheduler calls it: a failing write is ignored and
\* the claim is left to lapse.
Release(e) ==
    \/ /\ active' = [active EXCEPT ![e] = FALSE]
       /\ lapsed' = [lapsed EXCEPT ![e] = FALSE]
       /\ state' = [state EXCEPT ![e] = IF active[e] THEN "RELEASED" ELSE @]
       /\ UNCHANGED faults
    \/ active[e] /\ Fault /\ UNCHANGED <<active, lapsed, state>>

\* The engine was terminated from outside: the claim is released at once and
\* the same task runs again in the same cycle, one time.
InfraRetry(e) ==
    /\ pc[e] = "running"
    /\ ~frame[e].retried
    /\ ProjectOf(e) \notin stop
    /\ Release(e)
    /\ \E f \in Idle :
        /\ pc' = [pc EXCEPT ![e] = "ended", ![f] = "picking"]
        /\ task' = [task EXCEPT ![f] = task[e]]
        /\ frame' = [frame EXCEPT
                        ![e] = Blank,
                        ![f] = [Blank EXCEPT !.seen = spent[ProjectOf(e)], !.retried = TRUE,
                                             !.loose = frame[e].loose]]
    /\ UNCHANGED <<reserved, extra, queueVars, worldVars>>

\* TeamState.quarantine: the claim stays active, under another state.
Quarantine(e) ==
    state' = [state EXCEPT ![e] = IF active[e] THEN "QUARANTINED" ELSE @]

\* quarantineRun: the worker's end is unconfirmed.  The claim keeps its scopes
\* and is not released; the backlog row is blocked.
QuarantineRun(e) ==
    /\ pc[e] \in {"running", "produced", "reporting"}
    /\ Quarantine(e)
    /\ IF pc[e] = "running" THEN Charge(e) ELSE UNCHANGED spent
    /\ BlockTask(task[e])
    /\ Return({e}, "ended")
    /\ UNCHANGED <<task, active, lapsed, reserved, extra, queueVars, main, stop>>

\* Ownership drift, a missing artifact or a rejected verification.
CandidateRejected(e) ==
    /\ pc[e] = "produced"
    /\ UNCHANGED <<backlog, faults>> \/ BlockTask(task[e])
    /\ Goto(e, "closing")
    /\ UNCHANGED <<task, frame, claimVars, queueVars, main, spent, stop>>

------------------------------------------------------------------------------
(* The durable merge queue. *)

NextSeq == 1 + Cardinality({e \in Exec : seq[e] # 0})

\* TeamState.enqueue: the claim is active; a row that exists stays as it is.
InsertRow(e) ==
    /\ active[e]
    /\ IF row[e] = "NONE"
       THEN /\ row' = [row EXCEPT ![e] = "READY"]
            /\ seq' = [seq EXCEPT ![e] = NextSeq]
       ELSE UNCHANGED <<row, seq>>

\* pauseReady with the stop file present: the first of pauseCandidate's two
\* writes.  With a reaped claim it throws, and that is only logged.
PauseCandidate(e) ==
    /\ \/ pc[e] = "produced" /\ ProjectOf(e) \in stop
       \/ pc[e] = "reporting" /\ frame[e].result = "paused"
    /\ IF active[e]
       THEN InsertRow(e) /\ Goto(e, "pausing")
       ELSE UNCHANGED <<row, seq>> /\ Goto(e, "closing")
    /\ UNCHANGED <<task, frame, claimVars, captain, captainLapsed, worldVars, faults>>

\* ... and the second, which may fail on its own.
MarkPaused(e) ==
    /\ pc[e] = "pausing"
    /\ \/ row' = [row EXCEPT ![e] = "PAUSED_READY"] /\ UNCHANGED faults
       \/ Fault /\ UNCHANGED row
    /\ Goto(e, "closing")
    /\ UNCHANGED <<task, frame, claimVars, seq, captain, captainLapsed, worldVars>>

\* The gate passed on top of the fork point: enter the queue and the chain.
Enqueue(e) ==
    /\ pc[e] = "produced"
    /\ ProjectOf(e) \notin stop
    /\ InsertRow(e)
    /\ frame' = [frame EXCEPT ![e].gated = frame[e].base]
    /\ Goto(e, "queued")
    /\ UNCHANGED <<task, claimVars, captain, captainLapsed, worldVars, faults>>

\* enqueue threw: the claim was reaped while the engine was running.
EnqueueRefused(e) ==
    /\ pc[e] = "produced"
    /\ ProjectOf(e) \notin stop
    /\ ~active[e]
    /\ frame' = [frame EXCEPT ![e].result = "recovery"]
    /\ Goto(e, "reporting")
    /\ UNCHANGED <<task, claimVars, queueVars, worldVars, faults>>

\* enqueueMerge: the chain of the process runs one function at a time.
HeadOfChain(e) ==
    \A f \in Exec : pc[f] \in Chained /\ f # e /\ ProjectOf(f) = ProjectOf(e)
                        => seq[e] < seq[f]

FirstInQueue(e) ==
    \A f \in Exec : f # e /\ ReapedRow[f] \in Waiting => seq[e] < seq[f]

\* acquireMergeCaptain grants the turn when the claim is active, the row is
\* the first that waits and nobody else holds an unexpired captain lease.
MayAcquire(e) ==
    /\ ReapedRow[e] \in Waiting
    /\ FirstInQueue(e)
    /\ ReapedActive[e]
    /\ ReapedCaptain \in {None, e}

AcquireMergeCaptain(e) ==
    /\ pc[e] = "queued" /\ HeadOfChain(e)
    /\ MayAcquire(e)
    /\ active' = ReapedActive /\ state' = ReapedState
    /\ lapsed' = [f \in Exec |-> FALSE]
    /\ row' = [ReapedRow EXCEPT ![e] = "MERGING"]
    /\ captain' = e /\ captainLapsed' = FALSE
    /\ Goto(e, "merging")
    /\ UNCHANGED <<task, frame, reserved, extra, seq, worldVars, faults>>

\* A poll that is not granted still reaps.
PollRefused(e) ==
    /\ pc[e] = "queued" /\ HeadOfChain(e)
    /\ ~MayAcquire(e)
    /\ ReapExpired
    /\ UNCHANGED <<pc, task, frame, reserved, extra, seq, worldVars, faults>>

\* withMergeTurn's deadline passed before the turn came.
MergeTimeout(e) ==
    /\ pc[e] = "queued" /\ HeadOfChain(e)
    /\ ~MayAcquire(e)
    /\ ReapExpired
    /\ Goto(e, "recovering")
    /\ UNCHANGED <<task, frame, reserved, extra, seq, worldVars, faults>>

------------------------------------------------------------------------------
(* mergeAfterRebaseVerify, inside the merge turn. *)

\* The stop file is looked at before anything else, and not again.
StoppedFirst(e) == pc[e] = "merging" /\ ProjectOf(e) \in stop

\* The function ends without touching main: a stop file, an observation that
\* needs recovery, a switched branch, a dirty worktree, a conflict, a red gate
\* after the rebase; or it throws.
TurnFails(e) ==
    /\ pc[e] \in InTurn
    /\ \E r \in {"paused", "refused", "recovery"} :
          /\ StoppedFirst(e) => r = "paused"
          /\ frame' = [frame EXCEPT ![e].result = r]
    /\ Goto(e, "leaving")
    /\ UNCHANGED <<task, claimVars, queueVars, worldVars, faults>>

\* git merge --ff-only succeeds only from a branch that contains main.  After
\* a rebase it follows a gate that passed on the rebased candidate.
FastForward(e) ==
    /\ pc[e] \in InTurn
    /\ ~StoppedFirst(e)
    /\ frame[e].base = Len(main)
    /\ LET gated == IF pc[e] = "verifying" THEN frame[e].base ELSE frame[e].gated
       IN  /\ main' = Append(main, [by |-> e, gated |-> gated])
           /\ frame' = [frame EXCEPT ![e].gated = gated, ![e].result = "merged"]
    /\ Goto(e, "leaving")
    /\ UNCHANGED <<task, claimVars, queueVars, backlog, spent, stop, faults>>

\* main has moved: rebase the branch, then verify the rebased candidate.
Rebase(e) ==
    /\ pc[e] = "merging"
    /\ ~StoppedFirst(e)
    /\ frame[e].base # Len(main)
    /\ frame' = [frame EXCEPT ![e].base = Len(main)]
    /\ Goto(e, "verifying")
    /\ UNCHANGED <<task, claimVars, queueVars, worldVars, faults>>

\* withMergeTurn's finally: the lease row goes if it is still this holder's.
LeaveTurn(e) ==
    /\ pc[e] = "leaving"
    /\ captain' = IF captain = e THEN None ELSE captain
    /\ captainLapsed' = (captainLapsed /\ captain # e)
    /\ Goto(e, IF frame[e].result = "recovery" THEN "recovering" ELSE "settling")
    /\ UNCHANGED <<task, frame, claimVars, row, seq, worldVars, faults>>

\* A poll's transaction, the finally's DELETE or finishMerge after it fails:
\* enqueueTeamMerge's catch takes over, whatever the merge function did.
TurnWriteFails(e) ==
    /\ pc[e] \in {"queued", "leaving", "settling"} /\ HeadOfChain(e)
    /\ Fault
    /\ Goto(e, "recovering")
    /\ UNCHANGED <<task, frame, claimVars, queueVars, worldVars>>

RowFor(r) == CASE r = "merged" -> "DONE"
               [] r = "paused" -> "PAUSED_READY"
               [] OTHER -> "BLOCKED"

\* TeamState.finishMerge: neither the token nor the row's state is compared.
FinishMerge(e) ==
    /\ pc[e] = "settling"
    /\ row' = [row EXCEPT ![e] = RowFor(frame[e].result)]
    /\ Goto(e, "reporting")
    /\ UNCHANGED <<task, frame, claimVars, seq, captain, captainLapsed, worldVars, faults>>

\* The catch: finishMerge(false); a second failure rejects the promise and
\* runSingleOnce throws.
Recover(e) ==
    /\ pc[e] = "recovering"
    /\ \/ /\ row' = [row EXCEPT ![e] = "BLOCKED"]
          /\ frame' = [frame EXCEPT ![e].result = "recovery"]
          /\ Goto(e, "reporting")
          /\ UNCHANGED faults
       \/ /\ Fault
          /\ frame' = [frame EXCEPT ![e].result = "threw"]
          /\ Goto(e, "closing")
          /\ UNCHANGED row
    /\ UNCHANGED <<task, claimVars, seq, captain, captainLapsed, worldVars>>

------------------------------------------------------------------------------
(* The end of runSingleOnce. *)

ReportDone(e) ==
    /\ pc[e] = "reporting" /\ frame[e].result = "merged"
    /\ backlog' = [backlog EXCEPT ![task[e]] = "done"]
    /\ Goto(e, "closing")
    /\ UNCHANGED <<task, frame, claimVars, queueVars, main, spent, stop, faults>>

\* Mutant: the failure to report is only logged.
ReportFailsLogged(e) ==
    /\ pc[e] = "reporting" /\ frame[e].result = "merged"
    /\ Fault
    /\ Goto(e, "closing")
    /\ UNCHANGED <<task, frame, claimVars, queueVars, worldVars>>

\* The merge receipt or the backlog row cannot be written: the task is blocked
\* instead, and for the backlog row the stop file is raised first.
ReportFails(e) ==
    /\ pc[e] = "reporting" /\ frame[e].result = "merged"
    /\ \/ /\ Fault
          /\ backlog' = [backlog EXCEPT ![task[e]] = "blocked"]
       \/ /\ faults + 1 < MaxFaults
          /\ faults' = faults + 2
          /\ UNCHANGED backlog
    /\ stop' \in {stop, stop \cup {ProjectOf(e)}}
    /\ Goto(e, "closing")
    /\ UNCHANGED <<task, frame, claimVars, queueVars, main, spent>>

ReportBlocked(e) ==
    /\ pc[e] = "reporting" /\ frame[e].result \in {"refused", "recovery"}
    /\ BlockTask(task[e])
    /\ Goto(e, "closing")
    /\ UNCHANGED <<task, frame, claimVars, queueVars, main, spent, stop>>

\* runOnce rejects as soon as one member of the batch throws, while the others
\* go on; otherwise the frame just goes away.
EndFrame(e) ==
    /\ Goto(e, "ended")
    /\ frame' = [f \in Exec |->
                    CASE f = e -> Blank
                      [] f # e /\ frame[e].result = "threw" /\ f \in LiveIn(ProjectOf(e))
                           -> [frame[f] EXCEPT !.loose = TRUE]
                      [] OTHER -> frame[f]]

\* The finally block releases the claim.
Close(e) ==
    /\ pc[e] = "closing"
    /\ Release(e)
    /\ EndFrame(e)
    /\ UNCHANGED <<task, reserved, extra, queueVars, worldVars>>

\* The finally block finds that the execution's receipt cannot be closed: the
\* claim is quarantined instead of released.
CloseUnconfirmed(e) ==
    /\ pc[e] = "closing"
    /\ Quarantine(e)
    /\ EndFrame(e)
    /\ UNCHANGED <<task, active, lapsed, reserved, extra, queueVars, worldVars, faults>>

------------------------------------------------------------------------------
(* The environment: crashes, stop files, time. *)

\* The daemon dies; its executions stop where they are and its timers with
\* them.  Another daemon may start at once.
Crash(p) ==
    /\ LiveIn(p) # {}
    /\ Return(LiveIn(p), "dead")
    /\ UNCHANGED <<task, claimVars, queueVars, worldVars, faults>>

ToggleStop(p) ==
    /\ p \in Stoppable
    /\ stop' = IF p \in stop THEN stop \ {p} ELSE stop \cup {p}
    /\ UNCHANGED <<pc, task, frame, claimVars, queueVars, backlog, main, spent, faults>>

\* Mutant: neither the claim's nor the captain's renewal timer is ever started.
SuspendedAlways(e) == TRUE

Suspended(e) == ProjectOf(e) \in Stallable

\* A claim's heartbeat runs until runSingleOnce leaves its finally block.
LapseClaim(e) ==
    /\ active[e] /\ ~lapsed[e]
    /\ pc[e] \notin Live \/ Suspended(e)
    /\ lapsed' = [lapsed EXCEPT ![e] = TRUE]
    /\ UNCHANGED <<pc, task, frame, state, active, reserved, extra, queueVars,
                   worldVars, faults>>

\* TeamState.heartbeat: a late beat revives a lease that nobody reaped.
Heartbeat(e) ==
    /\ active[e] /\ lapsed[e]
    /\ pc[e] \in Live
    /\ lapsed' = [lapsed EXCEPT ![e] = FALSE]
    /\ UNCHANGED <<pc, task, frame, state, active, reserved, extra, queueVars,
                   worldVars, faults>>

\* The captain's lease is renewed while the merge function runs.
LapseCaptain ==
    /\ captain # None /\ ~captainLapsed
    /\ pc[captain] \notin InTurn \cup {"leaving"} \/ Suspended(captain)
    /\ captainLapsed' = TRUE
    /\ UNCHANGED <<pc, task, frame, claimVars, row, seq, captain, worldVars, faults>>

RenewMergeCaptain ==
    /\ captain # None /\ captainLapsed
    /\ pc[captain] \in InTurn
    /\ captainLapsed' = FALSE
    /\ UNCHANGED <<pc, task, frame, claimVars, row, seq, captain, worldVars, faults>>

------------------------------------------------------------------------------
Admission(e) == \/ PickNothing(e) \/ ClaimAttemptCap(e) \/ ClaimQuarantined(e)
                \/ ClaimDeferred(e) \/ ClaimGranted(e)

EngineTurn(e) == Nudge(e) \/ AdmitAdditionalTurn(e) \/ RefuseAdditionalTurn(e)

EngineEnd(e) == RunSucceeds(e) \/ RunFails(e) \/ InfraRetry(e) \/ QuarantineRun(e)

CandidateStep(e) == \/ CandidateRejected(e) \/ PauseCandidate(e) \/ MarkPaused(e)
                    \/ Enqueue(e) \/ EnqueueRefused(e)

QueueStep(e) == AcquireMergeCaptain(e) \/ PollRefused(e)

TurnStep(e) == \/ TurnFails(e) \/ FastForward(e) \/ Rebase(e) \/ LeaveTurn(e)
               \/ TurnWriteFails(e) \/ FinishMerge(e) \/ Recover(e)

ReportStep(e) == \/ ReportDone(e) \/ ReportFails(e) \/ ReportBlocked(e)
                 \/ Close(e) \/ CloseUnconfirmed(e)

Progress(e) == \/ Admission(e) \/ EngineEnd(e) \/ CandidateStep(e) \/ QueueStep(e)
               \/ TurnStep(e) \/ ReportStep(e)

Next ==
    \/ \E p \in Project : StartCycle(p) \/ Crash(p) \/ ToggleStop(p)
    \/ \E e \in Exec : \/ Progress(e) \/ EngineTurn(e) \/ MergeTimeout(e)
                       \/ LapseClaim(e) \/ Heartbeat(e)
    \/ LapseCaptain \/ RenewMergeCaptain

Spec == Init /\ [][Next]_vars

\* The event loop runs whatever is ready: engines, gates and git commands all
\* have timeouts, a waiting execution polls every 100 ms, and time passes for
\* a lease that nobody renews.  No cycle has to start, no turn has to succeed.
Fairness ==
    /\ \A e \in Exec : WF_vars(Progress(e)) /\ WF_vars(LapseClaim(e))
    /\ WF_vars(LapseCaptain)

FairSpec == Spec /\ Fairness

------------------------------------------------------------------------------
(* Properties. *)

\* Where executions are, their locals, the rows of the ledger's tables and what
\* surrounds them keep their types.
PcOK ==
    /\ pc \in [Exec -> Live \cup {"idle", "ended", "dead"}]
    /\ task \in [Exec -> Task \cup {None}]
    /\ \A e \in Exec : pc[e] # "idle" => task[e] \in Task

FrameOK == frame \in [Exec -> Frame]

LedgerOK ==
    /\ state \in [Exec -> {"NONE", "RUNNING", "RELEASED", "QUARANTINED"}]
    /\ active \in [Exec -> BOOLEAN] /\ lapsed \in [Exec -> BOOLEAN]
    /\ reserved \in [Exec -> Nat] /\ extra \in [Exec -> Nat]
    /\ row \in [Exec -> Waiting \cup {"NONE", "DONE", "BLOCKED", "PAUSED_READY", "QUARANTINED"}]
    /\ seq \in [Exec -> Nat]
    /\ captain \in Exec \cup {None} /\ captainLapsed \in BOOLEAN

WorldOK ==
    /\ backlog \in [Task -> {"open", "blocked", "done"}]
    /\ main \in Seq([by : Exec, gated : Nat])
    /\ spent \in [Project -> Nat]
    /\ stop \in SUBSET Project
    /\ faults \in Nat

\* Every row the ledger writes is one that its readers know: the states, the
\* sequence numbers and the lease of team-state.ts, and the locals beside them.
TypeOK == PcOK /\ FrameOK /\ LedgerOK /\ WorldOK

\* An execution whose worker may still write, or whose work awaits recovery.
Owns(e) == pc[e] \in Working \/ active[e] \/ state[e] = "QUARANTINED"

\* Two executions that may both write, or whose work awaits recovery, never
\* own a common scope: not after a crash, nor when a suspended daemon wakes up
\* with a claim that was reaped meanwhile.
ScopesExclusive ==
    \A e, f \in Exec : e # f /\ Owns(e) /\ Owns(f) => ~Conflict(task[e], task[f])

\* At most one execution runs the merge function at a time, across daemons.
MergeMutex == \A e, f \in Exec : pc[e] \in InTurn /\ pc[f] \in InTurn => e = f

\* No task lands on main twice: as long as no write fails, or at most one does and no cycle
\* has two tasks at work (a cycle that rejects leaves the other one running, scheduler.ts).
NoDoubleMerge ==
    \A i, j \in DOMAIN main : task[main[i].by] = task[main[j].by] => i = j

\* What lands was verified on top of exactly the main it lands on.
LandedVerified == \A i \in DOMAIN main : main[i].gated = i - 1

\* The reservations of everything held never exceed the hard cap together.
ReservedWithinCap ==
    HardCap > 0 =>
        SumFunctionOnSet(reserved, {e \in Exec : active[e] \/ state[e] = "QUARANTINED"})
            <= HardCap

\* The merge queue implements the promise of SerialMerge, and the reservations fit
\* (acquireMergeCaptain, mergeAfterRebaseVerify, claim, consumeControlTurn).
Serial == INSTANCE SerialMerge WITH turn <- {e \in Exec : pc[e] \in InTurn}
LedgerIsSound == Serial!Spec /\ []ReservedWithinCap

\* A row that waits for the turn belongs to an active claim: an execution that
\* is over never stays at the head of the queue.
NoOrphanRow == \A e \in Exec : row[e] \in Waiting => active[e]

\* A settled queue row is never rewritten.
RowsFinal ==
    [][\A e \in Exec : row[e] \in {"DONE", "BLOCKED", "QUARANTINED"}
                            => row'[e] = row[e]]_vars

\* Whoever waits for the merge turn gets it, or is stopped, without the help
\* of the deadline: a dead captain or a dead head of the queue is reaped.
TurnHandedOn == \A e \in Exec : (pc[e] = "queued") ~> (pc[e] # "queued")

\* The ledger implements the promise of WriteScopes, suspended daemons, crashes
\* and failing writes included.
OwnerOf(e) == CASE state[e] = "QUARANTINED" -> "kept"
                [] state[e] = "RUNNING" -> "held"
                [] state[e] = "RELEASED" -> "gone"
                [] OTHER -> "free"

Owner == [e \in Exec |-> OwnerOf(e)]

Landed == [i \in DOMAIN main |-> main[i].by]

Promise == INSTANCE WriteScopes
             WITH owner <- Owner, work <- task, log <- Landed

KeepsPromise == Promise!Spec

\* The charges of one day stay within the hard cap.
SpentWithinCap == HardCap > 0 => \A p \in Project : spent[p] <= HardCap
=============================================================================
