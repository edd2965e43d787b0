------------------------------ MODULE Conductor ------------------------------
(***************************************************************************)
(* conductor/conductor.ts: runConductorTask, the loop that hands one task  *)
(* to one worker at a time, judges what the worker left in the repository  *)
(* and retries within a budget.                                            *)
(*                                                                         *)
(* What survives a crash of the conductor is in three places: the task     *)
(* ledger, the task's contract and the projection file under the state     *)
(* directory, which git clean or a new stateDir may take away; the fence   *)
(* and the budget holds in the Git directory; and the repository itself.   *)
(* A worker outlives the conductor that started it.                        *)
(***************************************************************************)
EXTENDS Naturals, FiniteSets

CONSTANTS
    Task,         \* task identifiers
    Capped,       \* tasks whose envelope sets budget.max_cost_usd
    Timed,        \* tasks whose envelope sets budget.timeout_ms
    Fp,           \* failure fingerprints of workers, preflights and verdicts
    MaxRetries,   \* envelope.max_retries
    MaxTotal,     \* bound: attempts on record of one task
    MaxExec,      \* bound: workers dispatched in one behaviour
    MaxHead,      \* bound: commits made in one behaviour
    MaxFaults,    \* bound: file operations that fail or are cut short
    None          \* no task, no commit, no failure

ASSUME ConductorAssumption ==
    /\ Capped \subseteq Task /\ Timed \subseteq Task
    /\ MaxRetries \in Nat /\ MaxTotal \in Nat /\ MaxExec \in Nat /\ MaxHead \in Nat
    /\ MaxFaults \in Nat
    /\ None \notin Task /\ None \notin Fp /\ None \notin Nat
    /\ "timeout" \notin Fp /\ "phantom" \notin Fp

VARIABLES
    pc, frame,      \* the conductor process and its locals
    \* the state directory: what the readers of the ledger find for each task,
    \* whether the ledger ends in a cut line, the projection of the fence
    book, torn, projection,
    \* the Git directory: worker quarantine and budget holds
    fence, hold,
    \* the repository and the workers at work in it
    head, live, started,
    \* seen from outside: tasks billed past their cap and not reviewed since,
    \* a commit made by a worker that should be over and not reviewed since
    over, late,
    faults

stateVars == <<book, torn, projection>>
gitVars   == <<fence, hold>>
repoVars  == <<head, live, started>>
ghostVars == <<over, late>>
vars      == <<pc, frame, stateVars, gitVars, repoVars, ghostVars, faults>>

------------------------------------------------------------------------------
Commit  == Nat \cup {None}
Failure == Fp \cup {"timeout", "phantom", None}
Status  == {"open", "done", "blocked", "escalated", "unverified"}

\* ledger.ts, and the contract in task.yaml: attempts ever recorded and those
\* since the last task-finished, attempts without a terminal receipt, commit and
\* budget mark of the last result, last finish, parent_commit.
Book == [total : Nat, epoch : Nat, open : SUBSET Nat, commit : Commit,
         budget : BOOLEAN, ended : Status, parent : Commit]

BlankBook == [total |-> 0, epoch |-> 0, open |-> {}, commit |-> None,
              budget |-> FALSE, ended |-> "open", parent |-> None]

\* The locals: task, attempt number, execution, attempts of this epoch, HEAD
\* before the attempt and the HEAD expected, last fingerprint; how the attempt
\* failed, whether its end is certain, whether it timed out, whether the cost
\* guard stopped it, the verdict.
Frame == [task : Task \cup {None}, n : Nat, exec : Nat, attempts : Nat,
          before : Commit, expected : Commit, prev : Failure, failed : Failure,
          confirmed : BOOLEAN, timedOut : BOOLEAN, blocked : BOOLEAN,
          verdict : {"none", "pass", "fail", "unverified"}]

Blank == [task |-> None, n |-> 0, exec |-> 0, attempts |-> 0,
          before |-> None, expected |-> None, prev |-> None, failed |-> None,
          confirmed |-> TRUE, timedOut |-> FALSE, blocked |-> FALSE, verdict |-> "none"]

Running == {"loop", "preflight", "fenced", "working", "stopping", "settled",
            "billed", "recorded", "dropping", "released", "verifying", "judged"}

\* Where the next thing the process writes is a line of the ledger.
Appending == Running \ {"preflight", "fenced", "working", "stopping", "billed"}

cur == frame.task

\* What a fence file says; execution 0 stands for a legacy marker's null.
Fence == [task : Task, exec : Nat]
NoFence == [task |-> None, exec |-> 0]

------------------------------------------------------------------------------
(* The ledger.  A line appended after a cut one is glued to it, and readAll    *)
(* skips the two together.                                                     *)

Appended(t, b) ==
    /\ book' = IF torn THEN book ELSE [book EXCEPT ![t] = b]
    /\ torn' = FALSE

WithAttempt(b, n) == [b EXCEPT !.total = @ + 1, !.epoch = @ + 1, !.open = @ \cup {n}]

WithResult(b, n, c, isOver, sure) ==
    [b EXCEPT !.open = IF sure THEN @ \ {n} ELSE @, !.commit = c, !.budget = isOver]

WithFinish(b, s) == [b EXCEPT !.epoch = 0, !.ended = s]

Return == pc' = "idle" /\ frame' = Blank

\* finish(): the record, the checkpoint, and the run is over.
Finish(t, s) ==
    /\ Appended(t, WithFinish(book[t], s))
    /\ Return

Fault == faults < MaxFaults /\ faults' = faults + 1

------------------------------------------------------------------------------
Init ==
    /\ pc = "idle" /\ frame = Blank
    /\ book = [t \in Task |-> BlankBook] /\ torn = FALSE /\ projection = NoFence
    /\ fence = NoFence /\ hold = {}
    /\ head = 0 /\ live = {} /\ started = 0
    /\ over = {} /\ late = FALSE
    /\ faults = 0

------------------------------------------------------------------------------
(* The start of runConductorTask.  Everything that only refuses changes        *)
(* nothing: a fence, a projection, a hold, a budget mark, a finished task.     *)

\* The Git directory cannot be read: this is recorded before anything is looked
\* at, also of a task that is fenced, held or done.
StartUnusable(t) ==
    /\ pc = "idle"
    /\ Finish(t, "blocked")
    /\ UNCHANGED <<projection, gitVars, repoVars, ghostVars, faults>>

\* Mutant: the hold in the Git directory is not looked at.
UnfencedAnyBill(t) == fence = NoFence /\ projection = NoFence

Unfenced(t) == fence = NoFence /\ projection = NoFence /\ t \notin hold

Unresolved == \E t \in Task : book[t].open # {}

\* An attempt without a receipt, of whatever task: a marker takes the fence.
StartUnresolved(t) ==
    /\ pc = "idle"
    /\ Unfenced(t) /\ Unresolved
    /\ \E u \in Task : book[u].open # {} /\ fence' = [task |-> u, exec |-> 0]
    /\ UNCHANGED <<pc, frame, stateVars, hold, repoVars, ghostVars, faults>>

MayStart(t) ==
    /\ Unfenced(t) /\ ~Unresolved
    /\ ~book[t].budget
    /\ book[t].ended # "done"

\* Where a resumed epoch expects HEAD.
Resumed(b) == IF b.commit # None THEN b.commit ELSE b.parent

\* A new epoch takes the current HEAD as its parent: the contract is rewritten
\* and an envelope record appended.
StartEpoch(t) ==
    /\ pc = "idle"
    /\ MayStart(t) /\ book[t].epoch = 0
    /\ book' = [book EXCEPT ![t].parent = head] /\ torn' = FALSE
    /\ frame' = [Blank EXCEPT !.task = t, !.expected = head]
    /\ pc' = "loop"
    /\ UNCHANGED <<projection, gitVars, repoVars, ghostVars, faults>>

\* An epoch that was interrupted goes on with what is left of its budget.
Resume(t) ==
    /\ pc = "idle"
    /\ MayStart(t) /\ book[t].epoch > 0
    /\ head = Resumed(book[t])
    /\ frame' = [Blank EXCEPT !.task = t, !.attempts = book[t].epoch, !.expected = head]
    /\ pc' = "loop"
    /\ UNCHANGED <<stateVars, gitVars, repoVars, ghostVars, faults>>

\* HEAD is not the parent_commit of the envelope or not where the epoch left it.
StartStale(t) ==
    /\ pc = "idle"
    /\ MayStart(t)
    /\ book[t].epoch > 0 => head # Resumed(book[t])
    /\ Finish(t, "blocked")
    /\ UNCHANGED <<projection, gitVars, repoVars, ghostVars, faults>>

------------------------------------------------------------------------------
(* The loop. *)

\* isAlive answers no: the checkpoint is written, and the epoch stays open.
Stop ==
    /\ pc = "loop" /\ frame.attempts <= MaxRetries
    /\ Return
    /\ UNCHANGED <<stateVars, gitVars, repoVars, ghostVars, faults>>

\* HEAD moved since, or the worker cannot be resolved.
Refuse ==
    /\ pc = "loop" /\ frame.attempts <= MaxRetries
    /\ Finish(cur, "blocked")
    /\ UNCHANGED <<projection, gitVars, repoVars, ghostVars, faults>>

Exhausted ==
    /\ pc = "loop" /\ frame.attempts > MaxRetries
    /\ Finish(cur, "escalated")
    /\ UNCHANGED <<projection, gitVars, repoVars, ghostVars, faults>>

\* The attempt is recorded before anything is asked of the worker.
RecordAttempt ==
    /\ pc = "loop" /\ frame.attempts <= MaxRetries
    /\ head = frame.expected
    /\ book[cur].total < MaxTotal
    /\ LET n == book[cur].total + 1
       IN  /\ Appended(cur, WithAttempt(book[cur], n))
           /\ frame' = [frame EXCEPT !.n = n, !.exec = 0, !.attempts = @ + 1, !.before = head,
                                     !.failed = None, !.confirmed = TRUE, !.timedOut = FALSE,
                                     !.blocked = FALSE, !.verdict = "none"]
    /\ pc' = "preflight"
    /\ UNCHANGED <<projection, gitVars, repoVars, ghostVars, faults>>

PreflightFails ==
    /\ pc = "preflight"
    /\ \E f \in Fp : frame' = [frame EXCEPT !.failed = f]
    /\ pc' = "settled"
    /\ UNCHANGED <<stateVars, gitVars, repoVars, ghostVars, faults>>

\* The fence is created exclusively.
TakeFence ==
    /\ pc = "preflight"
    /\ fence = NoFence /\ started < MaxExec
    /\ fence' = [task |-> cur, exec |-> started + 1]
    /\ frame' = [frame EXCEPT !.exec = started + 1]
    /\ pc' = "fenced"
    /\ UNCHANGED <<stateVars, hold, repoVars, ghostVars, faults>>

\* It cannot be created: the run ends with the attempt on record.
FenceRefused ==
    /\ pc = "preflight"
    /\ IF fence = NoFence THEN Fault ELSE UNCHANGED faults
    /\ Return
    /\ UNCHANGED <<stateVars, gitVars, repoVars, ghostVars>>

\* The projection cannot be written: no worker, but the fence stays.
ProjectionFails ==
    /\ pc = "fenced"
    /\ Fault
    /\ \E f \in Fp : frame' = [frame EXCEPT !.failed = f]
    /\ pc' = "settled"
    /\ UNCHANGED <<stateVars, gitVars, repoVars, ghostVars>>

Dispatch ==
    /\ pc = "fenced"
    /\ projection' = fence
    /\ started' = started + 1
    /\ live' = live \cup {frame.exec}
    /\ pc' = "working"
    /\ UNCHANGED <<frame, book, torn, gitVars, head, ghostVars, faults>>

------------------------------------------------------------------------------
(* The attempt. *)

\* engine.run answers, and its descendants are over.  An answer without any
\* change to the repository, committed or not, is a failure of its own.
RunAnswers ==
    /\ pc = "working"
    /\ \E f \in Fp \cup {None, "phantom"}, b \in IF cur \in Capped THEN BOOLEAN ELSE {FALSE} :
        /\ f = "phantom" => head = frame.before
        /\ frame' = [frame EXCEPT !.blocked = b, !.failed = f]
        /\ over' = IF b THEN over \cup {cur} ELSE over
    /\ live' = live \ {frame.exec}
    /\ pc' = "settled"
    /\ UNCHANGED <<stateVars, gitVars, head, started, late, faults>>

\* engine.run throws, or asks for recovery: what it left behind may be alive.
RunUncertain ==
    /\ pc = "working"
    /\ \E f \in Fp : frame' = [frame EXCEPT !.failed = f, !.confirmed = FALSE,
                                            !.blocked = (cur \in Capped)]
    /\ over' = IF cur \in Capped THEN over \cup {cur} ELSE over
    /\ live' \in {live, live \ {frame.exec}}
    /\ pc' = "settled"
    /\ UNCHANGED <<stateVars, gitVars, head, started, late, faults>>

TimeOut ==
    /\ pc = "working" /\ cur \in Timed
    /\ frame' = [frame EXCEPT !.failed = "timeout", !.timedOut = TRUE, !.confirmed = FALSE,
                              !.blocked = (cur \in Capped)]
    /\ over' = IF cur \in Capped THEN over \cup {cur} ELSE over
    /\ pc' = "stopping"
    /\ UNCHANGED <<stateVars, gitVars, repoVars, late, faults>>

\* cancelWorker's receipt and the end of engine.run both arrive in time.
Cancelled ==
    /\ pc = "stopping"
    /\ live' = live \ {frame.exec}
    /\ frame' = [frame EXCEPT !.confirmed = TRUE]
    /\ pc' = "settled"
    /\ UNCHANGED <<stateVars, gitVars, head, started, ghostVars, faults>>

\* Mutant: the wait for engine.run has no timer.
NotCancelledAfterRun ==
    /\ pc = "stopping" /\ frame.exec \notin live
    /\ pc' = "settled"
    /\ UNCHANGED <<frame, stateVars, gitVars, repoVars, ghostVars, faults>>

\* They do not.
NotCancelled ==
    /\ pc = "stopping"
    /\ pc' = "settled"
    /\ UNCHANGED <<frame, stateVars, gitVars, repoVars, ghostVars, faults>>

------------------------------------------------------------------------------
(* After the attempt. *)

\* HEAD is read again and the result recorded.
RecordResult ==
    /\ pc = "settled"
    /\ Appended(cur, WithResult(book[cur], frame.n, head, frame.blocked, frame.confirmed))
    /\ frame' = [frame EXCEPT !.expected = head]
    /\ pc' = IF frame.blocked THEN "billed" ELSE "recorded"
    /\ UNCHANGED <<projection, gitVars, repoVars, ghostVars, faults>>

WriteHold ==
    /\ pc = "billed"
    /\ hold' = hold \cup {cur}
    /\ pc' = "recorded"
    /\ UNCHANGED <<frame, stateVars, fence, repoVars, ghostVars, faults>>

HoldFails ==
    /\ pc = "billed"
    /\ Fault
    /\ Finish(cur, "blocked")
    /\ UNCHANGED <<projection, gitVars, repoVars, ghostVars>>

\* The worker may be alive: no retry, and the fence stays.
Escalate ==
    /\ pc = "recorded" /\ ~frame.confirmed
    /\ Finish(cur, "escalated")
    /\ UNCHANGED <<projection, gitVars, repoVars, ghostVars, faults>>

LateMutation == frame.timedOut /\ frame.expected # frame.before

\* The worker is over, but what it changed may have come after the timeout.
BlockLate ==
    /\ pc = "recorded" /\ frame.confirmed /\ LateMutation
    /\ Finish(cur, "blocked")
    /\ UNCHANGED <<projection, gitVars, repoVars, ghostVars, faults>>

Mine == [task |-> cur, exec |-> frame.exec]

\* Mutant: a mutation after the timeout does not keep the fence.
MayReleaseLate == pc = "recorded" /\ frame.confirmed

MayRelease == pc = "recorded" /\ frame.confirmed /\ ~LateMutation

NothingToRelease ==
    /\ MayRelease /\ frame.exec = 0
    /\ pc' = "released"
    /\ UNCHANGED <<frame, stateVars, gitVars, repoVars, ghostVars, faults>>

\* The projection goes before the fence.
DropProjection ==
    /\ MayRelease /\ frame.exec # 0
    /\ fence = Mine /\ projection = Mine
    /\ projection' = NoFence
    /\ pc' = "dropping"
    /\ UNCHANGED <<frame, book, torn, gitVars, repoVars, ghostVars, faults>>

DropFence ==
    /\ pc = "dropping"
    /\ fence' = NoFence
    /\ pc' = "released"
    /\ UNCHANGED <<frame, stateVars, hold, repoVars, ghostVars, faults>>

\* A file is not what it was, or cannot be removed.
ReleaseFails ==
    /\ \/ MayRelease /\ frame.exec # 0
       \/ pc = "dropping"
    /\ IF pc = "recorded" /\ (fence # Mine \/ projection # Mine) THEN UNCHANGED faults ELSE Fault
    /\ Finish(cur, "blocked")
    /\ UNCHANGED <<projection, gitVars, repoVars, ghostVars>>

CostStops ==
    /\ pc = "released" /\ frame.blocked
    /\ \E s \in {"blocked", "escalated"} : Finish(cur, s)
    /\ UNCHANGED <<projection, gitVars, repoVars, ghostVars, faults>>

\* An attempt that failed, by itself or by its verdict.
AttemptFailed ==
    \/ pc = "released" /\ ~frame.blocked /\ frame.failed # None
    \/ pc = "judged" /\ frame.verdict = "fail"

Retry ==
    /\ AttemptFailed /\ frame.failed # frame.prev
    /\ frame' = [frame EXCEPT !.prev = frame.failed]
    /\ pc' = "loop"
    /\ UNCHANGED <<stateVars, gitVars, repoVars, ghostVars, faults>>

SameFailure ==
    /\ AttemptFailed /\ frame.failed = frame.prev
    /\ Finish(cur, "escalated")
    /\ UNCHANGED <<projection, gitVars, repoVars, ghostVars, faults>>

Verify ==
    /\ pc = "released" /\ ~frame.blocked /\ frame.failed = None
    /\ pc' = "verifying"
    /\ UNCHANGED <<frame, stateVars, gitVars, repoVars, ghostVars, faults>>

\* verifyAttempt answers, and the verdict is recorded.
RecordVerdict ==
    /\ pc = "verifying"
    /\ \/ \E v \in {"pass", "unverified"} : frame' = [frame EXCEPT !.verdict = v]
       \/ \E f \in Fp : frame' = [frame EXCEPT !.verdict = "fail", !.failed = f]
    /\ torn' = FALSE
    /\ pc' = "judged"
    /\ UNCHANGED <<book, projection, gitVars, repoVars, ghostVars, faults>>

Conclude ==
    /\ pc = "judged" /\ frame.verdict # "fail"
    /\ Finish(cur, IF frame.verdict = "pass" THEN "done" ELSE "unverified")
    /\ UNCHANGED <<projection, gitVars, repoVars, ghostVars, faults>>

------------------------------------------------------------------------------
(* The environment: crashes, workers, other committers, the operator. *)

\* The line being appended may be cut.
Crash ==
    /\ pc # "idle"
    /\ \/ UNCHANGED <<torn, faults>>
       \/ pc \in Appending /\ Fault /\ torn' = TRUE
    /\ Return
    /\ UNCHANGED <<book, projection, gitVars, repoVars, ghostVars>>

OnTime(x) == pc = "working" /\ frame.exec = x

WorkerCommits(x) ==
    /\ x \in live /\ head < MaxHead
    /\ head' = head + 1
    /\ late' = (late \/ ~OnTime(x))
    /\ UNCHANGED <<pc, frame, stateVars, gitVars, live, started, over, faults>>

\* A worker nobody waits for comes to its end.
OrphanEnds(x) ==
    /\ x \in live
    /\ ~(pc \in {"working", "stopping"} /\ frame.exec = x)
    /\ live' = live \ {x}
    /\ UNCHANGED <<pc, frame, stateVars, gitVars, head, started, ghostVars, faults>>

OutsideCommit ==
    /\ head < MaxHead
    /\ head' = head + 1
    /\ UNCHANGED <<pc, frame, stateVars, gitVars, live, started, ghostVars, faults>>

\* git clean -fdx, by a worker or by the operator: ignored directories go too.
GitClean ==
    /\ pc = "idle" \/ (pc \in {"working", "stopping"} /\ live # {})
    /\ book' = [t \in Task |-> BlankBook] /\ torn' = FALSE /\ projection' = NoFence
    /\ UNCHANGED <<pc, frame, gitVars, repoVars, ghostVars, faults>>

\* The operator made sure that every worker is over, reviewed HEAD and the
\* bill, gave open attempts a terminal result and removed both markers.
OperatorReconciles ==
    /\ pc = "idle" /\ live = {}
    /\ fence # NoFence \/ projection # NoFence \/ Unresolved
    /\ fence' = NoFence /\ projection' = NoFence
    /\ book' = [t \in Task |-> IF book[t].open = {} THEN book[t]
                               ELSE [book[t] EXCEPT !.open = {}, !.commit = head]]
    /\ torn' = FALSE
    /\ late' = FALSE
    /\ over' = over \ ({fence.task} \ hold)
    /\ UNCHANGED <<pc, frame, hold, repoVars, faults>>

------------------------------------------------------------------------------
Start(t) == StartUnusable(t) \/ StartUnresolved(t) \/ StartEpoch(t) \/ Resume(t) \/ StartStale(t)

Attempt == \/ Stop \/ Refuse \/ Exhausted \/ RecordAttempt
           \/ PreflightFails \/ TakeFence \/ FenceRefused \/ ProjectionFails \/ Dispatch

Wait == RunAnswers \/ RunUncertain \/ Cancelled

Settle == \/ RecordResult \/ WriteHold \/ HoldFails \/ Escalate \/ BlockLate
          \/ NothingToRelease \/ DropProjection \/ DropFence \/ ReleaseFails
          \/ CostStops \/ Retry \/ SameFailure \/ Verify \/ RecordVerdict \/ Conclude

Next ==
    \/ \E t \in Task : Start(t)
    \/ Attempt \/ Wait \/ TimeOut \/ NotCancelled \/ Settle
    \/ Crash \/ OutsideCommit \/ GitClean \/ OperatorReconciles
    \/ \E x \in live : WorkerCommits(x) \/ OrphanEnds(x)

Spec == Init /\ [][Next]_vars

\* The process goes on whenever it can and its two timers fire.  A worker with
\* a time limit, and the receipt of a cancellation, may never come.
Fairness ==
    /\ WF_vars(Attempt) /\ WF_vars(Settle)
    /\ WF_vars(TimeOut) /\ WF_vars(NotCancelled)
    /\ WF_vars(cur \notin Timed /\ (RunAnswers \/ RunUncertain))

FairSpec == Spec /\ Fairness

------------------------------------------------------------------------------
(* Properties. *)

\* Every record the readers of the ledger find, both markers, the locals and
\* the counters keep the types that conductor.ts and ledger.ts give them.
TypeOK ==
    /\ pc \in Running \cup {"idle"}
    /\ frame \in Frame
    /\ pc # "idle" => cur \in Task
    /\ book \in [Task -> Book] /\ torn \in BOOLEAN
    /\ projection \in Fence \cup {NoFence} /\ fence \in Fence \cup {NoFence}
    /\ hold \in SUBSET Task
    /\ head \in Nat /\ live \in SUBSET Nat /\ started \in Nat
    /\ over \in SUBSET Task /\ late \in BOOLEAN
    /\ faults \in Nat

\* At most one worker writes to the repository, whatever crashed, timed out or
\* was cleaned away in between.
OneWorker == \A x, y \in live : x = y

\* Where the process prepares a dispatch or judges an attempt.
Deciding == {"loop", "preflight", "fenced", "released", "verifying", "judged"}

\* What a worker does after its time never becomes the baseline of another
\* attempt, and nobody writes while a verdict is being formed.
LateWorkReviewed == pc \in Deciding => live = {} /\ ~late

\* Fences and holds keep their promise: one worker at a time, and none in the way of a
\* decision.
WorkersAreFenced == OneWorker /\ LateWorkReviewed

\* A task whose worker cost more than its cap, or an unknown amount, is not
\* dispatched again before somebody looked at the bill.
BillStopsTask == pc \in {"loop", "preflight", "fenced", "working"} => cur \notin over

\* A run of the conductor comes to its end.
RunEnds == (pc # "idle") ~> (pc = "idle")
=============================================================================
