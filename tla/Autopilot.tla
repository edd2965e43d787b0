----------------------------- MODULE Autopilot -----------------------------
(***************************************************************************)
(* The outer loop of the daemon: runPerpetualCycle finds a problem, writes *)
(* a GOAL for it, runs a GOAL session (runGoalWithDeps, runGoalSession,    *)
(* verifyAndSupplement) and settles the problem in its ledger.             *)
(*                                                                         *)
(* Four things outlive the process: the GOAL file, which an operator may   *)
(* write and remove as well, the problems ledger, the perpetual state and  *)
(* the repository, which changes whenever a task is merged: all that is    *)
(* kept of it is whether the verify command passed since.  A step ends at  *)
(* an await, or where a crash matters.                                     *)
(***************************************************************************)
EXTENDS Integers, FiniteSets

CONSTANTS
    Problems,         \* what a discovery may find, above the value threshold
    Manual,           \* the GOAL an operator writes
    None,
    NoProgressLimit,  \* of the GOAL
    SupplementLimit,  \* rounds of independent review
    MaxScore,         \* bound: evaluations score 0 .. MaxScore
    Cooldown,         \* perpetualCooldownMs
    MaxTime, MaxFaults   \* bounds

AutopilotAssumption ==
    /\ None \notin Problems \cup {Manual} /\ Manual \notin Problems /\ None \notin Nat
    /\ {NoProgressLimit, SupplementLimit} \subseteq Nat \ {0}
    /\ {MaxScore, Cooldown, MaxTime, MaxFaults} \subseteq Nat

VARIABLES
    now,
    goal,        \* GOAL.md: None, Manual, or the problem of an automatic GOAL
    ledger,      \* the status of each problem, "unseen" without a row
    last,        \* lastSessionTs of perpetual-state.json, None before the first
    manualDone,  \* manualGoalDone: the manual GOAL has had its run
    halt,        \* the stop file, or a restart request
    other,       \* another process holds autopilot.lock (a session of the command line)
    pc,
    began,       \* "now" of runPerpetualCycle
    case,        \* what the cycle works on: None, Manual or a problem
    open,        \* the candidates that go to the author
    noProgress, score, round,   \* of the session, and of its review
    result,      \* the outcome of the session
    verified,    \* the verify command has passed, and nothing was merged since
    ran,         \* the GOAL the session read
    failing,     \* ProblemsLedger.safe swallows what is done to the ledger
    discovered,  \* history: when a cycle of this process last paid for its own discovery
    touched,     \* history: an operator removed or replaced an automatic GOAL
    lost,        \* history: the problems whose settlement the ledger swallowed
    faults

disk == <<goal, ledger, last, manualDone>>
session == <<noProgress, score, round, result, verified, ran>>
cycle == <<pc, began, case, open>>
env == <<now, halt, other, failing, touched, faults>>
vars == <<env, disk, cycle, session, discovered, lost>>

Init ==
    /\ now = 1 /\ goal = None /\ ledger = [p \in Problems |-> "unseen"] /\ last = None
    /\ manualDone = FALSE /\ halt = FALSE /\ other = FALSE
    /\ pc = "idle" /\ began = 0 /\ case = None /\ open = {}
    /\ noProgress = 0 /\ score = -1 /\ round = 0 /\ result = "none" /\ verified = FALSE /\ ran = None
    /\ failing = FALSE /\ discovered = None /\ touched = FALSE /\ lost = {} /\ faults = 0

Go(s) == pc' = s
NoSession ==
    /\ noProgress' = 0 /\ score' = -1 /\ round' = 0 /\ result' = "none"
    /\ verified' = FALSE /\ ran' = None
\* The cycle is over, and what it knew is gone.
Rest == Go("idle") /\ began' = 0 /\ case' = None /\ open' = {} /\ NoSession
\* sessionAlive: the GOAL is there, nobody wants the daemon to stop.
Alive == goal # None /\ ~halt

-----------------------------------------------------------------------------
(* runPerpetualCycle as far as the session. *)

Cooling == goal # Manual /\ last # None /\ now - last < Cooldown

\* The gates (stop file, budget, workspace, cooldown), then the three cases of runBody.
StartCycle ==
    /\ pc = "idle" /\ ~halt /\ ~Cooling /\ ~(goal = Manual /\ manualDone)
    /\ began' = now /\ case' = goal /\ open' = {}
    /\ IF goal = None THEN Go("discovering") /\ discovered' = now
                      ELSE Go("resuming") /\ UNCHANGED discovered
    /\ UNCHANGED <<env, disk, session, lost>>

\* setStatus, an UPDATE: it reaches the problems that have a row, or is swallowed.
Mark(ps, status) ==
    ledger' = [p \in Problems |-> IF p \in ps /\ ledger[p] # "unseen" /\ ~failing THEN status
                                  ELSE ledger[p]]

\* savePerpetualState, and the end of the cycle.
Settle(at) == last' = at /\ Rest

\* Nothing worth a GOAL, or a discovery that throws: the cooldown starts all the same.
DiscoverNothing ==
    /\ pc = "discovering" /\ Settle(began)
    /\ UNCHANGED <<env, goal, ledger, manualDone, discovered, lost>>

\* upsertSeen: a known problem keeps its status, and only open ones are candidates.  When
\* the ledger fails, all that was found is a candidate, whatever was written.
Discover(found, written) ==
    LET seen == [p \in Problems |-> IF p \in written /\ ledger[p] = "unseen" THEN "open"
                                    ELSE ledger[p]]
        candidates == IF failing THEN found ELSE {p \in Problems : seen[p] = "open"} IN
    /\ pc = "discovering" /\ ledger' = seen /\ written \subseteq found
    /\ ~failing => written = found
    /\ IF candidates = {} THEN Settle(began)
       ELSE Go("authoring") /\ open' = candidates /\ UNCHANGED <<last, began, case, session>>
    /\ UNCHANGED <<env, goal, manualDone, discovered, lost>>

\* The quality gate turned some candidates down; the others had no GOAL written for them.
AuthorNothing ==
    /\ pc = "authoring" /\ Mark(open, "deferred") /\ Settle(began)
    /\ UNCHANGED <<env, goal, manualDone, discovered, lost>>

\* The GOAL of p passes; the file is replaced whatever it holds by now.
WriteGoal(p, rejected) ==
    /\ pc = "authoring" /\ p \in open /\ rejected \subseteq open \ {p}
    /\ Mark(rejected, "deferred")
    /\ goal' = p /\ case' = p /\ open' = {} /\ Go("marking")
    /\ UNCHANGED <<env, last, manualDone, began, session, discovered, lost>>

\* in-progress, the notice, and the cooldown before the session.
MarkInProgress ==
    /\ pc = "marking" /\ Mark({case}, "in-progress")
    /\ Go("notifying")
    /\ UNCHANGED <<env, goal, last, manualDone, began, case, open, session, discovered, lost>>
Arm ==
    /\ pc = "notifying" /\ last' = now /\ Go("entering")
    /\ UNCHANGED <<env, goal, ledger, manualDone, began, case, open, session, discovered, lost>>

-----------------------------------------------------------------------------
(* The session. *)

End(r) == result' = r /\ Go("closing")

\* No GOAL any more, the stop file, the lock of another session: nothing is recorded.
NotRun ==
    /\ pc \in {"entering", "resuming"} /\ (~Alive \/ other)
    /\ Rest
    /\ UNCHANGED <<env, disk, discovered, lost>>

\* inspectGitWorkspace, and a GOAL without a verify command or a reviewer.  A session that
\* was not handed the cycle's discovery may pay for one of its own.
Enter(r) ==
    /\ pc \in {"entering", "resuming"} /\ Alive /\ ~other
    /\ noProgress' = 0 /\ score' = -1 /\ round' = 0 /\ verified' = FALSE /\ ran' = goal
    /\ CASE r = "ready" -> Go("planning") /\ result' = "none"
         [] r = "survey" -> pc = "resuming" /\ Go("surveying") /\ result' = "none"
         [] r \in {"blocked", "stuck"} -> End(r)
    /\ UNCHANGED <<env, disk, began, case, open, discovered, lost>>

\* discoverProblems, whatever comes of it: neither a cooldown nor the ledger knows of it.
Survey ==
    /\ pc = "surveying" /\ Go("planning")
    /\ UNCHANGED <<env, disk, began, case, open, session, discovered, lost>>

Killed ==
    /\ pc \in {"planning", "working"} /\ ~Alive /\ End("killed")
    /\ UNCHANGED <<env, disk, began, case, open, noProgress, score, round, verified,
                   ran, discovered, lost>>

\* The planner gives tasks, claims the GOAL achieved, or is stuck.
Plan(kind) ==
    /\ pc = "planning" /\ Alive
    /\ CASE kind = "tasks" -> Go("working") /\ UNCHANGED result
         [] kind = "achieved" -> Go("checking") /\ UNCHANGED result
         [] kind \in {"stuck", "retryable"} -> End(kind)
    /\ UNCHANGED <<env, disk, began, case, open, noProgress, score, round, verified,
                   ran, discovered, lost>>

\* runOnce: a task is merged, ...
MergeTask ==
    /\ pc = "working" /\ Alive /\ verified' = FALSE
    /\ UNCHANGED <<env, disk, cycle, noProgress, score, round, result, ran, discovered, lost>>
\* ... the supply is deferred, or there is no more to do.
RunEnds(deferred) ==
    /\ pc = "working" /\ Alive
    /\ IF deferred THEN End("retryable") ELSE Go("evaluating") /\ UNCHANGED result
    /\ UNCHANGED <<env, disk, began, case, open, noProgress, score, round, verified,
                   ran, discovered, lost>>

NextRoundUncounted(s) ==
    /\ score' = IF s > score THEN s ELSE score
    /\ noProgress' = IF s < 0 THEN noProgress ELSE IF s > score THEN 0 ELSE noProgress + 1
    /\ IF noProgress' >= NoProgressLimit THEN End("no-progress")
                                         ELSE Go("planning") /\ UNCHANGED result

\* The end of a round without success: no progress unless the score rose.
NextRound(s) ==
    LET stuck == IF s > score THEN 0 ELSE noProgress + 1 IN
    /\ score' = IF s > score THEN s ELSE score
    /\ noProgress' = stuck
    /\ IF stuck >= NoProgressLimit THEN End("no-progress")
                                   ELSE Go("planning") /\ UNCHANGED result

\* evaluate: the verify command decides, also when the planner claimed success, whose
\* score does not count.
Evaluate(ok, s) ==
    /\ pc \in {"checking", "evaluating"}
    /\ IF ok THEN Go("auditing") /\ verified' = TRUE /\ UNCHANGED <<noProgress, score, result>>
             ELSE NextRound(IF pc = "checking" THEN -1 ELSE s) /\ UNCHANGED verified
    /\ UNCHANGED <<env, disk, began, case, open, round, ran, discovered, lost>>

-----------------------------------------------------------------------------
(* verifyAndSupplement. *)

AuditTrusting(verdict) ==
    /\ pc = "auditing"
    /\ round' = round + 1
    /\ CASE verdict = "clean" \/ round >= SupplementLimit -> End("achieved")
         [] verdict = "gaps" /\ round < SupplementLimit -> Go("supplementing") /\ UNCHANGED result
         [] OTHER -> End("stuck")
    /\ UNCHANGED <<env, disk, began, case, open, noProgress, score, verified, ran,
                   discovered, lost>>

\* One round: the verify command again, then the reviewer.
Audit(verdict) ==
    /\ pc = "auditing"
    /\ IF ~Alive \/ round >= SupplementLimit THEN End("stuck") /\ UNCHANGED <<round, verified>>
       ELSE /\ round' = round + 1
            /\ verified' = (verdict # "red")
            /\ CASE verdict = "clean" -> End("achieved")
                 [] verdict = "gaps" -> Go("supplementing") /\ UNCHANGED result
                 [] verdict = "retryable" -> End("retryable")
                 [] verdict \in {"red", "invalid"} -> End("stuck")
    /\ UNCHANGED <<env, disk, began, case, open, noProgress, score, ran, discovered, lost>>

\* The tasks for the gaps, as far as they can be merged.
Supplement(merged) ==
    /\ pc = "supplementing" /\ Go("auditing")
    /\ verified' = (verified /\ ~(merged /\ Alive))
    /\ UNCHANGED <<env, disk, began, case, open, noProgress, score, round, result, ran, discovered, lost>>

-----------------------------------------------------------------------------
(* The end of the cycle. *)

\* closeout, or the branch of a manual GOAL: what the outcome means for the ledger, which
\* may swallow it.
Settles(status) == Mark({case}, status) /\ lost' = IF failing THEN lost \cup {case} ELSE lost
Close ==
    /\ pc = "closing" /\ case \in Problems /\ result \notin {"retryable", "blocked"}
    /\ Settles(IF result = "achieved" THEN "fixed" ELSE "deferred")
    /\ Go("removing")
    /\ UNCHANGED <<env, goal, last, manualDone, began, case, open, session, discovered>>

\* The GOAL goes, unless it is the operator's by now; the state is saved.
RemoveGoal ==
    /\ pc = "removing" /\ Settle(began)
    /\ goal' = IF goal = Manual THEN goal ELSE None
    /\ UNCHANGED <<env, ledger, manualDone, discovered, lost>>

\* A workspace that blocks: deferred, and the GOAL stays.
CloseBlocked ==
    /\ pc = "closing" /\ case \in Problems /\ result = "blocked"
    /\ Mark({case}, "deferred") /\ Settle(began)
    /\ UNCHANGED <<env, goal, manualDone, discovered, lost>>

\* The manual GOAL has had its run.
CloseManual ==
    /\ pc = "closing" /\ case = Manual /\ result \notin {"retryable", "blocked", "killed"}
    /\ manualDone' = TRUE /\ Settle(began)
    /\ UNCHANGED <<env, goal, ledger, discovered, lost>>

\* Everything is left for the next cycle.
LeaveOpen ==
    /\ pc = "closing" /\ Rest
    /\ \/ result = "retryable"
       \/ case = Manual /\ result \in {"blocked", "killed"}
    /\ UNCHANGED <<env, disk, discovered, lost>>

-----------------------------------------------------------------------------
(* What else happens. *)

Tick ==
    /\ now < MaxTime /\ now' = now + 1
    /\ UNCHANGED <<halt, other, failing, touched, faults, disk, cycle, session, discovered, lost>>

\* The stop file and restart.request come and go.
Halt ==
    /\ halt' = ~halt
    /\ UNCHANGED <<now, other, failing, touched, faults, disk, cycle, session, discovered, lost>>

\* run.db cannot be opened or written, for a moment or for whole cycles.
LedgerFails ==
    /\ faults < MaxFaults /\ faults' = faults + 1 /\ ~failing /\ failing' = TRUE
    /\ UNCHANGED <<now, halt, other, touched, disk, cycle, session, discovered, lost>>
LedgerRecovers ==
    /\ failing /\ failing' = FALSE
    /\ UNCHANGED <<now, halt, other, touched, faults, disk, cycle, session, discovered, lost>>

\* A session of the command line: it holds the lock, and settles no problem.
InSession == pc \in {"surveying", "planning", "working", "checking", "evaluating", "auditing", "supplementing"}
OtherSession ==
    /\ ~InSession /\ other' = ~other
    /\ UNCHANGED <<now, halt, failing, touched, faults, disk, cycle, session, discovered, lost>>

\* An operator puts a GOAL of his own in place, or takes the GOAL away.
OperatorSets(g) ==
    /\ faults < MaxFaults /\ faults' = faults + 1 /\ g # goal
    /\ goal' = g /\ touched' = (touched \/ goal \in Problems)
    /\ UNCHANGED <<now, halt, other, failing, ledger, last, manualDone, cycle, session, discovered, lost>>

Crash ==
    /\ faults < MaxFaults /\ faults' = faults + 1 /\ pc # "idle"
    /\ Rest /\ discovered' = None
    /\ UNCHANGED <<now, halt, other, failing, touched, lost, disk>>

Cycle ==
    \/ StartCycle \/ DiscoverNothing \/ AuthorNothing \/ MarkInProgress \/ Arm
    \/ \E found, written \in SUBSET Problems : found # {} /\ Discover(found, written)
    \/ \E p \in Problems, rejected \in SUBSET Problems : WriteGoal(p, rejected)
    \/ NotRun \/ Survey \/ \E r \in {"ready", "survey", "blocked", "stuck"} : Enter(r)
    \/ Killed \/ \E kind \in {"tasks", "achieved", "stuck", "retryable"} : Plan(kind)
    \/ MergeTask \/ \E deferred \in BOOLEAN : RunEnds(deferred)
    \/ \E ok \in BOOLEAN, s \in 0 .. MaxScore : Evaluate(ok, s)
    \/ \E verdict \in {"clean", "gaps", "retryable", "red", "invalid"} : Audit(verdict)
    \/ \E merged \in BOOLEAN : Supplement(merged)
    \/ Close \/ RemoveGoal \/ CloseBlocked \/ CloseManual \/ LeaveOpen

Next ==
    \/ Cycle \/ Tick \/ Halt \/ OtherSession \/ Crash \/ LedgerFails \/ LedgerRecovers
    \/ \E g \in {None, Manual} : OperatorSets(g)

Spec == Init /\ [][Next]_vars
\* The event loop keeps serving the cycle: every call it awaits has a time limit.
FairSpec == Spec /\ WF_vars(Cycle)

-----------------------------------------------------------------------------
TypeOK ==
    /\ now \in 1 .. MaxTime /\ last \in (1 .. MaxTime) \cup {None}
    /\ {goal, case, ran} \subseteq Problems \cup {Manual, None}
    /\ ledger \in [Problems -> {"unseen", "open", "in-progress", "fixed", "deferred"}]
    /\ open \subseteq Problems /\ lost \subseteq Problems /\ verified \in BOOLEAN
    /\ noProgress \in 0 .. NoProgressLimit /\ round \in 0 .. SupplementLimit

\* A problem in progress has its GOAL on disk, whatever was interrupted: nothing else
\* would take it up again, since only open problems are candidates.  Two things strand
\* one: an operator who replaces an automatic GOAL, and a settlement that the ledger
\* swallowed, after which the GOAL is deleted all the same (runBody, closeout).
InProgressHasGoal ==
    \A p \in Problems : ledger[p] = "in-progress" => goal = p \/ touched \/ p \in lost

\* A problem becomes fixed only when the verify command has passed on the repository as
\* it is then, also when the review had more tasks merged (verifyAndSupplement).
FixedIsVerified ==
    [][\A p \in Problems :
         ledger'[p] = "fixed" /\ ledger[p] # "fixed" => verified]_vars

\* What the ledger says of a problem is so: in progress has its GOAL, unless its settlement
\* was swallowed or an operator took the GOAL, and fixed was verified (runBody, closeout,
\* verifyAndSupplement).
LedgerIsTrue == []InProgressHasGoal /\ FixedIsVerified

\* Every cycle ends: rounds without progress are counted and reviews are limited.
CycleEnds == pc # "idle" ~> pc = "idle"

\* perpetual.ts: the system never deletes a manual GOAL.
ManualKept ==
    [][goal = Manual /\ goal' # Manual => faults' = faults + 1]_vars

\* perpetual.ts: the save at the end refreshes the cooldown, because the time the session
\* took counts too.
LastNeverBack == [][last # None => last' >= last]_vars

\* The cycles of one process pay for two discoveries of their own only a cooldown apart,
\* whatever became of the first (runPerpetualCycle arms the cooldown on every path, its
\* catch included).  What a session surveys for itself (Survey) is not among them: that
\* happens whenever a GOAL is resumed.
DiscoverySpaced ==
    [][pc = "idle" /\ pc' = "discovering" =>
         discovered = None \/ now - discovered >= Cooldown]_vars
=============================================================================
