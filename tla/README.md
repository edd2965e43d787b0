# A TLA+ model of autodev-ng

autodev-ng (`src/`) drives coding engines over a backlog, unattended: daemons
pick tasks, run an engine in a Git worktree, gate the candidate and merge it;
a long-horizon backend walks a plan with checkpoints; a conductor hands
envelopes to single workers; an outer loop invents goals; a GitHub integration
repairs issues; supervisors and guardians keep the daemons going, and operators
steer all of it from other processes. What makes it hard is that nearly every
piece of state is a file or an SQLite row that several processes read and write,
and that each of these processes may die, be suspended or lose a write between
any two of its steps.

This directory models those parts in TLA+, checks them with TLC on small
instances and proves the most important properties with TLAPS for all values of
the constants. `PROJECT.json` relates every definition to the lines it models
and lists components, runs, mutants, hazards, findings and theorems.

Contents: [the system](#1-the-system) ·
[modules](#2-modules-and-the-code-they-model) · [runs](#3-runs) ·
[fairness](#4-fairness) · [where the code and its documents
disagree](#5-where-the-code-and-its-documents-disagree) · [proofs](#6-proofs) ·
[what is not modelled](#7-what-is-not-modelled) · [plan](#8-plan)

## 1. The system

Paths are relative to `src/src/`.

| Component | State it keeps | Operations | Interacts with |
|---|---|---|---|
| **Team ledger and merge queue** `engines/team-state.ts`, `engines/merge-queue.ts`, `engines/ownership.ts` | SQLite tables `team_claims`, `team_leases`, `merge_queue`, `team_control_attempts` in the Git common directory | `claim`, `admitAdditionalTurn`, `heartbeat`, `quarantine`, `release`, `enqueue`, `pauseCandidate`, `withMergeTurn`, `acquireMergeCaptain`, `finishMerge`, `reapExpired` | every daemon that works on the same repository |
| **Scheduler** `scheduler.ts`, `worktree.ts`, `engines/candidate-gate.ts` | one frame of locals per execution, a worktree, the main branch, the backlog row | `runOnce`, `runSingleOnce`: pick, claim, engine turns, gates, rebase and verify, land, report, clean up | ledger, engines, control store, backlog, run database |
| **Long-horizon backend** `backends/long-horizon.ts`, `backends/store.ts` | `state.json`, `checkpoints/`, `interrupt.json`, `drive.lock` per run | `start`, `resume`, `drive`, `interrupt` | roles (manager, executor, auditor, escalation), operators in other processes |
| **Process lease** `lock/coordinator.ts`, `lock/internal.ts`, `lock.ts` | lock directory with `pid.json`, a row in the coordinator's SQLite file, `recovery-required.json` | `acquire`, `release`, `releaseDead`, `recoverDead` | daemons, supervisor, Freebuff, long-horizon, model policy |
| **Freebuff engine** `engines/freebuff.ts` | marker in the lock directory, a session in an external backend | `run` | process lease |
| **Conductor** `conductor/conductor.ts`, `conductor/ledger.ts`, `conductor/verify.ts` | `task-ledger.jsonl`, worker fence, budget hold and fence projection, the repository's head | `runConductorTask` | one worker process at a time, Git, operators |
| **Control envelopes** `engines/steering.ts`, `engines/queued-controls.ts`, `engines/codex-session.ts` | one JSON file per envelope, with intent and receipt files | `submit`, `sweep`, `steerPort().poll/claim`, `peekQueue`, `claimQueue`, `markDelivered`, `finishClaim`, `endExecution`, `lineage` | driver of the execution, bot and CLI, next cycle, evidence gate |
| **Execution observation, inventory, worker process** `engines/execution-observation.ts`, `engines/inventory-lock.ts`, `engines/proc.ts` | one record per execution, history, `.inventory.lock`, the child process | admit, sample, cancel, time out, close, finish, archive | control store, supervisor, bot |
| **Daemon loop and supervisor** `daemon.ts`, `supervisor/*` | heartbeat, stop file, lock, pause gate | rounds; `superviseConfig`: classify, reap, sweep, launch | scheduler, operators |
| **Guardian fleet** `guardian/*` | incident, `guardian.lock`, restart request, cursor over failure events | trigger, diagnose, request a restart, kill, verify | supervisor, codex |
| **Backlog store** `backlog.ts`, `backlog-split.ts` | one Markdown file, a lock directory | read-modify-write of task lines | scheduler, operators, bot |
| **Engine routing** `engines/routing-*.ts`, `engines/adaptive-rotation.ts`, `engines/apply-stats-isolation.ts` | isolation file, attempts in the run database | pick, isolate, probe, cap, prune | scheduler |
| **Model route policy** `engines/model-route-policy.ts` | breaker receipts, quarantine markers, probe leases | `callRoutedAgent` | judges, adapters, other processes |
| **Verification, judging, pending reviews** `engines/run-verify.ts`, `kernel-verifier.ts`, `review-gate.ts`, `candidate-gate.ts`, `evidence-chain.ts`, `pending-review.ts` | evidence bundles, receipts, saved candidates | gate, review, resume, close | scheduler |
| **Regression suite** `engines/flaky-regression.ts`, `engines/regression-shards.ts` | receipts of shards | run a shard twice, aggregate | CI |
| **Herdr engine** `engines/herdr*.ts` | intent, binding and receipt files per execution | reserve, launch, await, commit, inspect, recover | scheduler, launcher, agent in a pane |
| **Perpetual autopilot** `autopilot/*` | GOAL file, problems ledger, perpetual state | discover, write a goal, run its session, settle | backlog, daemon, operator |
| **GitHub integration** `github/*`, `scripts/*-github-owner.ps1` | issue row, `runner.lock`, owner cursor and marker, evidence receipts | tick, approve, reconcile, publish; the owner's turns; the supervised watcher | GitHub, daemon's kernel |
| **Front ends and handover** `web/server.mjs`, `bot/*`, `scripts/host*.mjs` | stop file, gate, backup and its manifest | pause, resume, start, run once, reopen, back up, restore | daemons, ledger, backlog |
| **Run database, learning, command line** `db.ts`, `learn/*`, `cli/*` | attempts and costs; lessons | record, sum | scheduler |

What is hard in each, and what must hold:

- **Ledger, queue, scheduler.** Daemons of several configurations interleave in
  one ledger; leases lapse while their holder is suspended; a crash leaves
  claims, queue rows and the merge turn behind; one of several writes fails.
  Write scopes must stay exclusive, a task must land once, only verified work
  may land, the queue must neither lose nor block anybody, reservations must
  respect the hard cap.
- **Long-horizon.** A driver holds the whole state in memory and writes all of
  it; operators read, look at the lock and write in separate steps. High-risk
  steps need their own approval, progress needs its checkpoint, completion its
  audit, and a drive must end.
- **Lease and Freebuff.** A lease is three writes; a process may die between any
  two. One live holder at most, no second session beside a lost one, nothing
  abandoned for ever.
- **Conductor.** A worker outlives its time limit and its conductor, and may
  commit late. One worker at a time, no late commit in a baseline or verdict, no
  attempt after a cost stop, and every run of it ends.
- **Control envelopes.** Unlocked readers decide, locked commits act, and a
  commit may stop half-way. No instruction twice, true and final receipts,
  nothing accepted with an unconfirmed instruction, everything settled.
- **Inventory and worker.** Time limit, cancellation and close race for one
  result; a host dies with its worker alive. Every worker alive has an open
  record, and a task has one worker.
- **Daemon, supervisor, guardian.** A decision rests on a heartbeat and a
  database read before the gate. Two daemons must never work at once; nothing is
  done under a pause; an execution observed alive is not killed; a dead or
  hanging daemon is replaced.
- **Backlog.** Read-modify-write under a lock that does not name its holder and
  is reaped by age. Nobody may write over what another wrote meanwhile, and
  every task comes to an end.
- **Routing and model policy.** Receipts are files that several callers share.
  One probe per breaker, a quarantine for good, a fallback only after a failure
  without effects, an isolation that is not prolonged by old data.
- **Verification.** Review, restart, rebase and fast-forward are far apart. What
  is done is proven on the main it landed on, and a saved candidate carries the
  verdict of an independent reviewer.
- **Autopilot.** Three files and a repository that moves. A problem in progress
  has its GOAL, a fixed one was verified, a manual GOAL survives.
- **GitHub.** Everything may change between two reads of one publication. No
  worker starts on a candidate already verified, nothing unverified is published,
  every repository gets its turn, one watcher runs.
- **Handover.** A backup reads three stores one after the other. What it calls
  done is merged, and nobody works under a pause.

## 2. Modules and the code they model

| Module | Role |
|---|---|
| `TeamState` | ledger, queue and the scheduler that drives them |
| `WriteScopes` | abstract promise of the ledger: who owns what, who may land |
| `SerialMerge` | abstract promise of the merge queue: one at a time, verified where it lands |
| `LongHorizon` | the drive loop, its files, operators |
| `LockLease` | process lease and Freebuff's use of it |
| `ExclusiveLock` | abstract promise of the lease |
| `Conductor` | `runConductorTask` with its ledger, fences and workers |
| `ControlStore` | envelopes, their writers, the driver, sweeps |
| `Execution` | the worker process, its observation, the inventory |
| `ModelRoute` | logical calls over shared breakers |
| `Routing` | the choice of an engine: isolation, rotation, gates, caps |
| `Supervision` | a daemon, its watchers, operator and pause gate |
| `Guardian` | extends `Supervision` by the guardian and its incident |
| `Autopilot` | the outer loop with GOAL, ledger and session |
| `Backlog` | the backlog file under its lock directory |
| `GithubIssue`, `GithubOwner` | one issue from intake to pull request; turns over repositories |
| `IssueEvidence` | the receipts a repaired issue is published on |
| `Watcher` | the Windows scripts around the owner's command line |
| `Handoff` | console, bot and host tool over one project |
| `Herdr` | one execution of the Herdr engine |
| `Verification` | one task from its worker's commit to the done row |
| `SuiteShards` | the two-round regression suite in CI |
| `MC*` | instances for TLC, see section 3; `MCRouting`, `MCModelRoute` and `MCHandoff` are the parts of `MCAdmission` that theorems are also about |
| `*Proofs` | theorems, see section 6 |

Conventions. An action is what the code does between two points where somebody
else can act: one SQLite transaction, one file operation, or the stretch up to
an `await`. `pc` says where a process stands in its function, `frame` or `mem`
holds the locals that survive such a point. Time is a flag ("lapsed", "old",
"expired") that may rise whenever nobody renews what it belongs to, or a small
counter. A crash removes a process and leaves the disk as it is. A write that
may fail has an action of its own that spends one of `MaxFaults`. Bounds are
constants whose comment says so; identifiers that run out (executions,
envelopes, workers) bound the length of a behaviour.

### TeamState

`state, active, lapsed, reserved, extra` are the columns of `team_claims`;
`row, seq` those of `merge_queue`; `captain, captainLapsed` the `merge-captain`
lease; `backlog, main, spent, stop` the world outside. Each method of
`TeamState` is a `BEGIN IMMEDIATE` transaction, hence one action, and each that
calls `reapExpired` applies it within the same action (`ReapExpired`). The locals
of `runSingleOnce` are `frame[e]`: billed total read at the start, verification,
outcome. `StartCycle` is `runOnce` filling its batch; the next cycle may start only
when all of the batch has settled. `Admission`, `EngineEnd`, `CandidateStep`,
`QueueStep`, `TurnStep` and `ReportStep` follow `runSingleOnce` from the top to
its `finally`. Manifests are sets of leaves, so that two globs overlap exactly
when the sets intersect; an undeclared manifest is the whole of `Scope`.

### LongHorizon

`disk` is `state.json`; `mem[d]` the copy that driver `d` holds and writes at
`Save`, `Park` and `InternalError`; `op[o]` what an operator read and means to
write. `pc` names the await or file operation at which a driver stands. `granted`
and `consulted` are history: approvals an operator wrote, fingerprints for which
an escalation was asked.

### LockLease

`dir, owner, marker, old` are the directory with its files and its age, `row` the
row of the coordinator, `tx` the open transaction. Acquisition is begin + mkdir,
write of `pid.json`, commit; release is begin + removal, commit; either may die or
fail in between. After a failed acquisition the transaction is rolled back first, and
the directory is cleaned up outside it, in two steps (`CleanupLooks`,
`CleanupClears`): what is removed may by then be a successor's. `unmarked` is
history, that such a clean-up has removed a marker. The leases in other modules (`drive.lock`, the daemon's lock, a
probe's lease) are this one in the form of its promise.

### Conductor

`book[t]` is what the readers of `ledger.ts` compute from the lines of task `t`
(`lastFinish`, attempts, last result), `torn` whether the last line is cut, so
that the next append is swallowed with it. `fence`, `projection` and `hold` are
the three files that survive a crash. `head` counts commits; a commit stands for
any change of the repository, since a dirty tree takes the same path. `live` are
workers at work, also those the conductor has given up; `over` and `late` are
history. Worker, Git and operator are external and follow
`docs/conductor-worker-protocol.md` as the code relies on it.

### ControlStore

`state[c]` is the envelope's state and disposition in one, `fenced` the envelopes
with an unfinished intent: these are never read again and stop deliveries and
acceptance in the directory. `plan[x]` is what an unlocked reader (a sweep, the
end of an execution, a delivery) decided and will commit one by one; each commit
re-reads the state under the lock (`Current`). `handed[c]` counts how often a
worker was given the instruction.

### Execution

`active`, `history` and `request` are the inventory's files for each execution,
`lock` the host that made `.inventory.lock`. Each section under the lock is one
step, except `finish`, which writes the receipt and then moves it. `mem` is the
state of an observation, saved or not. A worker (`child`) outlives its host;
close, time limit and cancellation settle one result; `held` are the executions
whose claim and worktree stay.

### ModelRoute and Routing

In `ModelRoute` a caller walks its route from file to file: read the breaker,
take the lease, send, and write or remove the receipt; two candidates of a route
may share a key. In `Routing` the run database is a log of attempts with their
day and outcome, from which the weights, caps and isolations are computed. A worker
writes one row (`RecordAttempt`) or, killed from outside, none (`NoRow`); a result that
is refused afterwards adds one of the same engine (`Refuse`), also that of a saved
candidate, which is judged without a choice of an engine and against no cap.

### Supervision, Guardian, Watcher

`snap[w]` is what a watcher has read when it decides; it acts later under the
gate. `beat` is the age of the heartbeat. A daemon stands for its pid, so that a
new daemon is another one. Its lock is made in two steps, `Boot` for the directory
(`Bare`) and `BootWrites` for `pid.json`, and it may die in between. `Guardian` adds the incident, its lock and codex,
whose report is a choice. `Watcher` has Windows' rules for mutexes and job
objects as external operators.

### Autopilot, Backlog

`Autopilot` keeps of the repository whether the verify command passed since the
last merge. `failing` says that the run database cannot be written, in which case
`Mark` changes nothing and nobody is told; `lost` are the problems whose settlement
was swallowed. `Survey` is the discovery a session makes when it resumes a GOAL.
`Backlog` gives each writer a `snap` of the file it read; duplicate texts share an
id, as in the code. Its lock grows old by time alone: with nobody inside it always
does (`Ages`), with somebody inside when he is slow (`Lingers`, bounded). `sawOld`
are those who have seen it old and will rename whatever is there; `robbed` records
that one of them took it from a process inside.

### GithubIssue, GithubOwner, IssueEvidence

`st` is the saved row of the issue, `mem` the copy a run works on. One program
counter serves ticks and operator commands, since `runner.lock` excludes them
from one another; each step reads GitHub once. `GithubOwner` keeps cursor and
order as ranks; `listed` are the repositories GitHub lists, `found` those among them
that may be pushed to, and only those not listed are forgotten. `IssueEvidence`
follows three receipts through commands that may each leave a process behind, which
changes what later commands run on and may put it back (`Disturb`, `Undo`; `undone`
are the trees that were put back).

### Handoff, Herdr, Verification, SuiteShards

`Handoff` has the stop file, the gate and a backup that reads backlog, ledger and
repository one after the other. `Herdr` has two hosts that may run one execution
and an agent that outlives the launcher. In `Verification` a commit names its
attempt, how much of main lies below it and whether somebody committed on top by
hand; its verifier and evidence store are configured, as `cli/assemble.ts` does.
`SuiteShards` has receipts of several runs and attempts before the last job; `seen`
are the checkouts a round has run on, which its report carries, and `undone` that the
reviewed one was put back during the round.

## 3. Runs

Every passing run lists its properties in PROJECT.json, each with a mutant of the
code under which the same run finds it violated: the bounds are large enough for
the case that matters to happen. Several machines that share no state are checked
in one run: the variable `part` says whose behaviour it is, and the others rest in
an initial state. A property of one machine is then an implication from its
`part`, or one that the resting state satisfies.

| Run (module) | Properties | Instance and why it is enough |
|---|---|---|
| `backends` (`MCBackends`) | `LedgerIsSound`, `NoOrphanRow`, `QueueMoves`, `DriveEnds` | *Cap*: 2 executions of up to two turns under a hard cap of 2 and an attempt cap of 3, both of which bind. *Queue*: 2 executions, 3 tasks, 2 configurations, a stop file, crashes: a queue with a head and a follower, handed over within and between daemons. *Drive*: 1 driver, 1 operator, 2 rounds |
| `admission` (`MCAdmission`) | `NoDoubleMerge`, `CallsAreSafe`, `KeepsPromise`, `HandoverIsSafe`, `LimitsKept` | *Faults*: 3 executions over two conflicting tasks, so that one is lost, one reaped and one admitted; one configuration's daemon may be suspended at any point, one write may fail. *Routing*: an engine in two slots with a daily cap and one at no cost, 2 days, a window of one day, 3 rows of runs or refused results: the cap binds, and the slots are cut. *Calls*: 2 callers on a route whose first two candidates share a key, 2 attempts, a cooldown, a death or damaged receipt. *Host*: 1 task, 2 workers, 2 consoles, 2 commands, 1 death |
| `horizon` (`MCLongHorizon`) | `HighRiskApproved`, `ProgressIsBacked`, `CompletionIsOwn`, `DoneIsProven`, `SavedIsJudged` | *Drive*: 2 drivers (one dead or late beside its successor), 2 orders, 2 high-risk steps (approval of the wrong one), 2 rounds, repeat limit 2. *Herdr*: 2 hosts with one execution, 2 base commits. *Gates*: 5 configurations (free-only with and without independent reviewer, with a release, without CI), 2 verify steps, 2 workers, 1 foreign commit to main, 2 crashes or acts of others |
| `conductor` (`MCConductor`) | `WorkersAreFenced`, `BillStopsTask`, `RunEnds` | 2 tasks, one with cost cap and time limit; a retry, two workers, a commit, a fault; deadlock checked |
| `control` (`MCControlStore`) | `DeliveredAsReceipted`, `AcceptedConfirmed`, `Settled` | 2 envelopes of either mode to one execution with 2 turns, operator and cycle sweeping beside its driver, 1 fault; deadlock checked. Three envelopes and two faults gave the same verdict |
| `daemons` (`MCDaemons`) | `MarkersHold`, `IsExclusiveLock`, `LeaseIsTaken`, `OneDaemonWorks`, `Recovers`, `OneRun` | *Lease*: 3 processes (a dead or failed holder and two contenders), 2 faults. *Daemon*: 2 pids, 1 watcher, every threshold of the heartbeat apart, 1 crash or wedge. *Watcher*: 2 supervisors, 3 starts, 2 deaths. Deadlock checked |
| `stores` (`MCStores`) | `WorkersAccounted`, `CancellationStops`, `WritesAreCurrent`, `Converges` | *Inventory*: 2 executions of one task on 2 hosts, 1 death or failing write. *Backlog*: the daemon and a user, 3 lines of two texts, 1 death or slow writer, any number of directories seen old |
| `github` (`MCGithub`) | `WorkStartsClean`, `PrVerified`, `IssueRests`, `EachServed` | *Issue*: 2 runs, 2 control starts, 2 failing reads, 3 changes by others, 2 operator commands, 2 crashes or lost answers. *Owner*: 4 repositories, two of which come and go or lose and regain their permission, one without work, 3 crashes, lost results or failed markers |
| `guardian` (`MCGuardian`) | `PausedIsIdle`, `ProtectedSpared`, `EvidenceIsReal` | *Guardian*: one daemon at a time (the run `daemons` has two), 1 guardian, 1 failure event and retry. *Evidence*: trusted and custom configuration, 2 replacements, 1 process left behind, which may undo what it did |
| `autopilot` (`MCAutopilot`) | `LedgerIsTrue`, `AutopilotCycleEnds`, `SuiteIsReal` | *Outer loop*: 2 problems and a manual GOAL, a score that rises once, 1 kill or ledger that fails for as long as it likes. *Suite*: 2 shards, two heads whose lists of specs differ, 1 change of a checkout, undone or not |
| `team_orphan` (`MCTeamState`), `autopilot_manual` (`Autopilot`) | `NoOrphanRow`; `ManualKept` | expected violations, see section 5 |

`CHECK_DEADLOCK FALSE` stands where the system really comes to rest: in
`admission`, `backends` and `team_orphan` (execution identifiers and days run out),
`horizon` (a run has ended and all orders are spent), `stores` and `github`. The
cfg says so each time; the other runs check for deadlock.

Which limits matter:

- `NoDoubleMerge` is checked with one failing write and tasks
  that conflict; beyond that it does not hold, see section 5.
- `RowsFinal` and `LedgerIsSound` (for its `SerialMerge`) hold without suspended daemons
  only. `finishMerge`
  compares neither token nor state, so a daemon that wakes up after its row was
  quarantined rewrites it; the claim stays quarantined, and `KeepsPromise` is
  checked with such daemons.
- `NoOrphanRow` is checked without failing writes; with one it is `team_orphan`.
- `WritesAreCurrent`, `MarkersHold`, `LedgerIsTrue`, `EvidenceIsReal` and `SuiteIsReal`
  each name what the code does not exclude: a lock taken from a process inside
  (`robbed`), a marker removed by a late clean-up (`unmarked`), a swallowed settlement
  (`lost`), a change undone before it was looked for (`undone`). What they say is that
  nothing else breaks the promise; section 5 has what these do. The actions are in the
  instances, and without the exception each property fails there.
- `LeaseIsTaken` is a promise while there is a process left to take the lease: a
  finite `Proc` can run out of pids (`PidsOut`), real ones do not.
- `Recovers` leaves out daemons that hang unseen (`HangsUnseen`) and one that died
  between making its lock and writing `pid.json` (`DiedNameless`), see section 5.
- `LimitsKept` counts the rows of workers (`Worked`): all rows of an engine together,
  with those of refused results, do exceed its cap.
- `MaxScore = 0` lets the score of a session rise once; a rise does no more than reset
  the count of rounds without progress, which is what ends a session.

## 4. Fairness

- `TeamState`: weak fairness of `Progress(e)`, since engines, gates and Git
  commands have timeouts and a waiting execution polls every 100 ms; and of
  `LapseClaim`, `LapseCaptain`, which are time passing for a lease nobody renews
  (the renewal disables them). `StartCycle` is not fair, nor is any turn assumed
  to succeed. `MergeTimeout` is not fair: `TurnHandedOn` does not lean on the deadline.
- `LongHorizon`: weak fairness of a driver's own steps; its awaits have timeouts.
  Nobody has to start, resume or interrupt a run.
- `LockLease`: weak fairness of what a process has begun, its clean-ups included, of
  ageing and of the supervisor's respawning; strong fairness of "somebody begins to acquire", since
  contenders poll and the transactions of others disable the step only for
  moments.
- `Conductor`: weak fairness of the conductor's steps. A worker need not end:
  with a time limit the timer fires, without one the engine's own limit answers.
- `ControlStore`: weak fairness of a driver, of the cycle's sweep and of time to
  live. Operators need not look.
- `Execution`: weak fairness of the sampling timer and of what follows a kill; a
  worker need not end by itself. `ModelRoute`: of a caller's steps.
- `Backlog`: weak fairness of the daemon's work, of a writer that has begun, and of
  time for a directory with nobody inside.
- `GithubIssue`: weak fairness of ticks and of a run that has begun.
  `GithubOwner`: weak fairness of a tick's own steps and of the operator who
  recovers from a marker, which stops every tick until he does; strong fairness
  of the start of a tick, which others' locks disable for moments.
- `Supervision`: weak fairness of the clock, of what an attempt or round has
  begun (the write of `pid.json` included) and of a watcher's rounds; strong fairness
  of the steps that need the gate or the lock, since these are polled and others hold
  them only for moments.
- `Autopilot`: weak fairness of a cycle's steps. A session need not succeed.

## 5. Where the code and its documents disagree

Two are runs that must find the violation; `findings` in PROJECT.json quotes code
and document.

- `team_orphan` / `NoOrphanRow`. `pauseCandidate` makes two writes; when the second
  fails the scheduler releases the claim, and a READY row without owner stays at the
  head of the queue for good.
- `autopilot_manual` / `ManualKept`. `runPerpetualCycle` decides at its start that
  there is no GOAL, awaits discovery and author, and renames its own GOAL over
  whatever the operator has written meanwhile.

The next ones were found the same way and are kept as definitions in their
modules, for a run of one's own; each fails in a few steps.

- **A task can be merged twice** (`TeamState!NoDoubleMerge` with `Concurrency = 2`,
  `MaxFaults = 1` and two compatible tasks in one project). A batch member g throws
  when its merge turn ends in recovery and the catch of `enqueueTeamMerge` cannot
  write either; `runOnce`'s `Promise.all` rejects while its sibling f goes on. The
  next cycle picks f's task, still open, and waits in its preflight; f lands,
  reports and releases; then the claim is granted, since nothing reads the backlog
  again after the await (`scheduler.ts:166–210`), and the task runs and lands once
  more. With two failing writes (backlog row and quarantine) one execution is enough.
- `TeamState!MergeMutex` with a suspended captain: `reapExpired` takes the captain's
  lease on time alone; the design document says a lapsed lease alone must not
  authorise a takeover.
- `TeamState!SpentWithinCap`: `runSingleOnce` reads the billed total before the
  preflights and `claim` compares it afterwards; what another execution charges and
  releases in between is counted on neither side.
- `LongHorizon!EscalatedOnce` (`types.ts:79`): the flag that a fingerprint was
  escalated is saved only after the escalation.
- `Guardian!DedupAfterSuccess` (`fleet.ts:372` against `:468`): an incident is marked
  as handled although codex' action failed.
- `Execution!KeptForRecovery` (`scheduler.ts:524` against 317 and 536–541): an
  unconfirmed execution does not always keep its claim and worktree.
- `ModelRoute!CoolingRespected` (`docs/model-route-policy.md:51`): the breaker is read
  before the lease is awaited, so a request may go out inside a new cooldown.
- `Routing!ProbedBeforeReisolated` (`signature-breaker.ts:10` against
  `daemon.ts:192`): an engine is isolated again on old rows, without a probe.
- `Supervision!LiveNotReaped` (`docs/supervision-playbook.md` §1.1 against
  `supervise.ts:379`): a daemon that came back after the reading is reaped.
- `Autopilot!LastNeverBack` (`perpetual.ts:265–268` against 328): the time of the
  last session goes back.
- `LockLease!OneSession` (`freebuff.ts:77`: "one per-user lease serializes all projects
  sharing a Freebuff session"): the clean-up of a failed acquisition runs after its
  ROLLBACK (`coordinator.ts:200–203`) and in two steps, look and remove
  (`internal.ts:142–145`). A successor that takes the lease in between, writes its
  marker, opens its session and dies leaves a backend at work with directory and marker
  gone; the next one opens a second session. The daemon's own lock stays exclusive, by
  its row (`IsExclusiveLock`).
- A backlog update is lost (`Backlog`, `~robbed` without its exception) when a writer
  takes longer than ten seconds, since `backlog.ts:118` goes by the directory's age
  alone, or when two waiters both see an old lock and the second renames away the
  fresh one of the first.
- A daemon that dies between making its lock and writing `pid.json` is never
  replaced (`Supervision!DiedNameless`): `supervise.ts:113–122, 321, 359–364` take a
  lock without pid for a failed probe and keep it, on every pass.
- An engine's rows of a day exceed its cap (`Routing`): a result that ownership,
  artifacts or gate refuse writes a second row of the same engine
  (`scheduler.ts:354, 364, 381`), `today-attempts.ts:77–81` counts every row, and a
  saved candidate is judged again against no cap. A run that was killed from outside
  leaves no row at all (306, 317, 536–541).
- A problem in progress is stranded (`Autopilot`, `lost`): `ProblemsLedger.safe`
  (`ledger.ts:149–151`) swallows a failed `setStatus`, and `closeout` deletes the GOAL
  all the same (`perpetual.ts:309–325`).
- Discovery is not spaced for a session that resumes a GOAL: `session.ts:110–133`
  pays for one each time, whatever the cooldown says.
- Changes that are undone in time are not seen: `regression.ts:232–249` compares heads
  and files once after its three runs; `assertCheckout` (`regression-shards.ts:27–32`)
  looks before and after a round, at tracked files and untracked specs. A receipt may
  then come from a run on something else.

Smaller things the models show, without a promise they would break:

- *Execution*: `finish` takes mere contention of the lock for an unconfirmed end; an
  engine that throws before spawning leaves a terminal receipt without exit, after
  which admissions are refused; a failing write in `finish` keeps the inventory lock.
- *Routing*: the quarantine gate and then the cap gate may leave no candidate for
  the rest of the day; an isolated subscription engine is appended again.
- *Autopilot*: a session reads the GOAL again after `await notify`, so that a
  replaced GOAL is credited to the problem; an automatic GOAL killed at the wrong
  moment is deferred for ever with its file deleted; left-over retryable sessions
  are not armed again; a refused ACHIEVED does not update `lastScore`.
- *GitHub*: a transient read error before a candidate exists blocks the issue
  outright; a cooling candidate makes the whole repository idle
  (`runner.ts:101–102`); the owner's cursor is saved only at the end of a tick.
- *Supervision, Guardian*: two guardians may both recover a dead owner's lock;
  `--guardian only` still launches and reaps; failure events are consumed while an
  incident cools; `restart.request` is not cleared at boot.
- *Backlog*: a report that times out on the lock leads to the done task being
  picked again; writes are not atomic; `cleanup-blocked.mjs:194` leaves projects
  changed without manifest when a later one fails.
- *Handoff*: a run-once has no pid file, so a resume or run-once in the middle of a
  backup can leave a snapshot with an active claim or an open task that is merged;
  only "done is merged" holds. A second console's start clears an operator's stop
  while the fresh daemon has no lock yet; the console reopens blocked lines without
  the lock.
- *Herdr*: a crash between reservation and launch means the execution is never
  prompted; an agent that commits between the host's check of HEAD and its own
  commit is not excluded.
- *Verification*: a pending review whose task was blocked, or done before a crash,
  keeps a past `retryAt`, and `reviewRetryDelay` then returns 1 s for every later
  deferral; a candidate rejected after a rebase, or between rollback and
  `closePendingReview`, stays pending with a stale head and quarantines its task.
- *Watcher*: a stop that takes longer than 5 s releases the mutex with processes
  told to end but still counted.
- *Regression*: a failed second verification leaves the earlier receipts of the same
  commit in place; "re-run failed jobs" gives the other shards an older attempt, and
  the aggregate refuses until all are run again.

## 6. Proofs

TLAPS proves the theorems for every value of the constants that satisfies the
named assumption of the module. A proof module states types first, then an
inductive invariant as a conjunction of named parts with a lemma per action or
group of actions, then the consequences. Where a run checks several machines, the
theorem is stated of one machine's specification or of the run's, of which each
machine is a part while the others stutter. A proof module extends the module in
which the run's property is defined, so that the two are about the same formula:
`MCAdmission`'s parts, `MCLongHorizon`, `MCDaemons`, `MCGuardian` and `MCAutopilot`
hold the instances that theorems and runs share.

- **`TeamStateProofs`** (`TeamAssumption`).
  - `ClaimCorrect`: whoever stands where it may write has a claim that is active or
    quarantined, and two such claims have disjoint manifests. Exclusiveness alone is
    not inductive, since it says nothing of claims that `Holders` reads in the
    ledger. From it follow `ScopesAreExclusive` and the refinement
    `LedgerKeepsPromise`.
  - `MergesAreSerial`, the refinement of `SerialMerge`: executions enter the merge
    function one at a time, land at most once, and land what was verified on that
    main. It needs `Stallable = {}`: then whoever is in its turn has an unlapsed
    captain's row (`CaptainInv`), and the grant of the turn is the only step into it
    (`TurnMoves`). `LandedIsVerified` needs nothing.
  - `QueueHasNoOrphans` needs `MaxFaults = 0`.
  - `NoTaskLandsTwice` needs `FewFaults`: no write fails, or at most one does and no
    two tasks of one configuration run side by side. `CycleInv` says that cycles do not overlap
    then, so that live executions have tasks of their own; `LandInv`, that whoever has
    landed is past its turn and still holds its scopes or its line is closed, and holds
    them as long as another execution of the task may still land.
  - `ReservationsFitCap`: the ledger adds up reservations over the set of claims held.
    The few facts on sums this needs (another summand, one changed, one gone) are
    proved of the community modules' fold from a smallest subset that refutes them.

  - `LedgerStaysSound` is these two, and the property of the run.
  - `SettledRowsStay`: a queue row that is done, blocked or quarantined is never
    rewritten, whatever fails to be written, with `Stallable = {}`. `SettleInv` says
    what the row is where an execution stands, and that a live one's claim does not lapse,
    so that nobody else settles its row.

  The three conditions are those of the runs, and sections 3 and 5 show what happens
  without them.
  For `ModelRoute` (`CallsAssumption`, any route), `RoutedCallsStaySafe`: `CallSound`
  makes a call a list of distinct requests with what became of them, all retriable
  while it goes on; a request that probes holds the lease of its key.
  For `Routing` (`RouterAssumption`), `LimitsStayKept` in three parts. *Caps*: whatever is
  drawn up or runs has an attempt left today (`Chosen`), and the rows of other days and
  of refused results do not count (`PastOK`). *Rotation*: each slot cut off leaves every engine one and takes
  one off the total (`ShaveOK`), and as many are cut as there are too many (`WeightsOK`).
  *Clock*: an isolation that runs ends after today, so that neither `Isolate` nor
  `Prune` touches its entry (`FileInv`). That candidates are engines at all
  (`RouterTypeCorrect`) goes through every fold that draws them up.
- **`LongHorizonProofs`** (`HorizonAssumption`, `HostsAssumption`, `GatesAssumption`).
  - *Drive*: `HorizonCorrect` carries what is true of `disk` to every copy of it,
    memory of a driver and the state an operator read. An approved pending step was
    granted; counted progress has checkpoints; a complete state has progress and
    nothing pending. Without the copies none of these is inductive.
  - *Herdr*: `OnePromptOnly`. Only the host that made the reservation may launch,
    hence at most one prompt; a binding or a completion, once on disk, stays, so that
    what a late reader holds is still true.
  - *Gates*: `DoneProven` and `SavedAreJudged`. Evidence speaks of a commit, and main
    only grows; a candidate on top of which somebody commits before it lands is
    *overtaken* and never lands, and only one that is not carries its evidence to
    main. What was saved is rejected, done, or still waits with a review that blocks
    its task.
- **`LockLeaseProofs`** (`LeaseAssumption`, `WatchersAssumption`). `LeaseCorrect`
  relates directory, pid file, row, marker and backends to the place where each
  process stands: the row is a live holder's own, the directory is never another one's
  but may be gone, and a session nobody waits for has its marker unless a late clean-up
  has removed one. `MarkersAreHeld` and the refinement `LeaseIsExclusiveLock` follow.
  `OneDaemonOnly`: whoever is in a round has its own pid in the lock, and at most one
  is making it. `OneRunOnly`: a
  watcher that may run its command line, now or once it looks at its gate, is in the
  job of the supervisor that has the mutex, which stops it before it goes on.
- **`GuardianProofs`**, without any assumption. For `Guardian`, the action properties
  `PausedStaysIdle` and `ProtectedStaySpared`. Whoever is inside the pause gate made
  it, and the operator writes the stop file only while it is free; a pass that is past
  codex's decision, or supervises on the way there, belongs to a configuration that
  observes no executions, whose inventory is empty. The last part relates where a pass
  is to what its supervision is for, and is what makes the invariant inductive.
  For `IssueEvidence`, `EvidenceStaysReal`: a checkout that was disturbed is clean again
  only if it was put back, which `undone` records, so that one found clean at the check
  was clean when the command ended in it or is among those (`Gathered`).
- **`ConductorProofs`** (`ConductorAssumption`). `ConductorCorrect`: a live worker or
  unreviewed late work leaves a fence, a projection or an unfinished attempt in the
  book, and a bill over the cap leaves a hold or a book that refuses the task.
  For `Autopilot` (`LoopAssumption`), `LedgerStaysTrue` needs only that the values for a
  manual GOAL and for none are no problems. In a cycle on a problem the GOAL is that
  problem or an operator touched it; while a cycle discovers or writes a GOAL, none of
  a problem is there to be lost (`CycleInv`); a problem that stays in progress past its
  settlement is in `lost`. `DiscoveriesAreSpaced`: two discoveries by the cycles of
  one process lie a cooldown apart, since what was paid for last is in the state file or
  the cycle that paid has still to arm the cooldown (`SpacedInv`; the value for no time
  is no number). For `SuiteShards` (`SuiteAssumption`),
  `SuiteStaysReal`: a complete receipt has two rounds of what was selected on the
  reviewed head or with a change put back in between, and parts of different shards are disjoint, which rests on the specs
  being a list without repetition.
- **`ControlStoreProofs`** (`ControlAssumption`). `ControlCorrect` ties `handed` to
  states, claims and the plans of every reader: an envelope in somebody's batch is
  claimed by that batch, and a pending one was never handed over.
  `DeliveriesAreReceipted`, `AcceptedAreConfirmed` and the action property
  `DispositionsAreFinal` follow. For `Handoff`, without any assumption,
  `HandoverStaysSafe`: whoever is past the entrance holds the gate (`GateHeld`), and
  what is done is merged also in the half-made backup, of which the backlog is read
  before the commits (`CopyIsMerged`).
- **`ExecutionProofs`** (`ExecutionAssumption`, `LinesAssumption`). A worker always
  has an open receipt, which no sweep moves and every admission sees
  (`WorkersAreAccounted`). `NoLostUpdate`, for any number of users: as long as nobody was robbed, whoever
  is inside the lock holds it, and its copy of the file is current. It was robbed only
  by somebody who had seen an old directory (`Reapers`).
- **`GithubIssueProofs`** (`GithubIssueAssumption`). The copy in memory is the row on
  disk but for what the present step has still to save (`Memory`); what is started
  was charged (`Charged`); commits are numbered by the start that made them, so that a
  candidate is newer than its base (`Heads`); nobody is on the way to a worker for a
  task with a verified candidate (`Work`); what is being sent has its evidence (`Sent`).
  `UnknownStaysHeld`, without any assumption, is of `GithubOwner`: a child that nobody
  waits for is under the marker, and no tick that calls a child began under one.

Only model-checked is all liveness: `QueueMoves`, `DriveEnds`, `LeaseIsTaken`,
`Recovers`, `RunEnds`, `Settled`, `CancellationStops`, `Converges`, `IssueRests`,
`EachServed`, `AutopilotCycleEnds`. The prover does not reach fairness and ENABLED.
Every safety property of a passing run is stated by a theorem.

No module declares a RECURSIVE operator, with which the prover loses its SMT backend.
The sums of reservations and the folds of the rotation are those of the community
modules. Of any such fold `FoldExists` proves, by a smallest subset that refutes it,
that its recursion has a solution, and `FoldBuilt` that a solution stays in whatever
sets its steps respect; the lemmas on `At`, `Weights` and `Weighted` are instances.
`Routing` selects from sequences with such a fold (`At`) and counts positions instead
of using `SelectSeq`, of which the prover knows nothing.

## 7. What is not modelled

- `TeamState`: engine routing (its own module), global cost scopes, learning, and
  the failure counters behind `resolveFailure`, whose verdict is a choice; claims
  that only review are `Verification`'s resumed candidate.
- `LongHorizon`: an approval written by hand into `interrupt.json`, metrics and
  evidence, reuse of a pid. The auditor's answer is a choice, also where the
  built-in mechanical auditor would always say that the goal is achieved.
- `LockLease`: the race with versions that knew no coordinator (EEXIST on mkdir),
  a malformed `pid.json`, reuse of a pid, busy timeouts of SQLite.
- `Conductor`: `decompose.ts`, the checks of arguments; two conductors on one
  state directory, which the protocol leaves to the operator. The branch of an
  attempt left open in the same process (conductor.ts:264-270) cannot be reached.
- `ControlStore`: detection of duplicate texts, `waiting_input`, errors of the
  inventory that suspend the test for dead targets, removal of intents by an
  operator, contents and hashes of receipts.
- `Execution`: parsing and truncation of output, the platform's ways to kill a tree.
- `ModelRoute`, `Routing`: parsing of policy and receipts; consistency reports.
- `Supervision`, `Guardian`: backoff lengths, digests, `reapStaleGuardianOwner`
  (fleet.ts 102–126), several projects in one pass.
- `Backlog`: Markdown syntax and metadata of tasks; that a write is not atomic.
- `GithubIssue`: research reports and proposals, waiting times, wording.
  `IssueEvidence`: `verifyQuality` does not look at the checkout after its commands,
  and neither does the model. A tree is "clean" by the files the code compares: in
  `IssueEvidence` and `SuiteShards` other untracked files are no part of it.
- `Handoff`: `switchRuntime`, health and update of a host, checks of dirty
  worktrees, the breaking of a gate whose live holder is suspended for a minute,
  the second reading of the configuration in `pauseForHandoff`.
- `Herdr`: the classification of failures by their text.
- `Verification`: retry times (a review is resumed any time later), the bookkeeping
  of flaky tests, test isolation; the operator commits to a branch at most once and
  does not undo it. A worktree's garbage collection is a matter of retention.
- `SuiteShards`: jobs share uploads only, and are looked at one after the other.
- Components without a module: run database, learning store, command line, with
  the reason in PROJECT.json. The remaining adapters only build arguments for
  `proc.ts` and parse its output.

Hazards without a property are listed in PROJECT.json with the reason.

## 8. Plan

Done: the modules of section 2, their runs, and the theorems of section 6.

Next, in this order:

1. The learning store and the run database's budgets, once their rules are more than sums.
2. Of the safety halves of the liveness properties, the bounds they lean on: attempts of
   the conductor, rounds of a drive, sessions of a cycle.

Runs are few by intention: a new machine joins a run whose module asks a related
question, and each keeps its own `part`.
