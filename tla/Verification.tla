---------------------------- MODULE Verification ----------------------------
(***************************************************************************)
(* One task from its worker's commit to the done row: the gates of a       *)
(* candidate (engines/run-verify.ts, kernel-verifier.ts, review-gate.ts,   *)
(* candidate-gate.ts), the evidence they leave (evidence-chain.ts), the    *)
(* candidate that waits for a reviewer in the free-only tier               *)
(* (pending-review.ts) and its worktree (worktree.ts).                     *)
(*                                                                         *)
(* A commit names the worker's attempt, how many commits of main are below *)
(* it, and whether somebody committed on top by hand.  Main is the         *)
(* sequence of what was committed to it.  One daemon works on the task and *)
(* may crash between any two steps; an operator commits to main and to the *)
(* branch, writes and removes the stop file, approves a release, reopens   *)
(* a blocked row and changes the configuration.                            *)
(***************************************************************************)
EXTENDS Naturals, Sequences, SequencesExt

CONSTANTS
    Configs,    \* what is configured: see Config
    Steps,      \* number of steps of the verify command
    Reviewers,  \* the reviewer model and its fallbacks, in order
    None,
    MaxWork, MaxMain,
    MaxEvents   \* bounds: workers, commits of others to main; crashes, outages and acts of others

\* free: the free-only tier; risk: of the task; cmd: verifyCommand, "bad" with shell syntax
\* other than &&; release: the task publishes; reviewer: a reviewer is configured;
\* kin: the writer's model is among the reviewers or the judge.
Config == [free : BOOLEAN, risk : {"low", "medium"}, cmd : {"none", "bad", "ok"},
           release : BOOLEAN, reviewer : BOOLEAN, kin : BOOLEAN]
\* A commit, and a candidate that waits for a reviewer or did.
Commit == [work : Nat, base : Nat, hand : BOOLEAN]
Candidate == [phase : {"review", "closed"}, head : Commit, same : BOOLEAN]
VerificationAssumption == /\ Configs \subseteq Config /\ Steps \in Nat \ {0}
                          /\ Reviewers \in Seq(STRING)
                          /\ None \notin Commit /\ None \notin Candidate
                          /\ {MaxWork, MaxMain, MaxEvents} \subseteq Nat

VARIABLES
    cfg,        \* the configuration of the daemon
    main,       \* the commits of the main branch
    branch,     \* adng/<task>: its last commit, None when there is none
    tree,       \* its worktree: "none", "marked", or "bare" without .adng-worktree
    backlog,    \* "open", "blocked", "done", "split"
    stop,       \* the stop file
    pending,    \* pending-review/<task>.json
    bundles,    \* evidence bundles of the current execution
    receipts,   \* merge receipts with the bundle they name
    approval,   \* the commit a release approval names
    quota,      \* of each reviewer: "ok", "busy" (others may be asked), "refused"
    quarantined,\* reviewers under quarantine
    pc, cand, again, step, ev, check, asked, \* the cycle: see Idle
    fails,      \* failed attempts recorded for the task
    clean,      \* history: steps of this verify run that exited 0 on the branch's commit
    facts,      \* history: what is true of which commit
    work, events

gitVars == <<main, branch, tree>>
fileVars == <<pending, bundles, receipts, approval>>
modelVars == <<quota, quarantined>>
cycleVars == <<cand, again, step, ev, check, asked>>
history == <<clean, facts>>
bounds == <<work, events>>
vars == <<cfg, gitVars, backlog, stop, fileVars, modelVars, pc, cycleVars, fails, history, bounds>>

At(n) == [work |-> 0, base |-> n, hand |-> FALSE]
NoEvidence == [ci |-> "not-run", reviewer |-> "not-run"]

Init ==
    /\ cfg \in Configs
    /\ main = <<>> /\ branch = None /\ tree = "none"
    /\ backlog = "open" /\ stop = FALSE
    /\ pending = None /\ bundles = {} /\ receipts = {} /\ approval = None
    /\ quota = [i \in DOMAIN Reviewers |-> "ok"] /\ quarantined = {}
    /\ pc = "idle" /\ cand = None /\ again = FALSE /\ step = 0 /\ ev = NoEvidence
    /\ check = "none" /\ asked = 0
    /\ fails = 0 /\ clean = {} /\ facts = {}
    /\ work = 0 /\ events = 0

\* What the risk of the task asks for (risk-policy.ts).
VerifyRequired == cfg.risk # "low"
ReviewRequired == cfg.free \/ cfg.risk # "low"

Waiting == pending # None /\ pending.phase = "review"
Known(kind, c) == <<kind, c>> \in facts
Learn(kind, c) == facts' = facts \cup {<<kind, c>>}

-----------------------------------------------------------------------------
(* The end of a cycle: nothing of it is kept but the files. *)
Idle == /\ pc' = "idle" /\ cand' = None /\ again' = FALSE /\ step' = 0 /\ ev' = NoEvidence
        /\ check' = "none" /\ asked' = 0 /\ bundles' = {} /\ clean' = {}

\* blockTask
Block == Idle /\ backlog' = "blocked"

\* resolveFailure of a failed attempt: the free-only tier splits a task that failed twice or
\* blocks it, the others block it after that many attempts.
ResolveFailure ==
    /\ fails' = fails + 1 /\ Idle
    /\ backlog' \in IF fails' < 2 THEN {"open"} ELSE {"blocked"} \cup IF cfg.free THEN {"split"} ELSE {}

-----------------------------------------------------------------------------
(* Picking the task (scheduler.ts) and its worktree. *)

\* readPendingReview: task, configuration and worktree are those the candidate was saved with.
Intact == pending.same /\ tree = "marked" /\ branch = pending.head

\* A saved candidate is taken up again, at its retry time or later.
Resume ==
    /\ pc = "idle" /\ backlog = "open" /\ ~stop /\ Waiting
    /\ \/ ~Intact /\ Block
       \/ /\ Intact
          /\ pc' = "ran" /\ cand' = branch
          /\ UNCHANGED <<again, step, ev, check, asked, backlog, bundles, clean>>
    /\ UNCHANGED <<cfg, gitVars, stop, pending, receipts, approval, modelVars, fails, facts, bounds>>

\* prepareWorktree: what an earlier attempt left is removed, its branch only once the
\* directory is gone; a locked directory ends the attempt (cleanStaleWorktree).
Prepare ==
    /\ pc = "idle" /\ backlog = "open" /\ ~stop /\ ~Waiting /\ work < MaxWork
    /\ \/ /\ tree # "none" /\ Block
          /\ \/ UNCHANGED <<branch, tree>>
             \/ tree' = "bare" /\ UNCHANGED branch
       \/ /\ branch' = At(Len(main)) /\ tree' = "marked" /\ pc' = "worker"
          /\ UNCHANGED <<cycleVars, backlog, bundles, clean>>
    /\ UNCHANGED <<cfg, main, stop, pending, receipts, approval, modelVars, fails, facts, bounds>>

Worker ==
    /\ pc = "worker" /\ work' = work + 1
    /\ \/ /\ branch' = [branch EXCEPT !.work = work'] /\ cand' = branch' /\ pc' = "ran"
          /\ UNCHANGED <<again, step, ev, check, asked, bundles, clean, backlog, fails>>
       \/ ResolveFailure /\ UNCHANGED branch
    /\ UNCHANGED <<cfg, main, tree, stop, pending, receipts, approval, modelVars, facts, events>>

-----------------------------------------------------------------------------
(* Keeping a candidate (pending-review.ts). *)

\* savePendingReview of the branch as it stands.  After a rebase the base it names is the
\* main of now, which has to be an ancestor of the candidate.
Savable(rebased) == tree = "marked" /\ (rebased => branch.base = Len(main))
Save == /\ pending' = [phase |-> "review", head |-> branch, same |-> TRUE]
             /\ Learn("saved", branch.work)
Close == pending' = IF pending = None THEN None ELSE [pending EXCEPT !.phase = "closed"]

\* deferReview
Defer ==
    \/ Savable(branch # cand \/ again) /\ Save /\ Idle /\ UNCHANGED backlog
    \/ ~Savable(branch # cand \/ again) /\ Block /\ UNCHANGED <<pending, facts>>

\* pauseReady
Pause == IF cfg.free THEN Defer ELSE Idle /\ UNCHANGED <<pending, facts, backlog>>

\* runSingleOnce after the worker: stop file, ownership and artifacts, then the first save.
Ran ==
    /\ pc = "ran"
    /\ \/ stop /\ Pause /\ UNCHANGED fails
       \/ ~stop /\ Block /\ UNCHANGED <<pending, facts, fails>>           \* ownership-drift
       \/ ~stop /\ ResolveFailure /\ UNCHANGED <<pending, facts>>         \* artifact-missing
       \/ /\ ~stop /\ (cfg.free => Savable(FALSE)) /\ pc' = "gate"
          /\ IF cfg.free THEN Save ELSE UNCHANGED <<pending, facts>>
          /\ UNCHANGED <<cycleVars, bundles, clean, backlog, fails>>
    /\ UNCHANGED <<cfg, gitVars, stop, receipts, approval, modelVars, bounds>>

-----------------------------------------------------------------------------
(* The gates of a candidate (runCandidateGate, KernelVerifier.check).  check is the answer:   *)
(* "pass", "paused", "reject", or the reason it is blocked for: "infra", "review", "release". *)

Gate(from, to) == pc = from /\ pc' = to /\ UNCHANGED <<cfg, main, tree, backlog, stop, pending, receipts,
                                                       approval, fails, work>>

\* The candidate is the branch as it stands; a verify run that is under way belongs to it.
StartGate == /\ Gate("gate", "ci") /\ UNCHANGED <<branch, modelVars, bundles, facts>>
             /\ clean' = {} /\ cand' = branch /\ step' = 0 /\ check' = "none" /\ asked' = 0
             /\ ev' = NoEvidence /\ UNCHANGED again

\* tryRollback: only in a marked worktree, not after a rebase; git may fail.
Rollback == \/ ~again /\ tree = "marked" /\ branch' = At(branch.base)
            \/ UNCHANGED branch
Reject == check' = "reject" /\ Rollback /\ Learn("rejected", branch.work)
Answer(a) == check' = a /\ UNCHANGED <<branch, facts>>

\* The verifier itself throws: no evidence at all.
Throws == /\ \/ Gate("ci", "gated") \/ Gate("judge", "gated")
          /\ Answer("infra") /\ UNCHANGED <<modelVars, bundles, clean, cand, again, step, ev, asked>>

\* runVerify: no command, or one that is rejected before any step runs.
NoVerify ==
    /\ cfg.cmd # "ok"
    /\ \/ /\ cfg.cmd = "bad" \/ VerifyRequired
          /\ Gate("ci", "record") /\ Answer("infra")
          /\ ev' = [ev EXCEPT !.ci = IF cfg.cmd = "bad" THEN "blocked" ELSE "skip"]
       \/ /\ cfg.cmd = "none" /\ ~VerifyRequired
          /\ Gate("ci", "judge") /\ ev' = [ev EXCEPT !.ci = "skip"] /\ UNCHANGED <<check, branch, facts>>
    /\ UNCHANGED <<modelVars, bundles, clean, cand, again, step, asked>>

\* One step of the verify command: it exits 0, it exits otherwise, or it could not be run or
\* did not end in the time that is left.  The steps after a failure are not run.
StepFails == /\ Gate("ci", "record") /\ ev' = [ev EXCEPT !.ci = "fail"] /\ Reject
             /\ UNCHANGED <<modelVars, bundles, clean, cand, again, step, asked>>
StepBlocked == /\ Gate("ci", "record") /\ ev' = [ev EXCEPT !.ci = "blocked"] /\ Answer("infra")
               /\ UNCHANGED <<modelVars, bundles, clean, cand, again, step, asked>>
StepExits0 == /\ clean' = clean \cup {step + 1} /\ step' = step + 1
              /\ IF step + 1 < Steps
                   THEN Gate("ci", "ci") /\ UNCHANGED <<ev, facts>>
                   ELSE /\ Gate("ci", "judge") /\ ev' = [ev EXCEPT !.ci = "pass"]
                        /\ IF clean' = 1 .. Steps THEN Learn("verified", branch) ELSE UNCHANGED facts
              /\ UNCHANGED <<branch, modelVars, bundles, cand, again, check, asked>>
\* The same step in a plan that goes on to the last step whatever the others returned.
StepGoesOn == /\ step + 1 < Steps /\ step' = step + 1 /\ Gate("ci", "ci")
              /\ UNCHANGED <<branch, modelVars, bundles, history, cand, again, ev, check, asked>>
VerifyStepGoesOn == cfg.cmd = "ok" /\ (StepExits0 \/ StepFails \/ StepBlocked \/ StepGoesOn)
VerifyStep == cfg.cmd = "ok" /\ (StepExits0 \/ StepFails \/ StepBlocked)

\* After CI: the stop file, a candidate whose diff git could not produce, the judge (judgeCommit).
Judge ==
    /\ \/ stop /\ Gate("judge", "record") /\ Answer("paused") /\ UNCHANGED ev
       \/ /\ ~stop /\ ReviewRequired /\ Gate("judge", "record") /\ Answer("review")
          /\ ev' = [ev EXCEPT !.reviewer = "blocked"]
       \/ /\ ~stop /\ ~ReviewRequired /\ Gate("judge", "record") /\ Answer("pass")
          /\ ev' = [ev EXCEPT !.reviewer = "not-applicable"]
       \/ ~stop /\ Gate("judge", "record") /\ Reject /\ UNCHANGED ev   \* MISMATCH
       \/ ~stop /\ cfg.free /\ Gate("judge", "record") /\ Answer("review") /\ UNCHANGED ev
       \/ ~stop /\ Gate("judge", "review") /\ UNCHANGED <<check, branch, facts, ev>>
    /\ UNCHANGED <<modelVars, bundles, clean, cand, again, step, asked>>

\* Before the reviewer: independence of a free reviewer, a reviewer where one is required.
Review(result) == pc' = "record" /\ ev' = [ev EXCEPT !.reviewer = result]
NoReview ==
    /\ \/ stop /\ Gate("review", "record") /\ Answer("paused") /\ UNCHANGED ev
       \/ ~stop /\ cfg.free /\ cfg.reviewer /\ cfg.kin /\ Gate("review", "record") /\ Answer("review") /\ UNCHANGED ev
       \/ ~stop /\ ~cfg.reviewer /\ ReviewRequired /\ Gate("review", "record") /\ Answer("review") /\ Review("blocked")
       \/ ~stop /\ ~cfg.reviewer /\ ~ReviewRequired /\ Gate("review", "record") /\ Answer("pass") /\ Review("not-applicable")
    /\ asked = 0 /\ UNCHANGED <<modelVars, bundles, clean, cand, again, step, asked>>

\* The answer of the review gate (parseReviewVerdict: the first line, or nothing counts).
Verdict ==
    \/ check' = "pass" /\ Review("pass") /\ Learn("reviewed", cand) /\ UNCHANGED branch
    \/ Reject /\ Review("fail")
Skipped == IF ReviewRequired THEN Answer("review") /\ Review("blocked")
                             ELSE Answer("pass") /\ Review("skip")

\* reviewDiff outside the free-only tier: a verdict, or nothing that counts.
AskReviewer ==
    /\ ~stop /\ cfg.reviewer /\ ~cfg.free /\ Gate("review", "record")
    /\ Verdict \/ Skipped
    /\ UNCHANGED <<modelVars, bundles, clean, cand, again, step, asked>>

\* callFreeModel: the reviewers in their order; only an outage of one lets the next be asked,
\* and a verdict, garbled or not, never does (checkCooldown, waitForProvider, quarantineFreeModel).
Asking == IF asked = 0 THEN 1 ELSE asked
AskFree ==
    LET m == Asking
        Next1 == IF m < Len(Reviewers)
                   THEN Gate("review", "review") /\ asked' = m + 1 /\ UNCHANGED <<check, branch, facts, ev>>
                   ELSE Gate("review", "record") /\ Skipped /\ UNCHANGED asked
        Ends(A) == Gate("review", "record") /\ A /\ UNCHANGED asked
        Outage == events < MaxEvents /\ events' = events + 1
    IN /\ cfg.free /\ cfg.reviewer /\ ~cfg.kin /\ (asked = 0 => ~stop)
       /\ \/ m \in quarantined /\ Ends(Skipped) /\ UNCHANGED <<modelVars, events>>
          \/ m \notin quarantined /\ quota[m] = "busy" /\ Next1 /\ UNCHANGED <<modelVars, events>>
          \/ m \notin quarantined /\ quota[m] = "refused" /\ Ends(Skipped) /\ UNCHANGED <<modelVars, events>>
          \/ /\ m \notin quarantined /\ quota[m] = "ok"
             /\ \/ Ends(Verdict) /\ UNCHANGED <<modelVars, events>>
                \/ Ends(Skipped) /\ UNCHANGED <<modelVars, events>>       \* a garbled verdict, a price
                \/ Outage /\ quota' = [quota EXCEPT ![m] = "busy"] /\ Next1 /\ UNCHANGED quarantined
                \/ Outage /\ quota' = [quota EXCEPT ![m] = "refused"] /\ Ends(Skipped) /\ UNCHANGED quarantined
                \/ Outage /\ quarantined' = quarantined \cup {m} /\ Ends(Skipped) /\ UNCHANGED quota
       /\ UNCHANGED <<bundles, clean, cand, again, step>>

-----------------------------------------------------------------------------
(* The evidence (evidence-chain.ts) and what the cycle makes of the answer. *)

Release == IF ~cfg.release THEN "not-applicable" ELSE IF approval = cand THEN "pass" ELSE "blocked"
Bundle == [head |-> cand, ci |-> ev.ci, reviewer |-> ev.reviewer,
           ready |-> {ev.ci, ev.reviewer, Release} \cap {"fail", "blocked", "not-run"} = {}]

\* EvidenceStore.record: a bundle of the same execution and commit is replaced; a write may fail.
Record ==
    /\ Gate("record", "gated")
    /\ \/ /\ bundles' = {b \in bundles : b.head # cand} \cup {Bundle}
          /\ check' = IF check = "pass" /\ Release = "blocked" THEN "release" ELSE check
          /\ IF Release = "pass" THEN Learn("approved", cand) ELSE UNCHANGED facts
       \/ check' = "infra" /\ UNCHANGED <<bundles, facts>>
    /\ UNCHANGED <<branch, modelVars, clean, cand, again, step, ev, asked>>

\* Giving a candidate up whenever it did not pass.
GivesUpUnlessPassed(answer) == cfg.free /\ answer # "pass"
\* A candidate is given up only when a gate rejected it, not when a gate could not answer.
GivesUp(answer) == cfg.free /\ answer = "reject"

Gated ==
    /\ pc = "gated"
    /\ \/ /\ check = "pass" /\ (again \/ ~stop) /\ pc' = "merge"
          /\ UNCHANGED <<cycleVars, bundles, clean, backlog, fails, pending, facts>>
       \/ /\ (check = "paused") \/ (check = "pass" /\ stop /\ ~again)
          /\ Pause /\ UNCHANGED fails
       \/ check = "review" /\ cfg.free /\ Defer /\ UNCHANGED fails
       \/ /\ check = "reject" /\ ~again /\ ResolveFailure /\ UNCHANGED facts
          /\ IF GivesUp(check) THEN Close ELSE UNCHANGED pending
       \/ /\ \/ check \in {"infra", "release"}
             \/ check = "review" /\ ~cfg.free
             \/ check = "reject" /\ again
          /\ Block /\ UNCHANGED <<fails, facts>>
          /\ IF ~again /\ GivesUp(check) THEN Close ELSE UNCHANGED pending
    /\ UNCHANGED <<cfg, gitVars, stop, receipts, approval, modelVars, bounds>>

-----------------------------------------------------------------------------
(* The merge turn (mergeAfterRebaseVerify, mergeBack). *)

Landed(c) == c \in ToSet(main)

\* mergeFn: the stop file, a main that was switched, reset or is dirty, the fast-forward, and
\* once a rebase with the gates anew.  A commit main already holds merges as it is.
Merge ==
    /\ pc = "merge"
    /\ \/ stop /\ ~again /\ Pause /\ UNCHANGED gitVars
       \/ (again \/ ~stop) /\ Block /\ UNCHANGED <<gitVars, pending, facts>>
       \/ /\ again \/ ~stop
          /\ IF Landed(branch)
               THEN UNCHANGED <<main, branch>> /\ pc' = "receipt" /\ UNCHANGED again
               ELSE \/ /\ branch.base = Len(main) /\ main' = Append(main, branch)
                       /\ pc' = "receipt" /\ UNCHANGED <<branch, again>>
                    \/ /\ branch.base # Len(main) /\ ~again
                       /\ branch' = [branch EXCEPT !.base = Len(main)] /\ again' = TRUE
                       /\ pc' = "gate" /\ UNCHANGED main
          /\ UNCHANGED <<cand, step, ev, check, asked, tree, bundles, clean, backlog, pending, facts>>
    /\ UNCHANGED <<cfg, stop, receipts, approval, modelVars, fails, bounds>>

\* recordMerge: the head of main must be the commit of a ready bundle of this execution.
Receipt ==
    /\ pc = "receipt"
    /\ \/ \E b \in bundles :
            /\ b.ready /\ b.head = Last(main)
            /\ receipts' = receipts \cup {b} /\ pc' = "report"
            /\ UNCHANGED <<cycleVars, bundles, clean, backlog>>
       \/ Block /\ UNCHANGED receipts     \* none, or the write fails
    /\ UNCHANGED <<cfg, gitVars, stop, pending, approval, modelVars, fails, facts, bounds>>

\* store.report: when it fails the stop file keeps the open row from being picked.
Report ==
    /\ pc = "report"
    /\ \/ backlog' = "done" /\ pc' = "close" /\ UNCHANGED <<stop, cycleVars, bundles, clean>>
       \/ stop' = TRUE /\ Idle /\ backlog' \in {"open", "blocked"}
    /\ UNCHANGED <<cfg, gitVars, pending, receipts, approval, modelVars, fails, facts, bounds>>

\* closePendingReview, then cleanupWorktree: marker, directory and branch go one after the
\* other, a worktree that is not marked or not clean stays.
Finish ==
    /\ pc = "close" /\ Close /\ Idle
    /\ \/ UNCHANGED <<branch, tree>>
       \/ /\ tree = "marked"
          /\ \/ tree' = "bare" /\ UNCHANGED branch
             \/ tree' = "none" /\ branch' \in {None, branch}
    /\ UNCHANGED <<cfg, main, backlog, stop, receipts, approval, modelVars, fails, facts, bounds>>

\* reapWorktrees, at the head of a round: a worktree goes whose branch is in main, which is
\* clean and old; the branch stays.
ReapWorktree ==
    /\ pc = "idle" /\ tree # "none" /\ tree' = "none"
    /\ branch # None /\ (branch.work = 0 \/ Landed(branch))
    /\ UNCHANGED <<cfg, main, branch, backlog, stop, fileVars, modelVars, pc, cycleVars, fails, history, bounds>>

Cycle == \/ Resume \/ Prepare \/ Worker \/ Ran
         \/ AskFree
         \/ /\ StartGate \/ Throws \/ NoVerify \/ VerifyStep \/ Judge \/ NoReview \/ AskReviewer \/ Record
            /\ UNCHANGED events
         \/ Gated \/ Merge \/ Receipt \/ Report \/ Finish
         \/ ReapWorktree

-----------------------------------------------------------------------------
(* What else happens. *)

Crash ==
    /\ pc # "idle" /\ events < MaxEvents /\ events' = events + 1 /\ Idle
    /\ UNCHANGED <<cfg, gitVars, backlog, stop, pending, receipts, approval, modelVars, fails, facts, work>>

\* A reviewer may be asked again.
Answers ==
    /\ \E m \in DOMAIN quota : quota[m] # "ok" /\ quota' = [quota EXCEPT ![m] = "ok"]
    /\ UNCHANGED <<cfg, gitVars, backlog, stop, fileVars, quarantined, pc, cycleVars, fails, history, bounds>>

Others(A) == /\ A /\ UNCHANGED <<cfg, tree, receipts, bundles, modelVars, pc, cycleVars, fails, facts, work>>
\* Somebody commits to main, or by hand to the branch.
Foreign == Others(/\ Len(main) < MaxMain /\ main' = Append(main, At(Len(main)))
                  /\ UNCHANGED <<branch, backlog, stop, pending, approval, clean, events>>)
Order(A) == Others(events < MaxEvents /\ events' = events + 1 /\ A /\ UNCHANGED main)
ByHand == Order(/\ branch # None /\ branch.work > 0 /\ ~branch.hand /\ ~Landed(branch)
                /\ branch' = [branch EXCEPT !.hand = TRUE] /\ clean' = {}
                /\ UNCHANGED <<backlog, stop, pending, approval>>)
\* The operator.
Stop == Order(~stop /\ stop' = TRUE /\ UNCHANGED <<branch, backlog, pending, approval, clean>>)
Approve == Order(/\ cfg.release /\ branch # None /\ approval # branch /\ approval' = branch
                 /\ UNCHANGED <<branch, backlog, stop, pending, clean>>)
Reopen == Order(backlog = "blocked" /\ backlog' = "open" /\ UNCHANGED <<branch, stop, pending, approval, clean>>)
Reconfigure == Order(/\ pc = "idle" /\ Waiting /\ pending.same /\ pending' = [pending EXCEPT !.same = FALSE]
                     /\ UNCHANGED <<branch, backlog, stop, approval, clean>>)
Restart == Others(stop /\ stop' = FALSE /\ UNCHANGED <<main, branch, backlog, pending, approval, clean, events>>)

Next == Cycle \/ Crash \/ Answers \/ Foreign \/ ByHand \/ Stop \/ Approve \/ Reopen \/ Reconfigure \/ Restart

Spec == Init /\ [][Next]_vars

-----------------------------------------------------------------------------
(* A commit with a merge receipt is in main, every step of the verify command exited 0 on     *)
(* exactly that commit, a reviewer that did not write it passed exactly that commit, and its  *)
(* release was approved, as far as the configuration asks for it; and a done row has such a   *)
(* receipt (evidence-chain.ts:51, scheduler.ts:463).                                          *)
Proven(c) ==
    /\ Landed(c)
    /\ VerifyRequired \/ cfg.cmd # "none" => Known("verified", c)
    /\ ReviewRequired => Known("reviewed", c) /\ ~(cfg.free /\ cfg.kin)
    /\ cfg.release => Known("approved", c)
DoneIsProven == /\ \A r \in receipts : Proven(r.head)
                /\ backlog = "done" => receipts # {}

\* In the free-only tier a candidate that was saved is not replaced by another worker's before
\* a gate rejected it, however often the daemon is stopped, dies or finds no reviewer
\* (scheduler.ts:166-177, pending-review.ts:46).
SavedIsJudged ==
    [][pc # "worker" /\ pc' = "worker" =>
         \A f \in facts : f[1] = "saved" => Known("rejected", f[2])]_vars
=============================================================================
