---------------------------- MODULE GithubIssue ----------------------------
(***************************************************************************)
(* One GitHub issue from intake to its pull request (github/runner.ts,     *)
(* job.ts, followup.ts, operations.ts, reconcile.ts, reapproval.ts).       *)
(* Runner ticks and operator commands exclude one another by runner.lock,  *)
(* so one program counter serves them all; the issue, the pull request and *)
(* the stop file belong to others and change between any two reads.        *)
(*                                                                         *)
(* Each step reads GitHub once and goes on to the next read.  What is      *)
(* saved is `st'; `mem' is the copy a run works on, lost with the process. *)
(* Waiting times are left out: a tick is taken when the issue is due.      *)
(***************************************************************************)
EXTENDS Naturals, FiniteSets

CONSTANTS
    None,
    Publish, AltRetry,      \* BOOLEAN: cfg.publish with cfg.followup, alternativeRetry
    MaxRuns, MaxControl, MaxReads,  \* cfg.maxRuns, MAX_CONTROL_RUNS, remote checks of a candidate
    MaxChanges, MaxOps, MaxFaults   \* bounds: changes by others, operator commands, faults

\* What the runner keeps of an issue, and what GitHub shows of a pull request.
States ==
    [status : {"queued", "running", "ready", "blocked", "cancelled", "published"}, fp : Nat,
     version : Nat, runs : Nat, prior : Nat, control : Nat, alt : BOOLEAN, commit : Nat,
     base : Nat, reads : Nat, round : Nat, key : Nat, pr : BOOLEAN]
Pulls == [head : Nat, state : {"open", "merged", "closed"}]

ASSUME GithubIssueAssumption ==
    /\ None \notin States \cup Pulls
    /\ {Publish, AltRetry} \subseteq BOOLEAN
    /\ {MaxRuns, MaxControl, MaxReads} \subseteq Nat \ {0}
    /\ {MaxChanges, MaxOps, MaxFaults} \subseteq Nat

VARIABLES
    issue,    \* its text, and whether it is open, labelled and by an allowed author
    pr,       \* None, or the pull request of this issue's branch: head and state
    linked,   \* whether somebody else's pull request closes the issue
    feedback, \* how often reviewers asked for changes
    stop,     \* the stop file
    st, mem,  \* the issue's state on disk and in memory
    pc, pending, ck,   \* where the process is; its alternative retry and checkpoint
    ws,       \* the checkout: its head, the backlog, a candidate awaiting review, exits seen
    verified, \* commits with CI, reviewer and merge evidence, each for one task
    orphan,   \* a worker outlives the runner that started it
    starts, changes, ops, faults

remote == <<issue, pr, linked, feedback, stop>>
run == <<mem, pc, pending, ck>>
local == <<ws, verified, orphan, starts>>
counts == <<changes, ops, faults>>
vars == <<remote, st, run, local, counts>>

Foreign == 99     \* somebody else's commit on the branch
NewWs(head) == [made |-> FALSE, head |-> head, backlog |-> "none", review |-> FALSE, exits |-> 0]
Fresh(fp) ==
    [status |-> "queued", fp |-> fp, version |-> 1, runs |-> 0, prior |-> 0, control |-> 0, alt |-> FALSE,
     commit |-> 0, base |-> 0, reads |-> 0, round |-> 0, key |-> 0, pr |-> FALSE]

Init ==
    /\ issue = [fp |-> 1, ok |-> TRUE] /\ pr = None /\ linked = FALSE /\ feedback = 0
    /\ stop = FALSE /\ st = None /\ mem = None
    /\ pc = "idle" /\ pending = FALSE /\ ck = 0
    /\ ws = NewWs(0) /\ verified = {} /\ orphan = FALSE /\ starts = 0
    /\ changes = 0 /\ ops = 0 /\ faults = 0

-----------------------------------------------------------------------------
(* Helpers. *)

CurrentIssue(s) == issue.ok /\ issue.fp = s.fp
Linked == linked \/ pr # None
Task(s) == <<s.version, s.round>>
AltPending(s) == s.alt /\ s.runs = MaxRuns /\ AltRetry
Spent(s) == s.runs >= MaxRuns /\ ~AltPending(s)
HeadMatches(s) == ws.head = s.commit /\ s.commit # s.base
AssertPublishable(s) == ws.head = s.commit /\ s.commit # s.base /\ <<s.commit, Task(s)>> \in verified

At(p) == pc = p /\ UNCHANGED counts
Go(p) == pc' = p
Stay == UNCHANGED <<mem, pending, ck>>
\* saveState, and the run is over.
Save(s) ==
    /\ st' = s /\ mem' = None /\ pc' = "idle" /\ pending' = FALSE /\ ck' = 0
Leave == Save(st)

\* The catch clause: a candidate whose remote check failed for the moment is checked
\* again later, a bounded number of times; anything else blocks the issue.
Catch(transient) ==
    IF transient /\ ck > 0 /\ mem.commit # 0
    THEN \E longWait \in BOOLEAN :
           Save([mem EXCEPT !.reads = ck + 1,
                            !.status = IF ck >= MaxReads \/ longWait THEN "blocked" ELSE "queued"])
    ELSE Save([mem EXCEPT !.reads = IF ck > 0 THEN ck ELSE @, !.status = "blocked"])

-----------------------------------------------------------------------------
(* A tick of the runner. *)

\* syncIssues: an issue nobody knows yet.
Intake ==
    /\ At("idle") /\ ~stop /\ st = None /\ issue.ok
    /\ Save(Fresh(issue.fp)) /\ UNCHANGED <<remote, local>>

\* observePr: feedback on the published head is to be answered by a revision.
Observe ==
    /\ At("idle") /\ ~stop /\ st # None /\ st.status = "published"
    /\ CurrentIssue(st) /\ pr.head = st.commit
    /\ pr.state = "open" /\ Publish /\ feedback > st.key /\ st.runs < MaxRuns
    /\ mem' = st /\ Go("follow") /\ UNCHANGED <<remote, st, pending, ck, local>>
Follow ==
    /\ At("follow")
    /\ IF ~stop /\ CurrentIssue(mem) /\ AssertPublishable(mem)
       THEN /\ Save([mem EXCEPT !.round = @ + 1, !.base = mem.commit, !.commit = 0,
                                !.status = "queued", !.key = feedback])
            /\ ws' = NewWs(mem.commit)
       ELSE Leave /\ UNCHANGED ws
    /\ UNCHANGED <<remote, verified, orphan, starts>>

\* A run that was interrupted is not repeated.
Stale ==
    /\ At("idle") /\ ~stop /\ st # None /\ st.status = "running"
    /\ Save([st EXCEPT !.status = "blocked"]) /\ UNCHANGED <<remote, local>>

\* The issue is picked; a candidate that is ready goes back to being checked.
Pick ==
    LET s == IF st.status = "ready" THEN [st EXCEPT !.status = "queued", !.reads = 1] ELSE st IN
    /\ At("idle") /\ ~stop /\ st # None
    /\ st.status = "queued" \/ (st.status = "ready" /\ Publish)
    /\ st' = s /\ mem' = s /\ ck' = s.reads /\ Go("gate")
    /\ UNCHANGED <<remote, pending, local>>

Cancel == Save([mem EXCEPT !.status = "cancelled"])

Gate ==
    /\ At("gate")
    /\ \/ ck > MaxReads /\ Catch(FALSE)
       \/ ck <= MaxReads /\ ~CurrentIssue(mem) /\ Cancel
       \/ ck <= MaxReads /\ CurrentIssue(mem) /\ stop /\ Leave
       \/ /\ ck <= MaxReads /\ CurrentIssue(mem) /\ ~stop
          /\ IF ck > 0
             THEN /\ mem' = [mem EXCEPT !.reads = 0, !.status = "ready"]
                  /\ Go("decide") /\ UNCHANGED <<st, pending, ck>>
             ELSE Go("look") /\ Stay /\ UNCHANGED st
    /\ UNCHANGED <<remote, local>>

\* Work exists already, or the pull request is not what the revision was asked of.
Look ==
    /\ At("look")
    /\ \/ mem.round = 0 /\ Linked /\ Save([mem EXCEPT !.status = "blocked"])
       \/ /\ mem.round > 0 /\ (pr = None \/ pr.state # "open" \/ pr.head # mem.base)
          /\ Catch(FALSE)
       \/ /\ IF mem.round = 0 THEN ~Linked
             ELSE pr # None /\ pr.state = "open" /\ pr.head = mem.base
          /\ Go("charge") /\ Stay /\ UNCHANGED st
    /\ UNCHANGED <<remote, local>>

\* The attempt is charged and saved before anything runs.
Charge ==
    LET review == ws.review /\ ws.backlog = "open" IN
    /\ At("charge")
    /\ \/ ~CurrentIssue(mem) /\ Cancel
       \/ CurrentIssue(mem) /\ stop /\ Leave
       \/ /\ CurrentIssue(mem) /\ ~stop
          /\ mem.control >= MaxControl \/ (Spent(mem) /\ ~review)
          /\ Save([mem EXCEPT !.status = "blocked"])
       \/ /\ CurrentIssue(mem) /\ ~stop /\ mem.control < MaxControl /\ (Spent(mem) => review)
          /\ LET s == [mem EXCEPT !.status = "running", !.runs = @ + 1, !.alt = FALSE] IN
             st' = s /\ mem' = s
          /\ pending' = mem.alt /\ Go("prepare") /\ UNCHANGED ck
    /\ UNCHANGED <<remote, local>>

-----------------------------------------------------------------------------
(* executeIssue: what the one bounded scheduler cycle does, and its result. *)

\* A result that says no worker was started gives the attempt back; unless it is final,
\* it counts as a controller wait.
NotStarted(kind) == kind \in {"wait", "reviewWait", "refused", "rejected"}
Never(kind) == FALSE
Waited(kind) == kind \in {"wait", "reviewWait", "rejected"}

Recorded(kind) ==
    LET runs == mem.runs - (IF NotStarted(kind) THEN 1 ELSE 0)
        alt == IF NotStarted(kind) THEN pending ELSE kind = "failed" /\ AltRetry /\ runs = MaxRuns
        control == IF Waited(kind) THEN mem.control + 1
                   ELSE IF NotStarted(kind) THEN mem.control ELSE 0
        blocked == \/ kind \in {"refused", "failedBlocked"} \/ control >= MaxControl
                   \/ runs >= MaxRuns /\ ~alt /\ kind \notin {"review", "reviewWait"} IN
    [mem EXCEPT !.runs = runs, !.alt = alt, !.control = control,
                !.status = IF blocked THEN "blocked" ELSE "queued"]

\* The result is saved before the issue is looked at again.
Returns(kind) ==
    LET s == Recorded(kind) IN
    st' = s /\ mem' = s /\ pending' = FALSE /\ Go("recheck") /\ UNCHANGED ck

Prepare ==
    /\ At("prepare")
    /\ \/ /\ ws.backlog = "done" /\ Catch(FALSE) /\ UNCHANGED ws
       \/ ws.backlog = "blocked" /\ UNCHANGED ws /\ Returns("refused")
       \/ /\ ws.backlog \in {"none", "open"}
          /\ ws' = [ws EXCEPT !.made = TRUE, !.backlog = "open"]
          /\ \/ Returns("wait") \/ Returns("refused") \/ (Go("ready") /\ Stay /\ UNCHANGED st)
    /\ UNCHANGED <<remote, verified, orphan, starts>>

StartWorker ==
    /\ At("ready") /\ ~ws.review
    /\ starts' = starts + 1 /\ Go("working") /\ Stay
    /\ UNCHANGED <<remote, st, ws, verified, orphan>>

WorkerEnds ==
    /\ At("working")
    /\ \/ ws' = [ws EXCEPT !.exits = @ + 1] /\ Returns("failed")
       \/ ws' = [ws EXCEPT !.exits = @ + 1, !.backlog = "blocked"] /\ Returns("failedBlocked")
       \/ ws' = [ws EXCEPT !.exits = @ + 1, !.review = TRUE] /\ Returns("review")
       \/ ws' = [ws EXCEPT !.exits = @ + 1, !.head = starts] /\ Go("landed") /\ Stay /\ UNCHANGED st
    /\ UNCHANGED <<remote, verified, orphan, starts>>
\* Nobody can tell whether it has ended: recovery is required.
WorkerLost ==
    /\ At("working") /\ orphan' = TRUE /\ Save([mem EXCEPT !.status = "blocked"])
    /\ UNCHANGED <<remote, ws, verified, starts>>

\* The review of an earlier candidate is taken up again, without a worker.
ResumeReview ==
    /\ At("ready") /\ ws.review
    /\ \/ UNCHANGED ws /\ Returns("reviewWait")
       \/ ws' = [ws EXCEPT !.review = FALSE] /\ Returns("rejected")
       \/ ws' = [ws EXCEPT !.head = starts] /\ Go("landed") /\ Stay /\ UNCHANGED st
    /\ UNCHANGED <<remote, verified, orphan, starts>>

Evidence ==
    /\ At("landed") /\ verified' = verified \cup {<<ws.head, Task(mem)>>}
    /\ Go("reported") /\ Stay /\ UNCHANGED <<remote, st, ws, orphan, starts>>

\* Done: the candidate is on disk as one to be checked before any read that could fail.
Done ==
    LET s == [mem EXCEPT !.commit = ws.head, !.control = 0, !.reads = 1, !.status = "queued",
                         !.runs = @ - (IF ws.review THEN 1 ELSE 0),
                         !.alt = ws.review /\ pending] IN
    /\ At("reported") /\ ws' = [ws EXCEPT !.backlog = "done", !.review = FALSE]
    /\ st' = s /\ mem' = s /\ ck' = 1 /\ pending' = FALSE /\ Go("recheck")
    /\ UNCHANGED <<remote, verified, orphan, starts>>

Recheck ==
    /\ At("recheck")
    /\ IF stop \/ ~CurrentIssue(mem) THEN Cancel
       ELSE IF ck > 0
       THEN /\ mem' = [mem EXCEPT !.reads = 0, !.status = "ready"]
            /\ Go("decide") /\ UNCHANGED <<st, pending, ck>>
       ELSE Leave
    /\ UNCHANGED <<remote, local>>

-----------------------------------------------------------------------------
(* publishIssue. *)

Decide ==
    /\ At("decide")
    /\ IF ~Publish \/ stop THEN Save(mem) ELSE Go("publish") /\ Stay /\ UNCHANGED st
    /\ UNCHANGED <<remote, local>>

Published == Save([mem EXCEPT !.status = "published", !.pr = TRUE])

\* Still approved, and everything about this very commit in order.
Publishable ==
    /\ At("publish")
    /\ IF CurrentIssue(mem) /\ AssertPublishable(mem)
       THEN Go("find") /\ Stay /\ UNCHANGED st ELSE Catch(FALSE)
    /\ UNCHANGED <<remote, local>>

Find ==
    /\ At("find")
    /\ \/ /\ pr # None /\ mem.round > 0 /\ pr.state = "open" /\ pr.head = mem.base
          /\ Go("update") /\ Stay /\ UNCHANGED st
       \/ /\ pr # None /\ ~(mem.round > 0 /\ pr.state = "open" /\ pr.head = mem.base)
          /\ IF pr.head = mem.commit THEN Published ELSE Catch(FALSE)
       \/ pr = None /\ linked /\ Catch(FALSE)
       \/ pr = None /\ ~linked /\ Go("push") /\ Stay /\ UNCHANGED st
    /\ UNCHANGED <<remote, local>>

\* The revision goes onto the reviewed head; the server takes a fast-forward only.
Update ==
    /\ At("update")
    /\ IF stop \/ ~CurrentIssue(mem) THEN Save(mem) /\ UNCHANGED pr
       ELSE IF pr.head # mem.base \/ pr.state # "open" THEN Catch(FALSE) /\ UNCHANGED pr
       ELSE pr' = [pr EXCEPT !.head = mem.commit] /\ Go("updated") /\ Stay /\ UNCHANGED st
    /\ UNCHANGED <<issue, linked, feedback, stop, local>>
Updated ==
    /\ At("updated")
    /\ IF pr.head = mem.commit /\ pr.state = "open" THEN Published ELSE Catch(FALSE)
    /\ UNCHANGED <<remote, local>>

\* The branch is pushed, everything is looked at again, and the pull request is opened.
Push ==
    /\ At("push")
    /\ IF ~CurrentIssue(mem) THEN Catch(FALSE)
       ELSE IF stop THEN Save(mem) ELSE Go("check") /\ Stay /\ UNCHANGED st
    /\ UNCHANGED <<remote, local>>
Check ==
    /\ At("check")
    /\ IF stop THEN Save(mem)
       ELSE IF linked \/ ~CurrentIssue(mem) THEN Catch(FALSE)
       ELSE Go("create") /\ Stay /\ UNCHANGED st
    /\ UNCHANGED <<remote, local>>
Create ==
    /\ At("create")
    /\ IF stop THEN Save(mem) /\ UNCHANGED pr
       ELSE /\ pr' = [head |-> mem.commit, state |-> "open"]
            /\ Go("created") /\ Stay /\ UNCHANGED st
    /\ UNCHANGED <<issue, linked, feedback, stop, local>>
Created == At("created") /\ Published /\ UNCHANGED <<remote, local>>

Reading == {"gate", "look", "charge", "recheck", "publish", "find", "update", "updated", "push", "check"}

\* A read of GitHub fails for the moment.
ReadFails ==
    /\ pc \in Reading /\ faults < MaxFaults /\ faults' = faults + 1
    /\ Catch(TRUE) /\ UNCHANGED <<remote, local, changes, ops>>

\* The process dies, and the worker it started may live on.
Crash ==
    /\ pc # "idle" /\ faults < MaxFaults /\ faults' = faults + 1
    /\ orphan' \in (IF pc = "working" THEN BOOLEAN ELSE {orphan})
    /\ Leave /\ UNCHANGED <<remote, ws, verified, starts, changes, ops>>

-----------------------------------------------------------------------------
(* Operator commands; the stop file may be lifted by the recovery itself. *)

Command == pc = "idle" /\ st # None /\ ops < MaxOps /\ ops' = ops + 1 /\ UNCHANGED <<changes, faults>>

\* recoverIssue: what is on disk decides whether the candidate is ready after all or the
\* attempt may be repeated; the backend of an earlier attempt must have stopped.
Recoverable ==
    /\ st.status \in {"blocked", "running", "queued", "ready"}
    /\ CurrentIssue(st) /\ ~orphan
    /\ IF pr # None /\ pr.state = "open" /\ pr.head = st.commit THEN TRUE
       ELSE IF st.round > 0 THEN pr # None /\ pr.state = "open" /\ pr.head = st.base
       ELSE ~Linked
RequeueAll ==
    /\ Command /\ Recoverable /\ mem' = [st EXCEPT !.status = "queued", !.commit = 0, !.control = 0]
    /\ Go("recover") /\ UNCHANGED <<st, pending, ck, remote, local>>
Recover ==
    LET Plan(s) == mem' = s /\ Go("recover") /\ UNCHANGED <<st, pending, ck>>
        seen == [st EXCEPT !.pr = @ \/ pr # None] IN
    /\ Command /\ Recoverable
    /\ \/ /\ ws.made /\ ws.head # st.base /\ AssertPublishable([st EXCEPT !.commit = ws.head])
          /\ Plan([seen EXCEPT !.commit = ws.head, !.status = "ready", !.reads = 0])
       \/ /\ ws.made => ws.head = st.base /\ st.commit = 0 /\ st.status # "ready"
          /\ ~Spent(st) \/ (ws.review /\ ws.backlog = "open")
          /\ ws.backlog \in {"none", "open"}
          /\ Plan([seen EXCEPT !.status = "queued", !.control = 0])
    /\ UNCHANGED <<remote, local>>
\* After the environment was examined, the issue and the pause are looked at once more.
Recovered ==
    /\ At("recover")
    /\ IF CurrentIssue(mem) THEN stop' = FALSE /\ Save(mem) ELSE Leave /\ UNCHANGED stop
    /\ UNCHANGED <<issue, pr, linked, feedback, local>>

\* reconcileIssue --apply: work that the world has overtaken is retired.
Reconcile ==
    /\ Command /\ st.status \in {"queued", "blocked", "cancelled"}
    /\ (pr # None /\ pr.state = "merged") \/ ~CurrentIssue(st)
    /\ Save([st EXCEPT !.status = "cancelled"]) /\ UNCHANGED <<remote, local>>

\* reapproveIssue: a changed requirement of a cancelled issue is queued as its successor
\* in a workspace of its own, at the expense of the same lifetime of attempts.
Reapprove ==
    /\ Command /\ ~stop /\ st.status = "cancelled" /\ st.round = 0
    /\ issue.ok /\ issue.fp # st.fp /\ st.runs < MaxRuns
    /\ ~Linked /\ ~orphan
    /\ IF ws.made THEN ws.head = (IF st.commit # 0 THEN st.commit ELSE st.base) ELSE st.commit = 0
    /\ ws.exits = st.runs - st.prior
    /\ Save([Fresh(issue.fp) EXCEPT !.version = st.version + 1, !.runs = st.runs, !.prior = st.runs])
    /\ ws' = NewWs(0) /\ UNCHANGED <<remote, verified, orphan, starts>>

-----------------------------------------------------------------------------
(* The others. *)

Change == changes < MaxChanges /\ changes' = changes + 1 /\ UNCHANGED <<st, run, local, ops, faults>>
Edit == Change /\ issue' \in {[issue EXCEPT !.fp = 3 - @], [issue EXCEPT !.ok = ~@]}
            /\ UNCHANGED <<pr, linked, feedback, stop>>
Link == Change /\ ~linked /\ linked' = TRUE /\ UNCHANGED <<issue, pr, feedback, stop>>
Review == Change /\ pr # None /\ pr.state = "open" /\ feedback' = feedback + 1
              /\ UNCHANGED <<issue, pr, linked, stop>>
TouchPr == Change /\ pr # None /\ pr.state = "open"
               /\ pr' \in {[pr EXCEPT !.state = "merged"], [pr EXCEPT !.state = "closed"],
                           [pr EXCEPT !.head = Foreign]}
               /\ UNCHANGED <<issue, linked, feedback, stop>>
Pause == Change /\ stop' = ~stop /\ UNCHANGED <<issue, pr, linked, feedback>>
OrphanEnds == orphan /\ orphan' = FALSE /\ UNCHANGED <<remote, st, run, ws, verified, starts, counts>>

Runs ==
    \/ Follow \/ Gate \/ Look \/ Charge \/ Prepare \/ StartWorker \/ WorkerEnds \/ WorkerLost
    \/ ResumeReview \/ Evidence \/ Done \/ Recheck \/ Decide \/ Publishable \/ Find
    \/ Update \/ Updated \/ Push \/ Check \/ Create \/ Created \/ Recovered
Tick == Intake \/ Observe \/ Stale \/ Pick

Next ==
    \/ Tick \/ Runs \/ ReadFails \/ Crash
    \/ Recover \/ Reconcile \/ Reapprove
    \/ Edit \/ Link \/ Review \/ TouchPr \/ Pause \/ OrphanEnds

Spec == Init /\ [][Next]_vars
\* The host keeps ticking, and a process that lives goes on.
FairSpec == Spec /\ WF_vars(Tick) /\ WF_vars(Runs)

-----------------------------------------------------------------------------
\* GitHub, the rows on disk and in memory, and the checkout keep their types.
RemoteOK ==
    /\ issue \in [fp : {1, 2}, ok : BOOLEAN] /\ pr \in Pulls \cup {None}
    /\ linked \in BOOLEAN /\ feedback \in Nat /\ stop \in BOOLEAN
    /\ changes \in Nat /\ ops \in Nat /\ faults \in Nat
RowsOK ==
    /\ st \in States \cup {None} /\ mem \in States \cup {None}
    /\ pending \in BOOLEAN /\ ck \in Nat
LocalOK ==
    /\ ws \in [made : BOOLEAN, head : Nat, backlog : {"none", "open", "blocked", "done"},
               review : BOOLEAN, exits : Nat]
    /\ verified \subseteq Nat \X (Nat \X Nat)
    /\ orphan \in BOOLEAN /\ starts \in Nat
TypeOK == RemoteOK /\ RowsOK /\ LocalOK

\* No two workers on one checkout: none is started while an earlier one may still run
\* (readExecutions before a recovery or a successor; an interrupted run only blocks).
OneWorker == pc = "working" => ~orphan

\* Every start of a worker is charged to the issue on disk before it happens, whatever
\* is refunded, recovered, revised or reapproved later, and there are never more of them
\* than the lifetime allows (github-attempt-accounting.md).
StartsCharged ==
    /\ st # None => starts <= st.runs
    /\ starts <= MaxRuns + (IF AltRetry THEN 1 ELSE 0)

\* A task that has a verified candidate is not worked on again: not after a crash between
\* merge and state, a failed read, a recovery or a cancelled publication.
NoRework == pc = "working" => ~\E c \in 1 .. MaxRuns + 1 : <<c, Task(mem)>> \in verified

\* A worker starts alone, charged, and on work that is still to be done, whatever crash
\* or recovery came before (runner.ts).
WorkStartsClean == OneWorker /\ NoRework /\ StartsCharged

\* A pull request whose head is ours is one commit with complete evidence for its task.
PrVerified == pr # None /\ pr.head # Foreign => \E v \in verified : v[1] = pr.head

\* An issue comes to rest: published, blocked, cancelled, or paused by somebody.
ComesToRest ==
    <>[](stop \/ st = None \/ st.status \in {"published", "blocked", "cancelled"}
         \/ (~Publish /\ st.status = "ready"))
=============================================================================
