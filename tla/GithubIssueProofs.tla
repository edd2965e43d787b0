-------------------------- MODULE GithubIssueProofs --------------------------
(***************************************************************************)
(* Theorems about GithubIssue, for every limit on attempts, waits and      *)
(* checks, and however often others change the issue, commands are given,  *)
(* reads fail and the process dies; and about GithubOwner, for any number  *)
(* of repositories.                                                        *)
(***************************************************************************)
EXTENDS MCGithub, Sequences, TLAPS

------------------------------------------------------------------------------
(* Rows of the state file, by the fields that say what is worked on. *)

\* The same work: the same task, on the same base.
Same(s, t) ==
    /\ t.version = s.version /\ t.round = s.round /\ t.base = s.base
    /\ t.runs = s.runs

LEMMA SameTask ==
    ASSUME NEW s, NEW t, Same(s, t)
    PROVE  Task(t) = Task(s) /\ t.base = s.base /\ t.runs = s.runs
  BY DEF Same, Task

LEMMA StateFields ==
    ASSUME NEW s \in States
    PROVE  /\ s.status \in {"queued", "running", "ready", "blocked", "cancelled", "published"}
           /\ {s.version, s.runs, s.prior, s.control, s.commit, s.base, s.reads, s.round} \subseteq Nat
           /\ s.alt \in BOOLEAN
           /\ Task(s) \in Nat \X Nat
  BY DEF States, Task

Statuses == {"queued", "running", "ready", "blocked", "cancelled", "published"}

\* Another status, another count of reads, or word of a pull request: the work is the same.
LEMMA StatusOnly ==
    ASSUME NEW s \in States, NEW x \in Statuses, NEW t, t = [s EXCEPT !.status = x]
    PROVE  t \in States /\ Same(s, t) /\ t.status = x /\ t.reads = s.reads /\ t.commit = s.commit
  BY DEF States, Statuses, Same

LEMMA PrToo ==
    ASSUME NEW s \in States, NEW t, t = [s EXCEPT !.status = "published", !.pr = TRUE]
    PROVE  t \in States /\ Same(s, t) /\ t.status = "published"
  BY DEF States, Same

LEMMA FreshState ==
    ASSUME NEW fp \in Nat
    PROVE  /\ Fresh(fp) \in States
           /\ Fresh(fp).status = "queued" /\ Fresh(fp).version = 1 /\ Fresh(fp).round = 0
           /\ Fresh(fp).base = 0 /\ Fresh(fp).runs = 0
  BY DEF Fresh, States

LEMMA Constants ==
    /\ None \notin States /\ None \notin Pulls
    /\ MaxRuns \in Nat /\ MaxRuns > 0 /\ AltRetry \in BOOLEAN
  BY GithubIssueAssumption

------------------------------------------------------------------------------
(***************************************************************************)
(* The inductive invariant.  A task is known once a candidate of it has    *)
(* complete evidence; from then on it may only be checked and published.   *)
(***************************************************************************)

Known(s) == \E v \in verified : v[2] = Task(s)

Begun == {"prepare", "ready", "working", "landed", "reported"}

\* Where the process is on its way to a worker, or has one.
Towards == {"look", "charge", "prepare", "ready", "working", "landed"}

\* Where a candidate has been found in order, and its pull request is not there yet.
Sending == {"find", "update", "push", "check", "create"}

Bound == MaxRuns + (IF AltRetry THEN 1 ELSE 0)

\* The copy a run works on is the row on disk as far as the work goes, and from the
\* charge to the result it is that row; a worker that outlives its runner keeps the
\* issue from being run.
Memory ==
    /\ pc = "idle" <=> mem = None
    /\ st = None => starts = 0 /\ verified = {} /\ mem = None /\ ~orphan /\ ~ws.review
    /\ mem # None => Same(st, mem)
    /\ pc \in Begun => mem = st /\ st.status = "running"
    /\ orphan => pc = "idle" /\ st.status \in {"blocked", "running", "cancelled"}

\* Starts are charged, and between the charge and the start one is still to come.
Charged ==
    /\ st # None => starts <= st.runs
    /\ starts <= Bound
    /\ pc \in {"prepare", "ready"} => starts < st.runs /\ (~ws.review => st.runs <= Bound)
    /\ pc \in {"landed", "reported"} /\ ws.review => starts < st.runs
    /\ pc = "working" => ~ws.review

\* Commits are numbered by the start that made them: a candidate is newer than the base
\* of its task.
Heads ==
    /\ ws.head <= starts
    /\ st # None => st.base <= starts
    /\ ws.review \/ pc = "working" => st.base < starts
    /\ pc \in {"landed", "reported"} => ws.head # st.base
    /\ pc \in Begun \ {"prepare"} => ws.made

\* A row of a known task is queued for a check only.
ToCheck(s) == Known(s) /\ s.status = "queued" => s.reads > 0

\* Nothing later than the row's task is known, a known task keeps its candidate in the
\* checkout, and nobody is on the way to a worker for it.
Work ==
    /\ \A v \in verified : /\ v[2][1] <= st.version
                           /\ v[2][1] = st.version => v[2][2] <= st.round
    /\ pc \in Towards => ~Known(mem)
    /\ st # None => /\ Known(st) => ws.made /\ ws.head # st.base
                    /\ ToCheck(st)
    /\ mem # None => ToCheck(mem)
    /\ pc = "gate" => ck = mem.reads /\ mem.status = "queued"

\* What is being sent has its evidence.
Sent ==
    /\ pc \in Sending => \E v \in verified : v[1] = mem.commit
    /\ pc = "update" => pr # None

IssueInv == Memory /\ Charged /\ Heads /\ Work /\ Sent

IInv == TypeOK /\ IssueInv

------------------------------------------------------------------------------
(* What the actions do, in terms of the rows. *)

LEMMA Copy ==
    ASSUME IInv, pc # "idle"
    PROVE  mem \in States /\ st \in States /\ Same(st, mem) /\ ~orphan /\ mem # None /\ st # None
  BY Constants DEF IInv, TypeOK, RowsOK, IssueInv, Memory, LocalOK

LEMMA KnownSame ==
    ASSUME NEW s, NEW t, Same(s, t)
    PROVE  Known(t) <=> Known(s)
  BY SameTask DEF Known

LEMMA SameTrans ==
    ASSUME NEW s, NEW t, NEW u, Same(s, t), Same(t, u)
    PROVE  Same(s, u) /\ Same(t, s)
  BY DEF Same

\* A run ends with the row s, which is about the same work.
Ends(s) ==
    /\ Save(s) /\ s \in States /\ Same(st, s)
    /\ Known(st) /\ s.status = "queued" => s.reads > 0

LEMMA CatchEnds ==
    ASSUME IInv, pc # "idle", NEW transient \in BOOLEAN, Catch(transient)
    PROVE  \E s : Ends(s) /\ s.status \in {"blocked", "queued"}
  <1>0. mem \in States /\ Same(st, mem) /\ mem.reads \in Nat /\ ck \in Nat
    BY Copy, StateFields DEF IInv, TypeOK, RowsOK
  <1>1. ASSUME NEW n \in Nat, NEW x \in {"blocked", "queued"}, n > 0 \/ x = "blocked", NEW s,
               Save(s), s = [mem EXCEPT !.reads = n, !.status = x]
        PROVE  Ends(s) /\ s.status \in {"blocked", "queued"}
    <2>0. x \in Statuses /\ s = [mem EXCEPT !.reads = n, !.status = x] /\ mem \in States
      BY <1>0, <1>1 DEF Statuses
    <2>1. s \in States /\ Same(mem, s) /\ s.status = x /\ s.reads = n
      BY <2>0 DEF States, Statuses, Same
    <2>2. Same(st, s)
      BY <1>0, <2>1, SameTrans
    <2>3. s.status = "queued" => s.reads > 0
      BY <1>1, <2>1
    <2> QED BY <1>1, <2>1, <2>2, <2>3 DEF Ends
  <1>2. CASE transient /\ ck > 0 /\ mem.commit # 0
    <2>1. PICK longWait \in BOOLEAN :
            Save([mem EXCEPT !.reads = ck + 1,
                             !.status = IF ck >= MaxReads \/ longWait THEN "blocked" ELSE "queued"])
      BY <1>2 DEF Catch
    <2>2. ck + 1 \in Nat /\ ck + 1 > 0
      BY <1>0
    <2>3. CASE ck >= MaxReads \/ longWait
      <3>1. Save([mem EXCEPT !.reads = ck + 1, !.status = "blocked"])
        BY <2>1, <2>3
      <3> QED BY <3>1, <2>2, <1>1
    <2>4. CASE ~(ck >= MaxReads \/ longWait)
      <3>1. Save([mem EXCEPT !.reads = ck + 1, !.status = "queued"])
        BY <2>1, <2>4
      <3> QED BY <3>1, <2>2, <1>1
    <2> QED BY <2>3, <2>4
  <1>3. CASE ~(transient /\ ck > 0 /\ mem.commit # 0)
    <2>1. CASE ck > 0
      <3>1. Save([mem EXCEPT !.reads = ck, !.status = "blocked"])
        BY <1>3, <2>1 DEF Catch
      <3> QED BY <3>1, <1>0, <1>1
    <2>2. CASE ~(ck > 0)
      <3>1. Save([mem EXCEPT !.reads = mem.reads, !.status = "blocked"])
        BY <1>3, <2>2 DEF Catch
      <3> QED BY <3>1, <1>0, <1>1
    <2> QED BY <2>1, <2>2
  <1> QED BY <1>2, <1>3

\* The row in memory may be saved, blocked, cancelled or published, or given up.
LEMMA SaveEnds ==
    ASSUME IInv, pc # "idle",
           NEW x \in {"blocked", "cancelled", "published"},
           \/ Save(mem) \/ Leave \/ Save([mem EXCEPT !.status = x])
           \/ Save([mem EXCEPT !.status = "published", !.pr = TRUE])
    PROVE  \E s : Ends(s)
  <1>0. mem \in States /\ st \in States /\ Same(st, mem) /\ Same(st, st)
    BY Copy DEF Same
  <1>1. ToCheck(mem) /\ ToCheck(st) /\ (Known(mem) <=> Known(st))
    BY <1>0, Copy, KnownSame DEF IInv, IssueInv, Work
  <1>2. CASE Save(mem)
    BY <1>0, <1>1, <1>2 DEF Ends, ToCheck
  <1>3. CASE Leave
    BY <1>0, <1>1, <1>3 DEF Ends, Leave, ToCheck
  <1>4. ASSUME NEW s, Save(s), s = [mem EXCEPT !.status = x]
        PROVE  Ends(s)
    <2>1. s \in States /\ Same(mem, s) /\ s.status = x
      BY <1>0, <1>4, StatusOnly DEF Statuses
    <2> QED BY <1>0, <1>4, <2>1, SameTrans DEF Ends
  <1>5. ASSUME NEW s, Save(s), s = [mem EXCEPT !.status = "published", !.pr = TRUE]
        PROVE  Ends(s)
    <2>1. s \in States /\ Same(mem, s) /\ s.status = "published"
      BY <1>0, <1>5, PrToo
    <2> QED BY <1>0, <1>5, <2>1, SameTrans DEF Ends
  <1> QED BY <1>2, <1>3, <1>4, <1>5

Kept == RowsOK' /\ LocalOK' /\ IssueInv'

\* When a run ends, what is left is in order.
LEMMA EndsKeep ==
    ASSUME IInv, st # None, NEW s, Ends(s), UNCHANGED <<ws, verified, starts>>,
           orphan' \in BOOLEAN, orphan' => s.status \in {"blocked", "running", "cancelled"}
    PROVE  Kept
  <1>1. st' = s /\ mem' = None /\ pc' = "idle" /\ pending' = FALSE /\ ck' = 0
    BY DEF Ends, Save
  <1>2. s \in States /\ s # None /\ Task(s) = Task(st) /\ s.base = st.base /\ s.runs = st.runs
        /\ s.version = st.version /\ s.round = st.round
    BY SameTask, Constants DEF Ends, Same
  <1>3. (Known(st)' <=> Known(st)) /\ (Known(st) /\ s.status = "queued" => s.reads > 0)
    BY <1>1, <1>2 DEF Ends, Known, Task
  <1>4. RowsOK' /\ LocalOK'
    BY <1>1, <1>2 DEF RowsOK, LocalOK, IInv, TypeOK
  <1>5. Memory'
    BY <1>1, <1>2 DEF Memory, Begun
  <1>6. Charged' /\ Heads'
    BY <1>1, <1>2 DEF IInv, IssueInv, Charged, Heads, Begun, Bound
  <1>7. Work'
    BY <1>1, <1>2, <1>3 DEF IInv, IssueInv, Work, Towards, ToCheck
  <1>8. Sent'
    BY <1>1 DEF Sent, Sending
  <1> QED BY <1>4, <1>5, <1>6, <1>7, <1>8 DEF Kept, IssueInv

\* A run that goes on to its next read has done nothing to the rows or the checkout.
LEMMA OnwardKeep ==
    ASSUME IInv, pc # "idle", pc \notin Begun, UNCHANGED <<st, mem, pending, ck, local>>,
           pc' \in {"look", "charge", "publish", "updated", "created"} \cup Sending,
           pc' \in {"look", "charge"} => ~Known(mem),
           pc' \in Sending => \E v \in verified : v[1] = mem.commit,
           pc' = "update" => pr' # None
    PROVE  Kept
  <1>1. RowsOK' /\ LocalOK'
    BY DEF IInv, TypeOK, RowsOK, LocalOK, local
  <1>2. mem # None /\ st # None /\ ~orphan /\ Same(st, mem)
    BY Copy
  <1>3. Memory'
    BY <1>2 DEF Memory, Begun, Sending, local, Same
  <1>4. Charged' /\ Heads'
    BY DEF IInv, IssueInv, Charged, Heads, Begun, Sending, Bound, local
  <1>5. Work'
    BY DEF IInv, IssueInv, Work, Towards, Sending, ToCheck, Known, Task, local
  <1>6. Sent'
    BY DEF Sent, local
  <1> QED BY <1>1, <1>3, <1>4, <1>5, <1>6 DEF Kept, IssueInv

\* What others do leaves the runner alone.
LEMMA OthersKeep ==
    ASSUME IInv, UNCHANGED <<st, run, ws, verified, starts>>, orphan' \in BOOLEAN,
           orphan' => orphan, pr # None => pr' # None
    PROVE  Kept
  <1>1. RowsOK' /\ LocalOK'
    BY DEF IInv, TypeOK, RowsOK, LocalOK, run
  <1>2. Memory'
    BY DEF IInv, IssueInv, Memory, Begun, Same, run
  <1>3. Charged' /\ Heads'
    BY DEF IInv, IssueInv, Charged, Heads, Begun, Bound, run
  <1>4. Work' /\ Sent'
    BY DEF IInv, IssueInv, Work, Sent, Towards, Sending, ToCheck, Known, Task, run
  <1> QED BY <1>1, <1>2, <1>3, <1>4 DEF Kept, IssueInv

LEMMA CatchKeep ==
    ASSUME IInv, pc # "idle", NEW transient \in BOOLEAN, Catch(transient), UNCHANGED local
    PROVE  Kept
  <1>1. PICK s : Ends(s)
    BY CatchEnds
  <1>2. orphan' \in BOOLEAN /\ ~orphan' /\ st # None
    BY Copy DEF IInv, TypeOK, LocalOK, local
  <1> QED BY <1>1, <1>2, EndsKeep DEF local

LEMMA SaveKeep ==
    ASSUME IInv, pc # "idle", UNCHANGED local,
           NEW x \in {"blocked", "cancelled", "published"},
           \/ Save(mem) \/ Leave \/ Save([mem EXCEPT !.status = x])
           \/ Save([mem EXCEPT !.status = "published", !.pr = TRUE])
    PROVE  Kept
  <1>1. PICK s : Ends(s)
    BY SaveEnds
  <1>2. orphan' \in BOOLEAN /\ ~orphan' /\ st # None
    BY Copy DEF IInv, TypeOK, LocalOK, local
  <1> QED BY <1>1, <1>2, EndsKeep DEF local

\* A candidate that has been looked at again is ready.
LEMMA ReadyKeep ==
    ASSUME IInv, pc # "idle", pc \notin Begun, UNCHANGED <<st, pending, ck, local>>, Go("decide"),
           mem' = [mem EXCEPT !.reads = 0, !.status = "ready"]
    PROVE  Kept
  <1>1. mem \in States /\ st # None /\ ~orphan /\ Same(st, mem)
    BY Copy
  <1>a. mem' \in States /\ mem'.status = "ready"
    BY <1>1 DEF States
  <1>b. Same(mem, mem')
    BY <1>1 DEF States, Same
  <1>2. mem' \in States /\ mem'.status = "ready" /\ Same(mem, mem') /\ mem' # None
    BY <1>a, <1>b, Constants
  <1>3. Same(st, mem')
    BY <1>1, <1>2, SameTrans
  <1>4. RowsOK' /\ LocalOK'
    BY <1>2 DEF IInv, TypeOK, RowsOK, LocalOK, local
  <1>5. Memory'
    BY <1>1, <1>2, <1>3 DEF Memory, Begun, Go, local, Same
  <1>6. Charged' /\ Heads'
    BY DEF IInv, IssueInv, Charged, Heads, Begun, Bound, Go, local
  <1>7. Work'
    BY <1>2 DEF IInv, IssueInv, Work, Towards, ToCheck, Known, Task, Go, local
  <1>8. Sent'
    BY DEF Sent, Sending, Go
  <1> QED BY <1>4, <1>5, <1>6, <1>7, <1>8 DEF Kept, IssueInv

------------------------------------------------------------------------------
(* The runner's steps before and after the work. *)

LEMMA GateKeeps == IInv /\ Gate => Kept
  <1> SUFFICES ASSUME IInv, Gate PROVE Kept
    OBVIOUS
  <1>0. pc = "gate" /\ pc # "idle" /\ pc \notin Begun /\ UNCHANGED local /\ ck \in Nat /\ MaxReads \in Nat
    BY GithubIssueAssumption DEF Gate, At, Begun, IInv, TypeOK, RowsOK
  <1>1. CASE Catch(FALSE)
    BY <1>0, <1>1, CatchKeep
  <1>2. CASE Cancel \/ Leave
    BY <1>0, <1>2, SaveKeep DEF Cancel
  <1>3. CASE /\ ck > 0 /\ mem' = [mem EXCEPT !.reads = 0, !.status = "ready"]
             /\ Go("decide") /\ UNCHANGED <<st, pending, ck>>
    BY <1>0, <1>3, ReadyKeep
  <1>4. CASE ~(ck > 0) /\ Go("look") /\ Stay /\ UNCHANGED st
    <2>1. ~Known(mem)
      BY <1>0, <1>4, Copy, KnownSame DEF IInv, IssueInv, Work, ToCheck
    <2> QED BY <1>0, <1>4, <2>1, OnwardKeep DEF Go, Stay, Sending
  <1> QED BY <1>1, <1>2, <1>3, <1>4 DEF Gate

LEMMA LookKeeps == IInv /\ Look => Kept
  <1> SUFFICES ASSUME IInv, Look PROVE Kept
    OBVIOUS
  <1>0. pc = "look" /\ pc # "idle" /\ pc \notin Begun /\ UNCHANGED local
    BY DEF Look, At, Begun
  <1>1. CASE Catch(FALSE)
    BY <1>0, <1>1, CatchKeep
  <1>2. CASE Save([mem EXCEPT !.status = "blocked"])
    BY <1>0, <1>2, SaveKeep
  <1>3. CASE Go("charge") /\ Stay /\ UNCHANGED st
    <2>1. ~Known(mem)
      BY <1>0 DEF IInv, IssueInv, Work, Towards
    <2> QED BY <1>0, <1>3, <2>1, OnwardKeep DEF Go, Stay, Sending
  <1> QED BY <1>1, <1>2, <1>3 DEF Look

LEMMA ChargeKeeps == IInv /\ Charge => Kept
  <1> SUFFICES ASSUME IInv, Charge PROVE Kept
    OBVIOUS
  <1>0. pc = "charge" /\ pc # "idle" /\ UNCHANGED local
    BY DEF Charge, At
  <1>1. CASE Cancel \/ Leave \/ Save([mem EXCEPT !.status = "blocked"])
    BY <1>0, <1>1, SaveKeep DEF Cancel
  <1>2. CASE /\ Spent(mem) => ws.review
             /\ st' = [mem EXCEPT !.status = "running", !.runs = @ + 1, !.alt = FALSE]
             /\ mem' = st' /\ pending' = mem.alt /\ Go("prepare") /\ UNCHANGED ck
    <2>1. mem \in States /\ st \in States /\ Same(st, mem) /\ ~orphan /\ ~Known(mem) /\ st # None
      BY <1>0, Copy DEF IInv, IssueInv, Work, Towards
    <2>a. st' = [mem EXCEPT !.status = "running", !.runs = mem.runs + 1, !.alt = FALSE]
      BY <1>2
    <2>b. st' \in States
      <3>1. mem \in States /\ mem.runs + 1 \in Nat
        BY <2>1, StateFields
      <3> QED BY <3>1, <2>a DEF States
    <2>c. /\ st'.runs = mem.runs + 1 /\ st'.status = "running"
          /\ st'.version = mem.version /\ st'.round = mem.round /\ st'.base = mem.base
      BY <2>1, <2>a DEF States
    <2>2. /\ st' \in States /\ st'.runs = mem.runs + 1 /\ st'.status = "running"
          /\ st'.version = st.version /\ st'.round = st.round /\ st'.base = st.base
      BY <2>1, <2>b, <2>c DEF Same
    <2>3. mem.runs = st.runs /\ mem.runs \in Nat /\ mem.alt \in BOOLEAN /\ st' # None /\ MaxRuns \in Nat
      BY <2>1, <2>2, Constants DEF States, Same
    <2>4. ~ws.review => st'.runs <= Bound
      BY <1>2, <2>2, <2>3 DEF Spent, AltPending, Bound
    <2>5. starts \in Nat /\ starts <= st.runs /\ starts <= Bound
      BY <2>1 DEF IInv, IssueInv, Charged, TypeOK, LocalOK
    <2>6. RowsOK' /\ LocalOK'
      BY <1>0, <1>2, <2>2, <2>3 DEF IInv, TypeOK, RowsOK, LocalOK, local
    <2>7. Memory'
      BY <1>0, <1>2, <2>1, <2>2, <2>3 DEF Memory, Same, Begun, Go, local
    <2>8. Charged'
      BY <1>0, <1>2, <2>2, <2>3, <2>4, <2>5 DEF Charged, Begun, Go, local, Bound
    <2>9. Heads'
      BY <1>0, <1>2, <2>1, <2>2 DEF IInv, IssueInv, Heads, Begun, Go, local
    <2>10. ~Known(mem)' /\ ~Known(st)'
      BY <1>0, <1>2, <2>1, <2>2 DEF Known, Task, Same, local
    <2>11. Work' /\ Sent'
      BY <1>0, <1>2, <2>1, <2>2, <2>10 DEF IInv, IssueInv, Work, Sent, Towards, Sending, ToCheck, Go, local
    <2> QED BY <2>6, <2>7, <2>8, <2>9, <2>11 DEF Kept, IssueInv
  <1> QED BY <1>1, <1>2 DEF Charge

\* After the work: publishing starts, or the run is over.
LEMMA RecheckKeeps == IInv /\ (Recheck \/ Decide) => Kept
  <1> SUFFICES ASSUME IInv, Recheck \/ Decide PROVE Kept
    OBVIOUS
  <1>0. pc \in {"recheck", "decide"} /\ pc # "idle" /\ pc \notin Begun /\ UNCHANGED local
    BY DEF Recheck, Decide, At, Begun
  <1>1. CASE Cancel \/ Leave \/ Save(mem)
    BY <1>0, <1>1, SaveKeep DEF Cancel
  <1>2. CASE /\ mem' = [mem EXCEPT !.reads = 0, !.status = "ready"]
             /\ Go("decide") /\ UNCHANGED <<st, pending, ck>>
    BY <1>0, <1>2, ReadyKeep
  <1>3. CASE Go("publish") /\ Stay /\ UNCHANGED st
    BY <1>0, <1>3, OnwardKeep DEF Go, Stay, Sending
  <1> QED BY <1>1, <1>2, <1>3 DEF Recheck, Decide

------------------------------------------------------------------------------
(* The work itself. *)

Workspaces ==
    [made : BOOLEAN, head : Nat, backlog : {"none", "open", "blocked", "done"},
     review : BOOLEAN, exits : Nat]

\* From the charge on, the row in memory is the one on disk, nobody knows its task yet,
\* and no worker is left behind.
LEMMA AtWork ==
    ASSUME IInv, pc \in Begun
    PROVE  /\ mem = st /\ st \in States /\ st # None /\ st.status = "running" /\ ~orphan
           /\ pc # "reported" => ~Known(st)
           /\ starts \in Nat /\ ws \in Workspaces /\ pending \in BOOLEAN
  <1>1. pc # "idle" /\ (pc # "reported" => pc \in Towards)
    BY DEF Begun, Towards
  <1> QED BY <1>1, Copy DEF IInv, IssueInv, Memory, Work, TypeOK, LocalOK, RowsOK, Workspaces

\* A result changes the accounts and the status; the attempt is given back or stays charged.
LEMMA RecordedRow ==
    ASSUME mem \in States, pending \in BOOLEAN, NEW kind, NotStarted(kind) => mem.runs > 0,
           NEW t, t = Recorded(kind)
    PROVE  /\ t \in States
           /\ t.version = mem.version /\ t.round = mem.round /\ t.base = mem.base
           /\ t.runs = (IF NotStarted(kind) THEN mem.runs - 1 ELSE mem.runs)
  <1> DEFINE runs == mem.runs - (IF NotStarted(kind) THEN 1 ELSE 0)
             alt == IF NotStarted(kind) THEN pending ELSE kind = "failed" /\ AltRetry /\ runs = MaxRuns
             control == IF Waited(kind) THEN mem.control + 1
                        ELSE IF NotStarted(kind) THEN mem.control ELSE 0
             blocked == \/ kind \in {"refused", "failedBlocked"} \/ control >= MaxControl
                        \/ runs >= MaxRuns /\ ~alt /\ kind \notin {"review", "reviewWait"}
             status == IF blocked THEN "blocked" ELSE "queued"
  <1>1. mem.runs \in Nat /\ mem.control \in Nat
    BY StateFields
  <1>2. runs \in Nat /\ runs = (IF NotStarted(kind) THEN mem.runs - 1 ELSE mem.runs)
    BY <1>1
  <1>3. control \in Nat
    BY <1>1
  <1>4. alt \in BOOLEAN
    BY Constants
  <1>5. status \in Statuses
    BY DEF Statuses
  <1>6. t = [mem EXCEPT !.runs = runs, !.alt = alt, !.control = control, !.status = status]
    BY DEF Recorded
  <1> HIDE DEF runs, alt, control, blocked, status
  <1>7. t \in States
    BY <1>2, <1>3, <1>4, <1>5, <1>6 DEF States, Statuses
  <1>8. t.version = mem.version /\ t.round = mem.round /\ t.base = mem.base /\ t.runs = runs
    BY <1>6 DEF States
  <1> QED BY <1>2, <1>7, <1>8

\* A new row of the same task, with the runs in order, takes the place of the old one.
LEMMA RowKeeps ==
    ASSUME IInv, pc \in Begun, pc' = "recheck", mem' = st', st' \in States, Task(st') = Task(st),
           st'.version = st.version, st'.round = st.round, st'.base = st.base,
           starts <= st'.runs, Known(st) => st'.reads > 0, pending' \in BOOLEAN, ck' \in Nat,
           UNCHANGED <<verified, orphan, starts>>, ws' \in Workspaces, ws'.head = ws.head,
           ws'.review => ws.review \/ pc = "working", Known(st) => ws'.made
    PROVE  Kept
  <1>1. /\ mem = st /\ st \in States /\ st # None /\ ~orphan
        /\ starts \in Nat /\ ws \in Workspaces
    BY AtWork
  <1>2. st' # None
    BY Constants
  <1>3. RowsOK' /\ LocalOK'
    BY DEF IInv, TypeOK, RowsOK, LocalOK, Workspaces
  <1>4. Memory'
    BY <1>1, <1>2 DEF Memory, Same, Begun
  <1>5. Charged'
    BY <1>1 DEF IInv, IssueInv, Charged, Begun, Bound
  <1>6. Heads'
    BY <1>1 DEF IInv, IssueInv, Heads, Begun
  <1>7. Known(st)' <=> Known(st)
    BY DEF Known, Task
  <1>8. Work'
    BY <1>1, <1>2, <1>7 DEF IInv, IssueInv, Work, Towards, ToCheck
  <1>9. Sent'
    BY DEF Sent, Sending
  <1> QED BY <1>3, <1>4, <1>5, <1>6, <1>8, <1>9 DEF Kept, IssueInv

LEMMA ReturnsKeep ==
    ASSUME IInv, pc \in {"prepare", "ready", "working"}, NEW kind, Returns(kind),
           NotStarted(kind) => pc # "working",
           UNCHANGED <<verified, orphan, starts>>, ws' \in Workspaces, ws'.head = ws.head,
           ws'.review => ws.review \/ pc = "working"
    PROVE  Kept
  <1>1. /\ mem = st /\ st \in States /\ ~Known(st) /\ starts \in Nat /\ pending \in BOOLEAN
        /\ pc \in Begun
    BY AtWork DEF Begun
  <1>2. st.runs \in Nat /\ starts <= st.runs /\ (NotStarted(kind) => starts < st.runs)
    BY <1>1, StateFields, Copy DEF IInv, IssueInv, Charged
  <1>3. st' = Recorded(kind) /\ mem' = st' /\ pending' = FALSE /\ pc' = "recheck" /\ ck' = ck
    BY DEF Returns, Go
  <1>4. NotStarted(kind) => mem.runs > 0
    BY <1>1, <1>2
  <1>5. /\ st' \in States /\ st'.version = st.version /\ st'.round = st.round /\ st'.base = st.base
        /\ st'.runs = (IF NotStarted(kind) THEN st.runs - 1 ELSE st.runs)
    BY <1>1, <1>3, <1>4, RecordedRow
  <1>6. starts <= st'.runs
    BY <1>1, <1>2, <1>5
  <1>7. Task(st') = Task(st) /\ ck' \in Nat
    BY <1>3, <1>5 DEF Task, IInv, TypeOK, RowsOK
  <1> QED BY <1>1, <1>3, <1>5, <1>6, <1>7, RowKeeps

\* The cycle goes on: only the checkout and the count of starts may have changed.
LEMMA CycleKeeps ==
    ASSUME IInv, pc \in Begun \ {"reported"}, pc' \in {"ready", "working", "landed"},
           Stay, UNCHANGED <<st, verified, orphan>>, ws' \in Workspaces, starts' \in Nat,
           Charged', Heads'
    PROVE  Kept
  <1>1. mem = st /\ st \in States /\ st # None /\ st.status = "running" /\ ~orphan /\ ~Known(st)
    BY AtWork
  <1>2. RowsOK' /\ LocalOK'
    BY DEF IInv, TypeOK, RowsOK, LocalOK, Workspaces, Stay
  <1>3. Memory'
    BY <1>1 DEF Memory, Same, Begun, Stay
  <1>4. ~Known(st)' /\ ~Known(mem)'
    BY <1>1 DEF Known, Task, Stay
  <1>5. Work' /\ Sent'
    BY <1>1, <1>4 DEF IInv, IssueInv, Work, Sent, Sending, ToCheck, Stay
  <1> QED BY <1>2, <1>3, <1>5 DEF Kept, IssueInv

LEMMA PrepareKeeps == IInv /\ Prepare => Kept
  <1> SUFFICES ASSUME IInv, Prepare PROVE Kept
    OBVIOUS
  <1>0. pc = "prepare" /\ pc # "idle" /\ pc \in Begun \ {"reported"} /\ UNCHANGED <<verified, orphan, starts>>
    BY DEF Prepare, At, Begun
  <1>1. ws \in Workspaces /\ starts \in Nat
    BY <1>0, AtWork
  <1>2. CASE Catch(FALSE) /\ UNCHANGED ws
    BY <1>0, <1>2, CatchKeep DEF local
  <1>3. CASE UNCHANGED ws /\ Returns("refused")
    BY <1>0, <1>1, <1>3, ReturnsKeep
  <1>4. CASE /\ ws' = [ws EXCEPT !.made = TRUE, !.backlog = "open"]
             /\ Returns("wait") \/ Returns("refused") \/ (Go("ready") /\ Stay /\ UNCHANGED st)
    <2>1. ws' \in Workspaces /\ ws'.head = ws.head /\ ws'.review = ws.review /\ ws'.made
      BY <1>1, <1>4 DEF Workspaces
    <2>2. CASE Returns("wait") \/ Returns("refused")
      BY <1>0, <2>1, <2>2, ReturnsKeep
    <2>3. CASE Go("ready") /\ Stay /\ UNCHANGED st
      <3>1. Charged' /\ Heads'
        BY <1>0, <2>1, <2>3 DEF IInv, IssueInv, Charged, Heads, Begun, Bound, Go
      <3> QED BY <1>0, <1>1, <2>1, <2>3, <3>1, CycleKeeps DEF Go
    <2> QED BY <1>4, <2>2, <2>3
  <1> QED BY <1>2, <1>3, <1>4 DEF Prepare

LEMMA StartKeeps == IInv /\ StartWorker => Kept
  <1> SUFFICES ASSUME IInv, StartWorker PROVE Kept
    OBVIOUS
  <1>0. /\ pc = "ready" /\ pc \in Begun \ {"reported"} /\ ~ws.review /\ starts' = starts + 1 /\ pc' = "working"
        /\ Stay /\ UNCHANGED <<st, ws, verified, orphan>>
    BY DEF StartWorker, At, Begun, Go
  <1>1. ws \in Workspaces /\ starts \in Nat /\ st \in States /\ ws.head \in Nat /\ st.base \in Nat
        /\ st.runs \in Nat /\ Bound \in Nat /\ st # None
    BY <1>0, AtWork, StateFields, Constants DEF Workspaces, Bound
  <1>2. starts < st.runs /\ st.runs <= Bound
    BY <1>0, <1>1 DEF IInv, IssueInv, Charged
  <1>3. Charged'
    BY <1>0, <1>1, <1>2 DEF Charged, Begun, Bound
  <1>4. Heads'
    BY <1>0, <1>1 DEF IInv, IssueInv, Heads, Begun
  <1> QED BY <1>0, <1>1, <1>3, <1>4, CycleKeeps

LEMMA WorkerKeeps == IInv /\ WorkerEnds => Kept
  <1> SUFFICES ASSUME IInv, WorkerEnds PROVE Kept
    OBVIOUS
  <1>0. pc = "working" /\ pc \in Begun \ {"reported"} /\ UNCHANGED <<verified, orphan, starts>>
    BY DEF WorkerEnds, At, Begun
  <1>1. ws \in Workspaces /\ starts \in Nat /\ ws.exits + 1 \in Nat /\ st # None
    BY <1>0, AtWork DEF Workspaces
  <1>2. CASE ws' = [ws EXCEPT !.exits = @ + 1] /\ Returns("failed")
    <2>1. ws' \in Workspaces /\ ws'.head = ws.head /\ ws'.review = ws.review
      BY <1>1, <1>2 DEF Workspaces
    <2> QED BY <1>0, <1>2, <2>1, ReturnsKeep DEF NotStarted
  <1>3. CASE ws' = [ws EXCEPT !.exits = @ + 1, !.backlog = "blocked"] /\ Returns("failedBlocked")
    <2>1. ws' \in Workspaces /\ ws'.head = ws.head /\ ws'.review = ws.review
      BY <1>1, <1>3 DEF Workspaces
    <2> QED BY <1>0, <1>3, <2>1, ReturnsKeep DEF NotStarted
  <1>4. CASE ws' = [ws EXCEPT !.exits = @ + 1, !.review = TRUE] /\ Returns("review")
    <2>1. ws' \in Workspaces /\ ws'.head = ws.head
      BY <1>1, <1>4 DEF Workspaces
    <2> QED BY <1>0, <1>4, <2>1, ReturnsKeep DEF NotStarted
  <1>5. CASE /\ ws' = [ws EXCEPT !.exits = @ + 1, !.head = starts]
             /\ Go("landed") /\ Stay /\ UNCHANGED st
    <2>1. ws' \in Workspaces /\ ws'.head = starts /\ ws'.review = ws.review /\ ws'.made = ws.made
      BY <1>1, <1>5 DEF Workspaces
    <2>2. ~ws.review /\ starts <= st.runs /\ starts <= Bound /\ st.base < starts /\ ws.made
      BY <1>0, <1>1 DEF IInv, IssueInv, Charged, Heads, Begun
    <2>3. Charged'
      BY <1>0, <1>1, <1>5, <2>1, <2>2 DEF Charged, Begun, Bound, Go
    <2>4. Heads'
      BY <1>0, <1>1, <1>5, <2>1, <2>2 DEF IInv, IssueInv, Heads, Begun, Go
    <2> QED BY <1>0, <1>1, <1>5, <2>1, <2>3, <2>4, CycleKeeps DEF Go
  <1> QED BY <1>2, <1>3, <1>4, <1>5 DEF WorkerEnds

LEMMA LostKeeps == IInv /\ WorkerLost => Kept
  <1> SUFFICES ASSUME IInv, WorkerLost PROVE Kept
    OBVIOUS
  <1>0. pc = "working" /\ pc # "idle" /\ UNCHANGED <<ws, verified, starts>> /\ orphan' = TRUE
        /\ Save([mem EXCEPT !.status = "blocked"])
    BY DEF WorkerLost, At
  <1>1. ASSUME NEW s, Save(s), s = [mem EXCEPT !.status = "blocked"]
        PROVE  Kept
    <2>1. mem \in States /\ Same(st, mem) /\ st # None
      BY <1>0, Copy
    <2>2. s \in States /\ Same(mem, s) /\ s.status = "blocked"
      BY <1>1, <2>1, StatusOnly DEF Statuses
    <2>3. Ends(s)
      BY <1>1, <2>1, <2>2, SameTrans DEF Ends
    <2> QED BY <1>0, <2>1, <2>2, <2>3, EndsKeep
  <1> QED BY <1>0, <1>1

LEMMA ReviewKeeps == IInv /\ ResumeReview => Kept
  <1> SUFFICES ASSUME IInv, ResumeReview PROVE Kept
    OBVIOUS
  <1>0. pc = "ready" /\ pc \in Begun \ {"reported"} /\ ws.review /\ UNCHANGED <<verified, orphan, starts>>
    BY DEF ResumeReview, At, Begun
  <1>1. ws \in Workspaces /\ starts \in Nat /\ st # None
    BY <1>0, AtWork
  <1>2. CASE UNCHANGED ws /\ Returns("reviewWait")
    BY <1>0, <1>1, <1>2, ReturnsKeep
  <1>3. CASE ws' = [ws EXCEPT !.review = FALSE] /\ Returns("rejected")
    <2>1. ws' \in Workspaces /\ ws'.head = ws.head /\ ~ws'.review
      BY <1>1, <1>3 DEF Workspaces
    <2> QED BY <1>0, <1>3, <2>1, ReturnsKeep
  <1>4. CASE /\ ws' = [ws EXCEPT !.head = starts] /\ Go("landed") /\ Stay /\ UNCHANGED st
    <2>1. ws' \in Workspaces /\ ws'.head = starts /\ ws'.review = ws.review /\ ws'.made = ws.made
      BY <1>1, <1>4 DEF Workspaces
    <2>2. starts < st.runs /\ starts <= Bound /\ st.base < starts /\ ws.made
      BY <1>0, <1>1 DEF IInv, IssueInv, Charged, Heads, Begun
    <2>3. Charged'
      BY <1>0, <1>1, <1>4, <2>1, <2>2 DEF IInv, IssueInv, Charged, Begun, Bound, Go
    <2>4. Heads'
      BY <1>0, <1>1, <1>4, <2>1, <2>2 DEF IInv, IssueInv, Heads, Begun, Go
    <2> QED BY <1>0, <1>1, <1>4, <2>1, <2>3, <2>4, CycleKeeps DEF Go
  <1> QED BY <1>2, <1>3, <1>4 DEF ResumeReview

\* The candidate's evidence makes its task known; it is in the checkout, newer than its base.
LEMMA EvidenceKeeps == IInv /\ Evidence => Kept
  <1> SUFFICES ASSUME IInv, Evidence PROVE Kept
    OBVIOUS
  <1>0. /\ pc = "landed" /\ pc \in Begun /\ pc' = "reported" /\ Stay
        /\ verified' = verified \cup {<<ws.head, Task(mem)>>}
        /\ UNCHANGED <<st, ws, orphan, starts>>
    BY DEF Evidence, At, Begun, Go
  <1>1. /\ mem = st /\ st \in States /\ st # None /\ st.status = "running" /\ ~orphan
        /\ ws \in Workspaces /\ Task(mem) \in Nat \X Nat
    BY <1>0, AtWork, StateFields
  <1>2. RowsOK' /\ LocalOK'
    <2>1. <<ws.head, Task(mem)>> \in Nat \X (Nat \X Nat)
      BY <1>1 DEF Workspaces
    <2> QED BY <1>0, <2>1 DEF IInv, TypeOK, RowsOK, LocalOK, Stay
  <1>3. Memory'
    BY <1>0, <1>1 DEF Memory, Same, Begun, Stay
  <1>4. Charged' /\ Heads'
    BY <1>0 DEF IInv, IssueInv, Charged, Heads, Begun, Bound
  <1>5. ws.made /\ ws.head # st.base
    BY <1>0, <1>1 DEF IInv, IssueInv, Heads, Begun
  <1>6. \A v \in verified' : /\ v[2][1] <= st.version
                             /\ v[2][1] = st.version => v[2][2] <= st.round
    <2>1. \A v \in verified : /\ v[2][1] <= st.version
                              /\ v[2][1] = st.version => v[2][2] <= st.round
      BY DEF IInv, IssueInv, Work
    <2>2. st.version \in Nat /\ st.round \in Nat
      BY <1>1, StateFields
    <2>3. ASSUME NEW v, v = <<ws.head, Task(mem)>>
          PROVE  v[2][1] <= st.version /\ (v[2][1] = st.version => v[2][2] <= st.round)
      BY <1>1, <2>2, <2>3 DEF Task
    <2> QED BY <1>0, <2>1, <2>3
  <1>7. Work'
    BY <1>0, <1>1, <1>5, <1>6 DEF Work, Towards, ToCheck, Stay
  <1>8. Sent'
    BY <1>0 DEF Sent, Sending
  <1> QED BY <1>2, <1>3, <1>4, <1>7, <1>8 DEF Kept, IssueInv

LEMMA DoneKeeps == IInv /\ Done => Kept
  <1> SUFFICES ASSUME IInv, Done PROVE Kept
    OBVIOUS
  <1> DEFINE n == mem.runs - (IF ws.review THEN 1 ELSE 0)
             a == ws.review /\ pending
  <1>0. /\ pc = "reported" /\ pc \in Begun /\ pc' = "recheck" /\ mem' = st' /\ ck' = 1 /\ pending' = FALSE
        /\ ws' = [ws EXCEPT !.backlog = "done", !.review = FALSE]
        /\ st' = [mem EXCEPT !.commit = ws.head, !.control = 0, !.reads = 1, !.status = "queued",
                             !.runs = n, !.alt = a]
        /\ UNCHANGED <<verified, orphan, starts>>
    BY DEF Done, At, Begun, Go
  <1>1. /\ mem = st /\ st \in States /\ st # None /\ ws \in Workspaces /\ pending \in BOOLEAN
        /\ starts \in Nat /\ st.runs \in Nat /\ ws.head \in Nat /\ ws.review \in BOOLEAN
    BY <1>0, AtWork, StateFields DEF Workspaces
  <1>2. starts <= st.runs /\ (ws.review => starts < st.runs) /\ ws.made
    BY <1>0, <1>1 DEF IInv, IssueInv, Charged, Heads, Begun
  <1>3. n \in Nat /\ starts <= n /\ a \in BOOLEAN
    BY <1>1, <1>2
  <1>4. ws' \in Workspaces /\ ws'.head = ws.head /\ ~ws'.review /\ ws'.made
    BY <1>0, <1>1, <1>2 DEF Workspaces
  <1> HIDE DEF n, a
  <1>5. st' \in States
    BY <1>0, <1>1, <1>3 DEF States
  <1>6. st'.version = st.version /\ st'.round = st.round /\ st'.base = st.base /\ st'.runs = n /\ st'.reads = 1
    BY <1>0, <1>1 DEF States
  <1>7. Task(st') = Task(st)
    BY <1>6 DEF Task
  <1>a. starts <= st'.runs /\ st'.reads > 0
    BY <1>3, <1>6
  <1>8. starts <= st'.runs /\ st'.reads > 0 /\ pending' \in BOOLEAN /\ ck' \in Nat
    BY <1>0, <1>a
  <1>9. UNCHANGED <<verified, orphan, starts>> /\ pc \in Begun /\ pc' = "recheck" /\ mem' = st'
    BY <1>0
  <1> QED BY <1>4, <1>5, <1>6, <1>7, <1>8, <1>9, RowKeeps

------------------------------------------------------------------------------
(* Publishing, and the ways a run comes to its end. *)

LEMMA PublishKeeps == IInv /\ (Publishable \/ Find) => Kept
  <1> SUFFICES ASSUME IInv, Publishable \/ Find PROVE Kept
    OBVIOUS
  <1>0. pc \in {"publish", "find"} /\ pc # "idle" /\ pc \notin Begun /\ UNCHANGED local
    BY DEF Publishable, Find, At, Begun
  <1>1. CASE Catch(FALSE)
    BY <1>0, <1>1, CatchKeep
  <1>2. CASE Published
    BY <1>0, <1>2, SaveKeep DEF Published
  <1>3. CASE AssertPublishable(mem) /\ Go("find") /\ Stay /\ UNCHANGED st
    <2>1. <<mem.commit, Task(mem)>> \in verified
      BY <1>3 DEF AssertPublishable
    <2>2. \E v \in verified : v[1] = mem.commit
      BY <2>1
    <2> QED BY <1>0, <1>3, <2>2, OnwardKeep DEF Go, Stay, Sending
  <1>4. CASE /\ pc = "find" /\ (Go("update") \/ Go("push"))
             /\ Go("update") => pr # None /\ UNCHANGED pr
             /\ Stay /\ UNCHANGED st
    <2>1. \E v \in verified : v[1] = mem.commit
      BY <1>4 DEF IInv, IssueInv, Sent, Sending
    <2> QED BY <1>0, <1>4, <2>1, OnwardKeep DEF Go, Stay, Sending
  <1> QED BY <1>1, <1>2, <1>3, <1>4 DEF Publishable, Find, remote, At, Go

LEMMA PushKeeps == IInv /\ (Update \/ Updated \/ Push \/ Check \/ Create \/ Created) => Kept
  <1> SUFFICES ASSUME IInv, Update \/ Updated \/ Push \/ Check \/ Create \/ Created PROVE Kept
    OBVIOUS
  <1>0. /\ pc \in {"update", "updated", "push", "check", "create", "created"} /\ pc # "idle"
        /\ pc \notin Begun /\ UNCHANGED local
    BY DEF Update, Updated, Push, Check, Create, Created, At, Begun
  <1>1. CASE Catch(FALSE)
    BY <1>0, <1>1, CatchKeep
  <1>2. CASE Published \/ Save(mem)
    BY <1>0, <1>2, SaveKeep DEF Published
  <1>3. CASE Go("updated") \/ Go("created")
    <2>1. Stay /\ UNCHANGED st
      BY <1>3 DEF Update, Updated, Push, Check, Create, Created, Published, Save, Catch, Go
    <2> QED BY <1>0, <1>3, <2>1, OnwardKeep DEF Go, Stay, Sending
  <1>4. CASE /\ pc \in {"push", "check"} /\ (Go("check") \/ Go("create"))
             /\ Stay /\ UNCHANGED st
    <2>1. \E v \in verified : v[1] = mem.commit
      BY <1>4 DEF IInv, IssueInv, Sent, Sending
    <2> QED BY <1>0, <1>4, <2>1, OnwardKeep DEF Go, Stay, Sending
  <1>5. CASE Update
    BY <1>1, <1>2, <1>3, <1>5 DEF Update
  <1>6. CASE Updated \/ Created
    BY <1>1, <1>2, <1>6 DEF Updated, Created
  <1>7. CASE Push
    BY <1>1, <1>2, <1>4, <1>7 DEF Push, At
  <1>8. CASE Check
    BY <1>1, <1>2, <1>4, <1>8 DEF Check, At
  <1>9. CASE Create
    BY <1>2, <1>3, <1>9 DEF Create
  <1> QED BY <1>5, <1>6, <1>7, <1>8, <1>9

LEMMA FailureKeeps == IInv /\ (ReadFails \/ Crash \/ Recovered) => Kept
  <1> SUFFICES ASSUME IInv, ReadFails \/ Crash \/ Recovered PROVE Kept
    OBVIOUS
  <1>0. pc # "idle"
    BY DEF ReadFails, Reading, Crash, Recovered, At
  <1>1. CASE ReadFails
    BY <1>0, <1>1, CatchKeep DEF ReadFails
  <1>2. CASE Recovered
    BY <1>0, <1>2, SaveKeep DEF Recovered
  <1>3. CASE Crash
    <2>1. st \in States /\ st # None /\ ~orphan /\ (pc = "working" => st.status = "running")
      BY <1>0, Copy DEF IInv, IssueInv, Memory, Begun
    <2>2. Leave /\ orphan' \in BOOLEAN /\ (orphan' => pc = "working") /\ UNCHANGED <<ws, verified, starts>>
      <3>1. Leave /\ UNCHANGED <<ws, verified, starts>>
        BY <1>3 DEF Crash
      <3>2. orphan' \in IF pc = "working" THEN BOOLEAN ELSE {orphan}
        BY <1>3 DEF Crash
      <3>3. orphan' \in BOOLEAN /\ (orphan' => pc = "working")
        <4>1. orphan = FALSE
          BY <2>1 DEF IInv, TypeOK, LocalOK
        <4>2. CASE pc = "working"
          BY <3>2, <4>2
        <4>3. CASE pc # "working"
          BY <3>2, <4>1, <4>3
        <4> QED BY <4>2, <4>3
      <3> QED BY <3>1, <3>3
    <2>3. Ends(st)
      BY <2>1, <2>2 DEF Ends, Leave, Same, IInv, IssueInv, Work, ToCheck
    <2> QED BY <2>1, <2>2, <2>3, EndsKeep
  <1> QED BY <1>1, <1>2, <1>3

------------------------------------------------------------------------------
(* What begins a run, and what the operator does to a row. *)

\* A feedback is answered by a revision: a new task, which nobody knows, on the head that
\* was published.
LEMMA FollowKeeps == IInv /\ Follow => Kept
  <1> SUFFICES ASSUME IInv, Follow PROVE Kept
    OBVIOUS
  <1>0. pc = "follow" /\ pc # "idle" /\ UNCHANGED <<verified, orphan, starts>>
    BY DEF Follow, At
  <1>1. CASE Leave /\ UNCHANGED ws
    BY <1>0, <1>1, SaveKeep DEF local
  <1>2. ASSUME AssertPublishable(mem), NEW s, Save(s), ws' = NewWs(mem.commit),
               s = [mem EXCEPT !.round = @ + 1, !.base = mem.commit, !.commit = 0,
                               !.status = "queued", !.key = feedback]
        PROVE  Kept
    <2>1. mem \in States /\ Same(st, mem) /\ st \in States /\ st # None /\ ~orphan
      BY <1>0, Copy
    <2>2. /\ feedback \in Nat /\ mem.round + 1 \in Nat /\ mem.commit \in Nat /\ mem.round \in Nat
          /\ mem.commit <= starts /\ starts \in Nat
      BY <1>2, <2>1, StateFields DEF IInv, IssueInv, Heads, AssertPublishable, TypeOK, RemoteOK, LocalOK
    <2>3. s \in States
      BY <1>2, <2>1, <2>2 DEF States
    <2>4. s.version = mem.version /\ s.round = mem.round + 1 /\ s.base = mem.commit /\ s.runs = mem.runs
      BY <1>2, <2>1 DEF States
    <2>5. mem.version = st.version /\ mem.round = st.round /\ mem.runs = st.runs
      BY <2>1 DEF Same
    <2>6. st' = s /\ mem' = None /\ pc' = "idle" /\ pending' = FALSE /\ ck' = 0 /\ s # None
      BY <1>2, <2>3, Constants DEF Save
    <2>7. /\ ws' \in Workspaces /\ ws'.head = mem.commit /\ ~ws'.review
      BY <1>2, <2>2 DEF NewWs, Workspaces
    <2>8. RowsOK' /\ LocalOK'
      BY <1>0, <2>3, <2>6, <2>7 DEF IInv, TypeOK, RowsOK, LocalOK, Workspaces
    <2>9. Memory'
      BY <1>0, <2>1, <2>6 DEF Memory, Begun
    <2>10. Charged'
      BY <1>0, <2>1, <2>4, <2>5, <2>6 DEF IInv, IssueInv, Charged, Begun, Bound
    <2>11. Heads'
      BY <1>0, <2>2, <2>4, <2>6, <2>7 DEF Heads, Begun
    <2>12. \A v \in verified : /\ v[2][1] <= s.version
                               /\ v[2][1] = s.version => v[2][2] < s.round
      <3>1. \A v \in verified : /\ v[2][1] <= st.version
                                /\ v[2][1] = st.version => v[2][2] <= st.round /\ v[2][2] \in Nat
        BY DEF IInv, IssueInv, Work, TypeOK, LocalOK
      <3> QED BY <3>1, <2>2, <2>4, <2>5
    <2>13. ~Known(st)' /\ \A v \in verified : v[2][1] = s.version => v[2][2] <= s.round
      <3>1. s.round \in Nat /\ \A v \in verified : v[2][2] \in Nat
        BY <2>3, StateFields DEF IInv, TypeOK, LocalOK
      <3>2. \A v \in verified : v[2] # Task(s)
        BY <3>1, <2>12 DEF Task
      <3> QED BY <1>0, <2>6, <2>12, <3>1, <3>2 DEF Known, Task
    <2>14. Work' /\ Sent'
      BY <1>0, <2>6, <2>12, <2>13 DEF Work, Sent, Towards, Sending, ToCheck
    <2> QED BY <2>8, <2>9, <2>10, <2>11, <2>14 DEF Kept, IssueInv
  <1> QED BY <1>1, <1>2 DEF Follow

LEMMA Idle ==
    ASSUME IInv, pc = "idle"
    PROVE  /\ mem = None /\ starts \in Nat /\ ws \in Workspaces
           /\ st # None => st \in States /\ starts <= st.runs /\ ToCheck(st)
           /\ orphan => st # None /\ st.status \in {"blocked", "running", "cancelled"}
           /\ starts <= Bound /\ ws.head <= starts /\ (ws.review => st.base < starts)
           /\ orphan \in BOOLEAN
  BY DEF IInv, IssueInv, Memory, Charged, Heads, Work, TypeOK, RowsOK, LocalOK, Workspaces

LEMMA IntakeKeeps == IInv /\ Intake => Kept
  <1> SUFFICES ASSUME IInv, Intake PROVE Kept
    OBVIOUS
  <1>0. pc = "idle" /\ st = None /\ Save(Fresh(issue.fp)) /\ UNCHANGED local
    BY DEF Intake, At
  <1>1. /\ starts = 0 /\ verified = {} /\ ~orphan /\ ~ws.review /\ ws \in Workspaces /\ ws.head <= starts
        /\ issue.fp \in Nat /\ starts <= Bound
    <2>1. starts = 0 /\ verified = {} /\ ~orphan /\ ~ws.review
      BY <1>0 DEF IInv, IssueInv, Memory
    <2>2. issue.fp \in Nat
      BY DEF IInv, TypeOK, RemoteOK
    <2> QED BY <1>0, <2>1, <2>2, Idle
  <1>2. PICK s : s = Fresh(issue.fp) /\ Save(s)
    BY <1>0
  <1>3. s \in States /\ s.version = 1 /\ s.round = 0 /\ s.base = 0 /\ s.runs = 0 /\ s # None
    BY <1>1, <1>2, FreshState, Constants
  <1>4. st' = s /\ mem' = None /\ pc' = "idle" /\ pending' = FALSE /\ ck' = 0
    BY <1>2 DEF Save
  <1>5. RowsOK' /\ LocalOK'
    BY <1>0, <1>3, <1>4 DEF IInv, TypeOK, RowsOK, LocalOK, local
  <1>6. Memory' /\ Charged' /\ Heads'
    BY <1>0, <1>1, <1>3, <1>4 DEF Memory, Charged, Heads, Begun, Bound, local
  <1>7. Work' /\ Sent'
    BY <1>0, <1>1, <1>4 DEF Work, Sent, Towards, Sending, ToCheck, Known, local
  <1> QED BY <1>5, <1>6, <1>7 DEF Kept, IssueInv

\* A run begins with a copy of the same work; the row may be restated as well.
LEMMA BeginKeeps ==
    ASSUME IInv, pc = "idle", st # None, ~orphan, UNCHANGED <<pending, local>>,
           pc' \in {"follow", "gate", "recover"}, mem' \in States, Same(st, mem'),
           ck' \in Nat, st' = st \/ st' = mem',
           Known(st) /\ mem'.status = "queued" => mem'.reads > 0,
           pc' = "gate" => ck' = mem'.reads /\ mem'.status = "queued"
    PROVE  Kept
  <1>1. st \in States /\ ToCheck(st) /\ mem' # None
    BY Idle, Constants
  <1>2. /\ st'.version = st.version /\ st'.round = st.round /\ st'.base = st.base /\ st'.runs = st.runs
        /\ st' \in States /\ st' # None /\ Same(st', mem') /\ Task(mem') = Task(st)
        /\ Task(st') = Task(st)
    BY <1>1 DEF Same, Task
  <1>3. RowsOK' /\ LocalOK'
    BY <1>2 DEF IInv, TypeOK, RowsOK, LocalOK, local
  <1>4. Memory'
    BY <1>1, <1>2 DEF Memory, Begun, local
  <1>5. Charged' /\ Heads'
    BY <1>2 DEF IInv, IssueInv, Charged, Heads, Begun, Bound, local
  <1>6. (Known(st)' <=> Known(st)) /\ (Known(mem)' <=> Known(st))
    BY <1>2 DEF Known, Task, local
  <1>7. ToCheck(mem)' /\ ToCheck(st)'
    BY <1>1, <1>6 DEF ToCheck
  <1>8. Work'
    BY <1>2, <1>6, <1>7 DEF IInv, IssueInv, Work, Towards, local
  <1>9. Sent'
    BY DEF Sent, Sending
  <1> QED BY <1>3, <1>4, <1>5, <1>8, <1>9 DEF Kept, IssueInv

LEMMA ObserveKeeps == IInv /\ Observe => Kept
  <1> SUFFICES ASSUME IInv, Observe PROVE Kept
    OBVIOUS
  <1>1. /\ pc = "idle" /\ st # None /\ st.status = "published" /\ mem' = st /\ pc' = "follow"
        /\ UNCHANGED <<st, pending, ck, local>>
    BY DEF Observe, At, Go
  <1>2. st \in States /\ ~orphan
    BY <1>1, Idle
  <1>3. ck' \in Nat /\ Same(st, mem')
    BY <1>1 DEF Same, IInv, TypeOK, RowsOK
  <1> QED BY <1>1, <1>2, <1>3, BeginKeeps

LEMMA PickKeeps == IInv /\ Pick => Kept
  <1> SUFFICES ASSUME IInv, Pick PROVE Kept
    OBVIOUS
  <1>1. /\ pc = "idle" /\ st # None /\ st.status \in {"queued", "ready"} /\ pc' = "gate"
        /\ st' = mem' /\ ck' = mem'.reads /\ UNCHANGED <<pending, local>>
        /\ mem' = IF st.status = "ready" THEN [st EXCEPT !.status = "queued", !.reads = 1] ELSE st
    BY DEF Pick, At, Go
  <1>2. st \in States /\ ~orphan /\ ToCheck(st)
    BY <1>1, Idle
  <1>3. CASE st.status = "ready"
    <2>1. mem' = [st EXCEPT !.status = "queued", !.reads = 1]
      BY <1>1, <1>3
    <2>2. mem' \in States
      BY <1>2, <2>1 DEF States
    <2>3. Same(st, mem') /\ mem'.status = "queued" /\ mem'.reads = 1
      BY <1>2, <2>1 DEF States, Same
    <2> QED BY <1>1, <1>2, <2>2, <2>3, BeginKeeps
  <1>4. CASE st.status = "queued"
    <2>1. mem' = st
      BY <1>1, <1>4
    <2>2. mem' \in States /\ Same(st, mem') /\ ck' \in Nat
      BY <1>1, <1>2, <2>1, StateFields DEF Same
    <2>3. Known(st) /\ mem'.status = "queued" => mem'.reads > 0
      BY <1>2, <2>1 DEF ToCheck
    <2> QED BY <1>1, <1>2, <1>4, <2>1, <2>2, <2>3, BeginKeeps
  <1> QED BY <1>1, <1>3, <1>4

LEMMA RetireKeeps == IInv /\ (Stale \/ Reconcile) => Kept
  <1> SUFFICES ASSUME IInv, Stale \/ Reconcile PROVE Kept
    OBVIOUS
  <1>0. pc = "idle" /\ st # None /\ UNCHANGED local
    BY DEF Stale, Reconcile, Command, At
  <1>1. PICK x \in {"blocked", "cancelled"} : Save([st EXCEPT !.status = x])
    BY DEF Stale, Reconcile
  <1>2. ASSUME NEW s, Save(s), s = [st EXCEPT !.status = x]
        PROVE  Kept
    <2>1. s \in States /\ Same(st, s) /\ s.status = x
      BY <1>0, <1>2, Idle, StatusOnly DEF Statuses
    <2>2. Ends(s)
      BY <1>2, <2>1 DEF Ends
    <2>3. orphan' \in BOOLEAN /\ UNCHANGED <<ws, verified, starts>>
      BY <1>0 DEF local, IInv, TypeOK, LocalOK
    <2> QED BY <1>0, <2>1, <2>2, <2>3, EndsKeep
  <1> QED BY <1>1, <1>2

\* A recovered row is ready if its candidate is on disk with its evidence; a row queued
\* again has a checkout without work.
LEMMA RecoverKeeps == IInv /\ Recover => Kept
  <1> SUFFICES ASSUME IInv, Recover PROVE Kept
    OBVIOUS
  <1>0. /\ pc = "idle" /\ st # None /\ ~orphan /\ pc' = "recover"
        /\ UNCHANGED <<st, pending, ck, local>>
    BY DEF Recover, Command, Recoverable, Go
  <1>1. st \in States /\ ck' \in Nat /\ ws.head \in Nat /\ st.pr \in BOOLEAN
    BY <1>0, Idle DEF States, Workspaces, IInv, TypeOK, RowsOK
  <1> DEFINE p == st.pr \/ pr # None
  <1>2. p \in BOOLEAN
    BY <1>1
  <1>3. \/ mem' = [[st EXCEPT !.pr = p] EXCEPT !.commit = ws.head, !.status = "ready", !.reads = 0]
        \/ /\ ws.made => ws.head = st.base
           /\ mem' = [[st EXCEPT !.pr = p] EXCEPT !.status = "queued", !.control = 0]
    BY DEF Recover
  <1> HIDE DEF p
  <1>4. CASE mem' = [[st EXCEPT !.pr = p] EXCEPT !.commit = ws.head, !.status = "ready", !.reads = 0]
    <2>1. mem' \in States
      BY <1>1, <1>2, <1>4 DEF States
    <2>2. Same(st, mem') /\ mem'.status = "ready"
      BY <1>1, <1>4 DEF States, Same
    <2> QED BY <1>0, <1>1, <2>1, <2>2, BeginKeeps
  <1>5. CASE /\ ws.made => ws.head = st.base
             /\ mem' = [[st EXCEPT !.pr = p] EXCEPT !.status = "queued", !.control = 0]
    <2>1. mem' \in States
      BY <1>1, <1>2, <1>5 DEF States
    <2>2. Same(st, mem') /\ mem'.status = "queued"
      BY <1>1, <1>5 DEF States, Same
    <2>3. ~Known(st)
      BY <1>0, <1>5 DEF IInv, IssueInv, Work
    <2> QED BY <1>0, <1>1, <2>1, <2>2, <2>3, BeginKeeps
  <1> QED BY <1>3, <1>4, <1>5

\* The successor is a new task at the expense of the same attempts.
LEMMA ReapproveKeeps == IInv /\ Reapprove => Kept
  <1> SUFFICES ASSUME IInv, Reapprove PROVE Kept
    OBVIOUS
  <1>0. /\ pc = "idle" /\ st # None /\ ~orphan /\ ws' = NewWs(0)
        /\ UNCHANGED <<verified, orphan, starts>>
    BY DEF Reapprove, Command
  <1>1. /\ st \in States /\ starts \in Nat /\ starts <= st.runs /\ starts <= Bound
        /\ {st.version, st.runs} \subseteq Nat /\ issue.fp \in Nat
    BY <1>0, Idle, StateFields DEF IInv, TypeOK, RemoteOK
  <1>2. PICK s : /\ Save(s)
                 /\ s = [Fresh(issue.fp) EXCEPT !.version = st.version + 1, !.runs = st.runs, !.prior = st.runs]
    BY DEF Reapprove
  <1>3. st.version + 1 \in Nat /\ Fresh(issue.fp) \in States /\ Fresh(issue.fp).base = 0 /\ Fresh(issue.fp).round = 0
    BY <1>1, FreshState
  <1>4. s \in States
    BY <1>1, <1>2, <1>3 DEF States
  <1>5. s.version = st.version + 1 /\ s.round = 0 /\ s.base = 0 /\ s.runs = st.runs /\ s # None
    BY <1>2, <1>3, <1>4, Constants DEF States
  <1>6. st' = s /\ mem' = None /\ pc' = "idle" /\ pending' = FALSE /\ ck' = 0
    BY <1>2 DEF Save
  <1>7. ws' \in Workspaces /\ ws'.head = 0 /\ ~ws'.review
    BY <1>0 DEF NewWs, Workspaces
  <1>8. RowsOK' /\ LocalOK'
    BY <1>0, <1>4, <1>6, <1>7 DEF IInv, TypeOK, RowsOK, LocalOK, Workspaces
  <1>9. Memory' /\ Charged' /\ Heads'
    BY <1>0, <1>1, <1>5, <1>6, <1>7 DEF Memory, Charged, Heads, Begun, Bound
  <1>10. \A v \in verified : v[2][1] < s.version
    <2>1. \A v \in verified : v[2][1] <= st.version /\ v[2][1] \in Nat
      BY DEF IInv, IssueInv, Work, TypeOK, LocalOK
    <2> QED BY <1>1, <1>5, <2>1
  <1>11. /\ \A v \in verified : v[2][1] <= s.version /\ v[2][1] # s.version
         /\ ~Known(st)'
    <2>1. s.version \in Nat /\ \A v \in verified : v[2][1] \in Nat
      BY <1>4, StateFields DEF IInv, TypeOK, LocalOK
    <2>2. \A v \in verified : v[2][1] <= s.version /\ v[2][1] # s.version
      BY <1>10, <2>1
    <2> QED BY <1>0, <1>6, <2>2 DEF Known, Task
  <1>12. Work' /\ Sent'
    BY <1>0, <1>6, <1>11 DEF Work, Sent, Towards, Sending, ToCheck
  <1> QED BY <1>8, <1>9, <1>12 DEF Kept, IssueInv

\* GitHub and the operator change what the runner reads, and nothing of the runner's.
LEMMA RemoteKeeps == IInv /\ (Edit \/ Link \/ Review \/ TouchPr \/ Pause \/ OrphanEnds) => Kept
  <1> SUFFICES ASSUME IInv, Edit \/ Link \/ Review \/ TouchPr \/ Pause \/ OrphanEnds PROVE Kept
    OBVIOUS
  <1>1. orphan \in BOOLEAN /\ (pr # None => pr \in Pulls)
    BY DEF IInv, TypeOK, RemoteOK, LocalOK
  <1>2. CASE TouchPr
    <2>1. pr' \in Pulls
      BY <1>1, <1>2 DEF TouchPr, Pulls, Foreign
    <2> QED BY <1>1, <1>2, <2>1, Constants, OthersKeep DEF TouchPr, Change, local
  <1>3. CASE OrphanEnds
    BY <1>1, <1>3, OthersKeep DEF OrphanEnds, remote
  <1>4. CASE Edit \/ Link \/ Review \/ Pause
    BY <1>1, <1>4, OthersKeep DEF Edit, Link, Review, Pause, Change, local
  <1> QED BY <1>2, <1>3, <1>4

------------------------------------------------------------------------------
(* The types of what GitHub shows, and the whole step. *)

LEMMA CountsStep ==
    ASSUME IInv, Next
    PROVE  changes' \in Nat /\ ops' \in Nat /\ faults' \in Nat
  <1>1. changes \in Nat /\ ops \in Nat /\ faults \in Nat
    BY DEF IInv, TypeOK, RemoteOK
  <1>2. \/ UNCHANGED counts
        \/ changes' = changes + 1 /\ UNCHANGED <<ops, faults>>
        \/ ops' = ops + 1 /\ UNCHANGED <<changes, faults>>
        \/ faults' = faults + 1 /\ UNCHANGED <<changes, ops>>
    BY DEF Next, Tick, Intake, Observe, Stale, Pick, Runs, Follow, Gate, Look, Charge, Prepare,
           StartWorker, WorkerEnds, WorkerLost, ResumeReview, Evidence, Done, Recheck, Decide,
           Publishable, Find, Update, Updated, Push, Check, Create, Created, Recovered,
           ReadFails, Crash, Recover, Reconcile, Reapprove, Command, At,
           Edit, Link, Review, TouchPr, Pause, Change, OrphanEnds
  <1> QED BY <1>1, <1>2 DEF counts

\* Only a publication and others change the pull request; only a recovery lifts the pause.
LEMMA RemoteStep ==
    ASSUME IInv, Next
    PROVE  \/ UNCHANGED remote
           \/ /\ pc \in {"update", "create"} /\ pr' \in Pulls /\ pr'.head = mem.commit
              /\ UNCHANGED <<issue, linked, feedback, stop, local>>
           \/ pc = "recover" /\ stop' = FALSE /\ UNCHANGED <<issue, pr, linked, feedback, local>>
           \/ Edit \/ Link \/ Review \/ TouchPr \/ Pause
  <1>1. CASE Update
    <2>1. pc = "update" /\ pr # None /\ pr \in Pulls /\ mem \in States
      BY <1>1, Copy DEF Update, At, IInv, IssueInv, Sent, TypeOK, RemoteOK
    <2>2. mem.commit \in Nat
      BY <2>1, StateFields
    <2>3. CASE pr' = [pr EXCEPT !.head = mem.commit]
      <3>1. pr' \in Pulls /\ pr'.head = mem.commit
        BY <2>1, <2>2, <2>3 DEF Pulls
      <3> QED BY <1>1, <2>1, <3>1 DEF Update
    <2>4. CASE UNCHANGED pr
      BY <1>1, <2>4 DEF Update, remote
    <2> QED BY <1>1, <2>3, <2>4 DEF Update
  <1>2. CASE Create
    <2>1. pc = "create" /\ mem \in States
      BY <1>2, Copy DEF Create, At
    <2>2. mem.commit \in Nat
      BY <2>1, StateFields
    <2>3. CASE pr' = [head |-> mem.commit, state |-> "open"]
      <3>1. pr' \in Pulls /\ pr'.head = mem.commit
        BY <2>2, <2>3 DEF Pulls
      <3> QED BY <1>2, <2>1, <3>1 DEF Create
    <2>4. CASE UNCHANGED pr
      BY <1>2, <2>4 DEF Create, remote
    <2> QED BY <1>2, <2>3, <2>4 DEF Create
  <1>3. CASE Recovered
    BY <1>3 DEF Recovered, At, remote
  <1>4. CASE Tick \/ ReadFails \/ Crash \/ Recover \/ Reconcile \/ Reapprove \/ OrphanEnds
    BY <1>4 DEF Tick, Intake, Observe, Stale, Pick, ReadFails, Crash, Recover, Reconcile,
                Reapprove, OrphanEnds
  <1>5. CASE Runs /\ ~Update /\ ~Create /\ ~Recovered
    BY <1>5 DEF Runs, Follow, Gate, Look, Charge, Prepare, StartWorker, WorkerEnds, WorkerLost,
                ResumeReview, Evidence, Done, Recheck, Decide, Publishable, Find, Updated,
                Push, Check, Created
  <1> QED BY <1>1, <1>2, <1>3, <1>4, <1>5 DEF Next

LEMMA RemoteTypes ==
    ASSUME IInv, Next
    PROVE  RemoteOK'
  <1>0. changes' \in Nat /\ ops' \in Nat /\ faults' \in Nat
    BY CountsStep
  <1>1. /\ issue \in [fp : {1, 2}, ok : BOOLEAN] /\ pr \in Pulls \cup {None} /\ linked \in BOOLEAN
        /\ feedback \in Nat /\ stop \in BOOLEAN
    BY DEF IInv, TypeOK, RemoteOK
  <1>2. CASE TouchPr
    <2>1. pr' \in Pulls /\ UNCHANGED <<issue, linked, feedback, stop>>
      BY <1>1, <1>2 DEF TouchPr, Pulls, Foreign
    <2> QED BY <1>0, <1>1, <2>1 DEF RemoteOK
  <1>3. CASE Edit
    <2>a. 3 - issue.fp \in {1, 2} /\ (~issue.ok) \in BOOLEAN
      BY <1>1
    <2>b. issue' = [issue EXCEPT !.fp = 3 - issue.fp] \/ issue' = [issue EXCEPT !.ok = (~issue.ok)]
      BY <1>3 DEF Edit
    <2>1. issue' \in [fp : {1, 2}, ok : BOOLEAN]
      <3>1. CASE issue' = [issue EXCEPT !.fp = 3 - issue.fp]
        BY <1>1, <2>a, <3>1
      <3>2. CASE issue' = [issue EXCEPT !.ok = (~issue.ok)]
        BY <1>1, <2>a, <3>2
      <3> QED BY <2>b, <3>1, <3>2
    <2>2. UNCHANGED <<pr, linked, feedback, stop>>
      BY <1>3 DEF Edit
    <2> QED BY <1>0, <1>1, <2>1, <2>2 DEF RemoteOK
  <1>4. CASE Link \/ Review \/ Pause
    <2>1. linked' \in BOOLEAN /\ stop' \in BOOLEAN
      BY <1>1, <1>4 DEF Link, Review, Pause
    <2>2. feedback' \in Nat /\ UNCHANGED <<issue, pr>>
      BY <1>1, <1>4 DEF Link, Review, Pause
    <2> QED BY <1>0, <1>1, <2>1, <2>2 DEF RemoteOK
  <1>5. CASE ~(Edit \/ Link \/ Review \/ TouchPr \/ Pause)
    BY <1>0, <1>1, <1>5, RemoteStep DEF remote, RemoteOK
  <1> QED BY <1>2, <1>3, <1>4, <1>5

LEMMA StepKeeps == IInv /\ [Next]_vars => IInv'
  <1> SUFFICES ASSUME IInv, [Next]_vars PROVE IInv'
    OBVIOUS
  <1>1. CASE UNCHANGED vars
    <2>1. TypeOK'
      BY <1>1 DEF vars, remote, run, local, counts, IInv, TypeOK, RemoteOK, RowsOK, LocalOK
    <2>2. Memory' /\ Charged' /\ Heads'
      BY <1>1 DEF vars, remote, run, local, counts, IInv, IssueInv, Memory, Charged, Heads, Same,
                  Begun, Bound
    <2>3. Work' /\ Sent'
      BY <1>1 DEF vars, remote, run, local, counts, IInv, IssueInv, Work, Sent, Towards, Sending,
                  ToCheck, Known, Task
    <2> QED BY <2>1, <2>2, <2>3 DEF IInv, IssueInv
  <1>2. CASE Next
    <2>1. Kept
      BY <1>2, IntakeKeeps, ObserveKeeps, RetireKeeps, PickKeeps, FollowKeeps, GateKeeps, LookKeeps,
         ChargeKeeps, PrepareKeeps, StartKeeps, WorkerKeeps, LostKeeps, ReviewKeeps, EvidenceKeeps,
         DoneKeeps, RecheckKeeps, PublishKeeps, PushKeeps, FailureKeeps, RecoverKeeps,
         ReapproveKeeps, RemoteKeeps
         DEF Next, Tick, Runs
    <2> QED BY <1>2, <2>1, RemoteTypes DEF Kept, IInv, TypeOK
  <1> QED BY <1>1, <1>2

LEMMA InitKeeps == Init => IInv
  <1> SUFFICES ASSUME Init PROVE IInv
    OBVIOUS
  <1>1. TypeOK
    BY DEF Init, TypeOK, RemoteOK, RowsOK, LocalOK, NewWs
  <1>2. Memory
    BY DEF Init, Memory, Begun, NewWs
  <1>3. Bound \in Nat
    BY Constants DEF Bound
  <1>4. Charged
    BY <1>3 DEF Init, Charged, NewWs
  <1>5. Heads
    BY DEF Init, Heads, Begun, NewWs
  <1>6. Work /\ Sent
    BY DEF Init, Work, Sent, Towards, Sending
  <1> QED BY <1>1, <1>2, <1>4, <1>5, <1>6 DEF IInv, IssueInv

------------------------------------------------------------------------------
(* The theorems. *)

\* Whatever is read, fails, dies or is commanded, the rows, the checkout and the accounts
\* stay in order.
THEOREM GithubIssueCorrect == Spec => []IInv
  BY InitKeeps, StepKeeps, PTL DEF Spec

\* The issue, the pull request, the rows on disk and in memory and the checkout keep
\* their types.
THEOREM GithubIssueTypeCorrect == Spec => []TypeOK
  BY GithubIssueCorrect, PTL DEF IInv

LEMMA WorkIsClean == IInv => WorkStartsClean
  <1> SUFFICES ASSUME IInv PROVE WorkStartsClean
    OBVIOUS
  <1>1. OneWorker
    BY DEF IInv, IssueInv, Memory, OneWorker
  <1>2. NoRework
    BY DEF IInv, IssueInv, Work, Towards, Known, NoRework
  <1>3. StartsCharged
    BY DEF IInv, IssueInv, Charged, Bound, StartsCharged
  <1> QED BY <1>1, <1>2, <1>3 DEF WorkStartsClean

\* However attempts are refunded, candidates recovered, revised or reapproved and runs cut
\* short: a worker is started alone, charged beforehand within the lifetime's allowance, and
\* never for a task that has a verified candidate (runner.ts, reconcile.ts, reapproval.ts).
THEOREM WorkStaysClean == Spec => []WorkStartsClean
  BY GithubIssueCorrect, WorkIsClean, PTL

LEMMA PrStep == IInv /\ PrVerified /\ [Next]_vars => PrVerified'
  <1> SUFFICES ASSUME IInv, PrVerified, [Next]_vars PROVE PrVerified'
    OBVIOUS
  <1>1. verified \subseteq verified'
    <2>1. CASE Next
      BY <2>1 DEF Next, Tick, Intake, Observe, Stale, Pick, Runs, Follow, Gate, Look, Charge, Prepare,
           StartWorker, WorkerEnds, WorkerLost, ResumeReview, Evidence, Done, Recheck, Decide,
           Publishable, Find, Update, Updated, Push, Check, Create, Created, Recovered,
           ReadFails, Crash, Recover, Reconcile, Reapprove, Edit, Link, Review, TouchPr, Pause,
           Change, OrphanEnds, local
    <2>2. CASE UNCHANGED vars
      BY <2>2 DEF vars, local
    <2> QED BY <2>1, <2>2
  <1>2. CASE UNCHANGED pr
    BY <1>1, <1>2 DEF PrVerified
  <1>3. CASE pc \in {"update", "create"} /\ pr'.head = mem.commit
    BY <1>1, <1>3 DEF IInv, IssueInv, Sent, Sending, PrVerified
  <1>4. CASE TouchPr
    <2>1. pr \in Pulls /\ pr # None
      BY <1>4 DEF TouchPr, IInv, TypeOK, RemoteOK
    <2>2. pr'.head = pr.head \/ pr'.head = Foreign
      BY <1>4, <2>1 DEF TouchPr, Pulls
    <2> QED BY <1>1, <2>1, <2>2 DEF PrVerified
  <1>5. UNCHANGED pr \/ (pc \in {"update", "create"} /\ pr'.head = mem.commit) \/ TouchPr
    BY RemoteStep DEF remote, vars, Edit, Link, Review, Pause
  <1> QED BY <1>2, <1>3, <1>4, <1>5

\* Every commit the runner puts on a pull request has complete evidence for one task of the
\* issue; anything else on it was put there by others (operations.ts, publish.ts).
THEOREM PullRequestsVerified == Spec => []PrVerified
  <1>1. Init => PrVerified
    BY DEF Init, PrVerified
  <1> QED BY <1>1, GithubIssueCorrect, PrStep, PTL DEF Spec
------------------------------------------------------------------------------
(* The owner of several repositories: one child at a time. *)

\* What nobody waits for is under the marker.  A tick that scans under a marker has ended
\* its round; a tick that has called a child wrote the marker and began without one, so
\* that nothing had been lost.
OwnerInv ==
    /\ lost # {} => marker
    /\ at = "scan" /\ marker => order = <<>>
    /\ at = "child" => marker /\ lost = {}

LEMMA OwnerKeeps == OwnerInv /\ [Owner!Next]_(Owner!vars) => OwnerInv'
  <1> SUFFICES ASSUME OwnerInv, [Owner!Next]_(Owner!vars) PROVE OwnerInv'
    OBVIOUS
  <1>1. CASE Owner!Start
    BY <1>1 DEF OwnerInv, Owner!Start
  <1>2. CASE Owner!Dispatch
    BY <1>2 DEF OwnerInv, Owner!Dispatch
  <1>3. CASE Owner!Sync
    BY <1>3 DEF OwnerInv, Owner!Sync
  <1>4. CASE Owner!Returns
    BY <1>4 DEF OwnerInv, Owner!Returns
  <1>5. CASE Owner!Finish
    BY <1>5 DEF OwnerInv, Owner!Finish
  <1>6. CASE Owner!OperatorRecovers
    BY <1>6 DEF OwnerInv, Owner!OperatorRecovers
  <1>7. CASE Owner!Unknown
    BY <1>7 DEF OwnerInv, Owner!Unknown
  <1>8. CASE Owner!GivesUp
    BY <1>8 DEF OwnerInv, Owner!GivesUp
  <1>12. CASE Owner!CannotMark
    BY <1>12 DEF OwnerInv, Owner!CannotMark
  <1>9. CASE Owner!Crash
    BY <1>9 DEF OwnerInv, Owner!Crash
  <1>10. CASE Owner!Discovery
    BY <1>10 DEF OwnerInv, Owner!Discovery
  <1>11. CASE UNCHANGED Owner!vars
    BY <1>11 DEF OwnerInv, Owner!vars
  <1> QED
    BY <1>1, <1>2, <1>3, <1>4, <1>5, <1>6, <1>7, <1>8, <1>9, <1>10, <1>11, <1>12
    DEF Owner!Next, Owner!Tick

\* Over any number of repositories, ticks that die and results that are lost: while a child
\* may be at work that nobody waits for, no other one is started (owner.ts).
THEOREM UnknownStaysHeld == Owner!Spec => []UnknownHeld
  <1>1. Owner!Init => OwnerInv
    BY DEF Owner!Init, OwnerInv
  <1>2. OwnerInv => UnknownHeld
    BY DEF OwnerInv, UnknownHeld, Owner!UnknownHeld
  <1> QED BY <1>1, <1>2, OwnerKeeps, PTL DEF Owner!Spec
=============================================================================
