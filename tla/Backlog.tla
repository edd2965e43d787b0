------------------------------ MODULE Backlog ------------------------------
(***************************************************************************)
(* The backlog file and its lock directory (backlog.ts, backlog-split.ts,  *)
(* dedup-reopen.ts, scripts/cleanup-blocked.mjs).  The daemon picks the    *)
(* first open task, works on it and reports, splits tasks and reopens      *)
(* blocked ones; short-lived processes (the command line, the bot, a       *)
(* clean-up) append tasks or reopen all blocked ones at once.              *)
(*                                                                         *)
(* Lines are only added or given another status, so a line's position is   *)
(* its identity; tasks with the same text have the same id.  A writer      *)
(* reads the file, then writes what it made of it: the lock keeps others   *)
(* out in between.  The lock directory does not say whose it is, and one   *)
(* that has grown old is moved out of the way by whoever waits for it, be  *)
(* its maker dead or only slow.                                            *)
(***************************************************************************)
EXTENDS Naturals, Sequences, FiniteSets, SequencesExt, FiniteSetsExt

CONSTANTS
    Daemon, Users,   \* processes
    Texts, None,
    Child,           \* the text of a split child, for each text
    Again,           \* the text a blocked task is reopened under
    MaxLines, MaxAsks, MaxFaults   \* bounds

BacklogAssumption ==
    /\ Daemon \notin Users /\ None \notin Texts \cup Users \cup {Daemon}
    /\ {Child, Again} \subseteq [Texts -> Texts]
    /\ {MaxLines, MaxAsks, MaxFaults} \subseteq Nat

VARIABLES
    file,     \* the lines: text, status, and whether it is itself a reopened task
    lock,     \* the process that made the directory; None when there is none
    old,      \* its mtime is more than ten seconds ago
    pc, op, snap,   \* of each process: where it is, what it does, what it has read
    picked,   \* the text of the task the daemon works on, None
    sawOld,   \* history: who is about to remove a directory that was old when it looked
    robbed,   \* history: one of them has taken the directory from a process inside
    asks, faults   \* appends asked for, and losses, so far

lockVars == <<lock, old, sawOld, robbed>>
vars == <<file, lockVars, pc, op, snap, picked, asks, faults>>

Procs == Users \cup {Daemon}
NoOp == [kind |-> "none"]
Line(t, reopened) == [text |-> t, status |-> "open", reopened |-> reopened]
Lines(n) == UNION {[1 .. k -> {Line(t, FALSE) : t \in Texts}] : k \in 0 .. n}

Init ==
    /\ file \in Lines(2) /\ lock = None /\ old = FALSE /\ sawOld = {} /\ robbed = FALSE
    /\ pc = [p \in Procs |-> "idle"] /\ op = [p \in Procs |-> NoOp]
    /\ snap = [p \in Procs |-> <<>>] /\ picked = None /\ asks = 0 /\ faults = 0

Of(f, t, statuses) == {i \in DOMAIN f : f[i].text = t /\ f[i].status \in statuses}
Mark(f, i, status) == [f EXCEPT ![i].status = status]

\* What each operation makes of the lines it has read; without a line to change the
\* operation throws, or leaves the file alone.
ReportFirst(f, o) ==
    LET rest == Of(f, o.text, {"open", "blocked"}) IN
    IF rest = {} THEN f ELSE Mark(f, Min(rest), o.status)
\* report: the first open line of that text, or else the first one not done.
Report(f, o) ==
    LET open == Of(f, o.text, {"open"})
        rest == Of(f, o.text, {"open", "blocked"}) IN
    IF rest = {} THEN f ELSE Mark(f, Min(IF open # {} THEN open ELSE rest), o.status)
\* writeSplitBacklog: the parent is superseded and its child added in one write.
Split(f, o) ==
    LET open == Of(f, o.text, {"open"}) IN
    IF open = {} THEN f
    ELSE Append(Mark(f, Min(open), "superseded"), Line(Child[o.text], FALSE))
\* applyDedupReopen: the line it knows is there, blocked, and was not reopened before.
Reopen(f, o) ==
    IF o.line \in Of(f, o.text, {"blocked"}) /\ ~f[o.line].reopened
    THEN Append(Mark(f, o.line, "superseded"), Line(Again[f[o.line].text], TRUE))
    ELSE f
\* transformBacklog: of the blocked lines that no one has evaluated again, those whose
\* reason allows it are superseded, and their tasks added again behind all the others.
Reopenable(f) == {i \in DOMAIN f : f[i].status = "blocked" /\ ~f[i].reopened}
Cleaned(f, chosen) ==
    LET again == SetToSortSeq(chosen, <) IN
    [i \in DOMAIN f |-> IF i \in chosen THEN [f[i] EXCEPT !.status = "superseded"] ELSE f[i]]
        \o [k \in DOMAIN again |-> Line(Again[f[again[k]].text], TRUE)]
\* append, which adds to the file as it is.
Added(f, known, o) ==
    IF o.unique /\ \E i \in DOMAIN known : known[i].text = o.text THEN f
    ELSE Append(f, Line(o.text, FALSE))

Begin(p, o) ==
    /\ op' = [op EXCEPT ![p] = o] /\ pc' = [pc EXCEPT ![p] = "locking"]
    /\ UNCHANGED <<file, lockVars, snap, faults>>

-----------------------------------------------------------------------------
(* What the processes want. *)

\* nextTask over the deduplicated lines: the first open one.
Pick ==
    LET open == {i \in DOMAIN file : file[i].status = "open"} IN
    /\ pc[Daemon] = "idle" /\ open # {}
    /\ picked' = file[Min(open)].text /\ pc' = [pc EXCEPT ![Daemon] = "working"]
    /\ UNCHANGED <<file, lockVars, op, snap, asks, faults>>

Finish(status) ==
    /\ pc[Daemon] = "working"
    /\ Begin(Daemon, [kind |-> "report", text |-> picked, status |-> status])
    /\ UNCHANGED <<picked, asks>>

SplitTask ==
    /\ pc[Daemon] = "working" /\ Len(file) < MaxLines
    /\ Begin(Daemon, [kind |-> "split", text |-> picked])
    /\ UNCHANGED <<picked, asks>>

ReopenTask(i) ==
    /\ pc[Daemon] = "idle" /\ i \in DOMAIN file /\ Len(file) < MaxLines
    /\ file[i].status = "blocked" /\ ~file[i].reopened
    /\ Begin(Daemon, [kind |-> "reopen", line |-> i, text |-> file[i].text])
    /\ UNCHANGED <<picked, asks>>

Asks(u, o) ==
    /\ pc[u] = "idle" /\ asks < MaxAsks /\ asks' = asks + 1
    /\ Begin(u, o) /\ UNCHANGED picked

\* /task of the bot adds whatever it is told; "task add" only what is not there yet.
AddTask(u, t) ==
    Len(file) < MaxLines /\ Asks(u, [kind |-> "append", text |-> t, unique |-> FALSE])
AddUnique(u, t) ==
    Len(file) < MaxLines /\ Asks(u, [kind |-> "append", text |-> t, unique |-> TRUE])

\* cleanup-blocked.mjs --apply, for this project's backlog.
CleanUp(u) == Asks(u, [kind |-> "cleanup"])

-----------------------------------------------------------------------------
(* withBacklogLock. *)

Go(p, s) == pc' = [pc EXCEPT ![p] = s]

MakeDir(p) ==
    /\ pc[p] = "locking" /\ lock = None
    /\ lock' = p /\ old' = FALSE
    /\ Go(p, "locked") /\ UNCHANGED <<file, sawOld, robbed, op, snap, picked, asks, faults>>

SeeAnyLock(p) ==
    /\ pc[p] = "locking" /\ lock # None
    /\ sawOld' = IF old THEN sawOld \cup {p} ELSE sawOld
    /\ Go(p, "reaping") /\ UNCHANGED <<file, lock, old, robbed, op, snap, picked, asks, faults>>

\* The age of the directory, and in a second step its removal: whatever is there then.
SeeOldLock(p) ==
    /\ pc[p] = "locking" /\ lock # None /\ old
    /\ sawOld' = sawOld \cup {p}
    /\ Go(p, "reaping") /\ UNCHANGED <<file, lock, old, robbed, op, snap, picked, asks, faults>>

Inside(p) == pc[p] \in {"locked", "writing", "unlocking"}

Reap(p) ==
    /\ pc[p] = "reaping"
    /\ lock' = None /\ old' = FALSE /\ sawOld' = sawOld \ {p}
    /\ robbed' = (robbed \/ (p \in sawOld /\ lock # None /\ Inside(lock)))
    /\ Go(p, "locking") /\ UNCHANGED <<file, op, snap, picked, asks, faults>>

Read(p) ==
    /\ pc[p] = "locked" /\ Go(p, "writing")
    /\ snap' = [snap EXCEPT ![p] = file]
    /\ UNCHANGED <<file, lockVars, op, picked, asks, faults>>

Write(p) ==
    LET o == op[p] IN
    /\ pc[p] = "writing"
    /\ \/ o.kind = "report" /\ file' = Report(snap[p], o)
       \/ o.kind = "split" /\ file' = Split(snap[p], o)
       \/ o.kind = "reopen" /\ file' = Reopen(snap[p], o)
       \/ o.kind = "append" /\ file' = Added(file, snap[p], o)
       \* An id that exists already makes it give up: none is chosen.
       \/ /\ o.kind = "cleanup"
          /\ \E chosen \in SUBSET Reopenable(snap[p]) :
                /\ chosen = {} \/ Len(snap[p]) + Cardinality(chosen) <= MaxLines
                /\ file' = Cleaned(snap[p], chosen)
    /\ Go(p, "unlocking") /\ snap' = [snap EXCEPT ![p] = <<>>]
    /\ UNCHANGED <<lockVars, op, picked, asks, faults>>

\* rmdir, whoever has made the directory.
Unlock(p) ==
    /\ pc[p] = "unlocking"
    /\ lock' = None /\ old' = FALSE /\ Go(p, "idle") /\ op' = [op EXCEPT ![p] = NoOp]
    /\ picked' = IF p = Daemon THEN None ELSE picked
    /\ UNCHANGED <<file, sawOld, robbed, snap, asks, faults>>

\* The lock was busy for fifteen seconds: the operation throws, and a task whose report
\* is lost this way will be picked again.
TimesOut(p) ==
    /\ pc[p] = "locking" /\ lock # None /\ faults < MaxFaults /\ faults' = faults + 1
    /\ Go(p, "idle") /\ op' = [op EXCEPT ![p] = NoOp]
    /\ picked' = IF p = Daemon THEN None ELSE picked
    /\ UNCHANGED <<file, lockVars, snap, asks>>

\* A process dies and leaves its directory; a daemon is started again.
Dies(p) ==
    /\ pc[p] \notin {"idle", "dead"} /\ faults < MaxFaults /\ faults' = faults + 1
    /\ Go(p, IF p = Daemon THEN "idle" ELSE "dead")
    /\ op' = [op EXCEPT ![p] = NoOp] /\ snap' = [snap EXCEPT ![p] = <<>>]
    /\ picked' = IF p = Daemon THEN None ELSE picked
    /\ sawOld' = sawOld \ {p} /\ UNCHANGED <<file, lock, old, robbed, asks>>

\* Ten seconds pass: with nobody inside they always do, else the process inside is slow.
Ages ==
    /\ lock # None /\ ~old /\ ~Inside(lock) /\ old' = TRUE
    /\ UNCHANGED <<file, lock, sawOld, robbed, pc, op, snap, picked, asks, faults>>
Lingers ==
    /\ lock # None /\ ~old /\ Inside(lock) /\ old' = TRUE
    /\ faults < MaxFaults /\ faults' = faults + 1
    /\ UNCHANGED <<file, lock, sawOld, robbed, pc, op, snap, picked, asks>>

Step(p) == MakeDir(p) \/ SeeOldLock(p) \/ Reap(p) \/ Read(p) \/ Write(p) \/ Unlock(p)
Work == Pick \/ SplitTask \/ \E status \in {"done", "blocked"} : Finish(status)

Next ==
    \/ Work \/ \E i \in 1 .. MaxLines : ReopenTask(i)
    \/ \E u \in Users : CleanUp(u) \/ \E t \in Texts : AddTask(u, t) \/ AddUnique(u, t)
    \/ \E p \in Procs : Step(p) \/ TimesOut(p)
    \/ \E p \in Procs : Dies(p)
    \/ Ages \/ Lingers

Spec == Init /\ [][Next]_vars
\* Each process keeps running, time passes, and the daemon does not leave a task lying.
FairSpec == Spec /\ WF_vars(Work) /\ WF_vars(Ages) /\ \A p \in Procs : WF_vars(Step(p))

-----------------------------------------------------------------------------
\* What a writer is about to write was made from the file as it is: no update is lost, and
\* only then otherwise when somebody who saw an old directory took one from a process that
\* was still inside (withBacklogLock, where a slow writer loses its directory that way, and
\* so does the first of two waiters to get in).
WritesAreCurrent == robbed \/ \A p \in Procs : pc[p] = "writing" => snap[p] = file

\* Every line is done, blocked or superseded in the end, however many carry one text and
\* however often a report was lost, to the lock or to a slow writer: nothing is picked for
\* ever.
Converges == <>[](\A i \in DOMAIN file : file[i].status # "open")
=============================================================================
