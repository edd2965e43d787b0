----------------------------- MODULE Execution -----------------------------
(***************************************************************************)
(* Observed executions: the worker process behind runProcess (proc.ts),    *)
(* the observation that follows it and the inventory of receipts it keeps  *)
(* (execution-observation.ts, inventory-lock.ts), and the parts of         *)
(* runSingleOnce that create, gate and finish an observation.              *)
(*                                                                         *)
(* Hosts are scheduler processes over one data directory.  A host that     *)
(* dies comes back idle; its worker goes on and its lock file stays.  Each *)
(* section under .inventory.lock is one step, except finish: it writes the *)
(* receipt and then moves it, and its host may die between the two.        *)
(***************************************************************************)
EXTENDS Naturals, FiniteSets

CONSTANTS
    Runs,         \* execution identities
    Hosts,        \* scheduler processes
    Tasks,
    None,
    Capacity,     \* MAX_ACTIVE_EXECUTIONS
    MaxFaults     \* bound: deaths of hosts and failing writes

\* What a receipt says of an execution.
Receipt == [phase : {"running", "validating", "unknown", "terminal"},
            exit : {"none", "exit", "wall", "idle", "cancelled"},
            outcome : {"none", "completed", "failed", "unconfirmed"},
            cancel : BOOLEAN, degraded : BOOLEAN]

ASSUME ExecutionAssumption ==
    /\ None \notin Runs \cup Hosts \cup Tasks \cup Receipt \cup {"dead"} /\ "dead" \notin Hosts
    /\ Capacity \in Nat \ {0} /\ MaxFaults \in Nat

VARIABLES
    lock,         \* who made .inventory.lock: a host, "dead", or None
    active,       \* the receipt in active/<id>.json, None when there is none
    history,      \* the receipt in history/<id>.json
    request,      \* the executions with a <id>.cancel.json
    step,         \* where each host is
    run,          \* the execution of each host
    task,         \* the task of each execution
    mem,          \* the state of its observation, saved or not
    abort,        \* the executions whose signal is aborted
    stopped,      \* why runProcess reaps the worker: "no", "wall", "idle", "cancelled"
    child,        \* the worker: "none", "alive", "closed"
    held,         \* the executions whose claim and worktree are kept
    faults

inventory == <<lock, active, history, request>>
process == <<abort, stopped, child>>
vars == <<inventory, step, run, task, mem, process, held, faults>>

Blank == [phase |-> "running", exit |-> "none", outcome |-> "none", cancel |-> FALSE, degraded |-> FALSE]

Observing == {"admitted", "working", "validating"}   \* the sampling timer runs

Init ==
    /\ lock = None /\ request = {}
    /\ active = [e \in Runs |-> None] /\ history = [e \in Runs |-> None]
    /\ step = [h \in Hosts |-> "idle"] /\ run = [h \in Hosts |-> None]
    /\ task = [e \in Runs |-> None] /\ mem = [e \in Runs |-> Blank]
    /\ abort = {} /\ stopped = [e \in Runs |-> "no"] /\ child = [e \in Runs |-> "none"]
    /\ held = {} /\ faults = 0

Go(h, s) == step' = [step EXCEPT ![h] = s]

-----------------------------------------------------------------------------
(* The inventory. *)

Archiveable(r) ==
    /\ r.phase = "terminal" /\ r.outcome \in {"completed", "failed"}
    /\ r.exit = "exit" /\ ~r.cancel /\ ~r.degraded

\* What readExecutionsUnlocked moves to history before it answers.
Movable(e) == active[e] # None /\ Archiveable(active[e]) /\ e \notin request /\ history[e] = None
SweptActive == [e \in Runs |-> IF Movable(e) THEN None ELSE active[e]]
SweptHistory == [e \in Runs |-> IF Movable(e) THEN active[e] ELSE history[e]]

\* Its errors: a pending cancellation, a terminal receipt that cannot move.
Unclear(e) == SweptActive[e] # None /\ (e \in request \/ SweptActive[e].phase = "terminal")

MayAdmit(e, t) ==
    LET present == {f \in Runs : SweptActive[f] # None} IN
    /\ Cardinality(present) < Capacity
    /\ \A f \in present : ~Unclear(f) /\ task[f] # t /\ SweptActive[f].phase # "unknown"
    /\ SweptActive[e] = None /\ SweptHistory[e] = None

\* readExecutions of any process: the bot, a supervisor, the command line.
Sweep ==
    /\ lock = None /\ \E e \in Runs : Movable(e)
    /\ active' = SweptActive /\ history' = SweptHistory
    /\ UNCHANGED <<lock, request, step, run, task, mem, process, held, faults>>

\* requestExecutionCancel, by an operator.
RequestCancel(e) ==
    /\ lock = None
    /\ active[e] # None /\ active[e].phase # "terminal"
    /\ request' = request \cup {e}
    /\ UNCHANGED <<lock, active, history, step, run, task, mem, process, held, faults>>

\* persist: the state m is kept in memory whatever becomes of the write.  Another
\* process may hold the lock at any moment; only other failures degrade.
Persist(e, m) ==
    \/ /\ lock = None /\ mem' = [mem EXCEPT ![e] = m]
       /\ active' = [active EXCEPT ![e] = m] /\ UNCHANGED faults
    \/ /\ lock # "dead" /\ mem' = [mem EXCEPT ![e] = m] /\ UNCHANGED <<active, faults>>
    \/ /\ lock = "dead" /\ mem' = [mem EXCEPT ![e] = [m EXCEPT !.degraded = TRUE]]
       /\ UNCHANGED <<active, faults>>
    \/ /\ lock = None /\ faults < MaxFaults /\ faults' = faults + 1
       /\ mem' = [mem EXCEPT ![e] = [m EXCEPT !.degraded = TRUE]] /\ UNCHANGED active

RecoveryRequired(e) ==
    mem[e].degraded \/ mem[e].cancel \/ e \in abort \/ mem[e].exit \notin {"none", "exit"}

-----------------------------------------------------------------------------
(* An execution, from admission to its last turn. *)

AdmitAny(h, e, t) ==
    /\ step[h] = "idle" /\ lock = None /\ task[e] = None
    /\ active' = [SweptActive EXCEPT ![e] = Blank] /\ history' = SweptHistory
    /\ task' = [task EXCEPT ![e] = t] /\ run' = [run EXCEPT ![h] = e] /\ Go(h, "admitted")
    /\ held' = held \cup {e}
    /\ UNCHANGED <<lock, request, mem, process, faults>>

\* createExecutionObservation.  A host that is refused, or finds the lock taken,
\* dispatches nothing and stays idle.
Admit(h, e, t) ==
    /\ step[h] = "idle" /\ lock = None /\ task[e] = None
    /\ MayAdmit(e, t)
    /\ active' = [SweptActive EXCEPT ![e] = Blank] /\ history' = SweptHistory
    /\ task' = [task EXCEPT ![e] = t] /\ run' = [run EXCEPT ![h] = e] /\ Go(h, "admitted")
    /\ held' = held \cup {e}
    /\ UNCHANGED <<lock, request, mem, process, faults>>

\* runProcess starts a worker: the engine's run, or a further turn of the same
\* execution (a nudge, a queued control) when nothing asks for recovery.
Spawn(h) ==
    LET e == run[h] IN
    /\ step[h] = "admitted" \/ (step[h] = "validating" /\ mem[e].exit = "exit")
    /\ ~RecoveryRequired(e)
    /\ child' = [child EXCEPT ![e] = "alive"] /\ stopped' = [stopped EXCEPT ![e] = "no"]
    /\ Persist(e, [mem[e] EXCEPT !.phase = "running"])
    /\ Go(h, "working")
    /\ UNCHANGED <<lock, history, request, run, task, abort, held>>

\* The signal was aborted before the worker was spawned: runProcess returns.
NotSpawned(h) ==
    /\ step[h] = "admitted" /\ run[h] \in abort
    /\ Go(h, "validating")
    /\ UNCHANGED <<inventory, run, task, mem, process, held, faults>>

\* The engine throws before it has a worker: no exit is ever observed.
Throws(h) ==
    /\ step[h] = "admitted" /\ faults < MaxFaults /\ faults' = faults + 1
    /\ Go(h, "validating")
    /\ UNCHANGED <<inventory, run, task, mem, process, held>>

\* The worker ends by itself.  While it is being reaped its close only stores
\* the code; otherwise it settles runProcess.
Closes(e) ==
    /\ child[e] = "alive" /\ child' = [child EXCEPT ![e] = "closed"]
    /\ \/ \E h \in Hosts :
            /\ run[h] = e /\ step[h] = "working" /\ stopped[e] = "no"
            /\ Persist(e, [mem[e] EXCEPT !.exit = "exit", !.phase = "validating"])
            /\ Go(h, "validating")
       \/ /\ \A h \in Hosts : run[h] = e => step[h] # "working" \/ stopped[e] # "no"
          /\ UNCHANGED <<step, mem, active, faults>>
    /\ UNCHANGED <<lock, history, request, run, task, abort, stopped, held>>

\* stop('wall') and stop('idle'), once.
TimeLimit(h, why) ==
    /\ step[h] = "working" /\ stopped[run[h]] = "no"
    /\ stopped' = [stopped EXCEPT ![run[h]] = why]
    /\ UNCHANGED <<inventory, step, run, task, mem, abort, child, held, faults>>

\* stop('cancelled'), from the abort of the signal.
Cancelled(h) ==
    LET e == run[h] IN
    /\ step[h] = "working" /\ stopped[e] = "no" /\ e \in abort
    /\ stopped' = [stopped EXCEPT ![e] = "cancelled"]
    /\ Persist(e, [mem[e] EXCEPT !.cancel = TRUE, !.phase = "unknown"])
    /\ UNCHANGED <<lock, history, request, step, run, task, abort, child, held>>

\* killTree has reported, or run out of its budget.  Its report is never a proof
\* that the worker is gone.
Reaped(h) ==
    LET e == run[h] IN
    /\ step[h] = "working" /\ stopped[e] # "no"
    /\ child' \in {child, [child EXCEPT ![e] = "closed"]}
    /\ Persist(e, [mem[e] EXCEPT !.exit = stopped[e], !.phase = "unknown"])
    /\ Go(h, "validating")
    /\ UNCHANGED <<lock, history, request, run, task, abort, stopped, held>>

SampleOnly(h) ==
    LET e == run[h] IN
    /\ step[h] \in Observing
    /\ Persist(e, IF e \in request THEN [mem[e] EXCEPT !.cancel = TRUE, !.phase = "unknown"] ELSE mem[e])
    /\ UNCHANGED <<lock, history, request, step, run, task, process, held>>

\* sample: the timer reads the cancel file and saves the latest state.
Sample(h) ==
    LET e == run[h] IN
    /\ step[h] \in Observing
    /\ abort' = IF e \in request THEN abort \cup {e} ELSE abort
    /\ Persist(e, IF e \in request THEN [mem[e] EXCEPT !.cancel = TRUE, !.phase = "unknown"] ELSE mem[e])
    /\ UNCHANGED <<lock, history, request, step, run, task, stopped, child, held>>

\* The caller's own signal: the host is told to stop.
ParentAborts(h) ==
    /\ step[h] \in Observing /\ abort' = abort \cup {run[h]}
    /\ UNCHANGED <<inventory, step, run, task, mem, stopped, child, held, faults>>

-----------------------------------------------------------------------------
(* The end of runSingleOnce. *)

\* What finish makes of the outcome o it is given.
Finished(e, o) ==
    LET cancel == mem[e].cancel \/ e \in abort
        sure == o # "unconfirmed" /\ ~RecoveryRequired(e)
    IN [mem[e] EXCEPT !.cancel = cancel,
                      !.outcome = IF sure THEN o ELSE "unconfirmed",
                      !.phase = IF sure THEN "terminal" ELSE "unknown"]

Unconfirmed(m) == [m EXCEPT !.outcome = "unconfirmed", !.phase = "unknown"]

\* finish, as far as its first write.  A cancel file makes it unconfirmed; a lock
\* taken by anybody leaves the last receipt; a failing write keeps the lock.
Finish(h, o) ==
    LET e == run[h]
        m == Finished(e, o)
        lost == [Unconfirmed(m) EXCEPT !.degraded = TRUE]
    IN
    /\ step[h] \in {"validating", "retrying"}
    \* Every return before the finally has passed the gates.
    /\ o = "unconfirmed" <=> RecoveryRequired(e)
    /\ \/ /\ lock = None /\ e \in request
          /\ active' = [active EXCEPT ![e] = [Unconfirmed(m) EXCEPT !.cancel = TRUE]]
          /\ mem' = [mem EXCEPT ![e] = [Unconfirmed(m) EXCEPT !.cancel = TRUE]]
          /\ Go(h, "leaving") /\ UNCHANGED <<lock, faults>>
       \/ /\ lock = None /\ e \notin request
          /\ active' = [active EXCEPT ![e] = m] /\ mem' = [mem EXCEPT ![e] = m]
          /\ lock' = IF Archiveable(m) THEN h ELSE None
          /\ Go(h, IF Archiveable(m) THEN "archiving" ELSE "leaving") /\ UNCHANGED faults
       \/ /\ mem' = [mem EXCEPT ![e] = lost]
          /\ Go(h, "leaving") /\ UNCHANGED <<lock, active, faults>>
       \/ /\ lock = None /\ faults < MaxFaults /\ faults' = faults + 1
          /\ mem' = [mem EXCEPT ![e] = lost] /\ lock' = h
          /\ Go(h, "leaving") /\ UNCHANGED active
    /\ UNCHANGED <<history, request, run, task, process, held>>

\* An engine ended from outside is retried at once: its claim is released and its
\* worktree removed before the observation finishes.
RetryInfrastructure(h) ==
    /\ step[h] = "validating" /\ mem[run[h]].exit = "exit" /\ ~RecoveryRequired(run[h])
    /\ held' = held \ {run[h]} /\ Go(h, "retrying")
    /\ UNCHANGED <<inventory, run, task, mem, process, faults>>

\* The rename, still under the lock; when it fails the receipt stays.
Archive(h, moves) ==
    LET e == run[h]
        kept == [Unconfirmed(mem[e]) EXCEPT !.degraded = TRUE]
    IN
    /\ step[h] = "archiving" /\ lock' = None /\ Go(h, "leaving")
    /\ IF moves /\ history[e] = None
       THEN /\ active' = [active EXCEPT ![e] = None] /\ history' = [history EXCEPT ![e] = mem[e]]
            /\ UNCHANGED <<mem, faults>>
       ELSE /\ faults < MaxFaults /\ faults' = faults + 1
            /\ active' = [active EXCEPT ![e] = kept] /\ mem' = [mem EXCEPT ![e] = kept]
            /\ UNCHANGED history
    /\ UNCHANGED <<request, run, task, process, held>>

\* releaseClaim, unless the finished observation asks for recovery.
Leave(h) ==
    /\ step[h] = "leaving" /\ Go(h, "idle") /\ run' = [run EXCEPT ![h] = None]
    /\ held' = IF RecoveryRequired(run[h]) THEN held ELSE held \ {run[h]}
    /\ UNCHANGED <<inventory, task, mem, process, faults>>

-----------------------------------------------------------------------------
(* Faults and the operator. *)

\* The host dies, perhaps inside one of its sections, and starts again.
Dies(h) ==
    /\ step[h] # "idle" /\ faults < MaxFaults /\ faults' = faults + 1
    /\ Go(h, "idle") /\ run' = [run EXCEPT ![h] = None]
    /\ lock' \in IF lock = h THEN {"dead"} ELSE IF lock = None THEN {None, "dead"} ELSE {lock}
    /\ UNCHANGED <<active, history, request, task, mem, process, held>>

\* An operator removes a lock whose maker is outside its section.
Unlock ==
    /\ lock = "dead" \/ \E h \in Hosts : lock = h /\ step[h] # "archiving"
    /\ lock' = None
    /\ UNCHANGED <<active, history, request, step, run, task, mem, process, held, faults>>

\* An operator clears a receipt nobody follows once the worker is known to be gone.
Resolve(e) ==
    /\ lock = None /\ active[e] # None /\ child[e] # "alive"
    /\ \A h \in Hosts : run[h] # e
    /\ active' = [active EXCEPT ![e] = None] /\ request' = request \ {e} /\ held' = held \ {e}
    /\ UNCHANGED <<lock, history, step, run, task, mem, process, faults>>

Next ==
    \/ Sweep \/ Unlock
    \/ \E e \in Runs : RequestCancel(e) \/ Closes(e) \/ Resolve(e)
    \/ \E h \in Hosts, e \in Runs, t \in Tasks : Admit(h, e, t)
    \/ \E h \in Hosts :
        \/ Spawn(h) \/ NotSpawned(h) \/ Throws(h)
        \/ \E why \in {"wall", "idle"} : TimeLimit(h, why)
        \/ Cancelled(h) \/ Reaped(h) \/ Sample(h) \/ ParentAborts(h)
        \/ \E o \in {"completed", "failed", "unconfirmed"} : Finish(h, o)
        \/ RetryInfrastructure(h) \/ (\E moves \in BOOLEAN : Archive(h, moves))
        \/ Leave(h) \/ Dies(h)

\* A live host samples, reaps within the budget of killTree and obeys its signal.
Fairness ==
    \A h \in Hosts : WF_vars(Sample(h)) /\ WF_vars(Reaped(h)) /\ WF_vars(Cancelled(h))

Spec == Init /\ [][Next]_vars
FairSpec == Spec /\ Fairness

-----------------------------------------------------------------------------
(* Properties. *)

\* Every variable has its type.
TypeOK ==
    /\ lock \in Hosts \cup {None, "dead"} /\ request \subseteq Runs
    /\ active \in [Runs -> Receipt \cup {None}] /\ history \in [Runs -> Receipt \cup {None}]
    /\ step \in [Hosts -> Observing \cup {"idle", "retrying", "archiving", "leaving"}]
    /\ run \in [Hosts -> Runs \cup {None}] /\ task \in [Runs -> Tasks \cup {None}]
    /\ mem \in [Runs -> Receipt] /\ abort \subseteq Runs
    /\ stopped \in [Runs -> {"no", "wall", "idle", "cancelled"}]
    /\ child \in [Runs -> {"none", "alive", "closed"}]
    /\ held \subseteq Runs /\ faults \in 0..MaxFaults

\* Two workers never work on one task, whatever hosts die, time limits pass and
\* cancellations are asked for (createExecutionObservation, finish).
OneWorkerPerTask ==
    \A e, f \in Runs : e # f /\ child[e] = "alive" /\ child[f] = "alive" => task[e] # task[f]

\* The history holds only executions whose worker closed by itself, whose
\* cancellation nobody waits for, and no active receipt beside it (finish,
\* readExecutionsUnlocked, selectExecutionReceipt).
HistoryIsSettled ==
    \A e \in Runs : history[e] # None =>
        /\ child[e] # "alive" /\ stopped[e] = "no"
        /\ e \notin request /\ active[e] = None

\* The claim and the worktree of an execution are given up only when its worker
\* is gone (quarantineRun, releaseClaim).
HeldWhileAlive == \A e \in Runs : child[e] = "alive" => e \in held

\* A task has one worker at a time, what is filed away as settled has none, and a worker
\* still has its claim and its worktree (createExecutionObservation,
\* readExecutionsUnlocked, finish, runSingleOnce).
WorkersAccounted == OneWorkerPerTask /\ HistoryIsSettled /\ HeldWhileAlive

\* "Keep the unreleased claim for recovery": an execution left with a receipt
\* nobody confirmed still has its claim and its worktree (runSingleOnce, finally).
KeptForRecovery ==
    \A e \in Runs : active[e] # None /\ active[e].outcome = "unconfirmed" => e \in held

\* A cancellation asked for while a host follows the execution ends its work
\* (sample, runProcess).
CancelStops ==
    \A e \in Runs : e \in request ~> (\A h \in Hosts : run[h] = e => step[h] # "working")
=============================================================================
