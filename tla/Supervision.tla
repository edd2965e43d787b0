---------------------------- MODULE Supervision ----------------------------
(***************************************************************************)
(* One project's daemon (daemon.ts) and the processes that supervise it    *)
(* (supervisor/supervise.ts, supervisor/health.ts), with the operator's    *)
(* stop file and the pause gate (supervisor/pause-gate.ts) between them.   *)
(*                                                                         *)
(* A daemon stands for its pid.  A watcher is a process that calls         *)
(* superviseConfig: it reads the lock and the heartbeat, probes the pid,   *)
(* decides, and acts later, each time under the pause gate.  Nothing stops *)
(* the daemon, the operator or the other watcher in between.               *)
(*                                                                         *)
(* Of the daemon's lock the directory and the pid.json in it are taken one *)
(* after the other, as anybody may read in between; for the rest LockLease *)
(* shows that lock.ts implements a lock.                                   *)
(***************************************************************************)
EXTENDS Naturals, FiniteSets

CONSTANTS
    Daemons,      \* pids of daemons
    Watchers,     \* processes that call superviseConfig
    None,
    Bare,         \* a lock directory without pid.json
    Stale,        \* heartbeat ages, in steps of the clock: staleThresholdMs
    Watchdog,     \* HEARTBEAT_WATCHDOG_MS
    Grace,        \* reapGraceMs
    HardCap,      \* wedgeHardCapMs
    MaxAge,       \* bound: the clock of the heartbeat stops here
    MaxFaults     \* bound: crashes and wedges of daemons, deaths of watchers

ASSUME SupervisionAssumption ==
    /\ None \notin Daemons \cup Watchers /\ Bare \notin Daemons \cup {None}
    /\ {Stale, Watchdog, Grace, HardCap, MaxAge, MaxFaults} \subseteq Nat
    /\ Grace <= MaxAge /\ HardCap < MaxAge

VARIABLES
    stop,         \* the stop file exists
    gate,         \* the watcher or operator inside the pause gate; None
    lock,         \* the daemon in daemon.lock/pid.json; Bare, or None without the directory
    daemon,       \* what each pid is doing
    beat,         \* age of heartbeat.json, whoever wrote it; MaxAge + 1 when missing
    ended,        \* an attempt was recorded in run.db after that heartbeat
    sentinel,     \* restart.request exists
    observed,     \* the configuration runs observed executions
    records,      \* the execution inventory: "none", "live" (not terminal), "done"
    pc,           \* where each watcher is
    snap,         \* what its pass of superviseConfig has read and decided
    faults

project == <<stop, lock, beat, ended, sentinel, observed, records>>
daemonVars == <<lock, daemon, beat, ended, sentinel, records, faults>>
superviseVars == <<stop, gate, lock, daemon, beat, ended, sentinel, observed, records, pc, snap, faults>>

Inside == {"reaping", "launching", "asking", "admitting", "forcing"}
Missing == MaxAge + 1
Gone == {"off", "reaped"}
Running == {d \in Daemons : daemon[d] \notin Gone}

(* superviseConfig runs with the result for the step named in "then". *)
NoResult == [pid |-> None, age |-> 0, alive |-> FALSE, kids |-> FALSE, clean |-> TRUE, error |-> FALSE,
             act |-> "keep", observe |-> FALSE, then |-> "idle"]

Init ==
    /\ stop = FALSE /\ gate = None
    /\ lock = None /\ daemon = [d \in Daemons |-> "off"]
    /\ beat \in {Missing, MaxAge} /\ ended = FALSE /\ sentinel = FALSE
    /\ observed \in BOOLEAN /\ records = "none"
    /\ pc = [w \in Watchers |-> "idle"] /\ snap = [w \in Watchers |-> NoResult]
    /\ faults = 0

-----------------------------------------------------------------------------
(* The daemon. *)

BootUnlocked(d) ==
    /\ daemon[d] = "boot"
    /\ daemon' = [daemon EXCEPT ![d] = "loop"] /\ lock' = d
    /\ UNCHANGED <<stop, gate, beat, ended, sentinel, observed, records, pc, snap, faults>>

\* Whoever is about to write pid.json has its transaction open.
Making == \E d \in Daemons : daemon[d] = "making"

\* runDaemon takes the lock when it is free or its owner is dead, a bare directory only
\* when that has grown old; where there is none it makes the directory first.
Boot(d) ==
    /\ daemon[d] = "boot"
    /\ \/ /\ lock = Bare \/ lock \in Running \ {d}
          /\ daemon' = [daemon EXCEPT ![d] = "off"] /\ lock' = lock
       \/ /\ lock = None
          /\ daemon' = [daemon EXCEPT ![d] = "making"] /\ lock' = Bare
       \/ /\ lock # None /\ lock \notin Running \ {d} /\ ~Making
          /\ daemon' = [daemon EXCEPT ![d] = "loop"] /\ lock' = d
    /\ UNCHANGED <<stop, gate, beat, ended, sentinel, observed, records, pc, snap, faults>>

BootWrites(d) ==
    /\ daemon[d] = "making"
    /\ daemon' = [daemon EXCEPT ![d] = "loop"] /\ lock' = d
    /\ UNCHANGED <<stop, gate, beat, ended, sentinel, observed, records, pc, snap, faults>>

\* The finally of runDaemon: releaseLock removes the daemon's own lock only.
ReleaseLock(d) == lock' = IF lock = d THEN None ELSE lock

\* fenceUsurped: pid.json names another process.
Usurped(d) == lock \notin {None, Bare, d}

\* The top of the loop: fenced off, asked to restart, stopped, or a round whose
\* first act is a heartbeat.  A round without a task, or without money, is idle.
Leave(d) ==
    /\ daemon[d] = "loop"
    /\ Usurped(d) \/ sentinel \/ stop
    /\ daemon' = [daemon EXCEPT ![d] = "off"] /\ ReleaseLock(d)
    /\ sentinel' = (sentinel /\ Usurped(d))
    \* A stop is met inside runOnce, which writes the heartbeat first.
    /\ beat' = IF Usurped(d) \/ sentinel THEN beat ELSE 0
    /\ ended' = (ended /\ beat' # 0)
    /\ UNCHANGED <<stop, gate, observed, records, pc, snap, faults>>

StartRound(d, idle) ==
    /\ daemon[d] = "loop"
    /\ ~Usurped(d) /\ ~stop
    \* The sentinel could not be deleted: the daemon goes on.
    /\ sentinel => faults < MaxFaults
    /\ faults' = IF sentinel THEN faults + 1 ELSE faults
    /\ daemon' = [daemon EXCEPT ![d] = IF idle THEN "loop" ELSE "work"]
    /\ beat' = 0 /\ ended' = FALSE
    /\ records' = IF observed /\ ~idle THEN "live" ELSE records
    /\ UNCHANGED <<stop, gate, lock, sentinel, observed, pc, snap>>

\* The attempt is recorded in run.db, its execution record is terminal.
AttemptEnds(d) ==
    /\ daemon[d] = "work"
    /\ ended' = TRUE
    /\ records' = IF observed THEN "done" ELSE records
    /\ daemon' = [daemon EXCEPT ![d] = "tail"]
    /\ UNCHANGED <<stop, gate, lock, beat, sentinel, observed, pc, snap, faults>>

\* Verification, merge, report and cooldown follow, without a heartbeat.
RoundEnds(d) ==
    /\ daemon[d] = "tail"
    /\ daemon' = [daemon EXCEPT ![d] = "loop"]
    /\ UNCHANGED <<stop, gate, lock, beat, ended, sentinel, observed, records, pc, snap, faults>>

\* The process dies with its lock and its records in place, or hangs.
Dies(d) ==
    /\ faults < MaxFaults /\ daemon[d] \notin Gone
    /\ daemon' = [daemon EXCEPT ![d] = "off"] /\ faults' = faults + 1
    /\ UNCHANGED <<stop, gate, lock, beat, ended, sentinel, observed, records, pc, snap>>

Wedges(d) ==
    /\ faults < MaxFaults /\ lock = d /\ daemon[d] \in {"loop", "work", "tail"}
    /\ daemon' = [daemon EXCEPT ![d] = "stuck"] /\ faults' = faults + 1
    /\ UNCHANGED <<stop, gate, lock, beat, ended, sentinel, observed, records, pc, snap>>

\* The clock, as far as anybody reads it.
Tick ==
    /\ beat < MaxAge /\ beat' = beat + 1
    /\ UNCHANGED <<stop, gate, lock, daemon, ended, sentinel, observed, records, pc, snap, faults>>

-----------------------------------------------------------------------------
(* The operator. *)

\* A gate whose holder has died is broken after its 60 seconds.
GateFree == \A w \in Watchers : gate = w => pc[w] \notin Inside

\* doPause and doResume write the stop file inside the gate.
Pause ==
    /\ GateFree /\ ~stop /\ stop' = TRUE /\ gate' = None
    /\ UNCHANGED <<lock, daemon, beat, ended, sentinel, observed, records, pc, snap, faults>>

Resume ==
    /\ GateFree /\ stop /\ stop' = FALSE /\ gate' = None
    /\ UNCHANGED <<lock, daemon, beat, ended, sentinel, observed, records, pc, snap, faults>>

\* An operator reconciles the record that a dead daemon left.
Reconcile ==
    /\ records = "live" /\ \A d \in Running : daemon[d] \notin {"work", "stuck"}
    /\ records' = "done"
    /\ UNCHANGED <<stop, gate, lock, daemon, beat, ended, sentinel, observed, pc, snap, faults>>

-----------------------------------------------------------------------------
(* superviseConfig. *)

\* Hand the result over to the step that asked for it.
Return(w, result) ==
    /\ pc' = [pc EXCEPT ![w] = result.then]
    /\ snap' = [snap EXCEPT ![w] = IF result.then = "idle" THEN NoResult ELSE result]

\* The first reads.  A stop file ends the pass here.
Supervise(w, then, observe) ==
    LET start == [NoResult EXCEPT !.then = then, !.observe = observe] IN
    IF stop THEN Return(w, start)
    ELSE /\ pc' = [pc EXCEPT ![w] = "probe"]
         /\ snap' = [snap EXCEPT ![w] = [start EXCEPT !.pid = lock, !.age = beat]]

Patrol(w) ==
    /\ pc[w] = "idle" /\ Supervise(w, "idle", FALSE)
    /\ UNCHANGED <<stop, gate, daemonVars, observed>>

\* What countChildProcesses and the process tree may show; nobody has no children.
Children(d) == IF d \notin Daemons THEN {"none"}
               ELSE IF daemon[d] \in {"work", "tail", "stuck"} THEN {"none", "shell", "engine"}
               ELSE {"none", "shell"}

Hollow(age, kids, known) ==
    age # Missing /\ ((age > Stale /\ kids = "none") \/ (age > HardCap /\ known /\ kids = "shell"))

Classify(alive, age, kids, known) ==
    CASE ~alive -> "launch"
      [] alive /\ Hollow(age, kids, known) -> "reap"
      [] OTHER -> "keep"

LongRoundUnbounded(age, kids, readable) == age # Missing /\ readable /\ (ended \/ kids # "none")

\* The last attempt ended after the heartbeat froze, or a long round goes on.
\* An unreadable run.db blocks nothing.
LongRound(age, kids, readable) ==
    age # Missing /\ readable /\ (ended \/ (kids # "none" /\ age < Grace))

\* Evidence of executions that forbids this action.
Protected(act, lockPresent) ==
    \/ records = "live"
    \/ observed /\ (act = "reap" \/ (lockPresent /\ records = "none"))

\* interventionsBlocked
Blocked == stop \/ records = "live"

\* The probes, each of which may fail, and the decision.
Decide(w, tasklist, counted, kids, readable) ==
    LET s == snap[w]
        \* A lock without pid.json names nobody to probe; that counts as a failed probe.
        pid == IF s.pid = Bare THEN None ELSE s.pid
        alive == pid # None /\ (tasklist => pid \in Running)
        failed == s.pid = Bare \/ (pid # None /\ (~tasklist \/ (alive /\ ~counted)))
        seen == IF ~alive THEN "none" ELSE IF failed THEN "engine" ELSE kids
        wedged == pid # None /\ tasklist /\ alive /\ s.age # Missing /\ s.age > Watchdog
        first == CASE wedged -> "reap"
                   [] ~wedged /\ failed -> "keep"
                   [] OTHER -> Classify(alive, s.age, seen, TRUE)
        spared == first = "reap" /\ LongRound(s.age, seen, readable)
        act == IF spared \/ stop \/ Protected(first, s.pid # None) THEN "keep" ELSE first
        \* What anybody looks at later on; of the age only whether it is over the
        \* hard cap, of the children only together with that.
        over == s.age # Missing /\ s.age > HardCap
        result == IF s.then = "idle" THEN [NoResult EXCEPT !.pid = pid, !.alive = alive, !.act = act]
                  ELSE [s EXCEPT !.pid = pid, !.age = IF over THEN MaxAge ELSE IF @ = Missing THEN @ ELSE 0,
                                 !.alive = alive, !.kids = over /\ seen # "none", !.act = act,
                                 !.clean = ~failed /\ ~spared]
    IN  /\ pc[w] = "probe"
        /\ IF act = "keep" \/ s.observe THEN Return(w, result)
           ELSE /\ pc' = [pc EXCEPT ![w] = IF act = "reap" THEN "reap" ELSE "sweep"]
                /\ snap' = [snap EXCEPT ![w] = result]
        /\ UNCHANGED <<stop, gate, daemonVars, observed>>

EnterGate(w, from, to) ==
    /\ pc[w] = from /\ GateFree
    /\ gate' = w /\ pc' = [pc EXCEPT ![w] = to]
    /\ UNCHANGED <<stop, daemonVars, observed, snap>>

Kill(d) == daemon' = IF d \in Running THEN [daemon EXCEPT ![d] = "reaped"] ELSE daemon

\* reapDaemonTree under the gate: refused, done, or the process survives it and
\* the pass ends with an error.
Reap(w) ==
    LET s == snap[w] IN
    /\ pc[w] = "reaping" /\ gate' = None
    /\ IF Blocked THEN daemon' = daemon /\ Return(w, [s EXCEPT !.act = "keep"])
       ELSE \/ /\ Kill(s.pid)
               /\ pc' = [pc EXCEPT ![w] = "sweep"]
               /\ snap' = [snap EXCEPT ![w].alive = FALSE]
            \/ /\ s.pid \in Running /\ daemon' = daemon
               /\ Return(w, [s EXCEPT !.error = TRUE])
    /\ UNCHANGED <<stop, lock, beat, ended, sentinel, observed, records, faults>>

\* releaseDeadLock, which checks the owner once more, of a bare directory the age.
ReleaseDeadLock ==
    \/ lock \notin Running /\ ~Making /\ lock' = None
    \/ (lock = None \/ lock = Bare \/ lock \in Running) /\ lock' = lock

Sweep(w) ==
    LET s == snap[w] IN
    /\ pc[w] = "sweep"
    /\ IF s.pid # None /\ records # "live" THEN ReleaseDeadLock ELSE lock' = lock
    /\ IF stop THEN Return(w, [s EXCEPT !.act = "keep"])
       ELSE pc' = [pc EXCEPT ![w] = "launch"] /\ snap' = snap
    /\ UNCHANGED <<stop, gate, daemon, beat, ended, sentinel, observed, records, faults>>

\* A pid that no pass still refers to.
FreshPid(d) == d \notin Running /\ d # lock /\ \A w \in Watchers : snap[w].pid # d

\* launchDaemon under the gate; a running daemon may hold its console log.
Launch(w) ==
    LET s == snap[w] IN
    /\ pc[w] = "launching" /\ gate' = None
    /\ IF Blocked
       THEN daemon' = daemon /\ Return(w, [s EXCEPT !.act = IF stop THEN "keep" ELSE @, !.clean = stop])
       ELSE \/ \E d \in Daemons : /\ FreshPid(d)
                                  /\ daemon' = [daemon EXCEPT ![d] = "boot"]
                                  /\ Return(w, s)
            \/ /\ Running # {} \/ \A d \in Daemons : ~FreshPid(d)
               /\ daemon' = daemon /\ Return(w, [s EXCEPT !.clean = FALSE])
    /\ UNCHANGED <<stop, lock, beat, ended, sentinel, observed, records, faults>>

\* The process of a watcher is killed, the gate perhaps in its hands.
WatcherDies(w) ==
    /\ faults < MaxFaults /\ pc[w] # "idle"
    /\ pc' = [pc EXCEPT ![w] = "idle"] /\ snap' = [snap EXCEPT ![w] = NoResult]
    /\ faults' = faults + 1
    /\ UNCHANGED <<stop, gate, lock, daemon, beat, ended, sentinel, observed, records>>

SuperviseStep(w) ==
    \/ \E tasklist, counted, readable \in BOOLEAN :
         \E kids \in Children(snap[w].pid) :
             Decide(w, tasklist, counted, kids, readable)
    \/ EnterGate(w, "reap", "reaping")
    \/ Reap(w)
    \/ Sweep(w)
    \/ EnterGate(w, "launch", "launching")
    \/ Launch(w)

DaemonStep(d) == Boot(d) \/ BootWrites(d) \/ Leave(d) \/ (\E idle \in BOOLEAN : StartRound(d, idle)) \/ AttemptEnds(d) \/ RoundEnds(d)

Environment ==
    \/ \E d \in Daemons : Dies(d) \/ Wedges(d)
    \/ Tick \/ Pause \/ Resume \/ Reconcile

SuperviseNext ==
    \/ \E d \in Daemons : DaemonStep(d)
    \/ \E w \in Watchers : Patrol(w) \/ SuperviseStep(w) \/ WatcherDies(w)
    \/ Environment

SuperviseSpec == Init /\ [][SuperviseNext]_superviseVars

\* The daemon's process runs, and so does the scheduled task behind each watcher;
\* their probes, kills and launches succeed sometimes.  A daemon that is started
\* again and again gets to its first heartbeat before the next pass some time.
Sound(w) == \E readable \in BOOLEAN : \E kids \in Children(snap[w].pid) :
    Decide(w, TRUE, TRUE, kids, readable)

Fairness ==
    /\ WF_superviseVars(Tick)
    /\ \A d \in Daemons : /\ SF_superviseVars(Boot(d))
                          /\ SF_superviseVars(Leave(d) \/ \E idle \in BOOLEAN : StartRound(d, idle))
                          /\ WF_superviseVars(BootWrites(d) \/ AttemptEnds(d) \/ RoundEnds(d))
    /\ \A w \in Watchers : /\ WF_superviseVars(Patrol(w) \/ SuperviseStep(w))
                           /\ SF_superviseVars(Sound(w))
                           /\ SF_superviseVars(EnterGate(w, "reap", "reaping"))
                           /\ SF_superviseVars(EnterGate(w, "launch", "launching"))
                           /\ SF_superviseVars(Reap(w) /\ daemon' # daemon)
                           /\ SF_superviseVars(Launch(w) /\ daemon' # daemon)

FairSuperviseSpec == SuperviseSpec /\ Fairness

-----------------------------------------------------------------------------
(* Whatever the supervisors launch and kill, one daemon at most is in a     *)
(* round: two passes that both saw a dead daemon, or a newcomer beside a    *)
(* daemon that hangs, do not make two writers.                              *)
OneDaemonWorks == \A d, e \in Daemons :
    daemon[d] \in {"work", "tail", "stuck"} /\ daemon[e] \in {"work", "tail", "stuck"} => d = e

\* A watcher starts or kills a daemon.
Intervenes == \E d \in Daemons : daemon'[d] # daemon[d] /\ daemon'[d] \in {"boot", "reaped"}

(* Unless it is paused or observes executions, the heartbeat always comes   *)
(* back: dead and hanging daemons are found, removed and replaced.  Left    *)
(* out are three nobody replaces: the two that hang unseen, before the      *)
(* project's first heartbeat and after an attempt was recorded, which is    *)
(* then newer than the heartbeat and spares the daemon for ever; and one    *)
(* that died between making its lock and writing pid.json, on which every   *)
(* pass says that its probe failed.                                         *)
HangsUnseen == (ended \/ beat = Missing) /\ \E d \in Daemons : daemon[d] = "stuck"
DiedNameless == lock = Bare /\ ~Making
Recovers == []<>(stop \/ observed \/ beat = 0 \/ HangsUnseen \/ DiedNameless)

(* docs/supervision-playbook.md 1.1: an attempt that ended after the        *)
(* heartbeat froze means alive, do not kill.                                *)
LiveNotReaped == [][\A d \in Daemons :
    daemon'[d] = "reaped" /\ daemon[d] # "reaped" => ~ended]_superviseVars

=============================================================================
