------------------------------- MODULE Handoff -------------------------------
(***************************************************************************)
(* Starting, pausing and moving one project: the web console               *)
(* (web/server.mjs), the bot (bot/actions.ts), the gated launcher          *)
(* (scripts/pause-gated-spawn.mjs) and the host tool (scripts/host.mjs,    *)
(* scripts/host-state.mjs).                                                *)
(*                                                                         *)
(* All of them meet at the stop file and at the gate beside it.  A backup  *)
(* reads the backlog, the team ledger and the repository one after the     *)
(* other, and what runs meanwhile is known to it by pid files and claims   *)
(* only: a run-once has no pid file, and nobody keeps an operator from     *)
(* resuming the project.                                                   *)
(***************************************************************************)
EXTENDS Naturals, Sequences, FiniteSets

CONSTANTS
    Tasks,
    Workers,      \* processes: daemons, run-onces and GOAL runs
    Consoles,     \* processes that act inside the gate
    None,
    Team,         \* BOOLEAN: the project has a team ledger
    MaxFaults,    \* bound: deaths and failing copies
    MaxOrders     \* bound: commands to the consoles

HandoffAssumption == Team \in BOOLEAN /\ {MaxFaults, MaxOrders} \subseteq Nat

VARIABLES
    stop,         \* the stop file
    parked,       \* the stop file of the project's GitHub integration
    runner,       \* the integration's runner is at work
    gate,         \* who made <stop file>.lockdir, or None
    at, command,  \* of each console
    worker,       \* "off", "up", "idle", "picked", "working", "merged", "reported"
    kind, task,   \* of each worker: "daemon" or "once"; the task it works on
    lock,         \* the pid in daemon.lock
    merged, done, \* tasks in the main branch, tasks the backlog shows as done
    claims,       \* active rows of the team ledger
    draft,        \* the backlog as the console read it before it reopens a line
    step, copy,   \* of the backup: the next of Steps, what is in its partial directory
    kept, home,   \* the published snapshot, and the host restored from it
    faults, orders

gateVars == <<stop, parked, runner, gate, at, command, orders>>
workVars == <<worker, kind, task, lock, merged, done, claims, draft>>
backupVars == <<step, copy, kept, home>>
vars == <<gateVars, workVars, backupVars, faults>>

Nothing == [merged |-> {}, done |-> {}, claims |-> {}]

Init ==
    /\ stop \in BOOLEAN /\ parked \in BOOLEAN /\ runner = FALSE /\ gate = None
    /\ at = [c \in Consoles |-> "idle"] /\ command = [c \in Consoles |-> None]
    /\ worker = [w \in Workers |-> "off"] /\ kind = [w \in Workers |-> None]
    /\ task = [w \in Workers |-> None] /\ lock = None
    /\ merged \in SUBSET Tasks /\ done = merged /\ claims = {} /\ draft = None
    /\ step = 0 /\ copy = Nothing /\ kept = None /\ home = None
    /\ faults = 0 /\ orders = 0

-----------------------------------------------------------------------------
(* Consoles. *)

Alive(w) == worker[w] # "off"
DaemonAlive == \E w \in Workers : lock = w /\ Alive(w)   \* readDaemonLockOwner

\* mkdir of the gate.  One that is old, which is one whose maker has died, is moved
\* away first; with any other the web console fails and the others wait or give up.
FreeAnyway == TRUE
Free == \A c \in Consoles : gate = c => at[c] = "idle"

Go(c, s) == at' = [at EXCEPT ![c] = s]
\* rmdir in the finally clause, whoever made it.
Out(c) == Go(c, "idle") /\ gate' = None

Enter(c, what) ==
    /\ at[c] = "idle" /\ Free /\ orders < MaxOrders /\ orders' = orders + 1
    /\ gate' = c /\ Go(c, "in") /\ command' = [command EXCEPT ![c] = what]
    /\ UNCHANGED <<stop, parked, runner, workVars, backupVars, faults>>

\* doPause, stopDaemon; doResume.
Pause(c) ==
    /\ at[c] = "in" /\ command[c] = "pause"
    /\ stop' = TRUE /\ Out(c)
    /\ UNCHANGED <<parked, runner, command, orders, workVars, backupVars, faults>>
Resume(c) ==
    /\ at[c] = "in" /\ command[c] = "resume"
    /\ stop' = FALSE /\ Out(c)
    /\ UNCHANGED <<parked, runner, command, orders, workVars, backupVars, faults>>

\* pauseForHandoff writes the stop file of the project, then that of the integration.
PauseAll(c) ==
    \/ /\ at[c] = "in" /\ command[c] = "handoff"
       /\ stop' = TRUE /\ Go(c, "second")
       /\ UNCHANGED <<parked, runner, gate, command, orders, workVars, backupVars, faults>>
    \/ /\ at[c] = "second"
       /\ parked' = TRUE /\ Out(c)
       /\ UNCHANGED <<stop, runner, command, orders, workVars, backupVars, faults>>

\* spawnRunOnce, goalRun, spawnPauseGated: a look at the stop file.  spawnDaemonStart
\* removes it instead, unless a daemon is alive.
CheckStop(c) ==
    /\ at[c] = "in" /\ command[c] = "once"
    /\ IF stop THEN Out(c) ELSE Go(c, "spawning") /\ gate' = gate
    /\ UNCHANGED <<stop, parked, runner, command, orders, workVars, backupVars, faults>>
ClearStop(c) ==
    /\ at[c] = "in" /\ command[c] = "start"
    /\ IF DaemonAlive THEN Out(c) /\ stop' = stop
                      ELSE stop' = FALSE /\ Go(c, "spawning") /\ gate' = gate
    /\ UNCHANGED <<parked, runner, command, orders, workVars, backupVars, faults>>

Spawn(c, w) ==
    /\ at[c] = "spawning" /\ ~Alive(w)
    /\ worker' = [worker EXCEPT ![w] = "up"]
    /\ kind' = [kind EXCEPT ![w] = IF command[c] = "once" THEN "once" ELSE "daemon"]
    /\ Out(c)
    /\ UNCHANGED <<stop, parked, runner, command, orders, task, lock, merged, done, claims, draft,
                   backupVars, faults>>

\* The process dies inside the gate, or the spawn fails, which leaves it.
ConsoleDies(c) ==
    /\ at[c] # "idle" /\ faults < MaxFaults /\ faults' = faults + 1
    /\ Go(c, "idle") /\ gate' \in {gate, None}
    /\ UNCHANGED <<stop, parked, runner, command, orders, workVars, backupVars>>

\* reopenBlockedLine reads the backlog and writes it back, without its lock.
ReadBacklog ==
    /\ draft = None /\ orders < MaxOrders /\ orders' = orders + 1
    /\ draft' = done
    /\ UNCHANGED <<stop, parked, runner, gate, at, command, worker, kind, task, lock, merged,
                   done, claims, backupVars, faults>>
WriteBacklog ==
    /\ draft # None /\ done' = draft /\ draft' = None
    /\ UNCHANGED <<gateVars, worker, kind, task, lock, merged, claims, backupVars, faults>>

-----------------------------------------------------------------------------
(* Workers: what others see of a round of the scheduler (TeamState, Supervision). *)

Turn(w, s) == worker' = [worker EXCEPT ![w] = s]
Off(w) == Turn(w, "off") /\ lock' = IF lock = w THEN None ELSE lock

Boot(w) ==
    /\ worker[w] = "up"
    /\ IF kind[w] = "daemon"
       THEN IF DaemonAlive THEN Turn(w, "off") /\ lock' = lock ELSE Turn(w, "idle") /\ lock' = w
       ELSE Turn(w, "idle") /\ lock' = lock
    /\ UNCHANGED <<gateVars, kind, task, merged, done, claims, draft, backupVars, faults>>

\* A stop file ends a daemon and a run-once; a task that is not done is picked.
Leave(w) ==
    /\ worker[w] = "idle" /\ (stop \/ done = Tasks) /\ Off(w)
    /\ UNCHANGED <<gateVars, kind, task, merged, done, claims, draft, backupVars, faults>>
Pick(w) ==
    /\ worker[w] = "idle" /\ ~stop
    /\ \E t \in Tasks \ done : task' = [task EXCEPT ![w] = t]
    /\ Turn(w, "picked")
    /\ UNCHANGED <<gateVars, kind, lock, merged, done, claims, draft, backupVars, faults>>

\* After the preflight: the claim, which another one's refuses.
Claim(w) ==
    /\ worker[w] = "picked"
    /\ IF Team /\ task[w] \in claims
       THEN Turn(w, "idle") /\ claims' = claims
       ELSE Turn(w, "working") /\ claims' = IF Team THEN claims \cup {task[w]} ELSE claims
    /\ UNCHANGED <<gateVars, kind, task, lock, merged, done, draft, backupVars, faults>>

Merge(w) ==
    /\ worker[w] = "working" /\ Turn(w, "merged") /\ merged' = merged \cup {task[w]}
    /\ UNCHANGED <<gateVars, kind, task, lock, done, claims, draft, backupVars, faults>>
Report(w) ==
    /\ worker[w] = "merged" /\ Turn(w, "reported") /\ done' = done \cup {task[w]}
    /\ UNCHANGED <<gateVars, kind, task, lock, merged, claims, draft, backupVars, faults>>

\* The round ends, be it with nothing merged.  A run-once has only one.
Release(w) ==
    /\ worker[w] \in {"working", "reported"}
    /\ claims' = claims \ {task[w]}
    /\ IF kind[w] = "once" THEN Off(w) ELSE Turn(w, "idle") /\ lock' = lock
    /\ UNCHANGED <<gateVars, kind, task, merged, done, draft, backupVars, faults>>

WorkerDies(w) ==
    /\ Alive(w) /\ faults < MaxFaults /\ faults' = faults + 1 /\ Turn(w, "off")
    /\ UNCHANGED <<gateVars, kind, task, lock, merged, done, claims, draft, backupVars>>

\* The integration's runner works in its own data directory and on branches of its own.
RunnerTurns ==
    /\ runner \/ ~parked
    /\ runner' = ~runner
    /\ UNCHANGED <<stop, parked, gate, at, command, orders, workVars, backupVars, faults>>

-----------------------------------------------------------------------------
(* Backup and restore. *)

\* assertQuiescent and assertIdleData: the stop file, and no pid file of a live process.
Quiescent == stop /\ ~DaemonAlive
IntegrationIdle == parked /\ ~runner

\* backupState from top to bottom; nothing else writes to its partial directory.
Steps == <<"quiet", "integration", "backlog", "claims", "ledger", "bundle",
           "quiet", "integration", "publish">>

At(s) == step > 0 /\ Steps[step] = s
Goes(new) == step' = step + 1 /\ copy' = new /\ UNCHANGED <<gateVars, workVars, kept, home, faults>>

BeginBackup == step = 0 /\ kept = None /\ Goes(Nothing)   \* the destination must not exist
CheckQuiet == At("quiet") /\ Quiescent /\ Goes(copy)
CheckIntegration == At("integration") /\ IntegrationIdle /\ Goes(copy)
CopyBacklog == At("backlog") /\ Goes([copy EXCEPT !.done = done])
CheckClaims == At("claims") /\ claims = {} /\ Goes(copy)
CopyLedger == At("ledger") /\ Goes([copy EXCEPT !.claims = claims])
CopyBundle == At("bundle") /\ Goes([copy EXCEPT !.merged = merged])

\* The rename; or a check failed, and FAILED.json stays in the partial directory.
Ends(snapshot) == step' = 0 /\ copy' = Nothing /\ kept' = snapshot
                  /\ UNCHANGED <<gateVars, workVars, home, faults>>
Publish == At("publish") /\ Ends([copy |-> copy, intact |-> TRUE])
BackupFails ==
    /\ \/ At("quiet") /\ ~Quiescent
       \/ At("integration") /\ ~IntegrationIdle
       \/ At("claims") /\ claims # {}
    /\ Ends(kept)

\* The snapshot loses its bundle on the way to the other host.
Damaged ==
    /\ kept # None /\ faults < MaxFaults /\ faults' = faults + 1
    /\ kept' = [copy |-> [kept.copy EXCEPT !.merged = {}], intact |-> FALSE]
    /\ UNCHANGED <<gateVars, workVars, step, copy, home>>

\* restoreState verifies the inventory of the snapshot and stages the new host, which
\* appears by a rename: paused, its integrations disabled.
Restore ==
    /\ kept # None /\ home = None /\ kept.intact
    /\ home' = kept.copy
    /\ UNCHANGED <<gateVars, workVars, step, copy, kept, faults>>

-----------------------------------------------------------------------------
Commands ==
    \E c \in Consoles :
        \/ \E what \in {"pause", "resume", "handoff", "once", "start"} : Enter(c, what)
        \/ Pause(c) \/ Resume(c) \/ PauseAll(c) \/ CheckStop(c) \/ ClearStop(c)
        \/ (\E w \in Workers : Spawn(c, w)) \/ ConsoleDies(c)
Works ==
    \E w \in Workers :
        \/ Boot(w) \/ Leave(w) \/ Pick(w) \/ Claim(w) \/ Merge(w) \/ Report(w) \/ Release(w)
        \/ WorkerDies(w)
Moves ==
    \/ BeginBackup \/ CheckQuiet \/ CheckIntegration \/ CopyBacklog \/ CheckClaims
    \/ CopyLedger \/ CopyBundle \/ Publish \/ BackupFails \/ Damaged \/ Restore

Next == Commands \/ ReadBacklog \/ WriteBacklog \/ Works \/ RunnerTurns \/ Moves

Spec == Init /\ [][Next]_vars

-----------------------------------------------------------------------------
\* What the backlog of a restored host shows as done is in its repository: whatever ran
\* during the backup, was resumed in the middle of it, or reopened beside it, and
\* whatever became of the snapshot since (backupState, restoreState).
RestoredIsMerged == home # None => home.done \subseteq home.merged

\* While the project is paused no worker starts: a start comes before the pause, or
\* lifts it first, whoever dies in the middle of one (withPauseGate, withWebPauseGate,
\* lockFor).
PauseHolds ==
    [][\A w \in Workers : ~Alive(w) /\ worker'[w] = "up" => ~stop]_vars

\* A project changes hosts with nothing at work and with everything that is done.
HandoverIsSafe == []RestoredIsMerged /\ PauseHolds
=============================================================================
