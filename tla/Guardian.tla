------------------------------ MODULE Guardian ------------------------------
(***************************************************************************)
(* The fleet guardian (guardian/fleet.ts, guardian/incident.ts) on top of  *)
(* Supervision, for one project.  A guardian is a watcher that, after its  *)
(* pass of superviseConfig, takes guardian.lock, looks for an incident in  *)
(* the result and in the new failure events, hands it to codex and checks  *)
(* what codex reports: it may leave restart.request, supervise again and,  *)
(* on codex's word and its own evidence, kill the daemon.                  *)
(*                                                                         *)
(* With an execution that is live, or in a configuration that observes     *)
(* executions, it only asks for a diagnosis and acts on nothing.           *)
(***************************************************************************)
EXTENDS Supervision

CONSTANTS
    MaxEvents,    \* bound: failure events of the project
    Retries       \* PROBE_RETRIES

ASSUME GuardianAssumption ==
    {MaxEvents, Retries} \subseteq Nat

VARIABLES
    fleetLock,    \* the guardian named in guardian.lock; None when there is none
    guardian,     \* locals of each guardian's pass
    cursor,       \* guardian-state.json: the last failure event it is done with
    events,       \* failure events in events.jsonl
    noted,        \* its incident key: what for, and "asked" before or "done" after codex ran
    heard         \* the latest event that some finished pass has dealt with

guardianVars == <<fleetLock, guardian, cursor, noted, events, heard>>
vars == <<superviseVars, guardianVars>>

NoPass == [held |-> FALSE, diagnosis |-> FALSE, kind |-> "calm", upTo |-> 0, pid |-> None,
           force |-> FALSE, tries |-> 0]

GuardianInit ==
    /\ Init
    /\ fleetLock = None /\ guardian = [g \in Watchers |-> NoPass]
    /\ cursor = 0 /\ noted = [by |-> "nobody", kind |-> "calm"] /\ events = 0 /\ heard = 0

\* finally: lock.release() removes a lock with the guardian's own token only.
Finish(g) ==
    /\ pc' = [pc EXCEPT ![g] = "idle"] /\ snap' = [snap EXCEPT ![g] = NoResult]
    /\ guardian' = [guardian EXCEPT ![g] = NoPass]
    /\ fleetLock' = IF fleetLock = g /\ guardian[g].held THEN None ELSE fleetLock

Goto(g, to) == pc' = [pc EXCEPT ![g] = to] /\ snap' = snap

\* cmdSupervise, with --guardian inline or only.
GuardianPatrol(g, only) ==
    /\ pc[g] = "idle" /\ Supervise(g, "lock", only)
    /\ UNCHANGED <<stop, gate, daemonVars, observed, guardianVars>>

-----------------------------------------------------------------------------
(* acquireFleetLock: create, or read the owner, unlink and create again. *)

Own(g) == fleetLock' = g /\ guardian' = [guardian EXCEPT ![g].held = TRUE] /\ Goto(g, "inspect")

OwnerAlive == guardian[fleetLock].held

Acquire(g) ==
    /\ pc[g] = "lock"
    /\ IF stop \/ snap[g].error THEN Finish(g)
       ELSE IF fleetLock = None THEN Own(g)
       ELSE IF OwnerAlive THEN Finish(g)
       ELSE Goto(g, "unlink") /\ UNCHANGED <<fleetLock, guardian>>
    /\ UNCHANGED <<stop, gate, daemonVars, observed, cursor, noted, events, heard>>

UnlinkLock(g) ==
    /\ pc[g] = "unlink"
    /\ IF fleetLock = None THEN Finish(g)
       ELSE fleetLock' = None /\ Goto(g, "open") /\ UNCHANGED guardian
    /\ UNCHANGED <<stop, gate, daemonVars, observed, cursor, noted, events, heard>>

OpenLock(g) ==
    /\ pc[g] = "open"
    /\ IF fleetLock = None THEN Own(g) ELSE Finish(g)
    /\ UNCHANGED <<stop, gate, daemonVars, observed, cursor, noted, events, heard>>

-----------------------------------------------------------------------------
(* One configuration of runFleetGuardian: is there an incident? *)

Live == records = "live"
OverHardCap(s) == s.age # Missing /\ s.age > HardCap
Failures == events > cursor
\* The part of the incident key that decides which incidents are the same.
Kind == CASE Live -> "live" [] ~Live /\ Failures -> "failing" [] OTHER -> "calm"
MaySame == noted.by # "nobody" /\ (noted.kind = Kind \/ (Kind = "calm" /\ noted.by = "done"))

Triggered(s) == s.act # "keep" \/ ~s.clean \/ OverHardCap(s) \/ Failures

DiagnosisWhileLive == Live
DiagnosisOnly == Live \/ observed

\* "same": the state file holds the key of this incident, noted less than an
\* hour ago, or the fingerprint of the supervisor's part of it; the cursor moves
\* on either way.
Inspect(g, due, same) ==
    LET s == snap[g]
        quiet == ~Live /\ ~Triggered(s)
    IN  /\ pc[g] = "inspect" /\ (same => MaySame)
        /\ IF stop \/ (Live /\ ~due) THEN Finish(g) /\ UNCHANGED <<cursor, heard>>
           ELSE IF same \/ quiet
           THEN /\ Finish(g) /\ cursor' = events
                /\ heard' = IF quiet \/ (noted.by = "done" /\ ~Live) THEN events ELSE heard
           ELSE /\ guardian' = [guardian EXCEPT ![g] = [@ EXCEPT
                        !.diagnosis = DiagnosisOnly, !.kind = Kind, !.upTo = events, !.pid = s.pid]]
                /\ pc' = [pc EXCEPT ![g] = "ask"] /\ snap' = [snap EXCEPT ![g] = NoResult]
                /\ UNCHANGED <<fleetLock, cursor, heard>>
        /\ UNCHANGED <<stop, gate, daemonVars, observed, noted, events>>

\* The last looks before codex, and the note that a diagnosis is asked for.
Ask(g) ==
    /\ pc[g] = "ask"
    /\ IF stop \/ (~guardian[g].diagnosis /\ Live)
       THEN Finish(g) /\ UNCHANGED noted
       ELSE /\ Goto(g, "ready")
            /\ noted' = IF guardian[g].diagnosis THEN [by |-> "asked", kind |-> guardian[g].kind] ELSE noted
            /\ UNCHANGED <<fleetLock, guardian>>
    /\ UNCHANGED <<stop, gate, daemonVars, observed, cursor, events, heard>>

StartCodexAnyway(g) ==
    /\ pc[g] = "asking" /\ gate' = None /\ Goto(g, "codex")
    /\ UNCHANGED <<stop, daemonVars, observed, fleetLock, guardian, cursor, noted, events, heard>>

StartCodex(g) ==
    /\ pc[g] = "asking" /\ gate' = None
    /\ IF stop THEN Finish(g) ELSE Goto(g, "codex") /\ UNCHANGED <<fleetLock, guardian>>
    /\ UNCHANGED <<stop, daemonVars, observed, cursor, noted, events, heard>>

\* The state file stays as it was before codex was asked.
Fails(g) == Finish(g) /\ UNCHANGED <<cursor, noted, heard>>

\* The state file after a decision.
Handled(g) == cursor' = guardian[g].upTo /\ noted' = [by |-> "done", kind |-> guardian[g].kind]

\* codex ends: paused meanwhile, timed out or refused, or with a decision.
CodexFails(g) ==
    /\ pc[g] = "codex" /\ Fails(g)
    /\ UNCHANGED <<stop, gate, daemonVars, observed, events>>

\* A diagnosis is filed unless the executions have moved on.
CodexDiagnoses(g) ==
    /\ pc[g] = "codex" /\ ~stop /\ guardian[g].diagnosis
    /\ (guardian[g].kind = "live") = Live
    /\ Handled(g) /\ heard' = IF Live THEN heard ELSE guardian[g].upTo
    /\ Finish(g)
    /\ UNCHANGED <<stop, gate, daemonVars, observed, events>>

\* Whether it asks for restarts matters to the steps that would grant them.
CodexDecides(g) ==
    /\ pc[g] = "codex" /\ ~stop /\ ~guardian[g].diagnosis
    /\ Goto(g, "admit")
    /\ UNCHANGED <<stop, gate, daemonVars, observed, guardianVars>>

-----------------------------------------------------------------------------
(* independentlyVerify and applyAcceptance. *)

\* Under the gate: nothing for a live execution, else restart.request if asked.
Admit(g, restartRequired) ==
    /\ pc[g] = "admitting" /\ gate' = None
    /\ \/ stop /\ Finish(g) /\ UNCHANGED <<sentinel, cursor, noted, heard>>
       \/ /\ ~stop /\ Live
          /\ Handled(g) /\ heard' = guardian[g].upTo
          /\ Finish(g) /\ UNCHANGED sentinel
       \/ /\ ~stop /\ ~Live
          /\ sentinel' = (sentinel \/ restartRequired)
          /\ Goto(g, "verify") /\ UNCHANGED <<fleetLock, guardian, cursor, noted, heard>>
    /\ UNCHANGED <<stop, lock, daemon, beat, ended, observed, records, faults, events>>

\* The project's verify command, then a pass of superviseConfig with its actions.
\* "force": codex asked for it and the verification was accepted.
Verify(g, force) ==
    /\ pc[g] = "verify"
    /\ guardian' = [guardian EXCEPT ![g].force = force /\ guardian[g].pid # None,
                                    ![g].pid = IF force THEN @ ELSE None]
    /\ Supervise(g, "judge", FALSE)
    /\ UNCHANGED <<stop, gate, daemonVars, observed, fleetLock, cursor, noted, events, heard>>

ForceAllowed(g) ==
    LET s == snap[g] IN
    /\ guardian[g].force /\ s.pid = guardian[g].pid
    /\ s.alive /\ s.act = "keep" /\ s.clean
    /\ OverHardCap(s) /\ s.kids

Judge(g) ==
    /\ pc[g] = "judge"
    /\ IF snap[g].error THEN Fails(g)
       ELSE IF ForceAllowed(g) THEN Goto(g, "force") /\ UNCHANGED <<fleetLock, guardian, cursor, noted, heard>>
       ELSE /\ guardian' = [guardian EXCEPT ![g].force = FALSE, ![g].pid = None]
            /\ Goto(g, "accept") /\ UNCHANGED <<fleetLock, cursor, noted, heard>>
    /\ UNCHANGED <<stop, gate, daemonVars, observed, events>>

ForceKill(g) ==
    /\ pc[g] = "forcing" /\ gate' = None
    /\ guardian' = [guardian EXCEPT ![g].force = FALSE, ![g].pid = None]
    /\ \/ /\ (stop \/ snap[g].pid \in Running)   \* paused, or the process survives
          /\ Goto(g, "accept") /\ UNCHANGED <<daemon, sentinel>>
       \/ ~stop /\ Kill(snap[g].pid) /\ sentinel' = FALSE /\ Goto(g, "forced")
    /\ UNCHANGED <<stop, lock, beat, ended, observed, records, faults, fleetLock, cursor, noted, events, heard>>

Relaunch(g) ==
    /\ pc[g] = "forced" /\ Supervise(g, "await", FALSE)
    /\ UNCHANGED <<stop, gate, daemonVars, observed, guardianVars>>

\* waitForHeartbeatProgress decides only how the outcome is reported.
Await(g) ==
    /\ pc[g] = "await"
    /\ IF snap[g].error THEN Goto(g, "accept") ELSE Supervise(g, "accept", FALSE)
    /\ UNCHANGED <<stop, gate, daemonVars, observed, guardianVars>>

SupervisorHealthy(s) == s.alive /\ s.act = "keep" /\ s.clean /\ ~s.error /\ s.age # Missing

Retry(g) ==
    /\ pc[g] = "accept" /\ ~SupervisorHealthy(snap[g]) /\ guardian[g].tries < Retries
    /\ guardian' = [guardian EXCEPT ![g].tries = @ + 1]
    /\ Supervise(g, "accept", FALSE)
    /\ UNCHANGED <<stop, gate, daemonVars, observed, fleetLock, cursor, noted, events, heard>>

\* The audit and the state file; a pause meanwhile leaves both as they were.
Conclude(g) ==
    /\ pc[g] = "accept" /\ (SupervisorHealthy(snap[g]) \/ guardian[g].tries = Retries)
    /\ IF stop THEN Fails(g)
       ELSE Handled(g) /\ heard' = guardian[g].upTo /\ Finish(g)
    /\ UNCHANGED <<stop, gate, daemonVars, observed, events>>

-----------------------------------------------------------------------------
\* A failure event of the project.
FailureEvent ==
    /\ events < MaxEvents /\ events' = events + 1
    /\ UNCHANGED <<superviseVars, fleetLock, guardian, cursor, noted, heard>>

\* A guardian that dies leaves guardian.lock behind.
GuardianDies(g) ==
    /\ WatcherDies(g)
    /\ guardian' = [guardian EXCEPT ![g] = NoPass]
    /\ UNCHANGED <<fleetLock, cursor, noted, events, heard>>

GuardianStep(g) ==
    \/ Acquire(g) \/ UnlinkLock(g) \/ OpenLock(g)
    \/ \E due, same \in BOOLEAN : Inspect(g, due, same)
    \/ Ask(g)
    \/ EnterGate(g, "ready", "asking") /\ UNCHANGED guardianVars
    \/ StartCodex(g) \/ CodexFails(g) \/ CodexDiagnoses(g)
    \/ CodexDecides(g)
    \/ EnterGate(g, "admit", "admitting") /\ UNCHANGED guardianVars
    \/ \E restartRequired \in BOOLEAN : Admit(g, restartRequired)
    \/ \E force \in BOOLEAN : Verify(g, force)
    \/ Judge(g)
    \/ EnterGate(g, "force", "forcing") /\ UNCHANGED guardianVars
    \/ ForceKill(g) \/ Relaunch(g) \/ Await(g) \/ Retry(g) \/ Conclude(g)

ProjectStep ==
    /\ \/ \E d \in Daemons : DaemonStep(d)
       \/ \E w \in Watchers : Patrol(w) \/ SuperviseStep(w)   \* --guardian off
       \/ Environment
    /\ UNCHANGED guardianVars

Next ==
    \/ ProjectStep
    \/ \E g \in Watchers :
         \/ \E only \in BOOLEAN : GuardianPatrol(g, only)
         \/ GuardianStep(g) \/ GuardianDies(g)
    \/ FailureEvent

Spec == GuardianInit /\ [][Next]_vars

-----------------------------------------------------------------------------
(* Once the stop file is written, the supervisor and the guardian start no  *)
(* daemon, kill none, ask codex nothing and request no restart.             *)
Acts == \/ Intervenes
        \/ sentinel' /\ ~sentinel
        \/ \E g \in Watchers : pc[g] # "codex" /\ pc'[g] = "codex"
PausedIsIdle == [][Acts => ~stop]_vars

(* With observed executions nothing is force-killed on codex's word, and a  *)
(* live execution is never killed, by neither of the two.                   *)
ProtectedSpared == [][\A d \in Daemons : daemon'[d] = "reaped" /\ daemon[d] # "reaped" =>
    records # "live" /\ (observed => \A g \in Watchers : pc[g] # "forcing")]_vars

(* fleet.ts: the same incident is deduplicated only after it was handled.   *)
DedupAfterSuccess == [][cursor' > cursor /\ ~Live => heard' = cursor']_vars

=============================================================================
