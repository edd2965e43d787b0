----------------------------- MODULE LongHorizon -----------------------------
(***************************************************************************)
(* One run of backends/long-horizon.ts with its files (backends/store.ts): *)
(* the Plan - Act - Verify - Checkpoint loop that a driver process walks,  *)
(* the operators who pause, abort or approve it from another process, and  *)
(* the crashes and failing writes after which `resume' starts again from   *)
(* what the disk holds.                                                    *)
(*                                                                         *)
(* A driver keeps the whole run state in memory from the first read to the *)
(* end of its drive and writes all of it at each save; an operator reads,  *)
(* looks at drive.lock and writes in three steps.  Every await of the loop *)
(* (manager, executor, auditor, escalation) and every file write is a step *)
(* of its own.  drive.lock is the lease of lock.ts, taken here as a lock   *)
(* that a live driver excludes others from and a dead one does not.        *)
(***************************************************************************)
EXTENDS Integers, FiniteSets

CONSTANTS
    Driver,       \* processes that run `adng run start' or `adng run resume'
    Operator,     \* processes that run `adng run interrupt' or `approve'
    High,         \* steps that classifyStepRisk calls high
    Fp,           \* failure fingerprints
    MaxRounds,    \* state.maxRounds
    SameLimit,    \* maxSameFingerprint
    MaxOrders,    \* bound: instructions that operators give
    MaxFaults,    \* bound: crashes and internal errors
    None

ASSUME HorizonAssumption ==
    /\ MaxRounds \in Nat \ {0} /\ SameLimit \in Nat \ {0}
    /\ MaxOrders \in Nat /\ MaxFaults \in Nat
    /\ None \notin Driver \cup High \cup Fp
    /\ High \cap {"low", "claim"} = {}

VARIABLES
    disk,         \* state.json
    checkpoints,  \* sequence numbers of the files in checkpoints/
    interrupt,    \* interrupt.json
    lock,         \* the live owner of drive.lock; a dead one excludes nobody
    pc, mem,      \* where a driver is; its copy of the run state
    step,         \* the bounded step of its round
    to,           \* the phase it is about to park in
    op,           \* an operator's instruction under way
    orders, faults,
    \* history: high-risk steps an operator approved; fingerprints escalated
    granted, consulted

files == <<disk, checkpoints, interrupt>>
local == <<mem, step, to>>
history == <<granted, consulted>>
vars == <<disk, checkpoints, interrupt, lock, pc, mem, step, to, op,
          orders, faults, granted, consulted>>

Terminal == {"complete", "cancelled", "failed"}
Phase == {"none", "running", "interrupted", "needs-approval", "blocked"} \cup Terminal
NoPending == [step |-> None, approved |-> FALSE]
NoFailure == [fp |-> None, n |-> 0]

\* The state that start() writes; before it there is no run.
Fresh == [phase |-> "running", rounds |-> 0, verified |-> 0,
          pending |-> NoPending, same |-> NoFailure, escalated |-> {}]
NoRun == [Fresh EXCEPT !.phase = "none"]
NoOrder == [at |-> "idle", kind |-> None, seen |-> NoRun]

RunState ==
    [phase: Phase, rounds: 0..MaxRounds, verified: 0..MaxRounds,
     pending: [step: High \cup {None}, approved: BOOLEAN],
     same: [fp: Fp \cup {None}, n: 0..MaxRounds], escalated: SUBSET Fp]

Driving == {"begin", "loop", "executing", "escalating", "saving", "parking", "parked"}

(***************************************************************************)
(* One type invariant.  Its content: a driver's counters never leave the   *)
(* round bound, whatever mixture of stale writes and resumes it starts     *)
(* from.                                                                   *)
(***************************************************************************)
TypeOK ==
    /\ disk \in RunState
    /\ checkpoints \in SUBSET Nat
    /\ interrupt \in {None, "pause", "abort"}
    /\ lock \in Driver \cup {None}
    /\ pc \in [Driver -> Driving \cup {"idle", "acquire"}]
    /\ mem \in [Driver -> RunState]
    /\ step \in [Driver -> High \cup {None, "low", "claim"}]
    /\ to \in [Driver -> Phase]
    /\ op \in [Operator ->
                 [at: {"idle", "check", "drop", "write"},
                  kind: {None, "pause", "abort", "approve"}, seen: RunState]]
    /\ orders \in 0..MaxOrders /\ faults \in 0..MaxFaults
    /\ granted \in SUBSET High
    /\ consulted \in SUBSET Fp

Init ==
    /\ disk = NoRun /\ checkpoints = {} /\ interrupt = None /\ lock = None
    /\ pc = [d \in Driver |-> "idle"] /\ mem = [d \in Driver |-> NoRun]
    /\ step = [d \in Driver |-> None] /\ to = [d \in Driver |-> "none"]
    /\ op = [o \in Operator |-> NoOrder]
    /\ orders = 0 /\ faults = 0
    /\ granted = {} /\ consulted = {}

-----------------------------------------------------------------------------
(* Starting, resuming and the drive lock *)

Goto(d, from, next) == pc[d] = from /\ pc' = [pc EXCEPT ![d] = next]
Keep(d, state) == mem' = [mem EXCEPT ![d] = state]
Choose(d, s) == step' = [step EXCEPT ![d] = s]

\* A drive ends: nothing of it stays in memory.
Forget(d) == Keep(d, NoRun) /\ Choose(d, None) /\ to' = [to EXCEPT ![d] = "none"]

\* The driver will park in a phase; the write is the next step.
ParkIn(d, from, phase) ==
    Goto(d, from, "parking") /\ to' = [to EXCEPT ![d] = phase]

\* start: the run directory must be new; state.json is on disk before drive().
Start(d) ==
    /\ Goto(d, "idle", "acquire")
    /\ disk.phase = "none" /\ disk' = Fresh
    /\ UNCHANGED <<checkpoints, interrupt, lock, local, op, orders, faults, history>>

\* resume: a terminal run is refused, on what the disk says before the lock.
Resume(d) ==
    /\ Goto(d, "idle", "acquire")
    /\ disk.phase \notin {"none"} \cup Terminal
    /\ UNCHANGED <<files, lock, local, op, orders, faults, history>>

Acquire(d) ==
    /\ IF lock \in Driver
         THEN Goto(d, "acquire", "idle") /\ UNCHANGED lock
         ELSE Goto(d, "acquire", "begin") /\ lock' = d
    /\ UNCHANGED <<files, local, op, orders, faults, history>>

\* The only read of state.json in a drive.
Begin(d) ==
    /\ Goto(d, "begin", "saving")
    /\ Keep(d, [disk EXCEPT !.phase = "running"])
    /\ UNCHANGED <<files, lock, step, to, op, orders, faults, history>>

\* saveState, then the next turn of the loop.
Save(d) ==
    /\ Goto(d, "saving", "loop")
    /\ disk' = mem[d]
    /\ UNCHANGED <<checkpoints, interrupt, lock, local, op, orders, faults, history>>

Park(d) ==
    /\ Goto(d, "parking", "parked")
    /\ disk' = [mem[d] EXCEPT !.phase = to[d]] /\ Forget(d)
    /\ UNCHANGED <<checkpoints, interrupt, lock, op, orders, faults, history>>

Release(d) ==
    /\ Goto(d, "parked", "idle")
    /\ lock' = None
    /\ UNCHANGED <<files, local, op, orders, faults, history>>

-----------------------------------------------------------------------------
(* The loop: what it looks at before it asks for a step *)

\* takeInterrupt removes the file before the phase it asks for is saved.
TakeInterrupt(d) ==
    /\ interrupt # None /\ interrupt' = None
    /\ ParkIn(d, "loop", IF interrupt = "abort" THEN "cancelled" ELSE "interrupted")
    /\ UNCHANGED <<disk, checkpoints, lock, mem, step, op, orders, faults, history>>

\* The stop file, or the caller's cancellation.
Stopped(d) ==
    /\ interrupt = None /\ ParkIn(d, "loop", "interrupted")
    /\ UNCHANGED <<files, lock, mem, step, op, orders, faults, history>>

AwaitsApproval(s) == s.pending.step # None /\ ~s.pending.approved
OutOfRounds(s) == s.rounds >= MaxRounds

\* Mutant: the gate saves and goes round instead of parking.
GateSpins(d) ==
    /\ interrupt = None
    /\ AwaitsApproval(mem[d]) \/ OutOfRounds(mem[d])
    /\ Goto(d, "loop", "saving")
    /\ UNCHANGED <<files, lock, local, op, orders, faults, history>>

Gate(d) ==
    /\ interrupt = None
    /\ \/ AwaitsApproval(mem[d]) /\ ParkIn(d, "loop", "needs-approval")
       \/ /\ ~AwaitsApproval(mem[d]) /\ OutOfRounds(mem[d])
          /\ ParkIn(d, "loop", "blocked")
    /\ UNCHANGED <<files, lock, mem, step, op, orders, faults, history>>

MayGoOn(d) ==
    pc[d] = "loop" /\ interrupt = None /\ ~AwaitsApproval(mem[d]) /\ ~OutOfRounds(mem[d])

NextRound(s) == [s EXCEPT !.rounds = @ + 1]

\* An approved step runs as it was approved; the approval is consumed in memory.
TakeApproved(d) ==
    /\ MayGoOn(d) /\ mem[d].pending.approved
    /\ Goto(d, "loop", "executing")
    /\ Choose(d, mem[d].pending.step)
    /\ Keep(d, [NextRound(mem[d]) EXCEPT !.pending = NoPending])
    /\ UNCHANGED <<files, lock, to, op, orders, faults, history>>

-----------------------------------------------------------------------------
(* The awaits: manager, executor, auditor, escalation.  Nothing is read or  *)
(* written while the manager answers, nor between executor and auditor.     *)

AsksManager(d) == MayGoOn(d) /\ ~mem[d].pending.approved

ManagerBlocks(d) ==
    /\ AsksManager(d) /\ ParkIn(d, "loop", "blocked")
    /\ UNCHANGED <<files, lock, mem, step, op, orders, faults, history>>

ManagerClaims(d) ==
    /\ AsksManager(d) /\ Goto(d, "loop", "executing")
    /\ Choose(d, "claim") /\ Keep(d, NextRound(mem[d]))
    /\ UNCHANGED <<files, lock, to, op, orders, faults, history>>

\* A high-risk step becomes a pending approval and costs no round.
GatedNever(s) == FALSE   \* mutant: dropped guard
Gated(s) == s \in High

ManagerProposes(d, s) ==
    /\ AsksManager(d)
    /\ \/ /\ Gated(s) /\ Goto(d, "loop", "loop")
          /\ Keep(d, [mem[d] EXCEPT !.pending = [step |-> s, approved |-> FALSE]])
          /\ UNCHANGED step
       \/ /\ ~Gated(s) /\ Goto(d, "loop", "executing")
          /\ Choose(d, s) /\ Keep(d, NextRound(mem[d]))
    /\ UNCHANGED <<files, lock, to, op, orders, faults, history>>

\* Whatever the executor returned or threw is evidence for the auditor, no
\* more; a claim goes to the auditor without an execution.
\* The checkpoint is named after the number of verified steps, this one included.
CheckpointSeqBefore(s) == s.verified   \* mutant: counted too early
CheckpointSeq(s) == s.verified + 1

AuditVerifies(d, achieved) ==
    /\ Keep(d, [mem[d] EXCEPT !.verified = @ + 1, !.same = NoFailure])
    /\ checkpoints' = checkpoints \cup {CheckpointSeq(mem[d])}
    /\ IF achieved THEN ParkIn(d, "executing", "complete")
                   ELSE Goto(d, "executing", "saving") /\ UNCHANGED to
    /\ Choose(d, None)
    /\ UNCHANGED <<disk, interrupt, lock, op, orders, faults, history>>

Failed(s, f) ==
    [s EXCEPT !.same = [fp |-> f, n |-> IF @.fp = f THEN @.n + 1 ELSE 1]]

\* A rejected or blocked audit; a fingerprint at its limit is escalated once.
AuditRejects(d, f) ==
    LET s == Failed(mem[d], f) IN
    /\ \/ /\ s.same.n < SameLimit
          /\ Goto(d, "executing", "saving") /\ Keep(d, s) /\ UNCHANGED <<to, consulted>>
       \/ /\ s.same.n >= SameLimit /\ f \in s.escalated
          /\ ParkIn(d, "executing", "blocked") /\ Keep(d, s) /\ UNCHANGED consulted
       \/ /\ s.same.n >= SameLimit /\ f \notin s.escalated
          /\ Goto(d, "executing", "escalating")
          /\ Keep(d, [s EXCEPT !.escalated = @ \cup {f}])
          /\ consulted' = consulted \cup {f}
          /\ UNCHANGED to
    /\ Choose(d, None)
    /\ UNCHANGED <<files, lock, op, orders, faults, granted>>

EscalationReturns(d, helped) ==
    /\ IF helped
         THEN Goto(d, "escalating", "saving") /\ UNCHANGED to
              /\ Keep(d, [mem[d] EXCEPT !.same = NoFailure])
         ELSE ParkIn(d, "escalating", "blocked") /\ UNCHANGED mem
    /\ UNCHANGED <<files, lock, step, op, orders, faults, history>>

-----------------------------------------------------------------------------
(* What goes wrong *)

\* A throwing read or write ends the drive: the phase is set on a fresh read,
\* unless that fails as well.  The awaits have a catch of their own, but what
\* follows an audit is a row of attempts.jsonl and a file in checkpoints/.
MayThrow == Driving \ {"escalating"}

InternalError(d, recorded) ==
    /\ faults < MaxFaults /\ faults' = faults + 1
    /\ pc[d] \in MayThrow /\ pc' = [pc EXCEPT ![d] = "parked"] /\ Forget(d)
    /\ disk' = IF recorded THEN [disk EXCEPT !.phase = "failed"] ELSE disk
    /\ UNCHANGED <<checkpoints, interrupt, lock, op, orders, history>>

Crash(d) ==
    /\ faults < MaxFaults /\ faults' = faults + 1
    /\ pc[d] # "idle" /\ pc' = [pc EXCEPT ![d] = "idle"] /\ Forget(d)
    /\ lock' = IF lock = d THEN None ELSE lock
    /\ UNCHANGED <<files, op, orders, history>>

-----------------------------------------------------------------------------
(* interrupt(): an operator's process, which never takes the drive lock *)

OrderAt(o, from, next) == op[o].at = from /\ op' = [op EXCEPT ![o] = next]

\* An approval needs a step that waits for one.
Approvable(s) == s.phase = "needs-approval" /\ AwaitsApproval(s)

OperatorReads(o, kind) ==
    /\ orders < MaxOrders /\ orders' = orders + 1
    /\ disk.phase # "none"
    /\ kind = "approve" => Approvable(disk)
    /\ OrderAt(o, "idle", [at |-> IF kind = "approve" THEN "write" ELSE "check",
                           kind |-> kind, seen |-> disk])
    /\ UNCHANGED <<files, lock, pc, local, faults, history>>

\* A lock whose owner is not dead: leave a file for the driver.  Otherwise
\* write the state, unless the run had ended when it was read.
OperatorChecks(o) ==
    /\ \/ /\ lock \in Driver
          /\ OrderAt(o, "check", [op[o] EXCEPT !.at = "drop"])
       \/ /\ lock \notin Driver /\ op[o].seen.phase \in Terminal
          /\ OrderAt(o, "check", NoOrder)
       \/ /\ lock \notin Driver /\ op[o].seen.phase \notin Terminal
          /\ OrderAt(o, "check", [op[o] EXCEPT !.at = "write"])
    /\ UNCHANGED <<files, lock, pc, local, orders, faults, history>>

OperatorDrops(o) ==
    /\ OrderAt(o, "drop", NoOrder)
    /\ interrupt' = op[o].kind
    /\ UNCHANGED <<disk, checkpoints, lock, pc, local, orders, faults, history>>

Instructed(s, kind) ==
    CASE kind = "approve" -> [s EXCEPT !.pending.approved = TRUE]
      [] kind = "abort"   -> [s EXCEPT !.phase = "cancelled"]
      [] kind = "pause"   -> [s EXCEPT !.phase = "interrupted"]

\* The state that was read goes back, with the instruction in it.
OperatorWrites(o) ==
    /\ OrderAt(o, "write", NoOrder)
    /\ disk' = Instructed(op[o].seen, op[o].kind)
    /\ granted' = IF op[o].kind = "approve"
                    THEN granted \cup {op[o].seen.pending.step} ELSE granted
    /\ UNCHANGED <<checkpoints, interrupt, lock, pc, local, orders, faults, consulted>>

-----------------------------------------------------------------------------

DriverStep(d) ==
    \/ Acquire(d) \/ Begin(d) \/ Save(d) \/ Park(d) \/ Release(d)
    \/ TakeInterrupt(d) \/ Gate(d) \/ TakeApproved(d)
    \/ ManagerBlocks(d) \/ ManagerClaims(d)
    \/ \E s \in High \cup {"low"} : ManagerProposes(d, s)
    \/ \E achieved \in BOOLEAN : AuditVerifies(d, achieved)
    \/ \E f \in Fp : AuditRejects(d, f)
    \/ \E helped \in BOOLEAN : EscalationReturns(d, helped)

OperatorStep(o) ==
    \/ \E kind \in {"pause", "abort", "approve"} : OperatorReads(o, kind)
    \/ OperatorChecks(o) \/ OperatorDrops(o) \/ OperatorWrites(o)

Next ==
    \/ \E d \in Driver :
         \/ Start(d) \/ Resume(d) \/ DriverStep(d) \/ Stopped(d)
         \/ \E recorded \in BOOLEAN : InternalError(d, recorded)
         \/ Crash(d)
    \/ \E o \in Operator : OperatorStep(o)

Spec == Init /\ [][Next]_vars

\* A driver that runs goes on: its awaits have timeouts.  Nobody has to start
\* or resume a run, and nothing is assumed of operators.
FairSpec == Spec /\ \A d \in Driver : WF_vars(DriverStep(d))

-----------------------------------------------------------------------------
(* Properties *)

(***************************************************************************)
(* The executor is never handed a high-risk step that no operator approved *)
(* (the gate, the approval that is bound to the step it was asked for, and *)
(* drivers that restart from whatever an operator's late write left).      *)
(***************************************************************************)
HighRiskApproved ==
    \A d \in Driver :
      pc[d] = "executing" /\ step[d] \in High => step[d] \in granted

(***************************************************************************)
(* Every verified step that state.json counts has its checkpoint file: the *)
(* checkpoint is written before the save that counts it, and no crash,     *)
(* failed write or stale write of an operator can turn the order round.    *)
(***************************************************************************)
VerifiedHasCheckpoint == 1..disk.verified \subseteq checkpoints

(***************************************************************************)
(* A run is complete on disk only with a verified step behind it, and it   *)
(* never has a step waiting for approval: completion comes from an audit,  *)
(* not from a claim, an operator or a resumed copy of older state.         *)
(***************************************************************************)
CompleteIsAudited ==
    disk.phase = "complete" => disk.verified > 0 /\ disk.pending = NoPending

\* What state.json says of the progress of a run is backed by what was written and
\* audited before it, after whatever crash, resume or late write of an operator.
ProgressIsBacked == VerifiedHasCheckpoint /\ CompleteIsAudited

(***************************************************************************)
(* A drive ends: every round, gate, escalation and interrupt leads to a    *)
(* park (or the driver dies), so the process never loops on a run.         *)
(***************************************************************************)
DriveEnds == \A d \in Driver : pc[d] \in Driving ~> pc[d] = "idle"

(***************************************************************************)
(* One fingerprint is escalated at most once per run (the comment on       *)
(* FailureRecordSchema.escalated, types.ts:79).  The flag reaches the disk *)
(* only after the escalation has returned.                                 *)
(***************************************************************************)
EscalatedOnce ==
    [][\A d \in Driver :
         pc[d] = "executing" /\ pc'[d] = "escalating"
         => mem'[d].escalated \cap consulted \subseteq mem[d].escalated]_vars
=============================================================================
