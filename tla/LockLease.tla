------------------------------ MODULE LockLease ------------------------------
(***************************************************************************)
(* The local lease of lock.ts (lock/coordinator.ts, lock/internal.ts) on   *)
(* one lock directory, and the Freebuff session that engines/freebuff.ts   *)
(* runs under it.                                                          *)
(*                                                                         *)
(* A lease has two records: the directory with its pid.json and a row in   *)
(* the coordinator's SQLite file.  Acquire, release and the supervisor's   *)
(* cleanup each work inside one BEGIN IMMEDIATE transaction, so only one   *)
(* process at a time is between two of its file operations; but it may die *)
(* there, which rolls the row back and leaves the directory as it is.      *)
(* What an acquisition that failed removes, it removes after its rollback, *)
(* beside whoever acquires then.                                           *)
(*                                                                         *)
(* A process stands for its pid and for the token of its lease: it never   *)
(* has two, since its own live pid refuses it.  Whoever sees a dead owner  *)
(* may take over, but for the marker recovery-required.json.               *)
(***************************************************************************)
EXTENDS Integers, FiniteSets

CONSTANTS
    Proc,         \* processes that use the lock
    MaxFaults,    \* bound: crashes and failing file or database writes
    None

ASSUME LeaseAssumption == None \notin Proc /\ MaxFaults \in Nat

VARIABLES
    dir,          \* the lock directory exists
    owner,        \* the process in its pid.json; None when there is none
    marker,       \* recovery-required.json is in it
    old,          \* its mtime is more than staleMs ago
    row,          \* the process in the coordinator's row
    tx,           \* the process whose transaction is open
    pc,
    backend,      \* owners whose Freebuff backend may be at work
    unmarked,     \* history: a late clean-up has removed a successor's marker
    faults

disk == <<dir, owner, marker, old>>
vars == <<dir, owner, marker, old, row, tx, pc, backend, unmarked, faults>>

InTx == {"made", "found", "written", "removing", "sweeping"}
Cleaning == {"undoing", "failed", "clearing"}
Holding == {"held", "marked", "session", "removing"}

(* One type invariant; the directory's contents exist only with it. *)
TypeOK ==
    /\ dir \in BOOLEAN /\ marker \in BOOLEAN /\ old \in BOOLEAN
    /\ owner \in Proc \cup {None} /\ row \in Proc \cup {None}
    /\ tx \in Proc \cup {None}
    /\ pc \in [Proc -> InTx \cup Holding \cup Cleaning \cup {"idle", "dead"}]
    /\ backend \in SUBSET Proc /\ unmarked \in BOOLEAN
    /\ faults \in 0..MaxFaults
    /\ ~dir => owner = None /\ ~marker /\ ~old
    /\ \A p \in Proc : tx = p <=> pc[p] \in InTx

\* A lock left by a version without the coordinator, by a process that died
\* before it wrote pid.json, or none.
Init ==
    /\ pc \in [Proc -> {"idle", "dead"}]
    /\ \/ dir = FALSE /\ owner = None
       \/ dir = TRUE /\ owner \in {None} \cup {p \in Proc : pc[p] = "dead"}
    /\ marker = FALSE /\ old = FALSE /\ row = None /\ tx = None
    /\ backend = {} /\ unmarked = FALSE /\ faults = 0

-----------------------------------------------------------------------------

Goto(p, from, next) == pc[p] = from /\ pc' = [pc EXCEPT ![p] = next]
Fail == faults < MaxFaults /\ faults' = faults + 1

Alive(p) == p # None /\ pc[p] # "dead"

\* Mutants: an old directory outvotes a live owner; the marker is overlooked;
\* an ownerless directory never counts as stale.
RefusedUnlessOld ==
    marker \/ ((Alive(row) \/ Alive(owner)) /\ ~old) \/ (dir /\ owner = None /\ ~old)
RefusedUnmarked == Alive(row) \/ Alive(owner) \/ (dir /\ owner = None /\ ~old)
RefusedOwnerless == marker \/ Alive(row) \/ Alive(owner) \/ (dir /\ owner = None)

\* recovery required, a live owner in either record, or a directory without a
\* readable owner that is not old yet.
Refused ==
    \/ marker
    \/ Alive(row) \/ Alive(owner)
    \/ dir /\ owner = None /\ ~old

\* rmSync(lockDir, { recursive: true })
RemoveDir == dir' = FALSE /\ owner' = None /\ marker' = FALSE /\ old' = FALSE

-----------------------------------------------------------------------------
(* acquireLockLease *)

\* A refusal, or a busy coordinator, returns null and changes nothing.
AcquireBegin(p) ==
    /\ tx = None /\ tx' = p
    /\ Goto(p, "idle", IF dir THEN "found" ELSE "made")
    /\ ~Refused
    /\ dir' = TRUE /\ UNCHANGED <<owner, marker, old, row, backend, unmarked, faults>>

AcquireWrite(p) ==
    /\ pc[p] \in {"made", "found"} /\ pc' = [pc EXCEPT ![p] = "written"]
    /\ dir /\ owner' = p /\ old' = FALSE
    /\ UNCHANGED <<dir, marker, row, tx, backend, unmarked, faults>>

AcquireCommit(p) ==
    /\ Goto(p, "written", "held")
    /\ row' = p /\ tx' = None
    /\ UNCHANGED <<disk, backend, unmarked, faults>>

\* pid.json cannot be written, be it that somebody's clean-up has removed the directory:
\* what nobody has claimed goes at once, and is looked at again after the rollback by
\* whoever has made the directory.
AcquireWriteFails(p) ==
    /\ pc[p] \in {"made", "found"} /\ tx' = None
    /\ IF dir THEN Fail ELSE UNCHANGED faults
    /\ pc' = [pc EXCEPT ![p] = IF @ = "made" THEN "failed" ELSE "idle"]
    /\ IF owner = None /\ ~marker THEN RemoveDir
                                  ELSE UNCHANGED <<dir, owner, marker>> /\ old' = FALSE
    /\ UNCHANGED <<row, backend, unmarked>>

\* The row cannot be committed: rolled back, with the own generation still to be removed.
AcquireCommitFails(p) ==
    /\ Fail /\ Goto(p, "written", "undoing") /\ tx' = None
    /\ UNCHANGED <<disk, row, backend, unmarked>>

\* removeIfUnclaimed and removeOwnGeneration without a transaction: what they have seen
\* in the directory ...
CleanupLooks(p) ==
    /\ pc' = [pc EXCEPT ![p] =
                 IF \/ pc[p] = "failed" /\ dir /\ owner = None /\ ~marker
                    \/ pc[p] = "undoing" /\ owner = p
                 THEN "clearing" ELSE "idle"]
    /\ pc[p] \in {"failed", "undoing"}
    /\ UNCHANGED <<disk, row, tx, backend, unmarked, faults>>

\* ... and rmSync of whatever is there now.
CleanupClears(p) ==
    /\ Goto(p, "clearing", "idle")
    /\ RemoveDir /\ unmarked' = (unmarked \/ marker)
    /\ UNCHANGED <<row, tx, backend, faults>>

-----------------------------------------------------------------------------
(* releaseLockLease and the supervisor's releaseDeadLockLease *)

\* Only the generation that both records name is removed.
Matches(p) == row = p /\ owner = p

ReleaseBegin(p) ==
    /\ tx = None
    /\ \/ Matches(p) /\ Goto(p, "held", "removing") /\ tx' = p /\ RemoveDir
       \/ ~Matches(p) /\ Goto(p, "held", "idle") /\ UNCHANGED <<disk, tx>>
    /\ UNCHANGED <<row, backend, unmarked, faults>>

ReleaseCommit(p) ==
    /\ Goto(p, "removing", "idle")
    /\ row' = None /\ tx' = None
    /\ UNCHANGED <<disk, backend, unmarked, faults>>

\* rmSync throws before or after it removed what is in the directory; the
\* caller has given up its token and lives on.
ReleaseFails(p) ==
    /\ Fail /\ tx = None /\ Matches(p)
    /\ Goto(p, "held", "idle")
    /\ \/ UNCHANGED disk
       \/ owner' = None /\ marker' = FALSE /\ old' = FALSE /\ UNCHANGED dir
    /\ UNCHANGED <<row, tx, backend, unmarked>>

SweepBegin(p) ==
    /\ tx = None /\ tx' = p
    /\ Goto(p, "idle", "sweeping")
    /\ dir \/ row # None
    /\ ~Refused
    /\ RemoveDir
    /\ UNCHANGED <<row, backend, unmarked, faults>>

SweepCommit(p) ==
    /\ Goto(p, "sweeping", "idle")
    /\ row' = None /\ tx' = None
    /\ UNCHANGED <<disk, backend, unmarked, faults>>

-----------------------------------------------------------------------------
(* A Freebuff run: marker, delegation, result *)

\* The marker is written before the backend hears of the task.
Mark(p) ==
    /\ Goto(p, "held", "marked")
    /\ dir /\ marker' = TRUE /\ old' = FALSE
    /\ UNCHANGED <<dir, owner, row, tx, backend, unmarked, faults>>

\* The marker cannot be written, perhaps for want of the directory: the run throws with
\* the lease retained.
MarkFails(p) ==
    /\ Goto(p, "held", "idle")
    /\ IF dir THEN Fail ELSE UNCHANGED faults
    /\ UNCHANGED <<disk, row, tx, backend, unmarked>>

Delegate(p) ==
    /\ Goto(p, "marked", "session")
    /\ backend' = backend \cup {p}
    /\ UNCHANGED <<disk, row, tx, unmarked, faults>>

\* A terminal result: the backend has ended, the lease is released next.
Confirmed(p) ==
    /\ Goto(p, "session", "held")
    /\ backend' = backend \ {p}
    /\ UNCHANGED <<disk, row, tx, unmarked, faults>>

\* Refused before delegation (route, spawn): nothing runs, nothing to confirm.
NotDelegated(p) ==
    /\ Goto(p, "marked", "held")
    /\ UNCHANGED <<disk, row, tx, backend, unmarked, faults>>

\* Aborted, timed out or failed after delegation: the lease is kept.
Unconfirmed(p) ==
    /\ Goto(p, "session", "idle")
    /\ UNCHANGED <<disk, row, tx, backend, unmarked, faults>>

-----------------------------------------------------------------------------
(* Around the processes *)

\* A process that is done goes away, and its pid with it.
Exit(p) ==
    /\ Goto(p, "idle", "dead")
    /\ UNCHANGED <<disk, row, tx, backend, unmarked, faults>>

Crash(p) ==
    /\ Fail /\ pc[p] \notin {"idle", "dead"}
    /\ pc' = [pc EXCEPT ![p] = "dead"]
    /\ tx' = IF tx = p THEN None ELSE tx
    /\ UNCHANGED <<disk, row, backend, unmarked>>

\* A new process; its pid is in neither record.
Spawn(p) ==
    /\ Goto(p, "dead", "idle")
    /\ p \notin {row, owner} \cup backend
    /\ UNCHANGED <<disk, row, tx, backend, unmarked, faults>>

BackendEnds(p) ==
    /\ p \in backend /\ pc[p] # "session"
    /\ backend' = backend \ {p}
    /\ UNCHANGED <<disk, row, tx, pc, unmarked, faults>>

Age ==
    /\ dir /\ ~old /\ old' = TRUE
    /\ UNCHANGED <<dir, owner, marker, row, tx, pc, backend, unmarked, faults>>

\* The operator vouches for a retained lease: its run is over and its backend
\* has ended.  recoverRetainedLockLease wants the marker and both records to
\* name the token, or the directory removed by hand and the row to name it.
Vouched(p) == pc[p] \in {"idle", "dead"} /\ p \notin backend

OperatorRecovers(p) ==
    /\ tx = None /\ Vouched(p)
    /\ row = p /\ (dir => marker /\ owner = p)
    /\ RemoveDir /\ row' = None
    /\ UNCHANGED <<tx, pc, backend, unmarked, faults>>

OperatorRemoves ==
    /\ tx = None /\ dir /\ marker
    /\ owner # None /\ Vouched(owner)
    /\ RemoveDir
    /\ UNCHANGED <<row, tx, pc, backend, unmarked, faults>>

-----------------------------------------------------------------------------

\* What a process does once it has begun.
LeaseStep(p) ==
    \/ AcquireWrite(p) \/ AcquireCommit(p)
    \/ (~dir /\ AcquireWriteFails(p)) \/ CleanupLooks(p) \/ CleanupClears(p)
    \/ ReleaseBegin(p) \/ ReleaseCommit(p) \/ SweepCommit(p)

Next ==
    \/ \E p \in Proc :
         \/ AcquireBegin(p) \/ LeaseStep(p) \/ SweepBegin(p)
         \/ AcquireWriteFails(p) \/ AcquireCommitFails(p) \/ ReleaseFails(p)
         \/ Mark(p) \/ MarkFails(p) \/ Delegate(p)
         \/ Confirmed(p) \/ NotDelegated(p) \/ Unconfirmed(p)
         \/ Exit(p) \/ Crash(p) \/ Spawn(p) \/ BackendEnds(p)
         \/ OperatorRecovers(p)
    \/ OperatorRemoves \/ Age

Spec == Init /\ [][Next]_vars

\* A process goes on with what it has begun, time passes, the supervisor
\* starts processes again, and those that want the lock keep trying.
FairSpec ==
    /\ Spec
    /\ \A p \in Proc : WF_vars(LeaseStep(p))
    /\ WF_vars(Age)
    /\ WF_vars(\E p \in Proc : Spawn(p))
    /\ SF_vars(\E p \in Proc : AcquireBegin(p))

-----------------------------------------------------------------------------
(* Properties *)

Promise == INSTANCE ExclusiveLock WITH holders <- {p \in Proc : pc[p] \in Holding}

(***************************************************************************)
(* The lease is an exclusive lock: a token is handed out only when nobody  *)
(* alive holds one, whatever died or failed between two file operations.   *)
(***************************************************************************)
IsExclusiveLock == Promise!Spec

(***************************************************************************)
(* The row stands behind a live holder, and the directory is never that of *)
(* another one, so that its release finds its own generation and nobody    *)
(* else's does; the directory itself may be lost to a late clean-up.       *)
(***************************************************************************)
HolderBacked ==
    \A p \in Proc : pc[p] \in {"held", "marked", "session"} => row = p /\ (dir => owner = p)

(***************************************************************************)
(* freebuff.ts: one lease serializes all projects that share a Freebuff    *)
(* session.  No second one is opened while an earlier one may still be at  *)
(* work, although the process that opened it has died, lost track of it or *)
(* been cleaned up after.                                                  *)
(***************************************************************************)
OneSession == Cardinality(backend) <= 1

(***************************************************************************)
(* What the code gives of it: a second session needs that the clean-up of  *)
(* an acquisition that failed, outside its transaction, has removed the    *)
(* marker of another one.                                                  *)
(***************************************************************************)
MarkersHold == unmarked \/ OneSession

(***************************************************************************)
(* A lock that no live process stands behind does not stay for ever: it is *)
(* taken over or removed, unless it waits for the operator.                *)
(***************************************************************************)
Abandoned == dir /\ ~marker /\ ~Alive(owner) /\ ~Alive(row)
AbandonedIsTaken == Abandoned ~> ~Abandoned
=============================================================================
