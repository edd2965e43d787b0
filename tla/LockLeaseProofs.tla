--------------------------- MODULE LockLeaseProofs ---------------------------
(* Proofs about LockLease: exclusion and the quarantine, for any processes;  *)
(* and about the machines checked beside it, the daemon with its supervisors *)
(* and the supervised watcher.                                               *)
EXTENDS MCDaemons, FiniteSetTheorems, TLAPS

(***************************************************************************)
(* What a process between two steps relies on.  The row names whoever      *)
(* holds the lock until the release commits, so two holders would be one;  *)
(* during an acquisition it names nobody alive.  The directory may be gone *)
(* at any time, but it is never that of another one.                       *)
(***************************************************************************)
Backed(p) ==
    /\ pc[p] \in {"held", "marked", "session"} => row = p /\ (dir => owner = p)
    /\ pc[p] \in {"marked", "session"} => unmarked \/ (dir /\ marker)
    /\ pc[p] \in {"held", "marked", "removing"} => p \notin backend
    /\ pc[p] = "removing" => ~dir /\ row = p
    /\ pc[p] \in {"made", "found"} => ~marker /\ ~Alive(row) /\ ~Alive(owner)
    /\ pc[p] = "written" => ~marker /\ ~Alive(row) /\ (dir => owner = p)
    /\ pc[p] = "sweeping" => ~dir /\ ~Alive(row)

\* A backend that may be at work is quarantined under its owner's name, unless a late
\* clean-up has removed a marker; while its owner lives, the row says so all the same.
Quarantined ==
    /\ unmarked \/ \A q \in backend : dir /\ marker /\ Matches(q)
    /\ \A q \in backend : Alive(q) => row = q

IInv == TypeOK /\ (\A p \in Proc : Backed(p)) /\ Quarantined

LEMMA InitBacked == Init => IInv
<1> SUFFICES ASSUME Init PROVE IInv
  OBVIOUS
<1>1. \A p \in Proc : pc[p] \in {"idle", "dead"}
  BY DEF Init
<1>2. pc \in [Proc -> InTx \cup Holding \cup Cleaning \cup {"idle", "dead"}]
  BY DEF Init
<1>3. \A p \in Proc : tx = p <=> pc[p] \in InTx
  BY <1>1, LeaseAssumption DEF Init, InTx
<1>4. TypeOK
  <2>1. /\ dir \in BOOLEAN /\ marker \in BOOLEAN /\ old \in BOOLEAN
        /\ owner \in Proc \cup {None} /\ row \in Proc \cup {None}
    BY DEF Init
  <2>2. ~dir => owner = None /\ ~marker /\ ~old
    BY DEF Init
  <2>3. tx \in Proc \cup {None} /\ backend \in SUBSET Proc /\ faults \in 0..MaxFaults
    BY LeaseAssumption DEF Init
  <2>4. unmarked \in BOOLEAN
    BY DEF Init
  <2> QED
    BY <1>2, <1>3, <2>1, <2>2, <2>3, <2>4 DEF TypeOK
<1>5. \A p \in Proc : Backed(p)
  BY <1>1 DEF Backed
<1> QED
  BY <1>4, <1>5 DEF Init, IInv, Quarantined

LEMMA ProcessKeeps ==
  ASSUME IInv, NEW p \in Proc,
         \/ AcquireBegin(p) \/ LeaseStep(p) \/ SweepBegin(p)
         \/ AcquireWriteFails(p) \/ AcquireCommitFails(p) \/ ReleaseFails(p)
         \/ Mark(p) \/ MarkFails(p) \/ Delegate(p)
         \/ Confirmed(p) \/ NotDelegated(p) \/ Unconfirmed(p)
         \/ Exit(p) \/ Crash(p) \/ Spawn(p) \/ BackendEnds(p)
         \/ OperatorRecovers(p)
  PROVE  IInv'
<1> USE DEF Goto, disk, Matches, Alive
<1>0. TypeOK /\ (\A q \in Proc : Backed(q)) /\ Quarantined
  BY DEF IInv
<1>1. CASE AcquireBegin(p)
  <2>1. TypeOK'
    BY <1>0, <1>1, LeaseAssumption DEF TypeOK, Backed, InTx, Holding, Cleaning, AcquireBegin, Refused
  <2>2. ASSUME NEW q \in Proc PROVE Backed(q)'
    BY <1>0, <1>1, LeaseAssumption DEF TypeOK, Backed, Quarantined, InTx, AcquireBegin, Refused
  <2>3. Quarantined'
    BY <1>0, <1>1, LeaseAssumption DEF TypeOK, Backed, Quarantined, InTx, AcquireBegin, Refused
  <2> QED
    BY <2>1, <2>2, <2>3 DEF IInv
<1>2. CASE AcquireWrite(p)
  <2>1. TypeOK'
    BY <1>0, <1>2, LeaseAssumption DEF TypeOK, Backed, InTx, Holding, Cleaning, AcquireWrite
  <2>2. ASSUME NEW q \in Proc PROVE Backed(q)'
    BY <1>0, <1>2, LeaseAssumption DEF TypeOK, Backed, Quarantined, InTx, AcquireWrite
  <2>3. Quarantined'
    BY <1>0, <1>2, LeaseAssumption DEF TypeOK, Backed, Quarantined, InTx, AcquireWrite
  <2> QED
    BY <2>1, <2>2, <2>3 DEF IInv
<1>3. CASE AcquireCommit(p)
  <2>1. TypeOK'
    BY <1>0, <1>3, LeaseAssumption DEF TypeOK, Backed, InTx, Holding, Cleaning, AcquireCommit
  <2>2. ASSUME NEW q \in Proc PROVE Backed(q)'
    BY <1>0, <1>3, LeaseAssumption DEF TypeOK, Backed, Quarantined, InTx, AcquireCommit
  <2>3. Quarantined'
    BY <1>0, <1>3, LeaseAssumption DEF TypeOK, Backed, Quarantined, InTx, AcquireCommit
  <2> QED
    BY <2>1, <2>2, <2>3 DEF IInv
<1>4. CASE ReleaseBegin(p)
  <2>1. TypeOK'
    <3>1. CASE Matches(p) /\ Goto(p, "held", "removing") /\ tx' = p /\ RemoveDir
      BY <1>0, <1>4, <3>1, LeaseAssumption DEF TypeOK, InTx, Holding, ReleaseBegin, RemoveDir
    <3>2. CASE ~Matches(p) /\ Goto(p, "held", "idle") /\ UNCHANGED <<disk, tx>>
      BY <1>0, <1>4, <3>2, LeaseAssumption DEF TypeOK, InTx, Holding, ReleaseBegin
    <3> QED
      BY <1>4, <3>1, <3>2 DEF ReleaseBegin
  <2>2. ASSUME NEW q \in Proc PROVE Backed(q)'
    BY <1>0, <1>4, LeaseAssumption DEF TypeOK, Backed, Quarantined, InTx, ReleaseBegin, RemoveDir
  <2>3. Quarantined'
    BY <1>0, <1>4, LeaseAssumption DEF TypeOK, Backed, Quarantined, InTx, ReleaseBegin, RemoveDir
  <2> QED
    BY <2>1, <2>2, <2>3 DEF IInv
<1>5. CASE ReleaseCommit(p)
  <2>1. TypeOK'
    BY <1>0, <1>5, LeaseAssumption DEF TypeOK, Backed, InTx, Holding, Cleaning, ReleaseCommit
  <2>2. ASSUME NEW q \in Proc PROVE Backed(q)'
    BY <1>0, <1>5, LeaseAssumption DEF TypeOK, Backed, Quarantined, InTx, ReleaseCommit
  <2>3. Quarantined'
    BY <1>0, <1>5, LeaseAssumption DEF TypeOK, Backed, Quarantined, InTx, ReleaseCommit
  <2> QED
    BY <2>1, <2>2, <2>3 DEF IInv
<1>6. CASE SweepCommit(p)
  <2>1. TypeOK'
    BY <1>0, <1>6, LeaseAssumption DEF TypeOK, Backed, InTx, Holding, Cleaning, SweepCommit
  <2>2. ASSUME NEW q \in Proc PROVE Backed(q)'
    BY <1>0, <1>6, LeaseAssumption DEF TypeOK, Backed, Quarantined, InTx, SweepCommit
  <2>3. Quarantined'
    BY <1>0, <1>6, LeaseAssumption DEF TypeOK, Backed, Quarantined, InTx, SweepCommit
  <2> QED
    BY <2>1, <2>2, <2>3 DEF IInv
<1>7. CASE SweepBegin(p)
  <2>1. TypeOK'
    BY <1>0, <1>7, LeaseAssumption DEF TypeOK, Backed, InTx, Holding, Cleaning, SweepBegin, Refused, RemoveDir
  <2>2. ASSUME NEW q \in Proc PROVE Backed(q)'
    BY <1>0, <1>7, LeaseAssumption DEF TypeOK, Backed, Quarantined, InTx, SweepBegin, Refused, RemoveDir
  <2>3. Quarantined'
    BY <1>0, <1>7, LeaseAssumption DEF TypeOK, Backed, Quarantined, InTx, SweepBegin, Refused, RemoveDir
  <2> QED
    BY <2>1, <2>2, <2>3 DEF IInv
<1>8. CASE AcquireWriteFails(p)
  <2>1. TypeOK'
    <3>1. faults' \in 0..MaxFaults
      BY <1>0, <1>8, LeaseAssumption DEF TypeOK, AcquireWriteFails, Fail, RemoveDir
    <3>2. \A q \in Proc : tx' = q <=> pc'[q] \in InTx
      BY <1>0, <1>8, LeaseAssumption DEF TypeOK, InTx, AcquireWriteFails, Fail, RemoveDir
    <3>3. pc' \in [Proc -> InTx \cup Holding \cup Cleaning \cup {"idle", "dead"}]
      BY <1>0, <1>8 DEF TypeOK, Cleaning, AcquireWriteFails
    <3>4. /\ dir' \in BOOLEAN /\ marker' \in BOOLEAN /\ old' \in BOOLEAN
          /\ owner' \in Proc \cup {None} /\ row' \in Proc \cup {None}
          /\ ~dir' => owner' = None /\ ~marker' /\ ~old'
      BY <1>0, <1>8 DEF TypeOK, Backed, AcquireWriteFails, Fail, RemoveDir
    <3>5. tx' \in Proc \cup {None} /\ backend' \in SUBSET Proc /\ unmarked' \in BOOLEAN
      BY <1>0, <1>8 DEF TypeOK, AcquireWriteFails, Fail, RemoveDir
    <3> QED
      BY <3>1, <3>2, <3>3, <3>4, <3>5 DEF TypeOK
  <2>2. ASSUME NEW q \in Proc PROVE Backed(q)'
    BY <1>0, <1>8, LeaseAssumption DEF TypeOK, Backed, Quarantined, InTx, AcquireWriteFails, Fail, RemoveDir
  <2>3. Quarantined'
    BY <1>0, <1>8, LeaseAssumption DEF TypeOK, Backed, Quarantined, InTx, AcquireWriteFails, Fail, RemoveDir
  <2> QED
    BY <2>1, <2>2, <2>3 DEF IInv
<1>9. CASE AcquireCommitFails(p)
  <2>1. TypeOK'
    <3>1. faults' \in 0..MaxFaults
      BY <1>0, <1>9, LeaseAssumption DEF TypeOK, AcquireCommitFails, Fail, RemoveDir
    <3>2. \A q \in Proc : tx' = q <=> pc'[q] \in InTx
      BY <1>0, <1>9, LeaseAssumption DEF TypeOK, InTx, AcquireCommitFails, Fail, RemoveDir
    <3>3. pc' \in [Proc -> InTx \cup Holding \cup Cleaning \cup {"idle", "dead"}]
      BY <1>0, <1>9 DEF TypeOK, Cleaning, AcquireCommitFails
    <3>4. /\ dir' \in BOOLEAN /\ marker' \in BOOLEAN /\ old' \in BOOLEAN
          /\ owner' \in Proc \cup {None} /\ row' \in Proc \cup {None}
          /\ ~dir' => owner' = None /\ ~marker' /\ ~old'
      BY <1>0, <1>9 DEF TypeOK, Backed, AcquireCommitFails, Fail, RemoveDir
    <3>5. tx' \in Proc \cup {None} /\ backend' \in SUBSET Proc /\ unmarked' \in BOOLEAN
      BY <1>0, <1>9 DEF TypeOK, AcquireCommitFails, Fail, RemoveDir
    <3> QED
      BY <3>1, <3>2, <3>3, <3>4, <3>5 DEF TypeOK
  <2>2. ASSUME NEW q \in Proc PROVE Backed(q)'
    BY <1>0, <1>9, LeaseAssumption DEF TypeOK, Backed, Quarantined, InTx, AcquireCommitFails, Fail, RemoveDir
  <2>3. Quarantined'
    BY <1>0, <1>9, LeaseAssumption DEF TypeOK, Backed, Quarantined, InTx, AcquireCommitFails, Fail, RemoveDir
  <2> QED
    BY <2>1, <2>2, <2>3 DEF IInv
<1>10. CASE ReleaseFails(p)
  <2>1. TypeOK'
    <3>1. faults' \in 0..MaxFaults
      BY <1>0, <1>10, LeaseAssumption DEF TypeOK, ReleaseFails, Fail
    <3>2. \A q \in Proc : tx' = q <=> pc'[q] \in InTx
      BY <1>0, <1>10, LeaseAssumption DEF TypeOK, InTx, ReleaseFails, Fail
    <3>3. pc' \in [Proc -> InTx \cup Holding \cup Cleaning \cup {"idle", "dead"}]
      BY <1>0, <1>10 DEF TypeOK, ReleaseFails, Fail
    <3>4. /\ dir' \in BOOLEAN /\ marker' \in BOOLEAN /\ old' \in BOOLEAN
          /\ owner' \in Proc \cup {None} /\ row' \in Proc \cup {None}
          /\ ~dir' => owner' = None /\ ~marker' /\ ~old'
      <4>1. dir /\ dir' = dir /\ row' = row
        BY <1>0, <1>10, LeaseAssumption DEF TypeOK, ReleaseFails
      <4>2. /\ marker' = marker \/ marker' = FALSE
            /\ old' = old \/ old' = FALSE
            /\ owner' = owner \/ owner' = None
        BY <1>10 DEF ReleaseFails
      <4> QED
        BY <1>0, <4>1, <4>2 DEF TypeOK
    <3>5. tx' \in Proc \cup {None} /\ backend' \in SUBSET Proc /\ unmarked' \in BOOLEAN
      BY <1>0, <1>10 DEF TypeOK, ReleaseFails, Fail
    <3> QED
      BY <3>1, <3>2, <3>3, <3>4, <3>5 DEF TypeOK
  <2>2. ASSUME NEW q \in Proc PROVE Backed(q)'
    BY <1>0, <1>10, LeaseAssumption DEF TypeOK, Backed, Quarantined, InTx, ReleaseFails, Fail
  <2>3. Quarantined'
    BY <1>0, <1>10, LeaseAssumption DEF TypeOK, Backed, Quarantined, InTx, ReleaseFails, Fail
  <2> QED
    BY <2>1, <2>2, <2>3 DEF IInv
<1>11. CASE Mark(p)
  <2>1. TypeOK'
    BY <1>0, <1>11, LeaseAssumption DEF TypeOK, Backed, InTx, Holding, Cleaning, Mark
  <2>2. ASSUME NEW q \in Proc PROVE Backed(q)'
    BY <1>0, <1>11, LeaseAssumption DEF TypeOK, Backed, Quarantined, InTx, Mark
  <2>3. Quarantined'
    BY <1>0, <1>11, LeaseAssumption DEF TypeOK, Backed, Quarantined, InTx, Mark
  <2> QED
    BY <2>1, <2>2, <2>3 DEF IInv
<1>12. CASE MarkFails(p)
  <2>1. TypeOK'
    BY <1>0, <1>12, LeaseAssumption DEF TypeOK, Backed, InTx, Holding, Cleaning, MarkFails, Fail
  <2>2. ASSUME NEW q \in Proc PROVE Backed(q)'
    BY <1>0, <1>12, LeaseAssumption DEF TypeOK, Backed, Quarantined, InTx, MarkFails, Fail
  <2>3. Quarantined'
    BY <1>0, <1>12, LeaseAssumption DEF TypeOK, Backed, Quarantined, InTx, MarkFails, Fail
  <2> QED
    BY <2>1, <2>2, <2>3 DEF IInv
<1>13. CASE Delegate(p)
  <2>1. TypeOK'
    BY <1>0, <1>13, LeaseAssumption DEF TypeOK, Backed, InTx, Holding, Cleaning, Delegate
  <2>2. ASSUME NEW q \in Proc PROVE Backed(q)'
    BY <1>0, <1>13, LeaseAssumption DEF TypeOK, Backed, Quarantined, InTx, Delegate
  <2>3. Quarantined'
    BY <1>0, <1>13, LeaseAssumption DEF TypeOK, Backed, Quarantined, InTx, Delegate
  <2> QED
    BY <2>1, <2>2, <2>3 DEF IInv
<1>14. CASE Confirmed(p)
  <2>1. TypeOK'
    BY <1>0, <1>14, LeaseAssumption DEF TypeOK, Backed, InTx, Holding, Cleaning, Confirmed
  <2>2. ASSUME NEW q \in Proc PROVE Backed(q)'
    BY <1>0, <1>14, LeaseAssumption DEF TypeOK, Backed, Quarantined, InTx, Confirmed
  <2>3. Quarantined'
    BY <1>0, <1>14, LeaseAssumption DEF TypeOK, Backed, Quarantined, InTx, Confirmed
  <2> QED
    BY <2>1, <2>2, <2>3 DEF IInv
<1>15. CASE NotDelegated(p)
  <2>1. TypeOK'
    BY <1>0, <1>15, LeaseAssumption DEF TypeOK, Backed, InTx, Holding, Cleaning, NotDelegated
  <2>2. ASSUME NEW q \in Proc PROVE Backed(q)'
    BY <1>0, <1>15, LeaseAssumption DEF TypeOK, Backed, Quarantined, InTx, NotDelegated
  <2>3. Quarantined'
    BY <1>0, <1>15, LeaseAssumption DEF TypeOK, Backed, Quarantined, InTx, NotDelegated
  <2> QED
    BY <2>1, <2>2, <2>3 DEF IInv
<1>16. CASE Unconfirmed(p)
  <2>1. TypeOK'
    BY <1>0, <1>16, LeaseAssumption DEF TypeOK, Backed, InTx, Holding, Cleaning, Unconfirmed
  <2>2. ASSUME NEW q \in Proc PROVE Backed(q)'
    BY <1>0, <1>16, LeaseAssumption DEF TypeOK, Backed, Quarantined, InTx, Unconfirmed
  <2>3. Quarantined'
    BY <1>0, <1>16, LeaseAssumption DEF TypeOK, Backed, Quarantined, InTx, Unconfirmed
  <2> QED
    BY <2>1, <2>2, <2>3 DEF IInv
<1>17. CASE Exit(p)
  <2>1. TypeOK'
    BY <1>0, <1>17, LeaseAssumption DEF TypeOK, Backed, InTx, Holding, Cleaning, Exit
  <2>2. ASSUME NEW q \in Proc PROVE Backed(q)'
    BY <1>0, <1>17, LeaseAssumption DEF TypeOK, Backed, Quarantined, InTx, Exit
  <2>3. Quarantined'
    BY <1>0, <1>17, LeaseAssumption DEF TypeOK, Backed, Quarantined, InTx, Exit
  <2> QED
    BY <2>1, <2>2, <2>3 DEF IInv
<1>18. CASE Crash(p)
  <2>1. TypeOK'
    BY <1>0, <1>18, LeaseAssumption DEF TypeOK, Backed, InTx, Holding, Cleaning, Crash, Fail
  <2>2. ASSUME NEW q \in Proc PROVE Backed(q)'
    BY <1>0, <1>18, LeaseAssumption DEF TypeOK, Backed, Quarantined, InTx, Crash, Fail
  <2>3. Quarantined'
    BY <1>0, <1>18, LeaseAssumption DEF TypeOK, Backed, Quarantined, InTx, Crash, Fail
  <2> QED
    BY <2>1, <2>2, <2>3 DEF IInv
<1>19. CASE Spawn(p)
  <2>1. TypeOK'
    BY <1>0, <1>19, LeaseAssumption DEF TypeOK, Backed, InTx, Holding, Cleaning, Spawn
  <2>2. ASSUME NEW q \in Proc PROVE Backed(q)'
    BY <1>0, <1>19, LeaseAssumption DEF TypeOK, Backed, Quarantined, InTx, Spawn
  <2>3. Quarantined'
    BY <1>0, <1>19, LeaseAssumption DEF TypeOK, Backed, Quarantined, InTx, Spawn
  <2> QED
    BY <2>1, <2>2, <2>3 DEF IInv
<1>20. CASE BackendEnds(p)
  <2>1. TypeOK'
    BY <1>0, <1>20, LeaseAssumption DEF TypeOK, Backed, InTx, Holding, Cleaning, BackendEnds
  <2>2. ASSUME NEW q \in Proc PROVE Backed(q)'
    BY <1>0, <1>20, LeaseAssumption DEF TypeOK, Backed, Quarantined, InTx, BackendEnds
  <2>3. Quarantined'
    BY <1>0, <1>20, LeaseAssumption DEF TypeOK, Backed, Quarantined, InTx, BackendEnds
  <2> QED
    BY <2>1, <2>2, <2>3 DEF IInv
<1>21. CASE OperatorRecovers(p)
  <2>1. TypeOK'
    BY <1>0, <1>21, LeaseAssumption DEF TypeOK, Backed, InTx, Holding, Cleaning, OperatorRecovers, RemoveDir, Vouched
  <2>2. ASSUME NEW q \in Proc PROVE Backed(q)'
    BY <1>0, <1>21, LeaseAssumption DEF TypeOK, Backed, Quarantined, InTx, OperatorRecovers, RemoveDir,
       Vouched
  <2>3. Quarantined'
    BY <1>0, <1>21, LeaseAssumption DEF TypeOK, Backed, Quarantined, InTx, OperatorRecovers, RemoveDir,
       Vouched
  <2> QED
    BY <2>1, <2>2, <2>3 DEF IInv
<1>22. CASE CleanupLooks(p)
  <2>1. TypeOK'
    BY <1>0, <1>22, LeaseAssumption DEF TypeOK, Backed, InTx, Holding, Cleaning, CleanupLooks
  <2>2. ASSUME NEW q \in Proc PROVE Backed(q)'
    BY <1>0, <1>22, LeaseAssumption DEF TypeOK, Backed, Quarantined, InTx, CleanupLooks
  <2>3. Quarantined'
    BY <1>0, <1>22, LeaseAssumption DEF TypeOK, Backed, Quarantined, InTx, CleanupLooks
  <2> QED
    BY <2>1, <2>2, <2>3 DEF IInv
<1>23. CASE CleanupClears(p)
  <2>1. TypeOK'
    BY <1>0, <1>23, LeaseAssumption DEF TypeOK, Backed, InTx, Holding, Cleaning, CleanupClears, RemoveDir
  <2>2. ASSUME NEW q \in Proc PROVE Backed(q)'
    BY <1>0, <1>23, LeaseAssumption DEF TypeOK, Backed, Quarantined, InTx, CleanupClears, RemoveDir
  <2>3. Quarantined'
    BY <1>0, <1>23, LeaseAssumption DEF TypeOK, Backed, Quarantined, InTx, CleanupClears, RemoveDir
  <2> QED
    BY <2>1, <2>2, <2>3 DEF IInv
<1> QED
  BY <1>1, <1>2, <1>3, <1>4, <1>5, <1>6, <1>7, <1>8, <1>9, <1>10, <1>11, <1>12, <1>13, <1>14, <1>15,
     <1>16, <1>17, <1>18, <1>19, <1>20, <1>21, <1>22, <1>23 DEF LeaseStep

LEMMA StepBacked == IInv /\ [Next]_vars => IInv'
<1> SUFFICES ASSUME IInv, [Next]_vars PROVE IInv'
  OBVIOUS
<1>0. TypeOK /\ (\A q \in Proc : Backed(q)) /\ Quarantined
  BY DEF IInv
<1>1. CASE UNCHANGED vars
  BY <1>1 DEF vars, IInv, TypeOK, Backed, Quarantined, Matches, Alive
<1>2. ASSUME NEW p \in Proc,
             \/ AcquireBegin(p) \/ LeaseStep(p) \/ SweepBegin(p)
             \/ AcquireWriteFails(p) \/ AcquireCommitFails(p) \/ ReleaseFails(p)
             \/ Mark(p) \/ MarkFails(p) \/ Delegate(p)
             \/ Confirmed(p) \/ NotDelegated(p) \/ Unconfirmed(p)
             \/ Exit(p) \/ Crash(p) \/ Spawn(p) \/ BackendEnds(p)
             \/ OperatorRecovers(p)
      PROVE  IInv'
  BY <1>2, ProcessKeeps
<1>3. CASE OperatorRemoves
  <2>1. TypeOK'
    BY <1>0, <1>3 DEF TypeOK, OperatorRemoves, RemoveDir
  <2>2. ASSUME NEW q \in Proc PROVE Backed(q)'
    BY <1>0, <1>3, LeaseAssumption
    DEF TypeOK, Backed, OperatorRemoves, RemoveDir, Vouched, Matches, Alive, InTx
  <2>3. Quarantined'
    BY <1>0, <1>3 DEF TypeOK, Quarantined, OperatorRemoves, RemoveDir, Vouched, Matches, Alive
  <2> QED
    BY <2>1, <2>2, <2>3 DEF IInv
<1>4. CASE Age
  BY <1>0, <1>4 DEF IInv, TypeOK, Backed, Quarantined, Age, Matches, Alive
<1> QED
  BY <1>1, <1>2, <1>3, <1>4 DEF Next

-----------------------------------------------------------------------------

(***************************************************************************)
(* The inductive invariant, for any processes and number of faults, with   *)
(* clean-ups that come after the rollback.                                 *)
(***************************************************************************)
THEOREM LeaseCorrect == Spec => []IInv
<1> QED
  BY InitBacked, StepBacked, PTL DEF Spec

(***************************************************************************)
(* Type correctness, and the row, never the directory of another one,      *)
(* stands behind every live holder.                                        *)
(***************************************************************************)
THEOREM HoldersAreBacked == Spec => [](TypeOK /\ HolderBacked)
<1>1. IInv => TypeOK /\ HolderBacked
  BY DEF IInv, Backed, HolderBacked
<1> QED
  BY <1>1, LeaseCorrect, PTL

(***************************************************************************)
(* At most one Freebuff backend may be at work, as long as no late         *)
(* clean-up has removed another one's marker.                              *)
(***************************************************************************)
THEOREM MarkersAreHeld == Spec => []MarkersHold
<1>1. IInv => MarkersHold
  <2> SUFFICES ASSUME IInv, ~unmarked PROVE OneSession
    BY DEF MarkersHold
  <2>1. \A q \in backend : row = q
    BY DEF IInv, Quarantined, Matches
  <2>2. CASE backend = {}
    BY <2>2, FS_EmptySet DEF OneSession
  <2>3. CASE backend # {}
    <3>1. backend = {row}
      BY <2>1, <2>3
    <3>2. Cardinality(backend) = 1
      BY <3>1, FS_Singleton
    <3> QED
      BY <3>2 DEF OneSession
  <2> QED
    BY <2>2, <2>3
<1> QED
  BY <1>1, LeaseCorrect, PTL

(***************************************************************************)
(* The lease implements the exclusive lock of ExclusiveLock.tla.           *)
(***************************************************************************)
Holders == {p \in Proc : pc[p] \in Holding}

LEMMA LeaseStepIsLockStep ==
  ASSUME IInv, [Next]_vars
  PROVE  Promise!Next \/ UNCHANGED Holders
<1> USE DEF Goto, Holders, Holding, Cleaning
<1>0. TypeOK /\ (\A q \in Proc : Backed(q)) /\ Quarantined
  BY DEF IInv
<1>1. ASSUME NEW p \in Proc, AcquireCommit(p) PROVE Promise!Next
  <2>0. pc[p] = "written" /\ tx = p /\ ~Alive(row)
    BY <1>0, <1>1 DEF AcquireCommit, Backed, TypeOK, InTx
  <2>1. ASSUME NEW q \in Proc PROVE pc[q] \notin Holding
    <3>1. pc[q] = "removing" => tx = q
      BY <1>0 DEF TypeOK, InTx
    <3>2. pc[q] \in {"held", "marked", "session"} => Alive(row)
      BY <1>0, LeaseAssumption DEF Backed, Alive
    <3> QED
      BY <2>0, <3>1, <3>2
  <2>2. Holders = {} /\ Holders' = {p}
    BY <1>0, <1>1, <2>1 DEF AcquireCommit, TypeOK
  <2>3. Promise!Take(p)
    BY <2>2 DEF Promise!Take
  <2> QED
    BY <2>3 DEF Promise!Next
<1>2. ASSUME NEW p \in Proc, pc[p] \in Holding, pc' = [pc EXCEPT ![p] = pc'[p]],
             pc'[p] \notin Holding
      PROVE  Promise!Next
  <2>1. p \in Holders /\ Holders' = Holders \ {p}
    BY <1>0, <1>2 DEF TypeOK
  <2>2. Promise!Give(p)
    BY <2>1 DEF Promise!Give
  <2> QED
    BY <2>2 DEF Promise!Next
<1>3. ASSUME NEW p \in Proc, pc' = [pc EXCEPT ![p] = pc'[p]],
             pc[p] \in Holding <=> pc'[p] \in Holding
      PROVE  UNCHANGED Holders
  BY <1>0, <1>3 DEF TypeOK
<1>4. CASE UNCHANGED pc
  BY <1>4
<1>5. ASSUME NEW p \in Proc,
             \/ AcquireBegin(p) \/ LeaseStep(p) \/ SweepBegin(p)
             \/ AcquireWriteFails(p) \/ AcquireCommitFails(p) \/ ReleaseFails(p)
             \/ Mark(p) \/ MarkFails(p) \/ Delegate(p)
             \/ Confirmed(p) \/ NotDelegated(p) \/ Unconfirmed(p)
             \/ Exit(p) \/ Crash(p) \/ Spawn(p) \/ BackendEnds(p)
             \/ OperatorRecovers(p)
      PROVE  Promise!Next \/ UNCHANGED Holders
  <2>1. CASE AcquireCommit(p)
    BY <1>1, <2>1
  <2>2. CASE ReleaseBegin(p) \/ ReleaseCommit(p) \/ ReleaseFails(p)
             \/ MarkFails(p) \/ Unconfirmed(p) \/ Crash(p)
    <3>1. pc' = [pc EXCEPT ![p] = pc'[p]]
      BY <1>0, <2>2 DEF TypeOK, ReleaseBegin, ReleaseCommit, ReleaseFails, MarkFails,
                        Unconfirmed, Crash
    <3>2. pc'[p] \notin Holding \/ (pc[p] \in Holding /\ pc'[p] \in Holding)
      BY <1>0, <2>2 DEF TypeOK, ReleaseBegin, ReleaseCommit, ReleaseFails, MarkFails,
                        Unconfirmed, Crash
    <3> QED
      BY <1>2, <1>3, <3>1, <3>2
  <2>3. CASE \/ AcquireBegin(p) \/ AcquireWrite(p) \/ AcquireWriteFails(p)
             \/ AcquireCommitFails(p) \/ SweepBegin(p) \/ SweepCommit(p)
             \/ CleanupLooks(p) \/ CleanupClears(p)
             \/ Mark(p) \/ Delegate(p) \/ Confirmed(p) \/ NotDelegated(p)
             \/ Exit(p) \/ Spawn(p)
    <3>1. /\ pc' = [pc EXCEPT ![p] = pc'[p]]
          /\ pc[p] \in Holding <=> pc'[p] \in Holding
      BY <1>0, <2>3 DEF TypeOK, AcquireBegin, AcquireWrite, AcquireWriteFails,
         AcquireCommitFails, CleanupLooks, CleanupClears, SweepBegin, SweepCommit, Mark,
         Delegate, Confirmed, NotDelegated, Exit, Spawn
    <3> QED
      BY <1>3, <3>1
  <2>4. CASE BackendEnds(p) \/ OperatorRecovers(p)
    BY <1>4, <2>4 DEF BackendEnds, OperatorRecovers
  <2> QED
    BY <1>5, <2>1, <2>2, <2>3, <2>4 DEF LeaseStep
<1>6. CASE OperatorRemoves \/ Age \/ UNCHANGED vars
  BY <1>4, <1>6 DEF OperatorRemoves, Age, vars
<1> QED
  BY <1>5, <1>6 DEF Next

THEOREM LeaseIsExclusiveLock == Spec => IsExclusiveLock
<1>1. Init => Promise!Init
  BY DEF Init, Promise!Init, Holding
<1>2. IInv /\ [Next]_vars => [Promise!Next]_Holders
  BY LeaseStepIsLockStep DEF Holders
<1> QED
  BY <1>1, <1>2, LeaseCorrect, PTL DEF Spec, IsExclusiveLock, Promise!Spec, Holders

-----------------------------------------------------------------------------
(***************************************************************************)
(* The daemon under its supervisors.  A daemon beyond its boot is the one  *)
(* that daemon.lock names, and one that has made the directory is the only *)
(* one to write its pid.json: no sweep, reap or launch takes the lock from *)
(* a process that runs, and a newcomer only takes that of a dead one.      *)
(***************************************************************************)
Active == {"loop", "work", "tail", "stuck"}
DaemonType == daemon \in [Daemons -> Sup!Gone \cup {"boot", "making"} \cup Active]
OwnLock == \A d \in Daemons :
    /\ daemon[d] \in Active => daemonLock = d
    /\ daemon[d] = "making" => daemonLock = Bare /\ \A e \in Daemons : daemon[e] = "making" => e = d
DaemonInv == DaemonType /\ OwnLock

LEMMA DaemonStepKeeps ==
  ASSUME DaemonInv, NEW d \in Daemons, Sup!DaemonStep(d) \/ Sup!Dies(d) \/ Sup!Wedges(d)
  PROVE  DaemonInv'
<1> USE DaemonsAssumption DEF Sup!SupervisionAssumption, DaemonInv, DaemonType, OwnLock, Active, Sup!Gone
<1>1. CASE Sup!Boot(d)
  BY <1>1 DEF Sup!Boot, Sup!Running, Sup!Making
<1>2. CASE Sup!Leave(d)
  BY <1>2 DEF Sup!Leave, Sup!ReleaseLock
<1>3. ASSUME NEW idle \in BOOLEAN, Sup!StartRound(d, idle)
      PROVE  DaemonInv'
  BY <1>3 DEF Sup!StartRound
<1>4. CASE Sup!AttemptEnds(d) \/ Sup!RoundEnds(d)
  BY <1>4 DEF Sup!AttemptEnds, Sup!RoundEnds
<1>5. CASE Sup!Dies(d)
  BY <1>5 DEF Sup!Dies
<1>6. CASE Sup!Wedges(d)
  BY <1>6 DEF Sup!Wedges
<1>7. CASE Sup!BootWrites(d)
  BY <1>7 DEF Sup!BootWrites
<1> QED
  BY <1>1, <1>2, <1>3, <1>4, <1>5, <1>6, <1>7 DEF Sup!DaemonStep

LEMMA SupervisorStepKeeps ==
  ASSUME DaemonInv, NEW w \in Watchers, Sup!Patrol(w) \/ Sup!SuperviseStep(w) \/ Sup!WatcherDies(w)
  PROVE  DaemonInv'
<1> USE DaemonsAssumption DEF Sup!SupervisionAssumption, DaemonInv, DaemonType, OwnLock, Active, Sup!Gone
<1>1. CASE Sup!Patrol(w)
  BY <1>1 DEF Sup!Patrol, Sup!daemonVars
<1>2. ASSUME NEW tasklist, NEW counted, NEW readable, NEW kids,
             Sup!Decide(w, tasklist, counted, kids, readable)
      PROVE  DaemonInv'
  <2>1. UNCHANGED <<daemon, daemonLock>>
    BY <1>2, Zenon DEF Sup!Decide, Sup!daemonVars
  <2> QED
    BY <2>1
<1>3. CASE \/ Sup!EnterGate(w, "reap", "reaping") \/ Sup!EnterGate(w, "launch", "launching")
           \/ Sup!WatcherDies(w)
  BY <1>3 DEF Sup!EnterGate, Sup!daemonVars, Sup!WatcherDies
<1>4. CASE Sup!Reap(w)
  <2>1. daemonLock' = daemonLock /\ (daemon' = daemon \/ Sup!Kill(snap[w].pid))
    BY <1>4, Zenon DEF Sup!Reap
  <2> QED
    BY <2>1 DEF Sup!Kill, Sup!Running
<1>5. CASE Sup!Sweep(w)
  <2>1. daemon' = daemon /\ (daemonLock' = daemonLock \/ Sup!ReleaseDeadLock)
    BY <1>5, Zenon DEF Sup!Sweep
  <2> QED
    BY <2>1 DEF Sup!ReleaseDeadLock, Sup!Running, Sup!Making
<1>6. CASE Sup!Launch(w)
  <2>1. /\ daemonLock' = daemonLock
        /\ \/ daemon' = daemon
           \/ \E d \in Daemons : Sup!FreshPid(d) /\ daemon' = [daemon EXCEPT ![d] = "boot"]
    BY <1>6, Zenon DEF Sup!Launch
  <2> QED
    BY <2>1 DEF Sup!FreshPid, Sup!Running
<1> QED
  BY <1>1, <1>2, <1>3, <1>4, <1>5, <1>6 DEF Sup!SuperviseStep

LEMMA DaemonInvStep ==
  ASSUME DaemonInv, [Sup!SuperviseNext]_supVars
  PROVE  DaemonInv'
<1>1. CASE \E d \in Daemons : Sup!DaemonStep(d) \/ Sup!Dies(d) \/ Sup!Wedges(d)
  BY <1>1, DaemonStepKeeps
<1>2. CASE \E w \in Watchers : Sup!Patrol(w) \/ Sup!SuperviseStep(w) \/ Sup!WatcherDies(w)
  BY <1>2, SupervisorStepKeeps
<1>3. CASE Sup!Tick \/ Sup!Pause \/ Sup!Resume \/ Sup!Reconcile \/ UNCHANGED supVars
  <2>1. UNCHANGED <<daemon, daemonLock>>
    BY <1>3 DEF Sup!Tick, Sup!Pause, Sup!Resume, Sup!Reconcile, supVars
  <2> QED
    BY <2>1 DEF DaemonInv, DaemonType, OwnLock, Active, Sup!Gone
<1> QED
  BY <1>1, <1>2, <1>3, Zenon DEF Sup!SuperviseNext, Sup!Environment

LEMMA DaemonInvInit == Sup!Init => DaemonInv
  BY DEF Sup!Init, DaemonInv, DaemonType, OwnLock, Active, Sup!Gone

\* Whatever supervisors launch and kill on stale readings, and whenever processes die or
\* hang, one daemon at most is in a round (runDaemon, superviseConfig).
THEOREM OneDaemonOnly == DaemonsSpec => []OneDaemonWorks
<1>1. DaemonsInit => DaemonInv
  BY DaemonInvInit DEF DaemonsInit
<1>2. DaemonInv /\ [DaemonsNext]_allVars => DaemonInv'
  <2>1. [DaemonsNext]_allVars => [Sup!SuperviseNext]_supVars
    BY DEF DaemonsNext, allVars, supVars
  <2> QED
    BY <2>1, DaemonInvStep
<1>3. DaemonInv => OneDaemonWorks
  BY DaemonsAssumption DEF Sup!SupervisionAssumption, DaemonInv, OwnLock, Active, OneDaemonWorks, Sup!OneDaemonWorks
<1> QED
  BY <1>1, <1>2, <1>3, PTL DEF DaemonsSpec

-----------------------------------------------------------------------------
(***************************************************************************)
(* The supervised watcher.  Whoever has the mutex is the supervisor that   *)
(* is not off, and a watcher that may run its command line, now or once it *)
(* looks at its gate, is in the job of that supervisor, which stops it     *)
(* before it goes on.                                                      *)
(***************************************************************************)
Tending == {"attach", "open", "gate", "watch", "stop", "after", "error"}
WatcherType ==
    /\ place \in [Sups -> Tending \cup {"off", "top", "start", "delay", "leave"}]
    /\ child \in [Sups -> 0 .. MaxStarts] /\ starts \in 0 .. MaxStarts
    /\ kid \in [Sw!Kids -> {"none", "boot", "watch", "exit0", "exit1", "over"}]
    /\ gates \subseteq Sw!Kids /\ tied \subseteq Sw!Kids /\ runs \subseteq Sw!Kids

\* Enter and Launch check the bound, and nobody else starts a watcher in between.
Supervised == \A s \in Sups :
    /\ place[s] # "off" <=> mutex = s
    /\ child[s] # 0 => place[s] \in Tending /\ child[s] <= starts
    /\ place[s] \in {"attach", "open", "gate", "watch", "stop", "after"} => child[s] # 0
    /\ place[s] \in {"open", "gate", "watch", "stop"} => child[s] \in tied
    /\ place[s] = "start" => starts < MaxStarts

Unborn == \A c \in Sw!Kids : c > starts => kid[c] = "none" /\ c \notin gates \cup tied \cup runs

MayRun(c) == c \in runs \/ kid[c] = "watch" \/ (kid[c] = "boot" /\ c \in gates)
Tended == \A c \in Sw!Kids : MayRun(c) =>
    /\ c \in tied /\ mutex \in Sups /\ child[mutex] = c /\ place[mutex] \in {"watch", "stop"}

WatcherInv == WatcherType /\ Supervised /\ Unborn /\ Tended

LEMMA WatcherInvInit ==
  ASSUME Sw!Init
  PROVE  WatcherInv
<1> USE WatchersAssumption DEF Sw!WatcherAssumption, Sw!Init, Sw!Kids
<1>1. WatcherType
  BY DEF WatcherType
<1>2. Supervised
  BY DEF Supervised
<1> QED
  BY <1>1, <1>2 DEF WatcherInv, Unborn, Tended, MayRun

LEMMA KidFacts == WatcherInv => \A s \in Sups :
    /\ MaxStarts \in Nat /\ None \notin Sups
    /\ child[s] # 0 => child[s] \in Sw!Kids
    /\ place[s] = "start" => starts + 1 \in Sw!Kids
  BY WatchersAssumption
  DEF Sw!WatcherAssumption, Sw!Kids, WatcherInv, WatcherType, Supervised

\* A supervisor before it starts a watcher, or after it has let go of one.
LEMMA SupervisorKeeps ==
  ASSUME WatcherInv, NEW s \in Sups,
         \/ Sw!Enter(s) \/ Sw!Top(s) \/ Sw!Look(s) \/ Sw!Open(s) \/ Sw!Watch(s)
         \/ Sw!After(s) \/ Sw!Delay(s) \/ Sw!Leave(s)
  PROVE  WatcherInv'
<1>0. /\ MaxStarts \in Nat /\ None \notin Sups
      /\ child[s] # 0 => child[s] \in Sw!Kids
      /\ place[s] = "start" => starts + 1 \in Sw!Kids
  BY KidFacts
<1> USE <1>0 DEF WatcherInv, WatcherType, Supervised, Unborn, Tended, MayRun, Tending, Sw!Go, Sw!watcher
<1>1. CASE Sw!Enter(s)
  BY <1>1 DEF Sw!Enter
<1>2. CASE Sw!Top(s)
  <2>1. WatcherType'
    BY <1>2 DEF WatcherType, Sw!Top, Sw!Fault
  <2>2. Supervised'
    BY <1>2 DEF Supervised, Sw!Top, Sw!Fault
  <2>3. Unborn'
    BY <1>2 DEF Unborn, Sw!Top, Sw!Fault
  <2>4. Tended'
    BY <1>2 DEF Tended, Sw!Top, Sw!Fault
  <2> QED
    BY <2>1, <2>2, <2>3, <2>4
<1>3. CASE Sw!Look(s)
  BY <1>3 DEF Sw!Look
<1>4. CASE Sw!Open(s)
  <2>1. WatcherType'
    BY <1>4 DEF WatcherType, Sw!Open
  <2>2. Supervised'
    BY <1>4 DEF Supervised, Sw!Open
  <2>3. Unborn'
    BY <1>4 DEF Unborn, Sw!Open
  <2>4. Tended'
    BY <1>4 DEF Tended, Sw!Open
  <2> QED
    BY <2>1, <2>2, <2>3, <2>4
<1>5. CASE Sw!Watch(s)
  BY <1>5 DEF Sw!Watch
<1>6. CASE Sw!After(s)
  BY <1>6 DEF Sw!After
<1>7. CASE Sw!Delay(s)
  BY <1>7 DEF Sw!Delay
<1>8. CASE Sw!Leave(s)
  BY <1>8 DEF Sw!Leave
<1> QED
  BY <1>1, <1>2, <1>3, <1>4, <1>5, <1>6, <1>7, <1>8

\* A supervisor that starts, ties or stops a watcher, and one that is killed.
LEMMA StopsKeep ==
  ASSUME WatcherInv, NEW s \in Sups,
         Sw!Launch(s) \/ Sw!Attach(s) \/ Sw!Stop(s) \/ Sw!Error(s) \/ Sw!Killed(s)
  PROVE  WatcherInv'
<1>0. /\ MaxStarts \in Nat /\ None \notin Sups
      /\ child[s] # 0 => child[s] \in Sw!Kids
      /\ place[s] = "start" => starts + 1 \in Sw!Kids
  BY KidFacts
<1> USE <1>0 DEF WatcherInv, WatcherType, Supervised, Unborn, Tended, MayRun, Tending, Sw!Go, Sw!Fault, Sw!Exited
<1>1. CASE Sw!Launch(s)
  <2>1. starts' = starts + 1 /\ starts' \in Sw!Kids /\ starts' \in 0 .. MaxStarts
    BY <1>1 DEF Sw!Launch, Sw!Kids
  <2>2. WatcherType'
    BY <1>1, <2>1 DEF Sw!Launch
  <2>3. Supervised'
    BY <1>1, <2>1 DEF Sw!Launch
  <2>4. Unborn' /\ Tended'
    BY <1>1, <2>1 DEF Sw!Launch, Sw!Kids
  <2> QED
    BY <2>2, <2>3, <2>4
<1>2. CASE Sw!Attach(s)
  <2>0. child[s] \in Sw!Kids
    <3>1. child[s] # 0
      BY <1>2 DEF Sw!Attach
    <3> QED
      BY <3>1
  <2>1. WatcherType'
    BY <1>2, <2>0 DEF WatcherType, Sw!Attach
  <2>2. Supervised'
    BY <1>2 DEF Supervised, Sw!Attach
  <2>3. Unborn'
    BY <1>2 DEF Unborn, Sw!Attach
  <2>4. Tended'
    BY <1>2 DEF Tended, Sw!Attach
  <2> QED
    BY <2>1, <2>2, <2>3, <2>4
<1>3. CASE Sw!Stop(s)
  <2>1. WatcherType'
    BY <1>3 DEF WatcherType, Sw!Stop, Sw!StopsJob, Sw!InJob, Sw!Ends
  <2>2. Supervised'
    BY <1>3 DEF Supervised, Sw!Stop, Sw!StopsJob, Sw!InJob, Sw!Ends
  <2>3. Unborn'
    BY <1>3 DEF Unborn, Sw!Stop, Sw!StopsJob, Sw!InJob, Sw!Ends
  <2>4. Tended'
    BY <1>3 DEF Tended, Sw!Stop, Sw!StopsJob, Sw!InJob, Sw!Ends
  <2> QED
    BY <2>1, <2>2, <2>3, <2>4
<1>4. CASE Sw!Error(s)
  <2>1. WatcherType'
    BY <1>4 DEF WatcherType, Sw!Error, Sw!Ends
  <2>2. Supervised'
    BY <1>4 DEF Supervised, Sw!Error, Sw!Ends
  <2>3. Unborn'
    BY <1>4 DEF Unborn, Sw!Error, Sw!Ends
  <2>4. Tended'
    BY <1>4 DEF Tended, Sw!Error, Sw!Ends
  <2> QED
    BY <2>1, <2>2, <2>3, <2>4
<1>5. CASE Sw!Killed(s)
  <2>1. WatcherType'
    BY <1>5 DEF WatcherType, Sw!Killed, Sw!InJob, Sw!Ends
  <2>2. Supervised'
    BY <1>5 DEF Supervised, Sw!Killed, Sw!InJob, Sw!Ends
  <2>3. Unborn'
    BY <1>5 DEF Unborn, Sw!Killed, Sw!InJob, Sw!Ends
  <2>4. Tended'
    BY <1>5 DEF Tended, Sw!Killed, Sw!InJob, Sw!Ends
  <2> QED
    BY <2>1, <2>2, <2>3, <2>4
<1> QED
  BY <1>1, <1>2, <1>3, <1>4, <1>5

LEMMA KidKeeps ==
  ASSUME WatcherInv, NEW c \in Sw!Kids, Sw!Begin(c) \/ Sw!Command(c) \/ Sw!WatcherFails(c)
  PROVE  WatcherInv'
<1> USE DEF WatcherInv, WatcherType, Supervised, Unborn, Tended, MayRun, Tending,
            Sw!Kid, Sw!Of, Sw!supervisor
<1>1. CASE Sw!Begin(c)
  <2>1. WatcherType'
    BY <1>1 DEF WatcherType, Sw!Begin
  <2>2. Supervised'
    BY <1>1 DEF Supervised, Sw!Begin
  <2>3. Unborn'
    BY <1>1 DEF Unborn, Sw!Begin
  <2>4. Tended'
    BY <1>1 DEF Tended, Sw!Begin
  <2> QED
    BY <2>1, <2>2, <2>3, <2>4
<1>2. CASE Sw!Command(c)
  <2>1. WatcherType'
    BY <1>2 DEF WatcherType, Sw!Command
  <2>2. Supervised'
    BY <1>2 DEF Supervised, Sw!Command
  <2>3. Unborn'
    BY <1>2 DEF Unborn, Sw!Command
  <2>4. Tended'
    BY <1>2 DEF Tended, Sw!Command
  <2> QED
    BY <2>1, <2>2, <2>3, <2>4
<1>3. CASE Sw!WatcherFails(c)
  BY <1>3 DEF Sw!WatcherFails
<1> QED
  BY <1>1, <1>2, <1>3

LEMMA WatcherInvStep ==
  ASSUME WatcherInv, [Sw!Next]_swVars
  PROVE  WatcherInv'
<1>1. ASSUME NEW s \in Sups, Sw!Supervise(s) \/ Sw!Killed(s)
      PROVE  WatcherInv'
  BY <1>1, SupervisorKeeps, StopsKeep DEF Sw!Supervise
<1>2. CASE \E c \in Sw!Kids : Sw!Begin(c) \/ Sw!Command(c) \/ Sw!WatcherFails(c)
  BY <1>2, KidKeeps
<1>3. CASE Sw!Pause \/ Sw!HandEnds \/ UNCHANGED swVars
  <2>1. UNCHANGED <<place, mutex, child, kid, gates, tied, runs, starts>>
    BY <1>3 DEF Sw!Pause, Sw!HandEnds, swVars, Sw!supervisor, Sw!watcher
  <2> QED
    BY <2>1 DEF WatcherInv, WatcherType, Supervised, Unborn, Tended, MayRun, Sw!Kids
<1> QED
  BY <1>1, <1>2, <1>3, Zenon DEF Sw!Next

\* What runs the command line is in the job of the watcher that the holder of the mutex looks
\* after: no restart, error or killed supervisor leaves an old run beside a new one
\* (supervise-github-owner.ps1).
THEOREM OneRunOnly == DaemonsSpec => []OneRun
<1>1. DaemonsInit => WatcherInv
  BY WatcherInvInit DEF DaemonsInit
<1>2. WatcherInv /\ [DaemonsNext]_allVars => WatcherInv'
  <2>1. [DaemonsNext]_allVars => [Sw!Next]_swVars
    BY DEF DaemonsNext, allVars, swVars
  <2> QED
    BY <2>1, WatcherInvStep
<1>3. WatcherInv => OneRun
  BY WatchersAssumption DEF WatcherInv, WatcherType, Tended, MayRun, OneRun, Sw!OneRun,
     Sw!WatcherAssumption
<1> QED
  BY <1>1, <1>2, <1>3, PTL DEF DaemonsSpec
=============================================================================
