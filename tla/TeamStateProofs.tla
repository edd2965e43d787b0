--------------------------- MODULE TeamStateProofs ---------------------------
(***************************************************************************)
(* Theorems about TeamState, for every set of executions, tasks, projects  *)
(* and scopes, every cap and every number of crashes and failing writes;   *)
(* and, at the end, about where a task and a call go: the calls of routed  *)
(* models (ModelRoute) and the engines of tasks (Routing).                 *)
(***************************************************************************)
EXTENDS TeamState, MCModelRoute, MCRouting, FiniteSetTheorems, SequenceTheorems, WellFoundedInduction, TLAPS

------------------------------------------------------------------------------
(* Type correctness, one lemma per conjunct of TypeOK. *)

LEMMA GotoType ==
    ASSUME PcOK, NEW e \in Exec, pc[e] # "idle",
           NEW l \in Live \cup {"ended", "dead"}, Goto(e, l), UNCHANGED task
    PROVE  PcOK'
  BY DEF PcOK, Goto

LEMMA ReturnType ==
    ASSUME PcOK, NEW E \in SUBSET Exec, \A e \in E : pc[e] # "idle",
           NEW l \in Live \cup {"ended", "dead"}, Return(E, l), UNCHANGED task
    PROVE  PcOK'
  BY DEF PcOK, Return

LEMMA PcStep == ASSUME PcOK, [Next]_vars PROVE PcOK'
  <1>1. ASSUME NEW e \in Exec, Admission(e) PROVE PcOK'
    BY <1>1, GotoType, ReturnType
       DEF Admission, PickNothing, ClaimAttemptCap, ClaimQuarantined, ClaimDeferred,
           ClaimGranted, Live
  <1>2. ASSUME NEW e \in Exec, EngineTurn(e) PROVE PcOK'
    BY <1>2 DEF EngineTurn, Nudge, AdmitAdditionalTurn, RefuseAdditionalTurn, PcOK
  <1>3. ASSUME NEW e \in Exec, EngineEnd(e) PROVE PcOK'
    <2>1. CASE RunSucceeds(e) \/ RunFails(e) \/ QuarantineRun(e)
      BY <2>1, GotoType, ReturnType DEF RunSucceeds, RunFails, QuarantineRun, Live
    <2>2. CASE InfraRetry(e)
      BY <2>2 DEF InfraRetry, PcOK, Live, Idle
    <2> QED BY <1>3, <2>1, <2>2 DEF EngineEnd
  <1>4. ASSUME NEW e \in Exec, CandidateStep(e) PROVE PcOK'
    BY <1>4, GotoType
       DEF CandidateStep, CandidateRejected, PauseCandidate, MarkPaused, Enqueue,
           EnqueueRefused, Live
  <1>5. ASSUME NEW e \in Exec, QueueStep(e) \/ MergeTimeout(e) PROVE PcOK'
    <2>1. CASE AcquireMergeCaptain(e) \/ MergeTimeout(e)
      BY <2>1, GotoType DEF AcquireMergeCaptain, MergeTimeout, Live
    <2>2. CASE PollRefused(e) BY <2>2 DEF PollRefused, PcOK
    <2> QED BY <1>5, <2>1, <2>2 DEF QueueStep
  <1>6. ASSUME NEW e \in Exec, TurnStep(e) PROVE PcOK'
    BY <1>6, GotoType
       DEF TurnStep, TurnFails, FastForward, Rebase, LeaveTurn, TurnWriteFails,
           FinishMerge, Recover, InTurn, Live
  <1>7. ASSUME NEW e \in Exec, ReportStep(e) PROVE PcOK'
    BY <1>7, GotoType
       DEF ReportStep, ReportDone, ReportFails, ReportBlocked, Close, CloseUnconfirmed,
           EndFrame, Live
  <1>8. ASSUME NEW p \in Project, StartCycle(p) PROVE PcOK'
    BY <1>8 DEF StartCycle, PcOK, Live, Idle
  <1>9. ASSUME NEW p \in Project, Crash(p) PROVE PcOK'
    BY <1>9, ReturnType DEF Crash, LiveIn, Live
  <1>10. CASE UNCHANGED <<pc, task>>
    BY <1>10 DEF PcOK
  <1> QED
    BY <1>1, <1>2, <1>3, <1>4, <1>5, <1>6, <1>7, <1>8, <1>9, <1>10
       DEF Next, Progress, ToggleStop, LapseClaim, Heartbeat, LapseCaptain,
           RenewMergeCaptain, vars

LEMMA BlankFrame == Blank \in Frame
  BY DEF Blank, Frame, Results

LEMMA SetFrame ==
    ASSUME FrameOK, NEW e \in Exec, NEW r \in Frame, frame' = [frame EXCEPT ![e] = r]
    PROVE  FrameOK'
  BY DEF FrameOK

LEMMA EndFrameType == ASSUME FrameOK, NEW e \in Exec, EndFrame(e) PROVE FrameOK'
  <1>1. \A f \in Exec : frame[f] \in Frame /\ [frame[f] EXCEPT !.loose = TRUE] \in Frame
    BY DEF FrameOK, Frame
  <1>2. ASSUME NEW f \in Exec PROVE frame'[f] \in Frame
    BY <1>1, BlankFrame DEF EndFrame
  <1> QED BY <1>2 DEF EndFrame, FrameOK

LEMMA FrameStep == ASSUME TypeOK, [Next]_vars PROVE FrameOK'
  <1> USE DEF TypeOK
  <1>0. /\ Len(main) \in Nat
        /\ \A e \in Exec : frame[e] \in Frame
    BY DEF WorldOK, FrameOK
  <1>1. ASSUME NEW e \in Exec, Admission(e) PROVE FrameOK'
    <2>1. CASE ClaimGranted(e)
      <3>1. [frame[e] EXCEPT !.turns = 1, !.base = Len(main)] \in Frame
        BY <1>0 DEF Frame
      <3>2. frame' = [frame EXCEPT ![e] = [frame[e] EXCEPT !.turns = 1, !.base = Len(main)]]
        BY <2>1 DEF ClaimGranted, FrameOK
      <3> QED BY <3>1, <3>2, SetFrame
    <2>2. CASE Return({e}, "ended")
      BY <2>2, BlankFrame DEF Return, FrameOK
    <2> QED
      BY <1>1, <2>1, <2>2
         DEF Admission, PickNothing, ClaimAttemptCap, ClaimQuarantined, ClaimDeferred
  <1>2. ASSUME NEW e \in Exec, EngineTurn(e) PROVE FrameOK'
    BY <1>2 DEF EngineTurn, Nudge, AdmitAdditionalTurn, RefuseAdditionalTurn, FrameOK, Frame
  <1>3. ASSUME NEW e \in Exec, EngineEnd(e) PROVE FrameOK'
    <2>1. CASE RunSucceeds(e) \/ RunFails(e)
      BY <2>1 DEF RunSucceeds, RunFails, FrameOK
    <2>2. CASE InfraRetry(e)
      <3>1. [Blank EXCEPT !.seen = spent[ProjectOf(e)], !.retried = TRUE,
                          !.loose = frame[e].loose] \in Frame
        BY TeamAssumption, <2>2
           DEF InfraRetry, Blank, FrameOK, WorldOK, PcOK, Frame, Results, ProjectOf
      <3> QED BY <2>2, BlankFrame, <3>1 DEF InfraRetry, FrameOK, Idle
    <2>3. CASE QuarantineRun(e)
      BY <2>3, BlankFrame DEF QuarantineRun, Return, FrameOK
    <2> QED BY <1>3, <2>1, <2>2, <2>3 DEF EngineEnd
  <1>4. ASSUME NEW e \in Exec, CandidateStep(e) PROVE FrameOK'
    BY <1>4
       DEF CandidateStep, CandidateRejected, PauseCandidate, MarkPaused, Enqueue,
           EnqueueRefused, FrameOK, Frame, Results
  <1>5. ASSUME NEW e \in Exec, QueueStep(e) \/ MergeTimeout(e) PROVE FrameOK'
    BY <1>5 DEF QueueStep, AcquireMergeCaptain, PollRefused, MergeTimeout, FrameOK
  <1>6. ASSUME NEW e \in Exec, TurnStep(e) PROVE FrameOK'
    <2>1. CASE TurnFails(e)
      BY <2>1 DEF TurnFails, FrameOK, Frame, Results
    <2>2. CASE FastForward(e)
      <3> DEFINE g == IF pc[e] = "verifying" THEN frame[e].base ELSE frame[e].gated
      <3>1. [frame[e] EXCEPT !.gated = g, !.result = "merged"] \in Frame
        BY <1>0 DEF Frame, Results
      <3>2. frame' = [frame EXCEPT ![e] = [frame[e] EXCEPT !.gated = g, !.result = "merged"]]
        BY <2>2 DEF FastForward, FrameOK
      <3> QED BY <3>1, <3>2, SetFrame
    <2>3. CASE Rebase(e)
      <3>1. [frame[e] EXCEPT !.base = Len(main)] \in Frame
        BY <1>0 DEF Frame
      <3>2. frame' = [frame EXCEPT ![e] = [frame[e] EXCEPT !.base = Len(main)]]
        BY <2>3 DEF Rebase, FrameOK
      <3> QED BY <3>1, <3>2, SetFrame
    <2>4. CASE Recover(e)
      BY <2>4 DEF Recover, FrameOK, Frame, Results
    <2> QED
      BY <1>6, <2>1, <2>2, <2>3, <2>4
         DEF TurnStep, LeaveTurn, TurnWriteFails, FinishMerge, FrameOK
  <1>7. ASSUME NEW e \in Exec, ReportStep(e) PROVE FrameOK'
    BY <1>7, EndFrameType
       DEF ReportStep, ReportDone, ReportFails, ReportBlocked, Close, CloseUnconfirmed, FrameOK
  <1>8. ASSUME NEW p \in Project, StartCycle(p) PROVE FrameOK'
    <2>1. [Blank EXCEPT !.seen = spent[p]] \in Frame
      BY DEF Blank, Frame, Results, WorldOK
    <2> QED BY <1>8, <2>1 DEF StartCycle, FrameOK
  <1>9. ASSUME NEW p \in Project, Crash(p) PROVE FrameOK'
    BY <1>9, BlankFrame DEF Crash, Return, FrameOK
  <1>10. CASE UNCHANGED frame
    BY <1>10 DEF FrameOK
  <1> QED
    BY <1>1, <1>2, <1>3, <1>4, <1>5, <1>6, <1>7, <1>8, <1>9, <1>10
       DEF Next, Progress, ToggleStop, LapseClaim, Heartbeat, LapseCaptain,
           RenewMergeCaptain, vars

LEMMA ReapTypes ==
    ASSUME LedgerOK
    PROVE  /\ ReapedActive \in [Exec -> BOOLEAN]
           /\ ReapedState \in [Exec -> {"NONE", "RUNNING", "RELEASED", "QUARANTINED"}]
           /\ ReapedRow \in [Exec -> Waiting \cup {"NONE", "DONE", "BLOCKED", "PAUSED_READY",
                                                   "QUARANTINED"}]
           /\ ReapedCaptain \in Exec \cup {None}
  <1>1. ReapedActive \in [Exec -> BOOLEAN]
    BY DEF LedgerOK, ReapedActive
  <1>2. ReapedState \in [Exec -> {"NONE", "RUNNING", "RELEASED", "QUARANTINED"}]
    BY DEF LedgerOK, ReapedState
  <1>3. ReapedRow \in [Exec -> Waiting \cup {"NONE", "DONE", "BLOCKED", "PAUSED_READY",
                                             "QUARANTINED"}]
    BY DEF LedgerOK, ReapedRow, Waiting
  <1>4. ReapedCaptain \in Exec \cup {None}
    BY DEF LedgerOK, ReapedCaptain
  <1> QED BY <1>1, <1>2, <1>3, <1>4

LEMMA NextSeqType == NextSeq \in Nat \ {0}
  <1>1. IsFiniteSet({e \in Exec : seq[e] # 0})
    BY TeamAssumption, FS_Subset
  <1> QED BY <1>1, FS_CardinalityType DEF NextSeq

LEMMA LedgerStep == ASSUME TypeOK, [Next]_vars PROVE LedgerOK'
  <1> USE TeamAssumption DEF TypeOK
  <1>0. ReapExpired /\ UNCHANGED <<reserved, extra, seq>> => LedgerOK'
    BY ReapTypes DEF ReapExpired, LedgerOK
  <1>a. \A e \in Exec : Release(e) /\ UNCHANGED <<reserved, extra, queueVars>> => LedgerOK'
    BY ZenonT(60) DEF Release, LedgerOK, queueVars
  <1>1. ASSUME NEW e \in Exec, Admission(e) PROVE LedgerOK'
    <2>1. CASE ClaimGranted(e)
      BY <2>1, ReapTypes DEF ClaimGranted, LedgerOK
    <2> QED
      BY <1>1, <1>0, <2>1
         DEF Admission, PickNothing, ClaimAttemptCap, ClaimQuarantined, ClaimDeferred,
             claimVars, queueVars, LedgerOK
  <1>2. ASSUME NEW e \in Exec, EngineTurn(e) PROVE LedgerOK'
    <2>1. CASE AdmitAdditionalTurn(e)
      <3>1. ExtraReservation(e) \in Nat
        BY DEF ExtraReservation, LedgerOK, FrameOK, Frame
      <3>2. reserved' \in [Exec -> Nat] /\ extra' \in [Exec -> Nat]
        BY <3>1, <2>1 DEF AdmitAdditionalTurn, LedgerOK
      <3> QED BY <2>1, <3>2, ReapTypes DEF AdmitAdditionalTurn, ReapExpired, LedgerOK
    <2> QED
      BY <1>2, <1>0, <2>1
         DEF EngineTurn, Nudge, RefuseAdditionalTurn, claimVars, queueVars, LedgerOK
  <1>3. ASSUME NEW e \in Exec, EngineEnd(e) PROVE LedgerOK'
    <2>1. CASE RunSucceeds(e) \/ RunFails(e)
      BY <2>1 DEF RunSucceeds, RunFails, LedgerOK, claimVars, queueVars
    <2>2. CASE InfraRetry(e)
      BY <1>a, <2>2 DEF InfraRetry
    <2>3. CASE QuarantineRun(e)
      BY <2>3 DEF QuarantineRun, Quarantine, queueVars, LedgerOK
    <2> QED BY <1>3, <2>1, <2>2, <2>3 DEF EngineEnd
  <1>4. ASSUME NEW e \in Exec, CandidateStep(e) PROVE LedgerOK'
    <2>1. InsertRow(e) /\ UNCHANGED <<claimVars, captain, captainLapsed>> => LedgerOK'
      <3>1. SUFFICES ASSUME InsertRow(e), UNCHANGED <<claimVars, captain, captainLapsed>>
                     PROVE  LedgerOK'
        OBVIOUS
      <3>2. /\ row' \in [Exec -> Waiting \cup {"NONE", "DONE", "BLOCKED", "PAUSED_READY",
                                               "QUARANTINED"}]
            /\ seq' \in [Exec -> Nat]
        BY <3>1, NextSeqType DEF InsertRow, LedgerOK, Waiting
      <3> QED BY <3>1, <3>2 DEF claimVars, LedgerOK
    <2> QED
      BY <1>4, <2>1
         DEF CandidateStep, CandidateRejected, PauseCandidate, MarkPaused, Enqueue,
             EnqueueRefused, claimVars, queueVars, LedgerOK
  <1>5. ASSUME NEW e \in Exec, QueueStep(e) \/ MergeTimeout(e) PROVE LedgerOK'
    <2>1. CASE AcquireMergeCaptain(e)
      BY <2>1, ReapTypes DEF AcquireMergeCaptain, LedgerOK, Waiting
    <2> QED BY <1>5, <1>0, <2>1 DEF QueueStep, PollRefused, MergeTimeout
  <1>6. ASSUME NEW e \in Exec, TurnStep(e) PROVE LedgerOK'
    BY <1>6
       DEF TurnStep, TurnFails, FastForward, Rebase, LeaveTurn, TurnWriteFails, FinishMerge,
           RowFor, Recover, claimVars, queueVars, LedgerOK
  <1>7. ASSUME NEW e \in Exec, ReportStep(e) PROVE LedgerOK'
    BY <1>7, <1>a
       DEF ReportStep, ReportDone, ReportFails, ReportBlocked, Close, CloseUnconfirmed,
           Quarantine, claimVars, queueVars, LedgerOK
  <1>8. CASE UNCHANGED <<claimVars, queueVars>>
    BY <1>8 DEF claimVars, queueVars, LedgerOK
  <1>9. CASE \/ LapseCaptain \/ RenewMergeCaptain
             \/ \E e \in Exec : LapseClaim(e) \/ Heartbeat(e)
    BY <1>9
       DEF LapseCaptain, RenewMergeCaptain, LapseClaim, Heartbeat, claimVars, queueVars, LedgerOK
  <1> QED
    BY <1>1, <1>2, <1>3, <1>4, <1>5, <1>6, <1>7, <1>8, <1>9
       DEF Next, Progress, StartCycle, Crash, ToggleStop, vars

LEMMA BlockTaskType ==
    ASSUME WorldOK, NEW t \in Task, BlockTask(t), UNCHANGED <<main, stop>>,
           spent' \in [Project -> Nat]
    PROVE  WorldOK'
  <1>1. backlog' \in [Task -> {"open", "blocked", "done"}] /\ faults' \in Nat
    BY DEF WorldOK, BlockTask, Fault
  <1> QED BY <1>1 DEF WorldOK

LEMMA ChargeType ==
    ASSUME TypeOK, NEW e \in Exec, ProjectOf(e) \in Project, Charge(e)
    PROVE  spent' \in [Project -> Nat]
  <1>1. FixedCost * frame[e].turns \in Nat
    BY TeamAssumption DEF TypeOK, FrameOK, Frame
  <1>2. spent \in [Project -> Nat]
    BY DEF TypeOK, WorldOK
  <1>3. spent[ProjectOf(e)] + FixedCost * frame[e].turns \in Nat
    BY <1>1, <1>2
  <1> QED BY <1>2, <1>3 DEF Charge

LEMMA WorldStep == ASSUME TypeOK, [Next]_vars PROVE WorldOK'
  <1> USE TeamAssumption DEF TypeOK
  <1>0. /\ \A e \in Exec : pc[e] # "idle" => task[e] \in Task /\ ProjectOf(e) \in Project
        /\ WorldOK
    BY DEF PcOK, ProjectOf
  <1>1. ASSUME NEW e \in Exec, Admission(e) PROVE WorldOK'
    BY <1>1, <1>0, BlockTaskType
       DEF Admission, PickNothing, ClaimAttemptCap, ClaimQuarantined, ClaimDeferred,
           ClaimGranted, worldVars, WorldOK
  <1>2. ASSUME NEW e \in Exec, EngineEnd(e) PROVE WorldOK'
    <2>1. CASE RunSucceeds(e)
      BY <2>1, <1>0, ChargeType DEF RunSucceeds, WorldOK
    <2>2. CASE RunFails(e)
      BY <2>2, <1>0, ChargeType, BlockTaskType DEF RunFails, WorldOK
    <2>3. CASE InfraRetry(e)
      BY <2>3, <1>0 DEF InfraRetry, Release, Fault, worldVars, WorldOK
    <2>4. CASE QuarantineRun(e)
      BY <2>4, <1>0, ChargeType, BlockTaskType DEF QuarantineRun, WorldOK
    <2> QED BY <1>2, <2>1, <2>2, <2>3, <2>4 DEF EngineEnd
  <1>3. ASSUME NEW e \in Exec, CandidateStep(e) PROVE WorldOK'
    <2>1. CASE CandidateRejected(e)
      BY <2>1, <1>0, BlockTaskType DEF CandidateRejected, WorldOK
    <2>2. CASE MarkPaused(e)
      BY <2>2, <1>0 DEF MarkPaused, Fault, worldVars, WorldOK
    <2>3. CASE PauseCandidate(e) \/ Enqueue(e) \/ EnqueueRefused(e)
      BY <2>3, <1>0 DEF PauseCandidate, Enqueue, EnqueueRefused, worldVars, WorldOK
    <2> QED BY <1>3, <2>1, <2>2, <2>3 DEF CandidateStep
  <1>4. ASSUME NEW e \in Exec, TurnStep(e) PROVE WorldOK'
    <2>1. CASE FastForward(e)
      <3> DEFINE g == IF pc[e] = "verifying" THEN frame[e].base ELSE frame[e].gated
      <3>1. g \in Nat
        BY DEF FrameOK, Frame
      <3>2. [by |-> e, gated |-> g] \in [by : Exec, gated : Nat]
        BY <3>1
      <3>3. main' \in Seq([by : Exec, gated : Nat])
        BY <2>1, <3>2 DEF FastForward, WorldOK
      <3> QED BY <2>1, <3>3, <1>0 DEF FastForward, WorldOK
    <2> QED
      BY <1>4, <2>1, <1>0
         DEF TurnStep, TurnFails, Rebase, LeaveTurn, TurnWriteFails, FinishMerge, Recover,
             Fault, worldVars, WorldOK
  <1>5. ASSUME NEW e \in Exec, ReportStep(e) PROVE WorldOK'
    <2>1. CASE ReportDone(e)
      BY <2>1, <1>0 DEF ReportDone, WorldOK
    <2>2. CASE ReportFails(e)
      <3>1. ProjectOf(e) \in Project
        BY <2>2, <1>0 DEF ReportFails, ProjectOf
      <3>2. stop' \in SUBSET Project
        BY <2>2, <3>1, <1>0 DEF ReportFails, WorldOK
      <3>3. faults' \in Nat
        BY <2>2, <1>0 DEF ReportFails, Fault, WorldOK
      <3>4. backlog' = backlog \/ backlog' = [backlog EXCEPT ![task[e]] = "blocked"]
        BY <2>2 DEF ReportFails
      <3>5. backlog' \in [Task -> {"open", "blocked", "done"}]
        BY <3>4, <1>0 DEF WorldOK
      <3> QED BY <2>2, <3>2, <3>3, <3>5, <1>0 DEF ReportFails, WorldOK
    <2>3. CASE ReportBlocked(e)
      BY <2>3, <1>0, BlockTaskType DEF ReportBlocked, WorldOK
    <2>4. CASE Close(e) \/ CloseUnconfirmed(e)
      BY <2>4, <1>0 DEF Close, CloseUnconfirmed, Release, Fault, worldVars, WorldOK
    <2> QED BY <1>5, <2>1, <2>2, <2>3, <2>4 DEF ReportStep
  <1>6. ASSUME NEW p \in Project, ToggleStop(p) PROVE WorldOK'
    BY <1>6, <1>0 DEF ToggleStop, WorldOK
  <1>7. CASE UNCHANGED <<worldVars, faults>>
    BY <1>7, <1>0 DEF worldVars, WorldOK
  <1> QED
    BY <1>1, <1>2, <1>3, <1>4, <1>5, <1>6, <1>7
       DEF Next, Progress, QueueStep, AcquireMergeCaptain, PollRefused, MergeTimeout,
           EngineTurn, Nudge, AdmitAdditionalTurn, RefuseAdditionalTurn, StartCycle, Crash,
           LapseClaim, Heartbeat, LapseCaptain, RenewMergeCaptain, vars

LEMMA InitType == Init => TypeOK
  <1>1. Init => PcOK /\ FrameOK
    BY BlankFrame DEF Init, PcOK, FrameOK
  <1>2. Init => LedgerOK
    <2>1. Init => /\ state \in [Exec -> {"NONE", "RUNNING", "RELEASED", "QUARANTINED"}]
                  /\ active \in [Exec -> BOOLEAN] /\ lapsed \in [Exec -> BOOLEAN]
      BY DEF Init
    <2>2. Init => reserved \in [Exec -> Nat] /\ extra \in [Exec -> Nat] /\ seq \in [Exec -> Nat]
      BY DEF Init
    <2>3. Init => /\ row \in [Exec -> Waiting \cup {"NONE", "DONE", "BLOCKED", "PAUSED_READY",
                                                   "QUARANTINED"}]
                  /\ captain \in Exec \cup {None} /\ captainLapsed \in BOOLEAN
      BY DEF Init
    <2> QED BY <2>1, <2>2, <2>3 DEF LedgerOK
  <1>3. Init => WorldOK
    BY DEF Init, WorldOK
  <1> QED BY <1>1, <1>2, <1>3 DEF TypeOK

\* Every variable keeps its type: no step of a scheduler, a reaper, a crash or
\* a failing write leaves the tables with a value the code cannot read back.
THEOREM TypeCorrect == Spec => []TypeOK
  <1>1. TypeOK /\ [Next]_vars => TypeOK'
    BY PcStep, FrameStep, LedgerStep, WorldStep DEF TypeOK
  <1> QED BY InitType, <1>1, PTL DEF Spec

------------------------------------------------------------------------------
(***************************************************************************)
(* Exclusive scopes.  Owns speaks of three variables; the induction is     *)
(* about the claim's state alone, which Fine ties to the other two.        *)
(***************************************************************************)

Held == {e \in Exec : state[e] \in {"RUNNING", "QUARANTINED"}}

\* What a claim's state s and activity a can be where its execution is at l.
Fine(l, s, a) ==
    /\ a => s \in {"RUNNING", "QUARANTINED"}
    /\ s = "RUNNING" => a
    /\ l \in {"idle", "picking"} => s = "NONE"
    /\ l \in Live /\ a => s = "RUNNING"
    /\ l \in Working => s \in {"RUNNING", "QUARANTINED"}

ClaimInv == \A e \in Exec : Fine(pc[e], state[e], active[e])

ScopeInv == \A e, f \in Held : e # f => ~Conflict(task[e], task[f])

\* The reaping changes who answers for a claim, not whether it is held.
LEMMA ReapKeeps ==
    ASSUME LedgerOK, ClaimInv
    PROVE  /\ \A e \in Exec : Fine(pc[e], ReapedState[e], ReapedActive[e])
           /\ \A e \in Exec : ReapedState[e] \in {"RUNNING", "QUARANTINED"} <=> e \in Held
           /\ Holders = Held
  <1>1. ASSUME NEW e \in Exec
        PROVE  /\ Fine(pc[e], ReapedState[e], ReapedActive[e])
               /\ ReapedState[e] \in {"RUNNING", "QUARANTINED"} <=> e \in Held
               /\ e \in Holders <=> e \in Held
    BY DEF LedgerOK, ClaimInv, Fine, ReapedState, ReapedActive, Expired, Held, Holders
  <1> QED BY <1>1 DEF Holders, Held

LEMMA EndOnly ==
    ASSUME TypeOK, ClaimInv, NEW E \in SUBSET Exec, NEW l \in {"ended", "dead"}, Return(E, l),
           \/ UNCHANGED <<state, active>>
           \/ ReapExpired
    PROVE  ClaimInv'
  <1>1. ASSUME NEW f \in Exec PROVE Fine(pc'[f], state[f], active[f])
    BY DEF TypeOK, PcOK, ClaimInv, Return, Fine, Live, Working
  <1>2. ASSUME NEW f \in Exec PROVE Fine(pc'[f], ReapedState[f], ReapedActive[f])
    <2>1. Fine(pc[f], ReapedState[f], ReapedActive[f])
      BY ReapKeeps DEF TypeOK
    <2> QED BY <2>1 DEF TypeOK, PcOK, Return, Fine, Live, Working
  <1> QED BY <1>1, <1>2 DEF ReapExpired, ClaimInv

LEMMA ClaimStep == ASSUME TypeOK, ClaimInv, [Next]_vars PROVE ClaimInv'
  <1>1. ASSUME NEW e \in Exec, Admission(e) PROVE ClaimInv'
    <2>1. CASE ClaimGranted(e)
      <3>1. ASSUME NEW f \in Exec PROVE Fine(pc'[f], state'[f], active'[f])
        <4>1. Fine(pc[f], ReapedState[f], ReapedActive[f])
          BY ReapKeeps DEF TypeOK
        <4> QED
          BY <2>1, <4>1, ReapTypes
             DEF ClaimGranted, Goto, Fine, TypeOK, PcOK, Live, Working
      <3> QED BY <3>1 DEF ClaimInv
    <2> QED
      BY <1>1, <2>1, EndOnly
         DEF Admission, PickNothing, ClaimAttemptCap, ClaimQuarantined, ClaimDeferred, claimVars
  <1>2. ASSUME NEW e \in Exec, EngineTurn(e) PROVE ClaimInv'
    BY <1>2, ReapKeeps
       DEF EngineTurn, Nudge, AdmitAdditionalTurn, RefuseAdditionalTurn, ReapExpired,
           claimVars, ClaimInv, TypeOK
  <1>3. ASSUME NEW e \in Exec, EngineEnd(e) PROVE ClaimInv'
    <2>1. CASE RunSucceeds(e) \/ RunFails(e)
      BY <2>1 DEF RunSucceeds, RunFails, Goto, claimVars, ClaimInv, Fine, Live, Working, TypeOK, PcOK
    <2>2. CASE InfraRetry(e)
      BY <2>2 DEF InfraRetry, Idle, Release, ClaimInv, Fine, Live, Working, TypeOK, PcOK, LedgerOK
    <2>3. CASE QuarantineRun(e)
      BY <2>3 DEF QuarantineRun, Quarantine, Return, ClaimInv, Fine, Live, Working, TypeOK, PcOK, LedgerOK
    <2> QED BY <1>3, <2>1, <2>2, <2>3 DEF EngineEnd
  <1>4. ASSUME NEW e \in Exec, CandidateStep(e) PROVE ClaimInv'
    BY <1>4
       DEF CandidateStep, CandidateRejected, PauseCandidate, MarkPaused, Enqueue,
           EnqueueRefused, Goto, claimVars, ClaimInv, Fine, Live, Working, TypeOK, PcOK
  <1>5. ASSUME NEW e \in Exec, QueueStep(e) \/ MergeTimeout(e) PROVE ClaimInv'
    <2>1. \A f \in Exec : Fine(pc[f], ReapedState[f], ReapedActive[f])
      BY ReapKeeps DEF TypeOK
    <2>2. state' = ReapedState /\ active' = ReapedActive
      BY <1>5 DEF QueueStep, AcquireMergeCaptain, PollRefused, MergeTimeout, ReapExpired
    <2>3. ASSUME NEW f \in Exec PROVE Fine(pc'[f], ReapedState[f], ReapedActive[f])
      BY <1>5, <2>1
         DEF QueueStep, AcquireMergeCaptain, PollRefused, MergeTimeout, Goto, Fine, Live,
             Working, TypeOK, PcOK
    <2> QED BY <2>2, <2>3 DEF ClaimInv
  <1>6. ASSUME NEW e \in Exec, TurnStep(e) PROVE ClaimInv'
    BY <1>6
       DEF TurnStep, TurnFails, FastForward, Rebase, LeaveTurn, TurnWriteFails, FinishMerge,
           Recover, InTurn, Goto, claimVars, ClaimInv, Fine, Live, Working, TypeOK, PcOK
  <1>7. ASSUME NEW e \in Exec, ReportStep(e) PROVE ClaimInv'
    <2>1. CASE ReportDone(e) \/ ReportFails(e) \/ ReportBlocked(e)
      BY <2>1
         DEF ReportDone, ReportFails, ReportBlocked, Goto, claimVars, ClaimInv, Fine, Live,
             Working, TypeOK, PcOK
    <2>2. CASE Close(e) \/ CloseUnconfirmed(e)
      BY <2>2
         DEF Close, CloseUnconfirmed, EndFrame, Release, Quarantine, Goto, ClaimInv, Fine,
             Live, Working, TypeOK, PcOK, LedgerOK
    <2> QED BY <1>7, <2>1, <2>2 DEF ReportStep
  <1>8. ASSUME NEW p \in Project, StartCycle(p) PROVE ClaimInv'
    BY <1>8 DEF StartCycle, Idle, claimVars, ClaimInv, Fine, Live, Working, TypeOK, PcOK
  <1>9. ASSUME NEW p \in Project, Crash(p) PROVE ClaimInv'
    BY <1>9, EndOnly DEF Crash, LiveIn, claimVars
  <1>10. CASE UNCHANGED <<pc, state, active>>
    BY <1>10 DEF ClaimInv
  <1> QED
    BY <1>1, <1>2, <1>3, <1>4, <1>5, <1>6, <1>7, <1>8, <1>9, <1>10
       DEF Next, Progress, ToggleStop, LapseClaim, Heartbeat, LapseCaptain,
           RenewMergeCaptain, claimVars, vars

\* A claim is never taken over from NONE except by ClaimGranted, and the task
\* of a held claim never changes.
\* An execution keeps the task it was started with.
LEMMA TaskStep ==
    ASSUME PcOK, [Next]_vars
    PROVE  \A e \in Exec : pc[e] # "idle" => task'[e] = task[e]
  <1>1. ASSUME NEW p \in Project, StartCycle(p), NEW e \in Exec, pc[e] # "idle"
        PROVE  task'[e] = task[e]
    BY <1>1 DEF StartCycle, Idle
  <1>2. ASSUME NEW f \in Exec, InfraRetry(f), NEW e \in Exec, pc[e] # "idle"
        PROVE  task'[e] = task[e]
    BY <1>2 DEF InfraRetry, Idle, PcOK
  <1>3. CASE (\A p \in Project : ~StartCycle(p)) /\ \A f \in Exec : ~InfraRetry(f)
    <2>1. ASSUME NEW e \in Exec, Admission(e) PROVE UNCHANGED task
      BY <2>1
         DEF Admission, PickNothing, ClaimAttemptCap, ClaimQuarantined, ClaimDeferred,
             ClaimGranted
    <2>2. ASSUME NEW e \in Exec, EngineTurn(e) \/ EngineEnd(e) PROVE UNCHANGED task
      BY <1>3, <2>2
         DEF EngineTurn, Nudge, AdmitAdditionalTurn, RefuseAdditionalTurn, EngineEnd,
             RunSucceeds, RunFails, QuarantineRun
    <2>3. ASSUME NEW e \in Exec, CandidateStep(e) PROVE UNCHANGED task
      BY <2>3
         DEF CandidateStep, CandidateRejected, PauseCandidate, MarkPaused, Enqueue,
             EnqueueRefused
    <2>4. ASSUME NEW e \in Exec, QueueStep(e) \/ MergeTimeout(e) \/ TurnStep(e)
          PROVE  UNCHANGED task
      BY <2>4
         DEF QueueStep, AcquireMergeCaptain, PollRefused, MergeTimeout, TurnStep,
             TurnFails, FastForward, Rebase, LeaveTurn, TurnWriteFails, FinishMerge, Recover
    <2>5. ASSUME NEW e \in Exec, ReportStep(e) PROVE UNCHANGED task
      BY <2>5
         DEF ReportStep, ReportDone, ReportFails, ReportBlocked, Close, CloseUnconfirmed
    <2>6. UNCHANGED task
      BY <1>3, <2>1, <2>2, <2>3, <2>4, <2>5
         DEF Next, Progress, Crash, ToggleStop, LapseClaim, Heartbeat, LapseCaptain,
             RenewMergeCaptain, vars
    <2> QED BY <2>6
  <1> QED BY <1>1, <1>2, <1>3

LEMMA HeldStep ==
    ASSUME TypeOK, ClaimInv, [Next]_vars
    PROVE  /\ \A e \in Exec : state[e] # "NONE" => task'[e] = task[e]
           /\ \/ Held' \subseteq Held
              \/ \E e \in Exec : ClaimGranted(e)
  <1>a. ReapExpired => Held' \subseteq Held
    BY ReapKeeps DEF ReapExpired, Held, TypeOK
  <1>b. state' = state => Held' = Held
    BY DEF Held
  <1>c. \A e \in Exec : Release(e) \/ Quarantine(e) => Held' \subseteq Held
    BY DEF Release, Quarantine, Held, ClaimInv, Fine, TypeOK, LedgerOK
  <1>1. ASSUME NEW e \in Exec, Progress(e) \/ EngineTurn(e) \/ MergeTimeout(e), ~ClaimGranted(e)
        PROVE  Held' \subseteq Held
    <2>1. CASE Admission(e)
      BY <1>1, <2>1, <1>a, <1>b
         DEF Admission, PickNothing, ClaimAttemptCap, ClaimQuarantined, ClaimDeferred, claimVars
    <2>2. CASE EngineTurn(e) \/ EngineEnd(e)
      BY <2>2, <1>a, <1>b, <1>c
         DEF EngineTurn, Nudge, AdmitAdditionalTurn, RefuseAdditionalTurn, EngineEnd,
             RunSucceeds, RunFails, InfraRetry, QuarantineRun, claimVars
    <2>3. CASE CandidateStep(e)
      BY <2>3, <1>b
         DEF CandidateStep, CandidateRejected, PauseCandidate, MarkPaused, Enqueue,
             EnqueueRefused, claimVars
    <2>4. CASE QueueStep(e) \/ MergeTimeout(e)
      <3>1. state' = ReapedState
        BY <2>4 DEF QueueStep, AcquireMergeCaptain, PollRefused, MergeTimeout, ReapExpired
      <3> QED BY <3>1, ReapKeeps DEF Held, TypeOK
    <2>5. CASE TurnStep(e)
      BY <2>5, <1>b
         DEF TurnStep, TurnFails, FastForward, Rebase, LeaveTurn, TurnWriteFails,
             FinishMerge, Recover, claimVars
    <2>6. CASE ReportStep(e)
      BY <2>6, <1>b, <1>c
         DEF ReportStep, ReportDone, ReportFails, ReportBlocked, Close, CloseUnconfirmed,
             claimVars
    <2> QED BY <1>1, <2>1, <2>2, <2>3, <2>4, <2>5, <2>6 DEF Progress
  <1>2. Held' \subseteq Held \/ \E e \in Exec : ClaimGranted(e)
    BY <1>1, <1>b
       DEF Next, StartCycle, Crash, ToggleStop, LapseClaim, Heartbeat, LapseCaptain,
           RenewMergeCaptain, claimVars, vars
  <1>3. \A e \in Exec : state[e] # "NONE" => task'[e] = task[e]
    BY TaskStep DEF ClaimInv, Fine, TypeOK
  <1> QED BY <1>2, <1>3

LEMMA ScopeStep ==
    ASSUME TypeOK, ClaimInv, ScopeInv, [Next]_vars
    PROVE  ScopeInv'
  <1>1. \A e \in Held : task'[e] = task[e]
    BY HeldStep DEF Held
  <1>2. CASE Held' \subseteq Held
    BY <1>1, <1>2 DEF ScopeInv, Conflict
  <1>3. ASSUME NEW e \in Exec, ClaimGranted(e) PROVE ScopeInv'
    <2>1. Holders = Held
      BY ReapKeeps DEF TypeOK
    <2>2. \A f \in Held : ~Conflict(task[e], task[f])
      BY <1>3, <2>1 DEF ClaimGranted, OwnershipConflict
    <2>3. task' = task
      BY <1>3 DEF ClaimGranted
    <2>4. Held' \subseteq Held \cup {e}
      BY <1>3, ReapKeeps, ReapTypes DEF ClaimGranted, Held, TypeOK
    <2>5. \A f \in Held : ~Conflict(task[f], task[e])
      BY <2>2 DEF Conflict
    <2> QED BY <2>2, <2>3, <2>4, <2>5 DEF ScopeInv, Conflict
  <1> QED BY <1>2, <1>3, HeldStep

THEOREM ClaimCorrect == Spec => [](TypeOK /\ ClaimInv /\ ScopeInv)
  <1>1. Init => ClaimInv /\ ScopeInv
    BY DEF Init, ClaimInv, Fine, ScopeInv, Held, Live, Working
  <1>2. TypeOK /\ ClaimInv /\ ScopeInv /\ [Next]_vars => ClaimInv' /\ ScopeInv'
    BY ClaimStep, ScopeStep
  <1> QED BY <1>1, <1>2, TypeCorrect, PTL DEF Spec

\* Two executions that may both write, or whose work awaits recovery, never own
\* a common scope, whatever crashes, lapses, is suspended or fails to write.
THEOREM ScopesAreExclusive == Spec => []ScopesExclusive
  <1>1. TypeOK /\ ClaimInv /\ ScopeInv => ScopesExclusive
    <2>1. ASSUME ClaimInv PROVE \A e \in Exec : Owns(e) => e \in Held
      BY <2>1 DEF ClaimInv, Fine, Owns, Held
    <2> QED BY <2>1 DEF ScopeInv, ScopesExclusive
  <1> QED BY <1>1, ClaimCorrect, PTL

------------------------------------------------------------------------------
(* The ledger implements WriteScopes. *)

LEMMA OwnerIs ==
    /\ \A e \in Exec : Owner[e] \in {"free", "held", "kept", "gone"}
    /\ \A e \in Exec : Owner[e] = "free" <=> state[e] \notin {"QUARANTINED", "RUNNING", "RELEASED"}
    /\ Promise!Owned = Held
  BY DEF Owner, OwnerOf, Promise!Owned, Held

\* Expired claims are given up for lost.
LEMMA ReapStep ==
    ASSUME TypeOK, ClaimInv
    PROVE  /\ Expired \in SUBSET Held
           /\ \A e \in Exec : ReapedState[e] = IF e \in Expired THEN "QUARANTINED" ELSE state[e]
  BY DEF Expired, ReapedState, ClaimInv, Fine, Held

\* The steps that change a claim's state: a reaping, a grant, the end of one.
LEMMA StateStep ==
    ASSUME TypeOK, ClaimInv, [Next]_vars
    PROVE  \/ UNCHANGED state
           \/ state' = ReapedState /\ UNCHANGED main
           \/ \E e \in Exec : ClaimGranted(e)
           \/ \E e \in Exec : Release(e) /\ pc[e] \in Live /\ UNCHANGED main
           \/ \E e \in Exec : Quarantine(e) /\ UNCHANGED main
  <1>1. ASSUME NEW e \in Exec, Admission(e), ~ClaimGranted(e)
        PROVE  UNCHANGED state \/ (state' = ReapedState /\ UNCHANGED main)
    BY <1>1
       DEF Admission, PickNothing, ClaimAttemptCap, ClaimQuarantined, ClaimDeferred,
           ReapExpired, claimVars, worldVars
  <1>2. ASSUME NEW e \in Exec, EngineTurn(e) \/ QueueStep(e) \/ MergeTimeout(e)
        PROVE  UNCHANGED state \/ (state' = ReapedState /\ UNCHANGED main)
    BY <1>2
       DEF EngineTurn, Nudge, AdmitAdditionalTurn, RefuseAdditionalTurn, QueueStep,
           AcquireMergeCaptain, PollRefused, MergeTimeout, ReapExpired, claimVars, worldVars
  <1>3. ASSUME NEW e \in Exec, EngineEnd(e)
        PROVE  \/ UNCHANGED state
               \/ Release(e) /\ pc[e] \in Live /\ UNCHANGED main
               \/ Quarantine(e) /\ UNCHANGED main
    BY <1>3
       DEF EngineEnd, RunSucceeds, RunFails, InfraRetry, QuarantineRun, Live, claimVars, worldVars
  <1>4. ASSUME NEW e \in Exec, CandidateStep(e) \/ TurnStep(e)
        PROVE  UNCHANGED state
    BY <1>4
       DEF CandidateStep, CandidateRejected, PauseCandidate, MarkPaused, Enqueue,
           EnqueueRefused, TurnStep, TurnFails, FastForward, Rebase, LeaveTurn,
           TurnWriteFails, FinishMerge, Recover, claimVars
  <1>5. ASSUME NEW e \in Exec, ReportStep(e)
        PROVE  \/ UNCHANGED state
               \/ Release(e) /\ pc[e] \in Live /\ UNCHANGED main
               \/ Quarantine(e) /\ UNCHANGED main
    BY <1>5
       DEF ReportStep, ReportDone, ReportFails, ReportBlocked, Close, CloseUnconfirmed, Live,
           claimVars, worldVars
  <1> QED
    BY <1>1, <1>2, <1>3, <1>4, <1>5
       DEF Next, Progress, StartCycle, Crash, ToggleStop, LapseClaim, Heartbeat,
           LapseCaptain, RenewMergeCaptain, claimVars, vars

\* main grows by a fast-forward and by nothing else.
LEMMA MainStep ==
    ASSUME [Next]_vars
    PROVE  UNCHANGED main \/ \E e \in Exec : FastForward(e)
  <1>1. ASSUME NEW e \in Exec, Admission(e) \/ EngineTurn(e) \/ EngineEnd(e)
        PROVE  UNCHANGED main
    BY <1>1
       DEF Admission, PickNothing, ClaimAttemptCap, ClaimQuarantined, ClaimDeferred,
           ClaimGranted, EngineTurn, Nudge, AdmitAdditionalTurn, RefuseAdditionalTurn,
           EngineEnd, RunSucceeds, RunFails, InfraRetry, QuarantineRun, worldVars
  <1>2. ASSUME NEW e \in Exec, CandidateStep(e) \/ QueueStep(e) \/ MergeTimeout(e)
        PROVE  UNCHANGED main
    BY <1>2
       DEF CandidateStep, CandidateRejected, PauseCandidate, MarkPaused, Enqueue,
           EnqueueRefused, QueueStep, AcquireMergeCaptain, PollRefused, MergeTimeout,
           ReapExpired, worldVars
  <1>3. ASSUME NEW e \in Exec, TurnStep(e), ~FastForward(e) PROVE UNCHANGED main
    BY <1>3
       DEF TurnStep, TurnFails, Rebase, LeaveTurn, TurnWriteFails, FinishMerge, Recover, worldVars
  <1>4. ASSUME NEW e \in Exec, ReportStep(e) PROVE UNCHANGED main
    BY <1>4
       DEF ReportStep, ReportDone, ReportFails, ReportBlocked, Close, CloseUnconfirmed, worldVars
  <1> QED
    BY <1>1, <1>2, <1>3, <1>4
       DEF Next, Progress, StartCycle, Crash, ToggleStop, LapseClaim, Heartbeat,
           LapseCaptain, RenewMergeCaptain, worldVars, vars

\* The kept claims of a step, by what it does to the states.
LEMMA KeepStep ==
    ASSUME NEW K \in SUBSET Exec, UNCHANGED main,
           \A e \in Exec : state'[e] = IF e \in K THEN "QUARANTINED" ELSE state[e]
    PROVE  Promise!Keep(K)
  BY DEF Promise!Keep, Promise!After, Owner, OwnerOf, Landed

LEMMA AdmitStep ==
    ASSUME TypeOK, ClaimInv, NEW e \in Exec, ClaimGranted(e)
    PROVE  Promise!Admit(e, Expired)
  <1>1. state[e] = "NONE" /\ Owner[e] = "free"
    BY DEF ClaimGranted, ClaimInv, Fine, Owner, OwnerOf
  <1>2. Owner' = [Promise!After(Expired) EXCEPT ![e] = "held"]
    <2>1. \A f \in Exec : state'[f] = IF f = e THEN "RUNNING"
                                      ELSE IF f \in Expired THEN "QUARANTINED" ELSE state[f]
      BY ReapTypes DEF ClaimGranted, ReapedState, TypeOK
    <2> QED BY <2>1 DEF Owner, OwnerOf, Promise!After
  <1>3. \A f \in Promise!Owned : Promise!Apart(task[e], task[f])
    BY OwnerIs, ReapKeeps DEF ClaimGranted, OwnershipConflict, Conflict, Promise!Apart, TypeOK
  <1>4. UNCHANGED Landed
    BY DEF ClaimGranted, worldVars, Landed
  <1> QED BY <1>1, <1>2, <1>3, <1>4 DEF Promise!Admit

LEMMA GiveStep ==
    ASSUME TypeOK, ClaimInv, NEW e \in Exec, pc[e] \in Live, Release(e), UNCHANGED main
    PROVE  Promise!Give(e) \/ Promise!Keep({})
  <1>1. CASE UNCHANGED state
    BY <1>1, KeepStep
  <1>2. CASE active[e] /\ state' = [state EXCEPT ![e] = "RELEASED"]
    <2>1. state[e] = "RUNNING"
      BY <1>2 DEF ClaimInv, Fine
    <2>2. Owner' = [Owner EXCEPT ![e] = "gone"]
      BY <1>2 DEF Owner, OwnerOf, TypeOK, LedgerOK
    <2> QED BY <2>1, <2>2 DEF Promise!Give, Owner, OwnerOf, Landed
  <1> QED BY <1>1, <1>2 DEF Release, TypeOK, LedgerOK

\* The sequence of who landed, from the sequence of what landed.
LEMMA ByIsSeq ==
    ASSUME NEW s \in Seq([by : Exec, gated : Nat]), NEW t, t = [i \in DOMAIN s |-> s[i].by]
    PROVE  /\ t \in Seq(Exec)
           /\ Len(t) = Len(s)
           /\ \A i \in 1 .. Len(s) : t[i] = s[i].by
  <1>0. Len(s) \in Nat /\ DOMAIN s = 1 .. Len(s)
    BY LenProperties
  <1>1. \A i \in 1 .. Len(s) : s[i] \in [by : Exec, gated : Nat]
    BY ElementOfSeq
  <1>2. t \in [1 .. Len(s) -> Exec]
    BY <1>0, <1>1
  <1> QED BY <1>0, <1>2

LEMMA LandStep ==
    ASSUME TypeOK, ClaimInv, NEW e \in Exec, FastForward(e)
    PROVE  Promise!Land(e)
  <1>1. e \in Promise!Owned
    BY OwnerIs DEF FastForward, InTurn, ClaimInv, Fine, Live, Working, Held
  <1>2. PICK m \in [by : Exec, gated : Nat] : m.by = e /\ main' = Append(main, m)
    <2> DEFINE g == IF pc[e] = "verifying" THEN frame[e].base ELSE frame[e].gated
    <2>1. g \in Nat
      BY DEF TypeOK, FrameOK, Frame
    <2> QED BY <2>1 DEF FastForward
  <1>3. main \in Seq([by : Exec, gated : Nat])
    BY DEF TypeOK, WorldOK
  <1>4. Landed' = Append(Landed, e)
    <2>1. /\ Landed \in Seq(Exec)
          /\ Len(Landed) = Len(main)
          /\ \A i \in 1 .. Len(main) : Landed[i] = main[i].by
      BY <1>3, ByIsSeq, ZenonT(60) DEF Landed
    <2>2. Append(main, m) \in Seq([by : Exec, gated : Nat])
      BY <1>2, <1>3
    <2>3. /\ Landed' \in Seq(Exec)
          /\ Len(Landed') = Len(main) + 1
          /\ \A i \in 1 .. Len(main) + 1 : Landed'[i] = Append(main, m)[i].by
      <3>1. Landed' = [i \in DOMAIN Append(main, m) |-> Append(main, m)[i].by]
        BY <1>2 DEF Landed
      <3>2. Len(Append(main, m)) = Len(main) + 1
        BY <1>2, <1>3
      <3> QED BY <2>2, <3>1, <3>2, ByIsSeq, ZenonT(60)
    <2>4. /\ Append(Landed, e) \in Seq(Exec)
          /\ Len(Append(Landed, e)) = Len(main) + 1
      BY <2>1
    <2>5. ASSUME NEW i \in 1 .. Len(main) + 1 PROVE Landed'[i] = Append(Landed, e)[i]
      BY <1>2, <1>3, <2>1, <2>3, SMTT(40)
    <2> QED BY <2>3, <2>4, <2>5, SeqEqual
  <1>5. UNCHANGED Owner
    BY DEF FastForward, claimVars, Owner, OwnerOf
  <1> QED BY <1>1, <1>4, <1>5 DEF Promise!Land

\* Whatever the schedulers do, what a reader of the ledger sees is an owner
\* table in which owners never overlap and only owners land on main.
THEOREM LedgerKeepsPromise == Spec => KeepsPromise
  <1>1. Init => Promise!Init
    BY DEF Init, Promise!Init, Owner, OwnerOf, Landed
  <1>2. ASSUME TypeOK, ClaimInv, [Next]_vars PROVE Promise!Next
    <2>1. \A e \in Exec : Owner[e] # "free" => task'[e] = task[e]
      BY <1>2, HeldStep, OwnerIs
    <2>2. \/ \E K \in SUBSET Promise!Owned : Promise!Keep(K) \/ \E e \in Exec : Promise!Admit(e, K)
          \/ \E e \in Exec : Promise!Give(e) \/ Promise!Land(e)
      <3>1. CASE \E e \in Exec : FastForward(e)
        BY <1>2, <3>1, LandStep
      <3>2. CASE \E e \in Exec : ClaimGranted(e)
        BY <1>2, <3>2, AdmitStep, ReapStep, OwnerIs
      <3>3. CASE UNCHANGED state /\ UNCHANGED main
        <4>1. Promise!Keep({})
          BY <3>3, KeepStep
        <4> QED BY <4>1
      <3>4. CASE state' = ReapedState /\ UNCHANGED main
        BY <1>2, <3>4, KeepStep, ReapStep, OwnerIs DEF Held
      <3>5. CASE \E e \in Exec : Release(e) /\ pc[e] \in Live /\ UNCHANGED main
        BY <1>2, <3>5, GiveStep
      <3>6. ASSUME NEW e \in Exec, Quarantine(e), UNCHANGED main
            PROVE  \E K \in SUBSET Promise!Owned : Promise!Keep(K)
        <4>1. CASE active[e]
          <5>1. {e} \in SUBSET Promise!Owned
            BY <1>2, <4>1, OwnerIs DEF ClaimInv, Fine, Held
          <5>2. Promise!Keep({e})
            BY <1>2, <3>6, <4>1, KeepStep DEF Quarantine, TypeOK, LedgerOK
          <5> QED BY <5>1, <5>2
        <4>2. CASE ~active[e]
          <5>1. UNCHANGED state
            BY <1>2, <3>6, <4>2 DEF Quarantine, TypeOK, LedgerOK
          <5>2. Promise!Keep({})
            BY <3>6, <5>1, KeepStep
          <5> QED BY <5>2
        <4> QED BY <4>1, <4>2
      <3> QED BY <1>2, <3>1, <3>2, <3>3, <3>4, <3>5, <3>6, StateStep, MainStep
    <2> QED BY <2>1, <2>2 DEF Promise!Next
  <1> QED BY <1>1, <1>2, ClaimCorrect, PTL DEF Spec, KeepsPromise, Promise!Spec

------------------------------------------------------------------------------
(***************************************************************************)
(* What lands was verified where it lands.  An execution that waits for,   *)
(* or enters, the merge turn passed its gate on its fork point; a rebase   *)
(* moves it to "verifying", where the landing gate is the rebased one.     *)
(***************************************************************************)

GateInv == \A e \in Exec : pc[e] \in {"queued", "merging"} => frame[e].gated = frame[e].base

LEMMA GateStep == ASSUME TypeOK, GateInv, [Next]_vars PROVE GateInv'
  <1> USE DEF GateInv, TypeOK, PcOK, FrameOK, Frame
  <1>1. ASSUME NEW e \in Exec, Admission(e) PROVE GateInv'
    <2>1. CASE ClaimGranted(e)
      BY <2>1 DEF ClaimGranted, Goto
    <2>2. CASE Return({e}, "ended")
      BY <2>2 DEF Return
    <2> QED
      BY <1>1, <2>1, <2>2
         DEF Admission, PickNothing, ClaimAttemptCap, ClaimQuarantined, ClaimDeferred
  <1>2. ASSUME NEW e \in Exec, EngineTurn(e) PROVE GateInv'
    BY <1>2 DEF EngineTurn, Nudge, AdmitAdditionalTurn, RefuseAdditionalTurn
  <1>3. ASSUME NEW e \in Exec, EngineEnd(e) PROVE GateInv'
    BY <1>3 DEF EngineEnd, RunSucceeds, RunFails, InfraRetry, QuarantineRun, Goto, Return, Idle
  <1>4. ASSUME NEW e \in Exec, CandidateStep(e) PROVE GateInv'
    BY <1>4
       DEF CandidateStep, CandidateRejected, PauseCandidate, MarkPaused, Enqueue,
           EnqueueRefused, Goto
  <1>5. ASSUME NEW e \in Exec, QueueStep(e) \/ MergeTimeout(e) PROVE GateInv'
    BY <1>5 DEF QueueStep, AcquireMergeCaptain, PollRefused, MergeTimeout, Goto
  <1>6. ASSUME NEW e \in Exec, TurnStep(e) PROVE GateInv'
    BY <1>6
       DEF TurnStep, TurnFails, FastForward, Rebase, LeaveTurn, TurnWriteFails,
           FinishMerge, Recover, InTurn, Goto
  <1>7. ASSUME NEW e \in Exec, ReportStep(e) PROVE GateInv'
    <2>1. CASE EndFrame(e)
      <3>1. ASSUME NEW f \in Exec, pc'[f] \in {"queued", "merging"}
            PROVE  frame'[f].gated = frame[f].gated /\ frame'[f].base = frame[f].base /\ pc'[f] = pc[f]
        BY <2>1, <3>1 DEF EndFrame, Goto
      <3> QED BY <3>1
    <2> QED
      BY <1>7, <2>1
         DEF ReportStep, ReportDone, ReportFails, ReportBlocked, Close, CloseUnconfirmed, Goto
  <1>8. ASSUME NEW p \in Project, StartCycle(p) PROVE GateInv'
    BY <1>8 DEF StartCycle, Idle
  <1>9. ASSUME NEW p \in Project, Crash(p) PROVE GateInv'
    BY <1>9 DEF Crash, Return
  <1>10. CASE UNCHANGED <<pc, frame>>
    BY <1>10
  <1> QED
    BY <1>1, <1>2, <1>3, <1>4, <1>5, <1>6, <1>7, <1>8, <1>9, <1>10
       DEF Next, Progress, ToggleStop, LapseClaim, Heartbeat, LapseCaptain,
           RenewMergeCaptain, vars

\* Nothing lands on a main that its last gate has not seen.
THEOREM LandedIsVerified == Spec => []LandedVerified
  <1>1. Init => GateInv /\ LandedVerified
    BY DEF Init, GateInv, LandedVerified
  <1>2. ASSUME TypeOK, GateInv, LandedVerified, [Next]_vars PROVE LandedVerified'
    <2>1. CASE UNCHANGED main
      BY <1>2, <2>1 DEF LandedVerified
    <2>2. ASSUME NEW e \in Exec, FastForward(e) PROVE LandedVerified'
      <3> DEFINE g == IF pc[e] = "verifying" THEN frame[e].base ELSE frame[e].gated
                 m == [by |-> e, gated |-> g]
      <3>1. g = Len(main)
        BY <1>2, <2>2 DEF FastForward, InTurn, GateInv
      <3>2. main \in Seq([by : Exec, gated : Nat]) /\ m \in [by : Exec, gated : Nat]
        BY <1>2, <3>1 DEF TypeOK, WorldOK
      <3>3. main' = Append(main, m)
        BY <2>2 DEF FastForward
      <3>4. DOMAIN main = 1 .. Len(main) /\ Len(main) \in Nat
        BY <3>2, LenProperties
      <3>5. DOMAIN main' = 1 .. Len(main) + 1
        BY <3>2, <3>3, <3>4
      <3>6. ASSUME NEW i \in DOMAIN main' PROVE main'[i].gated = i - 1
        <4>1. CASE i = Len(main) + 1
          BY <3>1, <3>2, <3>3, <3>4, <4>1
        <4>2. CASE i # Len(main) + 1
          BY <1>2, <3>2, <3>3, <3>4, <3>5, <4>2 DEF LandedVerified
        <4> QED BY <4>1, <4>2
      <3> QED BY <3>6 DEF LandedVerified
    <2> QED BY <1>2, <2>1, <2>2, MainStep
  <1> QED BY <1>1, <1>2, GateStep, TypeCorrect, PTL DEF Spec

------------------------------------------------------------------------------
(***************************************************************************)
(* The merge turn.  A process that is never suspended for longer than a    *)
(* lease renews it in time, so whoever is in the turn is the captain and   *)
(* its lease has not lapsed: that is what makes the turn exclusive.        *)
(***************************************************************************)

CaptainInv ==
    \A e \in Exec : pc[e] \in InTurn \cup {"leaving"} => captain = e /\ ~captainLapsed

LEMMA CaptainStep ==
    ASSUME Stallable = {}, TypeOK, CaptainInv, [Next]_vars
    PROVE  CaptainInv'
  <1> USE DEF CaptainInv, TypeOK, PcOK, InTurn
  <1>0. ASSUME NEW e \in Exec, pc[e] \in InTurn \cup {"leaving"} PROVE ReapedCaptain = e
    BY <1>0 DEF ReapedCaptain
  <1>1. ASSUME NEW e \in Exec, Admission(e) PROVE CaptainInv'
    BY <1>1, <1>0
       DEF Admission, PickNothing, ClaimAttemptCap, ClaimQuarantined, ClaimDeferred,
           ClaimGranted, ReapExpired, Goto, Return, queueVars
  <1>2. ASSUME NEW e \in Exec, EngineTurn(e) PROVE CaptainInv'
    BY <1>2, <1>0
       DEF EngineTurn, Nudge, AdmitAdditionalTurn, RefuseAdditionalTurn, ReapExpired, queueVars
  <1>3. ASSUME NEW e \in Exec, EngineEnd(e) PROVE CaptainInv'
    BY <1>3
       DEF EngineEnd, RunSucceeds, RunFails, InfraRetry, QuarantineRun, Goto, Return, Idle, queueVars
  <1>4. ASSUME NEW e \in Exec, CandidateStep(e) PROVE CaptainInv'
    BY <1>4
       DEF CandidateStep, CandidateRejected, PauseCandidate, MarkPaused, Enqueue,
           EnqueueRefused, Goto, queueVars
  <1>5. ASSUME NEW e \in Exec, QueueStep(e) \/ MergeTimeout(e) PROVE CaptainInv'
    <2>1. CASE AcquireMergeCaptain(e)
      <3>1. \A f \in Exec : pc[f] \in InTurn \cup {"leaving"} => f = e
        BY <1>0, <2>1, TeamAssumption DEF AcquireMergeCaptain, MayAcquire
      <3> QED BY <2>1, <3>1 DEF AcquireMergeCaptain, Goto
    <2>2. CASE PollRefused(e) \/ MergeTimeout(e)
      BY <2>2, <1>0 DEF PollRefused, MergeTimeout, ReapExpired, Goto
    <2> QED BY <1>5, <2>1, <2>2 DEF QueueStep
  <1>6. ASSUME NEW e \in Exec, TurnStep(e) PROVE CaptainInv'
    BY <1>6
       DEF TurnStep, TurnFails, FastForward, Rebase, LeaveTurn, TurnWriteFails,
           FinishMerge, Recover, Goto, queueVars
  <1>7. ASSUME NEW e \in Exec, ReportStep(e) PROVE CaptainInv'
    BY <1>7
       DEF ReportStep, ReportDone, ReportFails, ReportBlocked, Close, CloseUnconfirmed,
           EndFrame, Goto, queueVars
  <1>8. ASSUME NEW p \in Project, StartCycle(p) \/ Crash(p) PROVE CaptainInv'
    BY <1>8 DEF StartCycle, Crash, Return, Idle, queueVars
  <1>9. CASE LapseCaptain
    BY <1>9 DEF LapseCaptain, Suspended
  <1>10. CASE RenewMergeCaptain
    BY <1>10 DEF RenewMergeCaptain
  <1>11. CASE UNCHANGED <<pc, captain, captainLapsed>>
    BY <1>11
  <1> QED
    BY <1>1, <1>2, <1>3, <1>4, <1>5, <1>6, <1>7, <1>8, <1>9, <1>10, <1>11
       DEF Next, Progress, ToggleStop, LapseClaim, Heartbeat, queueVars, vars

\* As long as no process is suspended for longer than a lease, two executions
\* are never in the merge function at once, across daemons and crashes.
THEOREM MergeTurnExclusive ==
    ASSUME Stallable = {}
    PROVE  Spec => []MergeMutex
  <1>1. Init => CaptainInv
    BY DEF Init, CaptainInv, InTurn
  <1>2. CaptainInv => MergeMutex
    BY DEF CaptainInv, MergeMutex
  <1>3. TypeOK /\ CaptainInv /\ [Next]_vars => CaptainInv'
    BY CaptainStep
  <1> QED BY <1>1, <1>2, <1>3, TypeCorrect, PTL DEF Spec

\* The only step into the merge function is the grant of the turn.
LEMMA TurnMoves ==
    ASSUME TypeOK, [Next]_vars
    PROVE  \/ \E e \in Exec : AcquireMergeCaptain(e)
           \/ \A f \in Exec : pc'[f] \in InTurn => pc[f] \in InTurn
  <1> USE DEF TypeOK, PcOK, InTurn
  <1> DEFINE Out == \A f \in Exec : pc'[f] \in InTurn => pc[f] \in InTurn
  <1>1. ASSUME NEW e \in Exec, Admission(e) \/ EngineTurn(e) \/ EngineEnd(e) PROVE Out
    BY <1>1
       DEF Admission, PickNothing, ClaimAttemptCap, ClaimQuarantined, ClaimDeferred,
           ClaimGranted, EngineTurn, Nudge, AdmitAdditionalTurn, RefuseAdditionalTurn,
           EngineEnd, RunSucceeds, RunFails, InfraRetry, QuarantineRun, Goto, Return, Idle
  <1>2. ASSUME NEW e \in Exec, CandidateStep(e) PROVE Out
    BY <1>2
       DEF CandidateStep, CandidateRejected, PauseCandidate, MarkPaused, Enqueue,
           EnqueueRefused, Goto
  <1>3. ASSUME NEW e \in Exec, PollRefused(e) \/ MergeTimeout(e) PROVE Out
    BY <1>3 DEF PollRefused, MergeTimeout, Goto
  <1>4. ASSUME NEW e \in Exec, TurnStep(e) PROVE Out
    BY <1>4
       DEF TurnStep, TurnFails, FastForward, Rebase, LeaveTurn, TurnWriteFails, FinishMerge,
           Recover, Goto
  <1>5. ASSUME NEW e \in Exec, ReportStep(e) PROVE Out
    BY <1>5
       DEF ReportStep, ReportDone, ReportFails, ReportBlocked, Close, CloseUnconfirmed,
           EndFrame, Goto
  <1>6. ASSUME NEW p \in Project, StartCycle(p) \/ Crash(p) PROVE Out
    BY <1>6 DEF StartCycle, Crash, Return, Idle
  <1>7. CASE UNCHANGED pc
    BY <1>7
  <1> QED
    BY <1>1, <1>2, <1>3, <1>4, <1>5, <1>6, <1>7
       DEF Next, Progress, QueueStep, ToggleStop, LapseClaim, Heartbeat, LapseCaptain,
           RenewMergeCaptain, vars

\* Each step of the queue is one of the promise, on the same condition.
LEMMA SerialStep ==
    ASSUME Stallable = {}, TypeOK, CaptainInv, GateInv, [Next]_vars
    PROVE  [Serial!Next]_<<{e \in Exec : pc[e] \in InTurn}, main>>
  <1> DEFINE turn == {e \in Exec : pc[e] \in InTurn}
             Enter(e) == turn = {} /\ turn' = {e} /\ UNCHANGED main
             Land(e) == /\ e \in turn /\ turn' = turn \ {e}
                        /\ main' = Append(main, [by |-> e, gated |-> Len(main)])
             Leave(e) == e \in turn /\ turn' = turn \ {e} /\ UNCHANGED main
  <1>1. \A e \in Exec : Serial!Enter(e) <=> Enter(e)
    BY DEF Serial!Enter
  <1>2. \A e \in Exec : Serial!Land(e) <=> Land(e)
    BY DEF Serial!Land
  <1>3. \A e \in Exec : Serial!Leave(e) <=> Leave(e)
    BY DEF Serial!Leave
  <1>4. ASSUME NEW e \in Exec, AcquireMergeCaptain(e) PROVE Enter(e)
    <2>1. ASSUME NEW f \in Exec, pc[f] \in InTurn PROVE FALSE
      <3>1. captain = f /\ ~captainLapsed /\ f # e
        BY <1>4, <2>1 DEF CaptainInv, InTurn, AcquireMergeCaptain
      <3>2. ReapedCaptain = f
        BY <2>1, <3>1 DEF ReapedCaptain
      <3> QED BY <1>4, <3>1, <3>2, TeamAssumption DEF AcquireMergeCaptain, MayAcquire
    <2>2. turn' = {e} /\ UNCHANGED main
      BY <1>4, <2>1 DEF AcquireMergeCaptain, Goto, worldVars, InTurn, TypeOK, PcOK
    <2> QED BY <2>1, <2>2
  <1>5. ASSUME NEW e \in Exec, FastForward(e) PROVE Land(e)
    BY <1>5 DEF FastForward, Goto, InTurn, GateInv, TypeOK, PcOK
  <1>6. CASE UNCHANGED main /\ \A f \in Exec : pc'[f] \in InTurn => pc[f] \in InTurn
    <2>1. \A e, f \in turn : e = f
      BY DEF CaptainInv
    <2>2. turn' \subseteq turn
      BY <1>6
    <2>3. turn' = turn \/ \E e \in turn : turn' = turn \ {e}
      BY <2>1, <2>2
    <2> QED BY <1>3, <1>6, <2>3 DEF Serial!Next
  <1>7. UNCHANGED main \/ \E e \in Exec : FastForward(e)
    BY MainStep
  <1>8. \/ \E e \in Exec : AcquireMergeCaptain(e)
        \/ \A f \in Exec : pc'[f] \in InTurn => pc[f] \in InTurn
    BY TurnMoves
  <1> QED BY <1>1, <1>2, <1>4, <1>5, <1>6, <1>7, <1>8 DEF Serial!Next

\* Merges into main are serial, across daemons and crashes: one execution at a time is in the
\* merge function, lands there at most once, and lands what was verified on that main.
THEOREM MergesAreSerial ==
    ASSUME Stallable = {}
    PROVE  Spec => Serial!Spec
  <1>1. Init => CaptainInv /\ GateInv /\ Serial!Init
    BY DEF Init, CaptainInv, GateInv, InTurn, Serial!Init
  <1>2. TypeOK /\ CaptainInv /\ [Next]_vars => CaptainInv'
    BY CaptainStep
  <1>3. TypeOK /\ GateInv /\ [Next]_vars => GateInv'
    BY GateStep
  <1>4. TypeOK /\ CaptainInv /\ GateInv /\ [Next]_vars =>
            [Serial!Next]_<<{e \in Exec : pc[e] \in InTurn}, main>>
    BY SerialStep
  <1> QED BY <1>1, <1>2, <1>3, <1>4, TypeCorrect, PTL DEF Spec, Serial!Spec

------------------------------------------------------------------------------
(***************************************************************************)
(* The queue never outlives its claims.  A claim is only given back by an  *)
(* execution that is past the queue, and a reaped claim takes its row.     *)
(***************************************************************************)

RowInv ==
    \A e \in Exec :
        /\ row[e] \in Waiting => active[e]
        /\ pc[e] \in {"idle", "picking", "running", "produced"} => row[e] = "NONE"
        /\ pc[e] \in {"closing", "reporting"} => row[e] \notin Waiting

LEMMA RowStep ==
    ASSUME MaxFaults = 0, TypeOK, ClaimInv, RowInv, [Next]_vars
    PROVE  RowInv'
  <1> USE DEF RowInv, TypeOK, PcOK, LedgerOK, Waiting
  <1>0. ~Fault
    BY DEF Fault, WorldOK
  <1>a. \A e \in Exec :
          /\ ReapedRow[e] \in Waiting => ReapedActive[e] /\ row[e] \in Waiting
          /\ row[e] = "NONE" => ReapedRow[e] = "NONE"
    BY DEF ReapedRow, ReapedActive
  <1>1. ASSUME NEW e \in Exec, Admission(e) PROVE RowInv'
    <2>1. CASE ClaimGranted(e)
      <3>1. ASSUME NEW f \in Exec
            PROVE  /\ row'[f] \in Waiting => active'[f]
                   /\ pc'[f] \in {"idle", "picking", "running", "produced"} => row'[f] = "NONE"
                   /\ pc'[f] \in {"closing", "reporting"} => row'[f] \notin Waiting
        BY <1>a, <2>1, ReapTypes DEF ClaimGranted, Goto
      <3> QED BY <3>1
    <2>2. CASE Return({e}, "ended") /\ (ReapExpired \/ UNCHANGED <<row, active>>)
      BY <2>2, <1>a DEF Return, ReapExpired
    <2> QED
      BY <1>1, <2>1, <2>2
         DEF Admission, PickNothing, ClaimAttemptCap, ClaimQuarantined, ClaimDeferred,
             claimVars, queueVars
  <1>2. ASSUME NEW e \in Exec, EngineTurn(e) PROVE RowInv'
    BY <1>2, <1>a
       DEF EngineTurn, Nudge, AdmitAdditionalTurn, RefuseAdditionalTurn, ReapExpired,
           claimVars, queueVars
  <1>3. ASSUME NEW e \in Exec, EngineEnd(e) PROVE RowInv'
    BY <1>3, <1>0
       DEF EngineEnd, RunSucceeds, RunFails, InfraRetry, QuarantineRun, Release, Goto,
           Return, Idle, claimVars, queueVars
  <1>4. ASSUME NEW e \in Exec, CandidateStep(e) PROVE RowInv'
    BY <1>4, <1>0
       DEF CandidateStep, CandidateRejected, PauseCandidate, MarkPaused, Enqueue,
           EnqueueRefused, InsertRow, Goto, claimVars, queueVars
  <1>5. ASSUME NEW e \in Exec, QueueStep(e) \/ MergeTimeout(e) PROVE RowInv'
    <2>1. CASE AcquireMergeCaptain(e)
      BY <2>1, <1>a, ReapTypes DEF AcquireMergeCaptain, MayAcquire, Goto
    <2>2. CASE PollRefused(e) \/ MergeTimeout(e)
      BY <2>2, <1>a DEF PollRefused, MergeTimeout, ReapExpired, Goto
    <2> QED BY <1>5, <2>1, <2>2 DEF QueueStep
  <1>6. ASSUME NEW e \in Exec, TurnStep(e) PROVE RowInv'
    BY <1>6, <1>0
       DEF TurnStep, TurnFails, FastForward, Rebase, LeaveTurn, TurnWriteFails,
           FinishMerge, RowFor, Recover, InTurn, Goto, claimVars, queueVars
  <1>7. ASSUME NEW e \in Exec, ReportStep(e) PROVE RowInv'
    BY <1>7, <1>0
       DEF ReportStep, ReportDone, ReportFails, ReportBlocked, Close, CloseUnconfirmed,
           Release, EndFrame, Goto, claimVars, queueVars
  <1>8. ASSUME NEW p \in Project, StartCycle(p) \/ Crash(p) PROVE RowInv'
    BY <1>8 DEF StartCycle, Crash, Return, Idle, claimVars, queueVars
  <1>9. CASE UNCHANGED <<pc, row, active>>
    BY <1>9
  <1> QED
    BY <1>1, <1>2, <1>3, <1>4, <1>5, <1>6, <1>7, <1>8, <1>9
       DEF Next, Progress, ToggleStop, LapseClaim, Heartbeat, LapseCaptain,
           RenewMergeCaptain, claimVars, queueVars, vars

\* When no write fails, a row that waits for the turn belongs to an active
\* claim: crashes alone never leave the queue with a head nobody can remove.
THEOREM QueueHasNoOrphans ==
    ASSUME MaxFaults = 0
    PROVE  Spec => []NoOrphanRow
  <1>1. Init => RowInv
    BY DEF Init, RowInv, Waiting
  <1>2. RowInv => NoOrphanRow
    BY DEF RowInv, NoOrphanRow
  <1>3. TypeOK /\ ClaimInv /\ RowInv /\ [Next]_vars => RowInv'
    BY RowStep
  <1> QED BY <1>1, <1>2, <1>3, ClaimCorrect, PTL DEF Spec

------------------------------------------------------------------------------
(***************************************************************************)
(* A settled row is final.  finishMerge compares neither token nor state,  *)
(* so it is the callers that keep it from rewriting one: as long as no     *)
(* process is suspended beyond a lease, a claim lapses only once its       *)
(* execution is over, hence nobody quarantines the row of an execution     *)
(* that is still in the chain, and each of its writes finds it waiting.    *)
(***************************************************************************)

SettleInv ==
    \A e \in Exec :
        /\ pc[e] \in Live /\ active[e] => ~lapsed[e]
        /\ pc[e] \in {"idle", "picking", "running", "produced"} => row[e] = "NONE"
        /\ pc[e] \in Chained => row[e] \in Waiting
        /\ pc[e] = "pausing" => row[e] \in {"READY", "PAUSED_READY"}
        /\ pc[e] = "reporting" /\ frame[e].result = "paused" => row[e] = "PAUSED_READY"

\* The reaping leaves the rows of live executions among those that wait, and settled
\* rows alone.
LEMMA ReapSettles ==
    ASSUME TypeOK, SettleInv, NEW e \in Exec
    PROVE  /\ row[e] \in {"DONE", "BLOCKED", "QUARANTINED", "PAUSED_READY", "NONE"}
                => ReapedRow[e] = row[e]
           /\ pc[e] \in Live /\ row[e] \in Waiting => ReapedRow[e] \in Waiting
           /\ pc[e] \in Live /\ row[e] = "READY" => ReapedRow[e] = "READY"
  BY DEF TypeOK, LedgerOK, SettleInv, ReapedRow, Expired, Waiting

\* What a step does to settled rows.
Kept == \A e \in Exec : row[e] \in {"DONE", "BLOCKED", "QUARANTINED"} => row'[e] = row[e]

LEMMA SettleStep ==
    ASSUME Stallable = {}, TypeOK, ClaimInv, SettleInv, [Next]_vars
    PROVE  SettleInv' /\ Kept
  <1> USE DEF SettleInv, Kept, TypeOK, PcOK, FrameOK, LedgerOK, Waiting, Live, Chained
  <1>a. ASSUME NEW e \in Exec, pc[e] = "idle" PROVE ~active[e]
    BY <1>a DEF ClaimInv, Fine
  <1>1. ASSUME NEW e \in Exec, Admission(e) PROVE SettleInv' /\ Kept
    <2>1. CASE ClaimGranted(e)
      BY <2>1, ReapSettles, ReapTypes DEF ClaimGranted, Goto
    <2>2. CASE Return({e}, "ended") /\ ReapExpired
      BY <2>2, ReapSettles, ReapTypes DEF Return, ReapExpired
    <2>3. CASE Return({e}, "ended") /\ UNCHANGED <<row, active, lapsed>>
      BY <2>3 DEF Return
    <2> QED
      BY <1>1, <2>1, <2>2, <2>3
         DEF Admission, PickNothing, ClaimAttemptCap, ClaimQuarantined, ClaimDeferred,
             claimVars, queueVars
  <1>2. ASSUME NEW e \in Exec, EngineTurn(e) PROVE SettleInv' /\ Kept
    <2>1. pc' = pc /\ pc[e] = "running" /\ \A f \in Exec : f # e => frame'[f] = frame[f]
      BY <1>2 DEF EngineTurn, Nudge, AdmitAdditionalTurn, RefuseAdditionalTurn
    <2>2. CASE ReapExpired
      BY <2>1, <2>2, ReapSettles, ReapTypes DEF ReapExpired
    <2>3. CASE UNCHANGED <<claimVars, queueVars>>
      BY <2>1, <2>3 DEF claimVars, queueVars
    <2> QED BY <1>2, <2>2, <2>3 DEF EngineTurn, Nudge, AdmitAdditionalTurn, RefuseAdditionalTurn
  <1>3. ASSUME NEW e \in Exec, EngineEnd(e) PROVE SettleInv' /\ Kept
    <2>1. CASE RunSucceeds(e) \/ RunFails(e) \/ QuarantineRun(e)
      BY <2>1 DEF RunSucceeds, RunFails, QuarantineRun, Goto, Return, claimVars, queueVars
    <2>2. CASE InfraRetry(e)
      BY <2>2, <1>a DEF InfraRetry, Release, Idle, claimVars, queueVars
    <2> QED BY <1>3, <2>1, <2>2 DEF EngineEnd
  <1>4. ASSUME NEW e \in Exec, CandidateStep(e) PROVE SettleInv' /\ Kept
    <2>1. CASE CandidateRejected(e) \/ MarkPaused(e)
      BY <2>1 DEF CandidateRejected, MarkPaused, Goto, claimVars, queueVars
    <2>2. CASE PauseCandidate(e)
      BY <2>2 DEF PauseCandidate, InsertRow, Goto, claimVars
    <2>3. CASE Enqueue(e)
      <3>1. /\ pc' = [pc EXCEPT ![e] = "queued"] /\ row' = [row EXCEPT ![e] = "READY"]
            /\ UNCHANGED <<active, lapsed>>
            /\ \A f \in Exec : f # e => frame'[f] = frame[f]
        BY <2>3 DEF Enqueue, InsertRow, Goto, claimVars
      <3> QED BY <2>3, <3>1 DEF Enqueue
    <2>4. CASE EnqueueRefused(e)
      <3>1. /\ pc' = [pc EXCEPT ![e] = "reporting"] /\ UNCHANGED <<row, active, lapsed>>
            /\ frame' = [frame EXCEPT ![e].result = "recovery"]
        BY <2>4 DEF EnqueueRefused, Goto, claimVars, queueVars
      <3>2. frame'[e].result = "recovery" /\ \A f \in Exec : f # e => frame'[f] = frame[f]
        BY <3>1 DEF Frame
      <3>3. pc[e] = "produced"
        BY <2>4 DEF EnqueueRefused
      <3> QED BY <3>1, <3>2, <3>3
    <2> QED BY <1>4, <2>1, <2>2, <2>3, <2>4 DEF CandidateStep
  <1>5. ASSUME NEW e \in Exec, QueueStep(e) \/ MergeTimeout(e) PROVE SettleInv' /\ Kept
    <2>1. CASE AcquireMergeCaptain(e)
      BY <2>1, ReapSettles, ReapTypes DEF AcquireMergeCaptain, MayAcquire, Goto
    <2>2. CASE PollRefused(e) \/ MergeTimeout(e)
      BY <2>2, ReapSettles, ReapTypes DEF PollRefused, MergeTimeout, ReapExpired, Goto
    <2> QED BY <1>5, <2>1, <2>2 DEF QueueStep
  <1>6. ASSUME NEW e \in Exec, TurnStep(e) PROVE SettleInv' /\ Kept
    <2>1. \A f \in Exec : f # e => frame'[f] = frame[f] /\ pc'[f] = pc[f] /\ row'[f] = row[f]
      BY <1>6
         DEF TurnStep, TurnFails, FastForward, Rebase, LeaveTurn, TurnWriteFails, FinishMerge,
             Recover, Goto, queueVars
    <2>2. UNCHANGED <<active, lapsed>> /\ pc[e] \in Chained
      BY <1>6
         DEF TurnStep, TurnFails, FastForward, Rebase, LeaveTurn, TurnWriteFails, FinishMerge,
             Recover, InTurn, claimVars
    <2>3. CASE FinishMerge(e)
      BY <2>1, <2>2, <2>3 DEF FinishMerge, RowFor, Goto
    <2>4. CASE Recover(e)
      <3>1. \/ pc'[e] = "reporting" /\ frame'[e].result = "recovery"
            \/ pc'[e] = "closing"
        BY <2>4 DEF Recover, Goto, Frame
      <3> QED BY <2>1, <2>2, <3>1
    <2>5. CASE ~FinishMerge(e) /\ ~Recover(e)
      <3>1. pc'[e] \in Chained /\ UNCHANGED row
        BY <1>6, <2>5
           DEF TurnStep, TurnFails, FastForward, Rebase, LeaveTurn, TurnWriteFails, InTurn, Goto,
               queueVars
      <3> QED BY <2>1, <2>2, <3>1
    <2> QED BY <2>3, <2>4, <2>5
  <1>7. ASSUME NEW e \in Exec, ReportStep(e) PROVE SettleInv' /\ Kept
    <2>1. CASE EndFrame(e)
      <3>1. ASSUME NEW f \in Exec, f # e PROVE pc'[f] = pc[f] /\ frame'[f].result = frame[f].result
        BY <2>1, <3>1 DEF EndFrame, Goto, Frame
      <3>2. pc'[e] = "ended"
        BY <2>1 DEF EndFrame, Goto
      <3> QED
        BY <1>7, <2>1, <3>1, <3>2
           DEF ReportStep, ReportDone, ReportFails, ReportBlocked, Close, CloseUnconfirmed,
               Release, Goto, claimVars, queueVars
    <2> QED
      BY <1>7, <2>1
         DEF ReportStep, ReportDone, ReportFails, ReportBlocked, Close, CloseUnconfirmed,
             Goto, claimVars, queueVars
  <1>8. ASSUME NEW p \in Project, StartCycle(p) \/ Crash(p) PROVE SettleInv' /\ Kept
    BY <1>8, <1>a DEF StartCycle, Crash, Return, Idle, claimVars, queueVars
  <1>9. ASSUME NEW e \in Exec, LapseClaim(e) \/ Heartbeat(e) PROVE SettleInv' /\ Kept
    BY <1>9 DEF LapseClaim, Heartbeat, Suspended, queueVars
  <1>10. CASE UNCHANGED <<pc, frame, row, active, lapsed>>
    BY <1>10
  <1> HIDE DEF SettleInv, Kept, TypeOK, Live, Chained, Waiting
  <1> QED
    BY <1>1, <1>2, <1>3, <1>4, <1>5, <1>6, <1>7, <1>8, <1>9, <1>10
       DEF Next, Progress, ToggleStop, LapseCaptain, RenewMergeCaptain, claimVars, queueVars, vars

\* As long as no process is suspended for longer than a lease, a queue row that is done,
\* blocked or quarantined is never rewritten, whatever crashes or fails to be written
\* (finishMerge, which compares neither token nor state).
THEOREM SettledRowsStay ==
    ASSUME Stallable = {}
    PROVE  Spec => RowsFinal
  <1>1. Init => SettleInv
    BY DEF Init, SettleInv, Live, Chained
  <1>2. TypeOK /\ ClaimInv /\ SettleInv /\ [Next]_vars => SettleInv'
    BY SettleStep
  <1>3. TypeOK /\ ClaimInv /\ SettleInv /\ [Next]_vars
            => [\A e \in Exec : row[e] \in {"DONE", "BLOCKED", "QUARANTINED"} => row'[e] = row[e]]_vars
    BY SettleStep DEF Kept
  <1> QED BY <1>1, <1>2, <1>3, ClaimCorrect, PTL DEF Spec, RowsFinal

------------------------------------------------------------------------------
(***************************************************************************)
(* No task lands twice.  Two things keep a landed task from being run      *)
(* again: the claim of the execution that landed it, as long as it is      *)
(* held, and the backlog row, once it is closed.  One failing write cannot *)
(* take both away.  But a cycle that rejects while a member of its batch   *)
(* goes on lets the next cycle pick that member's task and claim it after  *)
(* the member has landed, reported and released: hence the hypothesis that *)
(* no write fails, or one at most and no cycle runs two tasks at a time.   *)
(***************************************************************************)

\* No two tasks of one configuration are ever in a batch together.
Alone ==
    \/ Concurrency = 1
    \/ \A t, u \in Task : Home[t] = Home[u] => Conflict(t, u)

FewFaults == MaxFaults = 0 \/ (MaxFaults = 1 /\ Alone)

\* Cycles never overlap: nothing is loose, and live executions have tasks of
\* their own.
CycleInv ==
    /\ faults <= MaxFaults
    /\ \A e \in Exec : ~frame[e].loose
    /\ \A e \in Exec : frame[e].result = "threw" => MaxFaults # 0
    /\ Alone => \A e, f \in Exec : /\ pc[e] \in Live /\ pc[f] \in Live
                                   /\ Home[task[e]] = Home[task[f]]
                                   => e = f
    /\ \A e, f \in Exec : pc[e] \in Live /\ pc[f] \in Live /\ task[e] = task[f] => e = f

LEMMA AtMostOne ==
    ASSUME NEW S, IsFiniteSet(S), S # {}, Cardinality(S) <= 1
    PROVE  \A x, y \in S : x = y
  <1>1. \A n \in Nat : n <= 1 /\ n # 0 => n = 1
    OBVIOUS
  <1>2. Cardinality(S) = 1
    BY <1>1, FS_CardinalityType, FS_EmptySet
  <1> QED BY <1>2, FS_Singleton

LEMMA SelfConflict == \A t \in Task : Conflict(t, t)
  BY TeamAssumption DEF Conflict

\* What a step that starts nothing keeps: executions end or go on, a frame is
\* blanked or keeps its result, and nothing becomes loose.
LEMMA CycleKept ==
    ASSUME TypeOK, CycleInv, UNCHANGED task, faults' <= MaxFaults,
           \A e \in Exec : pc'[e] \in Live => pc[e] \in Live,
           \A e \in Exec : ~frame'[e].loose,
           \A e \in Exec : frame'[e].result = "threw" => MaxFaults # 0
    PROVE  CycleInv'
  BY DEF CycleInv, Alone, Conflict

LEMMA FaultBound == ASSUME TypeOK, CycleInv, [Next]_vars PROVE faults' <= MaxFaults
  <1> USE DEF Fault, BlockTask, Release
  <1>0. faults \in Nat /\ MaxFaults \in Nat /\ faults <= MaxFaults
    BY TeamAssumption DEF TypeOK, WorldOK, CycleInv
  <1>1. ASSUME NEW e \in Exec, Admission(e) \/ EngineTurn(e) PROVE faults' <= MaxFaults
    BY <1>0, <1>1
       DEF Admission, PickNothing, ClaimAttemptCap, ClaimQuarantined, ClaimDeferred,
           ClaimGranted, EngineTurn, Nudge, AdmitAdditionalTurn, RefuseAdditionalTurn
  <1>2. ASSUME NEW e \in Exec, EngineEnd(e) \/ CandidateStep(e) PROVE faults' <= MaxFaults
    BY <1>0, <1>2
       DEF EngineEnd, RunSucceeds, RunFails, InfraRetry, QuarantineRun, CandidateStep,
           CandidateRejected, PauseCandidate, MarkPaused, Enqueue, EnqueueRefused
  <1>3. ASSUME NEW e \in Exec, QueueStep(e) \/ MergeTimeout(e) \/ TurnStep(e)
        PROVE  faults' <= MaxFaults
    BY <1>0, <1>3
       DEF QueueStep, AcquireMergeCaptain, PollRefused, MergeTimeout, TurnStep, TurnFails,
           FastForward, Rebase, LeaveTurn, TurnWriteFails, FinishMerge, Recover
  <1>4. ASSUME NEW e \in Exec, ReportStep(e) PROVE faults' <= MaxFaults
    BY <1>0, <1>4
       DEF ReportStep, ReportDone, ReportFails, ReportBlocked, Close, CloseUnconfirmed
  <1> QED
    BY <1>0, <1>1, <1>2, <1>3, <1>4
       DEF Next, Progress, StartCycle, Crash, ToggleStop, LapseClaim, Heartbeat,
           LapseCaptain, RenewMergeCaptain, vars

LEMMA CycleStep ==
    ASSUME FewFaults, TypeOK, CycleInv, [Next]_vars
    PROVE  CycleInv'
  <1> USE DEF TypeOK, PcOK, FrameOK, Frame
  <1>0. faults' <= MaxFaults
    BY FaultBound
  <1>a. ASSUME NEW E \in SUBSET Exec, NEW l \in {"ended", "dead"}, Return(E, l), UNCHANGED task
        PROVE  CycleInv'
    <2>1. \A e \in Exec : pc'[e] \in Live => pc[e] \in Live
      BY <1>a DEF Return, Live
    <2>2. \A e \in Exec : frame'[e] = Blank \/ frame'[e] = frame[e]
      BY <1>a DEF Return
    <2>3. \A e \in Exec : ~frame'[e].loose /\ (frame'[e].result = "threw" => MaxFaults # 0)
      BY <2>2 DEF Blank, CycleInv
    <2> QED BY <1>0, <1>a, <2>1, <2>3, CycleKept
  <1>b. ASSUME NEW e \in Exec, NEW l \in Live \cup {"ended"}, pc[e] \in Live, Goto(e, l),
               UNCHANGED task,
               \A f \in Exec : ~frame'[f].loose,
               \A f \in Exec : frame'[f].result = "threw" => MaxFaults # 0
        PROVE  CycleInv'
    <2>1. \A f \in Exec : pc'[f] \in Live => pc[f] \in Live
      BY <1>b DEF Goto
    <2> QED BY <1>0, <1>b, <2>1, CycleKept
  <1>c. \A f \in Exec : ~frame[f].loose /\ (frame[f].result = "threw" => MaxFaults # 0)
    BY DEF CycleInv
  <1>1. ASSUME NEW e \in Exec, Admission(e) PROVE CycleInv'
    <2>1. CASE ClaimGranted(e)
      <3>1. \A f \in Exec : ~frame'[f].loose /\ (frame'[f].result = "threw" => MaxFaults # 0)
        BY <1>c, <2>1 DEF ClaimGranted
      <3> QED BY <1>b, <2>1, <3>1 DEF ClaimGranted, Live
    <2>2. CASE Return({e}, "ended") /\ UNCHANGED task
      BY <1>a, <2>2
    <2> QED
      BY <1>1, <2>1, <2>2
         DEF Admission, PickNothing, ClaimAttemptCap, ClaimQuarantined, ClaimDeferred
  <1>2. ASSUME NEW e \in Exec, EngineTurn(e) PROVE CycleInv'
    <2>1. UNCHANGED <<pc, task>>
      BY <1>2 DEF EngineTurn, Nudge, AdmitAdditionalTurn, RefuseAdditionalTurn
    <2>2. \A f \in Exec : ~frame'[f].loose /\ (frame'[f].result = "threw" => MaxFaults # 0)
      BY <1>c, <1>2 DEF EngineTurn, Nudge, AdmitAdditionalTurn, RefuseAdditionalTurn
    <2> QED BY <1>0, <2>1, <2>2, CycleKept
  <1>3. ASSUME NEW e \in Exec, EngineEnd(e) PROVE CycleInv'
    <2>1. CASE RunSucceeds(e) \/ RunFails(e)
      <3>1. UNCHANGED <<task, frame>>
        BY <2>1 DEF RunSucceeds, RunFails
      <3>2. pc[e] \in Live /\ \E l \in Live : Goto(e, l)
        BY <2>1 DEF RunSucceeds, RunFails, Live
      <3> QED BY <1>b, <1>c, <3>1, <3>2
    <2>2. CASE QuarantineRun(e)
      BY <1>a, <2>2 DEF QuarantineRun
    <2>3. CASE InfraRetry(e)
      <3>1. PICK f \in Idle :
              /\ pc' = [pc EXCEPT ![e] = "ended", ![f] = "picking"]
              /\ task' = [task EXCEPT ![f] = task[e]]
              /\ frame' = [frame EXCEPT
                              ![e] = Blank,
                              ![f] = [Blank EXCEPT !.seen = spent[ProjectOf(e)], !.retried = TRUE,
                                                   !.loose = frame[e].loose]]
        BY <2>3 DEF InfraRetry
      <3>2. f \in Exec /\ pc[f] = "idle" /\ pc[e] = "running" /\ e # f
        BY <2>3, <3>1 DEF Idle, InfraRetry
      <3>3. \A g \in Exec : pc'[g] \in Live => g = f \/ (g # e /\ g # f /\ pc[g] \in Live)
        BY <3>1, <3>2 DEF Live
      <3>4. task'[f] = task[e] /\ \A g \in Exec : g # f => task'[g] = task[g]
        BY <3>1, <3>2
      <3>5. pc[e] \in Live
        BY <3>2 DEF Live
      <3>6. \A g \in Exec : ~frame'[g].loose /\ (frame'[g].result = "threw" => MaxFaults # 0)
        BY <1>c, <3>1, <3>2 DEF Blank
      <3>7. \A g, h \in Exec : pc'[g] \in Live /\ pc'[h] \in Live /\ task'[g] = task'[h] => g = h
        BY <3>3, <3>4, <3>5 DEF CycleInv
      <3>8. Alone => \A g, h \in Exec : /\ pc'[g] \in Live /\ pc'[h] \in Live
                                        /\ Home[task'[g]] = Home[task'[h]]
                                        => g = h
        BY <3>3, <3>4, <3>5 DEF CycleInv
      <3> QED BY <1>0, <3>6, <3>7, <3>8 DEF CycleInv, Alone, Conflict
    <2> QED BY <1>3, <2>1, <2>2, <2>3 DEF EngineEnd
  <1>4. ASSUME NEW e \in Exec, CandidateStep(e) PROVE CycleInv'
    <2>1. UNCHANGED task /\ pc[e] \in Live /\ \E l \in Live : Goto(e, l)
      BY <1>4
         DEF CandidateStep, CandidateRejected, PauseCandidate, MarkPaused, Enqueue,
             EnqueueRefused, Live
    <2>2. \A f \in Exec : ~frame'[f].loose /\ (frame'[f].result = "threw" => MaxFaults # 0)
      BY <1>c, <1>4
         DEF CandidateStep, CandidateRejected, PauseCandidate, MarkPaused, Enqueue,
             EnqueueRefused
    <2> QED BY <1>b, <2>1, <2>2
  <1>5. ASSUME NEW e \in Exec, QueueStep(e) \/ MergeTimeout(e) PROVE CycleInv'
    <2>1. UNCHANGED <<task, frame>>
      BY <1>5 DEF QueueStep, AcquireMergeCaptain, PollRefused, MergeTimeout
    <2>2. \A f \in Exec : pc'[f] \in Live => pc[f] \in Live
      BY <1>5 DEF QueueStep, AcquireMergeCaptain, PollRefused, MergeTimeout, Goto, Live
    <2> QED BY <1>0, <1>c, <2>1, <2>2, CycleKept
  <1>6. ASSUME NEW e \in Exec, TurnStep(e) PROVE CycleInv'
    <2>1. UNCHANGED task /\ pc[e] \in Live /\ \E l \in Live : Goto(e, l)
      BY <1>6
         DEF TurnStep, TurnFails, FastForward, Rebase, LeaveTurn, TurnWriteFails,
             FinishMerge, Recover, InTurn, Live
    <2>2. Recover(e) /\ frame'[e].result = "threw" => MaxFaults # 0
      BY TeamAssumption DEF Recover, Fault, WorldOK
    <2>3. \A f \in Exec : ~frame'[f].loose /\ (frame'[f].result = "threw" => MaxFaults # 0)
      <3>1. CASE TurnFails(e) \/ FastForward(e) \/ Rebase(e)
        <4>1. \A f \in Exec \ {e} : frame'[f] = frame[f]
          BY <3>1 DEF TurnFails, FastForward, Rebase
        <4>2. CASE TurnFails(e)
          <5>1. PICK r \in {"paused", "refused", "recovery"} : frame' = [frame EXCEPT ![e].result = r]
            BY <4>2 DEF TurnFails
          <5> QED BY <1>c, <4>1, <5>1
        <4>3. CASE FastForward(e)
          <5>1. frame'[e].loose = frame[e].loose /\ frame'[e].result = "merged"
            BY <4>3 DEF FastForward
          <5> QED BY <1>c, <4>1, <5>1
        <4>4. CASE Rebase(e)
          BY <1>c, <4>4 DEF Rebase
        <4> QED BY <3>1, <4>2, <4>3, <4>4
      <3>2. CASE LeaveTurn(e) \/ TurnWriteFails(e) \/ FinishMerge(e)
        BY <1>c, <3>2 DEF LeaveTurn, TurnWriteFails, FinishMerge
      <3>3. CASE Recover(e)
        <4>1. \A f \in Exec \ {e} : frame'[f] = frame[f]
          BY <3>3 DEF Recover
        <4>2. ~frame'[e].loose
          BY <1>c, <3>3 DEF Recover
        <4> QED BY <1>c, <2>2, <3>3, <4>1, <4>2
      <3> QED BY <1>6, <3>1, <3>2, <3>3 DEF TurnStep
    <2> QED BY <1>b, <2>1, <2>3
  <1>7. ASSUME NEW e \in Exec, ReportStep(e) PROVE CycleInv'
    <2>1. CASE ReportDone(e) \/ ReportFails(e) \/ ReportBlocked(e)
      <3>1. UNCHANGED <<task, frame>>
        BY <2>1 DEF ReportDone, ReportFails, ReportBlocked
      <3>2. pc[e] \in Live /\ \E l \in Live : Goto(e, l)
        BY <2>1 DEF ReportDone, ReportFails, ReportBlocked, Live
      <3> QED BY <1>b, <1>c, <3>1, <3>2
    <2>2. CASE EndFrame(e) /\ pc[e] = "closing" /\ UNCHANGED task
      <3>1. ASSUME NEW f \in Exec, f # e, frame[e].result = "threw", f \in LiveIn(ProjectOf(e))
            PROVE  FALSE
        <4>1. Alone
          BY <1>c, <3>1 DEF FewFaults
        <4>2. pc[e] \in Live /\ pc[f] \in Live /\ Home[task[e]] = Home[task[f]]
          BY <2>2, <3>1 DEF LiveIn, ProjectOf, Live
        <4> QED BY <3>1, <4>1, <4>2 DEF CycleInv
      <3>2. ASSUME NEW f \in Exec PROVE frame'[f] = Blank \/ frame'[f] = frame[f]
        BY <2>2, <3>1 DEF EndFrame
      <3>3. \A f \in Exec : ~frame'[f].loose /\ (frame'[f].result = "threw" => MaxFaults # 0)
        BY <1>c, <3>2 DEF Blank
      <3>4. Goto(e, "ended") /\ pc[e] \in Live
        BY <2>2 DEF EndFrame, Live
      <3> QED BY <1>b, <2>2, <3>3, <3>4
    <2> QED
      BY <1>7, <2>1, <2>2 DEF ReportStep, Close, CloseUnconfirmed
  <1>8. ASSUME NEW p \in Project, StartCycle(p) PROVE CycleInv'
    <2>a. PICK E \in SUBSET Idle :
            /\ E # {} /\ Cardinality(E) <= Concurrency
            /\ \E pick \in [E -> {t \in Task : Home[t] = p /\ backlog[t] = "open"}] :
                /\ \A e, f \in E : e # f => ~Conflict(pick[e], pick[f])
                /\ pc' = [e \in Exec |-> IF e \in E THEN "picking" ELSE pc[e]]
                /\ task' = [e \in Exec |-> IF e \in E THEN pick[e] ELSE task[e]]
                /\ frame' = [e \in Exec |->
                                IF e \in E THEN [Blank EXCEPT !.seen = spent[p]] ELSE frame[e]]
      BY <1>8 DEF StartCycle
    <2>b. E # {} /\ Cardinality(E) <= Concurrency
      BY <2>a
    <2>1. PICK pick \in [E -> {t \in Task : Home[t] = p /\ backlog[t] = "open"}] :
            /\ \A e, f \in E : e # f => ~Conflict(pick[e], pick[f])
            /\ pc' = [e \in Exec |-> IF e \in E THEN "picking" ELSE pc[e]]
            /\ task' = [e \in Exec |-> IF e \in E THEN pick[e] ELSE task[e]]
            /\ frame' = [e \in Exec |->
                            IF e \in E THEN [Blank EXCEPT !.seen = spent[p]] ELSE frame[e]]
      BY <2>a
    <2>2. \A e \in Exec : pc[e] \in Live => Home[task[e]] # p
      BY <1>8, <1>c DEF StartCycle, LiveIn, ProjectOf
    <2>3. \A e \in E : e \in Exec /\ task'[e] \in Task /\ Home[task'[e]] = p /\ task'[e] = pick[e]
      BY <2>1 DEF Idle
    <2>4. \A e \in Exec \ E : task'[e] = task[e] /\ pc'[e] = pc[e]
      BY <2>1
    <2>5. \A e, f \in E : Conflict(task'[e], task'[f]) => e = f
      BY <2>1, <2>3
    <2>6. \A e \in Exec : pc'[e] \in Live => e \in E \/ (e \notin E /\ Home[task'[e]] # p)
      BY <2>2, <2>4
    <2>7. \A e, f \in Exec : pc'[e] \in Live /\ pc'[f] \in Live /\ task'[e] = task'[f] => e = f
      <3>1. ASSUME NEW e \in Exec, NEW f \in Exec, pc'[e] \in Live, pc'[f] \in Live,
                   task'[e] = task'[f]
            PROVE  e = f
        <4>1. CASE e \in E
          BY <2>3, <2>5, <2>6, <3>1, <4>1, SelfConflict
        <4>2. CASE e \notin E
          BY <2>3, <2>4, <2>6, <3>1, <4>2 DEF CycleInv
        <4> QED BY <4>1, <4>2
      <3> QED BY <3>1
    <2>8. Alone => \A e, f \in E : e = f
      <3>1. CASE Concurrency = 1
        <4>1. IsFiniteSet(E)
          BY TeamAssumption, FS_Subset DEF Idle
        <4> QED BY <2>b, <3>1, <4>1, AtMostOne
      <3>2. CASE \A t, u \in Task : Home[t] = Home[u] => Conflict(t, u)
        BY <2>3, <2>5, <3>2
      <3> QED BY <3>1, <3>2 DEF Alone
    <2>9. Alone => \A e, f \in Exec : /\ pc'[e] \in Live /\ pc'[f] \in Live
                                      /\ Home[task'[e]] = Home[task'[f]]
                                      => e = f
      <3>1. ASSUME Alone, NEW e \in Exec, NEW f \in Exec, pc'[e] \in Live, pc'[f] \in Live,
                   Home[task'[e]] = Home[task'[f]]
            PROVE  e = f
        <4>1. CASE e \in E
          <5>1. f \in E
            BY <2>3, <2>6, <3>1, <4>1
          <5> QED BY <2>8, <3>1, <4>1, <5>1
        <4>2. CASE e \notin E
          BY <2>3, <2>4, <2>6, <3>1, <4>2 DEF CycleInv
        <4> QED BY <4>1, <4>2
      <3> QED BY <3>1
    <2>10. \A e \in Exec : ~frame'[e].loose /\ (frame'[e].result = "threw" => MaxFaults # 0)
      BY <1>c, <2>1 DEF Blank
    <2> QED BY <1>0, <2>7, <2>9, <2>10 DEF CycleInv, Alone, Conflict
  <1>9. ASSUME NEW p \in Project, Crash(p) PROVE CycleInv'
    BY <1>a, <1>9 DEF Crash, LiveIn
  <1>10. CASE UNCHANGED <<pc, task, frame>>
    BY <1>0, <1>c, <1>10, CycleKept
  <1> QED
    BY <1>1, <1>2, <1>3, <1>4, <1>5, <1>6, <1>7, <1>8, <1>9, <1>10
       DEF Next, Progress, ToggleStop, LapseClaim, Heartbeat, LapseCaptain,
           RenewMergeCaptain, vars

\* Failing writes are counted, and a row that is closed is never opened again.
LEMMA OnlyCloses ==
    ASSUME TypeOK, [Next]_vars
    PROVE  /\ faults' >= faults
           /\ \A t \in Task : backlog[t] # "open" => backlog'[t] # "open"
  <1> DEFINE Goal == /\ faults' >= faults
                     /\ \A t \in Task : backlog[t] # "open" => backlog'[t] # "open"
  <1>0. faults \in Nat /\ backlog \in [Task -> {"open", "blocked", "done"}]
    BY DEF TypeOK, WorldOK
  <1>a. UNCHANGED <<backlog, faults>> => Goal
    BY <1>0
  <1>b. Fault => faults' >= faults
    BY <1>0 DEF Fault
  <1>c. \A t : BlockTask(t) => Goal
    BY <1>0, <1>b DEF BlockTask
  <1>d. Fault /\ UNCHANGED backlog => Goal
    BY <1>0, <1>b
  <1>e. UNCHANGED faults => faults' >= faults
    BY <1>0
  <1> HIDE DEF Goal
  <1>1. ASSUME NEW e \in Exec, Admission(e) \/ EngineTurn(e) PROVE Goal
    BY <1>1, <1>a, <1>c
       DEF Admission, PickNothing, ClaimAttemptCap, ClaimQuarantined, ClaimDeferred,
           ClaimGranted, EngineTurn, Nudge, AdmitAdditionalTurn, RefuseAdditionalTurn, worldVars
  <1>2. ASSUME NEW e \in Exec, EngineEnd(e) \/ CandidateStep(e) PROVE Goal
    BY <1>2, <1>a, <1>c, <1>d
       DEF EngineEnd, RunSucceeds, RunFails, InfraRetry, QuarantineRun, Release, CandidateStep,
           CandidateRejected, PauseCandidate, MarkPaused, Enqueue, EnqueueRefused, worldVars
  <1>3. ASSUME NEW e \in Exec, QueueStep(e) \/ MergeTimeout(e) \/ TurnStep(e) PROVE Goal
    BY <1>3, <1>a, <1>d
       DEF QueueStep, AcquireMergeCaptain, PollRefused, MergeTimeout, TurnStep, TurnFails,
           FastForward, Rebase, LeaveTurn, TurnWriteFails, FinishMerge, Recover, worldVars
  <1>4. ASSUME NEW e \in Exec, ReportDone(e) \/ ReportFails(e) PROVE Goal
    <2>1. CASE ReportDone(e)
      BY <1>0, <1>e, <2>1 DEF ReportDone, Goal
    <2>2. CASE Fault /\ backlog' = [backlog EXCEPT ![task[e]] = "blocked"]
      BY <1>0, <1>b, <2>2 DEF Goal
    <2>3. CASE faults' = faults + 2 /\ UNCHANGED backlog
      BY <1>0, <2>3 DEF Goal
    <2> QED BY <1>4, <2>1, <2>2, <2>3 DEF ReportFails
  <1>5. ASSUME NEW e \in Exec, ReportBlocked(e) \/ Close(e) \/ CloseUnconfirmed(e) PROVE Goal
    BY <1>5, <1>a, <1>c, <1>d DEF ReportBlocked, Close, CloseUnconfirmed, Release, worldVars
  <1>6. Goal
    BY <1>1, <1>2, <1>3, <1>4, <1>5, <1>a
       DEF Next, Progress, ReportStep, StartCycle, Crash, ToggleStop, LapseClaim, Heartbeat,
           LapseCaptain, RenewMergeCaptain, worldVars, vars
  <1> QED BY <1>6 DEF Goal

\* Only an execution that runs its engine again or closes gives its scopes up.
LEMMA GivenUp ==
    ASSUME TypeOK, ClaimInv, [Next]_vars
    PROVE  \A e \in Held : e \in Held' \/ pc[e] \in {"running", "closing"}
  <1>a. state' = ReapedState => Held' = Held
    BY ReapKeeps DEF Held, TypeOK
  <1>b. UNCHANGED state => Held' = Held
    BY DEF Held
  <1>c. ASSUME NEW e \in Exec, Quarantine(e) PROVE Held \subseteq Held'
    BY <1>c DEF Quarantine, Held, TypeOK, LedgerOK
  <1>d. ASSUME NEW e \in Exec, Release(e) PROVE Held \ {e} \subseteq Held'
    BY <1>d DEF Release, Held, TypeOK, LedgerOK
  <1>e. ASSUME NEW e \in Exec, ClaimGranted(e) PROVE Held \subseteq Held'
    BY <1>e, ReapKeeps, ReapTypes DEF ClaimGranted, Held, TypeOK
  <1> DEFINE Goal == \A e \in Held : e \in Held' \/ pc[e] \in {"running", "closing"}
  <1>f. Held \subseteq Held' => Goal
    OBVIOUS
  <1>g. ASSUME NEW e \in Exec, Release(e), pc[e] \in {"running", "closing"} PROVE Goal
    BY <1>d, <1>g
  <1>h. UNCHANGED state \/ state' = ReapedState => Goal
    BY <1>a, <1>b
  <1>i. ASSUME NEW e \in Exec, Quarantine(e) \/ ClaimGranted(e) PROVE Goal
    BY <1>c, <1>e, <1>f, <1>i
  <1> HIDE DEF Goal
  <1>1. ASSUME NEW e \in Exec, Admission(e) \/ EngineTurn(e) PROVE Goal
    BY <1>1, <1>h, <1>i
       DEF Admission, PickNothing, ClaimAttemptCap, ClaimQuarantined, ClaimDeferred,
           EngineTurn, Nudge, AdmitAdditionalTurn, RefuseAdditionalTurn, ReapExpired, claimVars
  <1>2. ASSUME NEW e \in Exec, EngineEnd(e) PROVE Goal
    BY <1>2, <1>g, <1>h, <1>i
       DEF EngineEnd, RunSucceeds, RunFails, InfraRetry, QuarantineRun, claimVars
  <1>3. ASSUME NEW e \in Exec, CandidateStep(e) \/ QueueStep(e) \/ MergeTimeout(e) \/ TurnStep(e)
        PROVE  Goal
    BY <1>3, <1>h
       DEF CandidateStep, CandidateRejected, PauseCandidate, MarkPaused, Enqueue,
           EnqueueRefused, QueueStep, AcquireMergeCaptain, PollRefused, MergeTimeout, TurnStep,
           TurnFails, FastForward, Rebase, LeaveTurn, TurnWriteFails, FinishMerge, Recover,
           ReapExpired, claimVars
  <1>4. ASSUME NEW e \in Exec, ReportStep(e) PROVE Goal
    BY <1>4, <1>g, <1>h, <1>i
       DEF ReportStep, ReportDone, ReportFails, ReportBlocked, Close, CloseUnconfirmed, claimVars
  <1>5. Goal
    BY <1>1, <1>2, <1>3, <1>4, <1>h
       DEF Next, Progress, StartCycle, Crash, ToggleStop, LapseClaim, Heartbeat,
           LapseCaptain, RenewMergeCaptain, claimVars, vars
  <1> QED BY <1>5 DEF Goal

\* A step of one execution leaves the others where they are, with their results.
LEMMA OthersStay ==
    ASSUME TypeOK, NEW g \in Exec, Progress(g) \/ EngineTurn(g) \/ MergeTimeout(g),
           NEW e \in Exec, e # g, pc[e] # "idle"
    PROVE  pc'[e] = pc[e] /\ frame'[e].result = frame[e].result
  <1> USE DEF TypeOK, PcOK, FrameOK, Goto, Return
  <1>1. CASE Admission(g)
    BY <1>1
       DEF Admission, PickNothing, ClaimAttemptCap, ClaimQuarantined, ClaimDeferred, ClaimGranted
  <1>2. CASE EngineTurn(g)
    BY <1>2 DEF EngineTurn, Nudge, AdmitAdditionalTurn, RefuseAdditionalTurn
  <1>3. CASE EngineEnd(g)
    BY <1>3 DEF EngineEnd, RunSucceeds, RunFails, InfraRetry, QuarantineRun, Idle
  <1>4. CASE CandidateStep(g)
    BY <1>4
       DEF CandidateStep, CandidateRejected, PauseCandidate, MarkPaused, Enqueue, EnqueueRefused
  <1>5. CASE QueueStep(g) \/ MergeTimeout(g)
    BY <1>5 DEF QueueStep, AcquireMergeCaptain, PollRefused, MergeTimeout
  <1>6. CASE TurnStep(g)
    BY <1>6
       DEF TurnStep, TurnFails, FastForward, Rebase, LeaveTurn, TurnWriteFails, FinishMerge, Recover
  <1>7. CASE ReportDone(g) \/ ReportFails(g) \/ ReportBlocked(g)
    BY <1>7 DEF ReportDone, ReportFails, ReportBlocked
  <1>8. CASE EndFrame(g)
    <2>1. pc'[e] = pc[e]
      BY <1>8 DEF EndFrame
    <2>2. frame[e] \in Frame
      OBVIOUS
    <2>3. frame'[e] = frame[e] \/ frame'[e] = [frame[e] EXCEPT !.loose = TRUE]
      BY <1>8 DEF EndFrame
    <2>4. [frame[e] EXCEPT !.loose = TRUE].result = frame[e].result
      BY <2>2 DEF Frame
    <2> QED BY <2>1, <2>3, <2>4
  <1> QED
    BY <1>1, <1>2, <1>3, <1>4, <1>5, <1>6, <1>7, <1>8
       DEF Progress, ReportStep, Close, CloseUnconfirmed

\* Where an execution at l can be once it has landed: r is its result, n the
\* writes that have failed, closed whether its backlog row is.
Past(l, r, n, closed) ==
    /\ l \in {"leaving", "settling", "recovering", "reporting", "closing", "ended", "dead"}
    /\ l \in {"leaving", "settling"} => r = "merged"
    /\ l = "recovering" => n >= 1
    /\ l = "reporting" => r = "merged" \/ (r = "recovery" /\ n >= 1)
    /\ l = "closing" => closed

PastOf(e) == Past(pc[e], frame[e].result, faults, backlog[task[e]] # "open")

LEMMA PastStep ==
    ASSUME FewFaults, TypeOK, CycleInv, NEW e \in Exec, PastOf(e), [Next]_vars
    PROVE  PastOf(e)'
  <1>0. /\ faults' >= faults /\ faults \in Nat /\ faults' \in Nat
        /\ backlog[task[e]] # "open" => backlog'[task'[e]] # "open"
    <2>1. pc[e] # "idle"
      BY DEF PastOf, Past
    <2>2. task'[e] = task[e] /\ task[e] \in Task
      BY <2>1, TaskStep DEF TypeOK, PcOK
    <2> QED BY <2>2, OnlyCloses, WorldStep DEF TypeOK, WorldOK
  <1>1. ASSUME pc'[e] = pc[e], frame'[e].result = frame[e].result PROVE PastOf(e)'
    BY <1>0, <1>1 DEF PastOf, Past
  <1>2. ASSUME pc'[e] \in {"ended", "dead"} PROVE PastOf(e)'
    BY <1>2 DEF PastOf, Past
  <1>3. faults >= 1 => ~Fault
    BY TeamAssumption DEF Fault, FewFaults, TypeOK, WorldOK
  <1>4. ASSUME pc'[e] = "closing", backlog'[task'[e]] # "open" PROVE PastOf(e)'
    BY <1>4 DEF PastOf, Past
  <1>5. task[e] \in Task /\ backlog \in [Task -> {"open", "blocked", "done"}]
    BY DEF PastOf, Past, TypeOK, PcOK, WorldOK
  <1> USE DEF TypeOK, PcOK, Goto, Return
  <1>6. ASSUME Progress(e) \/ EngineTurn(e) \/ MergeTimeout(e) PROVE PastOf(e)'
    <2>1. pc[e] \notin {"picking", "running", "produced", "pausing", "queued", "merging", "verifying"}
      BY DEF PastOf, Past
    <2>2. ~Admission(e) /\ ~EngineTurn(e) /\ ~QueueStep(e) /\ ~MergeTimeout(e)
      BY <2>1
         DEF Admission, PickNothing, ClaimAttemptCap, ClaimQuarantined, ClaimDeferred,
             ClaimGranted, EngineTurn, Nudge, AdmitAdditionalTurn, RefuseAdditionalTurn,
             QueueStep, AcquireMergeCaptain, PollRefused, MergeTimeout
    <2>3. ~CandidateStep(e)
      BY <2>1
         DEF CandidateStep, CandidateRejected, PauseCandidate, MarkPaused, Enqueue,
             EnqueueRefused, PastOf, Past
    <2>4. CASE EngineEnd(e)
      BY <1>2, <2>1, <2>4 DEF EngineEnd, RunSucceeds, RunFails, InfraRetry, QuarantineRun
    <2>5. CASE TurnStep(e)
      <3>1. ~TurnFails(e) /\ ~FastForward(e) /\ ~Rebase(e)
        BY <2>1 DEF TurnFails, FastForward, Rebase, InTurn
      <3>2. CASE LeaveTurn(e)
        <4>1. frame[e].result = "merged"
          BY <3>2 DEF LeaveTurn, PastOf, Past
        <4>2. pc'[e] = "settling" /\ frame'[e].result = "merged"
          BY <3>2, <4>1 DEF LeaveTurn
        <4> QED BY <4>2 DEF PastOf, Past
      <3>3. CASE TurnWriteFails(e)
        <4>1. pc'[e] = "recovering" /\ faults' = faults + 1
          BY <3>3 DEF TurnWriteFails, Fault
        <4> QED BY <1>0, <4>1 DEF PastOf, Past
      <3>4. CASE FinishMerge(e)
        <4>1. frame[e].result = "merged"
          BY <3>4 DEF FinishMerge, PastOf, Past
        <4>2. pc'[e] = "reporting" /\ frame'[e].result = "merged"
          BY <3>4, <4>1 DEF FinishMerge
        <4> QED BY <4>2 DEF PastOf, Past
      <3>5. CASE Recover(e)
        <4>1. faults >= 1
          BY <3>5 DEF Recover, PastOf, Past
        <4>2. ~Fault
          BY <1>3, <4>1
        <4>3. /\ frame' = [frame EXCEPT ![e].result = "recovery"]
              /\ Goto(e, "reporting") /\ UNCHANGED faults
          BY <3>5, <4>2 DEF Recover
        <4>4. pc'[e] = "reporting" /\ frame'[e].result = "recovery"
          BY <4>3 DEF FrameOK, Frame
        <4> QED BY <4>1, <4>3, <4>4 DEF PastOf, Past
      <3> QED BY <2>5, <3>1, <3>2, <3>3, <3>4, <3>5 DEF TurnStep
    <2>6. CASE ReportDone(e)
      <3>1. pc'[e] = "closing" /\ task'[e] = task[e] /\ backlog'[task[e]] = "done"
        BY <1>5, <2>6 DEF ReportDone
      <3> QED BY <1>4, <3>1
    <2>7. CASE ReportFails(e)
      <3>1. ~(faults + 1 < MaxFaults)
        BY <1>0, TeamAssumption DEF FewFaults
      <3>2. pc'[e] = "closing" /\ task'[e] = task[e]
        BY <2>7 DEF ReportFails
      <3>3. backlog'[task[e]] = "blocked"
        BY <1>5, <2>7, <3>1 DEF ReportFails
      <3> QED BY <1>4, <3>2, <3>3
    <2>8. CASE ReportBlocked(e)
      <3>1. faults >= 1
        BY <2>8 DEF ReportBlocked, PastOf, Past
      <3>2. pc'[e] = "closing" /\ task'[e] = task[e]
        BY <2>8 DEF ReportBlocked
      <3>3. backlog'[task[e]] = "blocked"
        BY <1>3, <1>5, <2>8, <3>1 DEF ReportBlocked, BlockTask
      <3> QED BY <1>4, <3>2, <3>3
    <2>9. CASE Close(e) \/ CloseUnconfirmed(e)
      BY <1>2, <2>9 DEF Close, CloseUnconfirmed, EndFrame
    <2> QED
      BY <1>6, <2>2, <2>3, <2>4, <2>5, <2>6, <2>7, <2>8, <2>9 DEF Progress, ReportStep
  <1>7. ASSUME NEW g \in Exec, g # e, Progress(g) \/ EngineTurn(g) \/ MergeTimeout(g)
        PROVE  PastOf(e)'
    <2>1. pc[e] # "idle"
      BY DEF PastOf, Past
    <2> QED BY <1>1, <1>7, <2>1, OthersStay
  <1>8. ASSUME NEW p \in Project, StartCycle(p) PROVE PastOf(e)'
    <2>1. e \notin Idle
      BY DEF PastOf, Past, Idle
    <2>2. pc'[e] = pc[e] /\ frame'[e] = frame[e]
      BY <1>8, <2>1 DEF StartCycle
    <2> QED BY <1>1, <2>2
  <1>9. ASSUME NEW p \in Project, Crash(p) PROVE PastOf(e)'
    <2>1. CASE e \in LiveIn(p)
      BY <1>2, <1>9, <2>1 DEF Crash
    <2>2. CASE e \notin LiveIn(p)
      BY <1>1, <1>9, <2>2 DEF Crash
    <2> QED BY <2>1, <2>2
  <1>10. CASE UNCHANGED <<pc, frame>>
    BY <1>1, <1>10
  <1> QED
    BY <1>6, <1>7, <1>8, <1>9, <1>10
       DEF Next, ToggleStop, LapseClaim, Heartbeat, LapseCaptain, RenewMergeCaptain, vars

\* Where an execution of a task has not landed and may still do so.
Fresh == {"picking", "running", "produced", "queued", "merging", "verifying"}

HasLanded(e) == \E i \in DOMAIN main : main[i].by = e

\* Whoever has landed is past its turn, and either still holds its scopes or
\* its backlog row is closed; it holds them as long as another execution of
\* the task may still land.
LandInv ==
    \A e \in Exec : HasLanded(e) =>
        /\ PastOf(e)
        /\ e \in Held \/ backlog[task[e]] # "open"
        /\ \A f \in Exec : pc[f] \in Fresh /\ task[f] = task[e] => e \in Held

\* Who is at work on a task after a step was before, or has just been picked
\* from the open rows, or takes over from an execution that was running.
LEMMA FreshStep ==
    ASSUME TypeOK, [Next]_vars, NEW f \in Exec, pc'[f] \in Fresh
    PROVE  \/ pc[f] \in Fresh /\ task'[f] = task[f]
           \/ backlog[task'[f]] = "open"
           \/ \E g \in Exec : pc[g] = "running" /\ task'[f] = task[g]
  <1> USE DEF TypeOK, PcOK, Goto, Return
  <1> DEFINE Goal == \/ pc[f] \in Fresh /\ task'[f] = task[f]
                     \/ backlog[task'[f]] = "open"
                     \/ \E g \in Exec : pc[g] = "running" /\ task'[f] = task[g]
  <1>0. ASSUME pc'[f] = pc[f] PROVE pc[f] \in Fresh /\ task'[f] = task[f]
    BY <1>0, TaskStep DEF Fresh
  <1>1. ASSUME NEW p \in Project, StartCycle(p) PROVE Goal
    <2>1. CASE pc'[f] = pc[f]
      BY <1>0, <2>1
    <2>2. CASE pc'[f] # pc[f]
      BY <1>1, <2>2 DEF StartCycle
    <2> QED BY <2>1, <2>2
  <1>2. ASSUME NEW e \in Exec, InfraRetry(e) PROVE Goal
    <2>1. CASE pc'[f] = pc[f]
      BY <1>0, <2>1
    <2>2. CASE pc'[f] # pc[f]
      BY <1>2, <2>2 DEF InfraRetry, Fresh
    <2> QED BY <2>1, <2>2
  <1>3. ASSUME NEW e \in Exec, e # f, Progress(e) \/ EngineTurn(e) \/ MergeTimeout(e), ~InfraRetry(e)
        PROVE  Goal
    <2>1. CASE pc[f] # "idle"
      BY <1>0, <1>3, <2>1, OthersStay
    <2>2. CASE pc[f] = "idle"
      <3>1. pc'[f] = "idle"
        <4>1. ASSUME NEW l, Goto(e, l) PROVE pc'[f] = "idle"
          BY <1>3, <2>2, <4>1
        <4>2. ASSUME NEW l, Return({e}, l) PROVE pc'[f] = "idle"
          BY <1>3, <2>2, <4>2
        <4>3. CASE Admission(e) \/ EngineTurn(e)
          BY <2>2, <4>1, <4>2, <4>3
             DEF Admission, PickNothing, ClaimAttemptCap, ClaimQuarantined, ClaimDeferred,
                 ClaimGranted, EngineTurn, Nudge, AdmitAdditionalTurn, RefuseAdditionalTurn
        <4>4. CASE EngineEnd(e) \/ CandidateStep(e)
          BY <1>3, <4>1, <4>2, <4>4
             DEF EngineEnd, RunSucceeds, RunFails, QuarantineRun, CandidateStep,
                 CandidateRejected, PauseCandidate, MarkPaused, Enqueue, EnqueueRefused
        <4>5. CASE QueueStep(e) \/ MergeTimeout(e) \/ TurnStep(e)
          BY <2>2, <4>1, <4>5
             DEF QueueStep, AcquireMergeCaptain, PollRefused, MergeTimeout, TurnStep, TurnFails,
                 FastForward, Rebase, LeaveTurn, TurnWriteFails, FinishMerge, Recover
        <4>6. CASE ReportStep(e)
          BY <4>1, <4>6
             DEF ReportStep, ReportDone, ReportFails, ReportBlocked, Close, CloseUnconfirmed, EndFrame
        <4> QED BY <1>3, <4>3, <4>4, <4>5, <4>6 DEF Progress
      <3> QED BY <3>1 DEF Fresh
    <2> QED BY <2>1, <2>2
  <1>4. ASSUME Progress(f) \/ EngineTurn(f) \/ MergeTimeout(f), ~InfraRetry(f) PROVE Goal
    <2>1. pc[f] \in Fresh
      <3>1. CASE Admission(f) \/ EngineTurn(f) \/ EngineEnd(f)
        BY <3>1
           DEF Admission, PickNothing, ClaimAttemptCap, ClaimQuarantined, ClaimDeferred,
               ClaimGranted, EngineTurn, Nudge, AdmitAdditionalTurn, RefuseAdditionalTurn,
               EngineEnd, RunSucceeds, RunFails, InfraRetry, QuarantineRun, Fresh
      <3>2. CASE CandidateStep(f)
        BY <3>2
           DEF CandidateStep, CandidateRejected, PauseCandidate, MarkPaused, Enqueue,
               EnqueueRefused, Fresh
      <3>3. CASE QueueStep(f) \/ MergeTimeout(f)
        BY <3>3 DEF QueueStep, AcquireMergeCaptain, PollRefused, MergeTimeout, Fresh
      <3>4. CASE TurnStep(f)
        BY <3>4
           DEF TurnStep, TurnFails, FastForward, Rebase, LeaveTurn, TurnWriteFails,
               FinishMerge, Recover, Fresh
      <3>5. CASE ReportStep(f)
        BY <3>5
           DEF ReportStep, ReportDone, ReportFails, ReportBlocked, Close, CloseUnconfirmed,
               EndFrame, Fresh
      <3> QED BY <1>4, <3>1, <3>2, <3>3, <3>4, <3>5 DEF Progress
    <2> QED BY <2>1, TaskStep DEF Fresh
  <1>5. ASSUME NEW p \in Project, Crash(p) PROVE Goal
    BY <1>0, <1>5 DEF Crash, Fresh
  <1>6. CASE UNCHANGED pc
    BY <1>0, <1>6
  <1> QED
    BY <1>1, <1>2, <1>3, <1>4, <1>5, <1>6
       DEF Next, ToggleStop, LapseClaim, Heartbeat, LapseCaptain, RenewMergeCaptain, vars

\* What a fast-forward does to who has landed.
LEMMA LandedStep ==
    ASSUME TypeOK, NEW e \in Exec, FastForward(e)
    PROVE  /\ DOMAIN main' = DOMAIN main \cup {Len(main) + 1} /\ main'[Len(main) + 1].by = e
           /\ \A i \in DOMAIN main : main'[i] = main[i]
           /\ Len(main) + 1 \notin DOMAIN main
  <1>1. PICK m \in [by : Exec, gated : Nat] : m.by = e /\ main' = Append(main, m)
    <2> DEFINE g == IF pc[e] = "verifying" THEN frame[e].base ELSE frame[e].gated
    <2>1. g \in Nat
      BY DEF TypeOK, FrameOK, Frame
    <2> QED BY <2>1 DEF FastForward
  <1>2. main \in Seq([by : Exec, gated : Nat])
    BY DEF TypeOK, WorldOK
  <1>3. Len(main) \in Nat /\ DOMAIN main = 1 .. Len(main)
    BY <1>2, LenProperties
  <1>4. /\ main' \in Seq([by : Exec, gated : Nat]) /\ Len(main') = Len(main) + 1
        /\ main'[Len(main) + 1] = m
        /\ \A i \in 1 .. Len(main) : main'[i] = main[i]
    BY <1>1, <1>2, AppendProperties
  <1>5. DOMAIN main' = 1 .. Len(main) + 1
    BY <1>4, LenProperties
  <1> QED BY <1>1, <1>3, <1>4, <1>5

LEMMA HeldBefore ==
    ASSUME TypeOK, ClaimInv, CycleInv, LandInv, [Next]_vars,
           NEW e \in Exec, HasLanded(e), e \in Held,
           NEW f \in Exec, f # e, pc[f] \in Live, task[f] = task[e]
    PROVE  e \in Held'
  <1>1. pc[e] # "running"
    BY DEF LandInv, PastOf, Past
  <1>2. pc[e] # "closing"
    BY DEF CycleInv, Live
  <1> QED BY <1>1, <1>2, GivenUp

\* Nobody who has landed a task coexists with another who may land it.
LEMMA NoRival ==
    ASSUME TypeOK, ClaimInv, ScopeInv, LandInv, NEW f \in Exec, FastForward(f),
           NEW e \in Exec, HasLanded(e)
    PROVE  task[e] # task[f]
  <1>1. e # f
    BY DEF LandInv, PastOf, Past, FastForward, InTurn
  <1>2. f \in Held /\ pc[f] \in Fresh
    BY DEF FastForward, InTurn, ClaimInv, Fine, Working, Live, Held, Fresh
  <1>3. task[f] \in Task
    BY <1>2 DEF TypeOK, PcOK, Fresh
  <1>4. ASSUME task[e] = task[f] PROVE FALSE
    <2>1. e \in Held
      BY <1>2, <1>4 DEF LandInv
    <2> QED BY <1>1, <1>2, <1>3, <1>4, <2>1, SelfConflict DEF ScopeInv
  <1> QED BY <1>4

LEMMA LandInvStep ==
    ASSUME FewFaults, TypeOK, ClaimInv, ScopeInv, CycleInv, LandInv, [Next]_vars
    PROVE  LandInv'
  <1>1. ASSUME NEW e \in Exec, HasLanded(e)
        PROVE  /\ PastOf(e)'
               /\ e \in Held' \/ backlog'[task'[e]] # "open"
               /\ \A f \in Exec : pc'[f] \in Fresh /\ task'[f] = task'[e] => e \in Held'
    <2>0. PastOf(e) /\ pc[e] # "idle" /\ pc[e] # "running" /\ pc[e] \notin Fresh
      BY <1>1 DEF LandInv, PastOf, Past, Fresh
    <2>1. PastOf(e)'
      BY <2>0, PastStep
    <2>2. task'[e] = task[e] /\ task[e] \in Task
      BY <2>0, TaskStep DEF TypeOK, PcOK
    <2>3. e \in Held \/ backlog[task[e]] # "open"
      BY <1>1 DEF LandInv
    <2>4. backlog[task[e]] # "open" => backlog'[task'[e]] # "open"
      BY <2>2, OnlyCloses
    <2>5. e \in Held => e \in Held' \/ backlog[task[e]] # "open"
      BY <2>0, GivenUp DEF PastOf, Past
    <2>6. ASSUME NEW f \in Exec, pc'[f] \in Fresh, task'[f] = task'[e]
          PROVE  e \in Held'
      <3>1. CASE pc[f] \in Fresh /\ task'[f] = task[f]
        <4>1. e \in Held
          BY <1>1, <2>2, <2>6, <3>1 DEF LandInv
        <4>2. pc[f] \in Live /\ f # e
          BY <2>0, <3>1 DEF Fresh, Live
        <4> QED BY <1>1, <2>2, <2>6, <3>1, <4>1, <4>2, HeldBefore
      <3>2. CASE backlog[task'[f]] = "open"
        BY <2>2, <2>3, <2>5, <2>6, <3>2
      <3>3. ASSUME NEW g \in Exec, pc[g] = "running", task'[f] = task[g] PROVE e \in Held'
        <4>1. e \in Held
          BY <1>1, <2>2, <2>6, <3>3 DEF LandInv, Fresh
        <4>2. pc[g] \in Live /\ g # e
          BY <2>0, <3>3 DEF Live
        <4> QED BY <1>1, <2>2, <2>6, <3>3, <4>1, <4>2, HeldBefore
      <3> QED BY <2>6, <3>1, <3>2, <3>3, FreshStep
    <2> QED BY <2>1, <2>3, <2>4, <2>5, <2>6
  <1>2. CASE UNCHANGED main
    BY <1>1, <1>2 DEF LandInv, HasLanded
  <1>3. ASSUME NEW g \in Exec, FastForward(g) PROVE LandInv'
    <2>1. \A e \in Exec : HasLanded(e)' => HasLanded(e) \/ e = g
      BY <1>3, LandedStep DEF HasLanded
    <2>2. g \in Held /\ g \in Held'
      BY <1>3 DEF FastForward, InTurn, ClaimInv, Fine, Working, Live, Held, claimVars
    <2>3. PastOf(g)'
      BY <1>3 DEF FastForward, Goto, PastOf, Past, InTurn, TypeOK, PcOK, FrameOK, Frame
    <2> QED BY <1>1, <2>1, <2>2, <2>3 DEF LandInv
  <1> QED BY <1>2, <1>3, MainStep

LEMMA DoubleStep ==
    ASSUME TypeOK, ClaimInv, ScopeInv, LandInv, NoDoubleMerge, [Next]_vars
    PROVE  NoDoubleMerge'
  <1>1. \A i \in DOMAIN main : main[i].by \in Exec /\ HasLanded(main[i].by)
    <2>1. main \in Seq([by : Exec, gated : Nat])
      BY DEF TypeOK, WorldOK
    <2>2. ASSUME NEW i \in DOMAIN main PROVE main[i].by \in Exec
      <3>1. main[i] \in [by : Exec, gated : Nat]
        BY <2>1, ElementOfSeq, LenProperties
      <3> QED BY <3>1
    <2> QED BY <2>2 DEF HasLanded
  <1>2. \A i \in DOMAIN main : task'[main[i].by] = task[main[i].by]
    BY <1>1, TaskStep DEF LandInv, PastOf, Past, TypeOK
  <1>3. CASE UNCHANGED main
    BY <1>2, <1>3 DEF NoDoubleMerge
  <1>4. ASSUME NEW f \in Exec, FastForward(f) PROVE NoDoubleMerge'
    <2>1. \A i \in DOMAIN main : task[main[i].by] # task[f]
      BY <1>1, <1>4, NoRival
    <2>2. task' = task
      BY <1>4 DEF FastForward
    <2> QED BY <1>4, <2>1, <2>2, LandedStep DEF NoDoubleMerge
  <1> QED BY <1>3, <1>4, MainStep

\* When no write fails, or one at most where no two tasks of a configuration
\* ever run together, no task lands on main twice, whatever crashes, lapses or
\* is suspended.
THEOREM NoTaskLandsTwice ==
    ASSUME FewFaults
    PROVE  Spec => []NoDoubleMerge
  <1>1. Init => CycleInv /\ LandInv /\ NoDoubleMerge
    BY TeamAssumption DEF Init, CycleInv, LandInv, NoDoubleMerge, HasLanded, Blank, Live
  <1>2. TypeOK /\ CycleInv /\ [Next]_vars => CycleInv'
    BY CycleStep
  <1>3. TypeOK /\ ClaimInv /\ ScopeInv /\ CycleInv /\ LandInv /\ [Next]_vars => LandInv'
    BY LandInvStep
  <1>4. TypeOK /\ ClaimInv /\ ScopeInv /\ LandInv /\ NoDoubleMerge /\ [Next]_vars
            => NoDoubleMerge'
    BY DoubleStep
  <1> QED BY <1>1, <1>2, <1>3, <1>4, ClaimCorrect, PTL DEF Spec

------------------------------------------------------------------------------
(***************************************************************************)
(* What is reserved.  The ledger adds up the reservations of the claims    *)
(* that are held, so the proof needs a few facts about finite sums.  The   *)
(* sum over a set is the fold of the community modules; its recursion      *)
(* removes the element that CHOOSE picks, and each fact is proved from a   *)
(* smallest subset that refutes it.                                        *)
(***************************************************************************)

First(s) == CHOOSE x \in s : TRUE
IsSum(f, S, g) ==
    g = [s \in SUBSET S |-> IF s = {} THEN 0 ELSE f[First(s)] + g[s \ {First(s)}]]
SumBy(f, S) == CHOOSE g : IsSum(f, S, g)
Total(f, S) == SumBy(f, S)[S]

\* Parts of a finite set are finite.
LEMMA PartFinite ==
  ASSUME NEW S, IsFiniteSet(S), NEW T, T \subseteq S
  PROVE  IsFiniteSet(T) /\ \A x : IsFiniteSet(T \ {x})
  BY FS_Subset

\* The fold of the community modules is this recursion.
LEMMA SumIsFold ==
  ASSUME NEW f, NEW S
  PROVE  SumFunctionOnSet(f, S) = Total(f, S)
  BY DEF SumFunctionOnSet, FoldFunctionOnSet, MapThenFoldSet, SumBy, IsSum, First, Total

\* A property that some part of a finite set has, a smallest part has.
LEMMA SmallestSubset ==
  ASSUME NEW S, IsFiniteSet(S), NEW B, B \subseteq SUBSET S, B # {}
  PROVE  \E T \in B : \A U \in B : U \subseteq T => U = T
  <1>1. IsWellFoundedOn(StrictSubsetOrdering(S), FiniteSubsetsOf(S))
    BY FS_StrictSubsetOrderingWellFounded
  <1>2. B \subseteq FiniteSubsetsOf(S)
    BY FS_Subset DEF FiniteSubsetsOf
  <1>3. PICK T \in B : \A U \in B : ~ (<<U, T>> \in StrictSubsetOrdering(S))
    BY <1>1, <1>2, WFMin
  <1> QED
    BY <1>3 DEF StrictSubsetOrdering

\* The element that is removed is one of the set.
LEMMA PickIn ==
  ASSUME NEW s, s # {}
  PROVE  First(s) \in s
  BY DEF First

\* Two sums agree on the subsets they have in common.
LEMMA SumsAgree ==
  ASSUME NEW f, NEW S, IsFiniteSet(S), NEW T, T \subseteq S,
         NEW g, IsSum(f, S, g), NEW h, IsSum(f, T, h)
  PROVE  \A s \in SUBSET T : g[s] = h[s]
  <1> DEFINE B == {s \in SUBSET T : g[s] # h[s]}
  <1> SUFFICES ASSUME B # {} PROVE FALSE
    OBVIOUS
  <1>1. PICK s \in B : \A u \in B : u \subseteq s => u = s
    <2>1. IsFiniteSet(T)
      BY FS_Subset
    <2>2. B \subseteq SUBSET T
      OBVIOUS
    <2> HIDE DEF B
    <2> QED
      BY <2>1, <2>2, SmallestSubset
  <1>2. /\ g[s] = IF s = {} THEN 0 ELSE f[First(s)] + g[s \ {First(s)}]
        /\ h[s] = IF s = {} THEN 0 ELSE f[First(s)] + h[s \ {First(s)}]
    BY <1>1 DEF IsSum
  <1>3. s # {}
    BY <1>1, <1>2
  <1>4. First(s) \in s
    BY <1>3, PickIn
  <1>5. s \ {First(s)} \notin B
    BY <1>1, <1>4
  <1> QED
    BY <1>1, <1>2, <1>3, <1>5

\* Every finite set has its sum.
LEMMA SumExists ==
  ASSUME NEW f, NEW S, IsFiniteSet(S)
  PROVE  IsSum(f, S, SumBy(f, S))
  <1> DEFINE B == {s \in SUBSET S : ~ IsSum(f, s, SumBy(f, s))}
  <1> SUFFICES ASSUME B # {} PROVE FALSE
    BY SUBSET S # {}
  <1>1. PICK T \in B : \A u \in B : u \subseteq T => u = T
    <2>1. B \subseteq SUBSET S
      OBVIOUS
    <2> HIDE DEF B
    <2> QED
      BY <2>1, SmallestSubset
  <1> DEFINE Val(s) == IF s = {} THEN 0 ELSE f[First(s)] + Total(f, s \ {First(s)})
             g == [s \in SUBSET T |-> Val(s)]
  <1>2. ASSUME NEW u \in SUBSET T, u # T PROVE Val(u) = Total(f, u)
    <2>1. IsSum(f, u, SumBy(f, u))
      BY <1>1, <1>2
    <2>2. Total(f, u) = IF u = {} THEN 0 ELSE f[First(u)] + SumBy(f, u)[u \ {First(u)}]
      BY <2>1 DEF Total, IsSum
    <2>3. ASSUME u # {} PROVE SumBy(f, u)[u \ {First(u)}] = Total(f, u \ {First(u)})
      <3> DEFINE v == u \ {First(u)}
      <3>1. v # T /\ v \in SUBSET T /\ v \subseteq u
        BY <2>3, PickIn
      <3>2. IsSum(f, v, SumBy(f, v))
        BY <1>1, <3>1
      <3>3. IsFiniteSet(u)
        BY <1>1, FS_Subset
      <3> QED
        BY <2>1, <3>1, <3>2, <3>3, SumsAgree DEF Total
    <2> QED
      BY <2>2, <2>3
  <1>3. ASSUME NEW s \in SUBSET T
        PROVE  Val(s) = IF s = {} THEN 0 ELSE f[First(s)] + g[s \ {First(s)}]
    <2>1. CASE s = {}
      BY <2>1
    <2>2. CASE s # {}
      <3> DEFINE u == s \ {First(s)}
      <3>1. u \in SUBSET T /\ u # T
        BY <2>2, PickIn
      <3>2. g[u] = Val(u)
        BY <3>1
      <3>3. g[u] = Total(f, u)
        BY <3>1, <3>2, <1>2
      <3> HIDE DEF g
      <3> QED
        BY <2>2, <3>3
    <2> QED
      BY <2>1, <2>2
  <1>4. IsSum(f, T, g)
    <2> HIDE DEF Val
    <2>1. g = [s \in SUBSET T |-> Val(s)]
      OBVIOUS
    <2> HIDE DEF g
    <2> QED
      BY <1>3, <2>1 DEF IsSum
  <1>5. IsSum(f, T, SumBy(f, T))
    <2> HIDE DEF g
    <2> QED
      BY <1>4 DEF SumBy
  <1> QED
    BY <1>1, <1>5

\* The recursion of the sum.
LEMMA TotalRec ==
  ASSUME NEW f, NEW S, IsFiniteSet(S)
  PROVE  Total(f, S) = IF S = {} THEN 0 ELSE f[First(S)] + Total(f, S \ {First(S)})
  <1>1. IsSum(f, S, SumBy(f, S))
    BY SumExists
  <1>2. Total(f, S) = IF S = {} THEN 0 ELSE f[First(S)] + SumBy(f, S)[S \ {First(S)}]
    BY <1>1 DEF Total, IsSum
  <1> DEFINE v == S \ {First(S)}
  <1>3. IsSum(f, v, SumBy(f, v))
    BY FS_Subset, SumExists
  <1> QED
    BY <1>1, <1>2, <1>3, SumsAgree DEF Total

\* A sum of naturals is a natural.
LEMMA TotalNat ==
  ASSUME NEW f, NEW S, IsFiniteSet(S), \A x \in S : f[x] \in Nat
  PROVE  Total(f, S) \in Nat
  <1> DEFINE B == {s \in SUBSET S : Total(f, s) \notin Nat}
  <1> SUFFICES ASSUME B # {} PROVE FALSE
    OBVIOUS
  <1>1. PICK s \in B : \A u \in B : u \subseteq s => u = s
    <2>1. B \subseteq SUBSET S
      OBVIOUS
    <2> HIDE DEF B
    <2> QED
      BY <2>1, SmallestSubset
  <1>2. Total(f, s) = IF s = {} THEN 0 ELSE f[First(s)] + Total(f, s \ {First(s)})
    BY PartFinite, TotalRec
  <1>3. s # {}
    BY <1>1, <1>2
  <1>4. First(s) \in s
    BY <1>3, PickIn
  <1>5. Total(f, s \ {First(s)}) \in Nat
    BY <1>1, <1>4
  <1> QED
    BY <1>1, <1>2, <1>3, <1>4, <1>5

\* Any element may be taken out first.
LEMMA TotalSplit ==
  ASSUME NEW f, NEW S, IsFiniteSet(S), \A x \in S : f[x] \in Nat
  PROVE  \A x \in S : Total(f, S) = f[x] + Total(f, S \ {x})
  <1> DEFINE Splits(s) == \A x \in s : Total(f, s) = f[x] + Total(f, s \ {x})
             B == {s \in SUBSET S : ~ Splits(s)}
  <1> SUFFICES ASSUME B # {} PROVE FALSE
    OBVIOUS
  <1>1. PICK s \in B : \A u \in B : u \subseteq s => u = s
    <2>1. B \subseteq SUBSET S
      OBVIOUS
    <2> HIDE DEF B
    <2> QED
      BY <2>1, SmallestSubset
  <1>2. PICK x \in s : Total(f, s) # f[x] + Total(f, s \ {x})
    BY <1>1
  <1> DEFINE p == First(s)
  <1>3. p \in s
    BY <1>2, PickIn
  <1>4. Total(f, s) = f[p] + Total(f, s \ {p})
    BY <1>2, PartFinite, TotalRec
  <1>5. x # p
    BY <1>2, <1>4
  <1>6. Splits(s \ {p}) /\ Splits(s \ {x})
    BY <1>1, <1>2, <1>3
  <1> HIDE DEF p
  <1>7. /\ Total(f, s \ {p}) = f[x] + Total(f, (s \ {p}) \ {x})
        /\ Total(f, s \ {x}) = f[p] + Total(f, (s \ {x}) \ {p})
    BY <1>2, <1>3, <1>5, <1>6
  <1>8. (s \ {p}) \ {x} = (s \ {x}) \ {p}
    OBVIOUS
  <1>9. Total(f, (s \ {p}) \ {x}) \in Nat
    BY PartFinite, TotalNat
  <1>10. f[x] \in Nat /\ f[p] \in Nat
    BY <1>2, <1>3
  <1> QED
    BY <1>2, <1>4, <1>7, <1>8, <1>9, <1>10

\* The sum depends on the values on the set only.
LEMMA TotalAgree ==
  ASSUME NEW f, NEW h, NEW S, IsFiniteSet(S), \A x \in S : f[x] = h[x]
  PROVE  Total(f, S) = Total(h, S)
  <1> DEFINE B == {s \in SUBSET S : Total(f, s) # Total(h, s)}
  <1> SUFFICES ASSUME B # {} PROVE FALSE
    OBVIOUS
  <1>1. PICK s \in B : \A u \in B : u \subseteq s => u = s
    <2>1. B \subseteq SUBSET S
      OBVIOUS
    <2> HIDE DEF B
    <2> QED
      BY <2>1, SmallestSubset
  <1>2. /\ Total(f, s) = IF s = {} THEN 0 ELSE f[First(s)] + Total(f, s \ {First(s)})
        /\ Total(h, s) = IF s = {} THEN 0 ELSE h[First(s)] + Total(h, s \ {First(s)})
    BY PartFinite, TotalRec
  <1>3. s # {}
    BY <1>1, <1>2
  <1>4. First(s) \in s
    BY <1>3, PickIn
  <1>5. s \ {First(s)} \notin B
    BY <1>1, <1>4
  <1> QED
    BY <1>1, <1>2, <1>3, <1>4, <1>5

\* A part of the set has no greater sum.
LEMMA TotalGrows ==
  ASSUME NEW f, NEW S, IsFiniteSet(S), \A x \in S : f[x] \in Nat, NEW T, T \subseteq S
  PROVE  Total(f, T) <= Total(f, S)
  <1> DEFINE B == {s \in SUBSET S : T \subseteq s /\ ~ (Total(f, T) <= Total(f, s))}
  <1> SUFFICES ASSUME B # {} PROVE FALSE
    OBVIOUS
  <1>1. PICK s \in B : \A u \in B : u \subseteq s => u = s
    <2>1. B \subseteq SUBSET S
      OBVIOUS
    <2> HIDE DEF B
    <2> QED
      BY <2>1, SmallestSubset
  <1>2. Total(f, T) \in Nat
    BY PartFinite, TotalNat
  <1>3. PICK x \in s : x \notin T
    <2>1. s # T
      BY <1>1, <1>2
    <2> QED
      BY <1>1, <2>1
  <1>4. Total(f, s) = f[x] + Total(f, s \ {x})
    BY PartFinite, TotalSplit
  <1>5. s \ {x} \notin B
    BY <1>1, <1>3
  <1>6. Total(f, s \ {x}) \in Nat
    BY PartFinite, TotalNat
  <1> QED
    BY <1>1, <1>2, <1>3, <1>4, <1>5, <1>6

------------------------------------------------------------------------------
\* What the held claims have reserved stays within the hard cap.
CapInv == HardCap > 0 => Total(reserved, Held) <= HardCap

LEMMA HeldFinite == IsFiniteSet(Held) /\ IsFiniteSet(Held')
  BY TeamAssumption, PartFinite DEF Held

\* What the held claims have reserved is what the cap is compared with.
LEMMA HeldIsBooked ==
    ASSUME LedgerOK, ClaimInv
    PROVE  /\ {e \in Exec : active[e] \/ state[e] = "QUARANTINED"} = Held
           /\ CapInv <=> ReservedWithinCap
  <1>1. {e \in Exec : active[e] \/ state[e] = "QUARANTINED"} = Held
    BY DEF LedgerOK, ClaimInv, Fine, Held
  <1> QED BY <1>1, SumIsFold DEF CapInv, ReservedWithinCap

\* Only a new claim and one more turn write a reservation.
LEMMA ReservedKept ==
    ASSUME [Next]_vars,
           \A e \in Exec : ~ClaimGranted(e) /\ ~AdmitAdditionalTurn(e)
    PROVE  reserved' = reserved
  <1>1. ASSUME NEW e \in Exec, Progress(e) \/ EngineTurn(e) PROVE reserved' = reserved
    <2>1. CASE Admission(e) \/ EngineTurn(e) \/ EngineEnd(e)
      BY <2>1
         DEF Admission, PickNothing, ClaimAttemptCap, ClaimQuarantined, ClaimDeferred,
             EngineTurn, Nudge, RefuseAdditionalTurn, EngineEnd, RunSucceeds, RunFails,
             InfraRetry, QuarantineRun, claimVars
    <2>2. CASE CandidateStep(e) \/ QueueStep(e)
      BY <2>2
         DEF CandidateStep, CandidateRejected, PauseCandidate, MarkPaused, Enqueue,
             EnqueueRefused, QueueStep, AcquireMergeCaptain, PollRefused, claimVars
    <2>3. CASE TurnStep(e) \/ ReportStep(e)
      BY <2>3
         DEF TurnStep, TurnFails, FastForward, Rebase, LeaveTurn, TurnWriteFails,
             FinishMerge, Recover, ReportStep, ReportDone, ReportFails, ReportBlocked,
             Close, CloseUnconfirmed, claimVars
    <2> QED BY <1>1, <2>1, <2>2, <2>3 DEF Progress
  <1> QED
    BY <1>1
       DEF Next, MergeTimeout, StartCycle, Crash, ToggleStop, LapseClaim, Heartbeat,
           LapseCaptain, RenewMergeCaptain, claimVars, vars

LEMMA CapStep ==
    ASSUME TypeOK, ClaimInv, CapInv, [Next]_vars, HardCap > 0
    PROVE  Total(reserved', Held') <= HardCap
  <1> USE TeamAssumption
  <1>a. \A e \in Exec : reserved[e] \in Nat /\ frame[e].seen \in Nat
    BY DEF TypeOK, LedgerOK, FrameOK, Frame
  <1>b. Holders = Held
    BY ReapKeeps DEF TypeOK
  <1>c. Total(reserved, Held) \in Nat
    BY <1>a, HeldFinite, TotalNat DEF Held
  <1>1. ASSUME NEW e \in Exec, ClaimGranted(e) PROVE Total(reserved', Held') <= HardCap
    <2>1. e \notin Held
      BY <1>1 DEF ClaimGranted, ClaimInv, Fine, Held
    <2>2. Held' = Held \cup {e}
      BY <1>1, ReapKeeps DEF ClaimGranted, Held, TypeOK, LedgerOK, ReapedState
    <2>3. reserved' = [reserved EXCEPT ![e] = FixedCost]
      BY <1>1 DEF ClaimGranted
    <2>4. \A x \in Held' : reserved'[x] \in Nat
      BY <1>a, <2>3 DEF Held, TypeOK, LedgerOK
    <2>5. Total(reserved', Held') = reserved'[e] + Total(reserved', Held' \ {e})
      BY <2>2, <2>4, HeldFinite, TotalSplit
    <2>6. Held' \ {e} = Held /\ reserved'[e] = FixedCost
      BY <2>1, <2>2, <2>3 DEF TypeOK, LedgerOK
    <2>7. Total(reserved', Held) = Total(reserved, Held)
      BY <2>1, <2>3, HeldFinite, TotalAgree DEF Held, TypeOK, LedgerOK
    <2>8. frame[e].seen + Total(reserved, Held) + FixedCost <= HardCap
      <3>1. ~ (frame[e].seen + SumFunctionOnSet(reserved, Holders) + FixedCost > HardCap)
        BY <1>1 DEF ClaimGranted, CostExceeded
      <3>2. SumFunctionOnSet(reserved, Holders) = Total(reserved, Held)
        BY <1>b, SumIsFold
      <3> QED BY <1>a, <1>c, <3>1, <3>2
    <2>9. Total(reserved', Held') = FixedCost + Total(reserved, Held)
      BY ONLY <2>5, <2>6, <2>7
    <2>10. frame[e].seen \in Nat /\ FixedCost \in Nat /\ HardCap \in Nat
      BY <1>a
    <2> QED BY ONLY <1>c, <2>8, <2>9, <2>10
  <1>2. ASSUME NEW e \in Exec, AdmitAdditionalTurn(e)
        PROVE  Total(reserved', Held') <= HardCap
    <2>1. e \in Held /\ Held' = Held
      BY <1>2, ReapKeeps
         DEF AdmitAdditionalTurn, ExtraTurnFits, ReapExpired, Held, TypeOK, LedgerOK
    <2>2. reserved' = [reserved EXCEPT ![e] = ExtraReservation(e)]
      BY <1>2 DEF AdmitAdditionalTurn
    <2>3. ExtraReservation(e) \in Nat
      BY <1>a DEF ExtraReservation, TypeOK, FrameOK, Frame
    <2>4. \A x \in Held : reserved'[x] \in Nat
      BY <1>a, <2>2, <2>3 DEF Held, TypeOK, LedgerOK
    <2>5. Total(reserved', Held) = reserved'[e] + Total(reserved', Held \ {e})
      BY <2>1, <2>4, HeldFinite, TotalSplit
    <2>6. reserved'[e] = ExtraReservation(e)
      BY <2>2 DEF TypeOK, LedgerOK
    <2>7. IsFiniteSet(Held \ {e})
      BY HeldFinite, PartFinite
    <2>8. Total(reserved', Held \ {e}) = Total(reserved, Held \ {e})
      BY <2>2, <2>7, TotalAgree DEF Held, TypeOK, LedgerOK
    <2>9. Total(reserved, Held \ {e}) \in Nat
      BY <1>a, <2>7, TotalNat DEF Held
    <2>10. spent[ProjectOf(e)] + Total(reserved, Held \ {e}) + ExtraReservation(e) <= HardCap
      BY <1>2, <1>b, SumIsFold DEF AdmitAdditionalTurn, ExtraTurnFits
    <2>11. spent[ProjectOf(e)] \in Nat
      BY <1>2 DEF AdmitAdditionalTurn, ProjectOf, TypeOK, PcOK, WorldOK
    <2> QED BY <2>1, <2>3, <2>5, <2>6, <2>8, <2>9, <2>10, <2>11
  <1>3. CASE \A e \in Exec : ~ClaimGranted(e) /\ ~AdmitAdditionalTurn(e)
    <2>1. reserved' = reserved /\ Held' \subseteq Held
      BY <1>3, ReservedKept, HeldStep
    <2>2. Total(reserved, Held') <= Total(reserved, Held)
      BY <1>a, <2>1, HeldFinite, TotalGrows DEF Held
    <2>3. Total(reserved, Held') \in Nat
      BY <1>a, HeldFinite, TotalNat DEF Held
    <2> QED BY <1>c, <2>1, <2>2, <2>3 DEF CapInv
  <1> QED BY <1>1, <1>2, <1>3

\* The reservations of everything held never exceed the hard cap together, whatever
\* is reaped, quarantined or suspended (claim, admitAdditionalTurn).
THEOREM ReservationsFitCap == Spec => []ReservedWithinCap
  <1>1. Init => CapInv
    <2>1. Init => Held = {}
      BY DEF Init, Held
    <2>2. IsFiniteSet({})
      BY FS_EmptySet
    <2>3. Total(reserved, {}) = 0
      BY <2>2, TotalRec
    <2> QED BY <2>1, <2>3, TeamAssumption DEF CapInv
  <1>2. TypeOK /\ ClaimInv /\ CapInv /\ [Next]_vars => CapInv'
    BY CapStep DEF CapInv
  <1>3. TypeOK /\ ClaimInv /\ CapInv => ReservedWithinCap
    BY HeldIsBooked DEF TypeOK
  <1> QED BY <1>1, <1>2, <1>3, ClaimCorrect, PTL DEF Spec

\* What the ledger grants, where no daemon is suspended beyond its leases: the merge turn
\* as SerialMerge has it, and cost within the hard cap.
THEOREM LedgerStaysSound ==
    ASSUME Stallable = {}
    PROVE  Spec => LedgerIsSound
  BY MergesAreSerial, ReservationsFitCap, PTL DEF LedgerIsSound

------------------------------------------------------------------------------
(* The calls of routed models. *)

(***************************************************************************)
(* A call is a list of requests with what became of them: all retriable    *)
(* while it goes on, the last one open while it waits.  A request that     *)
(* probes holds the lease of its key, and an answer that broke the policy  *)
(* has left the marker, which nothing removes.                             *)
(***************************************************************************)
CallRetriable(c) == \A i \in DOMAIN failed[c] : failed[c][i] = "retriable"
CallMarked(c) ==
    \A i \in DOMAIN failed[c] : failed[c][i] = "identity-violation" => tried[c][i] \in marker

\* The requests of a call, by where it is.
CallCounts(c) ==
    LET n == Len(tried[c]) IN
    /\ Len(failed[c]) <= n /\ n <= MaxAttempts
    /\ where[c] \in {"next", "probing", "opening", "releasing"} =>
            Len(failed[c]) = n /\ CallRetriable(c) /\ result[c] = "none"
    /\ where[c] \in {"waiting", "clearing"} =>
            Len(failed[c]) = n - 1 /\ CallRetriable(c) /\ result[c] = "none"
    /\ where[c] = "marked" => result[c] = "none"
    /\ \A i \in DOMAIN failed[c] : i < n => failed[c][i] = "retriable"
    /\ result[c] = "completed" => Len(failed[c]) = n - 1

CallSound(c) ==
    /\ CallCounts(c) /\ CallMarked(c)
    /\ \A i, j \in DOMAIN tried[c] : i # j => tried[c][i] # tried[c][j]
    /\ where[c] \in Calls!Sending => /\ Len(tried[c]) > 0 /\ tried[c][Len(tried[c])] = Calls!Key(c)
                                     /\ halfOpen[c] => probe[Calls!Key(c)] = c
    /\ where[c] \in Calls!Sending \cup {"probing"} => candidate[c] \in DOMAIN Route
    /\ where[c] = "probing" => Calls!Key(c) \notin Calls!Tried(c) /\ Len(tried[c]) < MaxAttempts

CallsInv == Calls!TypeOK /\ \A c \in Callers : CallSound(c)

-----------------------------------------------------------------------------
(* Types *)

\* The values a caller's own step gives its variables.
LEMMA CallOwnTypes ==
  ASSUME Calls!ModelRouteAssumption, Calls!TypeOK, NEW c \in Callers
  PROVE  /\ candidate[c] \in 1 .. Len(Route) + 1 /\ Len(Route) \in Nat \ {0}
         /\ (candidate[c] <= Len(Route) => Calls!Key(c) \in Keys /\ candidate[c] \in DOMAIN Route)
         /\ tried[c] \in Seq(Keys) /\ failed[c] \in Seq(Calls!Outcomes)
         /\ c # NoCaller /\ where[c] \in Calls!Sending \cup {"next", "probing", "ended"}
<1>1. candidate[c] \in 1 .. Len(Route) + 1 /\ Len(Route) \in Nat \ {0} /\ DOMAIN Route = 1 .. Len(Route)
  BY DEF Calls!TypeOK, Calls!ModelRouteAssumption
<1>2. candidate[c] \in DOMAIN Route => Route[candidate[c]] \in Keys
  BY DEF Calls!ModelRouteAssumption
<1> QED
  BY <1>1, <1>2 DEF Calls!TypeOK, Calls!ModelRouteAssumption, Calls!Key

LEMMA ReleaseTyped ==
  ASSUME Calls!TypeOK, NEW c \in Callers, Calls!Release(c)
  PROVE  /\ probe' \in [Keys -> Callers \cup {NoCaller}]
         /\ \A k \in Keys, d \in Callers \ {c} : probe[k] = d => probe'[k] = d
BY DEF Calls!TypeOK, Calls!Release

LEMMA ConsiderTypeStep ==
  ASSUME Calls!ModelRouteAssumption, CallsInv, NEW c \in Callers,
         Calls!Consider(c) \/ Calls!Probe(c) \/ Calls!Exhausted(c) \/ Calls!Interrupted(c)
  PROVE  Calls!TypeOK'
<1>0. Calls!TypeOK /\ CallSound(c)
  BY DEF CallsInv
<1>1. CASE Calls!Skip(c) /\ candidate[c] <= Len(Route) /\ UNCHANGED probe
  <2>1. candidate[c] + 1 \in 1 .. Len(Route) + 1
    BY <1>0, <1>1, CallOwnTypes
  <2>2. candidate' \in [Callers -> 1 .. Len(Route) + 1]
    BY <1>0, <1>1, <2>1 DEF Calls!Skip, Calls!TypeOK
  <2> QED
    BY <1>0, <1>1, <2>2 DEF Calls!Skip, Calls!Go, Calls!files, Calls!TypeOK
<1>2. CASE /\ candidate[c] <= Len(Route) /\ Calls!Go(c, "probing")
           /\ UNCHANGED <<now, Calls!files, probe, Calls!call, damages>>
  BY <1>0, <1>2 DEF Calls!Go, Calls!files, Calls!call, Calls!TypeOK
<1>3. ASSUME NEW b \in BOOLEAN, Calls!Send(c, b), candidate[c] <= Len(Route),
             probe' = probe \/ probe' = [probe EXCEPT ![Calls!Key(c)] = c]
      PROVE  Calls!TypeOK'
  <2>1. Append(tried[c], Calls!Key(c)) \in Seq(Keys)
    BY <1>0, <1>3, CallOwnTypes
  <2>2. probe' \in [Keys -> Callers \cup {NoCaller}]
    BY <1>0, <1>3, CallOwnTypes DEF Calls!TypeOK
  <2>3. tried' \in [Callers -> Seq(Keys)]
    BY <1>0, <1>3, <2>1 DEF Calls!Send, Calls!TypeOK
  <2> QED
    BY <1>0, <1>3, <2>2, <2>3 DEF Calls!Send, Calls!Go, Calls!files, Calls!TypeOK, Calls!Sending
<1>4. CASE Calls!Exhausted(c) \/ Calls!Interrupted(c)
  BY <1>0, <1>4 DEF Calls!Exhausted, Calls!Interrupted, Calls!End, Calls!Go, Calls!files, Calls!TypeOK
<1>5. CASE Calls!Consider(c)
  <2>1. Calls!Skip(c) => UNCHANGED probe
    BY DEF Calls!Skip
  <2> QED
    BY <1>1, <1>2, <1>3, <1>5, <2>1 DEF Calls!Consider
<1>6. CASE Calls!Probe(c)
  <2>1. candidate[c] <= Len(Route) /\ where[c] = "probing"
    BY <1>0, <1>6, CallOwnTypes DEF Calls!Probe, CallSound
  <2>2. Calls!Skip(c) => UNCHANGED probe
    BY DEF Calls!Skip
  <2> QED
    BY <1>1, <1>3, <1>6, <2>1, <2>2 DEF Calls!Probe
<1> QED
  BY <1>4, <1>5, <1>6

LEMMA OutcomeTypeStep ==
  ASSUME Calls!ModelRouteAssumption, CallsInv, NEW c \in Callers,
         \/ \E cls \in Calls!Classes : Calls!Fails(c, cls)
         \/ Calls!Quarantine(c) \/ Calls!Opens(c) \/ Calls!Releases(c) \/ Calls!QuarantineReceipt(c)
         \/ Calls!Succeeds(c) \/ Calls!Clears(c)
  PROVE  Calls!TypeOK'
<1>0. /\ Calls!TypeOK /\ candidate[c] \in DOMAIN Route /\ candidate[c] + 1 \in 1 .. Len(Route) + 1
      /\ Calls!Key(c) \in Keys
  <2>1. Calls!TypeOK /\ CallSound(c) /\ where[c] \in Calls!Sending
    BY DEF CallsInv, Calls!Fails, Calls!Quarantine, Calls!Opens, Calls!Releases,
       Calls!QuarantineReceipt, Calls!Succeeds, Calls!Clears, Calls!Sending
  <2>2. candidate[c] \in DOMAIN Route
    BY <2>1 DEF CallSound
  <2> QED
    BY <2>1, <2>2, CallOwnTypes
<1>1. ASSUME NEW o \in Calls!Outcomes
      PROVE  [failed EXCEPT ![c] = Append(@, o)] \in [Callers -> Seq(Calls!Outcomes)]
  BY <1>0 DEF Calls!TypeOK
<1>2. CASE \E cls \in Calls!Classes : Calls!Fails(c, cls)
  <2>1. PICK cls \in Calls!Classes : Calls!Fails(c, cls)
    BY <1>2
  <2>2. failed' \in [Callers -> Seq(Calls!Outcomes)]
    BY <1>1, <2>1 DEF Calls!Fails, Calls!Outcomes
  <2>3. probe' \in [Keys -> Callers \cup {NoCaller}]
    BY <1>0, <2>1, ReleaseTyped DEF Calls!Fails, Calls!TypeOK
  <2>4. /\ where' \in [Callers -> Calls!Sending \cup {"next", "probing", "ended"}]
        /\ result' \in [Callers -> {"none", "completed", "blocked", "unavailable"}]
    BY <1>0, <2>1 DEF Calls!Fails, Calls!End, Calls!Go, Calls!TypeOK, Calls!Sending
  <2> QED
    BY <1>0, <2>1, <2>2, <2>3, <2>4 DEF Calls!Fails, Calls!files, Calls!TypeOK
<1>3. CASE Calls!Quarantine(c)
  <2>1. failed' \in [Callers -> Seq(Calls!Outcomes)]
    BY <1>1, <1>3 DEF Calls!Quarantine, Calls!Outcomes
  <2> QED
    BY <1>0, <1>3, <2>1 DEF Calls!Quarantine, Calls!Go, Calls!TypeOK, Calls!Sending
<1>4. CASE Calls!Opens(c)
  <2>1. now + Cooldown \in Nat
    BY <1>0 DEF Calls!TypeOK, Calls!ModelRouteAssumption
  <2>2. retryAt' \in [Keys -> Nat]
    BY <1>0, <1>4, <2>1 DEF Calls!Opens, Calls!TypeOK
  <2> QED
    BY <1>0, <1>4, <2>2 DEF Calls!Opens, Calls!Go, Calls!call, Calls!TypeOK, Calls!Sending
<1>5. CASE Calls!Releases(c)
  <2>1. candidate' \in [Callers -> 1 .. Len(Route) + 1]
    BY <1>0, <1>5 DEF Calls!Releases, Calls!TypeOK
  <2>2. probe' \in [Keys -> Callers \cup {NoCaller}]
    BY <1>0, <1>5, ReleaseTyped DEF Calls!Releases
  <2> QED
    BY <1>0, <1>5, <2>1, <2>2 DEF Calls!Releases, Calls!Go, Calls!files, Calls!TypeOK, Calls!Sending
<1>6. CASE Calls!QuarantineReceipt(c) \/ Calls!Succeeds(c) \/ Calls!Clears(c)
  <2>1. probe' \in [Keys -> Callers \cup {NoCaller}]
    BY <1>0, <1>6, ReleaseTyped DEF Calls!QuarantineReceipt, Calls!Succeeds, Calls!Clears, Calls!TypeOK
  <2>2. /\ where' \in [Callers -> Calls!Sending \cup {"next", "probing", "ended"}]
        /\ result' \in [Callers -> {"none", "completed", "blocked", "unavailable"}]
    BY <1>0, <1>6 DEF Calls!QuarantineReceipt, Calls!Succeeds, Calls!Clears, Calls!End, Calls!Go,
       Calls!TypeOK, Calls!Sending
  <2>3. breaker' \in [Keys -> {"closed", "open", "quarantined", "damaged"}]
    BY <1>0, <1>6 DEF Calls!QuarantineReceipt, Calls!Succeeds, Calls!Clears, Calls!files, Calls!TypeOK
  <2> QED
    BY <1>0, <1>6, <2>1, <2>2, <2>3 DEF Calls!QuarantineReceipt, Calls!Succeeds, Calls!Clears,
       Calls!files, Calls!TypeOK
<1> QED
  BY <1>2, <1>3, <1>4, <1>5, <1>6

LEMMA AroundTypeStep ==
  ASSUME Calls!ModelRouteAssumption, Calls!TypeOK,
         \/ Calls!Tick \/ (\E c \in Callers : Calls!Dies(c))
         \/ (\E k \in Keys : Calls!Damage(k)) \/ UNCHANGED Calls!vars
  PROVE  Calls!TypeOK'
<1>1. CASE Calls!Tick
  BY <1>1 DEF Calls!Tick, Calls!files, Calls!call, Calls!TypeOK, Calls!ModelRouteAssumption
<1>2. ASSUME NEW c \in Callers, Calls!Dies(c) PROVE Calls!TypeOK'
  <2>1. damages' \in 0 .. MaxDamages
    BY <1>2 DEF Calls!Dies, Calls!TypeOK, Calls!ModelRouteAssumption
  <2>2. probe' \in [Keys -> Callers \cup {NoCaller}]
    BY <1>2, ReleaseTyped DEF Calls!Dies
  <2> QED
    BY <1>2, <2>1, <2>2 DEF Calls!Dies, Calls!End, Calls!Go, Calls!files, Calls!TypeOK
<1>3. ASSUME NEW k \in Keys, Calls!Damage(k) PROVE Calls!TypeOK'
  <2>1. damages' \in 0 .. MaxDamages
    BY <1>3 DEF Calls!Damage, Calls!TypeOK, Calls!ModelRouteAssumption
  <2> QED
    BY <1>3, <2>1 DEF Calls!Damage, Calls!call, Calls!TypeOK
<1>4. CASE UNCHANGED Calls!vars
  BY <1>4 DEF Calls!vars, Calls!files, Calls!call, Calls!TypeOK
<1> QED
  BY <1>1, <1>2, <1>3, <1>4

LEMMA CallsTypeStep ==
  ASSUME Calls!ModelRouteAssumption, CallsInv, [Calls!Next]_(Calls!vars)
  PROVE  Calls!TypeOK'
<1>1. Calls!TypeOK
  BY DEF CallsInv
<1> QED
  BY <1>1, ConsiderTypeStep, OutcomeTypeStep, AroundTypeStep DEF Calls!Next, Calls!Step

-----------------------------------------------------------------------------
(* The invariant *)

\* What a step of c leaves to the other callers.
CallApart(c) ==
    /\ \A d \in Callers \ {c} :
         /\ where'[d] = where[d] /\ candidate'[d] = candidate[d] /\ tried'[d] = tried[d]
         /\ failed'[d] = failed[d]
         /\ halfOpen'[d] = halfOpen[d] /\ result'[d] = result[d]
    /\ marker \subseteq marker'
    /\ \A k \in Keys, d \in Callers \ {c} : probe[k] = d => probe'[k] = d

LEMMA SoundKept ==
  ASSUME Calls!ModelRouteAssumption, Calls!TypeOK, NEW d \in Callers, CallSound(d),
         where'[d] = where[d], candidate'[d] = candidate[d], tried'[d] = tried[d], failed'[d] = failed[d],
         halfOpen'[d] = halfOpen[d], result'[d] = result[d], marker \subseteq marker',
         \A k \in Keys : probe[k] = d => probe'[k] = d
  PROVE  CallSound(d)'
<1>1. CallCounts(d)'
  BY DEF CallSound, CallCounts, CallRetriable
<1>2. CallMarked(d)'
  BY DEF CallSound, CallMarked
<1>3. Calls!Key(d)' = Calls!Key(d)
  BY DEF Calls!Key
<1>4. where[d] \in Calls!Sending => Calls!Key(d) \in Keys
  BY CallOwnTypes DEF CallSound
<1>5. where[d] \in Calls!Sending /\ halfOpen[d] => probe'[Calls!Key(d)] = d
  BY <1>4 DEF CallSound
<1> QED
  BY <1>1, <1>2, <1>3, <1>5 DEF CallSound, Calls!Tried

LEMMA CallApartStep ==
  ASSUME Calls!ModelRouteAssumption, CallsInv, Calls!TypeOK', NEW c \in Callers, CallApart(c), CallSound(c)'
  PROVE  CallsInv'
<1>1. ASSUME NEW d \in Callers PROVE CallSound(d)'
  <2>1. CASE d = c
    BY <2>1
  <2>2. CASE d # c
    <3>1. /\ where'[d] = where[d] /\ candidate'[d] = candidate[d] /\ tried'[d] = tried[d]
          /\ failed'[d] = failed[d]
          /\ halfOpen'[d] = halfOpen[d] /\ result'[d] = result[d] /\ marker \subseteq marker'
          /\ \A k \in Keys : probe[k] = d => probe'[k] = d
      BY <2>2 DEF CallApart
    <3> QED
      BY <3>1, SoundKept DEF CallsInv
  <2> QED
    BY <2>1, <2>2
<1> QED
  BY <1>1 DEF CallsInv

LEMMA EndSound ==
  ASSUME Calls!TypeOK, NEW c \in Callers, CallSound(c),
         NEW r \in {"none", "blocked", "unavailable", "completed"}, Calls!End(c, r),
         UNCHANGED <<tried, failed, marker>>,
         r = "completed" => Len(failed[c]) = Len(tried[c]) - 1
  PROVE  CallSound(c)'
<1>1. where'[c] = "ended" /\ result'[c] = r
  BY DEF Calls!End, Calls!Go, Calls!TypeOK
<1>2. CallCounts(c)'
  BY <1>1 DEF CallSound, CallCounts
<1>3. CallMarked(c)'
  BY DEF CallSound, CallMarked
<1> QED
  BY <1>1, <1>2, <1>3 DEF CallSound, Calls!Sending

LEMMA SendSound ==
  ASSUME Calls!ModelRouteAssumption, Calls!TypeOK, NEW c \in Callers, CallSound(c), NEW b \in BOOLEAN,
         where[c] \in {"next", "probing"}, candidate[c] <= Len(Route), Len(tried[c]) < MaxAttempts,
         Calls!Key(c) \notin Calls!Tried(c), Calls!Send(c, b), b => probe'[Calls!Key(c)] = c
  PROVE  CallSound(c)'
<1> DEFINE n == Len(tried[c])
<1>1. /\ tried[c] \in Seq(Keys) /\ failed[c] \in Seq(Calls!Outcomes) /\ Calls!Key(c) \in Keys /\ n \in Nat
      /\ candidate[c] \in DOMAIN Route /\ MaxAttempts \in Nat /\ DOMAIN failed[c] = 1 .. Len(failed[c])
      /\ DOMAIN tried[c] = 1 .. n
  BY CallOwnTypes DEF Calls!ModelRouteAssumption
<1>2. /\ where'[c] = "waiting" /\ tried'[c] = Append(tried[c], Calls!Key(c)) /\ halfOpen'[c] = b
      /\ UNCHANGED <<marker, failed, result, candidate>>
  BY DEF Calls!Send, Calls!Go, Calls!files, Calls!TypeOK
<1>3. Len(failed[c]) = n /\ CallRetriable(c) /\ result[c] = "none"
  BY DEF CallSound, CallCounts
<1>4. /\ Len(tried'[c]) = n + 1 /\ DOMAIN tried'[c] = 1 .. n + 1 /\ tried'[c][n + 1] = Calls!Key(c)
      /\ \A i \in 1 .. n : tried'[c][i] = tried[c][i]
  BY <1>1, <1>2
<1>5. Calls!Key(c)' = Calls!Key(c)
  BY <1>2 DEF Calls!Key
<1>6. CallCounts(c)'
  <2>1. Len(failed'[c]) = n /\ CallRetriable(c)' /\ result'[c] = "none"
    BY <1>2, <1>3 DEF CallRetriable
  <2>2. \A i \in DOMAIN failed'[c] : failed'[c][i] = "retriable"
    BY <2>1 DEF CallRetriable
  <2>3. n <= n + 1 /\ n + 1 <= MaxAttempts /\ n = (n + 1) - 1
    BY <1>1
  <2> QED
    BY <1>2, <1>4, <2>1, <2>2, <2>3 DEF CallCounts
<1>7. CallMarked(c)'
  BY <1>2, <1>3 DEF CallMarked, CallRetriable
<1>8. \A i, j \in DOMAIN tried'[c] : i # j => tried'[c][i] # tried'[c][j]
  <2>1. \A i \in 1 .. n : tried[c][i] # Calls!Key(c)
    BY <1>1 DEF Calls!Tried
  <2>2. \A i, j \in 1 .. n : i # j => tried[c][i] # tried[c][j]
    BY <1>1 DEF CallSound
  <2>3. \A i \in 1 .. n + 1 : i \in 1 .. n \/ i = n + 1
    BY <1>1
  <2> QED
    BY <1>4, <2>1, <2>2, <2>3
<1>9. where'[c] # "probing" /\ n + 1 > 0
  BY <1>1, <1>2
<1> QED
  BY <1>1, <1>2, <1>4, <1>5, <1>6, <1>7, <1>8, <1>9 DEF CallSound

LEMMA ConsiderStep ==
  ASSUME Calls!ModelRouteAssumption, CallsInv, NEW c \in Callers,
         Calls!Consider(c) \/ Calls!Probe(c) \/ Calls!Exhausted(c) \/ Calls!Interrupted(c)
  PROVE  CallApart(c) /\ CallSound(c)'
<1>0. /\ Calls!TypeOK /\ CallSound(c) /\ c # NoCaller /\ Len(tried[c]) \in Nat /\ Len(failed[c]) \in Nat
  BY CallOwnTypes DEF CallsInv
<1>1. ASSUME Calls!Skip(c), where[c] \in {"next", "probing"}, UNCHANGED probe
      PROVE  CallApart(c) /\ CallSound(c)'
  <2>1. CallApart(c)
    BY <1>0, <1>1 DEF CallApart, Calls!Skip, Calls!Go, Calls!files, Calls!TypeOK
  <2>2. where'[c] = "next" /\ UNCHANGED <<tried, failed, marker, result>>
    BY <1>0, <1>1 DEF Calls!Skip, Calls!Go, Calls!files, Calls!TypeOK
  <2>3. CallCounts(c)'
    BY <1>0, <1>1, <2>2 DEF CallSound, CallCounts, CallRetriable
  <2>4. CallMarked(c)'
    BY <1>0, <2>2 DEF CallSound, CallMarked
  <2> QED
    BY <1>0, <2>1, <2>2, <2>3, <2>4 DEF CallSound, Calls!Sending
<1>2. ASSUME where[c] = "next", candidate[c] <= Len(Route), Len(tried[c]) < MaxAttempts,
             Calls!Key(c) \notin Calls!Tried(c),
             Calls!Go(c, "probing"), UNCHANGED <<now, Calls!files, probe, Calls!call, damages>>
      PROVE  CallApart(c) /\ CallSound(c)'
  <2>1. CallApart(c)
    BY <1>0, <1>2 DEF CallApart, Calls!Go, Calls!files, Calls!call, Calls!TypeOK
  <2>2. /\ where'[c] = "probing" /\ UNCHANGED <<tried, failed, marker, result, candidate>>
        /\ Calls!Key(c)' = Calls!Key(c)
    BY <1>0, <1>2 DEF Calls!Go, Calls!files, Calls!call, Calls!TypeOK, Calls!Key
  <2>3. CallCounts(c)'
    BY <1>0, <1>2, <2>2 DEF CallSound, CallCounts, CallRetriable
  <2>4. CallMarked(c)'
    BY <1>0, <2>2 DEF CallSound, CallMarked
  <2>5. candidate[c] \in DOMAIN Route /\ Calls!Key(c)' \notin Calls!Tried(c)' /\ Len(tried'[c]) < MaxAttempts
    BY <1>0, <1>2, <2>2, CallOwnTypes DEF Calls!Tried
  <2> QED
    BY <1>0, <2>1, <2>2, <2>3, <2>4, <2>5 DEF CallSound, Calls!Sending
<1>3. ASSUME NEW b \in BOOLEAN, Calls!Send(c, b),
             probe' = probe \/ (probe[Calls!Key(c)] = NoCaller /\ probe' = [probe EXCEPT ![Calls!Key(c)] = c])
      PROVE  CallApart(c)
  BY <1>0, <1>3 DEF CallApart, Calls!Send, Calls!Go, Calls!files, Calls!TypeOK, Calls!ModelRouteAssumption
<1>4. ASSUME NEW r \in {"blocked", "unavailable"}, Calls!End(c, r),
             UNCHANGED <<Calls!files, probe, candidate, tried, failed, halfOpen>>
      PROVE  CallApart(c) /\ CallSound(c)'
  <2>1. CallApart(c)
    BY <1>0, <1>4 DEF CallApart, Calls!End, Calls!Go, Calls!files, Calls!TypeOK
  <2> QED
    BY <1>0, <1>4, <2>1, EndSound DEF Calls!files
<1>5. CASE Calls!Consider(c)
  <2>1. CASE Calls!Skip(c)
    BY <1>1, <1>5, <2>1 DEF Calls!Consider, Calls!Skip
  <2>2. CASE /\ Calls!Go(c, "probing") /\ Calls!Key(c) \notin Calls!Tried(c)
             /\ UNCHANGED <<now, Calls!files, probe, Calls!call, damages>>
    BY <1>2, <1>5, <2>2 DEF Calls!Consider
  <2>3. CASE Calls!Send(c, FALSE) /\ Calls!Key(c) \notin Calls!Tried(c) /\ UNCHANGED probe
    <3>1. where[c] = "next" /\ candidate[c] <= Len(Route) /\ Len(tried[c]) < MaxAttempts
      BY <1>5 DEF Calls!Consider
    <3>2. CallSound(c)'
      BY <1>0, <2>3, <3>1, SendSound
    <3>3. CallApart(c)
      BY <1>0, <2>3 DEF CallApart, Calls!Send, Calls!Go, Calls!files, Calls!TypeOK
    <3> QED
      BY <3>2, <3>3
  <2> QED
    BY <1>5, <2>1, <2>2, <2>3 DEF Calls!Consider
<1>6. CASE Calls!Probe(c)
  <2>1. /\ where[c] = "probing" /\ candidate[c] <= Len(Route) /\ Len(tried[c]) < MaxAttempts
        /\ Calls!Key(c) \notin Calls!Tried(c)
        /\ Calls!Key(c) \in Keys
    BY <1>0, <1>6, CallOwnTypes DEF Calls!Probe, CallSound, Calls!ModelRouteAssumption
  <2>2. CASE probe[Calls!Key(c)] = NoCaller /\ probe' = [probe EXCEPT ![Calls!Key(c)] = c] /\ Calls!Send(c, TRUE)
    <3>1. probe'[Calls!Key(c)] = c
      BY <1>0, <2>1, <2>2 DEF Calls!TypeOK
    <3> QED
      BY <1>0, <1>3, <2>1, <2>2, <3>1, SendSound
  <2>3. CASE Calls!Skip(c)
    BY <1>1, <2>1, <2>3 DEF Calls!Skip
  <2> QED
    BY <1>6, <2>2, <2>3 DEF Calls!Probe
<1>7. CASE Calls!Exhausted(c) \/ Calls!Interrupted(c)
  BY <1>4, <1>7 DEF Calls!Exhausted, Calls!Interrupted, Calls!files
<1> QED
  BY <1>5, <1>6, <1>7

LEMMA OutcomeStep ==
  ASSUME Calls!ModelRouteAssumption, CallsInv, NEW c \in Callers,
         \/ \E cls \in Calls!Classes : Calls!Fails(c, cls)
         \/ Calls!Quarantine(c) \/ Calls!Opens(c) \/ Calls!Releases(c) \/ Calls!QuarantineReceipt(c)
         \/ Calls!Succeeds(c) \/ Calls!Clears(c)
  PROVE  CallApart(c) /\ CallSound(c)'
<1> DEFINE n == Len(tried[c])
<1>0. /\ Calls!TypeOK /\ CallSound(c) /\ CallCounts(c) /\ CallMarked(c) /\ c # NoCaller /\ n \in Nat
      /\ failed[c] \in Seq(Calls!Outcomes) /\ Len(failed[c]) \in Nat /\ DOMAIN failed[c] = 1 .. Len(failed[c])
      /\ where[c] \in Calls!Sending
  <2>1. Calls!TypeOK /\ CallSound(c)
    BY DEF CallsInv
  <2>2. where[c] \in Calls!Sending
    BY DEF Calls!Fails, Calls!Quarantine, Calls!Opens, Calls!Releases, Calls!QuarantineReceipt,
       Calls!Succeeds, Calls!Clears, Calls!Sending
  <2> QED
    BY <2>1, <2>2, CallOwnTypes DEF CallSound
<1>1. /\ n > 0 /\ tried[c][n] = Calls!Key(c) /\ (halfOpen[c] => probe[Calls!Key(c)] = c)
      /\ candidate[c] \in DOMAIN Route /\ Calls!Key(c) \in Keys
  BY <1>0, CallOwnTypes DEF CallSound
\* A request that has an outcome: the list of outcomes is as long as that of requests.
<1>2. ASSUME NEW o \in Calls!Outcomes, where[c] = "waiting", failed' = [failed EXCEPT ![c] = Append(@, o)],
             UNCHANGED tried, where'[c] \in {"opening", "releasing", "marked", "ended"},
             result'[c] \in {"none", "blocked"},
             where'[c] \in {"opening", "releasing"} => o = "retriable" /\ result'[c] = "none",
             where'[c] = "marked" => result'[c] = "none",
             marker \subseteq marker', o = "identity-violation" => Calls!Key(c) \in marker'
      PROVE  CallCounts(c)' /\ CallMarked(c)'
  <2>1. failed'[c] = Append(failed[c], o) /\ Len(failed[c]) = n - 1 /\ CallRetriable(c)
    BY <1>0, <1>2 DEF Calls!TypeOK, CallCounts
  <2>2. /\ Len(failed'[c]) = n /\ DOMAIN failed'[c] = 1 .. n /\ failed'[c][n] = o
        /\ \A i \in 1 .. n : i < n => failed'[c][i] = "retriable"
    <3>1. Len(failed'[c]) = n /\ DOMAIN failed'[c] = 1 .. n /\ failed'[c][n] = o
      BY <1>0, <1>1, <2>1
    <3>2. ASSUME NEW i \in 1 .. n, i < n PROVE failed'[c][i] = "retriable"
      <4>1. i \in DOMAIN failed[c]
        BY <1>0, <2>1, <3>2
      <4> QED
        BY <1>0, <2>1, <4>1 DEF CallRetriable
    <3> QED
      BY <3>1, <3>2
  <2>3. where'[c] \in {"opening", "releasing"} => CallRetriable(c)'
    <3>1. ASSUME o = "retriable", NEW i \in DOMAIN failed'[c] PROVE failed'[c][i] = "retriable"
      <4>1. i \in 1 .. n /\ (i < n \/ i = n)
        BY <1>0, <2>2
      <4> QED
        BY <2>2, <3>1, <4>1
    <3> QED
      BY <1>2, <3>1 DEF CallRetriable
  <2>4. CallCounts(c)'
    BY <1>0, <1>2, <2>2, <2>3 DEF CallCounts
  <2>5. ASSUME NEW i \in DOMAIN failed'[c], failed'[c][i] = "identity-violation"
        PROVE  tried'[c][i] \in marker'
    <3>1. i = n
      BY <1>0, <2>2, <2>5
    <3> QED
      BY <1>1, <1>2, <2>2, <2>5, <3>1
  <2> QED
    BY <2>4, <2>5 DEF CallMarked
<1>3. CASE \E cls \in Calls!Classes : Calls!Fails(c, cls)
  <2>1. PICK cls \in Calls!Classes : Calls!Fails(c, cls)
    BY <1>3
  <2>2. /\ where[c] = "waiting" /\ failed' = [failed EXCEPT ![c] = Append(@, cls)] /\ cls \in Calls!Outcomes
        /\ cls # "identity-violation" /\ UNCHANGED <<tried, marker, candidate, halfOpen>>
        /\ result[c] = "none"
    BY <1>0, <2>1 DEF Calls!Fails, Calls!files, Calls!Classes, Calls!Outcomes, CallCounts
  <2>3. \/ where'[c] \in {"opening", "releasing"} /\ cls = "retriable" /\ UNCHANGED <<result, probe>>
        \/ where'[c] = "ended" /\ result'[c] = "blocked"
    BY <1>0, <2>1 DEF Calls!Fails, Calls!End, Calls!Go, Calls!TypeOK, Calls!Classes
  <2>4. CallCounts(c)' /\ CallMarked(c)'
    BY <1>2, <2>2, <2>3
  <2>5. CallApart(c)
    BY <1>0, <2>1, ReleaseTyped DEF CallApart, Calls!Fails, Calls!End, Calls!Go, Calls!files, Calls!TypeOK
  <2>6. Calls!Key(c)' = Calls!Key(c)
    BY <2>2 DEF Calls!Key
  <2> QED
    BY <1>0, <1>1, <2>2, <2>3, <2>4, <2>5, <2>6 DEF CallSound, Calls!Sending
<1>4. CASE Calls!Quarantine(c)
  <2>1. /\ where[c] = "waiting" /\ failed' = [failed EXCEPT ![c] = Append(@, "identity-violation")]
        /\ UNCHANGED <<tried, candidate, halfOpen, probe, result>> /\ marker' = marker \cup {Calls!Key(c)}
        /\ where'[c] = "marked" /\ result[c] = "none" /\ "identity-violation" \in Calls!Outcomes
    BY <1>0, <1>4 DEF Calls!Quarantine, Calls!Go, Calls!TypeOK, Calls!Outcomes, CallCounts
  <2>2. CallCounts(c)' /\ CallMarked(c)'
    BY <1>2, <2>1
  <2>3. CallApart(c)
    BY <1>0, <1>4 DEF CallApart, Calls!Quarantine, Calls!Go, Calls!TypeOK
  <2>4. Calls!Key(c)' = Calls!Key(c)
    BY <2>1 DEF Calls!Key
  <2> QED
    BY <1>0, <1>1, <2>1, <2>2, <2>3, <2>4 DEF CallSound
<1>5. CASE Calls!Opens(c) \/ Calls!Releases(c)
  <2>1. /\ UNCHANGED <<tried, failed, marker, result>>
        /\ \/ where[c] = "opening" /\ where'[c] = "releasing" /\ UNCHANGED <<candidate, halfOpen, probe>>
           \/ where[c] = "releasing" /\ where'[c] = "next"
    BY <1>0, <1>5 DEF Calls!Opens, Calls!Releases, Calls!Go, Calls!files, Calls!call, Calls!TypeOK
  <2>2. CallCounts(c)'
    BY <1>0, <2>1 DEF CallCounts, CallRetriable
  <2>3. CallMarked(c)'
    BY <1>0, <2>1 DEF CallMarked
  <2>4. CallApart(c)
    BY <1>0, <1>5, ReleaseTyped DEF CallApart, Calls!Opens, Calls!Releases, Calls!Go, Calls!files,
       Calls!call, Calls!TypeOK
  <2>5. candidate' = candidate => Calls!Key(c)' = Calls!Key(c)
    BY DEF Calls!Key
  <2> QED
    BY <1>0, <1>1, <2>1, <2>2, <2>3, <2>4, <2>5 DEF CallSound, Calls!Sending
<1>6. CASE Calls!QuarantineReceipt(c) \/ Calls!Clears(c)
  <2>1. /\ UNCHANGED <<tried, failed, marker>>
        /\ \/ Calls!End(c, "blocked")
           \/ Calls!End(c, "completed") /\ Len(failed[c]) = n - 1
    BY <1>0, <1>6 DEF Calls!QuarantineReceipt, Calls!Clears, CallCounts
  <2>2. CallApart(c)
    BY <1>0, <1>6, ReleaseTyped DEF CallApart, Calls!QuarantineReceipt, Calls!Clears, Calls!End,
       Calls!Go, Calls!TypeOK
  <2> QED
    BY <1>0, <2>1, <2>2, EndSound
<1>7. CASE Calls!Succeeds(c)
  <2>1. /\ UNCHANGED <<tried, failed, marker, candidate, halfOpen>> /\ where[c] = "waiting"
        /\ Calls!End(c, "blocked") \/ (where'[c] = "clearing" /\ UNCHANGED <<probe, result>>)
    BY <1>0, <1>7 DEF Calls!Succeeds, Calls!Go, Calls!files, Calls!TypeOK
  <2>2. CallApart(c)
    BY <1>0, <1>7, ReleaseTyped DEF CallApart, Calls!Succeeds, Calls!End, Calls!Go, Calls!files, Calls!TypeOK
  <2>3. CASE Calls!End(c, "blocked")
    BY <1>0, <2>1, <2>2, <2>3, EndSound
  <2>4. CASE where'[c] = "clearing" /\ UNCHANGED <<probe, result>>
    <3>1. CallCounts(c)'
      BY <1>0, <2>1, <2>4 DEF CallCounts, CallRetriable
    <3>2. CallMarked(c)' /\ Calls!Key(c)' = Calls!Key(c)
      BY <1>0, <2>1 DEF CallMarked, Calls!Key
    <3> QED
      BY <1>0, <1>1, <2>1, <2>2, <2>4, <3>1, <3>2 DEF CallSound
  <2> QED
    BY <2>1, <2>3, <2>4
<1> QED
  BY <1>3, <1>4, <1>5, <1>6, <1>7

LEMMA AroundStep ==
  ASSUME Calls!ModelRouteAssumption, CallsInv, Calls!TypeOK',
         \/ Calls!Tick \/ (\E c \in Callers : Calls!Dies(c))
         \/ (\E k \in Keys : Calls!Damage(k)) \/ UNCHANGED Calls!vars
  PROVE  CallsInv'
<1>1. CASE Calls!Tick \/ (\E k \in Keys : Calls!Damage(k)) \/ UNCHANGED Calls!vars
  <2>1. UNCHANGED <<where, candidate, tried, failed, halfOpen, result, marker, probe>>
    BY <1>1 DEF Calls!Tick, Calls!Damage, Calls!vars, Calls!files, Calls!call
  <2>2. ASSUME NEW d \in Callers PROVE CallSound(d)'
    BY <2>1, SoundKept DEF CallsInv
  <2> QED
    BY <2>2 DEF CallsInv
<1>2. ASSUME NEW c \in Callers, Calls!Dies(c) PROVE CallsInv'
  <2>1. Calls!TypeOK /\ CallSound(c) /\ Calls!End(c, "none") /\ UNCHANGED <<tried, failed, marker>>
    BY <1>2 DEF CallsInv, Calls!Dies, Calls!files
  <2>2. CallApart(c)
    BY <1>2, <2>1, ReleaseTyped DEF CallApart, Calls!Dies, Calls!End, Calls!Go, Calls!files, Calls!TypeOK
  <2>3. CallSound(c)'
    BY <2>1, EndSound
  <2> QED
    BY <2>2, <2>3, CallApartStep
<1> QED
  BY <1>1, <1>2

LEMMA CallsInvStep ==
  ASSUME Calls!ModelRouteAssumption, CallsInv, [Calls!Next]_(Calls!vars)
  PROVE  CallsInv'
<1>0. Calls!TypeOK'
  BY CallsTypeStep
<1>1. ASSUME NEW c \in Callers, Calls!Step(c) \/ Calls!Interrupted(c)
      PROVE  CallsInv'
  <2>1. CallApart(c) /\ CallSound(c)'
    BY <1>1, ConsiderStep, OutcomeStep DEF Calls!Step
  <2> QED
    BY <1>0, <2>1, CallApartStep
<1> QED
  BY <1>0, <1>1, AroundStep DEF Calls!Next

LEMMA CallsInitSound ==
  ASSUME Calls!ModelRouteAssumption, Calls!Init
  PROVE  CallsInv
<1>1. Calls!TypeOK
  <2>1. << >> \in Seq(Keys) /\ << >> \in Seq(Calls!Outcomes) /\ 1 \in 1 .. Len(Route) + 1
    BY DEF Calls!ModelRouteAssumption
  <2> QED
    BY <2>1 DEF Calls!Init, Calls!TypeOK, Calls!ModelRouteAssumption
<1>2. ASSUME NEW c \in Callers PROVE CallSound(c)
  <2>1. tried[c] = << >> /\ failed[c] = << >> /\ where[c] = "next" /\ result[c] = "none"
    BY DEF Calls!Init
  <2>2. Len(<< >>) = 0 /\ DOMAIN << >> = {}
    OBVIOUS
  <2>3. CallCounts(c) /\ CallMarked(c)
    BY <2>1, <2>2 DEF CallCounts, CallMarked, CallRetriable, Calls!ModelRouteAssumption
  <2> QED
    BY <2>1, <2>2, <2>3 DEF CallSound, Calls!Sending
<1> QED
  BY <1>1, <1>2 DEF CallsInv

LEMMA CallsInvImplies == CallsInv => Calls!CallsAreSafe
<1> SUFFICES ASSUME CallsInv PROVE Calls!CallsAreSafe
  OBVIOUS
<1>1. Calls!OneProbe
  BY DEF CallsInv, CallSound, Calls!OneProbe
<1>2. Calls!QuarantineSticks
  BY DEF CallsInv, CallSound, CallMarked, Calls!QuarantineSticks, Calls!State
<1>3. Calls!FallsBackOnlyIfSafe
  BY DEF CallsInv, CallSound, CallCounts, Calls!FallsBackOnlyIfSafe
<1> QED
  BY <1>1, <1>2, <1>3 DEF Calls!CallsAreSafe

\* The inductive invariant of the calls.
THEOREM RouteCorrect == Calls!Spec => []CallsInv
<1>1. Calls!Init => CallsInv
  BY CallsAssumption, CallsInitSound
<1>2. CallsInv /\ [Calls!Next]_(Calls!vars) => CallsInv'
  BY CallsAssumption, CallsInvStep
<1> QED
  BY <1>1, <1>2, PTL DEF Calls!Spec

\* The variables of routed calls keep their types.
THEOREM RouteTypeCorrect == Calls!Spec => []Calls!TypeOK
<1>1. CallsInv => Calls!TypeOK
  BY DEF CallsInv
<1> QED
  BY <1>1, RouteCorrect, PTL

\* However many callers share the breaker files and wherever they die: one probe at a
\* time for a key, a candidate that broke the policy stays quarantined, and no request
\* follows a failure that may not fall back (acquireProbe, quarantineRouteCandidate,
\* callRoutedAgent).
THEOREM RoutedCallsStaySafe == Calls!Spec => []CallsAreSafe
<1>1. CallsInv => CallsAreSafe
  BY CallsInvImplies DEF CallsAreSafe
<1> QED
  BY <1>1, RouteCorrect, PTL

------------------------------------------------------------------------------
(***************************************************************************)
(* Folds (Routing).  The candidates and the weights of the rotation are    *)
(* folds over finite sets.  c[s] is the element that a fold takes out of   *)
(* s, G[x] what it does with x.                                            *)
(***************************************************************************)
Picks(S, c) == \A s \in SUBSET S : s # {} => c[s] \in s
IsFold(S, c, b, G, g) ==
    g = [s \in SUBSET S |-> IF s = {} THEN b ELSE G[c[s]][g[s \ {c[s]}]]]
FoldBy(S, c, b, G) == CHOOSE g : IsFold(S, c, b, G, g)

\* What holds of nothing, and of a set when it holds of the set without the element taken out,
\* holds of every part of a finite set.
LEMMA FoldIn ==
  ASSUME NEW S, IsFiniteSet(S), NEW c, Picks(S, c), NEW F, NEW V, F[{}] \in V[{}],
         \A s \in SUBSET S : s # {} /\ F[s \ {c[s]}] \in V[s \ {c[s]}] => F[s] \in V[s]
  PROVE  \A s \in SUBSET S : F[s] \in V[s]
  <1> DEFINE B == {s \in SUBSET S : F[s] \notin V[s]}
  <1> SUFFICES ASSUME B # {} PROVE FALSE
    OBVIOUS
  <1>1. PICK s \in B : \A u \in B : u \subseteq s => u = s
    <2>1. B \subseteq SUBSET S
      OBVIOUS
    <2> HIDE DEF B
    <2> QED
      BY <2>1, SmallestSubset
  <1>2. s # {}
    BY <1>1
  <1>3. c[s] \in s
    BY <1>1, <1>2 DEF Picks
  <1>4. s \ {c[s]} \notin B
    BY <1>1, <1>3
  <1> QED
    BY <1>1, <1>2, <1>3, <1>4

\* Two folds agree on the parts they have in common.
LEMMA FoldsAgree ==
  ASSUME NEW S, IsFiniteSet(S), NEW c, Picks(S, c), NEW T, T \subseteq S, NEW b, NEW G,
         NEW g, IsFold(S, c, b, G, g), NEW h, IsFold(T, c, b, G, h)
  PROVE  \A s \in SUBSET T : g[s] = h[s]
  <1> DEFINE V == [s \in SUBSET T |-> {h[s]}]
  <1>1. IsFiniteSet(T) /\ Picks(T, c)
    BY FS_Subset DEF Picks
  <1>2. \A s \in SUBSET T : /\ g[s] = IF s = {} THEN b ELSE G[c[s]][g[s \ {c[s]}]]
                            /\ h[s] = IF s = {} THEN b ELSE G[c[s]][h[s \ {c[s]}]]
    BY DEF IsFold
  <1>3. g[{}] \in V[{}]
    BY <1>2
  <1>4. ASSUME NEW s \in SUBSET T, s # {}, g[s \ {c[s]}] \in V[s \ {c[s]}] PROVE g[s] \in V[s]
    BY <1>2, <1>4
  <1> HIDE DEF V
  <1>5. \A s \in SUBSET T : g[s] \in V[s]
    BY <1>1, <1>3, <1>4, FoldIn
  <1> QED
    BY <1>5 DEF V

\* Every finite set has its fold.
LEMMA FoldExists ==
  ASSUME NEW S, IsFiniteSet(S), NEW c, Picks(S, c), NEW b, NEW G
  PROVE  IsFold(S, c, b, G, FoldBy(S, c, b, G))
  <1> DEFINE By(s) == FoldBy(s, c, b, G)
             Is(s, g) == IsFold(s, c, b, G, g)
             B == {s \in SUBSET S : ~ Is(s, By(s))}
  <1> SUFFICES ASSUME B # {} PROVE FALSE
    BY SUBSET S # {}
  <1>1. PICK T \in B : \A u \in B : u \subseteq T => u = T
    <2>1. B \subseteq SUBSET S
      OBVIOUS
    <2> HIDE DEF B
    <2> QED
      BY <2>1, SmallestSubset
  <1> DEFINE Val(s) == IF s = {} THEN b ELSE G[c[s]][By(s \ {c[s]})[s \ {c[s]}]]
             g == [s \in SUBSET T |-> Val(s)]
  <1>2. ASSUME NEW u \in SUBSET T, u # T PROVE Val(u) = By(u)[u]
    <2>1. Is(u, By(u)) /\ IsFiniteSet(u) /\ Picks(u, c)
      BY <1>1, <1>2, FS_Subset DEF Picks
    <2>2. By(u)[u] = IF u = {} THEN b ELSE G[c[u]][By(u)[u \ {c[u]}]]
      BY <2>1 DEF IsFold
    <2>3. ASSUME u # {} PROVE By(u)[u \ {c[u]}] = By(u \ {c[u]})[u \ {c[u]}]
      <3> DEFINE v == u \ {c[u]}
      <3>1. c[u] \in u
        BY <2>3 DEF Picks
      <3>2. v # T /\ v \in SUBSET S /\ v \subseteq u /\ v \subseteq T
        BY <1>1, <3>1
      <3>3. Is(v, By(v))
        BY <1>1, <3>2
      <3> HIDE DEF v, By
      <3>4. \A s \in SUBSET v : By(u)[s] = By(v)[s]
        BY <2>1, <3>2, <3>3, FoldsAgree
      <3> QED
        BY <3>4 DEF v
    <2> QED
      BY <2>2, <2>3
  <1>3. ASSUME NEW s \in SUBSET T
        PROVE  Val(s) = IF s = {} THEN b ELSE G[c[s]][g[s \ {c[s]}]]
    <2>1. CASE s = {}
      BY <2>1
    <2>2. CASE s # {}
      <3> DEFINE u == s \ {c[s]}
      <3>1. u \in SUBSET T /\ u # T
        BY <1>1, <2>2 DEF Picks
      <3>2. g[u] = Val(u)
        BY <3>1
      <3>3. g[u] = By(u)[u]
        BY <3>1, <3>2, <1>2
      <3> HIDE DEF g
      <3> QED
        BY <2>2, <3>3
    <2> QED
      BY <2>1, <2>2
  <1>4. Is(T, g)
    <2> HIDE DEF Val
    <2>1. g = [s \in SUBSET T |-> Val(s)]
      OBVIOUS
    <2> HIDE DEF g
    <2> QED
      BY <1>3, <2>1 DEF IsFold
  <1>5. Is(T, By(T))
    <2> HIDE DEF g
    <2> QED
      BY <1>4 DEF FoldBy
  <1> QED
    BY <1>1, <1>5

\* A fold stays in sets that each of its steps respects.
Respects(S, c, G, V) ==
    \A s \in SUBSET S : s # {} => \A v \in V[s \ {c[s]}] : G[c[s]][v] \in V[s]
Built(S, c, b, G, V, g) ==
    /\ g = [s \in SUBSET S |-> g[s]]
    /\ g[{}] = b
    /\ \A s \in SUBSET S : s # {} => g[s] = G[c[s]][g[s \ {c[s]}]]
    /\ \A s \in SUBSET S : g[s] \in V[s]

LEMMA FoldBuilt ==
  ASSUME NEW S, IsFiniteSet(S), NEW c, Picks(S, c), NEW V, NEW b, b \in V[{}], NEW G,
         Respects(S, c, G, V)
  PROVE  \E g : Built(S, c, b, G, V, g)
  <1> DEFINE g == FoldBy(S, c, b, G)
  <1>1. IsFold(S, c, b, G, g)
    BY FoldExists
  <1> HIDE DEF g
  <1>2. /\ g = [s \in SUBSET S |-> g[s]]
        /\ g[{}] = b
        /\ \A s \in SUBSET S : s # {} => g[s] = G[c[s]][g[s \ {c[s]}]]
    BY <1>1 DEF IsFold
  <1>3. \A s \in SUBSET S : s # {} /\ g[s \ {c[s]}] \in V[s \ {c[s]}] => g[s] \in V[s]
    BY <1>2 DEF Respects
  <1>4. \A s \in SUBSET S : g[s] \in V[s]
    BY <1>2, <1>3, FoldIn
  <1> QED
    BY <1>2, <1>4 DEF Built

\* One of the greatest, and of the smallest, values on a finite set.
LEMMA Greatest ==
  ASSUME NEW S, IsFiniteSet(S), S # {}, NEW w, \A x \in S : w[x] \in Int
  PROVE  /\ \E x \in S : \A y \in S : w[x] >= w[y]
         /\ \E x \in S : \A y \in S : w[x] <= w[y]
  <1> DEFINE Has(s) == /\ \E x \in s : \A y \in s : w[x] >= w[y]
                       /\ \E x \in s : \A y \in s : w[x] <= w[y]
             B == {s \in SUBSET S : s # {} /\ ~ Has(s)}
  <1> SUFFICES ASSUME B # {} PROVE FALSE
    OBVIOUS
  <1>1. PICK s \in B : \A u \in B : u \subseteq s => u = s
    <2>1. B \subseteq SUBSET S
      OBVIOUS
    <2> HIDE DEF B
    <2> QED
      BY <2>1, SmallestSubset
  <1>2. PICK x \in s : TRUE
    BY <1>1
  <1>3. s \ {x} \notin B
    BY <1>1
  <1>4. CASE s \ {x} = {}
    BY <1>1, <1>2, <1>4
  <1>5. CASE Has(s \ {x})
    <2>1. PICK m \in s \ {x} : \A y \in s \ {x} : w[m] >= w[y]
      BY <1>5
    <2>2. PICK l \in s \ {x} : \A y \in s \ {x} : w[l] <= w[y]
      BY <1>5
    <2> DEFINE hi == IF w[m] >= w[x] THEN m ELSE x
               lo == IF w[l] <= w[x] THEN l ELSE x
    <2>3. hi \in s /\ \A y \in s : w[hi] >= w[y]
      BY <1>1, <1>2, <2>1
    <2>4. lo \in s /\ \A y \in s : w[lo] <= w[y]
      BY <1>1, <1>2, <2>2
    <2> HIDE DEF hi, lo
    <2> QED
      BY <1>1, <2>3, <2>4
  <1> QED
    BY <1>1, <1>3, <1>4, <1>5

------------------------------------------------------------------------------
(* The elements at some positions of a sequence. *)
Top(s) == CHOOSE x \in s : \A y \in s : x >= y
Tops(S) == [s \in SUBSET S |-> Top(s)]

LEMMA TopsPick ==
  ASSUME NEW S, IsFiniteSet(S), S \subseteq Int
  PROVE  Picks(S, Tops(S))
  <1> SUFFICES ASSUME NEW s \in SUBSET S, s # {} PROVE Top(s) \in s
    BY DEF Picks, Tops
  <1> DEFINE w == [x \in s |-> x]
  <1>1. IsFiniteSet(s) /\ \A x \in s : w[x] \in Int
    BY FS_Subset
  <1> HIDE DEF w
  <1>2. PICK x \in s : \A y \in s : w[x] >= w[y]
    BY <1>1, Greatest
  <1>3. \A y \in s : x >= y
    BY <1>2 DEF w
  <1> QED
    BY <1>3 DEF Top

AtFold(t, I, g) == g = [s \in SUBSET I |-> IF s = {} THEN <<>> ELSE Append(g[s \ {Top(s)}], t[Top(s)])]

LEMMA AtIs ==
  ASSUME NEW t, NEW I
  PROVE  Router!At(t, I) = (CHOOSE g : AtFold(t, I, g))[I]
  BY DEF Router!At, Router!MapThenFoldSet, Router!Max, AtFold, Top

LEMMA AtFoldExists ==
  ASSUME NEW E, NEW t \in Seq(E), NEW I, I \subseteq DOMAIN t
  PROVE  IsFiniteSet(I) /\ Picks(I, Tops(I)) /\ \E g : AtFold(t, I, g)
  <1>1. IsFiniteSet(I) /\ Picks(I, Tops(I))
    <2>1. DOMAIN t = 1 .. Len(t) /\ Len(t) \in Nat
      OBVIOUS
    <2>2. IsFiniteSet(DOMAIN t)
      BY <2>1, FS_Interval
    <2> QED
      BY <2>1, <2>2, FS_Subset, TopsPick
  <1> DEFINE c == Tops(I)
             G == [x \in I |-> [v \in Seq(E) |-> Append(v, t[x])]]
             V == [s \in SUBSET I |-> Seq(E)]
  <1>2. \A s \in SUBSET I : s # {} => c[s] = Top(s) /\ c[s] \in I /\ s \ {c[s]} \in SUBSET I
    BY <1>1 DEF Picks, Tops
  <1>3. ASSUME NEW x \in I, NEW v \in Seq(E) PROVE G[x][v] = Append(v, t[x]) /\ G[x][v] \in Seq(E)
    OBVIOUS
  <1>4. \A s \in SUBSET I : V[s] = Seq(E)
    OBVIOUS
  <1>5. <<>> \in V[{}]
    OBVIOUS
  <1> HIDE DEF c, G, V
  <1>6. Respects(I, c, G, V)
    BY <1>2, <1>3, <1>4 DEF Respects
  <1>7. PICK g : Built(I, c, <<>>, G, V, g)
    BY <1>1, <1>5, <1>6, FoldBuilt DEF c
  <1> DEFINE rhs(s) == IF s = {} THEN <<>> ELSE Append(g[s \ {Top(s)}], t[Top(s)])
  <1>8. ASSUME NEW s \in SUBSET I PROVE g[s] = rhs(s)
    <2>1. CASE s = {}
      BY <1>7, <2>1 DEF Built
    <2>2. CASE s # {}
      <3>1. c[s] = Top(s) /\ c[s] \in I /\ s \ {c[s]} \in SUBSET I
        BY <1>2, <2>2
      <3>2. g[s \ {c[s]}] \in Seq(E)
        BY <1>4, <1>7, <3>1 DEF Built
      <3>3. g[s] = G[c[s]][g[s \ {c[s]}]]
        BY <1>7, <2>2 DEF Built
      <3> QED
        BY <1>3, <2>2, <3>1, <3>2, <3>3
    <2> QED
      BY <2>1, <2>2
  <1> HIDE DEF rhs
  <1>9. g = [s \in SUBSET I |-> rhs(s)]
    BY <1>7, <1>8 DEF Built
  <1> QED
    BY <1>1, <1>9 DEF AtFold, rhs

\* What a selection returns: only what stood at the positions, and something if there are any.
LEMMA AtReturns ==
  ASSUME NEW E, NEW t \in Seq(E), NEW I, I \subseteq DOMAIN t
  PROVE  /\ Router!At(t, I) \in Seq({t[i] : i \in I})
         /\ I # {} => Router!At(t, I) # <<>>
  <1> DEFINE c == Tops(I)
             R == {t[i] : i \in I}
             g == CHOOSE h : AtFold(t, I, h)
             V == [s \in SUBSET I |-> {q \in Seq(R) : s # {} => q # <<>>}]
  <1>1. IsFiniteSet(I) /\ Picks(I, c) /\ AtFold(t, I, g)
    BY AtFoldExists
  <1>2. \A s \in SUBSET I : g[s] = IF s = {} THEN <<>> ELSE Append(g[s \ {Top(s)}], t[Top(s)])
    <2> HIDE DEF g
    <2> QED
      BY <1>1 DEF AtFold
  <1>3. \A s \in SUBSET I : s # {} => c[s] = Top(s) /\ c[s] \in I /\ s \ {c[s]} \in SUBSET I
    BY <1>1 DEF Picks, Tops
  <1>4. g[{}] \in V[{}]
    <2>1. g[{}] = <<>>
      BY <1>2
    <2> HIDE DEF g, R
    <2> QED
      BY <2>1
  <1>5. ASSUME NEW s \in SUBSET I, s # {}, g[s \ {c[s]}] \in V[s \ {c[s]}] PROVE g[s] \in V[s]
    <2>1. g[s] = Append(g[s \ {c[s]}], t[c[s]])
      <3> HIDE DEF g, c
      <3> QED
        BY <1>2, <1>3, <1>5
    <2>2. g[s \ {c[s]}] \in Seq(R) /\ t[c[s]] \in R
      <3> HIDE DEF g, c
      <3> QED
        BY <1>3, <1>5
    <2>3. ASSUME NEW q \in Seq(R), NEW x \in R PROVE Append(q, x) \in Seq(R) /\ Append(q, x) # <<>>
      <3> HIDE DEF R
      <3> QED
        OBVIOUS
    <2> HIDE DEF g, c, R
    <2> QED
      BY <2>1, <2>2, <2>3
  <1>6. \A s \in SUBSET I : g[s] \in V[s]
    <2> HIDE DEF g, c, V
    <2> QED
      BY <1>1, <1>4, <1>5, FoldIn
  <1>7. Router!At(t, I) = g[I]
    BY AtIs
  <1>8. g[I] \in V[I]
    BY <1>6
  <1> HIDE DEF g
  <1> QED
    BY <1>7, <1>8

------------------------------------------------------------------------------
(* The weights of the rotation. *)
Rota == Router!InRotation
Heavy == [Rota -> Nat \ {0}]
LogOK == log \in Seq([engine : Engines, result : Router!Results, day : 1 .. MaxDay])

\* The router counts as everybody does.
LEMMA SameCount == \A S : Router!Cardinality(S) = Cardinality(S)
  BY DEF Router!Cardinality, Cardinality, Router!IsFiniteSet, IsFiniteSet

LEMMA RotaOK == Rota \subseteq Engines /\ Rota # {} /\ IsFiniteSet(Rota)
  <1>1. Rotation \in Seq(Engines) /\ Len(Rotation) > 0
    BY RouterAssumption DEF Router!RoutingAssumption
  <1>2. DOMAIN Rotation = 1 .. Len(Rotation) /\ Len(Rotation) \in Nat
    BY <1>1
  <1>3. Rota \subseteq Engines /\ Rota # {}
    BY <1>1, <1>2 DEF Rota, Router!InRotation
  <1>4. Rotation \in Surjection(1 .. Len(Rotation), Rota)
    BY <1>1, <1>2 DEF Surjection, Rota, Router!InRotation
  <1>5. IsFiniteSet(Rota)
    BY <1>2, <1>4, FS_Interval, FS_Surjection
  <1> QED
    BY <1>3, <1>5

\* The positions of a sequence are finitely many.
LEMMA PlacesFinite ==
  ASSUME NEW E, NEW t \in Seq(E)
  PROVE  \A I \in SUBSET DOMAIN t : IsFiniteSet(I) /\ Cardinality(I) \in Nat
  <1>1. DOMAIN t = 1 .. Len(t) /\ Len(t) \in Nat
    OBVIOUS
  <1>2. IsFiniteSet(DOMAIN t)
    BY <1>1, FS_Interval
  <1> TAKE I \in SUBSET DOMAIN t
  <1>3. IsFiniteSet(I)
    BY <1>2, FS_Subset
  <1> QED
    BY <1>3, FS_CardinalityType

LEMMA BonusIsInt ==
  ASSUME LogOK, NEW e
  PROVE  Router!Bonus(e) \in Int
  <1> DEFINE n == Cardinality(Router!Stat(e))
             d == Cardinality(Router!Done(log, Router!Stat(e)))
  <1>1. Router!Stat(e) \subseteq DOMAIN log /\ Router!Done(log, Router!Stat(e)) \subseteq DOMAIN log
    BY DEF Router!Stat, Router!Attempts, Router!Done
  <1>2. n \in Nat /\ d \in Nat
    BY <1>1, PlacesFinite DEF LogOK
  <1>3. Router!Bonus(e) = IF n < WeightSamples THEN 0 ELSE (8 * d - 3 * n) \div (2 * n)
    BY SameCount, Zenon DEF Router!Bonus
  <1>4. WeightSamples \in Nat \ {0}
    BY RouterAssumption DEF Router!RoutingAssumption
  <1> HIDE DEF n, d
  <1>5. ASSUME NEW a \in Int, NEW b \in Nat \ {0} PROVE a \div b \in Int
    BY <1>5
  <1>6. 8 * d - 3 * n \in Int /\ 2 * n \in Nat
    BY <1>2
  <1>7. n >= WeightSamples => 2 * n \in Nat \ {0}
    BY <1>2, <1>4
  <1>8. CASE n < WeightSamples
    BY <1>3, <1>8
  <1>9. CASE ~ (n < WeightSamples)
    <2>1. 2 * n \in Nat \ {0}
      BY <1>2, <1>4, <1>7, <1>9
    <2>2. (8 * d - 3 * n) \div (2 * n) \in Int
      BY <1>5, <1>6, <2>1
    <2> QED
      BY <1>3, <1>9, <2>2
  <1> QED
    BY <1>8, <1>9

\* The greater of two numbers.
LEMMA MaxOfTwo ==
  ASSUME NEW a \in Int, NEW b \in Int
  PROVE  Router!Max({a, b}) \in {a, b} /\ Router!Max({a, b}) >= a /\ Router!Max({a, b}) >= b
  <1>1. \E x \in {a, b} : \A y \in {a, b} : x >= y
    <2>1. CASE a >= b
      BY <2>1
    <2>2. CASE ~ (a >= b)
      BY <2>2
    <2> QED
      BY <2>1, <2>2
  <1> QED
    BY <1>1 DEF Router!Max

LEMMA MaxWithOne ==
  ASSUME NEW b \in Int
  PROVE  Router!Max({1, b}) \in Nat \ {0}
  <1> DEFINE m == Router!Max({1, b})
  <1>1. m \in {1, b} /\ m >= 1
    BY MaxOfTwo
  <1> HIDE DEF m
  <1> QED
    BY <1>1 DEF m

LEMMA FullOK ==
  ASSUME LogOK
  PROVE  Router!Full \in Heavy
  <1>1. ASSUME NEW e \in Rota PROVE Router!Max({1, Router!Slots(e) + Router!Bonus(e)}) \in Nat \ {0}
    <2>1. Router!Slots(e) \in Nat
      <3>1. Rotation \in Seq(Engines)
        BY RouterAssumption DEF Router!RoutingAssumption
      <3> DEFINE J == {i \in DOMAIN Rotation : Rotation[i] = e}
      <3>2. J \in SUBSET DOMAIN Rotation
        OBVIOUS
      <3>3. Router!Slots(e) = Cardinality(J)
        BY SameCount DEF Router!Slots
      <3> HIDE DEF J
      <3> QED
        BY <3>1, <3>2, <3>3, PlacesFinite
    <2>2. Router!Slots(e) + Router!Bonus(e) \in Int
      BY <2>1, BonusIsInt
    <2> QED
      BY <2>2, MaxWithOne
  <1> QED
    BY <1>1 DEF Router!Full, Heavy, Rota

\* If every summand is one, the sum counts.
LEMMA OnesCount ==
  ASSUME NEW S, IsFiniteSet(S), NEW w, \A x \in S : w[x] = 1
  PROVE  Total(w, S) = Cardinality(S)
  <1> DEFINE B == {s \in SUBSET S : Total(w, s) # Cardinality(s)}
  <1> SUFFICES ASSUME B # {} PROVE FALSE
    OBVIOUS
  <1>1. PICK s \in B : \A u \in B : u \subseteq s => u = s
    <2>1. B \subseteq SUBSET S
      OBVIOUS
    <2> HIDE DEF B
    <2> QED
      BY <2>1, SmallestSubset
  <1>2. Total(w, s) = IF s = {} THEN 0 ELSE w[First(s)] + Total(w, s \ {First(s)})
    BY PartFinite, TotalRec
  <1>3. s # {}
    BY <1>1, <1>2, FS_EmptySet
  <1>4. First(s) \in s
    BY <1>3, PickIn
  <1>5. s \ {First(s)} \notin B
    BY <1>1, <1>4
  <1>6. Cardinality(s \ {First(s)}) = Cardinality(s) - 1 /\ Cardinality(s) \in Nat
    BY <1>4, PartFinite, FS_RemoveElement, FS_CardinalityType
  <1> QED
    BY <1>1, <1>2, <1>3, <1>4, <1>5, <1>6

LEMMA RouterTotal ==
  ASSUME NEW w
  PROVE  Router!Total(w) = Total(w, Rota)
  BY DEF Router!Total, Router!MapThenSumSet, Router!MapThenFoldSet, SumBy, IsSum, First, Total, Rota

\* One slot off the heaviest, and every engine keeps one.
LEMMA ShaveOK ==
  ASSUME NEW w \in Heavy, Total(w, Rota) > Cardinality(Rota)
  PROVE  Router!Shave(w) \in Heavy /\ Total(Router!Shave(w), Rota) = Total(w, Rota) - 1
  <1> DEFINE at == {i \in DOMAIN Rotation : w[Rotation[i]] = Router!Heavier(w)}
             first == Router!Min(at)
             x == Rotation[first]
  <1>1. Cardinality(Rota) \in Nat /\ Total(w, Rota) \in Nat
    BY RotaOK, TotalNat, FS_CardinalityType DEF Heavy
  <1>2. PICK e \in Rota : w[e] # 1
    BY RotaOK, OnesCount, <1>1
  <1>3. PICK m \in Rota : \A y \in Rota : w[m] >= w[y]
    BY RotaOK, Greatest DEF Heavy
  <1>4. Router!Heavier(w) = w[m]
    <2> DEFINE W == {w[y] : y \in Rota}
    <2>1. w[m] \in W /\ \A y \in W : w[m] >= y
      BY <1>3
    <2>2. W \subseteq Int
      BY DEF Heavy
    <2>3. Router!Heavier(w) = CHOOSE y \in W : \A z \in W : y >= z
      BY DEF Router!Heavier, Router!Max, Rota
    <2> HIDE DEF W
    <2>4. Router!Heavier(w) \in W /\ \A z \in W : Router!Heavier(w) >= z
      BY <2>1, <2>3
    <2> DEFINE top == Router!Heavier(w)
    <2>5. top \in W /\ top >= w[m] /\ w[m] >= top
      BY <2>1, <2>4
    <2> HIDE DEF top
    <2>6. top \in Int /\ w[m] \in Int
      BY <2>1, <2>2, <2>5
    <2>7. top = w[m]
      BY <2>5, <2>6
    <2> QED
      BY <2>7 DEF top
  <1>5. w[m] >= 2
    BY <1>2, <1>3 DEF Heavy
  <1>6. first \in at
    <2>1. Rotation \in Seq(Engines)
      BY RouterAssumption DEF Router!RoutingAssumption
    <2>2. PICK i \in DOMAIN Rotation : Rotation[i] = m
      BY DEF Rota, Router!InRotation
    <2>3. at # {} /\ at \subseteq Int
      BY <2>1, <2>2, <1>4
    <2>4. IsFiniteSet(at)
      BY <2>1, PlacesFinite
    <2> DEFINE id == [j \in at |-> j]
    <2>5. \A j \in at : id[j] \in Int /\ id[j] = j
      BY <2>3
    <2> HIDE DEF at, id
    <2>6. PICK k \in at : \A j \in at : id[k] <= id[j]
      BY <2>3, <2>4, <2>5, Greatest
    <2>7. k \in at /\ \A j \in at : k <= j
      BY <2>5, <2>6
    <2> QED
      BY <2>7 DEF Router!Min
  <1>7. x \in Rota /\ w[x] >= 2
    BY <1>4, <1>5, <1>6 DEF Rota, Router!InRotation
  <1>8. Router!Shave(w) = [w EXCEPT ![x] = @ - 1]
    BY DEF Router!Shave
  <1> HIDE DEF x
  <1> DEFINE v == Router!Shave(w)
  <1>9. v \in Heavy /\ v[x] = w[x] - 1 /\ \A y \in Rota \ {x} : v[y] = w[y]
    BY <1>7, <1>8 DEF Heavy
  <1> HIDE DEF v
  <1>10. Total(w, Rota) = w[x] + Total(w, Rota \ {x}) /\ Total(v, Rota) = v[x] + Total(v, Rota \ {x})
    BY <1>7, <1>9, RotaOK, TotalSplit DEF Heavy
  <1>11. Total(w, Rota \ {x}) = Total(v, Rota \ {x})
    BY <1>9, RotaOK, PartFinite, TotalAgree
  <1>12. Total(v, Rota \ {x}) \in Nat /\ w[x] \in Nat
    BY <1>7, <1>9, RotaOK, PartFinite, TotalNat DEF Heavy
  <1> QED
    BY <1>9, <1>10, <1>11, <1>12 DEF v

ShaveFold(S, g) == g = [s \in SUBSET S |-> IF s = {} THEN Router!Full ELSE Router!Shave(g[s \ {First(s)}])]
Excess == Total(Router!Full, Rota) - Router!MostSlots

LEMMA WeightsIs == Router!Weights = (CHOOSE g : ShaveFold(1 .. Excess, g))[1 .. Excess]
  <1>1. Router!Total(Router!Full) - Router!MostSlots = Excess
    BY RouterTotal DEF Excess
  <1> QED
    BY <1>1 DEF Router!Weights, Router!FoldSet, Router!MapThenFoldSet, ShaveFold, First

LEMMA SlotsKnown ==
  ASSUME LogOK
  PROVE  /\ Router!MostSlots \in Nat \ {0} /\ Router!MostSlots >= Cardinality(Rota)
         /\ Excess \in Int /\ Total(Router!Full, Rota) \in Nat
         /\ Cardinality(Rota) \in Nat
  <1>1. MaxSlots \in Nat \ {0}
    BY RouterAssumption DEF Router!RoutingAssumption
  <1>2. Cardinality(Rota) \in Nat
    BY RotaOK, FS_CardinalityType
  <1>3. Router!MostSlots = Router!Max({MaxSlots, Cardinality(Rota)})
    BY SameCount DEF Router!MostSlots, Rota
  <1> DEFINE a == MaxSlots
             b == Cardinality(Rota)
             m == Router!Max({a, b})
  <1>4. m \in {a, b} /\ m >= a /\ m >= b
    <2>1. a \in Int /\ b \in Int
      BY <1>1, <1>2
    <2> HIDE DEF a, b
    <2> QED
      BY <2>1, MaxOfTwo
  <1>5. Total(Router!Full, Rota) \in Nat
    BY FullOK, RotaOK, TotalNat DEF Heavy
  <1> HIDE DEF m
  <1>6. m \in Nat \ {0}
    BY <1>1, <1>2, <1>4
  <1> QED
    BY <1>2, <1>3, <1>4, <1>5, <1>6 DEF Excess, m

LEMMA OneTo ==
  ASSUME NEW n \in Int
  PROVE  IsFiniteSet(1 .. n) /\ Cardinality(1 .. n) = IF 1 > n THEN 0 ELSE n
  <1>1. IsFiniteSet(1 .. n) /\ Cardinality(1 .. n) = IF 1 > n THEN 0 ELSE n - 1 + 1
    BY FS_Interval
  <1> QED
    BY <1>1

LEMMA ExcessCount ==
  ASSUME LogOK
  PROVE  IsFiniteSet(1 .. Excess) /\ Cardinality(1 .. Excess) = IF 1 > Excess THEN 0 ELSE Excess
  <1>1. Excess \in Int
    BY SlotsKnown
  <1> QED
    BY <1>1, OneTo

\* What k slots less leave.
Shaved(k) == {w \in Heavy : Total(w, Rota) = Total(Router!Full, Rota) - k}

LEMMA ShavedOK ==
  ASSUME LogOK, NEW k \in Nat, k < Excess, NEW w \in Shaved(k)
  PROVE  Router!Shave(w) \in Shaved(k + 1)
  <1>1. Total(w, Rota) > Cardinality(Rota)
    BY SlotsKnown DEF Excess, Shaved
  <1>2. Router!Shave(w) \in Heavy /\ Total(Router!Shave(w), Rota) = Total(w, Rota) - 1
    BY <1>1, ShaveOK DEF Shaved
  <1> QED
    BY <1>2, SlotsKnown DEF Shaved

LEMMA PartOfExcess ==
  ASSUME LogOK, NEW s \in SUBSET (1 .. Excess)
  PROVE  /\ IsFiniteSet(s) /\ Cardinality(s) \in Nat
         /\ s # {} => /\ First(s) \in s /\ Cardinality(s \ {First(s)}) \in Nat
                      /\ Cardinality(s \ {First(s)}) + 1 = Cardinality(s)
                      /\ Cardinality(s \ {First(s)}) < Excess
  <1>1. IsFiniteSet(1 .. Excess) /\ Cardinality(1 .. Excess) = IF 1 > Excess THEN 0 ELSE Excess
    BY ExcessCount
  <1>2. IsFiniteSet(s) /\ Cardinality(s) \in Nat /\ Cardinality(s) <= Cardinality(1 .. Excess)
    BY <1>1, FS_Subset, FS_CardinalityType
  <1>3. ASSUME s # {} PROVE First(s) \in s /\ Cardinality(s \ {First(s)}) = Cardinality(s) - 1
                            /\ Cardinality(s) # 0
    BY <1>2, <1>3, PickIn, FS_RemoveElement, FS_EmptySet
  <1>4. s # {} => Excess \in Nat \ {0}
    <2> SUFFICES ASSUME s # {} PROVE Excess \in Nat \ {0}
      OBVIOUS
    <2>1. Excess \in Int
      BY SlotsKnown
    <2>2. PICK x : x \in s
      OBVIOUS
    <2>3. x \in 1 .. Excess
      BY <2>2
    <2> QED
      BY <2>1, <2>3
  <1> QED
    BY <1>1, <1>2, <1>3, <1>4

LEMMA WeightsOK ==
  ASSUME LogOK
  PROVE  Router!Weights \in Heavy /\ Total(Router!Weights, Rota) <= Router!MostSlots
  <1> DEFINE S == 1 .. Excess
             c == [s \in SUBSET S |-> First(s)]
             V == [s \in SUBSET S |-> Shaved(Cardinality(s))]
             G == [x \in S |-> [w \in Heavy |-> Router!Shave(w)]]
  <1>1. IsFiniteSet(S) /\ Picks(S, c)
    BY ExcessCount, PickIn DEF Picks
  <1>2. \A s \in SUBSET S : s # {} => c[s] = First(s) /\ c[s] \in S /\ s \ {c[s]} \in SUBSET S
    BY <1>1 DEF Picks
  <1>3. \A s \in SUBSET S : V[s] = Shaved(Cardinality(s)) /\ V[s] \subseteq Heavy
    BY DEF Shaved
  <1>4. \A x \in S : \A w \in Heavy : G[x][w] = Router!Shave(w)
    OBVIOUS
  <1>5. Router!Full \in V[{}]
    <2>1. Router!Full \in Shaved(0)
      BY FullOK, SlotsKnown DEF Shaved
    <2>2. {} \in SUBSET S /\ Cardinality({}) = 0
      BY FS_EmptySet
    <2> HIDE DEF V, S
    <2> QED
      BY <1>3, <2>1, <2>2
  <1> HIDE DEF c, V, G
  <1>6. ASSUME NEW s \in SUBSET S, s # {}, NEW w \in V[s \ {c[s]}]
        PROVE  w \in Heavy /\ Router!Shave(w) \in V[s]
    <2> DEFINE k == Cardinality(s \ {c[s]})
    <2>1. c[s] = First(s) /\ s \ {c[s]} \in SUBSET S
      BY <1>2, <1>6
    <2>2. k \in Nat /\ k + 1 = Cardinality(s) /\ k < Excess
      BY <1>6, <2>1, PartOfExcess
    <2>3. w \in Shaved(k) /\ V[s] = Shaved(Cardinality(s))
      BY <1>3, <1>6, <2>1
    <2> HIDE DEF k
    <2>4. Router!Shave(w) \in Shaved(k + 1)
      BY <2>2, <2>3, ShavedOK
    <2> QED
      BY <2>2, <2>3, <2>4 DEF Shaved
  <1>7. Respects(S, c, G, V)
    BY <1>2, <1>4, <1>6 DEF Respects
  <1>8. PICK h : Built(S, c, Router!Full, G, V, h)
    <2> HIDE DEF S
    <2> QED
      BY <1>1, <1>5, <1>7, FoldBuilt
  <1> DEFINE rhs(s) == IF s = {} THEN Router!Full ELSE Router!Shave(h[s \ {First(s)}])
  <1>9. ASSUME NEW s \in SUBSET S PROVE h[s] = rhs(s)
    <2>1. CASE s = {}
      BY <1>8, <2>1 DEF Built
    <2>2. CASE s # {}
      <3>1. c[s] = First(s) /\ c[s] \in S /\ s \ {c[s]} \in SUBSET S
        BY <1>2, <2>2
      <3>2. h[s \ {c[s]}] \in V[s \ {c[s]}]
        BY <1>8, <3>1 DEF Built
      <3>3. h[s] = G[c[s]][h[s \ {c[s]}]]
        BY <1>8, <2>2 DEF Built
      <3>4. h[s \ {c[s]}] \in Heavy
        BY <1>3, <3>1, <3>2
      <3> QED
        BY <1>4, <2>2, <3>1, <3>3, <3>4
    <2> QED
      BY <2>1, <2>2
  <1> HIDE DEF rhs
  <1>10. h = [s \in SUBSET S |-> rhs(s)]
    BY <1>8, <1>9 DEF Built
  <1>11. ShaveFold(S, h)
    BY <1>10 DEF ShaveFold, rhs
  <1> DEFINE g == CHOOSE f : ShaveFold(S, f)
  <1>12. ShaveFold(S, g)
    BY <1>11
  <1> HIDE DEF g
  <1>13. \A s \in SUBSET S : g[s] = IF s = {} THEN Router!Full ELSE Router!Shave(g[s \ {First(s)}])
    BY <1>12 DEF ShaveFold
  <1>14. g[{}] \in V[{}]
    BY <1>5, <1>13
  <1>15. ASSUME NEW s \in SUBSET S, s # {}, g[s \ {c[s]}] \in V[s \ {c[s]}] PROVE g[s] \in V[s]
    BY <1>2, <1>6, <1>13, <1>15
  <1>16. \A s \in SUBSET S : g[s] \in V[s]
    <2> HIDE DEF S
    <2> QED
      BY <1>1, <1>14, <1>15, FoldIn
  <1>17. Router!Weights = g[S]
    BY WeightsIs DEF g
  <1>18. Router!Weights \in Shaved(Cardinality(S))
    BY <1>3, <1>16, <1>17
  <1>19. Cardinality(S) = IF 1 > Excess THEN 0 ELSE Excess
    BY ExcessCount
  <1> HIDE DEF S
  <1> QED
    BY <1>18, <1>19, SlotsKnown DEF Shaved, Excess

------------------------------------------------------------------------------
(* The candidates of a task. *)
Turns(t, w, g) ==
    g = [s \in SUBSET DOMAIN t |->
            IF s = {} THEN <<>> ELSE g[s \ {Top(s)}] \o [j \in 1 .. w[t[Top(s)]] |-> t[Top(s)]]]

Debuts == {i \in DOMAIN Rotation : \A j \in 1 .. (i - 1) : Rotation[j] # Rotation[i]}

LEMMA WeightedIs ==
  LET t == Router!At(Rotation, Debuts) IN
  Router!Weighted = (CHOOSE g : Turns(t, Router!Weights, g))[DOMAIN t]
  BY DEF Router!Weighted, Router!FoldLeft, Router!MapThenFoldSet, Router!Max, Turns, Top, Debuts

LEMMA BlockOK ==
  ASSUME NEW w \in Heavy, NEW e \in Rota
  PROVE  [j \in 1 .. w[e] |-> e] \in Seq(Engines) /\ [j \in 1 .. w[e] |-> e] # <<>>
  <1>1. w[e] \in Nat \ {0} /\ e \in Engines
    BY RotaOK DEF Heavy
  <1> DEFINE n == w[e]
             q == [j \in 1 .. n |-> e]
  <1> HIDE DEF n
  <1>2. n \in Nat /\ 1 \in 1 .. n
    BY <1>1 DEF n
  <1>3. q \in Seq(Engines) /\ Len(q) = n
    BY <1>1, <1>2
  <1>4. q # <<>>
    BY <1>2, <1>3
  <1> QED
    BY <1>3, <1>4 DEF n

LEMMA JoinOK ==
  ASSUME NEW p \in Seq(Engines), NEW q \in Seq(Engines), q # <<>>
  PROVE  p \o q \in Seq(Engines) /\ p \o q # <<>>
  OBVIOUS

LEMMA WeightedOK ==
  ASSUME LogOK
  PROVE  Router!Weighted \in Seq(Engines) /\ Router!Weighted # <<>>
  <1> DEFINE t == Router!At(Rotation, Debuts)
             w == Router!Weights
             S == DOMAIN t
             c == Tops(S)
             V == [s \in SUBSET S |-> {q \in Seq(Engines) : s # {} => q # <<>>}]
             G == [x \in S |-> [q \in Seq(Engines) |-> q \o [j \in 1 .. w[t[x]] |-> t[x]]]]
  <1>1. t \in Seq(Rota) /\ t # <<>>
    <2>1. Rotation \in Seq(Engines) /\ Len(Rotation) > 0
      BY RouterAssumption DEF Router!RoutingAssumption
    <2>2. Rotation \in Seq(Rota)
      BY <2>1 DEF Rota, Router!InRotation
    <2>3. Debuts \subseteq DOMAIN Rotation /\ 1 \in Debuts
      BY <2>1 DEF Debuts
    <2>4. t \in Seq({Rotation[i] : i \in Debuts}) /\ t # <<>>
      <3> HIDE DEF t
      <3> QED
        BY <2>2, <2>3, AtReturns DEF t
    <2>5. {Rotation[i] : i \in Debuts} \subseteq Rota
      BY <2>3 DEF Rota, Router!InRotation
    <2> HIDE DEF t
    <2> QED
      BY <2>4, <2>5
  <1>2. w \in Heavy
    BY WeightsOK
  <1> HIDE DEF t, w
  <1>3. IsFiniteSet(S) /\ Picks(S, c) /\ S # {}
    <2>1. S = 1 .. Len(t) /\ Len(t) \in Nat /\ Len(t) # 0
      BY <1>1
    <2>2. IsFiniteSet(S) /\ S \subseteq Int /\ S # {}
      <3> DEFINE n == Len(t)
      <3>1. S = 1 .. n /\ n \in Nat /\ n # 0
        BY <2>1
      <3> HIDE DEF n, S
      <3>2. IsFiniteSet(1 .. n)
        BY <3>1, FS_Interval
      <3> QED
        BY <3>1, <3>2
    <2> HIDE DEF S
    <2>3. Picks(S, Tops(S))
      BY <2>2, TopsPick
    <2> QED
      BY <2>2, <2>3
  <1>4. \A s \in SUBSET S : s # {} => c[s] = Top(s) /\ c[s] \in S /\ s \ {c[s]} \in SUBSET S
    BY <1>3 DEF Picks, Tops
  <1>5. \A x \in S : t[x] \in Rota
    BY <1>1
  <1>6. ASSUME NEW x \in S, NEW q \in Seq(Engines)
        PROVE  LET r == q \o [j \in 1 .. w[t[x]] |-> t[x]] IN
               G[x][q] = r /\ r \in Seq(Engines) /\ r # <<>>
    BY <1>2, <1>5, BlockOK, JoinOK
  <1>7. \A s \in SUBSET S : /\ V[s] \subseteq Seq(Engines)
                            /\ \A q \in Seq(Engines) : q # <<>> => q \in V[s]
    OBVIOUS
  <1>8. <<>> \in V[{}]
    OBVIOUS
  <1> HIDE DEF c, V, G
  <1>9. Respects(S, c, G, V)
    <2> HIDE DEF S
    <2>1. ASSUME NEW s \in SUBSET S, s # {}, NEW q \in V[s \ {c[s]}] PROVE G[c[s]][q] \in V[s]
      <3>1. c[s] \in S /\ q \in Seq(Engines)
        BY <1>4, <1>7, <2>1
      <3>2. G[c[s]][q] \in Seq(Engines) /\ G[c[s]][q] # <<>>
        BY <1>6, <3>1
      <3> QED
        BY <1>7, <3>2
    <2> QED
      BY <2>1 DEF Respects
  <1>10. PICK h : Built(S, c, <<>>, G, V, h)
    <2> HIDE DEF S
    <2> QED
      BY <1>3, <1>8, <1>9, FoldBuilt
  <1> DEFINE block(x) == [j \in 1 .. w[t[x]] |-> t[x]]
  <1>11. \A x \in S, q \in Seq(Engines) :
            G[x][q] = q \o block(x) /\ q \o block(x) \in Seq(Engines) /\ q \o block(x) # <<>>
    BY <1>6
  <1> HIDE DEF block
  <1> DEFINE rhs(s) == IF s = {} THEN <<>> ELSE h[s \ {Top(s)}] \o block(Top(s))
  <1>12. ASSUME NEW s \in SUBSET S PROVE h[s] = rhs(s)
    <2>1. CASE s = {}
      BY <1>10, <2>1 DEF Built
    <2>2. CASE s # {}
      <3>1. c[s] = Top(s) /\ c[s] \in S /\ s \ {c[s]} \in SUBSET S
        BY <1>4, <2>2
      <3>2. h[s \ {c[s]}] \in Seq(Engines)
        BY <1>7, <1>10, <3>1 DEF Built
      <3>3. h[s] = G[c[s]][h[s \ {c[s]}]]
        BY <1>10, <2>2 DEF Built
      <3> QED
        BY <1>11, <2>2, <3>1, <3>2, <3>3
    <2> QED
      BY <2>1, <2>2
  <1> HIDE DEF rhs
  <1>13. h = [s \in SUBSET S |-> rhs(s)]
    BY <1>10, <1>12 DEF Built
  <1>14. Turns(t, w, h)
    BY <1>13 DEF Turns, rhs, block
  <1> DEFINE g == CHOOSE f : Turns(t, w, f)
  <1>15. Turns(t, w, g)
    BY <1>14
  <1> HIDE DEF g
  <1>16. \A s \in SUBSET S : g[s] = IF s = {} THEN <<>> ELSE g[s \ {Top(s)}] \o block(Top(s))
    BY <1>15 DEF Turns, block
  <1>17. g[{}] \in V[{}]
    BY <1>8, <1>16
  <1>18. ASSUME NEW s \in SUBSET S, s # {}, g[s \ {c[s]}] \in V[s \ {c[s]}] PROVE g[s] \in V[s]
    <2>1. c[s] = Top(s) /\ c[s] \in S /\ s \ {c[s]} \in SUBSET S
      BY <1>4, <1>18
    <2>2. g[s \ {c[s]}] \in Seq(Engines)
      BY <1>7, <1>18, <2>1
    <2>3. g[s] = g[s \ {c[s]}] \o block(c[s])
      BY <1>16, <1>18, <2>1
    <2>4. g[s] \in Seq(Engines) /\ g[s] # <<>>
      <3> DEFINE p == g[s \ {c[s]}]
                 x == c[s]
      <3>1. x \in S /\ p \in Seq(Engines) /\ g[s] = p \o block(x)
        BY <2>1, <2>2, <2>3
      <3> HIDE DEF p, x, S
      <3> QED
        BY <1>11, <3>1
    <2> QED
      BY <1>7, <2>4
  <1>19. \A s \in SUBSET S : g[s] \in V[s]
    <2> HIDE DEF S
    <2> QED
      BY <1>3, <1>17, <1>18, FoldIn
  <1>20. Router!Weighted = g[S]
    BY WeightedIs DEF g, t, w
  <1>21. g[S] \in Seq(Engines) /\ g[S] # <<>>
    BY <1>3, <1>19 DEF V
  <1> QED
    BY <1>20, <1>21

LEMMA CutsOK ==
  ASSUME NEW r \in Seq(Engines), NEW k \in 0 .. Len(r)
  PROVE  SubSeq(r, k + 1, Len(r)) \o SubSeq(r, 1, k) \in Seq(Engines)
  <1>1. Len(r) \in Nat
    OBVIOUS
  <1>2. SubSeq(r, k + 1, Len(r)) \in Seq(Engines)
    BY <1>1, SubSeqProperties
  <1>3. SubSeq(r, 1, k) \in Seq(Engines)
    BY <1>1, SubSeqProperties
  <1> QED
    BY <1>2, <1>3

LEMMA NotEmpty ==
  ASSUME NEW E, NEW t \in Seq(E), t # <<>>
  PROVE  Len(t) \in Nat \ {0} /\ t \in [1 .. Len(t) -> E]
  OBVIOUS

LEMMA PlaceOf ==
  ASSUME NEW n \in Nat \ {0}, NEW k \in Nat
  PROVE  k % n \in 0 .. n - 1
  OBVIOUS

LEMMA DaysOK ==
  ASSUME NEW n \in Nat \ {0}
  PROVE  Router!Interval(n) \in Nat \ {0}
  <1>1. CASE n = 1
    BY <1>1 DEF Router!Interval
  <1>2. CASE n = 2
    BY <1>2 DEF Router!Interval
  <1>3. CASE n = 3
    BY <1>3 DEF Router!Interval
  <1>4. CASE n > 3
    BY <1>4 DEF Router!Interval
  <1> QED
    BY <1>1, <1>2, <1>3, <1>4

\* The selection of some elements of a sequence.
LEMMA Selected ==
  ASSUME NEW E, NEW t \in Seq(E), NEW F, NEW I, I \subseteq DOMAIN t, \A i \in I : t[i] \in F
  PROVE  Router!At(t, I) \in Seq(F)
  <1>1. Router!At(t, I) \in Seq({t[i] : i \in I})
    BY AtReturns
  <1>2. {t[i] : i \in I} \subseteq F
    OBVIOUS
  <1> QED
    BY <1>1, <1>2

LEMMA RotatedOK ==
  ASSUME LogOK, NEW h \in 0 .. 1
  PROVE  Router!Rotated(h) \in Seq(Engines)
  <1> DEFINE rot == Router!Weighted
             n == Len(rot)
             places == [i \in DOMAIN rot |-> i]
             entries == {i \in DOMAIN rot : rot[i] \in ZeroCost}
             free == Router!At(places, entries)
             entry == IF free = <<>> THEN h % Len(rot) ELSE free[(h % Len(free)) + 1] - 1
             failures == Router!Cardinality(DOMAIN log \ Router!Done(log, DOMAIN log))
             start == (entry + failures) % Len(rot)
  <1>1. rot \in Seq(Engines) /\ n \in Nat \ {0}
    <2> HIDE DEF rot
    <2>1. rot \in Seq(Engines) /\ rot # <<>>
      BY WeightedOK DEF rot
    <2> QED
      BY <2>1
  <1>2. Router!Rotated(h) = SubSeq(rot, start + 1, Len(rot)) \o SubSeq(rot, 1, start)
    BY DEF Router!Rotated
  <1> HIDE DEF rot
  <1>3. places \in Seq(1 .. n) /\ entries \subseteq DOMAIN places
    BY <1>1
  <1>4. \A i \in entries : places[i] \in 1 .. n
    BY <1>1
  <1>5. free \in Seq(1 .. n)
    <2> HIDE DEF places, entries, n
    <2> QED
      BY <1>3, <1>4, Selected
  <1> HIDE DEF free, n, places, entries
  <1>6. entry \in Nat
    <2>1. CASE free = <<>>
      <3>1. h % n \in 0 .. n - 1
        BY <1>1, PlaceOf
      <3> QED
        BY <1>1, <2>1, <3>1 DEF n
    <2>2. CASE free # <<>>
      <3> DEFINE m == Len(free)
                 k == h % m
      <3>1. m \in Nat \ {0} /\ free \in [1 .. m -> 1 .. n]
        BY <1>5, <2>2, NotEmpty
      <3> HIDE DEF m
      <3>2. k \in 0 .. m - 1
        <4>1. h \in Nat
          OBVIOUS
        <4> QED
          BY <3>1, <4>1, PlaceOf
      <3> HIDE DEF k
      <3>3. free[k + 1] \in 1 .. n
        BY <3>1, <3>2
      <3> QED
        BY <1>1, <2>2, <3>3 DEF k, m
    <2> QED
      BY <2>1, <2>2
  <1>7. failures \in Nat
    <2>1. IsFiniteSet(DOMAIN log)
      BY PlacesFinite DEF LogOK
    <2>2. IsFiniteSet(DOMAIN log \ Router!Done(log, DOMAIN log))
      BY <2>1, FS_Subset
    <2> QED
      BY <2>2, SameCount, FS_CardinalityType
  <1> HIDE DEF entry, failures
  <1>8. start \in 0 .. n - 1
    <2>1. entry + failures \in Nat
      BY <1>6, <1>7
    <2> QED
      BY <1>1, <2>1, PlaceOf DEF n
  <1> HIDE DEF start
  <1> QED
    BY <1>1, <1>2, <1>8, CutsOK DEF n

Open(readable) == {e \in Engines : Router!UnderCap(e, readable)}

\* Whatever is drawn up: only engines that the caps let through.
LEMMA CandidatesOK ==
  ASSUME LogOK, NEW pin \in Engines \cup {Unset}, NEW h \in 0 .. 1, NEW isolated,
         NEW readable \in BOOLEAN
  PROVE  Router!Candidates(pin, h, isolated, readable) \in Seq(Open(readable))
  <1> DEFINE base == IF pin = Unset THEN Router!Rotated(h) ELSE <<pin>>
             gated == Router!Gate(base, isolated)
             tailed == IF pin = Unset THEN Router!WithTail(gated) ELSE gated
             starved == {log[i].engine : i \in {j \in DOMAIN log :
                            log[j].result = "supply" /\ log[j].day = day}}
             left == {i \in DOMAIN tailed :
                         Router!UnderCap(tailed[i], readable) /\ tailed[i] \notin starved}
  <1>1. Router!Candidates(pin, h, isolated, readable) = Router!At(tailed, left)
    BY DEF Router!Candidates
  <1>2. base \in Seq(Engines)
    BY RotatedOK
  <1> HIDE DEF base
  <1>3. gated \in Seq(Engines)
    <2> DEFINE kept == Router!At(base, {i \in DOMAIN base : base[i] \notin isolated})
    <2>1. gated = IF kept = <<>> THEN base ELSE kept
      BY DEF Router!Gate
    <2>2. \A i \in DOMAIN base : base[i] \in Engines
      BY <1>2
    <2>3. kept \in Seq(Engines)
      BY <1>2, <2>2, Selected
    <2> HIDE DEF kept, gated
    <2> QED
      BY <1>2, <2>1, <2>3
  <1> HIDE DEF gated
  <1>4. tailed \in Seq(Engines)
    <2>1. Subscriptions \in Seq(Engines)
      BY RouterAssumption DEF Router!RoutingAssumption
    <2> DEFINE more == {i \in DOMAIN Subscriptions : ~ Router!Contains(gated, Subscriptions[i])}
               tail == Router!At(Subscriptions, more)
    <2>2. Router!WithTail(gated) = gated \o tail
      BY DEF Router!WithTail
    <2>3. \A i \in DOMAIN Subscriptions : Subscriptions[i] \in Engines
      BY <2>1
    <2>4. tail \in Seq(Engines)
      BY <2>1, <2>3, Selected
    <2> HIDE DEF tail
    <2> QED
      BY <1>3, <2>2, <2>4
  <1> HIDE DEF tailed
  <1>5. \A i \in left : tailed[i] \in Open(readable)
    BY <1>4 DEF Open
  <1>6. left \subseteq DOMAIN tailed
    OBVIOUS
  <1> HIDE DEF left
  <1> QED
    BY <1>1, <1>4, <1>5, <1>6, Selected

------------------------------------------------------------------------------
(***************************************************************************)
(* The isolation of failing engines: an isolation that runs ends after     *)
(* today, so that Isolate and Prune find its entry and leave it.           *)
(***************************************************************************)
FileInv ==
    /\ day \in Nat \ {0}
    /\ file \in [kind : {"missing", "bad", "state"},
                 until : [Engines -> Nat], count : [Engines -> Nat]]

LEMMA IsolateKeeps ==
  ASSUME FileInv, NEW targets
  PROVE  LET next == Router!Isolate(file, targets) IN
         /\ next \in [kind : {"state"}, until : [Engines -> Nat], count : [Engines -> Nat]]
         /\ \A e \in Router!Active(file) : next.until[e] = file.until[e]
  <1> DEFINE next == Router!Isolate(file, targets)
             fresh == targets \ Router!Entries(file)
             until == [e \in Engines |-> IF e \in fresh
                                         THEN day + Router!Interval(file.count[e] + 1)
                                         ELSE file.until[e]]
             count == [e \in Engines |-> IF e \in fresh THEN file.count[e] + 1 ELSE file.count[e]]
  <1>1. next = [kind |-> "state", until |-> until, count |-> count]
    BY DEF Router!Isolate
  <1>2. \A e \in Engines : /\ file.count[e] \in Nat /\ file.until[e] \in Nat
                           /\ day + Router!Interval(file.count[e] + 1) \in Nat
    BY DaysOK DEF FileInv
  <1>3. until \in [Engines -> Nat] /\ count \in [Engines -> Nat]
    BY <1>2
  <1>4. \A e \in Router!Active(file) : e \in Engines /\ e \notin fresh
    BY DEF FileInv, Router!Active, Router!Entries
  <1>5. \A e \in Router!Active(file) : until[e] = file.until[e]
    BY <1>4
  <1> HIDE DEF until, count, next
  <1>6. next.until = until
    BY <1>1
  <1> QED
    BY <1>1, <1>3, <1>5, <1>6 DEF next

LEMMA PruneKeeps ==
  ASSUME FileInv
  PROVE  LET next == Router!Prune(file) IN
         /\ next \in [kind : {file.kind}, until : [Engines -> Nat], count : [Engines -> Nat]]
         /\ \A e \in Router!Active(file) : next.until[e] = file.until[e]
  <1> DEFINE left == [e \in Engines |-> IF file.until[e] > day THEN file.until[e] ELSE 0]
  <1>1. Router!Prune(file) = [file EXCEPT !.until = left]
    BY DEF Router!Prune
  <1>2. left \in [Engines -> Nat]
    BY DEF FileInv
  <1>3. \A e \in Router!Active(file) : left[e] = file.until[e]
    BY DEF Router!Active
  <1> HIDE DEF left
  <1> QED
    BY <1>1, <1>2, <1>3 DEF FileInv

\* A step that touches the file isolates, prunes, or loses a damaged file.
FileSteps ==
    \/ UNCHANGED file
    \/ \E targets : file' = Router!Isolate(file, targets)
    \/ file' = Router!Prune(file)
    \/ file' = [Router!NoFile EXCEPT !.kind = "bad"]
    \/ (file.kind = "bad" /\ file' = Router!NoFile)

LEMMA FileStep ==
  ASSUME [Router!Next]_(Router!vars)
  PROVE  FileSteps /\ day' \in {day, day + 1}
  <1>1. CASE \E pin \in Engines \cup {Unset}, h \in 0 .. 1, readable, saved \in BOOLEAN :
                Router!Evaluate(pin, h, readable, saved)
    <2>1. PICK pin, h, readable, saved : Router!Evaluate(pin, h, readable, saved)
      BY <1>1
    <2>2. day' = day
      BY <2>1 DEF Router!Evaluate
    <2>3. UNCHANGED file \/ \E seen : file' = Router!Isolate(file, Router!PolicyTargets(seen) \cup
                                         (IF readable THEN Router!BreakerTargets ELSE {}))
      BY <2>1 DEF Router!Evaluate
    <2> QED
      BY <2>2, <2>3 DEF FileSteps
  <1>2. CASE \E saved \in BOOLEAN : Router!Cleanup(saved)
    BY <1>2 DEF Router!Cleanup, FileSteps
  <1>3. CASE Router!Damage \/ Router!RemoveFile
    BY <1>3 DEF Router!Damage, Router!RemoveFile, FileSteps
  <1>4. CASE Router!Tick
    BY <1>4 DEF Router!Tick, FileSteps
  <1>5. CASE Router!NoTask \/ Router!PreflightFails \/ Router!Launch \/ Router!NoEngine \/ Router!Restart
             \/ UNCHANGED Router!vars \/ \E r \in Router!Results : Router!RecordAttempt(r)
    BY <1>5 DEF Router!NoTask, Router!PreflightFails, Router!Launch, Router!NoEngine, Router!Restart,
       Router!vars, Router!RecordAttempt, FileSteps
  <1>6. CASE Router!NoRow \/ Router!Settle \/ \E e \in Engines : Router!Refuse(e)
    BY <1>6 DEF Router!NoRow, Router!Settle, Router!Refuse, FileSteps
  <1> QED
    BY <1>1, <1>2, <1>3, <1>4, <1>5, <1>6 DEF Router!Next

LEMMA FileKept ==
  ASSUME FileInv, [Router!Next]_(Router!vars)
  PROVE  /\ FileInv'
         /\ \A e \in Router!Active(file) : file'.kind = "state" => file'.until[e] = file.until[e]
  <1>1. FileSteps /\ day' \in Nat \ {0}
    BY FileStep DEF FileInv
  <1>2. CASE UNCHANGED file
    BY <1>1, <1>2 DEF FileInv
  <1>3. CASE \E targets : file' = Router!Isolate(file, targets)
    BY <1>1, <1>3, IsolateKeeps DEF FileInv
  <1>4. CASE file' = Router!Prune(file)
    BY <1>1, <1>4, PruneKeeps DEF FileInv
  <1>5. CASE file' = [Router!NoFile EXCEPT !.kind = "bad"] \/ (file.kind = "bad" /\ file' = Router!NoFile)
    BY <1>1, <1>5 DEF FileInv, Router!NoFile, Router!NoEntries
  <1> QED
    <2> HIDE DEF FileInv
    <2>1. \/ UNCHANGED file
          \/ \E targets : file' = Router!Isolate(file, targets)
          \/ file' = Router!Prune(file)
          \/ file' = [Router!NoFile EXCEPT !.kind = "bad"] \/ (file.kind = "bad" /\ file' = Router!NoFile)
      BY <1>1, Zenon DEF FileSteps
    <2> QED
      BY <2>1, <1>2, <1>3, <1>4, <1>5, Zenon

------------------------------------------------------------------------------
(***************************************************************************)
(* The caps: an engine that was drawn up or runs has an attempt left       *)
(* today.  A new day takes the attempts of the one before it out of the    *)
(* count, and one runs at a time.                                          *)
(***************************************************************************)
PastOK == \A i \in DOMAIN log : log[i].day <= day

\* A step of the log: a new day, the row of the worker that ran, or that of a refusal.
LogSteps ==
    \/ UNCHANGED <<day, log>>
    \/ day < MaxDay /\ day' = day + 1 /\ UNCHANGED <<log, choice, tags, engine>>
    \/ /\ choice' \in {"judging", "cleanup"} /\ day' = day
       /\ \/ \E r \in Router!Results : /\ choice = "running" /\ r # "refused"
                                        /\ log' = Append(log, Router!Row(engine, r))
          \/ \E e \in Engines : log' = Append(log, Router!Row(e, "refused"))

LEMMA LogStep ==
  ASSUME [Router!Next]_(Router!vars)
  PROVE  LogSteps
  <1>1. CASE \E pin \in Engines \cup {Unset}, h \in 0 .. 1, readable, saved \in BOOLEAN :
                Router!Evaluate(pin, h, readable, saved)
    BY <1>1 DEF Router!Evaluate, LogSteps
  <1>2. CASE Router!Tick
    BY <1>2 DEF Router!Tick, Router!cycle, LogSteps
  <1>3. CASE (\E r \in Router!Results : Router!RecordAttempt(r)) \/ \E e \in Engines : Router!Refuse(e)
    BY <1>3 DEF Router!RecordAttempt, Router!Refuse, LogSteps
  <1>4. CASE \/ Router!NoTask \/ Router!PreflightFails \/ Router!Launch \/ Router!NoEngine
             \/ Router!NoRow \/ Router!Settle \/ \E saved \in BOOLEAN : Router!Cleanup(saved)
             \/ Router!Restart \/ Router!Damage \/ Router!RemoveFile \/ UNCHANGED Router!vars
    BY <1>4 DEF Router!NoTask, Router!PreflightFails, Router!Launch, Router!NoEngine, Router!Cleanup,
       Router!NoRow, Router!Settle,
       Router!Restart, Router!Damage, Router!RemoveFile, Router!vars, LogSteps
  <1> QED
    BY <1>1, <1>2, <1>3, <1>4 DEF Router!Next

\* The rows of an engine today are finitely many, and hold those of its workers.
LEMMA RowsCounted ==
  ASSUME LogOK, NEW e \in Engines
  PROVE  /\ Router!Today(e) \in Nat /\ Router!Worked(e) \in Nat
         /\ Router!Worked(e) <= Router!Today(e)
  <1> DEFINE D == {i \in DOMAIN log : log[i].engine = e /\ log[i].day = day}
             W == {i \in DOMAIN log : /\ log[i].engine = e /\ log[i].day = day
                                      /\ log[i].result # "refused"}
  <1>1. Router!Today(e) = Cardinality(D) /\ Router!Worked(e) = Cardinality(W)
    BY SameCount DEF Router!Today, Router!Worked
  <1>2. IsFiniteSet(DOMAIN log)
    BY PlacesFinite DEF LogOK
  <1>3. D \subseteq DOMAIN log /\ W \subseteq D
    OBVIOUS
  <1> HIDE DEF D, W
  <1>4. IsFiniteSet(D)
    BY <1>2, <1>3, FS_Subset
  <1> QED
    BY <1>1, <1>3, <1>4, FS_Subset, FS_CardinalityType

\* A row more is one more of its engine's workers today, unless it is that of a refusal, and
\* none of another.
LEMMA RowCounts ==
  ASSUME LogOK, NEW x \in Engines, NEW r \in Router!Results, day \in 1 .. MaxDay, day' = day,
         log' = Append(log, Router!Row(x, r))
  PROVE  /\ LogOK'
         /\ PastOK => PastOK'
         /\ \A e \in Engines : Router!Worked(e)' = IF e = x /\ r # "refused" THEN Router!Worked(e) + 1
                                                   ELSE Router!Worked(e)
  <1> DEFINE n == Len(log) + 1
             fresh == Router!Row(x, r)
             R == [engine : Engines, result : Router!Results, day : 1 .. MaxDay]
             D(e) == {i \in DOMAIN log : /\ log[i].engine = e /\ log[i].day = day
                                         /\ log[i].result # "refused"}
             F(e) == {i \in DOMAIN log' : /\ log'[i].engine = e /\ log'[i].day = day'
                                          /\ log'[i].result # "refused"}
  <1>1. /\ log \in Seq(R) /\ fresh \in R
        /\ fresh.engine = x /\ fresh.result = r /\ fresh.day = day
    BY DEF LogOK, Router!Row
  <1>2. /\ n \in Nat /\ DOMAIN log = 1 .. (n - 1) /\ DOMAIN log' = 1 .. n
        /\ log' \in Seq(R) /\ log'[n] = fresh
        /\ \A i \in 1 .. (n - 1) : log'[i] = log[i] /\ log[i] \in R
    <2> HIDE DEF R, fresh
    <2>1. Len(log) \in Nat /\ DOMAIN log = 1 .. Len(log) /\ \A i \in 1 .. Len(log) : log[i] \in R
      BY <1>1
    <2>2. log' = Append(log, fresh)
      BY DEF fresh
    <2>3. /\ log' \in Seq(R) /\ Len(log') = Len(log) + 1
          /\ \A i \in 1 .. Len(log) : log'[i] = log[i]
          /\ log'[Len(log) + 1] = fresh
      BY <1>1, <2>2, AppendProperties
    <2>4. DOMAIN log' = 1 .. Len(log')
      BY <2>3
    <2> QED
      BY <2>1, <2>3, <2>4
  <1> HIDE DEF fresh
  <1>3. LogOK'
    BY <1>2 DEF LogOK
  <1>4. PastOK => PastOK'
    BY <1>1, <1>2 DEF PastOK
  <1>5. ASSUME NEW e \in Engines
        PROVE  Router!Worked(e)' = IF e = x /\ r # "refused" THEN Router!Worked(e) + 1
                                   ELSE Router!Worked(e)
    <2>1. Router!Worked(e) = Cardinality(D(e)) /\ Router!Worked(e)' = Cardinality(F(e))
      BY SameCount DEF Router!Worked
    <2>2. IsFiniteSet(D(e)) /\ n \notin D(e)
      <3>1. IsFiniteSet(DOMAIN log)
        BY PlacesFinite DEF LogOK
      <3>2. D(e) \subseteq DOMAIN log /\ n \notin DOMAIN log
        BY <1>2
      <3> QED
        BY <3>1, <3>2, FS_Subset
    <2>3. F(e) = IF e = x /\ r # "refused" THEN D(e) \cup {n} ELSE D(e)
      BY <1>1, <1>2
    <2> HIDE DEF D, F
    <2>4. Cardinality(D(e)) \in Nat /\ Cardinality(D(e) \cup {n}) = Cardinality(D(e)) + 1
      BY <2>2, FS_AddElement, FS_CardinalityType
    <2> QED
      BY <2>1, <2>3, <2>4
  <1> QED
    BY <1>3, <1>4, <1>5

\* On a new day there is nothing yet.
LEMMA NewDay ==
  ASSUME PastOK, LogOK, day \in 1 .. MaxDay, day' = day + 1, log' = log
  PROVE  PastOK' /\ \A e : Router!Today(e)' = 0 /\ Router!Worked(e)' = 0
  <1>1. \A i \in DOMAIN log : log[i].day \in Int /\ log[i].day <= day
    <2> DEFINE R == [engine : Engines, result : Router!Results, day : 1 .. MaxDay]
    <2>1. \A x \in R : x.day \in 1 .. MaxDay
      OBVIOUS
    <2>2. log \in Seq(R)
      BY DEF LogOK
    <2> HIDE DEF R
    <2>3. \A i \in DOMAIN log : log[i] \in R
      BY <2>2
    <2> QED
      BY <2>1, <2>3 DEF PastOK
  <1>2. PastOK'
    BY <1>1 DEF PastOK
  <1>3. \A e : /\ {i \in DOMAIN log' : log'[i].engine = e /\ log'[i].day = day'} = {}
              /\ {i \in DOMAIN log' : /\ log'[i].engine = e /\ log'[i].day = day'
                                      /\ log'[i].result # "refused"} = {}
    BY <1>1
  <1> QED
    BY <1>2, <1>3, SameCount, FS_EmptySet DEF Router!Today, Router!Worked

\* Whatever is drawn up, or runs, has an attempt left today.
Chosen ==
    /\ choice = "choosing" => tags \in Seq(Open(TRUE))
    /\ choice = "running" => engine \in Open(TRUE)

RouterInv == Router!TypeOK /\ FileInv /\ PastOK /\ Chosen /\ Router!CapKept

\* A step that stays in the log draws up, launches, moves on or gives up.
TagSteps ==
    \/ choice' \notin {"choosing", "running"}
    \/ UNCHANGED <<choice, tags, engine>>
    \/ /\ choice' = "choosing"
       /\ \E pin \in Engines \cup {Unset}, h \in 0 .. 1, readable \in BOOLEAN : \E isolated :
             tags' = Router!Candidates(pin, h, isolated, readable)
    \/ choice = "choosing" /\ choice' = choice /\ tags # <<>> /\ tags' = Tail(tags)
    \/ choice = "choosing" /\ choice' = "running" /\ tags # <<>> /\ engine' = Head(tags)

LEMMA TagStep ==
  ASSUME [Router!Next]_(Router!vars)
  PROVE  TagSteps
  <1>1. CASE \E pin \in Engines \cup {Unset}, h \in 0 .. 1, readable, saved \in BOOLEAN :
                Router!Evaluate(pin, h, readable, saved)
    <2>1. PICK pin \in Engines \cup {Unset}, h \in 0 .. 1, readable, saved \in BOOLEAN :
                  Router!Evaluate(pin, h, readable, saved)
      BY <1>1
    <2>2. choice' = "choosing" /\ tags' = Router!Candidates(pin, h, spared', readable)
      BY <2>1 DEF Router!Evaluate
    <2>3. \E isolated : tags' = Router!Candidates(pin, h, isolated, readable)
      BY <2>2
    <2> QED
      BY <2>2, <2>3 DEF TagSteps
  <1>2. CASE Router!PreflightFails \/ Router!Launch
    BY <1>2 DEF Router!PreflightFails, Router!Launch, TagSteps
  <1>3. CASE \/ Router!NoTask \/ Router!NoEngine \/ \E r \in Router!Results : Router!RecordAttempt(r)
             \/ Router!NoRow \/ Router!Settle \/ \E e \in Engines : Router!Refuse(e)
             \/ \E saved \in BOOLEAN : Router!Cleanup(saved)
             \/ Router!Tick \/ Router!Restart \/ Router!Damage \/ Router!RemoveFile
             \/ UNCHANGED Router!vars
    BY <1>3 DEF Router!NoTask, Router!NoEngine, Router!RecordAttempt, Router!Cleanup, Router!Tick,
       Router!NoRow, Router!Settle, Router!Refuse, Router!cycle, Router!Restart, Router!Damage, Router!RemoveFile, Router!vars, TagSteps
  <1> QED
    BY <1>1, <1>2, <1>3 DEF Router!Next

LEMMA OpenIs ==
  /\ \A readable \in BOOLEAN : Open(readable) \subseteq Open(TRUE)
  /\ \A e \in Engines : e \in Open(TRUE) <=> (Cap[e] = 0 \/ Router!Today(e) < Cap[e])
  BY DEF Open, Router!UnderCap

\* Within a day, and between two rows, the queue is drawn up and eaten up.
LEMMA TagsKept ==
  ASSUME LogOK, Chosen, TagSteps, UNCHANGED <<day, log>>
  PROVE  Chosen' /\ Open(TRUE)' = Open(TRUE)
  <1>1. Open(TRUE)' = Open(TRUE)
    BY DEF Open, Router!UnderCap, Router!Today
  <1> DEFINE O == Open(TRUE)
  <1>2. CASE /\ choice' = "choosing"
             /\ \E pin \in Engines \cup {Unset}, h \in 0 .. 1, readable \in BOOLEAN : \E isolated :
                   tags' = Router!Candidates(pin, h, isolated, readable)
    <2>1. PICK pin \in Engines \cup {Unset}, h \in 0 .. 1, readable \in BOOLEAN :
                  \E isolated : tags' = Router!Candidates(pin, h, isolated, readable)
      BY <1>2
    <2> DEFINE P == Open(readable)
    <2>2. tags' \in Seq(P) /\ P \subseteq O
      BY <2>1, CandidatesOK, OpenIs
    <2> HIDE DEF P, O
    <2>3. tags' \in Seq(O)
      BY <2>2
    <2> QED
      BY <1>1, <1>2, <2>3 DEF Chosen, O
  <1> HIDE DEF O
  <1>3. /\ choice = "choosing" => tags \in Seq(O)
        /\ choice = "running" => engine \in O
    BY DEF Chosen, O
  <1>4. \A q \in Seq(O) : q # <<>> => Tail(q) \in Seq(O) /\ Head(q) \in O
    OBVIOUS
  <1>5. CASE \/ choice' \notin {"choosing", "running"}
             \/ UNCHANGED <<choice, tags, engine>>
             \/ choice = "choosing" /\ choice' = choice /\ tags # <<>> /\ tags' = Tail(tags)
             \/ choice = "choosing" /\ choice' = "running" /\ tags # <<>> /\ engine' = Head(tags)
    <2>1. /\ choice' = "choosing" => tags' \in Seq(O)
          /\ choice' = "running" => engine' \in O
      BY <1>3, <1>4, <1>5
    <2> QED
      BY <1>1, <2>1 DEF Chosen, O
  <1> QED
    BY <1>1, <1>2, <1>5 DEF TagSteps

LEMMA ChosenKept ==
  ASSUME RouterInv, [Router!Next]_(Router!vars)
  PROVE  LogOK' /\ PastOK' /\ Chosen' /\ Router!CapKept'
  <1>1. LogOK /\ PastOK /\ Chosen /\ Router!CapKept /\ day \in 1 .. MaxDay
    BY DEF RouterInv, Router!TypeOK, LogOK
  <1>2. CASE UNCHANGED <<day, log>>
    <2>1. Chosen'
      BY <1>1, <1>2, TagStep, TagsKept
    <2>2. LogOK' /\ PastOK' /\ Router!CapKept'
      BY <1>1, <1>2 DEF LogOK, PastOK, Router!CapKept, Router!Worked
    <2> QED
      BY <2>1, <2>2
  <1>3. CASE day < MaxDay /\ day' = day + 1 /\ UNCHANGED <<log, choice, tags, engine>>
    <2>1. PastOK' /\ LogOK' /\ \A e : Router!Today(e)' = 0 /\ Router!Worked(e)' = 0
      BY <1>1, <1>3, NewDay DEF LogOK
    <2>2. \A e \in Engines : Cap[e] \in Nat
      BY RouterAssumption DEF Router!RoutingAssumption
    <2>3. Router!CapKept'
      BY <2>1, <2>2 DEF Router!CapKept
    <2>4. Open(TRUE)' = Engines
      BY <2>1, <2>2 DEF Open, Router!UnderCap
    <2> DEFINE O == Open(TRUE)
    <2>5. O \subseteq Engines
      BY DEF Open
    <2>6. /\ choice' = "choosing" => tags' \in Seq(O)
          /\ choice' = "running" => engine' \in O
      BY <1>1, <1>3 DEF Chosen
    <2> HIDE DEF O
    <2>7. /\ choice' = "choosing" => tags' \in Seq(Engines)
          /\ choice' = "running" => engine' \in Engines
      BY <2>5, <2>6
    <2> QED
      BY <2>1, <2>3, <2>4, <2>7 DEF Chosen
  <1>4. ASSUME NEW r \in Router!Results, choice = "running", r # "refused",
               choice' \in {"judging", "cleanup"}, day' = day, log' = Append(log, Router!Row(engine, r))
        PROVE  LogOK' /\ PastOK' /\ Chosen' /\ Router!CapKept'
    <2>1. engine \in Engines /\ (Cap[engine] = 0 \/ Router!Today(engine) < Cap[engine])
      BY <1>1, <1>4, OpenIs DEF Chosen, Open
    <2>2. /\ LogOK' /\ PastOK'
          /\ \A e \in Engines : Router!Worked(e)' = IF e = engine THEN Router!Worked(e) + 1
                                                    ELSE Router!Worked(e)
      BY <1>1, <1>4, <2>1, RowCounts
    <2>3. \A e \in Engines : /\ Cap[e] \in Nat /\ Router!Today(e) \in Nat
                             /\ Router!Worked(e) \in Nat /\ Router!Worked(e) <= Router!Today(e)
      BY <1>1, RowsCounted, RouterAssumption DEF Router!RoutingAssumption
    <2>4. Router!CapKept'
      BY <1>1, <2>1, <2>2, <2>3 DEF Router!CapKept
    <2>5. Chosen'
      BY <1>4 DEF Chosen
    <2> QED
      BY <2>2, <2>4, <2>5
  <1>5. ASSUME NEW x \in Engines, choice' \in {"judging", "cleanup"}, day' = day,
               log' = Append(log, Router!Row(x, "refused"))
        PROVE  LogOK' /\ PastOK' /\ Chosen' /\ Router!CapKept'
    <2>1. "refused" \in Router!Results
      BY DEF Router!Results
    <2>2. /\ LogOK' /\ PastOK' /\ \A e \in Engines : Router!Worked(e)' = Router!Worked(e)
      BY <1>1, <1>5, <2>1, RowCounts
    <2>3. Router!CapKept' /\ Chosen'
      BY <1>1, <1>5, <2>2 DEF Router!CapKept, Chosen
    <2> QED
      BY <2>2, <2>3
  <1> QED
    BY <1>2, <1>3, <1>4, <1>5, LogStep DEF LogSteps

LEMMA RouterTypes ==
  ASSUME RouterInv, [Router!Next]_(Router!vars)
  PROVE  Router!TypeOK'
  <1>1. FileInv' /\ LogOK'
    BY FileKept, ChosenKept DEF RouterInv
  <1>2. Router!TypeOK
    BY DEF RouterInv
  <1>3. /\ day \in 1 .. MaxDay /\ losses \in 0 .. MaxLosses /\ {MaxDay, MaxLosses} \subseteq Nat
        /\ choice \in {"idle", "choosing", "running", "judging", "cleanup"}
        /\ engine \in Engines \cup {Unset} /\ spared \subseteq Engines /\ unprobed \subseteq Engines
    BY <1>2, RouterAssumption DEF Router!TypeOK, Router!RoutingAssumption
  <1>4. \A f : Router!Active(f) \subseteq Engines /\ Router!Entries(f) \subseteq Engines
    BY DEF Router!Active, Router!Entries
  <1>5. /\ tags \in Seq(Engines) /\ <<>> \in Seq(Engines)
        /\ \A q \in Seq(Engines) : q # <<>> => Tail(q) \in Seq(Engines) /\ Head(q) \in Engines
    BY <1>2 DEF Router!TypeOK
  <1> DEFINE Small == /\ day' \in 1 .. MaxDay /\ losses' \in 0 .. MaxLosses
                      /\ choice' \in {"idle", "choosing", "running", "judging", "cleanup"}
                      /\ tags' \in Seq(Engines) /\ engine' \in Engines \cup {Unset}
                      /\ spared' \subseteq Engines /\ unprobed' \subseteq Engines
  <1>6. ASSUME NEW pin \in Engines \cup {Unset}, NEW h \in 0 .. 1,
               NEW readable \in BOOLEAN, NEW saved \in BOOLEAN,
               Router!Evaluate(pin, h, readable, saved)
        PROVE  Small
    <2>1. UNCHANGED <<day, engine, losses>> /\ choice' = "choosing"
      BY <1>6 DEF Router!Evaluate
    <2>2. /\ spared' = Router!Active(file) \/ \E f : spared' = Router!Active(f)
          /\ unprobed' = unprobed
                \/ \E f : unprobed' = unprobed \cup (Router!Entries(f) \ Router!Entries(file))
      BY <1>6 DEF Router!Evaluate
    <2>3. tags' = Router!Candidates(pin, h, spared', readable)
      BY <1>6 DEF Router!Evaluate
    <2> DEFINE P == Open(readable)
    <2>4. tags' \in Seq(P) /\ P \subseteq Engines
      BY <2>3, CandidatesOK DEF RouterInv, Router!TypeOK, LogOK, Open
    <2> HIDE DEF P
    <2>5. tags' \in Seq(Engines)
      BY <2>4
    <2> QED
      BY <1>3, <1>4, <2>1, <2>2, <2>5
  <1>7. ASSUME Router!NoTask \/ Router!PreflightFails \/ Router!Launch \/ Router!NoEngine
        PROVE  Small
    BY <1>3, <1>5, <1>7
       DEF Router!NoTask, Router!PreflightFails, Router!Launch, Router!NoEngine
  <1>8. ASSUME \/ \E r \in Router!Results : Router!RecordAttempt(r)
               \/ Router!NoRow \/ Router!Settle \/ \E e \in Engines : Router!Refuse(e)
               \/ \E saved \in BOOLEAN : Router!Cleanup(saved)
        PROVE  Small
    BY <1>3, <1>5, <1>8 DEF Router!RecordAttempt, Router!NoRow, Router!Settle, Router!Refuse,
       Router!Cleanup
  <1>9. ASSUME \/ Router!Tick \/ Router!Restart \/ Router!Damage \/ Router!RemoveFile
               \/ UNCHANGED Router!vars
        PROVE  Small
    <2>1. CASE Router!Tick
      BY <1>3, <1>5, <2>1 DEF Router!Tick, Router!cycle
    <2>2. CASE Router!Restart
      BY <1>3, <1>5, <2>2 DEF Router!Restart
    <2>3. CASE Router!Damage
      BY <1>3, <1>5, <2>3 DEF Router!Damage, Router!cycle
    <2>4. CASE Router!RemoveFile \/ UNCHANGED Router!vars
      BY <1>3, <1>5, <2>4 DEF Router!RemoveFile, Router!cycle, Router!vars
    <2> QED
      BY <1>9, <2>1, <2>2, <2>3, <2>4
  <1>10. Small
    BY <1>6, <1>7, <1>8, <1>9 DEF Router!Next
  <1>11. file'.kind \in {"missing", "bad", "state"} /\ {file'.until, file'.count} \subseteq [Engines -> Nat]
    BY <1>1 DEF FileInv
  <1> QED
    BY <1>1, <1>10, <1>11 DEF Router!TypeOK, LogOK

LEMMA RouterStep == RouterInv /\ [Router!Next]_(Router!vars) => RouterInv'
  BY RouterTypes, FileKept, ChosenKept DEF RouterInv

LEMMA RouterStart == Router!Init => RouterInv
  <1> SUFFICES ASSUME Router!Init PROVE RouterInv
    OBVIOUS
  <1>1. {MaxDay, MaxLosses} \subseteq Nat /\ MaxDay > 0 /\ \A e \in Engines : Cap[e] \in Nat
    BY RouterAssumption DEF Router!RoutingAssumption
  <1>2. Router!TypeOK /\ FileInv
    BY <1>1 DEF Router!Init, Router!TypeOK, Router!NoFile, Router!NoEntries, FileInv
  <1>3. PastOK /\ Chosen /\ log = <<>>
    BY DEF Router!Init, PastOK, Chosen
  <1>4. \A e : {i \in DOMAIN log : /\ log[i].engine = e /\ log[i].day = day
                                   /\ log[i].result # "refused"} = {}
    BY <1>3
  <1>5. Router!CapKept
    BY <1>1, <1>4, SameCount, FS_EmptySet DEF Router!CapKept, Router!Worked
  <1> QED
    BY <1>2, <1>3, <1>5 DEF RouterInv

\* Where the rotation is read, it holds every engine and no more slots than there are.
LEMMA RotationStaysFit == LogOK => Router!RotationFits
  <1> SUFFICES ASSUME LogOK PROVE Router!RotationFits
    OBVIOUS
  <1> DEFINE w == Router!Weights
  <1>1. w \in Heavy /\ Total(w, Rota) <= Router!MostSlots
    BY WeightsOK
  <1>2. Router!Total(w) = Total(w, Rota)
    BY <1>1, RouterTotal
  <1>3. \A e \in Rota : w[e] >= 1
    <2> HIDE DEF w
    <2> QED
      BY <1>1 DEF Heavy
  <1> QED
    BY <1>1, <1>2, <1>3 DEF Router!RotationFits, Rota

\* The days of the log, the entries of the isolation file, the candidates and the engine that
\* runs stay what their types say, whatever the success rates and the order of the candidates.
THEOREM RouterTypeCorrect == Router!Spec => []Router!TypeOK
  <1>1. RouterInv => Router!TypeOK
    BY DEF RouterInv
  <1> QED
    BY RouterStart, RouterStep, <1>1, PTL DEF Router!Spec

\* No engine has more worker rows in a day than its daily cap, whatever of the run database
\* could be read when it was chosen and however many of its results were refused since
\* (daily-attempt-cap-gate.ts); whatever the success rates, no engine
\* of the configuration loses its last slot of the rotation (weightedRotation); and while an
\* isolation runs nothing moves its end (applyFirstIsolation, pruneRoutingState).
THEOREM LimitsStayKept == Router!Spec => LimitsKept
  <1>1. RouterInv => Router!CapKept /\ Router!RotationFits
    BY RotationStaysFit DEF RouterInv, Router!TypeOK, LogOK
  <1>2. RouterInv /\ [Router!Next]_(Router!vars) =>
          [\A e \in Router!Active(file) : file'.kind = "state" => file'.until[e] = file.until[e]]_(Router!vars)
    BY FileKept DEF RouterInv
  <1> QED
    BY RouterStart, RouterStep, <1>1, <1>2, PTL
       DEF Router!Spec, LimitsKept, Router!LimitsKept, Router!ClockKept
=============================================================================
