--------------------------- MODULE ConductorProofs ---------------------------
(* Invariance proofs for Conductor, for any tasks, caps, limits and bounds; *)
(* and, at the end, for the outer loop of the daemon (Autopilot) and the     *)
(* regression suite that is verified with it (SuiteShards).                 *)
EXTENDS Conductor, MCAutopilot, TLAPS

(***************************************************************************)
(* The fence is the process's own exactly while an execution of its may be *)
(* alive; whenever a worker is alive or has done something after its time, *)
(* there is a fence.  A process that decides holds no fence, which is why  *)
(* nothing can be alive then.                                              *)
(***************************************************************************)
Free == Deciding \ {"fenced"}

Ending == {"settled", "billed", "recorded"}

FenceSound ==
    /\ pc \in Free => fence = NoFence
    /\ pc \in {"fenced", "working", "stopping", "dropping"} => fence = Mine /\ frame.exec # 0
    /\ pc = "preflight" => frame.exec = 0
    /\ pc \in Ending => fence = IF frame.exec = 0 THEN NoFence ELSE Mine

\* What came after a timeout shows in HEAD.
LiveSound ==
    /\ live # {} \/ late => fence # NoFence
    /\ OneWorker
    /\ pc \in {"fenced", "dropping"} => live = {} /\ ~late
    /\ pc \in {"working", "stopping"} => live \subseteq {frame.exec}
    /\ pc \in Ending /\ frame.confirmed => live = {}
    /\ pc = "working" => ~late
    /\ pc \in {"preflight", "fenced", "working", "stopping"} \cup Ending
            => frame.before \in Nat /\ frame.before <= head
    /\ pc = "stopping" => frame.timedOut /\ ~frame.confirmed /\ (late => frame.before < head)
    /\ pc = "settled" /\ frame.confirmed /\ late => frame.timedOut /\ frame.before < head
    /\ pc \in {"billed", "recorded"} /\ frame.confirmed /\ late => LateMutation

\* A bill that nobody looked at is in a hold, or behind the fence.
BillSound ==
    /\ \A t \in over : t \in hold \/ fence.task = t
    /\ pc # "idle" /\ ~frame.blocked => cur \notin hold /\ cur \notin over
    /\ pc \in {"recorded", "dropping", "released"} /\ frame.blocked => cur \in hold
    /\ pc \in {"loop", "preflight", "fenced", "working", "verifying", "judged"} => ~frame.blocked
    /\ pc = "billed" => frame.blocked

Core == FenceSound /\ LiveSound /\ BillSound

IInv == TypeOK /\ Core

USE DEF cur, Free, Deciding, Ending, stateVars, gitVars, repoVars, ghostVars

-----------------------------------------------------------------------------
(* Typing *)

LEMMA BlankTyped ==
  /\ Blank \in Frame /\ BlankBook \in Book /\ NoFence \notin Fence
  /\ Blank.task = None /\ ~Blank.blocked /\ NoFence.task = None
BY ConductorAssumption DEF Blank, Frame, BlankBook, Book, Commit, Failure, Status,
   NoFence, Fence

LEMMA AppendedTyped ==
  ASSUME TypeOK, NEW t \in Task, NEW b \in Book, Appended(t, b)
  PROVE  book' \in [Task -> Book] /\ torn' \in BOOLEAN
BY DEF TypeOK, Appended

LEMMA FinishTyped ==
  ASSUME TypeOK, NEW t \in Task, NEW s \in Status, Finish(t, s)
  PROVE  /\ book' \in [Task -> Book] /\ torn' \in BOOLEAN
         /\ pc' = "idle" /\ frame' = Blank
<1>1. WithFinish(book[t], s) \in Book
  BY ZenonT(60) DEF TypeOK, WithFinish, Book
<1> QED
  BY <1>1, AppendedTyped DEF Finish, Return

LEMMA AttemptTyped ==
  ASSUME NEW b \in Book
  PROVE  WithAttempt(b, b.total + 1) \in Book
<1>1. b.total + 1 \in Nat /\ b.epoch + 1 \in Nat /\ b.open \cup {b.total + 1} \in SUBSET Nat
  BY DEF Book
<1> QED
  BY <1>1 DEF Book, WithAttempt

\* The steps that end a run, or cut it off, leave everything else alone.
Ends == /\ pc' = "idle" /\ frame' = Blank
        /\ book' \in [Task -> Book] /\ torn' \in BOOLEAN /\ faults' \in Nat
        /\ UNCHANGED <<projection, gitVars, repoVars, ghostVars>>

LEMMA EndsSound ==
  ASSUME IInv, Ends
  PROVE  IInv'
<1>1. TypeOK'
  BY BlankTyped DEF IInv, Ends, TypeOK, Running
<1>2. Core'
  BY DEF IInv, Core, Ends, FenceSound, LiveSound, BillSound, OneWorker
<1> QED
  BY <1>1, <1>2 DEF IInv

-----------------------------------------------------------------------------
(* The steps that end a run *)

LEMMA EndingSteps ==
  ASSUME IInv, NEW t \in Task,
         \/ StartUnusable(t) \/ StartStale(t) \/ Stop \/ Refuse \/ Exhausted \/ FenceRefused
         \/ HoldFails \/ Escalate \/ BlockLate \/ ReleaseFails \/ CostStops \/ SameFailure
         \/ Conclude \/ Crash
  PROVE  IInv'
<1>1. pc # "idle" => cur \in Task
  BY DEF IInv, TypeOK
<1>2. {"blocked", "escalated", "done", "unverified"} \subseteq Status
  BY DEF Status
<1>3. CASE StartUnusable(t) \/ StartStale(t)
  <2>1. Finish(t, "blocked")
    BY <1>3 DEF StartUnusable, StartStale
  <2> QED
    BY <1>2, <1>3, <2>1, FinishTyped, EndsSound DEF IInv, TypeOK, Ends, StartUnusable,
       StartStale
<1>4. CASE Stop \/ FenceRefused \/ Crash
  <2>1. Return /\ UNCHANGED <<projection, gitVars, repoVars, ghostVars>>
    BY <1>4 DEF Stop, FenceRefused, Crash
  <2>2. book' = book /\ torn' \in BOOLEAN /\ faults' \in Nat
    <3>1. torn \in BOOLEAN /\ faults \in Nat
      BY DEF IInv, TypeOK
    <3>2. CASE Stop \/ FenceRefused
      BY <3>1, <3>2 DEF Stop, FenceRefused, Fault
    <3>3. CASE Crash
      <4>1. CASE UNCHANGED <<torn, faults>>
        BY <3>1, <3>3, <4>1 DEF Crash
      <4>2. CASE Fault /\ torn' = TRUE
        BY <3>1, <3>3, <4>2 DEF Crash, Fault
      <4> QED
        BY <3>3, <4>1, <4>2 DEF Crash
    <3> QED
      BY <1>4, <3>2, <3>3
  <2> QED
    BY <2>1, <2>2, EndsSound DEF IInv, TypeOK, Ends, Return
<1>5. CASE Refuse \/ Exhausted \/ Escalate \/ BlockLate \/ SameFailure \/ Conclude \/ CostStops
  <2>1. PICK s \in {"blocked", "escalated", "done", "unverified"} : Finish(cur, s)
    BY <1>5 DEF Refuse, Exhausted, Escalate, BlockLate, SameFailure, Conclude, CostStops
  <2>2. pc # "idle" /\ UNCHANGED <<projection, gitVars, repoVars, ghostVars, faults>>
    BY <1>5 DEF Refuse, Exhausted, Escalate, BlockLate, SameFailure, AttemptFailed,
       Conclude, CostStops
  <2> QED
    BY <1>1, <1>2, <2>1, <2>2, FinishTyped, EndsSound DEF IInv, TypeOK, Ends
<1>6. CASE HoldFails \/ ReleaseFails
  <2>1. Finish(cur, "blocked") /\ faults' \in Nat
    BY <1>6 DEF HoldFails, ReleaseFails, Fault, IInv, TypeOK
  <2>2. pc # "idle" /\ UNCHANGED <<projection, gitVars, repoVars, ghostVars>>
    BY <1>6 DEF HoldFails, ReleaseFails, MayRelease
  <2> QED
    BY <1>1, <1>2, <2>1, <2>2, FinishTyped, EndsSound DEF IInv, Ends
<1> QED
  BY <1>3, <1>4, <1>5, <1>6

-----------------------------------------------------------------------------
(* The start and the dispatch *)

LEMMA StartUnresolvedSound ==
  ASSUME IInv, NEW t \in Task, StartUnresolved(t)
  PROVE  IInv'
<1>1. TypeOK'
  BY DEF StartUnresolved, Unfenced, IInv, TypeOK, Running, Frame, Fence
<1>2. FenceSound'
  BY BlankTyped DEF StartUnresolved, Unfenced, IInv, Core, FenceSound, Mine, Fence,
     TypeOK, NoFence
<1>3. LiveSound'
  BY BlankTyped DEF StartUnresolved, Unfenced, IInv, Core, FenceSound, Mine, LiveSound,
     OneWorker, LateMutation, Fence, TypeOK, NoFence
<1>4. BillSound'
  BY BlankTyped DEF StartUnresolved, Unfenced, IInv, Core, FenceSound, Mine, BillSound,
     Fence, TypeOK, NoFence
<1> QED
  BY <1>1, <1>2, <1>3, <1>4 DEF IInv, Core

LEMMA StartEpochSound ==
  ASSUME IInv, NEW t \in Task, StartEpoch(t)
  PROVE  IInv'
<1>1. frame' \in Frame /\ frame'.task = t /\ ~frame'.blocked
  BY BlankTyped DEF StartEpoch, Frame, Commit, IInv, TypeOK
<1>2. book' \in [Task -> Book]
  BY DEF StartEpoch, Book, Commit, IInv, TypeOK
<1>3. TypeOK'
  BY <1>1, <1>2 DEF StartEpoch, IInv, TypeOK, Running, Frame
<1>4. FenceSound'
  BY BlankTyped, ConductorAssumption, <1>1 DEF StartEpoch, IInv, Core, FenceSound, Mine,
     MayStart, Unfenced, TypeOK
<1>5. LiveSound'
  BY BlankTyped, ConductorAssumption, <1>1 DEF StartEpoch, IInv, Core, FenceSound, Mine,
     LiveSound, OneWorker, LateMutation, MayStart, Unfenced, TypeOK
<1>6. BillSound'
  BY BlankTyped, ConductorAssumption, <1>1 DEF StartEpoch, IInv, Core, FenceSound, Mine,
     BillSound, MayStart, Unfenced, TypeOK
<1> QED
  BY <1>3, <1>4, <1>5, <1>6 DEF IInv, Core

LEMMA ResumeSound ==
  ASSUME IInv, NEW t \in Task, Resume(t)
  PROVE  IInv'
<1>1. frame' \in Frame /\ frame'.task = t /\ ~frame'.blocked
  BY BlankTyped DEF Resume, Frame, Commit, Book, IInv, TypeOK
<1>2. TypeOK'
  BY <1>1 DEF Resume, IInv, TypeOK, Running, Frame
<1>3. FenceSound'
  BY BlankTyped, ConductorAssumption, <1>1 DEF Resume, IInv, Core, FenceSound, Mine,
     MayStart, Unfenced, TypeOK
<1>4. LiveSound'
  BY BlankTyped, ConductorAssumption, <1>1 DEF Resume, IInv, Core, FenceSound, Mine,
     LiveSound, OneWorker, LateMutation, MayStart, Unfenced, TypeOK
<1>5. BillSound'
  BY BlankTyped, ConductorAssumption, <1>1 DEF Resume, IInv, Core, FenceSound, Mine,
     BillSound, MayStart, Unfenced, TypeOK
<1> QED
  BY <1>2, <1>3, <1>4, <1>5 DEF IInv, Core

LEMMA RecordAttemptSound ==
  ASSUME IInv, RecordAttempt
  PROVE  IInv'
<1>1. book' \in [Task -> Book] /\ torn' \in BOOLEAN
  <2>1. cur \in Task /\ book[cur] \in Book
    BY DEF RecordAttempt, IInv, TypeOK
  <2>2. WithAttempt(book[cur], book[cur].total + 1) \in Book
    BY <2>1, AttemptTyped
  <2> QED
    BY <2>1, <2>2, AppendedTyped DEF RecordAttempt, IInv
<1>2. /\ frame' \in Frame /\ frame'.task = cur /\ frame'.before = head /\ frame'.exec = 0
      /\ frame'.confirmed /\ ~frame'.blocked /\ frame'.timedOut = FALSE
  <2>1. book[cur].total + 1 \in Nat
    BY DEF RecordAttempt, IInv, TypeOK, Book
  <2>2. None \in Commit /\ head \in Commit /\ None \in Failure /\ frame \in Frame
    BY DEF IInv, TypeOK, Commit, Failure
  <2>3. frame.attempts + 1 \in Nat
    BY <2>2 DEF Frame
  <2> QED
    BY <2>1, <2>2, <2>3 DEF RecordAttempt, Frame
<1>3. TypeOK'
  BY <1>2, <1>1 DEF RecordAttempt, IInv, TypeOK, Running, Frame
<1>4. FenceSound'
  BY <1>2 DEF RecordAttempt, IInv, Core, FenceSound, Mine, TypeOK
<1>5. LiveSound'
  BY <1>2 DEF RecordAttempt, IInv, Core, FenceSound, Mine, LiveSound, OneWorker,
     LateMutation, TypeOK
<1>6. BillSound'
  BY <1>2 DEF RecordAttempt, IInv, Core, FenceSound, Mine, BillSound, TypeOK
<1> QED
  BY <1>3, <1>4, <1>5, <1>6 DEF IInv, Core

LEMMA PreflightFailsSound ==
  ASSUME IInv, PreflightFails
  PROVE  IInv'
<1>1. TypeOK'
  BY DEF PreflightFails, IInv, TypeOK, Running, Frame, Failure
<1>2. FenceSound'
  BY DEF PreflightFails, IInv, Core, FenceSound, Mine, TypeOK, Frame
<1>3. LiveSound'
  BY DEF PreflightFails, IInv, Core, FenceSound, Mine, LiveSound, OneWorker, LateMutation,
     TypeOK, Frame
<1>4. BillSound'
  BY DEF PreflightFails, IInv, Core, FenceSound, Mine, BillSound, TypeOK, Frame
<1> QED
  BY <1>1, <1>2, <1>3, <1>4 DEF IInv, Core

LEMMA TakeFenceSound ==
  ASSUME IInv, TakeFence
  PROVE  IInv'
<1>1. TypeOK'
  BY DEF TakeFence, IInv, TypeOK, Running, Frame, Fence
<1>2. FenceSound'
  BY ConductorAssumption DEF TakeFence, IInv, Core, FenceSound, Mine, TypeOK, Frame,
     NoFence
<1>3. LiveSound'
  BY ConductorAssumption DEF TakeFence, IInv, Core, FenceSound, Mine, LiveSound,
     OneWorker, LateMutation, TypeOK, Frame, NoFence
<1>4. BillSound'
  BY ConductorAssumption DEF TakeFence, IInv, Core, FenceSound, Mine, BillSound, TypeOK,
     Frame, NoFence
<1> QED
  BY <1>1, <1>2, <1>3, <1>4 DEF IInv, Core

LEMMA ProjectionFailsSound ==
  ASSUME IInv, ProjectionFails
  PROVE  IInv'
<1>1. TypeOK'
  BY DEF ProjectionFails, Fault, IInv, TypeOK, Running, Frame, Failure
<1>2. FenceSound'
  BY DEF ProjectionFails, Fault, IInv, Core, FenceSound, Mine, TypeOK, Frame
<1>3. LiveSound'
  BY DEF ProjectionFails, Fault, IInv, Core, FenceSound, Mine, LiveSound, OneWorker,
     LateMutation, TypeOK, Frame
<1>4. BillSound'
  BY DEF ProjectionFails, Fault, IInv, Core, FenceSound, Mine, BillSound, TypeOK, Frame
<1> QED
  BY <1>1, <1>2, <1>3, <1>4 DEF IInv, Core

LEMMA DispatchSound ==
  ASSUME IInv, Dispatch
  PROVE  IInv'
<1>1. live = {} /\ live' = {frame.exec} /\ live' \in SUBSET Nat /\ started' \in Nat
      /\ fence # NoFence
  <2>1. fence # NoFence
    BY DEF Dispatch, IInv, Core, FenceSound, Mine, NoFence
  <2>2. live = {} /\ frame.exec \in Nat /\ started \in Nat
    BY DEF Dispatch, IInv, Core, LiveSound, TypeOK, Frame
  <2> QED
    BY <2>2, <2>1 DEF Dispatch
<1>2. TypeOK'
  BY <1>1 DEF Dispatch, IInv, TypeOK, Running, Frame
<1>3. FenceSound'
  BY <1>1 DEF Dispatch, IInv, Core, FenceSound, Mine, TypeOK
<1>4. LiveSound'
  BY <1>1 DEF Dispatch, IInv, Core, FenceSound, Mine, LiveSound, OneWorker, LateMutation,
     TypeOK
<1>5. BillSound'
  BY <1>1 DEF Dispatch, IInv, Core, FenceSound, Mine, BillSound, TypeOK
<1> QED
  BY <1>2, <1>3, <1>4, <1>5 DEF IInv, Core

-----------------------------------------------------------------------------
(* The attempt *)

LEMMA RunAnswersSound ==
  ASSUME IInv, RunAnswers
  PROVE  IInv'
<1>1. /\ frame' \in Frame /\ over' \in SUBSET Task
      /\ frame'.task = cur /\ frame'.exec = frame.exec /\ frame'.before = frame.before
      /\ frame'.confirmed = frame.confirmed /\ frame'.timedOut = frame.timedOut
      /\ over' = IF frame'.blocked THEN over \cup {cur} ELSE over
  <2>1. PICK f \in Fp \cup {None, "phantom"}, b \in BOOLEAN :
          /\ frame' = [frame EXCEPT !.blocked = b, !.failed = f]
          /\ over' = IF b THEN over \cup {cur} ELSE over
    BY DEF RunAnswers
  <2>2. frame \in Frame /\ cur \in Task /\ over \in SUBSET Task
    BY DEF RunAnswers, IInv, TypeOK
  <2> QED
    BY <2>1, <2>2 DEF Frame, Failure
<1>2. TypeOK'
  BY <1>1 DEF RunAnswers, IInv, TypeOK, Running, Frame
<1>3. FenceSound'
  BY <1>1, BlankTyped DEF RunAnswers, IInv, Core, FenceSound, Mine, TypeOK
<1>4. LiveSound'
  BY <1>1, BlankTyped DEF RunAnswers, IInv, Core, FenceSound, Mine, LiveSound, OneWorker,
     LateMutation, TypeOK
<1>5. BillSound'
  BY <1>1, BlankTyped DEF RunAnswers, IInv, Core, FenceSound, Mine, BillSound, TypeOK
<1> QED
  BY <1>2, <1>3, <1>4, <1>5 DEF IInv, Core

LEMMA RunUncertainSound ==
  ASSUME IInv, RunUncertain
  PROVE  IInv'
<1>1. /\ frame' \in Frame /\ over' \in SUBSET Task
      /\ frame'.task = cur /\ frame'.exec = frame.exec /\ frame'.before = frame.before
      /\ ~frame'.confirmed /\ frame'.timedOut = frame.timedOut
      /\ over' = IF frame'.blocked THEN over \cup {cur} ELSE over
  <2>1. PICK f \in Fp : frame' = [frame EXCEPT !.failed = f, !.confirmed = FALSE,
                                              !.blocked = (cur \in Capped)]
    BY DEF RunUncertain
  <2>2. frame \in Frame /\ cur \in Task /\ over \in SUBSET Task
    BY DEF RunUncertain, IInv, TypeOK
  <2>3. CASE cur \in Capped
    <3>1. /\ frame' = [frame EXCEPT !.failed = f, !.confirmed = FALSE, !.blocked = TRUE]
          /\ over' = over \cup {cur}
      BY <2>1, <2>3 DEF RunUncertain
    <3> QED
      BY <2>2, <3>1 DEF Frame, Failure
  <2>4. CASE cur \notin Capped
    <3>1. /\ frame' = [frame EXCEPT !.failed = f, !.confirmed = FALSE, !.blocked = FALSE]
          /\ over' = over
      <4>1. (cur \in Capped) = FALSE
        BY <2>4
      <4> QED
        BY <2>1, <4>1 DEF RunUncertain
    <3> QED
      BY <2>2, <3>1 DEF Frame, Failure
  <2> QED
    BY <2>3, <2>4
<1>2. TypeOK'
  BY <1>1 DEF RunUncertain, IInv, TypeOK, Running, Frame
<1>3. FenceSound'
  BY <1>1, BlankTyped DEF RunUncertain, IInv, Core, FenceSound, Mine, TypeOK
<1>4. LiveSound'
  BY <1>1, BlankTyped DEF RunUncertain, IInv, Core, FenceSound, Mine, LiveSound,
     OneWorker, LateMutation, TypeOK
<1>5. BillSound'
  BY <1>1, BlankTyped DEF RunUncertain, IInv, Core, FenceSound, Mine, BillSound, TypeOK
<1> QED
  BY <1>2, <1>3, <1>4, <1>5 DEF IInv, Core

LEMMA TimeOutSound ==
  ASSUME IInv, TimeOut
  PROVE  IInv'
<1>1. /\ frame' \in Frame /\ over' \in SUBSET Task
      /\ frame'.task = cur /\ frame'.exec = frame.exec /\ frame'.before = frame.before
      /\ ~frame'.confirmed /\ frame'.timedOut
      /\ over' = IF frame'.blocked THEN over \cup {cur} ELSE over
  <2>1. frame \in Frame /\ cur \in Task /\ over \in SUBSET Task
    BY DEF TimeOut, IInv, TypeOK
  <2>2. CASE cur \in Capped
    <3>1. /\ frame' = [frame EXCEPT !.failed = "timeout", !.timedOut = TRUE,
                                      !.confirmed = FALSE, !.blocked = TRUE]
          /\ over' = over \cup {cur}
      BY <2>2 DEF TimeOut
    <3> QED
      BY <2>1, <3>1 DEF Frame, Failure
  <2>3. CASE cur \notin Capped
    <3>1. /\ frame' = [frame EXCEPT !.failed = "timeout", !.timedOut = TRUE,
                                      !.confirmed = FALSE, !.blocked = FALSE]
          /\ over' = over
      <4>1. (cur \in Capped) = FALSE
        BY <2>3
      <4> QED
        BY <4>1 DEF TimeOut
    <3> QED
      BY <2>1, <3>1 DEF Frame, Failure
  <2> QED
    BY <2>2, <2>3
<1>2. TypeOK'
  BY <1>1 DEF TimeOut, IInv, TypeOK, Running, Frame
<1>3. FenceSound'
  BY <1>1, BlankTyped DEF TimeOut, IInv, Core, FenceSound, Mine, TypeOK
<1>4. LiveSound'
  BY <1>1, BlankTyped DEF TimeOut, IInv, Core, FenceSound, Mine, LiveSound, OneWorker,
     LateMutation, TypeOK
<1>5. BillSound'
  BY <1>1, BlankTyped DEF TimeOut, IInv, Core, FenceSound, Mine, BillSound, TypeOK
<1> QED
  BY <1>2, <1>3, <1>4, <1>5 DEF IInv, Core

LEMMA CancelledSound ==
  ASSUME IInv, Cancelled
  PROVE  IInv'
<1>1. TypeOK'
  BY ConductorAssumption DEF Cancelled, IInv, TypeOK, Running, Frame, Failure
<1>2. FenceSound'
  BY ConductorAssumption, BlankTyped DEF Cancelled, IInv, Core, FenceSound, Mine, TypeOK,
     Frame
<1>3. LiveSound'
  BY ConductorAssumption, BlankTyped DEF Cancelled, IInv, Core, FenceSound, Mine,
     LiveSound, OneWorker, LateMutation, TypeOK, Frame
<1>4. BillSound'
  BY ConductorAssumption, BlankTyped DEF Cancelled, IInv, Core, FenceSound, Mine,
     BillSound, TypeOK, Frame
<1> QED
  BY <1>1, <1>2, <1>3, <1>4 DEF IInv, Core

LEMMA NotCancelledSound ==
  ASSUME IInv, NotCancelled
  PROVE  IInv'
<1>1. TypeOK'
  BY ConductorAssumption DEF NotCancelled, IInv, TypeOK, Running, Frame, Failure
<1>2. FenceSound'
  BY ConductorAssumption, BlankTyped DEF NotCancelled, IInv, Core, FenceSound, Mine,
     TypeOK, Frame
<1>3. LiveSound'
  BY ConductorAssumption, BlankTyped DEF NotCancelled, IInv, Core, FenceSound, Mine,
     LiveSound, OneWorker, LateMutation, TypeOK, Frame
<1>4. BillSound'
  BY ConductorAssumption, BlankTyped DEF NotCancelled, IInv, Core, FenceSound, Mine,
     BillSound, TypeOK, Frame
<1> QED
  BY <1>1, <1>2, <1>3, <1>4 DEF IInv, Core

-----------------------------------------------------------------------------
(* After the attempt *)

LEMMA RecordResultSound ==
  ASSUME IInv, RecordResult
  PROVE  IInv'
<1>1. frame' = [frame EXCEPT !.expected = head] /\ frame' \in Frame /\ head \in Commit /\ frame \in Frame
  BY DEF RecordResult, IInv, TypeOK, Frame, Commit
<1>2. book' \in [Task -> Book] /\ torn' \in BOOLEAN
  <2>1. cur \in Task /\ book[cur] \in Book /\ frame.n \in Nat /\ frame.blocked \in BOOLEAN
    BY DEF RecordResult, IInv, TypeOK, Frame
  <2>2. WithResult(book[cur], frame.n, head, frame.blocked, frame.confirmed) \in Book
    BY <1>1, <2>1 DEF Book, WithResult
  <2> QED
    BY <2>1, <2>2, AppendedTyped DEF RecordResult, IInv
<1>3. TypeOK'
  BY <1>1, <1>2 DEF RecordResult, IInv, TypeOK, Running, Frame
<1>4. FenceSound'
  BY <1>1 DEF RecordResult, Frame, IInv, Core, FenceSound, Mine, TypeOK
<1>5. LiveSound'
  BY <1>1 DEF RecordResult, Frame, IInv, Core, FenceSound, Mine, LiveSound, OneWorker,
     LateMutation, TypeOK
<1>6. BillSound'
  BY <1>1 DEF RecordResult, Frame, IInv, Core, FenceSound, Mine, BillSound, TypeOK
<1> QED
  BY <1>3, <1>4, <1>5, <1>6 DEF IInv, Core

LEMMA WriteHoldSound ==
  ASSUME IInv, WriteHold
  PROVE  IInv'
<1>1. TypeOK'
  BY BlankTyped DEF WriteHold, IInv, TypeOK, Running, Frame, Failure
<1>2. FenceSound'
  BY BlankTyped DEF WriteHold, IInv, Core, FenceSound, Mine, TypeOK, Frame
<1>3. LiveSound'
  BY BlankTyped DEF WriteHold, IInv, Core, FenceSound, Mine, LiveSound, OneWorker,
     LateMutation, TypeOK, Frame
<1>4. BillSound'
  BY BlankTyped DEF WriteHold, IInv, Core, FenceSound, Mine, BillSound, TypeOK, Frame
<1> QED
  BY <1>1, <1>2, <1>3, <1>4 DEF IInv, Core

LEMMA NothingToReleaseSound ==
  ASSUME IInv, NothingToRelease
  PROVE  IInv'
<1>1. TypeOK'
  BY BlankTyped DEF NothingToRelease, MayRelease, IInv, TypeOK, Running, Frame, Failure
<1>2. FenceSound'
  BY BlankTyped DEF NothingToRelease, MayRelease, IInv, Core, FenceSound, Mine, TypeOK,
     Frame
<1>3. LiveSound'
  BY BlankTyped DEF NothingToRelease, MayRelease, IInv, Core, FenceSound, Mine, LiveSound,
     OneWorker, LateMutation, TypeOK, Frame
<1>4. BillSound'
  BY BlankTyped DEF NothingToRelease, MayRelease, IInv, Core, FenceSound, Mine, BillSound,
     TypeOK, Frame
<1> QED
  BY <1>1, <1>2, <1>3, <1>4 DEF IInv, Core

LEMMA DropProjectionSound ==
  ASSUME IInv, DropProjection
  PROVE  IInv'
<1>1. TypeOK'
  BY BlankTyped DEF DropProjection, MayRelease, IInv, TypeOK, Running, Frame, Failure
<1>2. FenceSound'
  BY BlankTyped DEF DropProjection, MayRelease, IInv, Core, FenceSound, Mine, TypeOK,
     Frame
<1>3. LiveSound'
  BY BlankTyped DEF DropProjection, MayRelease, IInv, Core, FenceSound, Mine, LiveSound,
     OneWorker, LateMutation, TypeOK, Frame
<1>4. BillSound'
  BY BlankTyped DEF DropProjection, MayRelease, IInv, Core, FenceSound, Mine, BillSound,
     TypeOK, Frame
<1> QED
  BY <1>1, <1>2, <1>3, <1>4 DEF IInv, Core

LEMMA DropFenceSound ==
  ASSUME IInv, DropFence
  PROVE  IInv'
<1>1. TypeOK'
  BY BlankTyped DEF DropFence, IInv, TypeOK, Running, Frame, Failure
<1>2. FenceSound'
  BY BlankTyped DEF DropFence, IInv, Core, FenceSound, Mine, TypeOK, Frame
<1>3. LiveSound'
  BY BlankTyped DEF DropFence, IInv, Core, FenceSound, Mine, LiveSound, OneWorker,
     LateMutation, TypeOK, Frame
<1>4. BillSound'
  BY BlankTyped DEF DropFence, IInv, Core, FenceSound, Mine, BillSound, TypeOK, Frame
<1> QED
  BY <1>1, <1>2, <1>3, <1>4 DEF IInv, Core

LEMMA RetrySound ==
  ASSUME IInv, Retry
  PROVE  IInv'
<1>1. TypeOK'
  BY BlankTyped DEF Retry, AttemptFailed, IInv, TypeOK, Running, Frame, Failure
<1>2. FenceSound'
  BY BlankTyped DEF Retry, AttemptFailed, IInv, Core, FenceSound, Mine, TypeOK, Frame
<1>3. LiveSound'
  BY BlankTyped DEF Retry, AttemptFailed, IInv, Core, FenceSound, Mine, LiveSound,
     OneWorker, LateMutation, TypeOK, Frame
<1>4. BillSound'
  BY BlankTyped DEF Retry, AttemptFailed, IInv, Core, FenceSound, Mine, BillSound, TypeOK,
     Frame
<1> QED
  BY <1>1, <1>2, <1>3, <1>4 DEF IInv, Core

LEMMA VerifySound ==
  ASSUME IInv, Verify
  PROVE  IInv'
<1>1. TypeOK'
  BY BlankTyped DEF Verify, IInv, TypeOK, Running, Frame, Failure
<1>2. FenceSound'
  BY BlankTyped DEF Verify, IInv, Core, FenceSound, Mine, TypeOK, Frame
<1>3. LiveSound'
  BY BlankTyped DEF Verify, IInv, Core, FenceSound, Mine, LiveSound, OneWorker,
     LateMutation, TypeOK, Frame
<1>4. BillSound'
  BY BlankTyped DEF Verify, IInv, Core, FenceSound, Mine, BillSound, TypeOK, Frame
<1> QED
  BY <1>1, <1>2, <1>3, <1>4 DEF IInv, Core

LEMMA RecordVerdictSound ==
  ASSUME IInv, RecordVerdict
  PROVE  IInv'
<1>1. /\ frame' \in Frame
      /\ frame'.task = cur /\ frame'.exec = frame.exec /\ frame'.before = frame.before
      /\ frame'.confirmed = frame.confirmed /\ frame'.blocked = frame.blocked
  <2>1. frame \in Frame
    BY DEF IInv, TypeOK
  <2>2. CASE \E v \in {"pass", "unverified"} : frame' = [frame EXCEPT !.verdict = v]
    BY <2>1, <2>2 DEF Frame
  <2>3. CASE \E f \in Fp : frame' = [frame EXCEPT !.verdict = "fail", !.failed = f]
    BY <2>1, <2>3, ZenonT(60) DEF Frame, Failure
  <2> QED
    BY <2>2, <2>3 DEF RecordVerdict
<1>2. TypeOK'
  BY <1>1 DEF RecordVerdict, IInv, TypeOK, Running, Frame
<1>3. FenceSound'
  BY <1>1, BlankTyped DEF RecordVerdict, IInv, Core, FenceSound, Mine, TypeOK
<1>4. LiveSound'
  BY <1>1, BlankTyped DEF RecordVerdict, IInv, Core, FenceSound, Mine, LiveSound,
     OneWorker, LateMutation, TypeOK
<1>5. BillSound'
  BY <1>1, BlankTyped DEF RecordVerdict, IInv, Core, FenceSound, Mine, BillSound, TypeOK
<1> QED
  BY <1>2, <1>3, <1>4, <1>5 DEF IInv, Core

-----------------------------------------------------------------------------
(* The environment *)

LEMMA WorkerCommitsSound ==
  ASSUME IInv, NEW x \in live, WorkerCommits(x)
  PROVE  IInv'
<1>1. TypeOK'
  BY DEF WorkerCommits, OnTime, IInv, TypeOK, Running, Frame
<1>2. FenceSound'
  BY DEF WorkerCommits, OnTime, IInv, Core, FenceSound, Mine, TypeOK, Frame
<1>3. LiveSound'
  BY DEF WorkerCommits, OnTime, IInv, Core, FenceSound, Mine, LiveSound, OneWorker,
     LateMutation, TypeOK, Frame
<1>4. BillSound'
  BY DEF WorkerCommits, OnTime, IInv, Core, FenceSound, Mine, BillSound, TypeOK, Frame
<1> QED
  BY <1>1, <1>2, <1>3, <1>4 DEF IInv, Core

LEMMA OrphanEndsSound ==
  ASSUME IInv, NEW x \in live, OrphanEnds(x)
  PROVE  IInv'
<1>1. TypeOK'
  BY DEF OrphanEnds, IInv, TypeOK, Running, Frame
<1>2. FenceSound'
  BY DEF OrphanEnds, IInv, Core, FenceSound, Mine, TypeOK, Frame
<1>3. LiveSound'
  BY DEF OrphanEnds, IInv, Core, FenceSound, Mine, LiveSound, OneWorker, LateMutation,
     TypeOK, Frame
<1>4. BillSound'
  BY DEF OrphanEnds, IInv, Core, FenceSound, Mine, BillSound, TypeOK, Frame
<1> QED
  BY <1>1, <1>2, <1>3, <1>4 DEF IInv, Core

LEMMA OutsideCommitSound ==
  ASSUME IInv, OutsideCommit
  PROVE  IInv'
<1>1. TypeOK'
  BY DEF OutsideCommit, IInv, TypeOK, Running, Frame
<1>2. FenceSound'
  BY DEF OutsideCommit, IInv, Core, FenceSound, Mine, TypeOK, Frame
<1>3. LiveSound'
  BY DEF OutsideCommit, IInv, Core, FenceSound, Mine, LiveSound, OneWorker, LateMutation,
     TypeOK, Frame
<1>4. BillSound'
  BY DEF OutsideCommit, IInv, Core, FenceSound, Mine, BillSound, TypeOK, Frame
<1> QED
  BY <1>1, <1>2, <1>3, <1>4 DEF IInv, Core

LEMMA GitCleanSound ==
  ASSUME IInv, GitClean
  PROVE  IInv'
<1>1. TypeOK'
  BY BlankTyped, ZenonT(60) DEF GitClean, IInv, TypeOK, Running, Frame
<1>2. FenceSound'
  BY DEF GitClean, IInv, Core, FenceSound, Mine
<1>3. LiveSound'
  BY DEF GitClean, IInv, Core, FenceSound, Mine, LiveSound, OneWorker, LateMutation
<1>4. BillSound'
  BY DEF GitClean, IInv, Core, FenceSound, Mine, BillSound
<1> QED
  BY <1>1, <1>2, <1>3, <1>4 DEF IInv, Core

LEMMA OperatorReconcilesSound ==
  ASSUME IInv, OperatorReconciles
  PROVE  IInv'
<1>1. \A t \in Task : [book[t] EXCEPT !.open = {}, !.commit = head] \in Book
  <2>1. head \in Commit /\ book \in [Task -> Book] /\ {} \in SUBSET Nat
    BY DEF IInv, TypeOK, Commit
  <2> TAKE t \in Task
  <2>2. book[t] \in Book
    BY <2>1
  <2> QED
    BY <2>1, <2>2 DEF Book
<1>2. TypeOK'
  BY <1>1 DEF OperatorReconciles, IInv, TypeOK, Running, Frame
<1>3. FenceSound'
  BY BlankTyped DEF OperatorReconciles, IInv, Core, FenceSound, Mine, TypeOK
<1>4. LiveSound'
  BY BlankTyped DEF OperatorReconciles, IInv, Core, FenceSound, Mine, LiveSound,
     OneWorker, LateMutation, TypeOK
<1>5. BillSound'
  BY BlankTyped DEF OperatorReconciles, IInv, Core, FenceSound, Mine, BillSound, TypeOK
<1> QED
  BY <1>2, <1>3, <1>4, <1>5 DEF IInv, Core

-----------------------------------------------------------------------------
(* The theorems *)

\* The fence, the holds and the workers stay in step: the invariant holds
\* initially and every action of the conductor, of a worker, of the operator
\* and of a crash preserves it.
THEOREM ConductorCorrect == Spec => []IInv
<1>1. Init => IInv
  <2> SUFFICES ASSUME Init PROVE IInv
    OBVIOUS
  <2>1. TypeOK
    BY BlankTyped DEF Init, TypeOK
  <2>2. Core
    BY DEF Init, Core, FenceSound, LiveSound, BillSound, OneWorker
  <2> QED
    BY <2>1, <2>2 DEF IInv
<1>2. IInv /\ [Next]_vars => IInv'
  <2> SUFFICES ASSUME IInv, [Next]_vars PROVE IInv'
    OBVIOUS
  <2>1. CASE UNCHANGED vars
    <3>1. TypeOK'
      BY <2>1 DEF IInv, TypeOK, vars
    <3>2. Core'
      BY <2>1 DEF IInv, Core, FenceSound, LiveSound, BillSound, OneWorker, Mine,
         LateMutation, vars
    <3> QED
      BY <3>1, <3>2 DEF IInv
  <2>2. ASSUME NEW t \in Task, Start(t) PROVE IInv'
    BY <2>2, EndingSteps, StartUnresolvedSound, StartEpochSound, ResumeSound DEF Start
  <2>3. CASE Attempt
    <3>1. pc # "idle" /\ cur \in Task
      BY <2>3 DEF Attempt, Stop, Refuse, Exhausted, RecordAttempt, PreflightFails,
         TakeFence, FenceRefused, ProjectionFails, Dispatch, IInv, TypeOK
    <3> QED
      BY <2>3, <3>1, EndingSteps, RecordAttemptSound, PreflightFailsSound, TakeFenceSound,
         ProjectionFailsSound, DispatchSound DEF Attempt
  <2>4. CASE Wait \/ TimeOut \/ NotCancelled
    BY <2>4, RunAnswersSound, RunUncertainSound, TimeOutSound, CancelledSound,
       NotCancelledSound DEF Wait
  <2>5. CASE Settle
    <3>1. pc # "idle" /\ cur \in Task
      BY <2>5 DEF Settle, RecordResult, WriteHold, HoldFails, Escalate, BlockLate,
         MayRelease, NothingToRelease, DropProjection, DropFence, ReleaseFails, CostStops,
         Retry, SameFailure, AttemptFailed, Verify, RecordVerdict, Conclude, IInv, TypeOK
    <3> QED
      BY <2>5, <3>1, EndingSteps, RecordResultSound, WriteHoldSound,
         NothingToReleaseSound, DropProjectionSound, DropFenceSound, RetrySound, VerifySound,
         RecordVerdictSound DEF Settle
  <2>6. CASE Crash
    <3>1. cur \in Task
      BY <2>6 DEF Crash, IInv, TypeOK
    <3> QED
      BY <2>6, <3>1, EndingSteps
  <2>7. CASE OutsideCommit \/ GitClean \/ OperatorReconciles
    BY <2>7, OutsideCommitSound, GitCleanSound, OperatorReconcilesSound
  <2>8. ASSUME NEW x \in live, WorkerCommits(x) \/ OrphanEnds(x) PROVE IInv'
    BY <2>8, WorkerCommitsSound, OrphanEndsSound
  <2> QED
    BY <2>1, <2>2, <2>3, <2>4, <2>5, <2>6, <2>7, <2>8 DEF Next
<1> QED
  BY <1>1, <1>2, PTL DEF Spec

\* The records in the ledger, the markers in the Git directory and the locals
\* keep their types.
THEOREM ConductorTypeCorrect == Spec => []TypeOK
<1>1. IInv => TypeOK
  BY DEF IInv
<1> QED
  BY <1>1, ConductorCorrect, PTL

\* Two workers never write at a time, and what a worker does after its time is
\* reviewed before anything is decided on top of it: the quarantine of
\* conductor.ts does what the protocol document promises.
THEOREM FencesHold == Spec => []WorkersAreFenced
<1>1. IInv => WorkersAreFenced
  BY DEF IInv, Core, FenceSound, LiveSound, LateWorkReviewed, WorkersAreFenced
<1> QED
  BY <1>1, ConductorCorrect, PTL

\* No retry, resume, restart or clean checkout buys another worker for a task
\* whose last bill nobody looked at.
THEOREM BillsStopTasks == Spec => []BillStopsTask
<1>1. IInv => BillStopsTask
  BY DEF IInv, Core, BillSound, BillStopsTask
<1> QED
  BY <1>1, ConductorCorrect, PTL

-----------------------------------------------------------------------------
(***************************************************************************)
(* The outer loop of the daemon (Autopilot).  A cycle that works on a      *)
(* problem has its GOAL on disk unless an operator took it away, and one   *)
(* that looks for a problem started without one, so that no other problem  *)
(* is in progress when a GOAL is written over the file, but for those      *)
(* whose settlement the ledger swallowed.                                  *)
(***************************************************************************)
Statuses == {"unseen", "open", "in-progress", "fixed", "deferred"}
OnCase == {"marking", "notifying", "entering", "resuming", "surveying", "planning", "working",
           "checking", "evaluating", "auditing", "supplementing", "closing", "removing"}

CycleInv ==
    /\ problems \in [Problems -> Statuses]
    /\ place \in {"discovering", "authoring"} => goal \notin Problems
    /\ place \in OnCase /\ case \in Problems => goal = case \/ touched
    /\ place = "removing" => case \in Problems /\ (problems[case] # "in-progress" \/ case \in lost)
    /\ place = "closing" /\ result = "achieved" => verified
    /\ Au!InProgressHasGoal

LEMMA CycleInit == ASSUME Nothing \notin Problems, Au!Init PROVE CycleInv
  BY DEF Au!Init, CycleInv, Statuses, OnCase, Au!InProgressHasGoal

\* Steps before a session, and those that end a cycle: the ledger changes.
LEMMA BeforeSession ==
  ASSUME Nothing \notin Problems, CycleInv,
         \/ Au!StartCycle \/ Au!DiscoverNothing \/ Au!AuthorNothing \/ Au!MarkInProgress \/ Au!Arm
         \/ \E found, written \in SUBSET Problems : Au!Discover(found, written)
         \/ \E p \in Problems, rejected \in SUBSET Problems : Au!WriteGoal(p, rejected)
  PROVE  CycleInv'
<1> USE DEF CycleInv, Statuses, OnCase, Au!InProgressHasGoal, Au!Go
<1>1. CASE Au!StartCycle
  BY <1>1 DEF Au!StartCycle, Au!env, Au!disk, Au!session
<1>2. CASE Au!DiscoverNothing
  BY <1>2 DEF Au!DiscoverNothing, Au!Settle, Au!Rest, Au!env
<1>3. CASE Au!AuthorNothing
  BY <1>3 DEF Au!AuthorNothing, Au!Settle, Au!Rest, Au!Mark, Au!env
<1>4. CASE Au!MarkInProgress
  BY <1>4 DEF Au!MarkInProgress, Au!Mark, Au!env, Au!session
<1>5. CASE Au!Arm
  BY <1>5 DEF Au!Arm, Au!env, Au!session
<1>6. ASSUME NEW found \in SUBSET Problems, NEW written \in SUBSET Problems,
             Au!Discover(found, written)
      PROVE  CycleInv'
  <2>1. /\ problems' = [p \in Problems |-> IF p \in written /\ problems[p] = "unseen" THEN "open"
                                            ELSE problems[p]]
        /\ place' \in {"idle", "authoring"} /\ place = "discovering" /\ UNCHANGED <<goal, touched, lost>>
    BY <1>6 DEF Au!Discover, Au!Settle, Au!Rest, Au!env
  <2> QED BY <2>1
<1>7. ASSUME NEW p \in Problems, NEW rejected \in SUBSET Problems, Au!WriteGoal(p, rejected)
      PROVE  CycleInv'
  BY <1>7 DEF Au!WriteGoal, Au!Mark, Au!env
<1> QED
  BY <1>1, <1>2, <1>3, <1>4, <1>5, <1>6, <1>7

LEMMA InSession ==
  ASSUME CycleInv,
         \/ \E r \in {"ready", "survey", "blocked", "stuck"} : Au!Enter(r)
         \/ Au!Survey \/ Au!Killed \/ \E kind \in {"tasks", "achieved", "stuck", "retryable"} : Au!Plan(kind)
         \/ Au!MergeTask \/ \E deferred \in BOOLEAN : Au!RunEnds(deferred)
         \/ \E ok \in BOOLEAN, s \in 0 .. MaxScore : Au!Evaluate(ok, s)
         \/ \E verdict \in {"clean", "gaps", "retryable", "red", "invalid"} : Au!Audit(verdict)
         \/ \E merged \in BOOLEAN : Au!Supplement(merged)
  PROVE  CycleInv'
<1>1. UNCHANGED <<problems, goal, touched, case, lost>>
  BY DEF Au!Enter, Au!Survey, Au!Killed, Au!Plan, Au!MergeTask, Au!RunEnds, Au!Evaluate, Au!Audit,
         Au!Supplement, Au!env, Au!disk, Au!cycle
<1>2. place \in OnCase /\ place' \in OnCase \ {"removing"}
  <2> USE DEF OnCase, Au!Go, Au!End
  <2>1. CASE \E r \in {"ready", "survey", "blocked", "stuck"} : Au!Enter(r)
    BY <2>1 DEF Au!Enter
  <2>2. CASE Au!Survey \/ Au!Killed \/ \E deferred \in BOOLEAN : Au!RunEnds(deferred)
    BY <2>2 DEF Au!Survey, Au!Killed, Au!RunEnds
  <2>3. CASE \E kind \in {"tasks", "achieved", "stuck", "retryable"} : Au!Plan(kind)
    BY <2>3 DEF Au!Plan
  <2>4. CASE Au!MergeTask \/ \E merged \in BOOLEAN : Au!Supplement(merged)
    BY <2>4 DEF Au!MergeTask, Au!Supplement, Au!cycle
  <2>5. CASE \E ok \in BOOLEAN, s \in 0 .. MaxScore : Au!Evaluate(ok, s)
    BY <2>5 DEF Au!Evaluate, Au!NextRound
  <2>6. CASE \E verdict \in {"clean", "gaps", "retryable", "red", "invalid"} : Au!Audit(verdict)
    BY <2>6 DEF Au!Audit
  <2> QED BY <2>1, <2>2, <2>3, <2>4, <2>5, <2>6
<1>3. place' = "closing" /\ result' = "achieved" => verified'
  <2> USE DEF Au!Go, Au!End
  <2>1. CASE \E r \in {"ready", "survey", "blocked", "stuck"} : Au!Enter(r)
    BY <2>1 DEF Au!Enter
  <2>2. CASE Au!Survey \/ Au!Killed \/ \E deferred \in BOOLEAN : Au!RunEnds(deferred)
    BY <2>2 DEF Au!Survey, Au!Killed, Au!RunEnds
  <2>3. CASE \E kind \in {"tasks", "achieved", "stuck", "retryable"} : Au!Plan(kind)
    BY <2>3 DEF Au!Plan
  <2>4. CASE Au!MergeTask \/ \E merged \in BOOLEAN : Au!Supplement(merged)
    BY <2>4 DEF Au!MergeTask, Au!Supplement, Au!cycle
  <2>5. CASE \E ok \in BOOLEAN, s \in 0 .. MaxScore : Au!Evaluate(ok, s)
    BY <2>5 DEF Au!Evaluate, Au!NextRound
  <2>6. CASE \E verdict \in {"clean", "gaps", "retryable", "red", "invalid"} : Au!Audit(verdict)
    BY <2>6 DEF Au!Audit
  <2> QED BY <2>1, <2>2, <2>3, <2>4, <2>5, <2>6
<1> QED
  BY <1>1, <1>2, <1>3 DEF CycleInv, OnCase, Au!InProgressHasGoal

LEMMA CycleEnding ==
  ASSUME CycleInv, Au!Close \/ Au!RemoveGoal \/ Au!CloseBlocked \/ Au!CloseManual \/ Au!LeaveOpen \/ Au!NotRun
  PROVE  CycleInv'
<1> USE DEF CycleInv, Statuses, OnCase, Au!InProgressHasGoal, Au!Go
<1>1. CASE Au!Close
  BY <1>1 DEF Au!Close, Au!Settles, Au!Mark, Au!env
<1>2. CASE Au!RemoveGoal
  BY <1>2 DEF Au!RemoveGoal, Au!Settle, Au!Rest, Au!env
<1>3. CASE Au!CloseBlocked
  BY <1>3 DEF Au!CloseBlocked, Au!Mark, Au!Settle, Au!Rest, Au!env
<1>4. CASE Au!CloseManual \/ Au!LeaveOpen \/ Au!NotRun
  BY <1>4 DEF Au!CloseManual, Au!LeaveOpen, Au!NotRun, Au!Settle, Au!Rest, Au!env, Au!disk
<1> QED
  BY <1>1, <1>2, <1>3, <1>4

LEMMA CycleStep == ASSUME Nothing \notin Problems, Manual \notin Problems, CycleInv, [Au!Next]_(Au!vars)
                   PROVE  CycleInv'
<1>1. CASE Au!Cycle
  BY <1>1, BeforeSession, InSession, CycleEnding DEF Au!Cycle
<1> USE DEF CycleInv, Statuses, OnCase, Au!InProgressHasGoal
<1>2. CASE \/ Au!Tick \/ Au!Halt \/ Au!OtherSession \/ Au!LedgerFails \/ Au!LedgerRecovers
           \/ UNCHANGED Au!vars
  BY <1>2 DEF Au!Tick, Au!Halt, Au!OtherSession, Au!LedgerFails, Au!LedgerRecovers, Au!vars, Au!env, Au!disk, Au!cycle, Au!session
<1>3. CASE Au!Crash
  BY <1>3 DEF Au!Crash, Au!Rest, Au!Go, Au!disk
<1>4. CASE \E g \in {Nothing, Manual} : Au!OperatorSets(g)
  <2>1. PICK g \in {Nothing, Manual} : Au!OperatorSets(g)
    BY <1>4
  <2>2. goal' \notin Problems /\ UNCHANGED <<problems, place, case, result, verified, lost>>
    BY <2>1 DEF Au!OperatorSets, Au!cycle, Au!session
  <2>3. touched \/ goal \in Problems => touched'
    BY <2>1 DEF Au!OperatorSets
  <2> QED BY <2>2, <2>3
<1> QED
  BY <1>1, <1>2, <1>3, <1>4 DEF Au!Next

\* A problem becomes fixed only in Close, by a session that ended verified.
LEMMA FixedStep ==
  ASSUME CycleInv, [Au!Next]_(Au!vars)
  PROVE  [\A p \in Problems : problems'[p] = "fixed" /\ problems[p] # "fixed" => verified]_(Au!vars)
<1> SUFFICES ASSUME Au!Next, NEW p \in Problems, problems'[p] = "fixed", problems[p] # "fixed"
             PROVE  verified
  OBVIOUS
<1>1. CASE Au!Close
  BY <1>1 DEF Au!Close, Au!Settles, Au!Mark, CycleInv
<1>2. CASE problems' = problems
  BY <1>2
<1>3. CASE Au!MarkInProgress \/ Au!CloseBlocked
  BY <1>3 DEF Au!MarkInProgress, Au!CloseBlocked, Au!Mark, CycleInv
<1>4. CASE Au!AuthorNothing \/ \E q \in Problems, rejected \in SUBSET Problems : Au!WriteGoal(q, rejected)
  BY <1>4 DEF Au!AuthorNothing, Au!WriteGoal, Au!Mark, CycleInv
<1>5. CASE \E found, written \in SUBSET Problems : Au!Discover(found, written)
  BY <1>5 DEF Au!Discover, CycleInv
<1> QED
  <2>1. CASE Au!Cycle
    BY <1>1, <1>2, <1>3, <1>4, <1>5, <2>1 DEF Au!Cycle, Au!StartCycle, Au!DiscoverNothing, Au!Arm,
       Au!NotRun, Au!Enter, Au!Survey, Au!Killed, Au!Plan, Au!MergeTask, Au!RunEnds, Au!Evaluate, Au!Audit,
       Au!Supplement, Au!RemoveGoal, Au!CloseManual, Au!LeaveOpen, Au!disk
  <2>2. CASE ~Au!Cycle
    BY <1>2, <2>2 DEF Au!Next, Au!Tick, Au!Halt, Au!OtherSession, Au!LedgerFails,
       Au!LedgerRecovers, Au!Crash, Au!OperatorSets, Au!disk
  <2> QED BY <2>1, <2>2

\* What the ledger says of a problem is so: in progress has its GOAL, unless its settlement
\* was swallowed or an operator took the GOAL, and fixed was verified, also while the ledger
\* fails (runBody, closeout, ProblemsLedger.safe, verifyAndSupplement).
THEOREM LedgerStaysTrue == BothSpec => LedgerIsTrue
<1>1. Nothing \notin Problems /\ Manual \notin Problems
  BY LoopAssumption DEF Au!AutopilotAssumption
<1>2. BothInit => CycleInv
  BY <1>1, CycleInit DEF BothInit
<1>3. [BothNext]_allVars => [Au!Next]_(Au!vars)
  BY DEF BothNext, allVars, auVars, Au!vars, Au!env, Au!disk, Au!cycle, Au!session
<1>4. CycleInv /\ [Au!Next]_(Au!vars) => CycleInv'
  BY <1>1, CycleStep
<1>5. CycleInv => Au!InProgressHasGoal
  BY DEF CycleInv
<1> QED
  BY <1>2, <1>3, <1>4, <1>5, FixedStep, PTL
  DEF BothSpec, LedgerIsTrue, Au!LedgerIsTrue, Au!FixedIsVerified

-----------------------------------------------------------------------------
(***************************************************************************)
(* The price of a discovery.  What this process has paid for last is in    *)
(* the state file, unless the cycle that paid for it has still to arm the  *)
(* cooldown; and no cycle saves a time before it.                          *)
(***************************************************************************)
Unarmed == {"discovering", "authoring", "marking", "notifying"}

SpacedInv ==
    /\ moment \in Nat /\ began \in Nat
    /\ last # Nothing => last \in Nat
    /\ discovered # Nothing =>
        /\ discovered \in Nat /\ discovered <= moment
        /\ place # "idle" => discovered <= began
        /\ IF place \in Unarmed THEN began = discovered ELSE last # Nothing /\ discovered <= last

\* Only the start of a cycle pays, and not while the cooldown runs.
LEMMA SpacedStart ==
  ASSUME Au!AutopilotAssumption, SpacedInv, Au!StartCycle
  PROVE  /\ SpacedInv'
         /\ place' = "discovering" => discovered = Nothing \/ moment - discovered >= Cooldown
<1>1. Nothing \notin Nat /\ Manual # Nothing /\ Cooldown \in Nat
  BY DEF Au!AutopilotAssumption
<1>2. SpacedInv'
  BY <1>1 DEF Au!StartCycle, Au!Go, Au!env, Au!disk, SpacedInv, Unarmed
<1>3. place' = "discovering" => goal = Nothing
  BY DEF Au!StartCycle, Au!Go
<1>4. goal = Nothing => last = Nothing \/ ~(moment - last < Cooldown)
  BY <1>1 DEF Au!StartCycle, Au!Cooling
<1> QED
  BY <1>1, <1>2, <1>3, <1>4 DEF Au!StartCycle, SpacedInv, Unarmed

\* A step that saves a time saves that of the cycle, or the present one when the cooldown
\* is armed before the session.
LEMMA SpacedCycle ==
  ASSUME Au!AutopilotAssumption, SpacedInv, Au!Cycle, ~Au!StartCycle
  PROVE  SpacedInv' /\ place' # "discovering"
<1> USE DEF Au!Go, Unarmed
<1>0. Nothing \notin Nat
  BY DEF Au!AutopilotAssumption
<1>1. moment' = moment /\ discovered' = discovered /\ place # "idle"
  BY DEF Au!Cycle, Au!DiscoverNothing, Au!AuthorNothing, Au!MarkInProgress, Au!Arm, Au!Discover,
     Au!WriteGoal, Au!NotRun, Au!Enter, Au!Survey, Au!Killed, Au!Plan, Au!MergeTask, Au!RunEnds, Au!Evaluate,
     Au!Audit, Au!Supplement, Au!Close, Au!RemoveGoal, Au!CloseBlocked, Au!CloseManual,
     Au!LeaveOpen, Au!env
<1>2. CASE Au!Settle(began)
  BY <1>0, <1>1, <1>2 DEF Au!Settle, Au!Rest, SpacedInv
<1>3. CASE Au!Arm
  BY <1>0, <1>1, <1>3 DEF Au!Arm, SpacedInv
<1>4. CASE Au!Rest /\ last' = last /\ place \notin Unarmed
  BY <1>1, <1>4 DEF Au!Rest, SpacedInv
<1>5. CASE /\ last' = last /\ began' = began /\ place' \notin {"idle", "discovering"}
           /\ place \in Unarmed <=> place' \in Unarmed
  BY <1>1, <1>5 DEF SpacedInv
<1>6. Au!DiscoverNothing \/ Au!AuthorNothing \/ Au!RemoveGoal \/ Au!CloseBlocked \/ Au!CloseManual
         => Au!Settle(began)
  BY DEF Au!DiscoverNothing, Au!AuthorNothing, Au!RemoveGoal, Au!CloseBlocked, Au!CloseManual
<1>7. Au!NotRun \/ Au!LeaveOpen => Au!Rest /\ last' = last /\ place \notin Unarmed
  BY DEF Au!NotRun, Au!LeaveOpen, Au!disk
<1>8. ASSUME NEW found, NEW written, Au!Discover(found, written) PROVE SpacedInv' /\ place' # "discovering"
  <2>1. Au!Settle(began) \/ /\ last' = last /\ began' = began /\ place' = "authoring"
                            /\ place = "discovering"
    BY <1>8 DEF Au!Discover
  <2> QED BY <2>1, <1>2, <1>5 DEF Au!Settle, Au!Rest
<1>9. ASSUME \/ Au!MarkInProgress \/ Au!Close
             \/ \E p \in Problems, rejected \in SUBSET Problems : Au!WriteGoal(p, rejected)
      PROVE  SpacedInv' /\ place' # "discovering"
  BY <1>9, <1>5 DEF Au!MarkInProgress, Au!Close, Au!WriteGoal
<1>10. ASSUME \/ \E r \in {"ready", "survey", "blocked", "stuck"} : Au!Enter(r)
              \/ Au!Survey \/ Au!Killed \/ \E kind \in {"tasks", "achieved", "stuck", "retryable"} : Au!Plan(kind)
              \/ Au!MergeTask \/ \E deferred \in BOOLEAN : Au!RunEnds(deferred)
              \/ \E ok \in BOOLEAN, s \in 0 .. MaxScore : Au!Evaluate(ok, s)
              \/ \E verdict \in {"clean", "gaps", "retryable", "red", "invalid"} : Au!Audit(verdict)
              \/ \E merged \in BOOLEAN : Au!Supplement(merged)
       PROVE  SpacedInv' /\ place' # "discovering"
  <2>1. /\ last' = last /\ began' = began
        /\ place \notin Unarmed /\ place' \notin Unarmed \cup {"idle"}
    <3> USE DEF Au!End
    <3>1. CASE \E r \in {"ready", "survey", "blocked", "stuck"} : Au!Enter(r)
      BY <3>1 DEF Au!Enter, Au!disk
    <3>2. CASE Au!Survey \/ Au!Killed \/ \E deferred \in BOOLEAN : Au!RunEnds(deferred)
      BY <3>2 DEF Au!Survey, Au!Killed, Au!RunEnds, Au!disk
    <3>3. CASE \E kind \in {"tasks", "achieved", "stuck", "retryable"} : Au!Plan(kind)
      BY <3>3 DEF Au!Plan, Au!disk
    <3>4. CASE Au!MergeTask \/ \E merged \in BOOLEAN : Au!Supplement(merged)
      BY <3>4 DEF Au!MergeTask, Au!Supplement, Au!disk, Au!cycle
    <3>5. CASE \E ok \in BOOLEAN, s \in 0 .. MaxScore : Au!Evaluate(ok, s)
      BY <3>5 DEF Au!Evaluate, Au!NextRound, Au!disk
    <3>6. CASE \E verdict \in {"clean", "gaps", "retryable", "red", "invalid"} : Au!Audit(verdict)
      BY <3>6 DEF Au!Audit, Au!disk
    <3> QED BY <1>10, <3>1, <3>2, <3>3, <3>4, <3>5, <3>6
  <2> QED BY <2>1, <1>5
<1> QED
  <2>1. Au!Settle(began) \/ Au!Rest => place' # "discovering"
    BY DEF Au!Settle, Au!Rest
  <2>2. Au!Arm => place' # "discovering"
    BY DEF Au!Arm
  <2> QED
    BY <1>2, <1>3, <1>4, <1>6, <1>7, <1>8, <1>9, <1>10, <2>1, <2>2 DEF Au!Cycle

LEMMA SpacedStep ==
  ASSUME Au!AutopilotAssumption, SpacedInv, [Au!Next]_(Au!vars)
  PROVE  /\ SpacedInv'
         /\ place = "idle" /\ place' = "discovering" =>
                discovered = Nothing \/ moment - discovered >= Cooldown
<1>1. CASE Au!Cycle
  BY <1>1, SpacedStart, SpacedCycle
<1>2. CASE Au!Tick
  BY <1>2 DEF Au!Tick, Au!disk, Au!cycle, SpacedInv
<1>3. CASE \/ Au!Halt \/ Au!OtherSession \/ Au!LedgerFails \/ Au!LedgerRecovers
           \/ (\E g \in {Nothing, Manual} : Au!OperatorSets(g)) \/ UNCHANGED Au!vars
  <2>1. UNCHANGED <<moment, began, last, discovered, place>>
    BY <1>3 DEF Au!Halt, Au!OtherSession, Au!LedgerFails, Au!LedgerRecovers, Au!OperatorSets, Au!vars, Au!env, Au!disk, Au!cycle
  <2> QED BY <2>1 DEF SpacedInv
<1>4. CASE Au!Crash
  BY <1>4 DEF Au!Crash, Au!Rest, Au!Go, Au!disk, SpacedInv
<1> QED
  BY <1>1, <1>2, <1>3, <1>4 DEF Au!Next

\* The cycles of one process never pay for two discoveries of their own less than the
\* cooldown apart: not after a discovery that found nothing or threw, a GOAL nobody could
\* write, a session that did not run, nor with a manual GOAL in between (runPerpetualCycle).
\* What a session that resumes a GOAL surveys for itself is not spaced by anything
\* (session.ts:110), and is not spoken of here.
THEOREM DiscoveriesAreSpaced == Au!Spec => Au!DiscoverySpaced
<1>1. Au!Init => SpacedInv
  BY DEF Au!Init, SpacedInv
<1>2. SpacedInv /\ [Au!Next]_(Au!vars) => SpacedInv'
  BY SpacedStep, LoopAssumption
<1>3. SpacedInv /\ [Au!Next]_(Au!vars) =>
        [place = "idle" /\ place' = "discovering" =>
            discovered = Nothing \/ moment - discovered >= Cooldown]_(Au!vars)
  BY SpacedStep, LoopAssumption
<1> QED
  BY <1>1, <1>2, <1>3, PTL DEF Au!Spec, Au!DiscoverySpaced

-----------------------------------------------------------------------------
(***************************************************************************)
(* The regression suite in shards.  A round begins on the reviewed head,   *)
(* and when it has been on anything else it is not on that head now, or    *)
(* something was undone.  A receipt that is complete has two rounds of     *)
(* what was selected, each on the reviewed head but for what was undone,   *)
(* and what is selected for two shards is disjoint.                        *)
(***************************************************************************)
Checkouts == [head : DOMAIN Suites, clean : BOOLEAN]
Real(x, h) == x.on = {Ci!Reviewed(h)} \/ x.undone
RoundsFor(selected, h) ==
    {x \in [specs : {selected}, skipped : BOOLEAN, on : SUBSET Checkouts, undone : BOOLEAN] : Real(x, h)}

RoundsOf(r) ==
    /\ r = [id |-> r.id, shard |-> r.shard, selected |-> r.selected, rounds |-> r.rounds,
            failed |-> r.failed, complete |-> r.complete]
    /\ r.shard \in Ci!Shards
    /\ r.complete => ~r.failed /\ Len(r.rounds) = 2
    /\ ~r.failed => r.rounds \in Seq(RoundsFor(r.selected, r.id.head))

SuiteInv ==
    /\ id \in [run : Nat, attempt : Nat, head : DOMAIN Suites]
    /\ job \in 0 .. CI_SHARDS
    /\ phase \in {"ready", "round", "running", "seal", "over", "done"}
    /\ checkout \in Checkouts /\ seen \in SUBSET Checkouts /\ undone \in BOOLEAN
    /\ phase = "running" /\ job # Ci!Local =>
         seen = {Ci!Reviewed(id.head)} \/ undone \/ ~Ci!AssertCheckout
    /\ child \in BOOLEAN /\ (child => phase \in {"seal", "over", "done"})
    /\ job = Ci!Local \/ phase = "ready" => receipt = Ci!Absent
    /\ phase \in {"round", "running", "seal"} /\ job # Ci!Local =>
         receipt # Ci!Absent /\ ~receipt.complete
    /\ receipt # Ci!Absent => RoundsOf(receipt) /\ receipt.id = id /\ receipt.shard = job
    /\ \A r \in uploaded :
         /\ r.shard \in Ci!Shards
         /\ r.complete => RoundsOf(r)

LEMMA SuiteInit == ASSUME Ci!SuiteShardsAssumption, Ci!Init PROVE SuiteInv
<1>1. job \in 0 .. CI_SHARDS /\ id \in [run : Nat, attempt : Nat, head : DOMAIN Suites]
  BY DEF Ci!SuiteShardsAssumption, Ci!Init, Ci!Local
<1>2. phase = "ready" /\ child = FALSE /\ receipt = Ci!Absent /\ uploaded = {}
  BY DEF Ci!Init
<1>3. checkout \in Checkouts /\ seen = {} /\ undone = FALSE
  BY DEF Ci!SuiteShardsAssumption, Ci!Init, Ci!Reviewed, Checkouts
<1> QED
  BY <1>1, <1>2, <1>3 DEF SuiteInv

LEMMA DiscoverKeeps ==
  ASSUME SuiteInv, Ci!Discover
  PROVE  SuiteInv'
<1> USE DEF SuiteInv, Ci!Discover, Ci!At, Ci!Writes, Ci!Local, Ci!Absent
<1>1. CASE phase' = "over" /\ UNCHANGED <<receipt, lap>>
  BY <1>1
<1>2. CASE Ci!Writes([id |-> id, shard |-> job, selected |-> Ci!Part(id.head, job),
                      rounds |-> << >>, failed |-> FALSE, complete |-> FALSE]) /\ phase' = "round"
  <2>1. RoundsOf(receipt')
    BY <1>2 DEF RoundsOf, Ci!Shards
  <2>2. receipt' # << >>
    BY <1>2
  <2> QED BY <1>2, <2>1, <2>2
<1> QED BY <1>1, <1>2

LEMMA RoundKeeps ==
  ASSUME SuiteInv, Ci!EndRound
  PROVE  SuiteInv'
<1> USE DEF SuiteInv
<1>1. PICK exit \in Ci!Exits, specs \in {receipt.selected, {}, Ci!Specs(id.head)}, skipped \in BOOLEAN :
         LET r == Ci!Report(specs, skipped) IN
         /\ Ci!Writes([receipt EXCEPT
              !.rounds = IF exit = "0" /\ Ci!Valid(r) THEN Append(@, r) ELSE @,
              !.failed = @ \/ ~(exit = "0" /\ Ci!Valid(r) /\ Ci!AssertCheckout)])
         /\ Ci!Child(exit) /\ Ci!NextRound(exit)
  BY DEF Ci!EndRound
<1> DEFINE R == Ci!Report(specs, skipped)
           Fine == exit = "0" /\ Ci!Valid(R) /\ Ci!AssertCheckout
<1>2. /\ phase = "running" /\ job # Ci!Local /\ UNCHANGED <<id, job, left, runs>>
      /\ UNCHANGED <<checkout, uploaded, changes>> /\ seen' = {} /\ undone' = FALSE
  BY DEF Ci!EndRound, Ci!At
<1>3. RoundsOf(receipt) /\ receipt.id = id /\ receipt.shard = job /\ ~receipt.complete
  BY <1>2
<1>a. receipt' = [receipt EXCEPT
        !.rounds = IF exit = "0" /\ Ci!Valid(R) THEN Append(@, R) ELSE @,
        !.failed = @ \/ ~Fine]
  BY <1>1 DEF Ci!Writes
<1>4. /\ receipt'.id = id /\ receipt'.shard = job /\ receipt'.selected = receipt.selected
      /\ receipt'.complete = FALSE /\ receipt'.failed = (receipt.failed \/ ~Fine)
      /\ receipt'.rounds = IF exit = "0" /\ Ci!Valid(R) THEN Append(receipt.rounds, R) ELSE receipt.rounds
      /\ receipt' = [id |-> receipt'.id, shard |-> receipt'.shard, selected |-> receipt'.selected,
                     rounds |-> receipt'.rounds, failed |-> receipt'.failed, complete |-> receipt'.complete]
  <2> HIDE DEF SuiteInv, Fine
  <2> DEFINE Rounds == IF exit = "0" /\ Ci!Valid(R) THEN Append(receipt.rounds, R) ELSE receipt.rounds
  <2>1. receipt' = [receipt EXCEPT !.rounds = Rounds, !.failed = receipt.failed \/ ~Fine]
    BY <1>a
  <2> HIDE DEF Rounds
  <2>2. receipt = [id |-> receipt.id, shard |-> receipt.shard, selected |-> receipt.selected,
                   rounds |-> receipt.rounds, failed |-> receipt.failed, complete |-> receipt.complete]
    BY <1>3 DEF RoundsOf
  <2>3. receipt' = [id |-> receipt.id, shard |-> receipt.shard, selected |-> receipt.selected,
                    rounds |-> Rounds, failed |-> (receipt.failed \/ ~Fine), complete |-> receipt.complete]
    BY <2>1, <2>2
  <2> QED BY <2>3, <1>3 DEF Rounds
<1>5. RoundsOf(receipt')
  <2>1. ASSUME ~receipt'.failed
        PROVE  receipt'.rounds \in Seq(RoundsFor(receipt.selected, id.head))
    <3>1. ~receipt.failed /\ exit = "0" /\ Ci!Valid(R) /\ Ci!AssertCheckout
      BY <1>4, <2>1
    <3>2. R = [specs |-> receipt.selected, skipped |-> skipped, on |-> seen, undone |-> undone]
      BY <3>1 DEF Ci!Valid, Ci!Report
    <3>3. seen \in SUBSET Checkouts /\ undone \in BOOLEAN /\ (seen = {Ci!Reviewed(id.head)} \/ undone)
      BY <1>2, <3>1
    <3>4. R \in RoundsFor(receipt.selected, id.head)
      BY <3>2, <3>3 DEF RoundsFor, Real
    <3> QED BY <1>3, <1>4, <3>1, <3>4 DEF RoundsOf
  <2>2. receipt'.selected = receipt.selected /\ receipt'.id.head = id.head
    BY <1>3, <1>4
  <2> QED BY <1>3, <1>4, <2>1, <2>2 DEF RoundsOf
<1>6. /\ child' \in BOOLEAN /\ (child' => phase' = "seal") /\ phase' \in {"round", "seal"}
  BY <1>1, <1>2 DEF Ci!Child, Ci!NextRound, Ci!MayGoOn
<1>7. receipt' # Ci!Absent
  <2> HIDE DEF SuiteInv, Fine
  <2> QED BY <1>4 DEF Ci!Absent
<1> QED BY <1>2, <1>4, <1>5, <1>6, <1>7, <1>3

LEMMA SealKeeps ==
  ASSUME SuiteInv, Ci!Seal
  PROVE  SuiteInv'
<1> USE DEF SuiteInv
<1>1. phase = "seal" /\ phase' = "over" /\ UNCHANGED <<id, job, child, uploaded, checkout, seen, undone>>
  BY DEF Ci!Seal, Ci!At
<1>2. CASE job = Ci!Local
  BY <1>1, <1>2 DEF Ci!Seal
<1>3. CASE job # Ci!Local
  <2>1. receipt # Ci!Absent /\ RoundsOf(receipt) /\ receipt.id = id /\ receipt.shard = job
    BY <1>1, <1>3
  <2>2. receipt' = [receipt EXCEPT !.complete = ~receipt.failed /\ Len(receipt.rounds) = 2]
    BY <1>3 DEF Ci!Seal, Ci!Writes
  <2>a. /\ receipt'.id = id /\ receipt'.shard = job /\ receipt'.selected = receipt.selected
        /\ receipt'.rounds = receipt.rounds /\ receipt'.failed = receipt.failed
        /\ receipt'.complete = (~receipt.failed /\ Len(receipt.rounds) = 2)
        /\ receipt' = [id |-> receipt'.id, shard |-> receipt'.shard, selected |-> receipt'.selected,
                       rounds |-> receipt'.rounds, failed |-> receipt'.failed, complete |-> receipt'.complete]
    <3> HIDE DEF SuiteInv
    <3> QED BY <2>1, <2>2 DEF RoundsOf
  <2>3. RoundsOf(receipt') /\ receipt'.id = id /\ receipt'.shard = job
    <3>1. receipt'.complete => Len(receipt.rounds) = 2 /\ ~receipt.failed
      BY <2>a
    <3>2. Len(receipt'.rounds) = Len(receipt.rounds)
      BY <2>a
    <3> HIDE DEF SuiteInv
    <3>3. receipt'.selected = receipt.selected /\ receipt'.id.head = receipt.id.head
      BY <2>1, <2>a
    <3> QED BY <2>1, <2>a, <3>1, <3>2, <3>3 DEF RoundsOf
  <2> QED BY <1>1, <1>3, <2>3
<1> QED BY <1>2, <1>3

LEMMA UploadKeeps ==
  ASSUME SuiteInv, Ci!Upload
  PROVE  SuiteInv'
<1> USE DEF SuiteInv
<1>1. /\ phase = "over" /\ phase' = "done" /\ UNCHANGED <<id, job, child, receipt, checkout, seen, undone>>
      /\ uploaded' = uploaded \cup IF receipt = Ci!Absent THEN {} ELSE {Ci!Kept(receipt)}
  BY DEF Ci!Upload
<1>2. ASSUME receipt # Ci!Absent
      PROVE  LET r == Ci!Kept(receipt) IN r.shard \in Ci!Shards /\ (r.complete => RoundsOf(r))
  <2>1. CASE receipt.complete
    BY <1>2, <2>1 DEF Ci!Kept, RoundsOf
  <2>2. CASE ~receipt.complete
    <3>1. Ci!Kept(receipt).shard = receipt.shard /\ Ci!Kept(receipt).complete = receipt.complete
      BY <1>2, <2>2 DEF Ci!Kept, RoundsOf
    <3> QED BY <1>2, <2>2, <3>1 DEF RoundsOf
  <2> QED BY <2>1, <2>2
<1> QED BY <1>1, <1>2

LEMMA SuiteStep ==
  ASSUME Ci!SuiteShardsAssumption, SuiteInv, [Ci!Next]_(Ci!vars)
  PROVE  SuiteInv'
<1>1. CASE Ci!Discover
  BY <1>1, DiscoverKeeps
<1>2. CASE Ci!EndRound
  BY <1>2, RoundKeeps
<1>3. CASE Ci!Seal
  BY <1>3, SealKeeps
<1>4. CASE Ci!Upload
  BY <1>4, UploadKeeps
<1>5. CASE Ci!StartRound
  BY <1>5 DEF SuiteInv, Ci!StartRound, Ci!At, Ci!AssertCheckout
<1>6. CASE Ci!LocalStart \/ Ci!LocalEnds
  <2>1. job = Ci!Local /\ UNCHANGED <<id, job, receipt, uploaded, checkout, seen, undone>>
    BY <1>6 DEF Ci!LocalStart, Ci!LocalEnds, Ci!At
  <2>2. phase' \in {"round", "running", "seal"} /\ child' \in BOOLEAN /\ (child' => phase' = "seal")
    <3>1. CASE Ci!LocalStart
      BY <3>1 DEF SuiteInv, Ci!LocalStart
    <3>2. CASE Ci!LocalEnds
      <4>1. PICK exit \in Ci!Exits : Ci!Child(exit) /\ Ci!NextRound(exit)
        BY <3>2 DEF Ci!LocalEnds
      <4>2. phase = "running" /\ child = FALSE
        BY <3>2 DEF SuiteInv, Ci!LocalEnds, Ci!At
      <4> QED BY <4>1, <4>2 DEF Ci!Child, Ci!NextRound, Ci!MayGoOn
    <3> QED BY <1>6, <3>1, <3>2
  <2> QED BY <2>1, <2>2 DEF SuiteInv
<1>7. CASE Ci!Dies \/ UNCHANGED Ci!vars
  BY <1>7 DEF SuiteInv, Ci!Dies, Ci!vars, Ci!AssertCheckout
<1>9. CASE Ci!Disturb \/ Ci!Undo
  <2>1. /\ UNCHANGED <<id, job, phase, child, receipt, uploaded>>
        /\ seen' = IF phase = "running" /\ job # Ci!Local THEN seen \cup {checkout'} ELSE seen
        /\ \/ checkout' # Ci!Reviewed(id.head) /\ undone' = undone
           \/ undone' = (undone \/ phase = "running")
    BY <1>9 DEF Ci!Disturb, Ci!Undo, Ci!Sees
  <2>2. checkout' \in Checkouts
    <3>1. checkout \in Checkouts /\ id.head \in DOMAIN Suites
      BY DEF SuiteInv
    <3>2. CASE Ci!Undo
      BY <3>1, <3>2 DEF Ci!Undo, Ci!Reviewed, Checkouts
    <3>3. CASE Ci!Disturb
      <4>1. \/ checkout' = [checkout EXCEPT !.clean = FALSE]
            \/ \E h \in DOMAIN Suites : checkout' = [checkout EXCEPT !.head = h]
        BY <3>3 DEF Ci!Disturb
      <4> QED BY <3>1, <4>1 DEF Checkouts
    <3> QED BY <1>9, <3>2, <3>3
  <2> QED BY <2>1, <2>2 DEF SuiteInv, Ci!AssertCheckout
<1>8. CASE Ci!NextJob \/ Ci!Rerun
  <2>1. job' \in 0 .. CI_SHARDS /\ id' \in [run : Nat, attempt : Nat, head : DOMAIN Suites]
    <3>1. CASE Ci!NextJob
      BY <3>1 DEF SuiteInv, Ci!NextJob, Ci!SuiteShardsAssumption
    <3>2. CASE Ci!Rerun
      <4>1. job' = 1 /\ 1 \in 0 .. CI_SHARDS
        BY <3>2 DEF Ci!Rerun, Ci!SuiteShardsAssumption
      <4>2. id' = [id EXCEPT !.attempt = @ + 1]
              \/ id' = [run |-> id.run + 1, attempt |-> 1, head |-> 2]
        BY <3>2 DEF Ci!Rerun
      <4>3. id \in [run : Nat, attempt : Nat, head : DOMAIN Suites] /\ 2 \in DOMAIN Suites
        BY DEF SuiteInv, Ci!SuiteShardsAssumption
      <4>a. id.attempt + 1 \in Nat /\ id.run + 1 \in Nat /\ 1 \in Nat
        BY <4>3
      <4>4. CASE id' = [id EXCEPT !.attempt = @ + 1]
        BY <4>1, <4>a, <4>3, <4>4
      <4>5. CASE id' = [run |-> id.run + 1, attempt |-> 1, head |-> 2]
        BY <4>1, <4>a, <4>3, <4>5
      <4> QED BY <4>1, <4>2, <4>4, <4>5
    <3> QED BY <1>8, <3>1, <3>2
  <2>2. phase' = "ready" /\ child' = FALSE /\ receipt' = Ci!Absent /\ uploaded' = uploaded
    BY <1>8 DEF Ci!NextJob, Ci!Rerun, Ci!Fresh
  <2>3. checkout' = Ci!Reviewed(id'.head) /\ seen' = {} /\ undone' = FALSE
    BY <1>8 DEF Ci!NextJob, Ci!Rerun, Ci!Fresh
  <2>4. checkout' \in Checkouts
    BY <2>1, <2>3 DEF Ci!Reviewed, Checkouts
  <2> QED BY <2>1, <2>2, <2>3, <2>4 DEF SuiteInv
<1> QED
  BY <1>1, <1>2, <1>3, <1>4, <1>5, <1>6, <1>7, <1>8, <1>9 DEF Ci!Next

\* The specs of two shards are apart: a manifest names each once (regression-shards.ts:43).
LEMMA PartsApart ==
  ASSUME Ci!SuiteShardsAssumption, NEW h \in DOMAIN Suites, NEW s \in Ci!Shards, NEW t \in Ci!Shards,
         NEW x, x \in Ci!Part(h, s), x \in Ci!Part(h, t)
  PROVE  s = t
<1>1. PICK i \in DOMAIN Suites[h] : Suites[h][i] = x /\ (i - 1) % CI_SHARDS = s - 1
  BY DEF Ci!Part
<1>2. PICK j \in DOMAIN Suites[h] : Suites[h][j] = x /\ (j - 1) % CI_SHARDS = t - 1
  BY DEF Ci!Part
<1>3. i = j
  BY <1>1, <1>2 DEF Ci!SuiteShardsAssumption
<1> QED
  BY <1>1, <1>2, <1>3 DEF Ci!Shards, Ci!SuiteShardsAssumption

LEMMA AggregateProves ==
  ASSUME Ci!SuiteShardsAssumption, SuiteInv, NEW inputs \in [Ci!Shards -> uploaded],
         Ci!Aggregates(inputs), NEW k \in 1 .. 2
  PROVE  /\ \A spec \in Ci!Specs(id.head) :
              \E s \in Ci!Shards :
                 /\ inputs[s].id = id /\ spec \in inputs[s].rounds[k].specs
                 /\ Real(inputs[s].rounds[k], id.head)
                 /\ \A t \in Ci!Shards \ {s} : spec \notin inputs[t].rounds[k].specs
         /\ \E s \in Ci!Shards : ~inputs[s].rounds[k].skipped
<1>1. \A s \in Ci!Shards : /\ inputs[s].id = id /\ inputs[s].shard \in Ci!Shards
                            /\ inputs[s].rounds[k].specs = Ci!Part(id.head, inputs[s].shard)
                            /\ Real(inputs[s].rounds[k], id.head)
  <2> TAKE s \in Ci!Shards
  <2>1. /\ inputs[s].id = id /\ inputs[s].complete
        /\ inputs[s].selected = Ci!Part(id.head, inputs[s].shard)
        /\ inputs[s].rounds[k].specs = inputs[s].selected
    BY DEF Ci!Aggregates, Ci!Admissible
  <2>2. inputs[s].shard \in Ci!Shards /\ RoundsOf(inputs[s])
    BY <2>1 DEF SuiteInv
  <2>3. Real(inputs[s].rounds[k], id.head)
    BY <2>1, <2>2 DEF RoundsOf, RoundsFor
  <2> QED BY <2>1, <2>2, <2>3
<1>2. \A s, t \in Ci!Shards : s # t => inputs[s].shard # inputs[t].shard
  BY DEF Ci!Aggregates
<1>3. UNION {inputs[s].rounds[k].specs : s \in Ci!Shards} = Ci!Specs(id.head)
  BY DEF Ci!Aggregates
<1>4. ASSUME NEW spec \in Ci!Specs(id.head)
      PROVE  \E s \in Ci!Shards :
                 /\ inputs[s].id = id /\ spec \in inputs[s].rounds[k].specs
                 /\ Real(inputs[s].rounds[k], id.head)
                 /\ \A t \in Ci!Shards \ {s} : spec \notin inputs[t].rounds[k].specs
  <2>1. PICK s \in Ci!Shards : spec \in inputs[s].rounds[k].specs
    BY <1>3
  <2>2. \A t \in Ci!Shards \ {s} : spec \notin inputs[t].rounds[k].specs
    BY <1>1, <1>2, <2>1, PartsApart DEF SuiteInv
  <2> QED BY <1>1, <2>1, <2>2
<1> QED
  BY <1>4 DEF Ci!Aggregates

\* Receipts that add up to a success prove it, but for changes of the checkout that were
\* undone within a round and those assertCheckout does not look at (regression-shards.ts:27),
\* and no round runs beside a suite process that was not seen to end (regression-shards.ts:
\* 130-146, flaky-regression.ts:135).
THEOREM SuiteStaysReal == BothSpec => []SuiteIsReal
<1>1. BothInit => SuiteInv
  BY SuiteInit, SuiteAssumption DEF BothInit
<1>2. [BothNext]_allVars => [Ci!Next]_(Ci!vars)
  BY DEF BothNext, allVars, ciVars, Ci!vars
<1>3. SuiteInv /\ [Ci!Next]_(Ci!vars) => SuiteInv'
  BY SuiteStep, SuiteAssumption
<1>4. SuiteInv => SuiteIsReal
  BY AggregateProves, SuiteAssumption DEF Real, SuiteInv, SuiteIsReal, Ci!SuiteIsReal
<1> QED
  BY <1>1, <1>2, <1>3, <1>4, PTL DEF BothSpec
=============================================================================
