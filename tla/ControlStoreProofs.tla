------------------------- MODULE ControlStoreProofs -------------------------
(* Proofs about ControlStore, for any number of executions and envelopes;    *)
(* and, at the end, about starting, pausing and moving a project (Handoff).  *)
EXTENDS ControlStore, MCHandoff, FiniteSetTheorems, TLAPS

\* States in which an envelope has not been given to a worker.
Unhanded == {"unsent", "pending"} \cup Undelivered

\* An envelope that is waiting, or was settled as undelivered, was not handed
\* over.
Fresh == \A c \in Envelope : state[c] \in Unhanded => handed[c] = 0

\* A batch belongs to its execution and was claimed; before the turn it was not
\* handed over and nobody else resolved it, except as unknown.
BatchIsClaimed ==
    \A e \in Exec : \A c \in frame[e].batch :
        /\ target[c] = e
        /\ state[c] \notin {"unsent", "pending"}
        /\ pc[e] = "reserved" => handed[c] = 0 /\ state[c] \in {"claimed", "DELIVERY_UNKNOWN"}

\* So does the STEER that a native session holds.
HeldIsClaimed ==
    \A e \in Exec :
        /\ pc[e] = "taking" => frame[e].held \in Envelope
        /\ pc[e] = "steering" =>
            /\ frame[e].held \in Envelope
            /\ target[frame[e].held] = e
            /\ handed[frame[e].held] = 0
            /\ state[frame[e].held] \in {"claimed", "DELIVERY_UNKNOWN"}

\* Only the driver of the execution settles a claimed envelope as anything but
\* unknown; and as undelivered only one it did not hand over.
OwnDecision(a, d) ==
    d.from = "claimed" =>
        /\ state[d.env] \notin {"unsent", "pending"}
        /\ d.to # "DELIVERY_UNKNOWN" =>
            a \in Exec /\ target[d.env] = a /\ pc[a] \in {"refusing", "settling", "confirming"}
        /\ d.to \in Undelivered => pc[a] # "confirming" /\ handed[d.env] = 0

PlansAreOwn == \A a \in Exec \cup Looker : \A d \in plan[a] : OwnDecision(a, d)

\* From the gate on, whatever the execution was given is confirmed.
Judged(e) == pc[e] = "merging" \/ e \in accepted

JudgedConfirmed ==
    \A e \in Exec :
        /\ e \in accepted => pc[e] \in {"closing", "ending", "over"}
        /\ Judged(e) =>
            \A c \in Envelope :
                target[c] = e /\ handed[c] > 0 => state[c] \in Delivered /\ c \notin fenced

Inv == Fresh /\ BatchIsClaimed /\ HeldIsClaimed /\ PlansAreOwn /\ JudgedConfirmed /\ HandedOnce

IInv == TypeOK /\ Inv

------------------------------------------------------------------------------
USE DEF envelopeVars, recordVars, driverVars, lookerVars, ghostVars, Goto, Fault

LEMMA InitSound == Init => IInv
<1> SUFFICES ASSUME Init PROVE IInv
  OBVIOUS
<1>1. (CHOOSE e \in Exec : TRUE) \in Exec
  BY ControlAssumption
<1>2. Blank \in Frame
  BY DEF Blank, Frame
<1>3. "new" \in PcLabels
  BY DEF PcLabels
<1>4. TypeOK
  BY <1>1, <1>2, <1>3 DEF Init, TypeOK
<1>5. Inv
  BY DEF Init, Inv, Fresh, BatchIsClaimed, HeldIsClaimed, PlansAreOwn, JudgedConfirmed, Judged,
         HandedOnce, Blank
<1> QED
  BY <1>4, <1>5 DEF IInv

\* What a sweep plans is a set of decisions, and a claimed envelope becomes
\* unknown.
LEMMA SweepPlanTyped ==
    ASSUME TypeOK
    PROVE  /\ SweepPlan \in SUBSET Decision
           /\ \A d \in SweepPlan :
                d.from = "claimed" => state[d.env] = "claimed" /\ d.to = "DELIVERY_UNKNOWN"
<1>1. ASSUME NEW c \in Sweepable
      PROVE  /\ c \in Envelope /\ state[c] \in Unresolved /\ SweepTo(c) \in Resolved
             /\ state[c] = "claimed" => SweepTo(c) = "DELIVERY_UNKNOWN"
  <2>1. c \in Envelope /\ state[c] \in Unresolved
    BY <1>1 DEF Sweepable
  <2>2. CASE state[c] = "claimed"
    <3>1. SweepTo(c) = "DELIVERY_UNKNOWN"
      BY <2>2 DEF SweepTo
    <3> QED
      BY <2>1, <3>1 DEF Resolved
  <2>3. CASE state[c] # "claimed"
    <3>1. SweepTo(c) \in {"STALE", "NOT_DELIVERED"}
      BY <2>3 DEF SweepTo
    <3> QED
      BY <2>1, <2>3, <3>1 DEF Resolved, Undelivered
  <2> QED
    BY <2>2, <2>3
<1> QED
  BY <1>1 DEF SweepPlan, Decision

------------------------------------------------------------------------------
(* The loops that settle. *)

\* A transition settles one unresolved envelope, or none, and may leave an
\* unfinished commit.
LEMMA TransitionSound ==
    ASSUME IInv, NEW d \in Decision, Transition(d) \/ TransitionThrows(d),
           UNCHANGED handed,
           d.from = "claimed" /\ d.to \in Undelivered => handed[d.env] = 0
    PROVE  /\ state' \in [Envelope -> {"unsent"} \cup Unresolved \cup Resolved]
           /\ fenced' \in SUBSET Envelope /\ faults' \in Nat
           /\ Fresh'
           /\ \A c \in Envelope :
                /\ state'[c] = state[c]
                   \/ (c = d.env /\ state[c] = d.from /\ state'[c] = d.to)
                /\ c \in fenced' => c \in fenced \/ state[c] \in Unresolved
<1>1. /\ d.env \in Envelope /\ d.from \in Unresolved /\ d.to \in Resolved
  BY DEF Decision
<1>2. CASE Transition(d)
  <2>1. CASE Current(d)
    <3>1. state' = [state EXCEPT ![d.env] = d.to] /\ state[d.env] = d.from
      BY <1>2, <2>1 DEF Transition, Current
    <3>2. handed[d.env] = 0 \/ d.to \notin Unhanded
      BY <1>1, <3>1 DEF IInv, Inv, Fresh, Unhanded, Unresolved, Resolved, Undelivered, Delivered
    <3> QED
      BY <1>1, <1>2, <3>1, <3>2 DEF IInv, Inv, TypeOK, Fresh, Transition
  <2>2. CASE ~Current(d)
    BY <1>2, <2>2 DEF IInv, Inv, TypeOK, Fresh, Transition
  <2> QED
    BY <2>1, <2>2
<1>3. CASE TransitionThrows(d)
  BY <1>1, <1>3, ControlAssumption DEF IInv, Inv, TypeOK, Fresh, TransitionThrows, Current
<1> QED
  BY <1>2, <1>3

LEMMA SettleSound ==
    ASSUME IInv, NEW a \in Exec \cup Looker, SettleNext(a),
           UNCHANGED <<target, mode, expired, recordVars, driverVars, want, ghostVars>>
    PROVE  IInv'
<1>1. PICK d \in plan[a] : /\ Transition(d) \/ TransitionThrows(d)
                           /\ plan' = [plan EXCEPT ![a] = @ \ {d}]
  BY DEF SettleNext
<1>2. d \in Decision /\ OwnDecision(a, d)
  BY DEF IInv, Inv, TypeOK, PlansAreOwn
<1>3. d.env \in Envelope /\ d.from \in Unresolved /\ d.to \in Resolved
  BY <1>2 DEF Decision
<1>4. d.from = "claimed" /\ d.to \in Undelivered => handed[d.env] = 0
  BY <1>2 DEF OwnDecision
<1>5. /\ state' \in [Envelope -> {"unsent"} \cup Unresolved \cup Resolved]
      /\ fenced' \in SUBSET Envelope /\ faults' \in Nat
      /\ Fresh'
      /\ \A c \in Envelope :
           /\ state'[c] = state[c]
              \/ (c = d.env /\ state[c] = d.from /\ state'[c] = d.to)
           /\ c \in fenced' => c \in fenced \/ state[c] \in Unresolved
  BY <1>1, <1>2, <1>4, TransitionSound
<1>6. plan' \in [Exec \cup Looker -> SUBSET Decision]
      /\ \A b \in Exec \cup Looker : plan'[b] \subseteq plan[b]
  BY <1>1 DEF IInv, TypeOK
<1>7. TypeOK'
  BY <1>5, <1>6 DEF IInv, TypeOK
<1>8. ASSUME NEW c \in Envelope, state[c] \notin {"unsent", "pending"}
      PROVE  /\ state'[c] \notin {"unsent", "pending"}
             /\ state'[c] # state[c] => d.from = "claimed" /\ c = d.env /\ state'[c] = d.to
  BY <1>3, <1>5, <1>8 DEF Unresolved, Resolved, Undelivered, Delivered
<1>9. ASSUME NEW c \in Envelope, NEW e \in Exec, target[c] = e,
             state[c] \in {"claimed", "DELIVERY_UNKNOWN"}, pc[e] \in {"reserved", "steering"}
      PROVE  state'[c] \in {"claimed", "DELIVERY_UNKNOWN"}
  BY <1>2, <1>5, <1>8, <1>9 DEF OwnDecision
<1>10. BatchIsClaimed'
  BY <1>8, <1>9 DEF IInv, Inv, TypeOK, BatchIsClaimed, Frame
<1>11. HeldIsClaimed'
  BY <1>9 DEF IInv, Inv, HeldIsClaimed
<1>12. PlansAreOwn'
  <2> SUFFICES ASSUME NEW b \in Exec \cup Looker, NEW x \in plan'[b], x.from = "claimed"
               PROVE  /\ state'[x.env] \notin {"unsent", "pending"}
                      /\ x.to # "DELIVERY_UNKNOWN" =>
                            /\ b \in Exec /\ target[x.env] = b
                            /\ pc[b] \in {"refusing", "settling", "confirming"}
                      /\ x.to \in Undelivered => pc[b] # "confirming" /\ handed[x.env] = 0
    BY DEF PlansAreOwn, OwnDecision
  <2>1. x \in plan[b] /\ x \in Decision
    BY <1>6 DEF IInv, TypeOK
  <2> QED
    BY <2>1, <1>8 DEF IInv, Inv, PlansAreOwn, OwnDecision, Decision
<1>13. JudgedConfirmed'
  BY <1>3, <1>5 DEF IInv, Inv, JudgedConfirmed, Judged, Unresolved, Delivered
<1>14. HandedOnce'
  BY DEF IInv, Inv, HandedOnce
<1> QED
  BY <1>5, <1>7, <1>10, <1>11, <1>12, <1>13, <1>14 DEF IInv, Inv

\* A process that only plans: nothing is settled, and a claimed envelope that is
\* not its own becomes unknown.
LEMMA PlanSound ==
    ASSUME IInv, NEW a \in Exec \cup Looker, NEW S \in SUBSET Decision,
           \A d \in S : d.from = "claimed" =>
               state[d.env] \notin {"unsent", "pending"} /\ d.to = "DELIVERY_UNKNOWN",
           plan' = [plan EXCEPT ![a] = S],
           UNCHANGED <<envelopeVars, recordVars, pc, frame, ghostVars, faults>>,
           want' \in [Operator -> {"none", "STEER", "QUEUE"}]
    PROVE  IInv'
<1>1. TypeOK'
  BY DEF IInv, TypeOK
<1>2. PlansAreOwn'
  <2>1. ASSUME NEW b \in Exec \cup Looker PROVE plan'[b] = IF b = a THEN S ELSE plan[b]
    BY DEF IInv, TypeOK
  <2>2. ASSUME NEW d \in S PROVE OwnDecision(a, d)'
    BY DEF OwnDecision, Undelivered
  <2>3. ASSUME NEW b \in Exec \cup Looker, NEW d \in plan[b] PROVE OwnDecision(b, d)'
    BY DEF IInv, Inv, PlansAreOwn, OwnDecision
  <2> QED
    BY <2>1, <2>2, <2>3 DEF PlansAreOwn
<1>3. Fresh' /\ BatchIsClaimed' /\ HeldIsClaimed' /\ JudgedConfirmed' /\ HandedOnce'
  BY DEF IInv, Inv, Fresh, BatchIsClaimed, HeldIsClaimed, JudgedConfirmed, Judged, HandedOnce
<1> QED
  BY <1>1, <1>2, <1>3 DEF IInv, Inv

LEMMA BeginSweepSound == ASSUME IInv, BeginSweep PROVE IInv'
<1>1. Cycle \in Exec \cup Looker
  BY DEF Looker
<1>2. want' \in [Operator -> {"none", "STEER", "QUEUE"}]
  BY DEF BeginSweep, IInv, TypeOK
<1>3. \A d \in SweepPlan : d.from = "claimed" =>
         state[d.env] \notin {"unsent", "pending"} /\ d.to = "DELIVERY_UNKNOWN"
  BY SweepPlanTyped DEF IInv
<1> QED
  BY <1>1, <1>2, <1>3, PlanSound, SweepPlanTyped DEF IInv, BeginSweep

LEMMA BeginSubmitSound == ASSUME IInv, NEW s \in Operator, BeginSubmit(s) PROVE IInv'
<1>1. s \in Exec \cup Looker
  BY DEF Looker
<1>2. want' \in [Operator -> {"none", "STEER", "QUEUE"}]
  BY DEF BeginSubmit, IInv, TypeOK
<1>3. \A d \in SweepPlan : d.from = "claimed" =>
         state[d.env] \notin {"unsent", "pending"} /\ d.to = "DELIVERY_UNKNOWN"
  BY SweepPlanTyped DEF IInv
<1> QED
  BY <1>1, <1>2, <1>3, PlanSound, SweepPlanTyped DEF IInv, BeginSubmit

LEMMA SubmitSound == ASSUME IInv, NEW s \in Operator, Submit(s) PROVE IInv'
<1>1. PICK e \in Exec, c \in Envelope :
        /\ state[c] = "unsent" /\ fenced = {}
        /\ target' = [target EXCEPT ![c] = e]
        /\ mode' = [mode EXCEPT ![c] = FiledMode(e, want[s])]
        /\ state' = [state EXCEPT ![c] = "pending"] \/ state' = [state EXCEPT ![c] = "REJECTED"]
        /\ UNCHANGED <<fenced, faults>> \/ (fenced' = {c} /\ faults' = faults + 1)
  BY DEF Submit, Unsent
<1>. DEFINE m == FiledMode(e, want[s])
<1>11. m \in {"STEER", "QUEUE"}
  BY DEF FiledMode
<1>12. fenced' \subseteq {c} /\ faults' \in Nat
  BY <1>1 DEF IInv, TypeOK
<1>2. UNCHANGED <<expired, recordVars, driverVars, plan, ghostVars>>
      /\ want' = [want EXCEPT ![s] = "none"]
  BY DEF Submit
<1>3. handed[c] = 0
  BY <1>1 DEF IInv, Inv, Fresh, Unhanded
<1>4. TypeOK'
  <2>1. target' \in [Envelope -> Exec] /\ mode' \in [Envelope -> {"STEER", "QUEUE"}]
    BY <1>1, <1>11 DEF IInv, TypeOK
  <2>2. state' \in [Envelope -> {"unsent"} \cup Unresolved \cup Resolved]
    BY <1>1 DEF IInv, TypeOK, Unresolved, Resolved, Undelivered
  <2> QED
    BY <1>2, <1>12, <2>1, <2>2 DEF IInv, TypeOK
<1>5. \A d \in Envelope : d # c => state'[d] = state[d] /\ target'[d] = target[d]
  BY <1>1 DEF IInv, TypeOK
<1>6. Fresh' /\ HandedOnce'
  BY <1>2, <1>3, <1>5 DEF IInv, Inv, Fresh, HandedOnce
<1>7. BatchIsClaimed'
  BY <1>1, <1>2, <1>5 DEF IInv, Inv, TypeOK, Frame, BatchIsClaimed
<1>8. HeldIsClaimed'
  BY <1>1, <1>2, <1>5 DEF IInv, Inv, HeldIsClaimed
<1>9. PlansAreOwn'
  BY <1>1, <1>2, <1>5 DEF IInv, Inv, TypeOK, Decision, PlansAreOwn, OwnDecision
<1>10. JudgedConfirmed'
  BY <1>1, <1>2, <1>3, <1>5, <1>12 DEF IInv, Inv, JudgedConfirmed, Judged
<1> QED
  BY <1>4, <1>6, <1>7, <1>8, <1>9, <1>10 DEF IInv, Inv

\* A decision of an envelope in state "claimed" that the driver may plan when it
\* goes on to a label.
MayPlan(e, label, d) ==
    d.from = "claimed" =>
        /\ state[d.env] \notin {"unsent", "pending"}
        /\ \/ d.to = "DELIVERY_UNKNOWN"
           \/ target[d.env] = e /\ label = "confirming" /\ d.to \notin Undelivered
           \/ target[d.env] = e /\ label = "refusing" /\ handed[d.env] = 0

LEMMA IdlePlan ==
    ASSUME IInv, NEW e \in Exec, pc[e] \notin {"refusing", "settling", "confirming"},
           NEW label, NEW d \in plan[e]
    PROVE  MayPlan(e, label, d)
BY DEF IInv, Inv, PlansAreOwn, OwnDecision, MayPlan

\* Steps of one driver that settle no envelope and hand none over.
LEMMA MoveSound ==
    ASSUME IInv, NEW e \in Exec, NEW label \in PcLabels, pc' = [pc EXCEPT ![e] = label],
           label \notin {"taking", "steering", "reserved", "merging"},
           e \in accepted => label \in {"closing", "ending", "over"},
           UNCHANGED <<target, mode, state, expired, fenced, handed, accepted, want>>,
           NEW S \in SUBSET Decision, plan' = [plan EXCEPT ![e] = S],
           \A d \in S : MayPlan(e, label, d),
           NEW f \in Frame, frame' = [frame EXCEPT ![e] = f],
           f.batch \subseteq frame[e].batch,
           phase' \in [Exec -> {"none", "running", "validating", "unknown", "terminal"}],
           bad' \in SUBSET Exec, gone' \in SUBSET Exec, faults' \in Nat
    PROVE  IInv'
<1>1. TypeOK'
  BY DEF IInv, TypeOK
<1>2. /\ \A x \in Exec : pc'[x] = IF x = e THEN label ELSE pc[x]
      /\ \A x \in Exec : frame'[x] = IF x = e THEN f ELSE frame[x]
      /\ \A a \in Exec \cup Looker : plan'[a] = IF a = e THEN S ELSE plan[a]
  BY DEF IInv, TypeOK
<1>3. Fresh' /\ HandedOnce'
  BY DEF IInv, Inv, Fresh, HandedOnce
<1>4. BatchIsClaimed'
  BY <1>2 DEF IInv, Inv, BatchIsClaimed
<1>5. HeldIsClaimed'
  BY <1>2 DEF IInv, Inv, HeldIsClaimed
<1>6. PlansAreOwn'
  <2>1. ASSUME NEW d \in S PROVE OwnDecision(e, d)'
    BY <1>2 DEF MayPlan, OwnDecision, Undelivered
  <2>2. ASSUME NEW a \in Exec \cup Looker, a # e, NEW d \in plan[a] PROVE OwnDecision(a, d)'
    BY <1>2, <2>2 DEF IInv, Inv, PlansAreOwn, OwnDecision, Undelivered
  <2> QED
    BY <1>2, <2>1, <2>2 DEF PlansAreOwn
<1>7. JudgedConfirmed'
  BY <1>2 DEF IInv, Inv, JudgedConfirmed, Judged
<1> QED
  BY <1>1, <1>3, <1>4, <1>5, <1>6, <1>7 DEF IInv, Inv

\* ... and among them those that plan nothing and keep their locals.
LEMMA StepSound ==
    ASSUME IInv, NEW e \in Exec, NEW label \in PcLabels, pc' = [pc EXCEPT ![e] = label],
           label \notin {"taking", "steering", "reserved", "merging"},
           e \in accepted => label \in {"closing", "ending", "over"},
           pc[e] \notin {"refusing", "settling", "confirming"} \/ plan[e] = {},
           UNCHANGED <<target, mode, state, expired, fenced, handed, accepted, want, plan>>,
           NEW f \in Frame, frame' = [frame EXCEPT ![e] = f],
           f.batch \subseteq frame[e].batch,
           phase' \in [Exec -> {"none", "running", "validating", "unknown", "terminal"}],
           UNCHANGED <<bad, gone>>, faults' \in Nat
    PROVE  IInv'
<1>1. plan' = [plan EXCEPT ![e] = plan[e]] /\ plan[e] \in SUBSET Decision
  BY DEF IInv, TypeOK
<1>2. \A d \in plan[e] : MayPlan(e, label, d)
  BY IdlePlan
<1>3. bad' \in SUBSET Exec /\ gone' \in SUBSET Exec
  BY DEF IInv, TypeOK
<1> QED
  BY <1>1, <1>2, <1>3, MoveSound

\* Nobody's candidate is accepted while its driver is at work.
LEMMA NotYetAccepted ==
    ASSUME IInv, NEW e \in Exec, pc[e] \notin {"closing", "ending", "over"}
    PROVE  e \notin accepted
BY DEF IInv, Inv, JudgedConfirmed

LEMMA PassSound ==
    ASSUME IInv, NEW e \in Exec,
           \/ StartRun(e) \/ Confirmed(e) \/ PeekQueue(e) \/ AdmitTurn(e) \/ Refused(e)
           \/ Finish(e)
    PROVE  IInv'
<1>1. frame[e] \in Frame /\ frame' = [frame EXCEPT ![e] = frame'[e]] /\ faults \in Nat
  BY DEF IInv, TypeOK, StartRun, Confirmed, PeekQueue, AdmitTurn, Refused, Finish
<1>2. CASE StartRun(e)
  <2>1. "turn" \in PcLabels /\ e \notin accepted
    BY <1>2, NotYetAccepted DEF StartRun, PcLabels
  <2>2. phase' \in [Exec -> {"none", "running", "validating", "unknown", "terminal"}]
    BY <1>2 DEF StartRun, IInv, TypeOK
  <2>3. frame'[e] = frame[e]
    BY <1>2 DEF StartRun
  <2> QED
    BY <1>1, <1>2, <2>1, <2>2, <2>3, StepSound DEF StartRun
<1>3. CASE Confirmed(e)
  <2>1. PICK label \in {"deciding", "closing"} : pc' = [pc EXCEPT ![e] = label]
    BY <1>3 DEF Confirmed
  <2>2. label \in PcLabels /\ e \notin accepted
    BY <1>3, NotYetAccepted DEF Confirmed, PcLabels
  <2>3. frame'[e] \in Frame /\ frame'[e].batch = {}
    <3>1. frame'[e] = [frame[e] EXCEPT !.batch = {}]
      BY <1>3 DEF Confirmed, IInv, TypeOK
    <3> QED
      BY <1>1, <3>1 DEF Frame
  <2>4. phase' \in [Exec -> {"none", "running", "validating", "unknown", "terminal"}]
    BY <1>3 DEF Confirmed, IInv, TypeOK
  <2> QED
    BY <1>1, <1>3, <2>1, <2>2, <2>3, <2>4, StepSound DEF Confirmed
<1>4. CASE PeekQueue(e) \/ AdmitTurn(e)
  <2>1. PICK label \in {"closing", "admitting", "gate", "reserving"} :
            pc' = [pc EXCEPT ![e] = label]
    BY <1>4 DEF PeekQueue, AdmitTurn
  <2>2. label \in PcLabels /\ e \notin accepted
    BY <1>4, NotYetAccepted DEF PeekQueue, AdmitTurn, PcLabels
  <2>3. phase' \in [Exec -> {"none", "running", "validating", "unknown", "terminal"}]
    BY <1>4 DEF PeekQueue, AdmitTurn, IInv, TypeOK
  <2>4. frame'[e] = frame[e]
    BY <1>4 DEF PeekQueue, AdmitTurn
  <2> QED
    BY <1>1, <1>4, <2>1, <2>2, <2>3, <2>4, StepSound, ZenonT(60) DEF PeekQueue, AdmitTurn
<1>5. CASE Refused(e)
  <2>1. "gate" \in PcLabels /\ e \notin accepted
    BY <1>5, NotYetAccepted DEF Refused, PcLabels
  <2>2. frame'[e] \in Frame /\ frame'[e].batch = {}
    <3>1. frame'[e] = [frame[e] EXCEPT !.batch = {}]
      BY <1>5 DEF Refused, IInv, TypeOK
    <3> QED
      BY <1>1, <3>1 DEF Frame
  <2>3. phase' \in [Exec -> {"none", "running", "validating", "unknown", "terminal"}]
    BY <1>5 DEF Refused, IInv, TypeOK
  <2> QED
    BY <1>1, <1>5, <2>1, <2>2, <2>3, StepSound DEF Refused
<1>6. CASE Finish(e)
  <2>1. "over" \in PcLabels
    BY DEF PcLabels
  <2>2. frame'[e] \in Frame /\ frame'[e].batch = {}
    BY <1>6 DEF Finish, IInv, TypeOK, Frame, Blank
  <2>3. phase' \in [Exec -> {"none", "running", "validating", "unknown", "terminal"}]
    BY <1>6 DEF Finish, IInv, TypeOK
  <2> QED
    BY <1>1, <1>6, <2>1, <2>2, <2>3, StepSound DEF Finish
<1> QED
  BY <1>2, <1>3, <1>4, <1>5, <1>6

LEMMA TurnEndsSound == ASSUME IInv, NEW e \in Exec, NEW ok \in BOOLEAN, TurnEnds(e, ok) PROVE IInv'
<1>. DEFINE to == IF ok THEN "DELIVERED" ELSE "DELIVERY_UNKNOWN"
            S == {[env |-> c, from |-> "claimed", to |-> to] : c \in frame[e].batch}
<1>1. frame[e] \in Frame
  BY DEF IInv, TypeOK
<1>2. to \in Resolved /\ to \notin Undelivered
  BY DEF Resolved, Delivered, Undelivered
<1>3. S \in SUBSET Decision
  BY <1>1, <1>2 DEF Decision, Frame, Unresolved
<1>4. ASSUME NEW d \in S PROVE MayPlan(e, "confirming", d)
  BY <1>2 DEF MayPlan, IInv, Inv, BatchIsClaimed
<1>5. "confirming" \in PcLabels /\ e \notin accepted
  BY NotYetAccepted DEF TurnEnds, PcLabels
<1>6. [frame[e] EXCEPT !.ok = ok] \in Frame
      /\ [frame[e] EXCEPT !.ok = ok].batch = frame[e].batch
  BY <1>1 DEF Frame
<1>7. frame' = [frame EXCEPT ![e] = [frame[e] EXCEPT !.ok = ok]]
  BY <1>1 DEF TurnEnds
<1>8. /\ phase' \in [Exec -> {"none", "running", "validating", "unknown", "terminal"}]
      /\ bad' \in SUBSET Exec /\ gone' \in SUBSET Exec /\ faults' \in Nat
  BY DEF TurnEnds, IInv, TypeOK
<1>9. plan' = [plan EXCEPT ![e] = S] /\ pc' = [pc EXCEPT ![e] = "confirming"]
      /\ UNCHANGED <<target, mode, state, expired, fenced, handed, accepted, want>>
  BY DEF TurnEnds
<1> QED
  BY <1>3, <1>4, <1>5, <1>6, <1>7, <1>8, <1>9, MoveSound

LEMMA RefuseTurnSound == ASSUME IInv, NEW e \in Exec, RefuseTurn(e) PROVE IInv'
<1>. DEFINE S == {[env |-> c, from |-> "claimed", to |-> "NOT_DELIVERED"] : c \in frame[e].batch}
<1>1. frame[e] \in Frame /\ frame' = [frame EXCEPT ![e] = frame[e]]
  BY DEF IInv, TypeOK, RefuseTurn
<1>2. S \in SUBSET Decision
  BY <1>1 DEF Decision, Frame, Unresolved, Resolved, Undelivered
<1>3. ASSUME NEW d \in S PROVE MayPlan(e, "refusing", d)
  BY DEF MayPlan, IInv, Inv, BatchIsClaimed, RefuseTurn
<1>4. "refusing" \in PcLabels /\ e \notin accepted
  BY NotYetAccepted DEF RefuseTurn, PcLabels
<1>5. /\ phase' \in [Exec -> {"none", "running", "validating", "unknown", "terminal"}]
      /\ bad' \in SUBSET Exec /\ gone' \in SUBSET Exec /\ faults' \in Nat
  BY DEF RefuseTurn, IInv, TypeOK
<1>6. plan' = [plan EXCEPT ![e] = S] /\ pc' = [pc EXCEPT ![e] = "refusing"]
      /\ UNCHANGED <<target, mode, state, expired, fenced, handed, accepted, want>>
  BY DEF RefuseTurn
<1> QED
  BY <1>1, <1>2, <1>3, <1>4, <1>5, <1>6, MoveSound

LEMMA EndExecutionSound == ASSUME IInv, NEW e \in Exec, EndExecution(e) PROVE IInv'
<1>. DEFINE open == {c \in Envelope \ fenced : target[c] = e /\ state[c] \in Unresolved}
            S == {[env |-> c, from |-> state[c], to |-> EndTo(c)] : c \in open}
<1>1. frame[e] \in Frame /\ frame' = [frame EXCEPT ![e] = frame[e]]
  BY DEF IInv, TypeOK, EndExecution
<1>2. ASSUME NEW c \in open
      PROVE  /\ EndTo(c) \in Resolved
             /\ state[c] = "claimed" => EndTo(c) = "DELIVERY_UNKNOWN"
  BY DEF EndTo, Resolved, Undelivered
<1>3. S \in SUBSET Decision
  BY <1>2 DEF Decision
<1>4. ASSUME NEW d \in S PROVE MayPlan(e, "ending", d)
  BY <1>2 DEF MayPlan
<1>5. "ending" \in PcLabels
  BY DEF PcLabels
<1>6. /\ phase' \in [Exec -> {"none", "running", "validating", "unknown", "terminal"}]
      /\ bad' \in SUBSET Exec /\ gone' \in SUBSET Exec /\ faults' \in Nat
  BY DEF EndExecution, IInv, TypeOK
<1>7. plan' = [plan EXCEPT ![e] = S] /\ pc' = [pc EXCEPT ![e] = "ending"]
      /\ UNCHANGED <<target, mode, state, expired, fenced, handed, accepted, want>>
  BY DEF EndExecution
<1> QED
  BY <1>1, <1>3, <1>4, <1>5, <1>6, <1>7, MoveSound

LEMMA CrashSound == ASSUME IInv, NEW e \in Exec, Crash(e) PROVE IInv'
<1>1. Blank \in Frame /\ Blank.batch \subseteq frame[e].batch
  BY DEF Blank, Frame
<1>2. "over" \in PcLabels
  BY DEF PcLabels
<1>3. /\ phase' \in [Exec -> {"none", "running", "validating", "unknown", "terminal"}]
      /\ bad' \in SUBSET Exec /\ gone' \in SUBSET Exec /\ faults' \in Nat
  BY DEF Crash, IInv, TypeOK
<1>4. {} \in SUBSET Decision /\ \A d \in {} : MayPlan(e, "over", d)
  OBVIOUS
<1> QED
  BY <1>1, <1>2, <1>3, <1>4, MoveSound DEF Crash

------------------------------------------------------------------------------
(* Steps of a driver that claim an envelope, hand it over or accept.         *)

LEMMA GateSound == ASSUME IInv, NEW e \in Exec, Gate(e) PROVE IInv'
<1>1. frame[e] \in Frame /\ frame' = [frame EXCEPT ![e] = frame[e]] /\ faults' \in Nat
      /\ phase' \in [Exec -> {"none", "running", "validating", "unknown", "terminal"}]
  BY DEF IInv, TypeOK, Gate
<1>2. CASE pc' = [pc EXCEPT ![e] = "closing"]
  <2>1. "closing" \in PcLabels
    BY DEF PcLabels
  <2> QED
    BY <1>1, <1>2, <2>1, StepSound DEF Gate
<1>3. CASE Lineage(e) /\ pc' = [pc EXCEPT ![e] = "merging"]
  <2>1. TypeOK'
    BY <1>3 DEF IInv, TypeOK, Gate, PcLabels
  <2>2. \A x \in Exec : pc'[x] = IF x = e THEN "merging" ELSE pc[x]
    BY <1>3 DEF IInv, TypeOK
  <2>3. Fresh' /\ HandedOnce' /\ BatchIsClaimed' /\ HeldIsClaimed'
    BY <2>2 DEF IInv, Inv, Gate, Fresh, HandedOnce, BatchIsClaimed, HeldIsClaimed
  <2>4. PlansAreOwn'
    BY <2>2 DEF IInv, Inv, Gate, PlansAreOwn, OwnDecision, Undelivered
  <2>5. ASSUME NEW c \in Envelope, target[c] = e, handed[c] > 0
        PROVE  state[c] \in Delivered /\ c \notin fenced
    <3>1. state[c] \notin Unhanded
      BY <2>5 DEF IInv, Inv, TypeOK, Fresh
    <3> QED
      BY <1>3, <2>5, <3>1 DEF IInv, TypeOK, Lineage, Unhanded, Unresolved, Resolved
  <2>6. JudgedConfirmed'
    BY <2>2, <2>5, NotYetAccepted DEF IInv, Inv, Gate, JudgedConfirmed, Judged
  <2> QED
    BY <2>1, <2>3, <2>4, <2>6 DEF IInv, Inv
<1> QED
  BY <1>2, <1>3 DEF Gate

LEMMA LandSound == ASSUME IInv, NEW e \in Exec, Land(e) PROVE IInv'
<1>1. \A x \in Exec : pc'[x] = IF x = e THEN "closing" ELSE pc[x]
  BY DEF IInv, TypeOK, Land
<1>2. TypeOK'
  BY DEF IInv, TypeOK, Land, PcLabels
<1>3. Fresh' /\ HandedOnce' /\ BatchIsClaimed' /\ HeldIsClaimed'
  BY <1>1 DEF IInv, Inv, Land, Fresh, HandedOnce, BatchIsClaimed, HeldIsClaimed
<1>4. PlansAreOwn'
  BY <1>1 DEF IInv, Inv, Land, PlansAreOwn, OwnDecision, Undelivered
<1>5. accepted' \subseteq accepted \cup {e}
  BY DEF Land
<1>6. JudgedConfirmed'
  BY <1>1, <1>5 DEF IInv, Inv, Land, JudgedConfirmed, Judged
<1> QED
  BY <1>2, <1>3, <1>4, <1>6 DEF IInv, Inv

LEMMA PollSound == ASSUME IInv, NEW e \in Exec, Poll(e) PROVE IInv'
<1>1. PICK c \in Envelope : frame' = [frame EXCEPT ![e].held = c]
  BY DEF Poll, PendingSteer, PendingFor
<1>2. /\ \A x \in Exec : pc'[x] = IF x = e THEN "taking" ELSE pc[x]
      /\ \A x \in Exec : frame'[x].batch = frame[x].batch
      /\ \A x \in Exec : frame'[x].held = IF x = e THEN c ELSE frame[x].held
  BY <1>1 DEF IInv, TypeOK, Poll, Frame
<1>3. TypeOK'
  <2>1. [frame[e] EXCEPT !.held = c] \in Frame
    BY SMTT(40) DEF IInv, TypeOK, Frame
  <2>2. frame' \in [Exec -> Frame]
    BY <1>1, <2>1 DEF IInv, TypeOK
  <2> QED
    BY <2>2 DEF IInv, TypeOK, Poll, PcLabels
<1>4. Fresh' /\ HandedOnce' /\ BatchIsClaimed' /\ HeldIsClaimed'
  BY <1>2 DEF IInv, Inv, Poll, Fresh, HandedOnce, BatchIsClaimed, HeldIsClaimed
<1>5. PlansAreOwn'
  BY <1>2 DEF IInv, Inv, Poll, PlansAreOwn, OwnDecision, Undelivered
<1>6. JudgedConfirmed'
  BY <1>2, NotYetAccepted DEF IInv, Inv, Poll, JudgedConfirmed, Judged
<1> QED
  BY <1>3, <1>4, <1>5, <1>6 DEF IInv, Inv

LEMMA TakeSound == ASSUME IInv, NEW e \in Exec, Take(e) PROVE IInv'
<1>. DEFINE c == frame[e].held
<1>1. c \in Envelope /\ pc[e] = "taking" /\ e \notin accepted
  BY NotYetAccepted DEF IInv, Inv, HeldIsClaimed, Take
<1>2. Steered(e) = [env |-> c, from |-> "pending", to |-> "STEERED"]
  BY DEF Steered
<1>3. /\ \A x \in Exec : pc'[x] = IF x = e THEN "turn" ELSE pc[x]
      /\ \A x \in Exec : frame'[x].batch = frame[x].batch
      /\ \A x \in Exec : x # e => frame'[x].held = frame[x].held
      /\ frame' \in [Exec -> Frame]
  BY ZenonT(60) DEF IInv, TypeOK, Take, Frame
<1>4. CASE /\ state' = [state EXCEPT ![c] = "STEERED"] /\ state[c] = "pending"
           /\ handed' = [handed EXCEPT ![c] = @ + 1]
           /\ UNCHANGED <<fenced, faults>> /\ fenced = {}
  <2>1. handed[c] = 0
    BY <1>1, <1>4 DEF IInv, Inv, Fresh, Unhanded
  <2>2. /\ \A d \in Envelope : state'[d] = IF d = c THEN "STEERED" ELSE state[d]
        /\ \A d \in Envelope : handed'[d] = IF d = c THEN 1 ELSE handed[d]
    BY <1>1, <1>4, <2>1 DEF IInv, TypeOK
  <2>3. TypeOK'
    <3>1. state' \in [Envelope -> {"unsent"} \cup Unresolved \cup Resolved]
      BY <1>1, <1>4 DEF IInv, TypeOK, Resolved, Delivered
    <3>2. handed' \in [Envelope -> Nat]
      BY <1>1, <1>4 DEF IInv, TypeOK
    <3> QED
      BY <1>3, <1>4, <3>1, <3>2 DEF IInv, TypeOK, Take, PcLabels
  <2>4. Fresh' /\ HandedOnce'
    BY <2>2 DEF IInv, Inv, Fresh, HandedOnce, Unhanded, Undelivered
  <2>5. BatchIsClaimed'
    BY <1>1, <1>3, <1>4, <2>2 DEF IInv, Inv, TypeOK, Frame, Take, BatchIsClaimed
  <2>6. HeldIsClaimed'
    BY <1>1, <1>3, <1>4, <2>2 DEF IInv, Inv, Take, HeldIsClaimed
  <2>7. PlansAreOwn'
    BY <1>1, <1>3, <1>4, <2>2 DEF IInv, Inv, TypeOK, Decision, Take, PlansAreOwn, OwnDecision,
                                  Undelivered
  <2>8. JudgedConfirmed'
    BY <1>1, <1>3, <1>4, <2>2 DEF IInv, Inv, Take, JudgedConfirmed, Judged, Delivered
  <2> QED
    BY <2>3, <2>4, <2>5, <2>6, <2>7, <2>8 DEF IInv, Inv
<1>5. CASE /\ UNCHANGED <<state, handed>> /\ faults' \in Nat
           /\ fenced' = fenced \/ (state[c] = "pending" /\ fenced' = fenced \cup {c})
  <2>1. TypeOK'
    BY <1>1, <1>3, <1>5 DEF IInv, TypeOK, Take, PcLabels
  <2>2. Fresh' /\ HandedOnce' /\ BatchIsClaimed' /\ HeldIsClaimed'
    BY <1>3, <1>5 DEF IInv, Inv, Take, Fresh, HandedOnce, BatchIsClaimed, HeldIsClaimed
  <2>3. PlansAreOwn'
    BY <1>1, <1>3, <1>5 DEF IInv, Inv, Take, PlansAreOwn, OwnDecision, Undelivered
  <2>4. JudgedConfirmed'
    BY <1>1, <1>3, <1>5 DEF IInv, Inv, Take, JudgedConfirmed, Judged, Delivered
  <2> QED
    BY <2>1, <2>2, <2>3, <2>4 DEF IInv, Inv
<1>. DEFINE d == [env |-> c, from |-> "pending", to |-> "STEERED"]
            gives == handed' = IF Current(d) THEN [handed EXCEPT ![c] = @ + 1] ELSE handed
<1>6. Current(d) <=> c \notin fenced /\ state[c] = "pending" /\ fenced = {}
  BY DEF Current, Delivered
<1>7. CASE Transition(d) /\ gives /\ Current(d)
  <2>1. state' = [state EXCEPT ![c] = "STEERED"] /\ UNCHANGED <<fenced, faults>>
    BY <1>7 DEF Transition
  <2>2. handed' = [handed EXCEPT ![c] = @ + 1]
    BY <1>7
  <2> QED
    BY <1>4, <1>6, <1>7, <2>1, <2>2
<1>8. CASE Transition(d) /\ gives /\ ~Current(d)
  BY <1>5, <1>8 DEF Transition, IInv, TypeOK
<1>9. CASE TransitionThrows(d) /\ UNCHANGED handed
  BY <1>5, <1>6, <1>9 DEF TransitionThrows, IInv, TypeOK
<1>10. (Transition(d) /\ gives) \/ (TransitionThrows(d) /\ UNCHANGED handed)
  BY <1>2 DEF Take
<1> QED
  BY <1>7, <1>8, <1>9, <1>10

LEMMA ClaimSteerSound == ASSUME IInv, NEW e \in Exec, ClaimSteer(e) PROVE IInv'
<1>1. PICK c \in Envelope :
        /\ state[c] = "pending" /\ target[c] = e
        /\ \/ /\ state' = [state EXCEPT ![c] = "claimed"]
              /\ frame' = [frame EXCEPT ![e].held = c]
              /\ pc' = [pc EXCEPT ![e] = "steering"]
              /\ UNCHANGED <<fenced, faults>>
           \/ faults' = faults + 1 /\ fenced' = {c} /\ UNCHANGED <<state, pc, frame>>
  BY DEF ClaimSteer, PendingSteer, PendingFor
<1>2. pc[e] = "turn" /\ e \notin accepted
      /\ UNCHANGED <<target, mode, expired, recordVars, lookerVars, ghostVars>>
  BY NotYetAccepted DEF ClaimSteer
<1>3. handed[c] = 0
  BY <1>1 DEF IInv, Inv, Fresh, Unhanded
<1>4. CASE /\ state' = [state EXCEPT ![c] = "claimed"]
           /\ frame' = [frame EXCEPT ![e].held = c]
           /\ pc' = [pc EXCEPT ![e] = "steering"]
           /\ UNCHANGED <<fenced, faults>>
  <2>1. /\ \A x \in Exec : pc'[x] = IF x = e THEN "steering" ELSE pc[x]
        /\ \A x \in Exec : frame'[x].batch = frame[x].batch
        /\ \A x \in Exec : frame'[x].held = IF x = e THEN c ELSE frame[x].held
        /\ \A d \in Envelope : state'[d] = IF d = c THEN "claimed" ELSE state[d]
    BY <1>4 DEF IInv, TypeOK, Frame
  <2>2. TypeOK'
    <3>1. [frame[e] EXCEPT !.held = c] \in Frame
      BY SMTT(40) DEF IInv, TypeOK, Frame
    <3>2. frame' \in [Exec -> Frame]
      BY <1>4, <3>1 DEF IInv, TypeOK
    <3> QED
      BY <1>2, <1>4, <3>2 DEF IInv, TypeOK, PcLabels, Unresolved
  <2>3. Fresh' /\ HandedOnce'
    BY <1>2, <2>1 DEF IInv, Inv, Fresh, HandedOnce, Unhanded, Undelivered
  <2>4. BatchIsClaimed'
    BY <1>1, <1>2, <2>1 DEF IInv, Inv, TypeOK, Frame, BatchIsClaimed
  <2>5. HeldIsClaimed'
    BY <1>1, <1>2, <1>3, <2>1 DEF IInv, Inv, HeldIsClaimed
  <2>6. PlansAreOwn'
    BY <1>1, <1>2, <2>1 DEF IInv, Inv, TypeOK, Decision, PlansAreOwn, OwnDecision, Undelivered
  <2>7. JudgedConfirmed'
    BY <1>1, <1>2, <1>3, <1>4, <2>1 DEF IInv, Inv, JudgedConfirmed, Judged
  <2> QED
    BY <2>2, <2>3, <2>4, <2>5, <2>6, <2>7 DEF IInv, Inv
<1>5. CASE faults' = faults + 1 /\ fenced' = {c} /\ UNCHANGED <<state, pc, frame>>
  <2>1. TypeOK'
    BY <1>2, <1>5 DEF IInv, TypeOK
  <2>2. Fresh' /\ HandedOnce' /\ BatchIsClaimed' /\ HeldIsClaimed' /\ PlansAreOwn'
    BY <1>2, <1>5 DEF IInv, Inv, Fresh, HandedOnce, BatchIsClaimed, HeldIsClaimed, PlansAreOwn,
                      OwnDecision
  <2>3. JudgedConfirmed'
    BY <1>2, <1>3, <1>5 DEF IInv, Inv, JudgedConfirmed, Judged
  <2> QED
    BY <2>1, <2>2, <2>3 DEF IInv, Inv
<1> QED
  BY <1>1, <1>4, <1>5

LEMMA SteerAnsweredSound == ASSUME IInv, NEW e \in Exec, SteerAnswered(e) PROVE IInv'
<1>. DEFINE c == frame[e].held
<1>1. /\ c \in Envelope /\ target[c] = e /\ handed[c] = 0
      /\ state[c] \in {"claimed", "DELIVERY_UNKNOWN"}
      /\ pc[e] = "steering" /\ e \notin accepted
  BY NotYetAccepted DEF IInv, Inv, HeldIsClaimed, SteerAnswered
<1>2. PICK to \in {"STEERED", "NOT_DELIVERED", "DELIVERY_UNKNOWN"} :
        /\ plan' = [plan EXCEPT ![e] = {[env |-> c, from |-> "claimed", to |-> to]}]
        /\ \/ to # "NOT_DELIVERED" /\ handed' = [handed EXCEPT ![c] = @ + 1]
           \/ to # "STEERED" /\ UNCHANGED handed
  BY DEF SteerAnswered
<1>. DEFINE d == [env |-> c, from |-> "claimed", to |-> to]
<1>3. /\ \A x \in Exec : pc'[x] = IF x = e THEN "settling" ELSE pc[x]
      /\ \A a \in Exec \cup Looker : plan'[a] = IF a = e THEN {d} ELSE plan[a]
      /\ UNCHANGED <<envelopeVars, recordVars, frame, want, accepted, faults>>
  BY <1>2 DEF IInv, TypeOK, SteerAnswered
<1>4. /\ \A x \in Envelope : x # c => handed'[x] = handed[x]
      /\ handed'[c] \in {0, 1} /\ (to = "NOT_DELIVERED" => handed'[c] = 0)
      /\ handed' \in [Envelope -> Nat]
  BY <1>1, <1>2 DEF IInv, TypeOK
<1>5. TypeOK'
  <2>1. d \in Decision
    BY <1>1 DEF Decision, Unresolved, Resolved, Delivered, Undelivered
  <2>2. pc' \in [Exec -> PcLabels] /\ plan' \in [Exec \cup Looker -> SUBSET Decision]
    BY <1>2, <2>1 DEF IInv, TypeOK, SteerAnswered, PcLabels
  <2> QED
    BY <1>3, <1>4, <2>2 DEF IInv, TypeOK
<1>6. Fresh' /\ HandedOnce'
  BY <1>1, <1>3, <1>4 DEF IInv, Inv, Fresh, HandedOnce, Unhanded, Undelivered
<1>7. BatchIsClaimed'
  BY <1>1, <1>3, <1>4 DEF IInv, Inv, TypeOK, Frame, BatchIsClaimed
<1>8. HeldIsClaimed'
  BY <1>1, <1>3, <1>4 DEF IInv, Inv, HeldIsClaimed
<1>9. PlansAreOwn'
  <2>1. OwnDecision(e, d)'
    BY <1>1, <1>3, <1>4 DEF OwnDecision, Undelivered
  <2>2. ASSUME NEW a \in Exec \cup Looker, a # e, NEW x \in plan[a] PROVE OwnDecision(a, x)'
    <3>1. x \in Decision /\ OwnDecision(a, x)
      BY DEF IInv, Inv, TypeOK, PlansAreOwn
    <3> QED
      BY <1>1, <1>3, <1>4, <2>2, <3>1 DEF OwnDecision, Decision, Undelivered
  <2> QED
    BY <1>3, <2>1, <2>2 DEF PlansAreOwn
<1>10. JudgedConfirmed'
  BY <1>1, <1>3, <1>4 DEF IInv, Inv, JudgedConfirmed, Judged
<1> QED
  BY <1>5, <1>6, <1>7, <1>8, <1>9, <1>10 DEF IInv, Inv

LEMMA DispatchSound == ASSUME IInv, NEW e \in Exec, Dispatch(e) PROVE IInv'
<1>1. pc[e] = "reserved" /\ e \notin accepted
  BY NotYetAccepted DEF Dispatch
<1>2. ASSUME NEW c \in frame[e].batch
      PROVE  target[c] = e /\ handed[c] = 0 /\ state[c] \in {"claimed", "DELIVERY_UNKNOWN"}
  BY <1>1 DEF IInv, Inv, BatchIsClaimed
<1>3. /\ \A x \in Exec : pc'[x] = IF x = e THEN "turn" ELSE pc[x]
      /\ \A x \in Exec : frame'[x].batch = frame[x].batch /\ frame'[x].held = frame[x].held
      /\ frame' \in [Exec -> Frame]
  <2>1. [frame[e] EXCEPT !.turns = @ + 1] \in Frame
    <3>1. frame[e] \in Frame
      BY DEF IInv, TypeOK
    <3> QED
      BY <3>1 DEF Frame
  <2> QED
    BY <2>1 DEF IInv, TypeOK, Dispatch, Frame
<1>4. /\ \A c \in Envelope : handed'[c] = IF c \in frame[e].batch THEN 1 ELSE handed[c]
      /\ handed' \in [Envelope -> Nat]
  BY <1>2 DEF IInv, TypeOK, Dispatch
<1>5. TypeOK'
  BY <1>3, <1>4 DEF IInv, TypeOK, Dispatch, PcLabels
<1>6. Fresh' /\ HandedOnce'
  BY <1>2, <1>4 DEF IInv, Inv, Fresh, HandedOnce, Unhanded, Undelivered, Dispatch
<1>7. BatchIsClaimed'
  BY <1>1, <1>2, <1>3, <1>4 DEF IInv, Inv, TypeOK, Frame, BatchIsClaimed, Dispatch
<1>8. HeldIsClaimed'
  BY <1>1, <1>2, <1>3, <1>4 DEF IInv, Inv, HeldIsClaimed, Dispatch
<1>9. PlansAreOwn'
  <2> SUFFICES ASSUME NEW a \in Exec \cup Looker, NEW x \in plan[a] PROVE OwnDecision(a, x)'
    BY DEF PlansAreOwn, Dispatch
  <2>1. x \in Decision /\ OwnDecision(a, x)
    BY DEF IInv, Inv, TypeOK, PlansAreOwn
  <2> QED
    BY <1>1, <1>2, <1>3, <1>4, <2>1 DEF OwnDecision, Decision, Undelivered, Dispatch
<1>10. JudgedConfirmed'
  BY <1>1, <1>2, <1>3, <1>4 DEF IInv, Inv, JudgedConfirmed, Judged, Dispatch
<1> QED
  BY <1>5, <1>6, <1>7, <1>8, <1>9, <1>10 DEF IInv, Inv

\* The driver of e leaves claimQueue, with the pending envelopes S settled or
\* claimed, and the unfinished commits F.
Leaves(e, label, S, to, F) ==
    /\ \A c \in S : c \in Envelope /\ state[c] = "pending"
    /\ state' = [c \in Envelope |-> IF c \in S THEN to ELSE state[c]]
    /\ \A c \in F : c \in fenced \/ state[c] = "pending"
    /\ fenced' = F
    /\ UNCHANGED <<target, handed, accepted, plan>>
    /\ pc[e] = "reserving" /\ pc' = [pc EXCEPT ![e] = label]
    /\ \A x \in Exec : x # e => frame'[x] = frame[x]

\* That disturbs no other driver: what is pending is in no batch, in no hand and
\* in no decision to settle a claim.
LEMMA PendingMoves ==
    ASSUME IInv, NEW e \in Exec, NEW label \in {"gate", "reserved"},
           NEW S, NEW to \in {"claimed", "NOT_DELIVERED"}, NEW F, Leaves(e, label, S, to, F)
    PROVE  /\ state' \in [Envelope -> {"unsent"} \cup Unresolved \cup Resolved]
           /\ pc' \in [Exec -> PcLabels]
           /\ Fresh' /\ HandedOnce' /\ HeldIsClaimed' /\ PlansAreOwn' /\ JudgedConfirmed'
           /\ \A x \in Exec : x # e => \A c \in frame'[x].batch :
                /\ target'[c] = x /\ state'[c] \notin {"unsent", "pending"}
                /\ pc'[x] = "reserved" =>
                      handed'[c] = 0 /\ state'[c] \in {"claimed", "DELIVERY_UNKNOWN"}
<1> USE DEF Leaves
<1>1. \A x \in Exec : pc'[x] = IF x = e THEN label ELSE pc[x]
  BY DEF IInv, TypeOK
<1>2. \A c \in Envelope : state'[c] = IF c \in S THEN to ELSE state[c]
  OBVIOUS
<1>3. e \notin accepted
  BY NotYetAccepted
<1>4. \A c \in Envelope : state[c] = "pending" => handed[c] = 0
  BY DEF IInv, Inv, Fresh, Unhanded
<1>5. /\ state' \in [Envelope -> {"unsent"} \cup Unresolved \cup Resolved]
      /\ pc' \in [Exec -> PcLabels]
  BY DEF IInv, TypeOK, Unresolved, Resolved, Undelivered, PcLabels
<1>6. Fresh' /\ HandedOnce'
  BY <1>2, <1>4 DEF IInv, Inv, Fresh, HandedOnce
<1>7. HeldIsClaimed'
  BY <1>1, <1>2 DEF IInv, Inv, HeldIsClaimed
<1>8. PlansAreOwn'
  <2> SUFFICES ASSUME NEW a \in Exec \cup Looker, NEW d \in plan[a] PROVE OwnDecision(a, d)'
    BY DEF PlansAreOwn
  <2>1. d \in Decision /\ OwnDecision(a, d)
    BY DEF IInv, Inv, TypeOK, PlansAreOwn
  <2> QED
    BY <1>1, <1>2, <2>1 DEF OwnDecision, Decision, Undelivered
<1>9. JudgedConfirmed'
  BY <1>1, <1>2, <1>3, <1>4 DEF IInv, Inv, TypeOK, JudgedConfirmed, Judged
<1>10. ASSUME NEW x \in Exec, x # e, NEW c \in frame'[x].batch
       PROVE  /\ target'[c] = x /\ state'[c] \notin {"unsent", "pending"}
              /\ pc'[x] = "reserved" =>
                    handed'[c] = 0 /\ state'[c] \in {"claimed", "DELIVERY_UNKNOWN"}
  <2>1. c \in frame[x].batch /\ c \in Envelope
    BY <1>10 DEF IInv, TypeOK, Frame
  <2> QED
    BY <1>1, <1>2, <1>10, <2>1 DEF IInv, Inv, BatchIsClaimed
<1> QED
  BY <1>5, <1>6, <1>7, <1>8, <1>9, <1>10

LEMMA ClaimQueueSound == ASSUME IInv, NEW e \in Exec, ClaimQueue(e) PROVE IInv'
<1>. DEFINE S == Claimable(e)
<1>1. S \in SUBSET Envelope /\ \A c \in S : state[c] = "pending" /\ target[c] = e
  BY DEF Claimable, PendingQueue, PendingFor
<1>2. /\ pc[e] = "reserving"
      /\ state' = [c \in Envelope |-> IF c \in S THEN "claimed" ELSE state[c]]
      /\ frame' = [frame EXCEPT ![e].batch = S]
      /\ UNCHANGED <<target, mode, expired, fenced, recordVars, lookerVars, ghostVars, faults>>
  BY DEF ClaimQueue
<1>3. PICK label \in {"gate", "reserved"} : pc' = [pc EXCEPT ![e] = label]
  BY DEF ClaimQueue
<1>4. [frame[e] EXCEPT !.batch = S] \in Frame
  <2>1. frame[e] \in Frame
    BY DEF IInv, TypeOK
  <2> QED
    BY <1>1, <2>1 DEF Frame
<1>5. frame' \in [Exec -> Frame] /\ frame'[e].batch = S
      /\ \A x \in Exec : x # e => frame'[x] = frame[x]
  <2>1. frame' = [frame EXCEPT ![e] = [frame[e] EXCEPT !.batch = S]]
    BY <1>2
  <2>2. [frame[e] EXCEPT !.batch = S].batch = S
    BY DEF IInv, TypeOK, Frame
  <2> QED
    BY <1>4, <2>1, <2>2 DEF IInv, TypeOK
<1>6. fenced \in SUBSET Envelope /\ fenced' = fenced
      /\ \A c \in fenced : c \in fenced \/ state[c] = "pending"
  BY <1>2 DEF IInv, TypeOK
<1>7. /\ state' \in [Envelope -> {"unsent"} \cup Unresolved \cup Resolved]
      /\ pc' \in [Exec -> PcLabels]
      /\ Fresh' /\ HandedOnce' /\ HeldIsClaimed' /\ PlansAreOwn' /\ JudgedConfirmed'
      /\ \A x \in Exec : x # e => \A c \in frame'[x].batch :
           /\ target'[c] = x /\ state'[c] \notin {"unsent", "pending"}
           /\ pc'[x] = "reserved" =>
                 handed'[c] = 0 /\ state'[c] \in {"claimed", "DELIVERY_UNKNOWN"}
  <2>1. Leaves(e, label, S, "claimed", fenced)
    BY <1>1, <1>2, <1>3, <1>5, <1>6 DEF Leaves
  <2> HIDE DEF S
  <2> QED
    BY <2>1, PendingMoves, ZenonT(60)
<1>8. TypeOK'
  BY <1>2, <1>5, <1>7 DEF IInv, TypeOK
<1>9. ASSUME NEW c \in S
      PROVE  target'[c] = e /\ state'[c] = "claimed" /\ handed'[c] = 0
  BY <1>1, <1>2 DEF IInv, Inv, Fresh, Unhanded
<1>10. BatchIsClaimed'
  BY <1>5, <1>7, <1>9 DEF BatchIsClaimed
<1> QED
  BY <1>7, <1>8, <1>10 DEF IInv, Inv

LEMMA ClaimQueueThrowsSound == ASSUME IInv, NEW e \in Exec, ClaimQueueThrows(e) PROVE IInv'
<1>1. /\ pc[e] = "reserving" /\ pc' = [pc EXCEPT ![e] = "gate"]
      /\ UNCHANGED <<target, mode, expired, recordVars, frame, lookerVars, ghostVars>>
  BY DEF ClaimQueueThrows
<1>2. \A c \in Claimable(e) : c \in Envelope /\ state[c] = "pending" /\ fenced = {}
  BY DEF Claimable, PendingQueue, PendingFor
<1>3. PICK S \in SUBSET Claimable(e), F \in SUBSET Envelope :
        /\ state' = [d \in Envelope |-> IF d \in S THEN "NOT_DELIVERED" ELSE state[d]]
        /\ fenced' = F /\ \A c \in F : c \in fenced \/ state[c] = "pending"
        /\ faults' \in Nat
  <2>1. CASE Fault /\ UNCHANGED <<state, fenced>>
    <3>1. state' = [d \in Envelope |-> IF d \in {} THEN "NOT_DELIVERED" ELSE state[d]]
      BY <2>1 DEF IInv, TypeOK
    <3>2. fenced \in SUBSET Envelope /\ fenced' = fenced /\ faults' \in Nat
      BY <2>1 DEF IInv, TypeOK
    <3>3. {} \in SUBSET Claimable(e)
      OBVIOUS
    <3> USE <3>2, <3>3
    <3> WITNESS {} \in SUBSET Claimable(e), fenced \in SUBSET Envelope
    <3> QED
      BY <3>1, <3>2
  <2>2. ASSUME NEW c \in Claimable(e), NEW stuck \in SUBSET {d \in Claimable(e) : d < c},
               faults + 1 + Cardinality(stuck) <= MaxFaults,
               faults' = faults + 1 + Cardinality(stuck),
               fenced' = stuck \cup {c},
               state' = [d \in Envelope |->
                           IF d \in {x \in Claimable(e) : x < c} THEN "NOT_DELIVERED" ELSE state[d]]
        PROVE  \E S \in SUBSET Claimable(e), F \in SUBSET Envelope :
                 /\ state' = [d \in Envelope |-> IF d \in S THEN "NOT_DELIVERED" ELSE state[d]]
                 /\ fenced' = F /\ \A x \in F : x \in fenced \/ state[x] = "pending"
                 /\ faults' \in Nat
    <3>1. IsFiniteSet(stuck)
      <4>1. IsFiniteSet(Envelope)
        BY FS_Interval, ControlAssumption DEF Envelope
      <4> QED
        BY <1>2, <4>1, FS_Subset
    <3>2. faults' \in Nat
      BY <2>2, <3>1, FS_CardinalityType DEF IInv, TypeOK
    <3>3. stuck \cup {c} \in SUBSET Envelope /\ \A x \in stuck \cup {c} : state[x] = "pending"
      BY <1>2
    <3>4. {x \in Claimable(e) : x < c} \in SUBSET Claimable(e)
      OBVIOUS
    <3> QED
      BY <2>2, <3>2, <3>3, <3>4
  <2> QED
    BY <2>1, <2>2 DEF ClaimQueueThrows
<1>4. S \in SUBSET Envelope /\ \A c \in S : state[c] = "pending"
  BY <1>2
<1>5. /\ state' \in [Envelope -> {"unsent"} \cup Unresolved \cup Resolved]
      /\ pc' \in [Exec -> PcLabels]
      /\ Fresh' /\ HandedOnce' /\ HeldIsClaimed' /\ PlansAreOwn' /\ JudgedConfirmed'
      /\ \A x \in Exec : x # e => \A c \in frame'[x].batch :
           /\ target'[c] = x /\ state'[c] \notin {"unsent", "pending"}
           /\ pc'[x] = "reserved" =>
                 handed'[c] = 0 /\ state'[c] \in {"claimed", "DELIVERY_UNKNOWN"}
  <2>1. Leaves(e, "gate", S, "NOT_DELIVERED", F)
    BY <1>1, <1>3, <1>4 DEF Leaves
  <2> QED
    BY <2>1, PendingMoves
<1>6. TypeOK'
  BY <1>1, <1>3, <1>5 DEF IInv, TypeOK
<1>7. ASSUME NEW c \in frame'[e].batch
      PROVE  /\ target'[c] = e /\ state'[c] \notin {"unsent", "pending"}
             /\ pc'[e] # "reserved"
  <2>1. c \in Envelope /\ c \in frame[e].batch
    BY <1>1 DEF IInv, TypeOK, Frame
  <2>2. state'[c] = state[c]
    BY <1>3, <1>4, <2>1 DEF IInv, Inv, BatchIsClaimed
  <2> QED
    BY <1>1, <2>1, <2>2 DEF IInv, Inv, TypeOK, BatchIsClaimed
<1>8. BatchIsClaimed'
  BY <1>5, <1>7 DEF BatchIsClaimed
<1> QED
  BY <1>5, <1>6, <1>8 DEF IInv, Inv

LEMMA ExpireSound == ASSUME IInv, NEW c \in Envelope, Expire(c) PROVE IInv'
<1>1. TypeOK'
  BY DEF IInv, TypeOK, Expire
<1>2. Inv'
  BY DEF IInv, Inv, Expire, Fresh, BatchIsClaimed, HeldIsClaimed, PlansAreOwn, OwnDecision,
         JudgedConfirmed, Judged, HandedOnce
<1> QED
  BY <1>1, <1>2 DEF IInv

LEMMA DegradeSound == ASSUME IInv, NEW e \in Exec, Degrade(e) PROVE IInv'
<1>1. TypeOK'
  BY DEF IInv, TypeOK, Degrade
<1>2. Inv'
  BY DEF IInv, Inv, Degrade, Fresh, BatchIsClaimed, HeldIsClaimed, PlansAreOwn, OwnDecision,
         JudgedConfirmed, Judged, HandedOnce
<1> QED
  BY <1>1, <1>2 DEF IInv

LEMMA SubmitRefusedSound == ASSUME IInv, NEW s \in Operator, SubmitRefused(s) PROVE IInv'
<1>1. TypeOK'
  BY DEF IInv, TypeOK, SubmitRefused
<1>2. Inv'
  BY DEF IInv, Inv, SubmitRefused, Fresh, BatchIsClaimed, HeldIsClaimed, PlansAreOwn, OwnDecision,
         JudgedConfirmed, Judged, HandedOnce
<1> QED
  BY <1>1, <1>2 DEF IInv

\* The answer to a native turn/steer request.  When it cannot be settled the
\* session fails, and its batch is unknown.
LEMMA SettleSteerSound == ASSUME IInv, NEW e \in Exec, SettleSteer(e) PROVE IInv'
<1>1. pc[e] = "settling" /\ e \notin accepted
      /\ UNCHANGED <<target, mode, expired, bad, gone, want, ghostVars>>
  BY NotYetAccepted DEF SettleSteer
<1>2. frame[e] \in Frame
  BY DEF IInv, TypeOK
<1>3. PICK d \in plan[e] :
        \/ /\ Transition(d)
           /\ plan' = [plan EXCEPT ![e] = {}]
           /\ frame' = [frame EXCEPT ![e].held = 0]
           /\ pc' = [pc EXCEPT ![e] = "turn"]
           /\ UNCHANGED phase
        \/ /\ TransitionThrows(d)
           /\ plan' = [plan EXCEPT ![e] = {[d EXCEPT !.to = "DELIVERY_UNKNOWN"]}]
           /\ UNCHANGED <<phase, driverVars>>
        \/ /\ TransitionThrows(d)
           /\ plan' = [plan EXCEPT ![e] =
                           {[env |-> c, from |-> "claimed", to |-> "DELIVERY_UNKNOWN"]
                               : c \in frame[e].batch}]
           /\ frame' = [frame EXCEPT ![e].held = 0, ![e].ok = FALSE]
           /\ \E p \in {"validating", "unknown"} : phase' = [phase EXCEPT ![e] = p]
           /\ pc' = [pc EXCEPT ![e] = "confirming"]
  BY DEF SettleSteer
<1>4. d \in Decision /\ OwnDecision(e, d)
  BY DEF IInv, Inv, TypeOK, PlansAreOwn
<1>5. d.env \in Envelope /\ d.from \in Unresolved /\ d.to \in Resolved
  BY <1>4 DEF Decision
<1>. DEFINE lost == {[env |-> c, from |-> "claimed", to |-> "DELIVERY_UNKNOWN"]
                       : c \in frame[e].batch}
            again == {[d EXCEPT !.to = "DELIVERY_UNKNOWN"]}
<1>6. PICK S \in SUBSET Decision, label \in {"turn", "settling", "confirming"} :
        /\ plan' = [plan EXCEPT ![e] = S] /\ pc' = [pc EXCEPT ![e] = label]
        /\ \A x \in S : x.from = "claimed" =>
              state[x.env] \notin {"unsent", "pending"} /\ x.to = "DELIVERY_UNKNOWN"
  <2>1. CASE plan' = [plan EXCEPT ![e] = {}] /\ pc' = [pc EXCEPT ![e] = "turn"]
    <3> WITNESS {} \in SUBSET Decision, "turn" \in {"turn", "settling", "confirming"}
    <3> QED
      BY <2>1
  <2>2. CASE plan' = [plan EXCEPT ![e] = again] /\ UNCHANGED pc
    <3>1. again \in SUBSET Decision
      BY <1>4 DEF Decision, Resolved
    <3>2. pc' = [pc EXCEPT ![e] = "settling"]
      BY <1>1, <2>2 DEF IInv, TypeOK
    <3>3. \A x \in again : x.from = "claimed" =>
              state[x.env] \notin {"unsent", "pending"} /\ x.to = "DELIVERY_UNKNOWN"
      BY <1>4 DEF OwnDecision, Decision
    <3> QED
      BY <2>2, <3>1, <3>2, <3>3
  <2>3. CASE plan' = [plan EXCEPT ![e] = lost] /\ pc' = [pc EXCEPT ![e] = "confirming"]
    <3>1. lost \in SUBSET Decision
      BY <1>2 DEF Frame, Decision, Unresolved, Resolved
    <3>2. \A x \in lost : x.from = "claimed" =>
              state[x.env] \notin {"unsent", "pending"} /\ x.to = "DELIVERY_UNKNOWN"
      BY DEF IInv, Inv, BatchIsClaimed
    <3> QED
      BY <2>3, <3>1, <3>2
  <2> QED
    BY <1>3, <2>1, <2>2, <2>3
<1>7. /\ frame' \in [Exec -> Frame]
      /\ phase' \in [Exec -> {"none", "running", "validating", "unknown", "terminal"}]
      /\ \A x \in Exec : frame'[x].batch = frame[x].batch
      /\ \A x \in Exec : x # e => frame'[x] = frame[x]
  <2>1. [frame[e] EXCEPT !.held = 0] \in Frame
        /\ [frame[e] EXCEPT !.held = 0, !.ok = FALSE] \in Frame
        /\ [frame[e] EXCEPT !.held = 0].batch = frame[e].batch
        /\ [frame[e] EXCEPT !.held = 0, !.ok = FALSE].batch = frame[e].batch
    BY <1>2 DEF Frame
  <2>2. \/ UNCHANGED frame
        \/ frame' = [frame EXCEPT ![e] = [frame[e] EXCEPT !.held = 0]]
        \/ frame' = [frame EXCEPT ![e] = [frame[e] EXCEPT !.held = 0, !.ok = FALSE]]
    BY <1>3
  <2>3. UNCHANGED phase \/ \E p \in {"validating", "unknown"} : phase' = [phase EXCEPT ![e] = p]
    BY <1>3
  <2>4. phase' \in [Exec -> {"none", "running", "validating", "unknown", "terminal"}]
    BY <2>3 DEF IInv, TypeOK
  <2>5. ASSUME NEW f \in Frame, f.batch = frame[e].batch, frame' = [frame EXCEPT ![e] = f]
        PROVE  /\ frame' \in [Exec -> Frame]
               /\ \A x \in Exec : frame'[x].batch = frame[x].batch
               /\ \A x \in Exec : x # e => frame'[x] = frame[x]
    BY <2>5 DEF IInv, TypeOK
  <2>6. UNCHANGED frame => frame' \in [Exec -> Frame]
    BY DEF IInv, TypeOK
  <2> QED
    BY <2>1, <2>2, <2>4, <2>5, <2>6
<1>8. /\ state' \in [Envelope -> {"unsent"} \cup Unresolved \cup Resolved]
      /\ fenced' \in SUBSET Envelope /\ faults' \in Nat
      /\ Fresh'
      /\ \A c \in Envelope :
           /\ state'[c] = state[c]
              \/ (c = d.env /\ state[c] = d.from /\ state'[c] = d.to)
           /\ c \in fenced' => c \in fenced \/ state[c] \in Unresolved
  <2>1. Transition(d) \/ TransitionThrows(d)
    BY <1>3
  <2>2. UNCHANGED handed
    BY <1>1
  <2>3. d.from = "claimed" /\ d.to \in Undelivered => handed[d.env] = 0
    BY <1>4 DEF OwnDecision
  <2> QED
    BY <1>4, <2>1, <2>2, <2>3, TransitionSound
<1>9. /\ \A x \in Exec : pc'[x] = IF x = e THEN label ELSE pc[x]
      /\ \A a \in Exec \cup Looker : plan'[a] = IF a = e THEN S ELSE plan[a]
  BY <1>6 DEF IInv, TypeOK
<1>10. TypeOK'
  BY <1>1, <1>6, <1>7, <1>8 DEF IInv, TypeOK, PcLabels
<1>11. ASSUME NEW c \in Envelope, state[c] \notin {"unsent", "pending"}
       PROVE  /\ state'[c] \notin {"unsent", "pending"}
              /\ state'[c] # state[c] => d.from = "claimed" /\ c = d.env /\ state'[c] = d.to
  BY <1>5, <1>8, <1>11 DEF Unresolved, Resolved, Undelivered, Delivered
<1>12. ASSUME NEW c \in Envelope, NEW x \in Exec, x # e, target[c] = x,
              state[c] \in {"claimed", "DELIVERY_UNKNOWN"}
       PROVE  state'[c] \in {"claimed", "DELIVERY_UNKNOWN"}
  BY <1>4, <1>8, <1>11, <1>12 DEF OwnDecision
<1>13. BatchIsClaimed'
  <2> SUFFICES ASSUME NEW x \in Exec, NEW c \in frame[x].batch
               PROVE  /\ target[c] = x /\ state'[c] \notin {"unsent", "pending"}
                      /\ pc'[x] = "reserved" =>
                            handed[c] = 0 /\ state'[c] \in {"claimed", "DELIVERY_UNKNOWN"}
    BY <1>1, <1>7 DEF BatchIsClaimed
  <2>1. c \in Envelope
    BY DEF IInv, TypeOK, Frame
  <2>2. /\ target[c] = x /\ state[c] \notin {"unsent", "pending"}
        /\ pc[x] = "reserved" =>
              handed[c] = 0 /\ state[c] \in {"claimed", "DELIVERY_UNKNOWN"}
    BY DEF IInv, Inv, BatchIsClaimed
  <2> QED
    BY <1>9, <1>11, <1>12, <2>1, <2>2
<1>14. HeldIsClaimed'
  BY <1>1, <1>7, <1>9, <1>12 DEF IInv, Inv, HeldIsClaimed
<1>15. PlansAreOwn'
  <2>1. ASSUME NEW x \in S PROVE OwnDecision(e, x)'
    <3>1. x.env \in Envelope
      BY DEF Decision
    <3> QED
      BY <1>6, <1>11, <3>1 DEF OwnDecision, Undelivered
  <2>2. ASSUME NEW a \in Exec \cup Looker, a # e, NEW x \in plan[a] PROVE OwnDecision(a, x)'
    <3>1. x \in Decision /\ OwnDecision(a, x)
      BY DEF IInv, Inv, TypeOK, PlansAreOwn
    <3> QED
      BY <1>1, <1>9, <1>11, <2>2, <3>1 DEF OwnDecision, Decision, Undelivered
  <2> QED
    BY <1>9, <2>1, <2>2 DEF PlansAreOwn
<1>16. JudgedConfirmed'
  BY <1>1, <1>5, <1>8, <1>9 DEF IInv, Inv, JudgedConfirmed, Judged, Unresolved, Delivered
<1>17. HandedOnce'
  BY <1>1 DEF IInv, Inv, HandedOnce
<1> QED
  BY <1>8, <1>10, <1>13, <1>14, <1>15, <1>16, <1>17 DEF IInv, Inv

------------------------------------------------------------------------------
LEMMA InvariantHolds == IInv /\ [Next]_vars => IInv'
<1> SUFFICES ASSUME IInv, [Next]_vars PROVE IInv'
  OBVIOUS
<1>1. ASSUME NEW e \in Exec, Steer(e) PROVE IInv'
  BY <1>1, PollSound, TakeSound, ClaimSteerSound, SteerAnsweredSound, SettleSteerSound DEF Steer
<1>2. ASSUME NEW e \in Exec, Confirm(e) \/ Refuse(e) \/ EndNext(e) PROVE IInv'
  <2>1. e \in Exec \cup Looker
    OBVIOUS
  <2> QED
    BY <1>2, <2>1, SettleSound DEF Confirm, Refuse, EndNext
<1>3. ASSUME NEW e \in Exec, Deliver(e) PROVE IInv'
  BY <1>2, <1>3, PassSound, ClaimQueueSound, ClaimQueueThrowsSound, RefuseTurnSound,
     DispatchSound DEF Deliver
<1>4. ASSUME NEW e \in Exec, End(e) PROVE IInv'
  BY <1>2, <1>4, PassSound, GateSound, LandSound, EndExecutionSound DEF End
<1>5. ASSUME NEW e \in Exec, StartRun(e) \/ Drive(e) \/ Degrade(e) \/ Crash(e) PROVE IInv'
  BY <1>1, <1>3, <1>4, <1>5, PassSound, TurnEndsSound, DegradeSound, CrashSound DEF Drive
<1>6. ASSUME NEW s \in Operator, Operate(s) PROVE IInv'
  BY <1>6, BeginSubmitSound, SubmitSound, SubmitRefusedSound DEF Operate
<1>7. ASSUME NEW s \in Looker, SweepNext(s) PROVE IInv'
  <2>1. s \in Exec \cup Looker
    OBVIOUS
  <2> QED
    BY <1>7, <2>1, SettleSound DEF SweepNext
<1>8. CASE UNCHANGED vars
  <2>1. TypeOK'
    BY <1>8 DEF IInv, TypeOK, vars
  <2>2. Inv'
    BY <1>8 DEF IInv, Inv, vars, Fresh, BatchIsClaimed, HeldIsClaimed, PlansAreOwn, OwnDecision,
                JudgedConfirmed, Judged, HandedOnce
  <2> QED
    BY <2>1, <2>2 DEF IInv
<1> QED
  BY <1>5, <1>6, <1>7, <1>8, BeginSweepSound, ExpireSound DEF Next

\* The inductive invariant holds of every behaviour.
THEOREM ControlCorrect == Spec => []IInv
<1> QED
  BY InitSound, InvariantHolds, PTL DEF Spec

\* The store and the drivers' locals keep their types (dispositions of steering.ts,
\* the phases of execution-observation.ts).
THEOREM ControlTypeCorrect == Spec => []TypeOK
<1>1. IInv => TypeOK
  BY DEF IInv
<1> QED
  BY <1>1, ControlCorrect, PTL

\* takeInFlight, steerPort and deliverQueuedControls together hand an instruction
\* to a worker at most once.
THEOREM HandsOverOnce == Spec => []HandedOnce
<1>1. IInv => HandedOnce
  BY DEF IInv, Inv
<1> QED
  BY <1>1, ControlCorrect, PTL

\* Neither a sweep on an old reading nor the driver's own settlement reports an
\* instruction that a worker has seen as undelivered.
THEOREM ReceiptsAreTrue == Spec => []NoFalseReceipt
<1>1. IInv => NoFalseReceipt
  BY DEF IInv, Inv, Fresh, NoFalseReceipt, Unhanded
<1> QED
  BY <1>1, ControlCorrect, PTL

\* Delivery at most once, and what the receipts say of it, for any number of envelopes,
\* executions, sweeps and crashes.
THEOREM DeliveriesAreReceipted == Spec => []DeliveredAsReceipted
<1>1. HandedOnce /\ NoFalseReceipt => DeliveredAsReceipted
  BY DEF DeliveredAsReceipted
<1> QED
  BY <1>1, HandsOverOnce, ReceiptsAreTrue, PTL

\* A candidate that passed the lineage gate and landed was given no instruction
\* whose delivery is unconfirmed.
THEOREM AcceptedAreConfirmed == Spec => []AcceptedConfirmed
<1>1. IInv => AcceptedConfirmed
  BY DEF IInv, Inv, TypeOK, JudgedConfirmed, Judged, AcceptedConfirmed
<1> QED
  BY <1>1, ControlCorrect, PTL

\* A disposition is final: a transition commits only what it reads again as
\* unresolved.
LEMMA ResolvedStays == TypeOK /\ [Next]_vars =>
    \A c \in Envelope : state[c] \in Resolved => state'[c] = state[c]
<1> SUFFICES ASSUME TypeOK, [Next]_vars, NEW c \in Envelope, state[c] \in Resolved
             PROVE  state'[c] = state[c]
  OBVIOUS
<1>0. state[c] \notin {"unsent", "pending", "claimed"}
  BY DEF Resolved, Undelivered, Delivered
<1>1. ASSUME NEW d, d.from \in Unresolved, Transition(d) \/ TransitionThrows(d)
      PROVE  state'[c] = state[c]
  BY <1>0, <1>1 DEF Transition, TransitionThrows, Current, TypeOK, Unresolved
<1>2. ASSUME NEW a \in Exec \cup Looker, SettleNext(a) PROVE state'[c] = state[c]
  BY <1>1, <1>2 DEF SettleNext, TypeOK, Decision
<1>3. ASSUME NEW e \in Exec, SettleSteer(e) PROVE state'[c] = state[c]
  BY <1>1, <1>3 DEF SettleSteer, TypeOK, Decision
<1>4. ASSUME NEW e \in Exec, Take(e) PROVE state'[c] = state[c]
  <2>1. Steered(e).from \in Unresolved
    BY DEF Steered, Unresolved
  <2> QED
    BY <1>1, <1>4, <2>1 DEF Take
<1>5. ASSUME NEW e \in Exec, ClaimSteer(e) PROVE state'[c] = state[c]
  BY <1>0, <1>5 DEF ClaimSteer, PendingSteer, PendingFor, TypeOK
<1>6. ASSUME NEW e \in Exec, ClaimQueue(e) \/ ClaimQueueThrows(e) PROVE state'[c] = state[c]
  <2>1. c \notin Claimable(e)
    BY <1>0 DEF Claimable, PendingQueue, PendingFor
  <2> QED
    BY <1>6, <2>1 DEF ClaimQueue, ClaimQueueThrows
<1>7. ASSUME NEW s \in Operator, Operate(s) PROVE state'[c] = state[c]
  BY <1>0, <1>7 DEF Operate, BeginSubmit, Submit, SubmitRefused, Unsent, TypeOK
<1>8. ASSUME NEW e \in Exec, Steer(e) \/ Deliver(e) \/ End(e) PROVE state'[c] = state[c]
  <2>1. e \in Exec \cup Looker
    OBVIOUS
  <2> QED
    BY <1>2, <1>3, <1>4, <1>5, <1>6, <1>8, <2>1 DEF Steer, Deliver, End, Poll, SteerAnswered,
       PeekQueue, AdmitTurn, RefuseTurn, Refuse, Refused, Dispatch, Confirm, Confirmed,
       Gate, Land, EndExecution, EndNext, Finish
<1>9. ASSUME NEW e \in Exec, StartRun(e) \/ Drive(e) \/ Degrade(e) \/ Crash(e)
      PROVE  state'[c] = state[c]
  BY <1>8, <1>9 DEF StartRun, Drive, TurnEnds, Degrade, Crash
<1>10. ASSUME NEW s \in Looker, SweepNext(s) PROVE state'[c] = state[c]
  BY <1>2, <1>10 DEF SweepNext
<1>11. CASE BeginSweep \/ (\E x \in Envelope : Expire(x)) \/ UNCHANGED vars
  BY <1>11 DEF BeginSweep, Expire, vars
<1> QED
  BY <1>7, <1>9, <1>10, <1>11 DEF Next

\* transition (steering.ts) never rewrites a disposition, whatever was read before.
THEOREM DispositionsAreFinal == Spec => ReceiptsFinal
<1>1. IInv => TypeOK
  BY DEF IInv
<1>2. TypeOK /\ [Next]_vars =>
          [\A c \in Envelope : state[c] \in Resolved => state'[c] = state[c]]_vars
  BY ResolvedStays
<1> QED
  BY <1>1, <1>2, ControlCorrect, PTL DEF Spec, ReceiptsFinal

-----------------------------------------------------------------------------
(***************************************************************************)
(* Pausing, starting and moving a project (Handoff).  Whoever is past the  *)
(* entrance holds the gate, so that a start that has looked at the stop    *)
(* file finds it as it was; and what the backlog shows as done is merged,  *)
(* also in a copy whose bundle was made after its backlog was read.        *)
(***************************************************************************)
GateHeld ==
    /\ doing \in [Consoles -> {"idle", "in", "second", "spawning"}]
    /\ \A c \in Consoles : doing[c] # "idle" => gate = c
    /\ \A c \in Consoles : doing[c] = "spawning" => ~halted

DoneIsMerged ==
    /\ done \subseteq merged
    /\ draft # Nobody => draft \subseteq merged
    /\ worker \in [Workers -> {"off", "up", "idle", "picked", "working", "merged", "reported"}]
    /\ \A w \in Workers : worker[w] = "merged" => ours[w] \in merged

CopyIsMerged ==
    /\ stage \in 0 .. 9
    /\ copy = [merged |-> copy.merged, done |-> copy.done, claims |-> copy.claims]
    /\ copy.done \subseteq merged
    /\ stage > 6 => copy.done \subseteq copy.merged
    /\ kept # Nobody =>
         /\ kept = [copy |-> kept.copy, intact |-> kept.intact]
         /\ kept.intact => kept.copy.done \subseteq kept.copy.merged
    /\ Host!RestoredIsMerged

HostInv == GateHeld /\ DoneIsMerged /\ CopyIsMerged

LEMMA HostInit == Host!Init => HostInv
<1> SUFFICES ASSUME Host!Init PROVE HostInv
  OBVIOUS
<1>1. GateHeld
  BY DEF Host!Init, GateHeld
<1>2. DoneIsMerged
  BY DEF Host!Init, DoneIsMerged
<1>3. CopyIsMerged
  BY DEF Host!Init, Host!Nothing, CopyIsMerged, Host!RestoredIsMerged
<1> QED BY <1>1, <1>2, <1>3 DEF HostInv

LEMMA GateStep == GateHeld /\ [Host!Next]_(Host!vars) => GateHeld'
<1> SUFFICES ASSUME GateHeld, [Host!Next]_(Host!vars) PROVE GateHeld'
  OBVIOUS
<1> USE DEF GateHeld
<1>1. ASSUME NEW c \in Consoles, NEW what, Host!Enter(c, what) PROVE GateHeld'
  BY <1>1 DEF Host!Enter, Host!Free, Host!Go
<1>2. ASSUME NEW c \in Consoles, Host!Pause(c) \/ Host!Resume(c) PROVE GateHeld'
  <2>1. /\ doing[c] = "in" /\ doing' = [doing EXCEPT ![c] = "idle"] /\ gate' = Nobody
    BY <1>2 DEF Host!Pause, Host!Resume, Host!Out, Host!Go
  <2>2. \A d \in Consoles : doing'[d] = "idle"
    BY <2>1
  <2> QED BY <2>1, <2>2
<1>3. ASSUME NEW c \in Consoles, Host!PauseAll(c) PROVE GateHeld'
  <2>1. CASE doing[c] = "in" /\ halted' = TRUE /\ Host!Go(c, "second") /\ gate' = gate
    BY <2>1 DEF Host!Go
  <2>2. CASE doing[c] = "second" /\ Host!Out(c)
    BY <2>2 DEF Host!Out, Host!Go
  <2> QED BY <1>3, <2>1, <2>2 DEF Host!PauseAll
<1>4. ASSUME NEW c \in Consoles, Host!CheckStop(c) \/ Host!ClearStop(c) PROVE GateHeld'
  <2>1. CASE doing[c] = "in" /\ Host!Out(c)
    BY <2>1 DEF Host!Out, Host!Go
  <2>2. CASE doing[c] = "in" /\ ~halted' /\ Host!Go(c, "spawning") /\ gate' = gate
    BY <2>2 DEF Host!Go
  <2> QED BY <1>4, <2>1, <2>2 DEF Host!CheckStop, Host!ClearStop
<1>5. ASSUME NEW c \in Consoles, NEW w \in Workers, Host!Spawn(c, w) PROVE GateHeld'
  BY <1>5 DEF Host!Spawn, Host!Out, Host!Go
<1>6. ASSUME NEW c \in Consoles, Host!ConsoleDies(c) PROVE GateHeld'
  BY <1>6 DEF Host!ConsoleDies, Host!Go
<1>7. CASE UNCHANGED Host!gateVars
  BY <1>7 DEF Host!gateVars
<1>8. CASE Host!RunnerTurns
  BY <1>8 DEF Host!RunnerTurns
<1>9. CASE Host!ReadBacklog
  BY <1>9 DEF Host!ReadBacklog
<1>10. CASE Host!WriteBacklog \/ Host!Works \/ Host!Moves \/ UNCHANGED Host!vars
  <2>1. UNCHANGED Host!gateVars
    BY <1>10 DEF Host!WriteBacklog, Host!Works, Host!Boot, Host!Leave, Host!Pick, Host!Claim,
         Host!Merge, Host!Report, Host!Release, Host!WorkerDies, Host!Moves, Host!BeginBackup,
         Host!CheckQuiet, Host!CheckIntegration, Host!CopyBacklog, Host!CheckClaims,
         Host!CopyLedger, Host!CopyBundle, Host!Publish, Host!BackupFails, Host!Damaged,
         Host!Restore, Host!Goes, Host!Ends, Host!vars
  <2> QED BY <2>1, <1>7
<1> QED
  BY <1>1, <1>2, <1>3, <1>4, <1>5, <1>6, <1>8, <1>9, <1>10 DEF Host!Next, Host!Commands

\* While the project is paused no worker starts.
LEMMA PauseStep == GateHeld /\ [Host!Next]_(Host!vars) =>
    [\A w \in Workers : ~Host!Alive(w) /\ worker'[w] = "up" => ~halted]_(Host!vars)
<1> SUFFICES ASSUME GateHeld, Host!Next, NEW v \in Workers, ~Host!Alive(v), worker'[v] = "up"
             PROVE  ~halted
  BY DEF Host!Alive
<1> USE DEF Host!Alive
<1>1. CASE \E c \in Consoles, w \in Workers : Host!Spawn(c, w)
  BY <1>1 DEF GateHeld, Host!Spawn
<1>2. CASE worker' = worker
  BY <1>2
<1>3. ASSUME NEW w \in Workers, NEW s, s # "up", worker' = [worker EXCEPT ![w] = s] PROVE FALSE
  BY <1>3
<1>4. CASE Host!Works
  <2>1. \E w \in Workers, s \in {"off", "idle", "picked", "working", "merged", "reported"} :
           worker' = [worker EXCEPT ![w] = s]
    BY <1>4 DEF Host!Works, Host!Boot, Host!Leave, Host!Pick, Host!Claim, Host!Merge,
         Host!Report, Host!Release, Host!WorkerDies, Host!Turn, Host!Off
  <2> QED BY <2>1, <1>3
<1>5. CASE Host!ReadBacklog \/ Host!WriteBacklog \/ Host!RunnerTurns
  BY <1>2, <1>5 DEF Host!ReadBacklog, Host!WriteBacklog, Host!RunnerTurns, Host!workVars
<1>6. CASE Host!Moves
  BY <1>2, <1>6 DEF Host!Moves, Host!BeginBackup,
         Host!CheckQuiet, Host!CheckIntegration, Host!CopyBacklog, Host!CheckClaims,
         Host!CopyLedger, Host!CopyBundle, Host!Publish, Host!BackupFails, Host!Damaged,
         Host!Restore, Host!Goes, Host!Ends, Host!workVars
<1>7. CASE Host!Commands
  BY <1>1, <1>2, <1>7 DEF Host!Commands, Host!Enter, Host!Pause, Host!Resume, Host!PauseAll,
         Host!CheckStop, Host!ClearStop, Host!ConsoleDies, Host!workVars
<1> QED
  BY <1>4, <1>5, <1>6, <1>7 DEF Host!Next

LEMMA DoneStep == DoneIsMerged /\ [Host!Next]_(Host!vars) => DoneIsMerged' /\ merged \subseteq merged'
<1> SUFFICES ASSUME DoneIsMerged, [Host!Next]_(Host!vars)
             PROVE  DoneIsMerged' /\ merged \subseteq merged'
  OBVIOUS
<1> USE DEF DoneIsMerged
<1>1. CASE UNCHANGED Host!workVars
  BY <1>1 DEF Host!workVars
<1>2. CASE Host!ReadBacklog \/ Host!WriteBacklog
  BY <1>2 DEF Host!ReadBacklog, Host!WriteBacklog
<1>3. ASSUME NEW w \in Workers, Host!Merge(w) PROVE DoneIsMerged' /\ merged \subseteq merged'
  BY <1>3 DEF Host!Merge, Host!Turn
<1>4. ASSUME NEW w \in Workers, Host!Report(w) PROVE DoneIsMerged' /\ merged \subseteq merged'
  BY <1>4 DEF Host!Report, Host!Turn
<1>5. ASSUME NEW w \in Workers, Host!Pick(w) PROVE DoneIsMerged' /\ merged \subseteq merged'
  <2>1. /\ worker' = [worker EXCEPT ![w] = "picked"] /\ UNCHANGED <<merged, done, draft>>
        /\ \E t : ours' = [ours EXCEPT ![w] = t]
    BY <1>5 DEF Host!Pick, Host!Turn
  <2> QED BY <2>1
<1>6. ASSUME NEW w \in Workers, NEW s \in {"off", "up", "idle", "working"},
             worker' = [worker EXCEPT ![w] = s], UNCHANGED <<ours, merged, done, draft>>
      PROVE  DoneIsMerged' /\ merged \subseteq merged'
  BY <1>6
<1>7. CASE Host!Works
  <2>1. ASSUME NEW w \in Workers, Host!Boot(w) \/ Host!Leave(w) \/ Host!Claim(w) \/ Host!Release(w)
                                  \/ Host!WorkerDies(w)
        PROVE  DoneIsMerged' /\ merged \subseteq merged'
    BY <1>6, <2>1 DEF Host!Boot, Host!Leave, Host!Claim, Host!Release, Host!WorkerDies,
         Host!Turn, Host!Off
  <2> QED BY <1>3, <1>4, <1>5, <1>7, <2>1 DEF Host!Works
<1>8. CASE Host!RunnerTurns \/ Host!Moves \/ UNCHANGED Host!vars
  <2>1. UNCHANGED Host!workVars
    BY <1>8 DEF Host!RunnerTurns, Host!Moves, Host!BeginBackup,
         Host!CheckQuiet, Host!CheckIntegration, Host!CopyBacklog, Host!CheckClaims,
         Host!CopyLedger, Host!CopyBundle, Host!Publish, Host!BackupFails, Host!Damaged,
         Host!Restore, Host!Goes, Host!Ends, Host!vars
  <2> QED BY <2>1, <1>1
<1>9. CASE Host!Commands
  <2>1. CASE \E c \in Consoles, w \in Workers : Host!Spawn(c, w)
    BY <1>6, <2>1 DEF Host!Spawn
  <2>2. CASE UNCHANGED Host!workVars
    BY <2>2, <1>1
  <2> QED BY <1>9, <2>1, <2>2 DEF Host!Commands, Host!Enter, Host!Pause, Host!Resume,
         Host!PauseAll, Host!CheckStop, Host!ClearStop, Host!ConsoleDies
<1> QED
  BY <1>2, <1>7, <1>8, <1>9 DEF Host!Next

LEMMA CopyStep == HostInv /\ [Host!Next]_(Host!vars) => CopyIsMerged'
<1> SUFFICES ASSUME HostInv, [Host!Next]_(Host!vars) PROVE CopyIsMerged'
  OBVIOUS
<1> USE DEF CopyIsMerged, Host!RestoredIsMerged
<1>1. merged \subseteq merged' /\ CopyIsMerged /\ done \subseteq merged
  BY DoneStep DEF HostInv, DoneIsMerged
<1>2. CASE UNCHANGED Host!backupVars
  BY <1>1, <1>2 DEF Host!backupVars
<1>3. CASE Host!Commands \/ Host!ReadBacklog \/ Host!WriteBacklog \/ Host!Works \/ Host!RunnerTurns
           \/ UNCHANGED Host!vars
  <2>1. UNCHANGED Host!backupVars
    BY <1>3 DEF Host!Commands, Host!Enter, Host!Pause, Host!Resume, Host!PauseAll,
         Host!CheckStop, Host!ClearStop, Host!ConsoleDies, Host!Spawn, Host!ReadBacklog,
         Host!WriteBacklog, Host!Works, Host!Boot, Host!Leave, Host!Pick, Host!Claim,
         Host!Merge, Host!Report, Host!Release, Host!WorkerDies, Host!RunnerTurns, Host!vars
  <2> QED BY <2>1, <1>2
<1>4. ASSUME Host!Moves PROVE CopyIsMerged'
  <2> USE DEF Host!At
  <2>1. CASE Host!BeginBackup
    BY <1>1, <2>1 DEF Host!BeginBackup, Host!Goes, Host!Nothing, Host!workVars
  <2>2. CASE Host!CheckQuiet \/ Host!CheckIntegration \/ Host!CheckClaims \/ Host!CopyLedger
    <3>1. /\ stage \in {1, 2, 4, 5, 7, 8} /\ stage' = stage + 1 /\ merged' = merged
          /\ kept' = kept /\ home' = home
      BY <1>1, <2>2 DEF Host!Steps, Host!CheckQuiet, Host!CheckIntegration, Host!CheckClaims,
           Host!CopyLedger, Host!Goes, Host!workVars
    <3>2. copy' = copy \/ copy' = [copy EXCEPT !.claims = claims]
      BY <2>2 DEF Host!CheckQuiet, Host!CheckIntegration, Host!CheckClaims, Host!CopyLedger, Host!Goes
    <3> QED BY <1>1, <3>1, <3>2
  <2>3. CASE Host!CopyBacklog
    <3>1. stage = 3 /\ stage' = 4 /\ merged' = merged /\ kept' = kept /\ home' = home
      BY <1>1, <2>3 DEF Host!Steps, Host!CopyBacklog, Host!Goes, Host!workVars
    <3>2. copy' = [copy EXCEPT !.done = done]
      BY <2>3 DEF Host!CopyBacklog, Host!Goes
    <3> QED BY <1>1, <3>1, <3>2
  <2>4. CASE Host!CopyBundle
    <3>1. stage = 6 /\ stage' = 7 /\ merged' = merged /\ kept' = kept /\ home' = home
      BY <1>1, <2>4 DEF Host!Steps, Host!CopyBundle, Host!Goes, Host!workVars
    <3>2. copy' = [copy EXCEPT !.merged = merged]
      BY <2>4 DEF Host!CopyBundle, Host!Goes
    <3> QED BY <1>1, <3>1, <3>2
  <2>5. CASE Host!Publish
    <3>1. stage = 9
      BY <1>1, <2>5 DEF Host!Steps, Host!Publish
    <3> QED BY <1>1, <2>5, <3>1 DEF Host!Publish, Host!Ends, Host!Nothing, Host!workVars
  <2>6. CASE Host!BackupFails
    BY <1>1, <2>6 DEF Host!BackupFails, Host!Ends, Host!Nothing, Host!workVars
  <2>7. CASE Host!Damaged
    BY <1>1, <2>7 DEF Host!Damaged, Host!workVars
  <2>8. CASE Host!Restore
    BY <1>1, <2>8 DEF Host!Restore, Host!workVars
  <2> QED BY <1>4, <2>1, <2>2, <2>3, <2>4, <2>5, <2>6, <2>7, <2>8 DEF Host!Moves
<1> QED
  BY <1>3, <1>4 DEF Host!Next

\* A project changes hosts with nothing at work and with everything that is done: what the
\* restored backlog shows as done is in its repository, and no worker starts while the
\* project is paused (backupState, restoreState, withPauseGate, withWebPauseGate, lockFor).
THEOREM HandoverStaysSafe == Host!Spec => HandoverIsSafe
<1>1. HostInv /\ [Host!Next]_(Host!vars) => HostInv'
  BY GateStep, DoneStep, CopyStep DEF HostInv
<1>2. HostInv => Host!RestoredIsMerged
  BY DEF HostInv, CopyIsMerged
<1>3. HostInv /\ [Host!Next]_(Host!vars) =>
         [\A w \in Workers : ~Host!Alive(w) /\ worker'[w] = "up" => ~halted]_(Host!vars)
  BY PauseStep DEF HostInv
<1> QED
  BY HostInit, <1>1, <1>2, <1>3, PTL DEF Host!Spec, HandoverIsSafe, Host!HandoverIsSafe, Host!PauseHolds
=============================================================================
