---------------------------- MODULE ControlStore ----------------------------
(***************************************************************************)
(* engines/steering.ts and engines/queued-controls.ts: what an operator    *)
(* tells a worker that is already at work.  An instruction is an envelope, *)
(* bound to one execution.  STEER goes into the running turn, QUEUE into a *)
(* follow-up turn of the same execution; whatever is not delivered must be *)
(* settled without ever being delivered later or twice.                    *)
(*                                                                         *)
(* The envelopes are files.  The daemon that drives an execution, the bot, *)
(* the CLI and the next cycle of the daemon all read the directory without *)
(* a lock and then settle envelope after envelope, each under a lock that  *)
(* does not wait.  A commit writes an intent, the receipt and the record,  *)
(* and removes the intent; when it fails half-way the intent stays for     *)
(* good, its envelope is never read again, and nothing is delivered or     *)
(* accepted in this directory any more.                                    *)
(***************************************************************************)
EXTENDS Naturals, FiniteSets

CONSTANTS
    Exec,          \* executions, each driven by a daemon of its own
    Operator,      \* processes that submit: the bot, the CLI
    Cycle,         \* whoever sweeps: the daemon's next cycle, the list command
    Steerable,     \* executions whose adapter takes instructions during a turn
    MaxEnvelopes,  \* bound: envelopes on file
    MaxPending,    \* MAX_PENDING_PER_EXECUTION
    MaxTurns,      \* MAX_CONTROL_TURNS
    MaxFaults      \* bound: failing writes, busy locks and degraded observations

ASSUME ControlAssumption ==
    /\ Exec # {}
    /\ Operator \cap Exec = {} /\ Cycle \notin Exec \cup Operator
    /\ Steerable \subseteq Exec
    /\ MaxEnvelopes \in Nat /\ MaxPending \in Nat /\ MaxTurns \in Nat /\ MaxFaults \in Nat

Envelope == 1..MaxEnvelopes
Looker   == Operator \cup {Cycle}

VARIABLES
    \* the envelopes in order of submission, those past their time to live,
    \* and those whose commit was left unfinished
    target, mode, state, expired, fenced,
    \* the execution records: phase, degraded or cancelled, host process gone
    phase, bad, gone,
    \* the driver of each execution and its locals
    pc, frame,
    \* what a process has read and is about to settle; what it wants to submit
    plan, want,
    \* seen from outside: how often a worker was given an envelope, and the
    \* executions whose candidate was accepted
    handed, accepted,
    faults

envelopeVars == <<target, mode, state, expired, fenced>>
recordVars   == <<phase, bad, gone>>
driverVars   == <<pc, frame>>
lookerVars   == <<plan, want>>
ghostVars    == <<handed, accepted>>
vars == <<envelopeVars, recordVars, driverVars, lookerVars, ghostVars, faults>>

------------------------------------------------------------------------------
\* Dispositions of an envelope that is resolved.
Undelivered == {"NOT_DELIVERED", "STALE", "REJECTED"}
Delivered   == {"STEERED", "DELIVERED"}
Resolved    == Undelivered \cup Delivered \cup {"DELIVERY_UNKNOWN"}
Unresolved  == {"pending", "claimed"}

\* One envelope to settle: the state it was read in and its disposition.
Decision == [env : Envelope, from : Unresolved, to : Resolved]

\* The driver's locals: envelopes claimed for the turn, the STEER it has in
\* hand, whether the last turn succeeded, follow-up turns so far.
Frame == [batch : SUBSET Envelope, held : Envelope \cup {0}, ok : BOOLEAN, turns : Nat]

Blank == [batch |-> {}, held |-> 0, ok |-> TRUE, turns |-> 0]

PcLabels == {"new", "turn", "taking", "steering", "settling", "deciding", "admitting",
             "reserving", "reserved", "refusing", "confirming", "gate", "merging", "closing",
             "ending", "finishing", "over"}

First(c, S) == c \in S /\ \A d \in S : c <= d

Goto(e, label) == pc' = [pc EXCEPT ![e] = label]

\* A write that fails, a lock that is busy, an observation that degrades.
Fault == faults < MaxFaults /\ faults' = faults + 1

\* Executions that readExecution reports fit to receive.
Reachable(e) == e \notin bad /\ e \notin gone

\* pendingFor: an unfinished commit anywhere hides every pending envelope.
PendingFor(e) ==
    {c \in Envelope : fenced = {} /\ state[c] = "pending" /\ target[c] = e /\ c \notin expired}

(***************************************************************************)
(* transition: under the lock, and only when the envelope is still in the  *)
(* state it was read in.  A claimId is not needed here: an envelope that   *)
(* was claimed is never pending again.                                     *)
(***************************************************************************)

Current(d) ==
    /\ d.env \notin fenced
    /\ state[d.env] = d.from
    /\ d.to \in Delivered => fenced = {}

Transition(d) ==
    /\ state' = IF Current(d) THEN [state EXCEPT ![d.env] = d.to] ELSE state
    /\ UNCHANGED <<fenced, faults>>

\* It throws: the lock is busy, or the commit fails and its intent stays.  The
\* record behind an intent is never read again, so its content does not matter.
TransitionThrows(d) ==
    /\ Fault
    /\ UNCHANGED state
    /\ \/ UNCHANGED fenced
       \/ Current(d) /\ fenced' = fenced \cup {d.env}

\* One step of a loop over envelopes that swallows the exception of each.
SettleNext(a) ==
    \E d \in plan[a] :
        /\ First(d.env, {x.env : x \in plan[a]})
        /\ Transition(d) \/ TransitionThrows(d)
        /\ plan' = [plan EXCEPT ![a] = @ \ {d}]

------------------------------------------------------------------------------
Init ==
    /\ target = [c \in Envelope |-> CHOOSE e \in Exec : TRUE]
    /\ mode = [c \in Envelope |-> "QUEUE"]
    /\ state = [c \in Envelope |-> "unsent"]
    /\ expired = {} /\ fenced = {}
    /\ phase = [e \in Exec |-> "none"]
    /\ bad = {} /\ gone = {}
    /\ pc = [e \in Exec |-> "new"]
    /\ frame = [e \in Exec |-> Blank]
    /\ plan = [a \in Exec \cup Looker |-> {}]
    /\ want = [s \in Operator |-> "none"]
    /\ handed = [c \in Envelope |-> 0]
    /\ accepted = {}
    /\ faults = 0

------------------------------------------------------------------------------
(* sweep: list, submit and every cycle of the daemon begin with it. *)

Dead(e) == phase[e] = "terminal" \/ e \in gone

\* What the sweep decides about an envelope; a claimed one is left to its driver
\* while that may live.
SweepTo(c) ==
    IF state[c] = "claimed" THEN "DELIVERY_UNKNOWN"
    ELSE IF mode[c] = "STEER" /\ c \notin expired THEN "NOT_DELIVERED" ELSE "STALE"

\* Mutant: only the time to live is looked at.
SweepableExpired ==
    {c \in Envelope : /\ c \notin fenced
                      /\ state[c] = "pending" /\ c \in expired}

Sweepable ==
    {c \in Envelope : /\ c \notin fenced
                      /\ state[c] \in Unresolved
                      /\ Dead(target[c]) \/ (state[c] = "pending" /\ c \in expired)}

SweepPlan == {[env |-> c, from |-> state[c], to |-> SweepTo(c)] : c \in Sweepable}

\* createControls of the daemon's cycle, and list: the directory is read
\* without the lock.
BeginSweep ==
    /\ plan[Cycle] = {} /\ SweepPlan # {}
    /\ plan' = [plan EXCEPT ![Cycle] = SweepPlan]
    /\ UNCHANGED <<envelopeVars, recordVars, driverVars, want, ghostVars, faults>>

\* submit sweeps before it takes the lock.
BeginSubmit(s) ==
    /\ plan[s] = {} /\ want[s] = "none"
    /\ \E m \in {"STEER", "QUEUE"} : want' = [want EXCEPT ![s] = m]
    /\ plan' = [plan EXCEPT ![s] = SweepPlan]
    /\ UNCHANGED <<envelopeVars, recordVars, driverVars, ghostVars, faults>>

SweepNext(s) ==
    /\ SettleNext(s)
    /\ UNCHANGED <<target, mode, expired, recordVars, driverVars, want, ghostVars>>

------------------------------------------------------------------------------
(* submitUnlocked, under the lock. *)

Unsent == {c \in Envelope : state[c] = "unsent"}

Room(e) ==
    Cardinality({c \in Envelope \ fenced :
                    /\ target[c] = e
                    /\ state[c] = "claimed" \/ (state[c] = "pending" /\ c \notin expired)})
        < MaxPending

\* A STEER that comes after the turn is over is turned into a QUEUE; during a
\* turn the adapter has to take it.
Accepts(e, m) ==
    /\ phase[e] \in {"running", "validating"} /\ Reachable(e)
    /\ Room(e)
    /\ (m = "STEER" /\ phase[e] = "running") => e \in Steerable

FiledMode(e, m) == IF m = "STEER" /\ phase[e] = "running" THEN "STEER" ELSE "QUEUE"

\* An envelope is filed, as pending or as a rejection (also for its text, or for
\* a text that is pending already).
Submit(s) ==
    /\ want[s] # "none" /\ plan[s] = {}
    /\ fenced = {}
    /\ \E e \in Exec, c \in Unsent :
        /\ First(c, Unsent)
        /\ target' = [target EXCEPT ![c] = e]
        /\ mode' = [mode EXCEPT ![c] = FiledMode(e, want[s])]
        /\ \/ Accepts(e, want[s]) /\ state' = [state EXCEPT ![c] = "pending"]
           \/ state' = [state EXCEPT ![c] = "REJECTED"]
        /\ \/ UNCHANGED <<fenced, faults>>
           \/ fenced' = {c} /\ Fault
    /\ want' = [want EXCEPT ![s] = "none"]
    /\ UNCHANGED <<expired, recordVars, driverVars, plan, ghostVars>>

\* The lock is busy; or an unfinished commit or a full directory, which is
\* answered without a record.
SubmitRefused(s) ==
    /\ want[s] # "none" /\ plan[s] = {}
    /\ \/ (fenced # {} \/ Unsent = {}) /\ UNCHANGED faults
       \/ Fault
    /\ want' = [want EXCEPT ![s] = "none"]
    /\ UNCHANGED <<envelopeVars, recordVars, driverVars, plan, ghostVars>>

------------------------------------------------------------------------------
(* The worker's turns, and STEER. *)

StartRun(e) ==
    /\ pc[e] = "new"
    /\ phase' = [phase EXCEPT ![e] = "running"]
    /\ Goto(e, "turn")
    /\ UNCHANGED <<envelopeVars, bad, gone, frame, lookerVars, ghostVars, faults>>

MaySteer(e) == e \in Steerable /\ phase[e] = "running" /\ Reachable(e)

PendingSteer(e) == {c \in PendingFor(e) : mode[c] = "STEER"}

\* takeInFlight reads the first STEER without the lock ...
Poll(e) ==
    /\ pc[e] = "turn" /\ MaySteer(e)
    /\ \E c \in PendingSteer(e) :
        First(c, PendingSteer(e)) /\ frame' = [frame EXCEPT ![e].held = c]
    /\ Goto(e, "taking")
    /\ UNCHANGED <<envelopeVars, recordVars, lookerVars, ghostVars, faults>>

Steered(e) == [env |-> frame[e].held, from |-> "pending", to |-> "STEERED"]

\* ... and gives it to the worker only when it could still be marked STEERED.
Take(e) ==
    /\ pc[e] = "taking"
    /\ \/ /\ Transition(Steered(e))
          /\ handed' = IF Current(Steered(e))
                       THEN [handed EXCEPT ![frame[e].held] = @ + 1] ELSE handed
       \/ TransitionThrows(Steered(e)) /\ UNCHANGED handed
    /\ frame' = [frame EXCEPT ![e].held = 0]
    /\ Goto(e, "turn")
    /\ UNCHANGED <<target, mode, expired, recordVars, lookerVars, accepted>>

\* steerPort.claim: the first STEER is read and claimed under one lock.  When
\* that fails the port returns nothing.
ClaimSteer(e) ==
    /\ pc[e] = "turn" /\ MaySteer(e)
    /\ \E c \in PendingSteer(e) :
        /\ First(c, PendingSteer(e))
        /\ \/ /\ state' = [state EXCEPT ![c] = "claimed"]
              /\ frame' = [frame EXCEPT ![e].held = c]
              /\ Goto(e, "steering")
              /\ UNCHANGED <<fenced, faults>>
           \/ Fault /\ fenced' = {c} /\ UNCHANGED <<state, driverVars>>
    /\ UNCHANGED <<target, mode, expired, recordVars, lookerVars, ghostVars>>

\* The native session answers the turn/steer request, rejects it, or nobody
\* knows: the answer is lost or names another turn.
SteerAnswered(e) ==
    /\ pc[e] = "steering"
    /\ \E to \in {"STEERED", "NOT_DELIVERED", "DELIVERY_UNKNOWN"} :
        /\ plan' = [plan EXCEPT ![e] =
                        {[env |-> frame[e].held, from |-> "claimed", to |-> to]}]
        /\ \/ to # "NOT_DELIVERED" /\ handed' = [handed EXCEPT ![frame[e].held] = @ + 1]
           \/ to # "STEERED" /\ UNCHANGED handed
    /\ Goto(e, "settling")
    /\ UNCHANGED <<envelopeVars, recordVars, frame, want, accepted, faults>>

\* settle throws instead of returning false: an answered request is then
\* settled once more, as DELIVERY_UNKNOWN; after that the session fails.
SettleSteer(e) ==
    /\ pc[e] = "settling"
    /\ \E d \in plan[e] :
        \/ /\ Transition(d)
           /\ plan' = [plan EXCEPT ![e] = {}]
           /\ frame' = [frame EXCEPT ![e].held = 0]
           /\ Goto(e, "turn")
           /\ UNCHANGED phase
        \/ /\ TransitionThrows(d) /\ d.to # "NOT_DELIVERED"
           /\ plan' = [plan EXCEPT ![e] = {[d EXCEPT !.to = "DELIVERY_UNKNOWN"]}]
           /\ UNCHANGED <<phase, driverVars>>
        \/ /\ TransitionThrows(d) /\ d.to # "STEERED"
           /\ plan' = [plan EXCEPT ![e] =
                           {[env |-> c, from |-> "claimed", to |-> "DELIVERY_UNKNOWN"]
                               : c \in frame[e].batch}]
           /\ frame' = [frame EXCEPT ![e].held = 0, ![e].ok = FALSE]
           /\ \E p \in {"validating", "unknown"} : phase' = [phase EXCEPT ![e] = p]
           /\ Goto(e, "confirming")
    /\ UNCHANGED <<target, mode, expired, bad, gone, want, ghostVars>>

\* The worker's process ends.  A follow-up turn that succeeded is confirmed,
\* one that failed leaves its instructions unknown; the phase is "unknown" when
\* the process did not end by itself.
TurnEnds(e, ok) ==
    /\ pc[e] = "turn"
    /\ frame' = [frame EXCEPT ![e].ok = ok]
    /\ plan' = [plan EXCEPT ![e] =
                   {[env |-> c, from |-> "claimed",
                     to |-> IF ok THEN "DELIVERED" ELSE "DELIVERY_UNKNOWN"]
                       : c \in frame[e].batch}]
    /\ \/ phase' = [phase EXCEPT ![e] = "validating"]
       \/ ~ok /\ phase' = [phase EXCEPT ![e] = "unknown"]
    /\ Goto(e, "confirming")
    /\ UNCHANGED <<envelopeVars, bad, gone, want, ghostVars, faults>>

\* markDelivered and finishClaim: one envelope of the batch at a time.
Confirm(e) ==
    /\ pc[e] = "confirming"
    /\ SettleNext(e)
    /\ UNCHANGED <<target, mode, expired, recordVars, driverVars, want, ghostVars>>

Confirmed(e) ==
    /\ pc[e] = "confirming" /\ plan[e] = {}
    /\ frame' = [frame EXCEPT ![e].batch = {}]
    /\ Goto(e, IF frame[e].ok THEN "deciding" ELSE "closing")
    /\ UNCHANGED <<envelopeVars, recordVars, lookerVars, ghostVars, faults>>

------------------------------------------------------------------------------
(* deliverQueuedControls: QUEUE, at the boundary of a turn. *)

PendingQueue(e) == {c \in PendingFor(e) : mode[c] = "QUEUE"}

\* peekQueue, without the lock; then the admission awaits a preflight.
PeekQueue(e) ==
    /\ pc[e] = "deciding"
    /\ Goto(e, IF e \in bad THEN "closing"
               ELSE IF frame[e].turns < MaxTurns /\ PendingQueue(e) # {} THEN "admitting"
               ELSE "gate")
    /\ UNCHANGED <<envelopeVars, recordVars, frame, lookerVars, ghostVars, faults>>

\* additionalTurnAdmission: the preflight, a stop file or the budget.
AdmitTurn(e) ==
    /\ pc[e] = "admitting"
    /\ \/ e \notin bad /\ Goto(e, "reserving")
       \/ Goto(e, "gate")
    /\ UNCHANGED <<envelopeVars, recordVars, frame, lookerVars, ghostVars, faults>>

\* Mutant: the batch is read again but not claimed.
ClaimQueueReads(e) ==
    /\ pc[e] = "reserving"
    /\ frame' = [frame EXCEPT ![e].batch = PendingQueue(e)]
    /\ Goto(e, IF PendingQueue(e) = {} THEN "gate" ELSE "reserved")
    /\ UNCHANGED <<envelopeVars, recordVars, lookerVars, ghostVars, faults>>

\* What claimQueue finds for a target that can still receive.
Claimable(e) ==
    IF Reachable(e) /\ phase[e] \in {"running", "validating"} THEN PendingQueue(e) ELSE {}

\* claimQueue: the whole pending FIFO is claimed under one lock.
ClaimQueue(e) ==
    /\ pc[e] = "reserving"
    /\ state' = [c \in Envelope |-> IF c \in Claimable(e) THEN "claimed" ELSE state[c]]
    /\ frame' = [frame EXCEPT ![e].batch = Claimable(e)]
    /\ Goto(e, IF Claimable(e) = {} THEN "gate" ELSE "reserved")
    /\ UNCHANGED <<target, mode, expired, fenced, recordVars, lookerVars, ghostVars, faults>>

\* The lock is busy; or the commit of one envelope fails, and those claimed
\* before it are resolved again, which may fail too.
ClaimQueueThrows(e) ==
    /\ pc[e] = "reserving"
    /\ \/ Fault /\ UNCHANGED <<state, fenced>>
       \/ \E c \in Claimable(e) :
            LET before == {d \in Claimable(e) : d < c}
            IN  \E stuck \in SUBSET before :
                    /\ faults + 1 + Cardinality(stuck) <= MaxFaults
                    /\ faults' = faults + 1 + Cardinality(stuck)
                    /\ fenced' = stuck \cup {c}
                    /\ state' = [d \in Envelope |->
                                    IF d \in before THEN "NOT_DELIVERED" ELSE state[d]]
    /\ Goto(e, "gate")
    /\ UNCHANGED <<target, mode, expired, recordVars, frame, lookerVars, ghostVars>>

\* The team ledger, or the hook, refuses the turn: no worker was called.
RefuseTurn(e) ==
    /\ pc[e] = "reserved"
    /\ plan' = [plan EXCEPT ![e] =
                   {[env |-> c, from |-> "claimed", to |-> "NOT_DELIVERED"] : c \in frame[e].batch}]
    /\ Goto(e, "refusing")
    /\ UNCHANGED <<envelopeVars, recordVars, frame, want, ghostVars, faults>>

Refuse(e) ==
    /\ pc[e] = "refusing"
    /\ SettleNext(e)
    /\ UNCHANGED <<target, mode, expired, recordVars, driverVars, want, ghostVars>>

Refused(e) ==
    /\ pc[e] = "refusing" /\ plan[e] = {}
    /\ frame' = [frame EXCEPT ![e].batch = {}]
    /\ Goto(e, "gate")
    /\ UNCHANGED <<envelopeVars, recordVars, lookerVars, ghostVars, faults>>

\* The worker is called with the instructions of the batch.
Dispatch(e) ==
    /\ pc[e] = "reserved"
    /\ handed' = [c \in Envelope |-> IF c \in frame[e].batch THEN handed[c] + 1 ELSE handed[c]]
    /\ frame' = [frame EXCEPT ![e].turns = @ + 1]
    /\ phase' = [phase EXCEPT ![e] = "running"]
    /\ Goto(e, "turn")
    /\ UNCHANGED <<envelopeVars, bad, gone, lookerVars, accepted, faults>>

------------------------------------------------------------------------------
(* The end of the execution. *)

\* Mutant: unconfirmed deliveries are not looked at.
LineageAny(e) == fenced = {}

\* lineage: every commit is finished and no delivery of the execution is
\* unconfirmed.  Otherwise the gate throws and the candidate is blocked.
Lineage(e) ==
    /\ fenced = {}
    /\ \A c \in Envelope : target[c] = e => state[c] \notin {"claimed", "DELIVERY_UNKNOWN"}

Gate(e) ==
    /\ pc[e] = "gate"
    /\ \/ Lineage(e) /\ e \notin bad /\ Goto(e, "merging")
       \/ Goto(e, "closing")
    /\ UNCHANGED <<envelopeVars, recordVars, frame, lookerVars, ghostVars, faults>>

\* The candidate lands; recoveryRequired is looked at again before.
Land(e) ==
    /\ pc[e] = "merging"
    /\ accepted' = IF e \in bad THEN accepted ELSE accepted \cup {e}
    /\ Goto(e, "closing")
    /\ UNCHANGED <<envelopeVars, recordVars, frame, lookerVars, handed, faults>>

EndTo(c) == IF state[c] = "claimed" THEN "DELIVERY_UNKNOWN"
            ELSE IF mode[c] = "STEER" THEN "NOT_DELIVERED" ELSE "STALE"

\* endExecution reads what is unresolved, without the lock, even when some
\* commit is unfinished; and settles it one by one.
EndExecution(e) ==
    /\ pc[e] = "closing"
    /\ plan' = [plan EXCEPT ![e] =
                   {[env |-> c, from |-> state[c], to |-> EndTo(c)] :
                        c \in {d \in Envelope \ fenced : target[d] = e /\ state[d] \in Unresolved}}]
    /\ Goto(e, "ending")
    /\ UNCHANGED <<envelopeVars, recordVars, frame, want, ghostVars, faults>>

EndNext(e) ==
    /\ pc[e] = "ending"
    /\ SettleNext(e)
    /\ UNCHANGED <<target, mode, expired, recordVars, driverVars, want, ghostVars>>

\* observation.finish: terminal, or unknown when recovery is required.
Finish(e) ==
    /\ pc[e] = "ending" /\ plan[e] = {}
    /\ phase' = [phase EXCEPT ![e] = IF e \in bad \/ @ = "unknown" THEN "unknown" ELSE "terminal"]
    /\ frame' = [frame EXCEPT ![e] = Blank]
    /\ Goto(e, "over")
    /\ UNCHANGED <<envelopeVars, bad, gone, lookerVars, ghostVars, faults>>

------------------------------------------------------------------------------
(* The environment: time, cancellation, crashes. *)

Expire(c) ==
    /\ state[c] = "pending" /\ c \notin expired
    /\ expired' = expired \cup {c}
    /\ UNCHANGED <<target, mode, state, fenced, recordVars, driverVars, lookerVars,
                   ghostVars, faults>>

\* A cancellation is requested, or the observation can no longer be trusted.
Degrade(e) ==
    /\ pc[e] \notin {"new", "over"} /\ e \notin bad \cup gone
    /\ Fault
    /\ bad' = bad \cup {e}
    /\ phase' \in {phase, [phase EXCEPT ![e] = "unknown"]}
    /\ UNCHANGED <<envelopeVars, gone, driverVars, lookerVars, ghostVars>>

\* The daemon dies, and the worker's session with it.
Crash(e) ==
    /\ pc[e] \notin {"new", "over"}
    /\ gone' = gone \cup {e}
    /\ pc' = [pc EXCEPT ![e] = "over"]
    /\ frame' = [frame EXCEPT ![e] = Blank]
    /\ plan' = [plan EXCEPT ![e] = {}]
    /\ UNCHANGED <<envelopeVars, phase, bad, want, ghostVars, faults>>

------------------------------------------------------------------------------
Steer(e)   == Poll(e) \/ Take(e) \/ ClaimSteer(e) \/ SteerAnswered(e) \/ SettleSteer(e)
Deliver(e) == \/ PeekQueue(e) \/ AdmitTurn(e) \/ ClaimQueue(e) \/ ClaimQueueThrows(e)
              \/ RefuseTurn(e) \/ Refuse(e) \/ Refused(e) \/ Dispatch(e)
              \/ Confirm(e) \/ Confirmed(e)
End(e)     == Gate(e) \/ Land(e) \/ EndExecution(e) \/ EndNext(e) \/ Finish(e)

Drive(e) == \/ Steer(e) \/ Deliver(e) \/ End(e)
            \/ \E ok \in BOOLEAN : TurnEnds(e, ok)

Operate(s) == BeginSubmit(s) \/ Submit(s) \/ SubmitRefused(s)

Next ==
    \/ \E e \in Exec : StartRun(e) \/ Drive(e) \/ Degrade(e) \/ Crash(e)
    \/ \E s \in Operator : Operate(s)
    \/ \E s \in Looker : SweepNext(s)
    \/ BeginSweep
    \/ \E c \in Envelope : Expire(c)

Spec == Init /\ [][Next]_vars

\* A driver keeps running: turns, preflights and gates have timeouts.  A daemon
\* keeps cycling, and every cycle sweeps.  No operator has to look.
Fairness ==
    /\ \A e \in Exec : WF_vars(Drive(e))
    /\ WF_vars(BeginSweep) /\ WF_vars(SweepNext(Cycle))
    /\ \A c \in Envelope : WF_vars(Expire(c))

FairSpec == Spec /\ Fairness

------------------------------------------------------------------------------
(* Properties. *)

\* The envelopes on file, the records and the locals keep their types.
TypeOK ==
    /\ target \in [Envelope -> Exec]
    /\ mode \in [Envelope -> {"STEER", "QUEUE"}]
    /\ state \in [Envelope -> {"unsent"} \cup Unresolved \cup Resolved]
    /\ expired \in SUBSET Envelope /\ fenced \in SUBSET Envelope
    /\ phase \in [Exec -> {"none", "running", "validating", "unknown", "terminal"}]
    /\ bad \in SUBSET Exec /\ gone \in SUBSET Exec
    /\ pc \in [Exec -> PcLabels]
    /\ frame \in [Exec -> Frame]
    /\ plan \in [Exec \cup Looker -> SUBSET Decision]
    /\ want \in [Operator -> {"none", "STEER", "QUEUE"}]
    /\ handed \in [Envelope -> Nat]
    /\ accepted \in SUBSET Exec
    /\ faults \in Nat

\* No instruction is given to a worker twice: not after a failing write, nor
\* after a turn whose end could not be confirmed, nor by both channels.
HandedOnce == \A c \in Envelope : handed[c] <= 1

\* A receipt that says an instruction was not delivered is true, also when the
\* sweep of another process decided it on an old reading.
NoFalseReceipt == \A c \in Envelope : state[c] \in Undelivered => handed[c] = 0

\* Both together: a receipt never hides a delivery, and there is at most one.
DeliveredAsReceipted == HandedOnce /\ NoFalseReceipt

\* Every instruction that reached the worker of an accepted candidate has a
\* committed receipt of its delivery: the candidate is not judged by less than
\* what the worker was told.
AcceptedConfirmed ==
    \A c \in Envelope :
        target[c] \in accepted /\ handed[c] > 0 => state[c] \in Delivered /\ c \notin fenced

\* A resolved envelope is never rewritten, whatever a process read before.
ReceiptsFinal ==
    [][\A c \in Envelope : state[c] \in Resolved => state'[c] = state[c]]_vars

\* Every envelope that was accepted is settled in the end, by its driver, by a
\* sweep or by its time to live; unless its commit is unfinished, or the end of
\* the execution that claimed it is itself unconfirmed.
Settled ==
    \A c \in Envelope :
        (state[c] \in Unresolved)
            ~> \/ state[c] \in Resolved
               \/ c \in fenced
               \/ state[c] = "claimed" /\ phase[target[c]] = "unknown"
=============================================================================
