------------------------------ MODULE MCStores ------------------------------
(* Two stores under a lock file for TLC, the execution inventory and the     *)
(* backlog.  A behaviour is one of the one or one of the other.              *)
EXTENDS Execution, TLC

CONSTANTS Daemon, Users, t1, t2, MaxLines, MaxAsks, MaxLosses
Texts == {t1, t2}
\* What a task is split into, and what it is reopened under, has the second text.
Second == [t \in Texts |-> t2]

VARIABLES file, guard, old, sawOld, robbed, at, op, snap, picked, asks, losses
Lines == INSTANCE Backlog
    WITH Child <- Second, Again <- Second, MaxFaults <- MaxLosses,
         lock <- guard, pc <- at, faults <- losses
backlogVars == <<file, guard, old, sawOld, robbed, at, op, snap, picked, asks, losses>>
ASSUME LinesAssumption == Lines!BacklogAssumption

VARIABLE part
allVars == <<vars, backlogVars, part>>

\* Behaviours of the inventory leave one backlog as it is.
StoresInit == /\ part \in {"inventory", "backlog"} /\ Init /\ Lines!Init
              /\ part = "inventory" => file = <<>>
StoresNext == \/ part = "inventory" /\ Next /\ UNCHANGED <<backlogVars, part>>
              \/ part = "backlog" /\ Lines!Next /\ UNCHANGED <<vars, part>>

\* The fairness of Execution!FairSpec and of Backlog!FairSpec.
Run(A) == part = "inventory" /\ A /\ UNCHANGED <<backlogVars, part>>
Edit(A) == part = "backlog" /\ A /\ UNCHANGED <<vars, part>>
StoresSpec ==
    /\ StoresInit /\ [][StoresNext]_allVars
    /\ \A h \in Hosts : /\ WF_allVars(Run(Sample(h))) /\ WF_allVars(Run(Reaped(h)))
                        /\ WF_allVars(Run(Cancelled(h)))
    /\ WF_allVars(Edit(Lines!Work)) /\ WF_allVars(Edit(Lines!Ages))
    /\ \A p \in Users \cup {Daemon} : WF_allVars(Edit(Lines!Step(p)))

\* Execution!CancelStops and Backlog!Converges, each of the behaviours of its store.
CancellationStops == part = "inventory" => CancelStops
Converges == part = "backlog" => Lines!Converges
WritesAreCurrent == Lines!WritesAreCurrent
=============================================================================
