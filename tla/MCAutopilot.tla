---------------------------- MODULE MCAutopilot ----------------------------
(* The outer loop of the daemon, and the regression suite in shards: a      *)
(* behaviour is one of the one or one of the other.                         *)
EXTENDS Integers, Sequences, TLC

CONSTANTS Problems, Manual, Nothing, NoProgressLimit, SupplementLimit, MaxScore, Cooldown,
          MaxMoment, MaxIncidents
VARIABLES moment, goal, problems, last, manualDone, halt, other, place, began, case, open,
          noProgress, score, round, result, verified, ran, failing,
          discovered, touched, lost, incidents
Au == INSTANCE Autopilot
    WITH None <- Nothing, MaxTime <- MaxMoment, MaxFaults <- MaxIncidents,
         now <- moment, ledger <- problems, pc <- place, faults <- incidents
auVars == <<moment, goal, problems, last, manualDone, halt, other, place, began, case, open,
            noProgress, score, round, result, verified, ran, failing, discovered,
            touched, lost, incidents>>
ASSUME LoopAssumption == Au!AutopilotAssumption

CONSTANTS CI_SHARDS, Suites, MaxRuns, MaxChanges
VARIABLES id, job, checkout, phase, lap, seen, undone, child, receipt, left, uploaded, runs, changes
Ci == INSTANCE SuiteShards WITH pc <- phase, round <- lap, faults <- changes, MaxFaults <- MaxChanges
ciVars == <<id, job, checkout, phase, lap, seen, undone, child, receipt, left, uploaded, runs, changes>>
ASSUME SuiteAssumption == Ci!SuiteShardsAssumption

VARIABLE part
allVars == <<auVars, ciVars, part>>

\* The last job of the last run the bound allows may end.
BothInit == part \in {"autopilot", "suite"} /\ Au!Init /\ Ci!Init
BothNext == \/ part = "autopilot" /\ Au!Next /\ UNCHANGED <<ciVars, part>>
            \/ part = "suite" /\ Ci!Next /\ UNCHANGED <<auVars, part>>
            \/ part = "suite" /\ runs = MaxRuns /\ UNCHANGED allVars
\* The fairness of Autopilot!FairSpec.
BothSpec == /\ BothInit /\ [][BothNext]_allVars
            /\ WF_allVars(part = "autopilot" /\ Au!Cycle /\ UNCHANGED <<ciVars, part>>)

\* Autopilot!CycleEnds, of the behaviours of the outer loop.
AutopilotCycleEnds == part = "autopilot" => Au!CycleEnds
LedgerIsTrue == Au!LedgerIsTrue
SuiteIsReal == Ci!SuiteIsReal

\* Two heads of the repository: the second has a spec more and one less.
MCSuites == <<<<"a", "b", "c">>, <<"b", "c", "d">>>>
=============================================================================
