----------------------------- MODULE MCBackends -----------------------------
(* Machines for TLC whose work has to come to an end, or to fit.  A behaviour *)
(* is one of three:                                                           *)
(*   "cap"      the team ledger with more turns to run than the hard cap and  *)
(*              the attempt cap have room for;                                *)
(*   "queue"    the team queue within a daemon and between daemons;           *)
(*   "horizon"  the long-horizon drive.                                       *)
EXTENDS MCTeamState

CONSTANTS QueueTasks
QueueHome == [t \in QueueTasks |-> HomeOf(t)]
QueueManifest == [t \in QueueTasks |-> ScopesOf(t)]
VARIABLES qPc, qTask, qFrame, qState, qActive, qLapsed, qReserved, qExtra, qRow, qSeq, qCaptain,
          qCaptainLapsed, qBacklog, qMain, qSpent, qStop, qFaults
Queue == INSTANCE TeamState
    WITH Task <- QueueTasks, Home <- QueueHome, Manifest <- QueueManifest,
         FixedCost <- 0, HardCap <- 0, AttemptCap <- 0, MaxTurns <- 1,
         pc <- qPc, task <- qTask, frame <- qFrame, state <- qState, active <- qActive,
         lapsed <- qLapsed, reserved <- qReserved, extra <- qExtra, row <- qRow, seq <- qSeq,
         captain <- qCaptain, captainLapsed <- qCaptainLapsed, backlog <- qBacklog,
         main <- qMain, spent <- qSpent, stop <- qStop, faults <- qFaults
qVars == <<qPc, qTask, qFrame, qState, qActive, qLapsed, qReserved, qExtra, qRow, qSeq, qCaptain,
           qCaptainLapsed, qBacklog, qMain, qSpent, qStop, qFaults>>

CONSTANTS Driver, Operator, High, Fp, MaxRounds, SameLimit, MaxOrders, MaxErrors
VARIABLES disk, checkpoints, interrupt, lock, at, mem, step, to, op, orders, errors, granted, consulted

Horizon == INSTANCE LongHorizon WITH pc <- at, faults <- errors, MaxFaults <- MaxErrors
horizonVars == <<disk, checkpoints, interrupt, lock, at, mem, step, to, op, orders, errors,
                 granted, consulted>>

VARIABLE part
allVars == <<vars, qVars, horizonVars, part>>

BackendsInit == /\ part \in {"cap", "queue", "horizon"}
                /\ Init /\ Queue!Init /\ Horizon!Init
BackendsNext == \/ part = "cap" /\ Next /\ UNCHANGED <<qVars, horizonVars, part>>
                \/ part = "queue" /\ Queue!Next /\ UNCHANGED <<vars, horizonVars, part>>
                \/ part = "horizon" /\ Horizon!Next /\ UNCHANGED <<vars, qVars, part>>

\* The fairness of the specifications whose progress is checked.
Team(A) == part = "queue" /\ A /\ UNCHANGED <<vars, horizonVars, part>>
Drive(A) == part = "horizon" /\ A /\ UNCHANGED <<vars, qVars, part>>
BackendsSpec ==
    /\ BackendsInit /\ [][BackendsNext]_allVars
    /\ \A e \in Exec : WF_allVars(Team(Queue!Progress(e))) /\ WF_allVars(Team(Queue!LapseClaim(e)))
    /\ WF_allVars(Team(Queue!LapseCaptain))
    /\ \A d \in Driver : WF_allVars(Drive(Horizon!DriverStep(d)))

\* TeamState!TurnHandedOn and LongHorizon!DriveEnds, each of the behaviours of its machine:
\* who waits for the turn gets it or is turned away, and a drive parks or dies.
QueueMoves == part = "queue" => Queue!TurnHandedOn
DriveEnds == part = "horizon" => Horizon!DriveEnds
=============================================================================
