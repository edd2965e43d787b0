------------------------------ MODULE MCGithub ------------------------------
(* The two levels of the GitHub integration for TLC: the owner that gives its *)
(* repositories turns, and the runner of one repository's issue.  A behaviour *)
(* is one of the one or one of the other.                                     *)
EXTENDS GithubIssue

CONSTANTS MaxRepo, Busy, Churn, MaxLosses
VARIABLES listed, found, saved, cursor, at, order, current, executed, marker, lost, served, losses

Owner == INSTANCE GithubOwner WITH pc <- at, faults <- losses, MaxFaults <- MaxLosses
ownerVars == <<listed, found, saved, cursor, at, order, current, executed, marker, lost, served, losses>>
ASSUME Owner!GithubOwnerAssumption

VARIABLE part
allVars == <<vars, ownerVars, part>>

GithubInit == part \in {"owner", "issue"} /\ Init /\ Owner!Init
GithubNext == \/ part = "issue" /\ Next /\ UNCHANGED <<ownerVars, part>>
              \/ part = "owner" /\ Owner!Next /\ UNCHANGED <<vars, part>>

\* The fairness of GithubIssue!FairSpec and of GithubOwner!FairSpec.
OfIssue(A) == part = "issue" /\ A /\ UNCHANGED <<ownerVars, part>>
OfOwner(A) == part = "owner" /\ A /\ UNCHANGED <<vars, part>>
GithubSpec ==
    /\ GithubInit /\ [][GithubNext]_allVars
    /\ WF_allVars(OfIssue(Tick)) /\ WF_allVars(OfIssue(Runs))
    /\ WF_allVars(OfOwner(Owner!Returns \/ Owner!Dispatch \/ Owner!Sync \/ Owner!Finish))
    /\ SF_allVars(OfOwner(Owner!Start)) /\ WF_allVars(OfOwner(Owner!OperatorRecovers))

\* GithubIssue!ComesToRest and GithubOwner!EachServed, each of its own behaviours.
IssueRests == part = "issue" => ComesToRest
EachServed == part = "owner" => Owner!EachServed
UnknownHeld == Owner!UnknownHeld
=============================================================================
