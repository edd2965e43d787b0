----------------------------- MODULE MCGuardian -----------------------------
(* The guardian over a supervised daemon, and the evidence of a repaired     *)
(* issue, for TLC: a behaviour is one of the one or one of the other.        *)
EXTENDS Guardian

CONSTANTS Configs, Custom, MaxChanges, MaxAccidents
VARIABLES cand, cfg, runner, tree, phase, job, got, undone, reg, acc, qual, changes, accidents
VARIABLE part

Ev == INSTANCE IssueEvidence WITH pc <- phase, faults <- accidents, MaxFaults <- MaxAccidents
evVars == <<cand, cfg, runner, tree, phase, job, got, undone, reg, acc, qual, changes, accidents>>
allVars == <<vars, evVars, part>>

ASSUME Ev!IssueEvidenceAssumption

\* Behaviours of the one leave the other as it is, in one of its initial states.
BothInit == /\ part \in {"guardian", "evidence"}
            /\ GuardianInit /\ (part = "evidence" => beat = MaxAge /\ ~observed)
            /\ Ev!Init /\ (part = "guardian" => cfg \notin Custom)
\* The evidence comes to rest when the bound on replacements is reached.
BothNext == \/ part = "guardian" /\ Next /\ UNCHANGED <<evVars, part>>
            \/ part = "evidence" /\ Ev!Next /\ UNCHANGED <<vars, part>>
            \/ part = "evidence" /\ changes = MaxChanges /\ UNCHANGED allVars
BothSpec == BothInit /\ [][BothNext]_allVars

\* IssueEvidence!EvidenceIsReal.
EvidenceIsReal == Ev!EvidenceIsReal
=============================================================================
