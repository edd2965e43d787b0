---------------------------- MODULE MCLongHorizon ----------------------------
(* The long-horizon drive, one execution of the Herdr engine and one task's   *)
(* way through the gates for TLC: a behaviour is one of one of them.          *)
EXTENDS LongHorizon, TLC

CONSTANTS Hosts, Bases, Torn, MaxCommits, MaxLosses, Steps, MaxWork, MaxMain, MaxEvents
No == FALSE
Yes == TRUE
VARIABLES head, marked, phase, commits, intent, expected, receipt, run, outcome, agent, prompts,
          look, verdict, stood, losses

Engine == INSTANCE Herdr
    WITH VerifiedFree <- No, Allowed <- Yes, MaxFaults <- MaxLosses, faults <- losses
engineVars == <<head, marked, phase, commits, intent, expected, receipt, run, outcome, agent,
                prompts, look, verdict, stood, losses>>
ASSUME HostsAssumption == Engine!HerdrAssumption

VARIABLES cfg, main, branch, tree, backlog, stop, pending, bundles, receipts, approval, quota,
          quarantined, at, cand, again, done, ev, check, asked, fails, clean, facts, work, events

Reviewing == <<"primary", "fallback">>
Setup(free, risk, cmd, release, reviewer, kin) ==
    [free |-> free, risk |-> risk, cmd |-> cmd, release |-> release, reviewer |-> reviewer, kin |-> kin]
\* The free-only tier with a release and with a reviewer that is not independent; a task of
\* medium risk with a release; tasks of low risk with and without CI and reviewer.
Setups == {Setup(TRUE, "low", "ok", TRUE, TRUE, FALSE), Setup(TRUE, "low", "ok", FALSE, TRUE, TRUE),
           Setup(FALSE, "medium", "ok", TRUE, TRUE, FALSE),
           Setup(FALSE, "low", "ok", FALSE, TRUE, FALSE), Setup(FALSE, "low", "none", FALSE, FALSE, FALSE)}
Gates == INSTANCE Verification
    WITH Configs <- Setups, Reviewers <- Reviewing, pc <- at, step <- done
gatesVars == <<cfg, main, branch, tree, backlog, stop, pending, bundles, receipts, approval, quota,
               quarantined, at, cand, again, done, ev, check, asked, fails, clean, facts, work, events>>
ASSUME GatesAssumption == Gates!VerificationAssumption

VARIABLE part
allVars == <<vars, engineVars, gatesVars, part>>

\* Behaviours of one part leave the others as they are, in one of their initial states.
DrivesInit == /\ part \in {"horizon", "engine", "gates"} /\ Init /\ Engine!Init /\ Gates!Init
              /\ part # "engine" => expected = {} /\ head = CHOOSE b \in Bases : TRUE
              /\ part # "gates" => cfg = CHOOSE c \in Setups : TRUE
DrivesNext == \/ part = "horizon" /\ Next /\ UNCHANGED <<engineVars, gatesVars, part>>
              \/ part = "engine" /\ Engine!Next /\ UNCHANGED <<vars, gatesVars, part>>
              \/ part = "gates" /\ Gates!Next /\ UNCHANGED <<vars, engineVars, part>>
DrivesSpec == DrivesInit /\ [][DrivesNext]_allVars

CompletionIsOwn == Engine!CompletionIsOwn
DoneIsProven == Gates!DoneIsProven
SavedIsJudged == Gates!SavedIsJudged

\* Driver processes are interchangeable, and so are high-risk steps.
Interchangeable == Permutations(Driver) \cup Permutations(High)
=============================================================================
