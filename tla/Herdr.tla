-------------------------------- MODULE Herdr --------------------------------
(***************************************************************************)
(* The Herdr engine (engines/herdr.ts) and one execution it is given: the  *)
(* dispatch intent, the expected binding and the launcher's receipt, three *)
(* files keyed by the execution and by the request, that is by the commit  *)
(* the worktree stands on (herdr-result.ts); the read-only inspection of   *)
(* the same execution (herdr-inspection.ts) and what follows from it       *)
(* (herdr-recovery.ts).                                                    *)
(*                                                                         *)
(* Hosts are processes that run the execution, one after the other's crash *)
(* or beside it.  The backend outlives them: a launcher that was stopped   *)
(* does not stop the agent in its pane, whose receipt may come late.       *)
(***************************************************************************)
EXTENDS Naturals, FiniteSets

CONSTANTS
    Hosts,
    Bases,        \* commits the worktree may stand on: a request is named after one
    None, Torn,   \* Torn: a file that a crash left half written
    VerifiedFree, \* requireVerifiedFree: the cost of this engine is unknown
    Allowed,      \* the provider is in the fallback allowlist, or there is no list
    MaxFaults, MaxCommits   \* bounds

HerdrAssumption ==
    /\ {VerifiedFree, Allowed} \subseteq BOOLEAN /\ {MaxFaults, MaxCommits} \subseteq Nat
    /\ None # Torn /\ Bases \cap {None, Torn} = {}

VARIABLES
    head, marked,   \* the worktree: its commit, its .adng-worktree marker
    intent,         \* the dispatch file of the execution: the base it names, or Torn
    expected,       \* bases with an expected file
    receipt,        \* of each base: the launcher's result file
    phase,          \* of the execution record: "starting", "running", "cancelled", "ended"
    run,            \* of each host: where its run() is, the commit and the binding it read
    outcome,        \* what the last run() returned
    agent,          \* requests an agent works on
    prompts,        \* history: how often the launcher was started
    look,           \* the inspection under way: what it has read
    verdict,        \* its answer
    stood,          \* history: what stood on disk when it read the receipt
    faults, commits

runVars == <<run, outcome>>
diskVars == <<intent, expected, receipt>>
worldVars == <<head, marked, phase, commits>>
seeVars == <<look, verdict, stood>>
vars == <<worldVars, diskVars, runVars, agent, prompts, seeVars, faults>>

Off == [at |-> "idle", before |-> None, prior |-> None]

Init ==
    /\ head \in Bases /\ marked = TRUE
    /\ intent = None /\ receipt = [b \in Bases |-> None]
    \* an older host left the binding of its request, and no intent
    /\ expected \in {{}} \cup {{b} : b \in Bases}
    /\ phase = "starting"
    /\ run = [h \in Hosts |-> Off] /\ outcome = None
    /\ agent \in SUBSET expected /\ prompts = Cardinality(expected)
    /\ look = None /\ verdict = None /\ stood = None
    /\ faults = 0 /\ commits = 0

-----------------------------------------------------------------------------
(* Preflight. *)

At(h, where) == run[h].at = where

\* observeHerdrBackend knows the server and, of login, model and quota, nothing:
\* an engine that must be free of charge is refused.
Ready(alive) == alive /\ ~VerifiedFree

Preflight(h) ==
    /\ At(h, "idle")
    /\ \E alive \in BOOLEAN : Ready(alive)   \* herdr.exe status server, or its cached answer
    /\ run' = [run EXCEPT ![h].at = "begin"]
    /\ UNCHANGED <<worldVars, diskVars, outcome, agent, prompts, seeVars, faults>>

-----------------------------------------------------------------------------
(* run(): everything before the launcher is started. *)

Turns(h, new) == run' = [run EXCEPT ![h] = new] /\ outcome' = outcome
Goes(h, where) == Turns(h, [run[h] EXCEPT !.at = where])
Ends(h, what) == run' = [run EXCEPT ![h] = Off] /\ outcome' = what

\* checkHerdrResultFile: the status in the result file of request b, if every field of it
\* is bound to that request.
Receipt(b) == IF receipt[b] # None /\ receipt[b].for = b THEN receipt[b].status ELSE None

\* recover: what is on disk stays, and the plan never allows another dispatch.  A done
\* receipt has to be verified by a person, unless it was cancelled or is another's.
Plan(b, cancelled) ==
    IF ~cancelled /\ phase # "cancelled" /\ Receipt(b) = "done" THEN "validate" ELSE "recover"

\* selectHerdrExpected: the one expected file whose name ends in the execution.
Selected ==
    CASE expected = {} -> None
      [] Cardinality(expected) = 1 -> CHOOSE b \in expected : TRUE
      [] OTHER -> Torn

Begin(h) ==
    /\ At(h, "begin")
    /\ IF ~marked
       THEN Ends(h, IF intent = None /\ Selected = None THEN "failed" ELSE "recover")
       ELSE IF ~Allowed \/ VerifiedFree THEN Ends(h, "failed")
       ELSE Turns(h, [run[h] EXCEPT !.at = "select", !.before = head])
    /\ UNCHANGED <<worldVars, diskVars, agent, prompts, seeVars, faults>>

Select(h) ==
    /\ At(h, "select")
    /\ IF Selected = Torn THEN Ends(h, "recover")
                          ELSE Turns(h, [run[h] EXCEPT !.at = "reserve", !.prior = Selected])
    /\ UNCHANGED <<worldVars, diskVars, agent, prompts, seeVars, faults>>

\* reserveHerdrDispatch creates the intent exclusively.  What stops a dispatch is that it
\* exists, also one that is torn or of another base.
Named(h) == IF run[h].prior # None THEN run[h].prior ELSE run[h].before
ReservedByRequest(h) == intent = run[h].before
Reserved(h) == intent # None

Reserve(h) ==
    /\ At(h, "reserve")
    /\ IF Reserved(h)
       THEN /\ Ends(h, IF intent = Torn THEN "recover" ELSE Plan(intent, FALSE)) /\ intent' = intent
       ELSE /\ intent' = Named(h)
            /\ IF run[h].prior # None THEN Ends(h, Plan(run[h].prior, FALSE))
               ELSE Goes(h, "evidence")
    /\ UNCHANGED <<worldVars, expected, receipt, agent, prompts, seeVars, faults>>

\* Evidence that came meanwhile; then the binding, by tmp and rename, and the launcher.
WriteExpected(h) ==
    /\ At(h, "evidence")
    /\ IF run[h].before \in expected \/ receipt[run[h].before] # None
       THEN Ends(h, "recover") /\ expected' = expected
       ELSE /\ expected' = expected \cup {run[h].before}
            /\ Goes(h, "launch")
    /\ UNCHANGED <<worldVars, intent, receipt, agent, prompts, seeVars, faults>>

Launch(h) ==
    /\ At(h, "launch") /\ Goes(h, "wait")
    /\ prompts' = prompts + 1
    /\ \/ agent' = agent \cup {run[h].before}
       \/ agent' = agent    \* an old launcher refuses the parameters, or the spawn fails
    /\ phase' = IF phase = "starting" THEN "running" ELSE phase
    /\ UNCHANGED <<head, marked, commits, diskVars, seeVars, faults>>

-----------------------------------------------------------------------------
(* run(): the launcher is back, in time or not. *)

\* Aborted, timed out, an exit code other than 0, or a receipt that is missing, torn or
\* bound to another request.
LauncherUnclear(h) ==
    /\ At(h, "wait")
    /\ \E aborted \in BOOLEAN : Ends(h, Plan(run[h].before, aborted))
    /\ UNCHANGED <<worldVars, diskVars, agent, prompts, seeVars, faults>>

ReceiptRead(h) ==
    /\ At(h, "wait") /\ Receipt(run[h].before) # None
    /\ IF Receipt(run[h].before) = "failed" THEN Ends(h, "failed")
       ELSE IF head # run[h].before THEN Ends(h, "recover") ELSE Goes(h, "commit")
    /\ UNCHANGED <<worldVars, diskVars, agent, prompts, seeVars, faults>>

\* The host commits: a new commit, nothing to commit, or an error.
Commit(h) ==
    /\ At(h, "commit")
    /\ \/ \E b \in Bases \ {head} : commits < MaxCommits /\ head' = b /\ commits' = commits + 1 /\ Ends(h, "ok")
       \/ Ends(h, "recover") /\ UNCHANGED <<head, commits>>
    /\ UNCHANGED <<marked, phase, diskVars, agent, prompts, seeVars, faults>>

-----------------------------------------------------------------------------
(* The backend, crashes, and the world around. *)

\* The agent ends; its launcher writes the receipt, that of another request, or none.
AgentEnds(b) ==
    /\ b \in agent /\ agent' = agent \ {b}
    /\ \/ receipt' \in {[receipt EXCEPT ![b] = [for |-> c, status |-> r]] :
                            c \in Bases, r \in {"done", "failed"}}
       \/ receipt' = receipt
    /\ UNCHANGED <<worldVars, intent, expected, runVars, prompts, seeVars, faults>>

\* The agent commits although it must not, or the worktree is made again elsewhere.
HeadMoves ==
    /\ commits < MaxCommits /\ commits' = commits + 1
    /\ head' \in Bases \ {head} /\ marked' \in BOOLEAN
    /\ UNCHANGED <<phase, diskVars, runVars, agent, prompts, seeVars, faults>>

PhaseMoves ==
    /\ \/ phase = "running" /\ phase' \in {"cancelled", "ended"}
       \/ phase = "cancelled" /\ phase' = "ended"
    /\ UNCHANGED <<head, marked, commits, diskVars, runVars, agent, prompts, seeVars, faults>>

\* A crash in the exclusive write leaves it torn.
Crash(h) ==
    /\ ~At(h, "idle") /\ faults < MaxFaults /\ faults' = faults + 1
    /\ Ends(h, None)
    /\ intent' \in {intent} \cup (IF At(h, "reserve") /\ intent = None THEN {Torn} ELSE {})
    /\ UNCHANGED <<worldVars, expected, receipt, agent, prompts, seeVars>>

-----------------------------------------------------------------------------
(* inspectHerdrCompletion: the record, the binding and the receipt are read one after    *)
(* the other, then record and binding once more.                                         *)

Now == [phase |-> phase, expected |-> Selected,
        receipt |-> IF Selected \in Bases THEN Receipt(Selected) ELSE None]
Blank == [step |-> "binding", phase |-> phase, expected |-> None, receipt |-> None]

Inspect ==
    /\ look = None /\ phase # "starting"
    /\ look' = Blank /\ verdict' = None /\ stood' = None
    /\ UNCHANGED <<worldVars, diskVars, runVars, agent, prompts, faults>>
LookUp ==
    /\ look # None /\ UNCHANGED verdict
    /\ \/ look.step = "binding" /\ Selected \in Bases
            /\ look' = [look EXCEPT !.step = "receipt", !.expected = Selected] /\ stood' = stood
       \/ look.step = "receipt"
            /\ look' = [look EXCEPT !.step = "again", !.receipt = Receipt(look.expected)]
            /\ stood' = Now
    /\ UNCHANGED <<worldVars, diskVars, runVars, agent, prompts, faults>>

BindingUnchanged == Selected = look.expected
Recheck == phase = look.phase /\ BindingUnchanged
Says(status) == [status |-> status, read |-> [phase |-> look.phase, expected |-> look.expected,
                                              receipt |-> look.receipt]]
Answer ==
    /\ look # None /\ look' = None /\ stood' = stood
    /\ \/ look.step = "binding" /\ Selected \notin Bases /\ verdict' = Says("missing")
       \/ look.step = "again"
            /\ verdict' = Says(CASE ~Recheck -> "changing"
                               [] Recheck /\ look.receipt = "done" -> "done"
                               [] OTHER -> "uncorrelated")
    /\ UNCHANGED <<worldVars, diskVars, runVars, agent, prompts, faults>>

-----------------------------------------------------------------------------
HostNext(h) ==
    \/ Preflight(h) \/ Begin(h) \/ Select(h) \/ Reserve(h) \/ WriteExpected(h) \/ Launch(h)
    \/ LauncherUnclear(h) \/ ReceiptRead(h) \/ Commit(h) \/ Crash(h)
Next ==
    \/ \E h \in Hosts : HostNext(h)
    \/ \E b \in Bases : AgentEnds(b)
    \/ HeadMoves \/ PhaseMoves \/ Inspect \/ LookUp \/ Answer

Spec == Init /\ [][Next]_vars

-----------------------------------------------------------------------------
\* The agent is prompted at most once in the life of an execution, whoever restarts it,
\* beside whom, on whatever commit, and whatever a crash or an older host left
\* (reserveHerdrDispatch, selectHerdrExpected).
PromptedOnce == prompts <= 1

\* A completion that the inspection reports stood on disk at one moment together with the
\* record and the binding it is reported with (inspectHerdrCompletion).
ReportedTogether ==
    verdict # None => (verdict.status = "done" => verdict.read = stood)

\* An execution is prompted once, and what is reported of it stood together (herdr.ts).
CompletionIsOwn == PromptedOnce /\ ReportedTogether
=============================================================================
