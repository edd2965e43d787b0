--------------------------- MODULE IssueEvidence ---------------------------
(***************************************************************************)
(* The evidence a repaired issue is published on (github/regression.ts,    *)
(* acceptance.ts, quality.ts): the issue's own test passes on the candidate, *)
(* fails an assertion on the original code and passes on the candidate in  *)
(* a clone of the same shape; then the project's acceptance and its quality *)
(* commands.  Every command may leave a process behind that goes on to     *)
(* change what later commands run on, and may undo it before anybody       *)
(* looks: the trees are compared once after the three runs, and once after *)
(* the acceptance command.                                                 *)
(* Between two processes of the runner the configuration, the trusted test *)
(* runner, the candidate and its base may be others.                       *)
(***************************************************************************)
EXTENDS Naturals, FiniteSets

CONSTANTS
    Configs,     \* configurations, each with contracts of its own
    Custom,      \* those whose regression test runs by a command of theirs
    MaxChanges,  \* bound: candidates, bases, configurations and runners that are replaced
    MaxFaults    \* bound: acts of processes left behind, crashes

IssueEvidenceAssumption == Custom \subseteq Configs /\ {MaxChanges, MaxFaults} \subseteq Nat

VARIABLES
    cand,     \* state.commit, state.baseSha, and whether its one change to the tests is a new file
    cfg,      \* the configuration: how the test runs, acceptance, quality
    runner,   \* version of regression-runner.cjs and of node
    tree,     \* the checkout and the two clones; Absent is no clone
    pc,
    job,      \* the version of the runner of the test that runs
    got,      \* outcomes of this verification
    undone,   \* history: trees in which a change was undone since the last comparison
    reg, acc, qual,   \* the receipts, by commit
    changes, faults

receipts == <<reg, acc, qual>>
outside == <<cand, cfg, runner, changes>>
vars == <<outside, tree, pc, job, got, undone, receipts, faults>>

Dirs == {"cwd", "replay", "control"}
Silent == "none"
Absent == << >>   \* no clone, no receipt
Clean(head) == [head |-> head, clean |-> TRUE, test |-> TRUE]
Bases == {0, 9}
Commits == {1, 2}

Init ==
    /\ cand = [commit |-> 1, base |-> 0, additive |-> TRUE]
    /\ cfg \in Configs /\ runner = 1
    /\ tree = [d \in Dirs |-> IF d = "cwd" THEN Clean(1) ELSE Absent]
    /\ pc = "idle" /\ job = 0 /\ got = Absent /\ undone = {}
    /\ reg = [c \in Commits |-> Absent] /\ acc = reg /\ qual = reg
    /\ changes = 0 /\ faults = 0

Trusted == cfg \notin Custom
Fails == pc' = "idle" /\ job' = 0 /\ got' = Absent /\ undone' = {}
         /\ tree' = [tree EXCEPT !["replay"] = Absent, !["control"] = Absent]

-----------------------------------------------------------------------------
(* The regression test. *)

Begins(phase) ==
    /\ pc' = phase /\ job' = runner
TestSource == cand.additive

\* verifyRegression: the checkout is the candidate, whose test is a new file.
Verify ==
    /\ pc = "idle"
    /\ tree["cwd"].head = cand.commit /\ TestSource
    /\ Begins("green") /\ got' = Absent /\ undone' = {}
    /\ UNCHANGED <<outside, tree, receipts, faults>>

Running == pc \in {"green", "red", "ctrl"}
Where == [green |-> "cwd", red |-> "replay", ctrl |-> "control"]

\* The summary counts when it came in the only message, whole and of this run, and the exit
\* code says the same.  "odd": success with tests skipped or none executed; "fail": a failure
\* that asserts nothing.
Summary(messages, said, code) ==
    IF messages = 1 /\ said # Silent /\ code = IF said \in {"pass", "odd"} THEN 0 ELSE 1
    THEN said ELSE Silent
GreenOk(r) == r.res = "pass"
RedOk(r) == r.res = "assert"

Outcome(res) == [res |-> res, runner |-> job, on |-> tree[Where[pc]]]
Clones(d, head) == tree' = [tree EXCEPT ![d] = Clean(head)]
Keep(res) == got' = [p \in DOMAIN got \cup {pc} |-> IF p = pc THEN Outcome(res) ELSE got[p]]

\* What the test's end means for the verification; the clone or its preparation may fail.
Ends(res) ==
    \/ ~(IF pc = "red" THEN RedOk(Outcome(res)) ELSE GreenOk(Outcome(res))) /\ Fails
    \/ /\ pc = "green" /\ GreenOk(Outcome(res))
       /\ Fails \/ (Clones("replay", cand.base) /\ Begins("red") /\ Keep(res) /\ UNCHANGED undone)
    \/ /\ pc = "red" /\ RedOk(Outcome(res))
       /\ Fails \/ (Clones("control", cand.commit) /\ Begins("ctrl") /\ Keep(res) /\ UNCHANGED undone)
    \/ /\ pc = "ctrl" /\ GreenOk(Outcome(res))
       /\ pc' = "check" /\ job' = 0 /\ Keep(res) /\ UNCHANGED <<tree, undone>>

\* The first of close, error and time limit settles the run.
Summaries == {Summary(messages, said, code) : messages \in 0 .. 2,
                 said \in {Silent, "pass", "odd", "assert", "fail"}, code \in {0, 1, 70}}
Close == /\ Running /\ Trusted /\ \E res \in Summaries : Ends(res)
         /\ UNCHANGED <<outside, receipts, faults>>
CustomEnds == /\ Running /\ ~Trusted
              /\ \E res \in {"pass", "assert", "fail"} : Ends(res)
              /\ UNCHANGED <<outside, receipts, faults>>
TimesOut == Running /\ Ends(Silent) /\ UNCHANGED <<outside, receipts, faults>>

HeadOf == [cwd |-> cand.commit, replay |-> cand.base, control |-> cand.commit]
\* The check without the base's clone.
CandidateUnchanged == \A d \in {"cwd", "control"} : tree[d] = Clean(HeadOf[d])
\* integrity: heads, tracked files and the text of the test, in all three.
Unchanged == \A d \in Dirs : tree[d] = Clean(HeadOf[d])
Consistent(r, version) == r.runner = version

\* The outcomes become a receipt when all three trees and the runner are what they were.
Check ==
    /\ pc = "check"
    /\ IF Unchanged /\ (Trusted => \A p \in DOMAIN got : Consistent(got[p], runner))
       THEN /\ reg' = [reg EXCEPT ![cand.commit] =
                         [base |-> cand.base, cfg |-> cfg, runner |-> IF Trusted THEN runner ELSE 0,
                          got |-> got, undone |-> undone]]
            /\ pc' = "accept" /\ got' = Absent /\ undone' = {} /\ UNCHANGED <<job, tree>>
       ELSE Fails /\ UNCHANGED reg
    /\ UNCHANGED <<outside, acc, qual, faults>>

-----------------------------------------------------------------------------
(* Acceptance and quality. *)

\* verifyAcceptance writes what the command said before it looks at the checkout.
Acceptance ==
    /\ pc = "accept" /\ acc' = [acc EXCEPT ![cand.commit] = [cfg |-> cfg, passed |-> FALSE, on |-> Absent,
                                                       undone |-> FALSE]]
    /\ \/ Fails
       \/ pc' = "accepted" /\ got' = [accept |-> tree["cwd"]] /\ UNCHANGED <<job, tree, undone>>
    /\ UNCHANGED <<outside, reg, qual, faults>>
Accepted ==
    /\ pc = "accepted"
    /\ IF tree["cwd"] = Clean(cand.commit)
       THEN /\ acc' = [acc EXCEPT ![cand.commit] = [@ EXCEPT !.passed = TRUE, !.on = got.accept,
                                                               !.undone = "cwd" \in undone]]
            /\ pc' = "quality" /\ got' = Absent /\ UNCHANGED <<job, tree, undone>>
       ELSE Fails /\ UNCHANGED acc
    /\ UNCHANGED <<outside, reg, qual, faults>>

\* verifyQuality: "unit" is required and configured, "coverage" configured, "crap" required
\* without a command where the gates say so; after a failure the rest is skipped.
Names == {"unit", "coverage", "crap"}
Required == {"unit", "crap"}
Said(unit, coverage, crap) ==
    [n \in Names |->
        CASE n = "unit" -> unit
          [] n = "coverage" -> IF unit = "failed" THEN "skipped" ELSE coverage
          [] n = "crap" -> IF crap = "not-configured" THEN crap
                           ELSE IF "failed" \in {unit, coverage} THEN "skipped" ELSE crap]
Quality ==
    /\ pc = "quality"
    /\ \E unit, coverage \in {"passed", "failed"}, crap \in {"passed", "failed", "not-configured"} :
         LET said == Said(unit, coverage, crap)
             passed == \A n \in Names : said[n] # "failed" /\ (n \in Required => said[n] # "not-configured")
         IN /\ qual' = [qual EXCEPT ![cand.commit] =
                          [cfg |-> cfg, passed |-> passed]]
            /\ Fails
    /\ UNCHANGED <<outside, reg, acc, faults>>

-----------------------------------------------------------------------------
(* Publication. *)

AssertRegression ==
    LET r == reg[cand.commit] IN
    /\ TestSource /\ r # Absent
    /\ r.base = cand.base /\ r.cfg = cfg
    /\ r.runner = IF Trusted THEN runner ELSE 0
    /\ Trusted => \A p \in DOMAIN r.got : Consistent(r.got[p], runner)
    /\ GreenOk(r.got["green"]) /\ RedOk(r.got["red"]) /\ GreenOk(r.got["ctrl"])
AssertAcceptance ==
    LET r == acc[cand.commit] IN r # Absent /\ r.passed /\ r.cfg = cfg
AssertQuality ==
    LET r == qual[cand.commit] IN r # Absent /\ r.cfg = cfg /\ r.passed
Publishable == /\ pc = "idle" /\ tree["cwd"].head = cand.commit
               /\ AssertRegression /\ AssertAcceptance /\ AssertQuality

-----------------------------------------------------------------------------
(* Everybody else. *)

\* A process left behind commits, edits a tracked file or edits the test.
Disturb(d) ==
    /\ faults < MaxFaults /\ faults' = faults + 1 /\ tree[d] # Absent
    /\ \/ tree' = [tree EXCEPT ![d].head = 5]
       \/ tree' = [tree EXCEPT ![d].clean = FALSE]
       \/ tree' = [tree EXCEPT ![d].test = FALSE]
    /\ UNCHANGED <<outside, pc, job, got, undone, receipts>>
\* It puts back what it changed.
Undo(d) ==
    /\ pc # "idle" /\ tree[d] \notin {Absent, Clean(HeadOf[d])}
    /\ tree' = [tree EXCEPT ![d] = Clean(HeadOf[d])] /\ undone' = undone \cup {d}
    /\ UNCHANGED <<outside, pc, job, got, receipts, faults>>
Crash == /\ pc # "idle" /\ faults < MaxFaults /\ faults' = faults + 1
         /\ Fails /\ UNCHANGED <<outside, receipts>>

\* Between two processes: another candidate or base, another configuration.
Change == changes < MaxChanges /\ changes' = changes + 1
NewCandidate ==
    /\ pc = "idle" /\ Change
    /\ \E b \in Bases, c \in Commits, a \in BOOLEAN :
         /\ cand' = [commit |-> c, base |-> b, additive |-> a]
         /\ tree' = [tree EXCEPT !["cwd"] = Clean(c)]
    /\ UNCHANGED <<cfg, runner, pc, job, got, undone, receipts, faults>>
NewConfig ==
    /\ pc = "idle" /\ Change /\ cfg' \in Configs \ {cfg}
    /\ UNCHANGED <<cand, runner, tree, pc, job, got, undone, receipts, faults>>
\* The runner's file is replaced, also while a verification is under way.
NewRunner ==
    /\ Change /\ runner' = runner + 1
    /\ UNCHANGED <<cand, cfg, tree, pc, job, got, undone, receipts, faults>>

Next ==
    \/ Verify \/ Close \/ CustomEnds \/ TimesOut \/ Check \/ Acceptance \/ Accepted \/ Quality
    \/ \E d \in Dirs : Disturb(d) \/ Undo(d)
    \/ Crash \/ NewCandidate \/ NewConfig \/ NewRunner

Spec == Init /\ [][Next]_vars

-----------------------------------------------------------------------------
(* What is published rests on runs that took place: the test passed on exactly this candidate *)
(* in the checkout and in a clone and failed an assertion on exactly its base in such a       *)
(* clone, all by the present runner, and the acceptance command ran on this candidate         *)
(* unchanged (the trees as they are when a run ends), whatever was replaced since and         *)
(* whatever processes left behind changed, unless they undid it before the trees were         *)
(* compared (regression.ts:232-249 and :264-270, acceptance.ts:14).                           *)
EvidenceIsReal ==
    Publishable =>
        LET r == reg[cand.commit]
            a == acc[cand.commit]
            RanOn(phase, head) == r.got[phase].on = Clean(head) \/ Where[phase] \in r.undone IN
        /\ cand.additive
        /\ RanOn("green", cand.commit) /\ RanOn("ctrl", cand.commit) /\ RanOn("red", cand.base)
        /\ Trusted => \A p \in {"green", "red", "ctrl"} : r.got[p].runner = runner
        /\ a.on = Clean(cand.commit) \/ a.undone
=============================================================================
