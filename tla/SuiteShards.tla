----------------------------- MODULE SuiteShards -----------------------------
(***************************************************************************)
(* The two-round regression suite (engines/flaky-regression.ts) and its    *)
(* shards in CI (engines/regression-shards.ts, .github/workflows/ci.yml).  *)
(*                                                                         *)
(* Each shard's job discovers the specs of the reviewed head, runs its     *)
(* part twice in a checkout that tests and others may change, and writes   *)
(* what it found to a receipt; receipts are uploaded whether or not they   *)
(* are complete.  The last job puts receipts together, and may be given    *)
(* those of any run and attempt.  A checkout is compared before and after  *)
(* a round only, by its tracked files and the specs in it: what is undone  *)
(* in between is not seen, and another untracked file is no change here.   *)
(***************************************************************************)
EXTENDS Naturals, Sequences, FiniteSets

CONSTANTS
    CI_SHARDS,
    Suites,     \* of each head: its specs in order
    MaxRuns,    \* bound: runs and attempts of the workflow after the first
    MaxFaults   \* bound: changes to checkouts, deaths of jobs

SuiteShardsAssumption == /\ CI_SHARDS \in Nat \ {0} /\ MaxRuns \in Nat /\ MaxFaults \in Nat
                         /\ {1, 2} \subseteq DOMAIN Suites
                         /\ \A h \in DOMAIN Suites : Len(Suites[h]) >= CI_SHARDS
                         /\ \A h \in DOMAIN Suites : \A i, j \in DOMAIN Suites[h] :
                              Suites[h][i] = Suites[h][j] => i = j

VARIABLES
    id,         \* run, attempt and the head they are for
    job,        \* the job that is looked at
    checkout,   \* its head, and whether tracked files and specs are as committed
    pc, round,
    seen,       \* history: what the checkout has been since the round began
    undone,     \* history: a change was undone meanwhile
    child,      \* a suite process of this job was not seen to end
    receipt,    \* in its report directory
    left,       \* shards whose report directory has a receipt from an earlier attempt
    uploaded,   \* the receipts the last job may be given
    runs, faults

vars == <<id, job, checkout, pc, round, seen, undone, child, receipt, left, uploaded, runs, faults>>

Shards == 1 .. CI_SHARDS
Local == 0                  \* flakyRegressionMain, which runs all of them and leaves no receipt
Absent == << >>
Reviewed(h) == [head |-> h, clean |-> TRUE]
Specs(h) == {Suites[h][i] : i \in DOMAIN Suites[h]}

\* partitionSpecs
Part(h, s) == {Suites[h][i] : i \in {k \in DOMAIN Suites[h] : (k - 1) % CI_SHARDS = s - 1}}

Init ==
    /\ id = [run |-> 1, attempt |-> 1, head |-> 1]
    /\ job = Local
    /\ checkout = Reviewed(1)
    /\ pc = "ready" /\ round = 0 /\ seen = {} /\ undone = FALSE /\ child = FALSE
    /\ receipt = Absent /\ left = {} /\ uploaded = {}
    /\ runs = 0 /\ faults = 0

AssertCheckout == checkout = Reviewed(id.head)
At(p) == pc = p /\ UNCHANGED <<id, job, left, runs>>
Writes(r) == receipt' = r

-----------------------------------------------------------------------------
(* A shard. *)

\* Discovery, which may fail; a report directory with a receipt is refused.
Discover ==
    /\ At("ready") /\ job # Local
    /\ \/ /\ AssertCheckout /\ job \notin left
          /\ Writes([id |-> id, shard |-> job, selected |-> Part(id.head, job), rounds |-> << >>,
                     failed |-> FALSE, complete |-> FALSE])
          /\ round' = 1 /\ pc' = "round"
       \/ pc' = "over" /\ UNCHANGED <<receipt, round>>
    /\ UNCHANGED <<checkout, seen, undone, child, uploaded, faults>>

StartRound ==
    /\ At("round") /\ job # Local
    /\ pc' = IF AssertCheckout THEN "running" ELSE "over"
    /\ seen' = {checkout} /\ undone' = FALSE
    /\ UNCHANGED <<checkout, round, child, receipt, uploaded, faults>>

\* validateRegressionRound: exactly the selected specs; all of them may have been skipped.
Report(specs, skipped) == [specs |-> specs, skipped |-> skipped, on |-> seen, undone |-> undone]
Valid(r) == r.specs = receipt.selected

\* A child that was ended has no exit code, and what it started may live on.
Exits == {"0", "1", "null"}
MayGoOn(exit) == exit # "null"
Child(exit) == child' \in {child, child \/ exit = "null"}
NextRound(exit) ==
    IF MayGoOn(exit) /\ round = 1 THEN round' = 2 /\ pc' = "round" ELSE round' = round /\ pc' = "seal"

EndRound ==
    /\ At("running") /\ job # Local
    /\ \E exit \in Exits, specs \in {receipt.selected, {}, Specs(id.head)}, skipped \in BOOLEAN :
         LET r == Report(specs, skipped) IN
         /\ Writes([receipt EXCEPT !.rounds = IF exit = "0" /\ Valid(r) THEN Append(@, r) ELSE @,
                                   !.failed = @ \/ ~(exit = "0" /\ Valid(r) /\ AssertCheckout)])
         /\ Child(exit) /\ NextRound(exit)
    /\ seen' = {} /\ undone' = FALSE
    /\ UNCHANGED <<checkout, uploaded, faults>>

\* The receipt is sealed, and uploaded whatever became of the job (actions/upload-artifact).
Seal ==
    /\ At("seal") /\ pc' = "over"
    /\ IF job = Local THEN UNCHANGED receipt
       ELSE Writes([receipt EXCEPT !.complete = ~receipt.failed /\ Len(receipt.rounds) = 2])
    /\ UNCHANGED <<checkout, round, seen, undone, child, uploaded, faults>>
\* A receipt that is not complete is refused whatever its rounds say; they are left out.
Kept(r) == IF r.complete THEN r ELSE [r EXCEPT !.rounds = << >>]
Upload ==
    /\ pc = "over" /\ pc' = "done"
    /\ uploaded' = uploaded \cup IF receipt = Absent THEN {} ELSE {Kept(receipt)}
    /\ UNCHANGED <<id, job, checkout, round, seen, undone, child, receipt, left, runs, faults>>

-----------------------------------------------------------------------------
(* aggregateRegressionShards *)

\* A receipt of another attempt is as good.
AdmissibleOfRun(i) ==
    /\ i.id.run = id.run /\ i.complete /\ ~i.failed /\ i.selected = Part(id.head, i.shard)
    /\ Len(i.rounds) = 2
    /\ \A k \in 1 .. 2 : i.rounds[k].specs = i.selected
    /\ i.rounds[1].skipped = i.rounds[2].skipped
\* For the run and attempt asked for, complete, and the same in both rounds.
Admissible(i) ==
    /\ i.id = id /\ i.complete /\ ~i.failed /\ i.selected = Part(id.head, i.shard)
    /\ Len(i.rounds) = 2
    /\ \A k \in 1 .. 2 : i.rounds[k].specs = i.selected
    /\ i.rounds[1].skipped = i.rounds[2].skipped

Aggregates(inputs) ==
    /\ \A s \in Shards : Admissible(inputs[s])
    /\ \A s, t \in Shards : s # t => inputs[s].shard # inputs[t].shard
    /\ \A k \in 1 .. 2 : /\ UNION {inputs[s].rounds[k].specs : s \in Shards} = Specs(id.head)
                         /\ \E s \in Shards : ~inputs[s].rounds[k].skipped

-----------------------------------------------------------------------------
(* The suite without shards. *)

LocalStart == /\ pc \in {"ready", "round"} /\ job = Local /\ pc' = "running"
              /\ round' = IF pc = "ready" THEN 1 ELSE round
              /\ UNCHANGED <<id, job, checkout, seen, undone, child, receipt, left, uploaded, runs, faults>>
LocalEnds == /\ At("running") /\ job = Local
             /\ \E exit \in Exits : Child(exit) /\ NextRound(exit)
             /\ UNCHANGED <<checkout, seen, undone, receipt, uploaded, faults>>

-----------------------------------------------------------------------------
(* Tests, other processes and the workflow. *)

Sees == seen' = IF pc = "running" /\ job # Local THEN seen \cup {checkout'} ELSE seen
Disturb ==
    /\ faults < MaxFaults /\ faults' = faults + 1 /\ pc \notin {"over", "done"}
    /\ \/ \E h \in DOMAIN Suites \ {checkout.head} : checkout' = [checkout EXCEPT !.head = h]
       \/ checkout' = [checkout EXCEPT !.clean = FALSE]
    /\ checkout' # Reviewed(id.head) /\ Sees
    /\ UNCHANGED <<id, job, pc, round, undone, child, receipt, left, uploaded, runs>>
\* A test that puts back what it changed.
Undo ==
    /\ pc \notin {"over", "done"} /\ ~AssertCheckout /\ checkout' = Reviewed(id.head)
    /\ undone' = (undone \/ pc = "running") /\ Sees
    /\ UNCHANGED <<id, job, pc, round, child, receipt, left, uploaded, runs, faults>>
Dies ==
    /\ faults < MaxFaults /\ faults' = faults + 1 /\ pc \in {"round", "running", "seal"}
    /\ pc' = "over" /\ UNCHANGED <<id, job, checkout, round, seen, undone, child, receipt, left, uploaded, runs>>

\* The next job: jobs have machines of their own and share the uploads only, so they are
\* looked at one after the other.
Fresh(h) == /\ checkout' = Reviewed(h) /\ pc' = "ready" /\ round' = 0 /\ seen' = {} /\ undone' = FALSE
            /\ child' = FALSE /\ receipt' = Absent
NextJob ==
    /\ pc = "done" /\ job < CI_SHARDS /\ job' = job + 1 /\ Fresh(id.head)
    /\ UNCHANGED <<id, left, uploaded, runs, faults>>

\* Another attempt of the run, or a run for another head; report directories may be old ones.
Rerun ==
    /\ runs < MaxRuns /\ runs' = runs + 1 /\ pc = "done" /\ job = CI_SHARDS
    /\ id' \in {[id EXCEPT !.attempt = @ + 1], [run |-> id.run + 1, attempt |-> 1, head |-> 2]}
    /\ job' = 1 /\ Fresh(id'.head) /\ left' \in {{}, {r.shard : r \in uploaded}}
    /\ UNCHANGED <<uploaded, faults>>

Next == \/ Discover \/ StartRound \/ EndRound \/ Seal \/ Upload \/ LocalStart \/ LocalEnds
        \/ Disturb \/ Undo \/ Dies \/ NextJob \/ Rerun

Spec == Init /\ [][Next]_vars

-----------------------------------------------------------------------------
(* Receipts that add up to a success prove it: each spec of the reviewed head was executed in *)
(* two rounds of this very attempt by one shard, on exactly that head all the while unless    *)
(* what changed was undone before the round ended, and something was executed in each; and no *)
(* round starts beside a suite process that was not seen to end (regression-shards.ts:97 and  *)
(* :135, flaky-regression.ts:135).                                                            *)
SuiteIsReal ==
    /\ \A inputs \in [Shards -> uploaded] : Aggregates(inputs) =>
         \A k \in 1 .. 2 :
            /\ \A spec \in Specs(id.head) :
                 \E s \in Shards : /\ inputs[s].id = id /\ spec \in inputs[s].rounds[k].specs
                                   /\ \/ inputs[s].rounds[k].on = {Reviewed(id.head)}
                                      \/ inputs[s].rounds[k].undone
                                   /\ \A t \in Shards \ {s} : spec \notin inputs[t].rounds[k].specs
            /\ \E s \in Shards : ~inputs[s].rounds[k].skipped
    /\ child => pc # "running"
=============================================================================
