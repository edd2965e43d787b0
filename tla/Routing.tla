------------------------------ MODULE Routing ------------------------------
(***************************************************************************)
(* Which engine a task of a project goes to: pickReadyTask with the        *)
(* isolation of failing engines, the weighted rotation, the candidate      *)
(* gates and the daily caps, and the pruning of the isolation file that    *)
(* the daemon does after each runOnce.                                     *)
(*                                                                         *)
(* One daemon per project, one attempt at a time (the team mode's          *)
(* reservations are in TeamState): what interleaves with it is the clock,  *)
(* an operator at the isolation file and the death of the daemon.  The run *)
(* database is a log of attempts; time is counted in days.                 *)
(***************************************************************************)
EXTENDS Integers, Sequences, FiniteSets, SequencesExt, FiniteSetsExt

CONSTANTS
    Engines,
    Rotation,       \* engineRotation, with its repetitions
    Subscriptions,  \* subscription engines, appended to the candidates
    ZeroCost,       \* the entry slots of a task go to these
    Cap,            \* dailyAttemptCap of each engine, 0 when it has none
    None,
    MinRun,         \* BREAKER_MIN_CONSECUTIVE
    MinSamples,     \* ISOLATE_MIN_SAMPLES
    WeightSamples,  \* minSamples of weightedRotation
    MaxSlots,       \* maxSlots of weightedRotation
    Window,         \* ISOLATE_WINDOW_DAYS
    MaxDay, MaxRows, MaxFaults   \* bounds

RoutingAssumption ==
    /\ Rotation \in Seq(Engines) /\ Len(Rotation) > 0 /\ None \notin Engines
    /\ Subscriptions \in Seq(Engines) /\ ZeroCost \subseteq Engines
    /\ Cap \in [Engines -> Nat]
    /\ {MinRun, MinSamples, WeightSamples, MaxSlots, Window} \subseteq Nat \ {0}
    /\ MaxDay \in Nat \ {0} /\ {MaxRows, MaxFaults} \subseteq Nat

VARIABLES
    day,
    log,        \* run.db: the attempts, oldest first
    file,       \* engine-routing-state.json
    cached,     \* the result recentRunStats keeps for a minute
    pc,         \* "idle", "choosing", "running", "judging", "cleanup"
    tags,       \* the candidates still to be asked
    engine,     \* the engine of the attempt that runs
    spared,     \* history: the engines isolated when the candidates were drawn up
    unprobed,   \* history: isolated, and not run since
    faults

cycle == <<pc, tags, engine, spared>>
vars == <<day, log, file, cached, cycle, unprobed, faults>>

\* What a row says: the worker's own ("done", "broke", "supply"), or the second one that
\* a worker's "done" gets when its result is refused.  The failures of a kind have one
\* signature.
Results == {"done", "broke", "supply", "refused"}

NoEntries == [e \in Engines |-> 0]
NoFile == [kind |-> "missing", until |-> NoEntries, count |-> NoEntries]

Init ==
    /\ day = 1 /\ log = <<>> /\ file = NoFile /\ cached = None
    /\ pc = "idle" /\ tags = <<>> /\ engine = None /\ spared = {}
    /\ unprobed = {} /\ faults = 0

InRotation == {Rotation[i] : i \in DOMAIN Rotation}

\* The elements of a sequence at some of its positions, in their order.
At(s, I) == MapThenFoldSet(LAMBDA i, before : Append(before, s[i]), <<>>,
                           LAMBDA i : i, LAMBDA J : Max(J), I)

Attempts(l, e) == {i \in DOMAIN l : l[i].engine = e}
Rows(l, e) == At(l, Attempts(l, e))
Done(l, I) == {i \in I : l[i].result = "done"}

-----------------------------------------------------------------------------
(* Isolation. *)

\* recentRunStats and selectEnginesToIsolate: enough samples, fewer than 30% done.
PolicyTargets(l) ==
    {e \in InRotation :
        LET recent == {i \in Attempts(l, e) : l[i].day > day - Window}
            n == Cardinality(recent) IN
        n >= MinSamples /\ 10 * Cardinality(Done(l, recent)) < 3 * n}

\* selectBreakerTargets: the last MinRun attempts failed, with one signature.
BreakerTargets ==
    {e \in InRotation :
        LET rows == Rows(log, e)
            leading == {rows[i].result : i \in (Len(rows) - MinRun + 1) .. Len(rows)} IN
        Len(rows) >= MinRun /\ \E sig \in Results \ {"done"} : leading = {sig}}

\* reprobeIntervalMs: 24 h, then twice as long, up to a week.
Interval(n) == IF n > 3 THEN 7 ELSE <<1, 2, 4>>[n]

Entries(f) == {e \in Engines : f.until[e] > 0}
\* activeIsolatedTags
Active(f) == IF f.kind = "state" THEN {e \in Engines : f.until[e] > day} ELSE {}

\* applyFirstIsolation over the targets: an entry that is there is left alone,
\* expired or not.
Isolate(f, targets) ==
    LET new == targets \ Entries(f) IN
    [kind |-> "state",
     until |-> [e \in Engines |-> IF e \in new THEN day + Interval(f.count[e] + 1)
                                  ELSE f.until[e]],
     count |-> [e \in Engines |-> IF e \in new THEN f.count[e] + 1 ELSE f.count[e]]]

-----------------------------------------------------------------------------
(* Candidates. *)

Slots(e) == Cardinality({i \in DOMAIN Rotation : Rotation[i] = e})
Stat(e) == Attempts(log, e)

\* weightedRotation: the slots of the configuration, up to two more or fewer by the
\* success rate, one at least.
Bonus(e) ==
    LET n == Cardinality(Stat(e)) IN
    IF n < WeightSamples THEN 0
    ELSE (8 * Cardinality(Done(log, Stat(e))) - 3 * n) \div (2 * n)
Heavier(w) == Max({w[e] : e \in InRotation})
\* One slot off the heaviest engine, the first of the rotation among equals.
Shave(w) ==
    LET first == Min({i \in DOMAIN Rotation : w[Rotation[i]] = Heavier(w)}) IN
    [w EXCEPT ![Rotation[first]] = @ - 1]
Full == [e \in InRotation |-> Max({1, Slots(e) + Bonus(e)})]
Total(w) == MapThenSumSet(LAMBDA e : w[e], InRotation)
MostSlots == Max({MaxSlots, Cardinality(InRotation)})
Weights == FoldSet(LAMBDA i, w : Shave(w), Full, 1 .. (Total(Full) - MostSlots))
\* The rotation by first appearance, each engine as often as it weighs.
Weighted ==
    LET w == Weights
        firsts == At(Rotation, {i \in DOMAIN Rotation :
                                    \A j \in 1 .. (i - 1) : Rotation[j] # Rotation[i]}) IN
    FoldLeft(LAMBDA rot, e : rot \o [j \in 1 .. w[e] |-> e], <<>>, firsts)

\* candidateEngines: from the slot of the task, one further for each failed attempt.
Rotated(h) ==
    LET rot == Weighted
        free == At([i \in DOMAIN rot |-> i], {i \in DOMAIN rot : rot[i] \in ZeroCost})
        entry == IF free = <<>> THEN h % Len(rot) ELSE free[(h % Len(free)) + 1] - 1
        failures == Cardinality(DOMAIN log \ Done(log, DOMAIN log))
        start == (entry + failures) % Len(rot) IN
    SubSeq(rot, start + 1, Len(rot)) \o SubSeq(rot, 1, start)

\* defaultQuarantineGate: never an empty list.
Gate(cands, isolated) ==
    LET kept == At(cands, {i \in DOMAIN cands : cands[i] \notin isolated}) IN
    IF kept = <<>> THEN cands ELSE kept

\* defaultCandidateTailEnhancer
WithTail(cands) ==
    cands \o At(Subscriptions, {i \in DOMAIN Subscriptions : ~Contains(cands, Subscriptions[i])})

Today(e) == Cardinality({i \in DOMAIN log : log[i].engine = e /\ log[i].day = day})
\* defaultDailyAttemptCapGate; counts that cannot be read stand for the cap.
UnderCap(e, readable) == Cap[e] = 0 \/ (readable /\ Today(e) < Cap[e])

\* pickCandidateTags, and the engines that failed for supply within the cooldown.
Candidates(pin, h, isolated, readable) ==
    LET base == IF pin = None THEN Rotated(h) ELSE <<pin>>
        gated == Gate(base, isolated)
        tailed == IF pin = None THEN WithTail(gated) ELSE gated
        starved == {log[i].engine : i \in {j \in DOMAIN log :
                       log[j].result = "supply" /\ log[j].day = day}} IN
    At(tailed, {i \in DOMAIN tailed : UnderCap(tailed[i], readable) /\ tailed[i] \notin starved})

-----------------------------------------------------------------------------
(* The cycle of the daemon. *)

\* runOnce finds no task to do.
NoTask ==
    /\ pc = "idle" /\ pc' = "cleanup"
    /\ UNCHANGED <<day, log, file, cached, tags, engine, spared, unprobed, faults>>

\* recentRunStats answers from its cache within the minute, and when the query fails;
\* without an answer isolation stays as the file has it.
StatsSeen(readable) ==
    (IF cached # None /\ cached.day = day THEN {cached.log} ELSE {})
        \cup (IF readable /\ log # <<>> THEN {log} ELSE {})

\* The head of pickReadyTask: isolation, its file, the caps, the candidates.  "saved" is
\* whether the file can be written; a file that cannot be parsed is never written.
Evaluate(pin, h, readable, saved) ==
    /\ pc = "idle"
    /\ \/ /\ StatsSeen(readable) = {}
          /\ spared' = Active(file)
          /\ UNCHANGED <<file, cached, unprobed>>
       \/ \E seen \in StatsSeen(readable) :
            LET targets == PolicyTargets(seen) \cup (IF readable THEN BreakerTargets ELSE {})
                next == Isolate(file, targets)
                fresh == Entries(next) \ Entries(file) IN
            /\ cached' = [day |-> day, log |-> seen]
            /\ IF file.kind = "bad" \/ targets = {} \/ fresh = {} \/ ~saved
               THEN spared' = Active(file) /\ UNCHANGED <<file, unprobed>>
               ELSE spared' = Active(next) /\ file' = next /\ unprobed' = unprobed \cup fresh
    /\ tags' = Candidates(pin, h, spared', readable)
    /\ pc' = "choosing"
    /\ UNCHANGED <<day, log, engine, faults>>

\* An engine whose preflight fails, or that cannot be built, gives way to the next.
PreflightFails ==
    /\ pc = "choosing" /\ tags # <<>>
    /\ tags' = Tail(tags)
    /\ UNCHANGED <<day, log, file, cached, pc, engine, spared, unprobed, faults>>

Launch ==
    /\ pc = "choosing" /\ tags # <<>> /\ Len(log) < MaxRows
    /\ pc' = "running" /\ engine' = Head(tags)
    /\ unprobed' = unprobed \ {Head(tags)}
    /\ UNCHANGED <<day, log, file, cached, tags, spared, faults>>

\* "deferred" or "preflight-failed": no attempt in this cycle.
NoEngine ==
    /\ pc = "choosing" /\ tags = <<>>
    /\ pc' = "cleanup"
    /\ UNCHANGED <<day, log, file, cached, tags, engine, spared, unprobed, faults>>

Row(e, r) == [engine |-> e, result |-> r, day |-> day]

\* The row of the worker: the result of its run, its quarantine, or the error thrown.
RecordAttempt(r) ==
    /\ pc = "running" /\ r # "refused"
    /\ log' = Append(log, Row(engine, r))
    /\ IF r = "done" THEN pc' = "judging" /\ UNCHANGED engine
       ELSE pc' = "cleanup" /\ engine' = None
    /\ tags' = <<>> /\ spared' = {}
    /\ UNCHANGED <<day, file, cached, unprobed, faults>>

\* retryInfrastructure: an engine that was killed from outside leaves no row, and runOnce
\* starts over or, the second time (not counted here), blocks the task.
NoRow ==
    /\ pc = "running" /\ pc' \in {"idle", "cleanup"}
    /\ engine' = None /\ tags' = <<>> /\ spared' = {}
    /\ UNCHANGED <<day, log, file, cached, unprobed, faults>>

\* The ownership, the artifacts or the gate refuse the result: a row more of the same
\* engine.  A candidate that was saved for review is judged in a later cycle, without a
\* worker, against no cap.
Refuse(e) ==
    /\ Len(log) < MaxRows
    /\ \/ pc = "judging" /\ e = engine
       \/ pc = "idle" /\ Done(log, Attempts(log, e)) # {}
    /\ log' = Append(log, Row(e, "refused"))
    /\ pc' = "cleanup" /\ engine' = None
    /\ UNCHANGED <<day, file, cached, tags, spared, unprobed, faults>>

\* Merged, deferred, paused or blocked: no row.
Settle ==
    /\ pc = "judging" /\ pc' = "cleanup" /\ engine' = None
    /\ UNCHANGED <<day, log, file, cached, tags, spared, unprobed, faults>>

\* cleanupRoutingState: pruneRoutingState drops the entries whose time is over.
PruneAll(f) == [f EXCEPT !.until = NoEntries]
Prune(f) == [f EXCEPT !.until = [e \in Engines |-> IF f.until[e] > day THEN f.until[e] ELSE 0]]
Cleanup(saved) ==
    /\ pc = "cleanup" /\ pc' = "idle"
    /\ file' = IF file.kind = "state" /\ saved THEN Prune(file) ELSE file
    /\ tags' = <<>> /\ spared' = {}
    /\ UNCHANGED <<day, log, cached, engine, unprobed, faults>>

-----------------------------------------------------------------------------
Tick ==
    /\ day < MaxDay /\ day' = day + 1
    /\ UNCHANGED <<log, file, cached, cycle, unprobed, faults>>

\* The daemon dies and starts again: the attempt that ran is in no row.
Restart ==
    /\ faults < MaxFaults /\ faults' = faults + 1
    /\ pc' = "idle" /\ tags' = <<>> /\ engine' = None /\ spared' = {} /\ cached' = None
    /\ UNCHANGED <<day, log, file, unprobed>>

\* A damaged file; an operator who removes it.
Damage ==
    /\ faults < MaxFaults /\ faults' = faults + 1 /\ file.kind = "state"
    /\ file' = [NoFile EXCEPT !.kind = "bad"] /\ unprobed' = {}
    /\ UNCHANGED <<day, log, cached, cycle>>
RemoveFile ==
    /\ file.kind = "bad" /\ file' = NoFile
    /\ UNCHANGED <<day, log, cached, cycle, unprobed, faults>>

Next ==
    \/ NoTask \/ PreflightFails \/ Launch \/ NoEngine
    \/ \E pin \in Engines \cup {None}, h \in 0 .. 1, readable, saved \in BOOLEAN :
          Evaluate(pin, h, readable, saved)
    \/ \E r \in Results : RecordAttempt(r)
    \/ NoRow \/ Settle \/ \E e \in Engines : Refuse(e)
    \/ \E saved \in BOOLEAN : Cleanup(saved)
    \/ Tick \/ Restart \/ Damage \/ RemoveFile

Spec == Init /\ [][Next]_vars
-----------------------------------------------------------------------------
TypeOK ==
    /\ day \in 1 .. MaxDay /\ faults \in 0 .. MaxFaults
    /\ log \in Seq([engine : Engines, result : Results, day : 1 .. MaxDay])
    /\ file.kind \in {"missing", "bad", "state"}
    /\ {file.until, file.count} \subseteq [Engines -> Nat]
    /\ pc \in {"idle", "choosing", "running", "judging", "cleanup"}
    /\ tags \in Seq(Engines) /\ engine \in Engines \cup {None}
    /\ spared \subseteq Engines /\ unprobed \subseteq Engines

\* While an isolation runs nothing moves its end, neither a second finding against the
\* engine nor the pruning: only a damaged file loses it (applyFirstIsolation,
\* pruneRoutingState).
ClockKept ==
    [][\A e \in Active(file) : file'.kind = "state" => file'.until[e] = file.until[e]]_vars

\* signature-breaker.ts says that an engine is tried once when its isolation ends and is
\* isolated again when it fails then: no second isolation without a run in between.
ProbedBeforeReisolated ==
    [][\A e \in Engines : file'.count[e] > file.count[e] => e \notin unprobed]_vars

\* No engine has more worker rows in a day than its cap, whatever of the run database could
\* be read when it was chosen (daily-attempt-cap-gate.ts).  The rows of refused results
\* count against the cap as well, so that all its rows together may exceed it, and a run
\* without a row does not count.
Worked(e) == Cardinality({i \in DOMAIN log : /\ log[i].engine = e /\ log[i].day = day
                                             /\ log[i].result # "refused"})
CapKept == \A e \in Engines : Cap[e] > 0 => Worked(e) <= Cap[e]

\* Whatever the success rates, no engine of the configuration loses its last slot, and the
\* rotation stays within its slots as far as that allows (weightedRotation).
RotationFits == LET w == Weights IN
                (\A e \in InRotation : w[e] >= 1) /\ Total(w) <= MostSlots

LimitsKept == [](CapKept /\ RotationFits) /\ ClockKept
=============================================================================
