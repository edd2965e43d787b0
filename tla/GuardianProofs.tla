--------------------------- MODULE GuardianProofs ---------------------------
(***************************************************************************)
(* Proofs about the fleet guardian (Guardian) and about the evidence of a  *)
(* repaired issue (IssueEvidence), the two machines of BothSpec.           *)
(***************************************************************************)
EXTENDS MCGuardian, TLAPS

\* The composed machine is a behaviour of each: what is proved of them holds of it.
LEMMA BothAreBoth == BothSpec => Spec /\ Ev!Spec
<1>1. BothInit => GuardianInit /\ Ev!Init
  BY DEF BothInit
<1>2. [BothNext]_allVars => [Next]_vars /\ [Ev!Next]_(Ev!vars)
  BY DEF BothNext, allVars, evVars, Ev!vars, Ev!outside, Ev!receipts
<1> QED
  BY <1>1, <1>2, PTL DEF BothSpec, Spec, Ev!Spec

-----------------------------------------------------------------------------

(***************************************************************************)
(* The evidence of a repaired issue.  A checkout that was disturbed is     *)
(* clean again only when that was undone, so that one which is clean when  *)
(* it is looked at was so at the end of each command that ran in it, or    *)
(* is among those in which something was undone.                           *)
(***************************************************************************)
Trees == [head : Nat, clean : BOOLEAN, test : BOOLEAN]
EvidenceType ==
    /\ cand \in [commit : Ev!Commits, base : Ev!Bases, additive : BOOLEAN]
    /\ tree \in [Ev!Dirs -> Trees \cup {Ev!Absent}]
    /\ DOMAIN reg = Ev!Commits /\ DOMAIN acc = Ev!Commits

\* What command p said was said of h, if its tree is still h and nothing was undone there.
Told(p, d, h) == tree[d] = Ev!Clean(h) => got[p].on = Ev!Clean(h) \/ d \in undone

Gathered ==
    /\ phase \in {"idle", "green", "red", "ctrl", "check", "accept", "accepted", "quality"}
    /\ phase = "green" => got = Ev!Absent
    /\ phase = "red" => DOMAIN got = {"green"}
    /\ phase = "ctrl" => DOMAIN got = {"green", "red"}
    /\ phase = "check" => DOMAIN got = {"green", "red", "ctrl"}
    /\ phase \in {"red", "ctrl", "check"} => Told("green", "cwd", cand.commit)
    /\ phase \in {"ctrl", "check"} => Told("red", "replay", cand.base)
    /\ phase = "check" => Told("ctrl", "control", cand.commit)
    /\ phase = "accepted" =>
         /\ tree["cwd"] = Ev!Clean(cand.commit) =>
              got.accept = Ev!Clean(cand.commit) \/ "cwd" \in undone
         /\ acc[cand.commit] = [cfg |-> acc[cand.commit].cfg, passed |-> FALSE, on |-> Ev!Absent,
                                undone |-> FALSE]

\* Receipts of a commit are about that commit.
Receipts == \A c \in Ev!Commits :
    /\ reg[c] # Ev!Absent =>
         /\ DOMAIN reg[c].got = {"green", "red", "ctrl"}
         /\ reg[c].got["green"].on = Ev!Clean(c) \/ "cwd" \in reg[c].undone
         /\ reg[c].got["ctrl"].on = Ev!Clean(c) \/ "control" \in reg[c].undone
         /\ reg[c].got["red"].on = Ev!Clean(reg[c].base) \/ "replay" \in reg[c].undone
    /\ acc[c] # Ev!Absent /\ acc[c].passed => acc[c].on = Ev!Clean(c) \/ acc[c].undone

EvidenceInv == EvidenceType /\ Gathered /\ Receipts

LEMMA EvidenceInit == Ev!Init => EvidenceInv
<1> USE DEF Ev!Init, Ev!Commits, Ev!Bases, Ev!Dirs, Ev!Clean, Ev!Absent, Trees
<1> SUFFICES ASSUME Ev!Init PROVE EvidenceInv
  OBVIOUS
<1>1. EvidenceType
  BY DEF EvidenceType
<1> QED
  BY <1>1 DEF EvidenceInv, Gathered, Receipts

LEMMA CleanIsTree == \A h \in Ev!Commits \cup Ev!Bases :
    Ev!Clean(h) \in Trees /\ h \in Nat /\ h # 5
  BY DEF Ev!Clean, Trees, Ev!Commits, Ev!Bases

\* After Fails there is nothing to be said, and the checkout is as it was.
LEMMA FailsKeeps ==
  ASSUME EvidenceType, Ev!Fails
  PROVE  tree' \in [Ev!Dirs -> Trees \cup {Ev!Absent}] /\ phase' = "idle"
  BY DEF EvidenceType, Ev!Fails, Ev!Dirs

\* One of the three test runs comes to its end.
LEMMA EndsKeeps ==
  ASSUME EvidenceInv, Ev!Running, NEW res, Ev!Ends(res), UNCHANGED <<cand, cfg, reg, acc>>
  PROVE  EvidenceInv'
<1> USE DEF EvidenceInv
<1>0. Receipts'
  BY DEF Receipts
<1>1. CASE Ev!Fails
  BY <1>0, <1>1, FailsKeeps DEF EvidenceType, Gathered
<1>2. CASE phase = "green" /\ Ev!Clones("replay", cand.base) /\ Ev!Begins("red") /\ Ev!Keep(res)
           /\ UNCHANGED undone
  <2>1. EvidenceType'
    BY <1>2, CleanIsTree DEF EvidenceType, Ev!Clones, Ev!Dirs
  <2>2. DOMAIN got' = {"green"} /\ got'["green"].on = tree["cwd"] /\ undone' = undone
    BY <1>2 DEF Gathered, Ev!Keep, Ev!Outcome, Ev!Where, Ev!Absent
  <2>3. tree'["cwd"] = tree["cwd"] /\ phase' = "red"
    BY <1>2 DEF EvidenceType, Ev!Clones, Ev!Begins, Ev!Dirs
  <2> QED BY <1>0, <2>1, <2>2, <2>3 DEF Gathered, Told
<1>3. CASE phase = "red" /\ Ev!Clones("control", cand.commit) /\ Ev!Begins("ctrl") /\ Ev!Keep(res)
           /\ UNCHANGED undone
  <2>1. EvidenceType'
    BY <1>3, CleanIsTree DEF EvidenceType, Ev!Clones, Ev!Dirs
  <2>2. /\ DOMAIN got' = {"green", "red"} /\ got'["red"].on = tree["replay"]
        /\ got'["green"] = got["green"]
    BY <1>3 DEF Gathered, Ev!Keep, Ev!Outcome, Ev!Where
  <2>3. /\ tree'["cwd"] = tree["cwd"] /\ tree'["replay"] = tree["replay"]
        /\ phase' = "ctrl"
    BY <1>3 DEF EvidenceType, Ev!Clones, Ev!Begins, Ev!Dirs
  <2> QED BY <1>0, <1>3, <2>1, <2>2, <2>3 DEF Gathered, Told
<1>4. CASE phase = "ctrl" /\ phase' = "check" /\ Ev!Keep(res) /\ UNCHANGED <<tree, undone>>
  <2>1. EvidenceType'
    BY <1>4 DEF EvidenceType
  <2>2. /\ DOMAIN got' = {"green", "red", "ctrl"} /\ got'["ctrl"].on = tree["control"]
        /\ got'["green"] = got["green"] /\ got'["red"] = got["red"]
    BY <1>4 DEF Gathered, Ev!Keep, Ev!Outcome, Ev!Where
  <2> QED BY <1>0, <1>4, <2>1, <2>2 DEF Gathered, Told
<1> QED
  BY <1>1, <1>2, <1>3, <1>4 DEF Ev!Ends, Ev!Running

LEMMA CheckKeeps ==
  ASSUME EvidenceInv, Ev!Check
  PROVE  EvidenceInv'
<1> USE DEF EvidenceInv, Ev!Check, Ev!outside
<1>1. CASE Ev!Unchanged /\ (Ev!Trusted => \A p \in DOMAIN got : Ev!Consistent(got[p], runner))
  <2>1. /\ got["green"].on = Ev!Clean(cand.commit) \/ "cwd" \in undone
        /\ got["ctrl"].on = Ev!Clean(cand.commit) \/ "control" \in undone
        /\ got["red"].on = Ev!Clean(cand.base) \/ "replay" \in undone
    BY <1>1 DEF Gathered, Told, Ev!Unchanged, Ev!HeadOf, Ev!Dirs
  <2>2. reg' = [reg EXCEPT ![cand.commit] =
                  [base |-> cand.base, cfg |-> cfg, runner |-> IF Ev!Trusted THEN runner ELSE 0,
                   got |-> got, undone |-> undone]]
    BY <1>1
  <2>3. Receipts'
    BY <1>1, <2>1, <2>2 DEF Receipts, Gathered, EvidenceType
  <2>4. EvidenceType' /\ Gathered'
    BY <1>1 DEF EvidenceType, Gathered
  <2> QED BY <2>3, <2>4
<1>2. CASE Ev!Fails /\ UNCHANGED reg
  BY <1>2, FailsKeeps DEF EvidenceType, Gathered, Receipts
<1> QED BY <1>1, <1>2

LEMMA AcceptanceKeeps ==
  ASSUME EvidenceInv, Ev!Acceptance \/ Ev!Accepted \/ Ev!Quality
  PROVE  EvidenceInv'
<1> USE DEF EvidenceInv, Ev!outside
<1>1. CASE Ev!Acceptance
  <2>1. /\ acc' = [acc EXCEPT ![cand.commit] = [cfg |-> cfg, passed |-> FALSE, on |-> Ev!Absent,
                                              undone |-> FALSE]]
        /\ UNCHANGED <<cand, cfg, reg>> /\ cand.commit \in Ev!Commits
    BY <1>1 DEF Ev!Acceptance, EvidenceType
  <2>2. Receipts' /\ DOMAIN acc' = Ev!Commits
    BY <2>1 DEF Receipts, EvidenceType
  <2>3. CASE Ev!Fails
    BY <2>1, <2>2, <2>3, FailsKeeps DEF EvidenceType, Gathered
  <2>4. CASE phase' = "accepted" /\ got' = [accept |-> tree["cwd"]] /\ UNCHANGED <<job, tree, undone>>
    BY <2>1, <2>2, <2>4 DEF EvidenceType, Gathered
  <2> QED BY <1>1, <2>3, <2>4 DEF Ev!Acceptance
<1>2. CASE Ev!Accepted
  <2>1. CASE tree["cwd"] = Ev!Clean(cand.commit)
    <3>1. /\ acc' = [acc EXCEPT ![cand.commit] = [@ EXCEPT !.passed = TRUE, !.on = got.accept,
                                                     !.undone = "cwd" \in undone]]
          /\ phase' = "quality" /\ got' = Ev!Absent /\ UNCHANGED <<cand, cfg, reg, tree>>
      BY <1>2, <2>1 DEF Ev!Accepted
    <3>2. acc'[cand.commit].on = Ev!Clean(cand.commit) \/ acc'[cand.commit].undone
      BY <1>2, <2>1, <3>1 DEF Ev!Accepted, Gathered, EvidenceType
    <3>3. Receipts'
      BY <3>1, <3>2 DEF Receipts, EvidenceType
    <3> QED BY <3>1, <3>3 DEF EvidenceType, Gathered
  <2>2. CASE tree["cwd"] # Ev!Clean(cand.commit)
    BY <1>2, <2>2, FailsKeeps DEF Ev!Accepted, EvidenceType, Gathered, Receipts
  <2> QED BY <2>1, <2>2
<1>3. CASE Ev!Quality
  BY <1>3, FailsKeeps DEF Ev!Quality, EvidenceType, Gathered, Receipts
<1> QED BY <1>1, <1>2, <1>3

\* A disturbed tree is no clone, and what was said of the others stands.
LEMMA DisturbKeeps ==
  ASSUME EvidenceInv, NEW d \in Ev!Dirs, Ev!Disturb(d)
  PROVE  EvidenceInv'
<1> USE DEF EvidenceInv
<1>0. UNCHANGED <<cand, cfg, runner, phase, job, got, undone, reg, acc, qual>>
  BY DEF Ev!Disturb, Ev!outside, Ev!receipts
<1>1. tree[d] \in Trees
  BY DEF EvidenceType, Ev!Disturb
<1>2. PICK t \in Trees : tree' = [tree EXCEPT ![d] = t]
  <2>1. /\ [tree[d] EXCEPT !.head = 5] \in Trees /\ [tree[d] EXCEPT !.clean = FALSE] \in Trees
        /\ [tree[d] EXCEPT !.test = FALSE] \in Trees
    BY <1>1 DEF Trees
  <2> QED BY <2>1 DEF Ev!Disturb
<1>3. \A h \in Ev!Commits \cup Ev!Bases : tree'[d] # Ev!Clean(h)
  BY <1>1, CleanIsTree DEF EvidenceType, Ev!Disturb, Trees, Ev!Clean
<1>4. \A c \in Ev!Dirs : tree'[c] # tree[c] => c = d
  BY DEF EvidenceType, Ev!Disturb
<1>5. \A c \in Ev!Dirs, h \in Ev!Commits \cup Ev!Bases :
         tree'[c] = Ev!Clean(h) => tree[c] = Ev!Clean(h)
  BY <1>3, <1>4
<1>6. Gathered'
  BY <1>0, <1>5 DEF Gathered, Told, EvidenceType, Ev!Dirs
<1> QED
  BY <1>0, <1>2, <1>6 DEF Receipts, EvidenceType

\* Where something was undone nothing is said; what was said of the other trees stands.
LEMMA UndoKeeps ==
  ASSUME EvidenceInv, NEW d \in Ev!Dirs, Ev!Undo(d)
  PROVE  EvidenceInv'
<1> USE DEF EvidenceInv
<1>1. UNCHANGED <<cand, cfg, runner, phase, job, got, reg, acc, qual>> /\ undone' = undone \cup {d}
  BY DEF Ev!Undo, Ev!outside, Ev!receipts
<1>2. tree' = [tree EXCEPT ![d] = Ev!Clean(Ev!HeadOf[d])] /\ Ev!HeadOf[d] \in Ev!Commits \cup Ev!Bases
  BY DEF Ev!Undo, Ev!HeadOf, Ev!Dirs, EvidenceType
<1>3. tree' \in [Ev!Dirs -> Trees \cup {Ev!Absent}]
  BY <1>2, CleanIsTree DEF EvidenceType
<1>4. \A c \in Ev!Dirs \ {d} : tree'[c] = tree[c]
  BY <1>2 DEF EvidenceType
<1>5. Gathered'
  BY <1>1, <1>4 DEF Gathered, Told, Ev!Dirs
<1> QED
  BY <1>1, <1>3, <1>5 DEF Receipts, EvidenceType

LEMMA EvidenceStep ==
  ASSUME EvidenceInv, [Ev!Next]_(Ev!vars)
  PROVE  EvidenceInv'
<1>1. CASE Ev!Verify
  BY <1>1 DEF EvidenceInv, EvidenceType, Gathered, Receipts, Ev!Verify, Ev!Begins, Ev!outside, Ev!receipts
<1>2. CASE Ev!Close \/ Ev!CustomEnds \/ Ev!TimesOut
  BY <1>2, EndsKeeps DEF Ev!Close, Ev!CustomEnds, Ev!TimesOut, Ev!outside, Ev!receipts
<1>3. CASE Ev!Check
  BY <1>3, CheckKeeps
<1>4. CASE Ev!Acceptance \/ Ev!Accepted \/ Ev!Quality
  BY <1>4, AcceptanceKeeps
<1>5. ASSUME NEW d \in Ev!Dirs, Ev!Disturb(d) PROVE EvidenceInv'
  BY <1>5, DisturbKeeps
<1>9. ASSUME NEW d \in Ev!Dirs, Ev!Undo(d) PROVE EvidenceInv'
  BY <1>9, UndoKeeps
<1>6. CASE Ev!Crash
  BY <1>6, FailsKeeps DEF EvidenceInv, EvidenceType, Gathered, Receipts, Ev!Crash, Ev!outside, Ev!receipts
<1>7. CASE Ev!NewCandidate
  <2>1. /\ cand' \in [commit : Ev!Commits, base : Ev!Bases, additive : BOOLEAN]
        /\ tree' \in [Ev!Dirs -> Trees \cup {Ev!Absent}]
    <3>1. PICK b \in Ev!Bases, c \in Ev!Commits, a \in BOOLEAN :
            /\ cand' = [commit |-> c, base |-> b, additive |-> a]
            /\ tree' = [tree EXCEPT !["cwd"] = Ev!Clean(c)]
      BY <1>7 DEF Ev!NewCandidate
    <3> QED BY <3>1, CleanIsTree DEF EvidenceInv, EvidenceType
  <2> QED
    BY <1>7, <2>1 DEF EvidenceInv, EvidenceType, Gathered, Receipts, Ev!NewCandidate, Ev!receipts
<1>8. CASE Ev!NewConfig \/ Ev!NewRunner \/ UNCHANGED Ev!vars
  BY <1>8 DEF EvidenceInv, EvidenceType, Gathered, Told, Receipts, Ev!NewConfig, Ev!NewRunner, Ev!vars,
              Ev!outside, Ev!receipts
<1> QED
  BY <1>1, <1>2, <1>3, <1>4, <1>5, <1>6, <1>7, <1>8, <1>9 DEF Ev!Next

\* What a repaired issue is published on took place: the tree was exactly this candidate, or
\* its base, at the end of each run of the test and of the acceptance, whatever was replaced
\* since, but for what a process left behind undid before the trees were compared, once
\* after three runs and once after the acceptance (regression.ts:232-270, acceptance.ts:14).
THEOREM EvidenceStaysReal == Ev!Spec => []EvidenceIsReal
<1>1. EvidenceInv => EvidenceIsReal
  BY DEF EvidenceInv, EvidenceType, Receipts, EvidenceIsReal, Ev!EvidenceIsReal, Ev!Publishable,
         Ev!AssertRegression, Ev!AssertAcceptance, Ev!TestSource, Ev!Consistent, Ev!Where
<1> QED
  BY EvidenceInit, EvidenceStep, <1>1, PTL DEF Ev!Spec

-----------------------------------------------------------------------------
(***************************************************************************)
(* The fleet guardian.  A pass that is past the decision of codex, or that *)
(* supervises on the way there, belongs to a configuration that observes   *)
(* no executions, whose inventory therefore stays empty; and whoever is    *)
(* inside the pause gate made it.                                          *)
(***************************************************************************)
Granted == {"admit", "admitting", "verify", "judge", "force", "forcing", "forced", "await", "accept"}
Before == {"ask", "ready", "asking", "codex"}

\* What a pass is entitled to by where it is, what its result is for and its diagnosis.
Entitled(p, s, m) ==
    /\ "then" \in DOMAIN s /\ s.then \in {"idle", "lock", "judge", "await", "accept"}
    /\ "diagnosis" \in DOMAIN m
    /\ p \in Granted \/ s.then \in {"judge", "await", "accept"} => ~observed
    /\ p \in Before /\ ~m.diagnosis => ~observed

GateHeld == \A w \in Watchers : pc[w] \in Inside => gate = w
PassInv ==
    /\ pc = [w \in Watchers |-> pc[w]]
    /\ snap = [w \in Watchers |-> snap[w]] /\ guardian = [w \in Watchers |-> guardian[w]]
    /\ \A w \in Watchers : Entitled(pc[w], snap[w], guardian[w])
    /\ observed \in BOOLEAN
    /\ ~observed => records = "none"
GuardianInv == PassInv /\ GateHeld

LEMMA NothingEntitled ==
  ASSUME NEW m, "diagnosis" \in DOMAIN m
  PROVE  /\ Entitled("idle", NoResult, m) /\ Entitled("lock", NoResult, m)
         /\ "diagnosis" \in DOMAIN NoPass
<1>1. /\ DOMAIN NoResult = {"pid", "age", "alive", "kids", "clean", "error", "act", "observe", "then"}
      /\ NoResult.then = "idle"
  BY DEF NoResult
<1> QED
  BY <1>1 DEF Entitled, Granted, Before, NoPass

LEMMA RestEntitled == Entitled("idle", NoResult, NoPass)
<1>1. "diagnosis" \in DOMAIN NoPass
  BY DEF NoPass
<1> QED
  BY <1>1, NothingEntitled

LEMMA GuardianInvInit == GuardianInit => GuardianInv
<1> SUFFICES ASSUME GuardianInit PROVE GuardianInv
  OBVIOUS
<1>1. /\ pc = [w \in Watchers |-> "idle"] /\ snap = [w \in Watchers |-> NoResult]
      /\ guardian = [w \in Watchers |-> NoPass] /\ observed \in BOOLEAN /\ records = "none"
  BY DEF GuardianInit, Init
<1>2. \A w \in Watchers : Entitled(pc[w], snap[w], guardian[w])
  <2> TAKE w \in Watchers
  <2>1. pc[w] = "idle" /\ snap[w] = NoResult /\ guardian[w] = NoPass
    BY <1>1
  <2> QED BY <2>1, RestEntitled
<1> QED
  BY <1>1, <1>2 DEF GuardianInv, PassInv, GateHeld, Inside

-----------------------------------------------------------------------------
(* The gate. *)

\* A step of one process: it leaves the gate alone, takes a free one, or leaves it.
GateMove(w) ==
    /\ \E p : pc' = [pc EXCEPT ![w] = p]
    /\ \/ gate' = gate /\ pc'[w] \notin Inside
       \/ gate' = w /\ GateFree
       \/ gate' = None /\ pc[w] \in Inside /\ pc'[w] \notin Inside

LEMMA GateMoves ==
  ASSUME pc = [w \in Watchers |-> pc[w]], GateHeld, NEW w \in Watchers, GateMove(w)
  PROVE  GateHeld'
<1>1. PICK p : pc' = [pc EXCEPT ![w] = p]
  BY DEF GateMove
<1>2. \A v \in Watchers \ {w} : pc'[v] = pc[v]
  BY <1>1
<1>3. CASE gate' = gate /\ pc'[w] \notin Inside
  BY <1>2, <1>3 DEF GateHeld, Inside
<1>4. CASE gate' = w /\ GateFree
  BY <1>2, <1>4 DEF GateHeld, Inside, GateFree
<1>5. CASE gate' = None /\ pc[w] \in Inside /\ pc'[w] \notin Inside
  BY <1>2, <1>5 DEF GateHeld, Inside
<1> QED BY <1>3, <1>4, <1>5 DEF GateMove

-----------------------------------------------------------------------------
(* The passes. *)

\* One pass moves on, to something it is entitled to.
PassMove(w) ==
    \E p, s, m :
        /\ pc' = [pc EXCEPT ![w] = p] /\ snap' = [snap EXCEPT ![w] = s]
        /\ guardian' = [guardian EXCEPT ![w] = m] /\ Entitled(p, s, m)
        /\ observed' = observed /\ records' = records /\ (p = "codex" => ~stop)

LEMMA PassMoves ==
  ASSUME PassInv, NEW w \in Watchers, PassMove(w)
  PROVE  PassInv'
<1>1. PICK p, s, m :
        /\ pc' = [pc EXCEPT ![w] = p] /\ snap' = [snap EXCEPT ![w] = s]
        /\ guardian' = [guardian EXCEPT ![w] = m] /\ Entitled(p, s, m)
        /\ observed' = observed /\ records' = records /\ (p = "codex" => ~stop)
  BY DEF PassMove
<1>2. /\ pc' = [v \in Watchers |-> pc'[v]]
      /\ snap' = [v \in Watchers |-> snap'[v]] /\ guardian' = [v \in Watchers |-> guardian'[v]]
  BY <1>1 DEF PassInv
<1>3. \A v \in Watchers : pc'[v] = IF v = w THEN p ELSE pc[v]
  BY <1>1 DEF PassInv
<1>4. \A v \in Watchers : snap'[v] = IF v = w THEN s ELSE snap[v]
  BY <1>1 DEF PassInv
<1>5. \A v \in Watchers : guardian'[v] = IF v = w THEN m ELSE guardian[v]
  BY <1>1 DEF PassInv
<1>6. \A v \in Watchers : Entitled(pc[v], snap[v], guardian[v])
  BY DEF PassInv
<1>7. ASSUME NEW v \in Watchers PROVE Entitled(pc[v], snap[v], guardian[v])'
  <2>1. CASE v = w
    BY <1>1, <1>3, <1>4, <1>5, <2>1 DEF Entitled
  <2>2. CASE v # w
    BY <1>1, <1>3, <1>4, <1>5, <1>6, <2>2 DEF Entitled
  <2> QED BY <2>1, <2>2
<1> QED
  BY <1>1, <1>2, <1>7 DEF PassInv

\* A pass moves on to a step outside the gate with what it is entitled to.
Passes(w, m) ==
    \E p, s :
        /\ pc' = [pc EXCEPT ![w] = p] /\ p \notin Inside /\ (p = "codex" => ~stop)
        /\ snap' = [snap EXCEPT ![w] = s] /\ Entitled(p, s, m)

LEMMA ComesBack ==
  ASSUME NEW w \in Watchers, NEW result, NEW m, "diagnosis" \in DOMAIN m,
         "then" \in DOMAIN result, result.then \in {"idle", "lock", "judge", "await", "accept"},
         result.then \in {"judge", "await", "accept"} => ~observed,
         Return(w, result)
  PROVE  Passes(w, m)
<1> DEFINE s == IF result.then = "idle" THEN NoResult ELSE result
<1>1. Entitled(result.then, s, m)
  <2>1. CASE result.then = "idle"
    BY <2>1, NothingEntitled
  <2>2. CASE result.then # "idle"
    BY <2>2 DEF Entitled, Granted, Before
  <2> QED BY <2>1, <2>2
<1>2. result.then \notin Inside
  BY DEF Inside
<1> QED
  BY <1>1, <1>2 DEF Return, Passes

LEMMA Supervises ==
  ASSUME NEW w \in Watchers, NEW then \in {"idle", "lock", "judge", "await", "accept"}, NEW observe, NEW m,
         "diagnosis" \in DOMAIN m, then \in {"judge", "await", "accept"} => ~observed,
         Supervise(w, then, observe)
  PROVE  Passes(w, m)
<1> DEFINE start == [NoResult EXCEPT !.then = then, !.observe = observe]
           begun == [start EXCEPT !.pid = lock, !.age = beat]
<1>1. "then" \in DOMAIN start /\ start.then = then /\ "then" \in DOMAIN begun /\ begun.then = then
  BY DEF NoResult
<1>2. CASE stop
  <2>1. Return(w, start)
    BY <1>2 DEF Supervise
  <2> HIDE DEF start
  <2> QED BY <1>1, <2>1, ComesBack
<1>3. CASE ~stop
  <2>1. pc' = [pc EXCEPT ![w] = "probe"] /\ snap' = [snap EXCEPT ![w] = begun]
    BY <1>3 DEF Supervise
  <2> HIDE DEF start, begun
  <2>2. Entitled("probe", begun, m)
    BY <1>1 DEF Entitled, Granted, Before
  <2> QED BY <2>1, <2>2 DEF Passes, Inside
<1> QED BY <1>2, <1>3

\* The steps of superviseConfig, whoever calls it.
Leads(w) == GateMove(w) /\ PassMove(w)

LEMMA LeadsOn ==
  ASSUME PassInv, NEW w \in Watchers, NEW m, Passes(w, m), guardian' = [guardian EXCEPT ![w] = m],
         observed' = observed, records' = records,
         gate' = gate \/ (gate' = None /\ pc[w] \in Inside)
  PROVE  Leads(w)
<1>1. PICK p, s :
        /\ pc' = [pc EXCEPT ![w] = p] /\ p \notin Inside /\ (p = "codex" => ~stop)
        /\ snap' = [snap EXCEPT ![w] = s] /\ Entitled(p, s, m)
  BY DEF Passes
<1>2. pc'[w] = p
  BY <1>1 DEF PassInv
<1>3. GateMove(w)
  BY <1>1, <1>2 DEF GateMove
<1>4. PassMove(w)
  BY <1>1 DEF PassMove
<1> QED BY <1>3, <1>4 DEF Leads

LEMMA DecideLeads ==
  ASSUME PassInv, NEW w \in Watchers, NEW tasklist, NEW counted, NEW kids, NEW readable,
         Decide(w, tasklist, counted, kids, readable), UNCHANGED guardian
  PROVE  Leads(w)
<1>1. /\ "then" \in DOMAIN snap[w] /\ snap[w].then \in {"idle", "lock", "judge", "await", "accept"}
      /\ snap[w].then \in {"judge", "await", "accept"} => ~observed
      /\ "diagnosis" \in DOMAIN guardian[w]
  BY DEF PassInv, Entitled
<1>2. UNCHANGED <<gate, records, observed>>
  BY DEF Decide, daemonVars
<1>3. \E result :
        /\ "then" \in DOMAIN result /\ result.then = snap[w].then
        /\ \/ Return(w, result)
           \/ /\ pc' \in {[pc EXCEPT ![w] = "reap"], [pc EXCEPT ![w] = "sweep"]}
              /\ snap' = [snap EXCEPT ![w] = result]
  <2> DEFINE s == snap[w]
             pid == IF s.pid = Bare THEN None ELSE s.pid
             alive == pid # None /\ (tasklist => pid \in Running)
             failed == s.pid = Bare \/ (pid # None /\ (~tasklist \/ (alive /\ ~counted)))
             shown == IF ~alive THEN "none" ELSE IF failed THEN "engine" ELSE kids
             wedged == pid # None /\ tasklist /\ alive /\ s.age # Missing /\ s.age > Watchdog
             first == CASE wedged -> "reap"
                        [] ~wedged /\ failed -> "keep"
                        [] OTHER -> Classify(alive, s.age, shown, TRUE)
             spared == first = "reap" /\ LongRound(s.age, shown, readable)
             act == IF spared \/ stop \/ Protected(first, s.pid # None) THEN "keep" ELSE first
             over == s.age # Missing /\ s.age > HardCap
             result == IF s.then = "idle" THEN [NoResult EXCEPT !.pid = pid, !.alive = alive, !.act = act]
                       ELSE [s EXCEPT !.pid = pid,
                                      !.age = IF over THEN MaxAge ELSE IF @ = Missing THEN @ ELSE 0,
                                      !.alive = alive, !.kids = over /\ shown # "none", !.act = act,
                                      !.clean = ~failed /\ ~spared]
  <2>1. IF act = "keep" \/ s.observe THEN Return(w, result)
        ELSE /\ pc' = [pc EXCEPT ![w] = IF act = "reap" THEN "reap" ELSE "sweep"]
             /\ snap' = [snap EXCEPT ![w] = result]
    BY DEF Decide
  <2> HIDE DEF pid, alive, failed, spared, act, over, shown
  <2>2. "then" \in DOMAIN result /\ result.then = s.then
    BY <1>1 DEF NoResult
  <2> HIDE DEF result
  <2> QED BY <2>1, <2>2
<1>4. PICK result :
        /\ "then" \in DOMAIN result /\ result.then = snap[w].then
        /\ \/ Return(w, result)
           \/ /\ pc' \in {[pc EXCEPT ![w] = "reap"], [pc EXCEPT ![w] = "sweep"]}
              /\ snap' = [snap EXCEPT ![w] = result]
  BY <1>3
<1>5. Passes(w, guardian[w])
  <2>1. CASE Return(w, result)
    BY <1>1, <1>4, <2>1, ComesBack
  <2>2. CASE ~Return(w, result)
    <3>1. \A p \in {"reap", "sweep"} : p \notin Inside /\ Entitled(p, result, guardian[w])
      BY <1>1, <1>4 DEF Entitled, Granted, Before, Inside
    <3> QED BY <1>4, <2>2, <3>1 DEF Passes
  <2> QED BY <2>1, <2>2
<1> QED
  <2>1. guardian' = [guardian EXCEPT ![w] = guardian[w]]
    BY DEF PassInv
  <2> QED BY <1>2, <1>5, <2>1, LeadsOn

LEMMA EnterLeads ==
  ASSUME PassInv, NEW w \in Watchers, UNCHANGED guardian,
         NEW from, NEW to, EnterGate(w, from, to),
         to # "codex", to \in Granted => from \in Granted, to \in Before => from \in Before
  PROVE  Leads(w)
<1>1. /\ pc[w] = from /\ GateFree /\ gate' = w /\ pc' = [pc EXCEPT ![w] = to]
      /\ UNCHANGED <<snap, observed, records>>
  BY DEF EnterGate, daemonVars
<1>2. Entitled(to, snap[w], guardian[w])
  BY <1>1 DEF PassInv, Entitled
<1>3. guardian' = [guardian EXCEPT ![w] = guardian[w]] /\ snap' = [snap EXCEPT ![w] = snap[w]]
  BY <1>1 DEF PassInv
<1>4. PassMove(w)
  BY <1>1, <1>2, <1>3 DEF PassMove
<1>5. GateMove(w)
  BY <1>1 DEF GateMove
<1> QED BY <1>4, <1>5 DEF Leads

\* A step that hands its result on keeps what the result is for.
LEMMA ReturnLeads ==
  ASSUME PassInv, NEW w \in Watchers, UNCHANGED <<guardian, observed, records>>,
         gate' = gate \/ (gate' = None /\ pc[w] \in Inside),
         NEW result, "then" \in DOMAIN result, result.then = snap[w].then,
         \/ Return(w, result)
         \/ /\ pc' \in {[pc EXCEPT ![w] = "sweep"], [pc EXCEPT ![w] = "launch"], [pc EXCEPT ![w] = "reap"]}
            /\ snap' = [snap EXCEPT ![w] = result]
  PROVE  Leads(w)
<1>1. /\ result.then \in {"idle", "lock", "judge", "await", "accept"}
      /\ result.then \in {"judge", "await", "accept"} => ~observed
      /\ "diagnosis" \in DOMAIN guardian[w]
      /\ guardian' = [guardian EXCEPT ![w] = guardian[w]]
  BY DEF PassInv, Entitled
<1>2. CASE Return(w, result)
  <2>1. Passes(w, guardian[w])
    BY <1>1, <1>2, ComesBack
  <2> QED BY <1>1, <2>1, LeadsOn
<1>3. CASE ~Return(w, result)
  <2>1. \A p \in {"sweep", "launch", "reap"} : p \notin Inside /\ Entitled(p, result, guardian[w])
    BY <1>1 DEF Entitled, Granted, Before, Inside
  <2>2. Passes(w, guardian[w])
    BY <1>3, <2>1 DEF Passes
  <2> QED BY <1>1, <2>2, LeadsOn
<1> QED BY <1>2, <1>3

LEMMA ActLeads ==
  ASSUME PassInv, NEW w \in Watchers, UNCHANGED guardian,
         Reap(w) \/ Sweep(w) \/ Launch(w)
  PROVE  Leads(w)
<1>1. "then" \in DOMAIN snap[w]
  BY DEF PassInv, Entitled
<1>2. \A x : /\ "then" \in DOMAIN [snap[w] EXCEPT !.act = x] /\ [snap[w] EXCEPT !.act = x].then = snap[w].then
             /\ "then" \in DOMAIN [snap[w] EXCEPT !.error = x] /\ [snap[w] EXCEPT !.error = x].then = snap[w].then
             /\ "then" \in DOMAIN [snap[w] EXCEPT !.clean = x] /\ [snap[w] EXCEPT !.clean = x].then = snap[w].then
             /\ "then" \in DOMAIN [snap[w] EXCEPT !.alive = x] /\ [snap[w] EXCEPT !.alive = x].then = snap[w].then
             /\ \A y : /\ "then" \in DOMAIN [snap[w] EXCEPT !.act = x, !.clean = y]
                       /\ [snap[w] EXCEPT !.act = x, !.clean = y].then = snap[w].then
  BY <1>1
<1>3. CASE Reap(w)
  <2>1. UNCHANGED <<observed, records>> /\ gate' = None /\ pc[w] \in Inside
    BY <1>3 DEF Reap, Inside
  <2>2. \/ Return(w, [snap[w] EXCEPT !.act = "keep"])
        \/ Return(w, [snap[w] EXCEPT !.error = TRUE])
        \/ pc' = [pc EXCEPT ![w] = "sweep"] /\ snap' = [snap EXCEPT ![w] = [snap[w] EXCEPT !.alive = FALSE]]
    BY <1>3 DEF Reap, PassInv
  <2> QED BY <1>2, <2>1, <2>2, ReturnLeads
<1>4. CASE Sweep(w)
  <2>1. UNCHANGED <<observed, records, gate>>
    BY <1>4 DEF Sweep
  <2>2. \/ Return(w, [snap[w] EXCEPT !.act = "keep"])
        \/ pc' = [pc EXCEPT ![w] = "launch"] /\ snap' = [snap EXCEPT ![w] = snap[w]]
    BY <1>4 DEF Sweep, PassInv
  <2> QED BY <1>1, <1>2, <2>1, <2>2, ReturnLeads
<1>5. CASE Launch(w)
  <2>1. UNCHANGED <<observed, records>> /\ gate' = None /\ pc[w] \in Inside
    BY <1>5 DEF Launch, Inside
  <2>2. \/ \E x, y : Return(w, [snap[w] EXCEPT !.act = x, !.clean = y])
        \/ Return(w, snap[w])
        \/ Return(w, [snap[w] EXCEPT !.clean = FALSE])
    BY <1>5 DEF Launch
  <2> QED BY <1>1, <1>2, <2>1, <2>2, ReturnLeads
<1> QED BY <1>3, <1>4, <1>5

LEMMA SuperviseStepLeads ==
  ASSUME PassInv, NEW w \in Watchers, UNCHANGED guardian, SuperviseStep(w)
  PROVE  Leads(w)
<1>1. EnterGate(w, "reap", "reaping") => Leads(w)
  BY EnterLeads DEF Granted, Before
<1>2. EnterGate(w, "launch", "launching") => Leads(w)
  BY EnterLeads DEF Granted, Before
<1> QED
  BY <1>1, <1>2, DecideLeads, ActLeads DEF SuperviseStep

-----------------------------------------------------------------------------
(* The steps of the guardian. *)

LEMMA FinishLeads ==
  ASSUME PassInv, NEW w \in Watchers, Finish(w), observed' = observed, records' = records,
         gate' = gate \/ (gate' = None /\ pc[w] \in Inside)
  PROVE  Leads(w)
<1>1. Passes(w, NoPass)
  BY RestEntitled DEF Finish, Passes, Inside
<1> QED
  BY <1>1, LeadsOn DEF Finish

LEMMA GotoLeads ==
  ASSUME PassInv, NEW w \in Watchers, NEW to, Goto(w, to), to \notin Inside, to = "codex" => ~stop,
         NEW m, "diagnosis" \in DOMAIN m, guardian' = [guardian EXCEPT ![w] = m],
         to \in Granted => ~observed, to \in Before /\ ~m.diagnosis => ~observed,
         observed' = observed, records' = records,
         gate' = gate \/ (gate' = None /\ pc[w] \in Inside)
  PROVE  Leads(w)
<1>1. pc' = [pc EXCEPT ![w] = to] /\ snap' = [snap EXCEPT ![w] = snap[w]]
  BY DEF Goto, PassInv
<1>2. Entitled(to, snap[w], m)
  BY DEF PassInv, Entitled
<1>3. Passes(w, m)
  BY <1>1, <1>2 DEF Passes
<1> QED
  BY <1>3, LeadsOn

LEMMA LockStepsLead ==
  ASSUME PassInv, NEW g \in Watchers,
         \/ \E only \in BOOLEAN : GuardianPatrol(g, only)
         \/ Acquire(g) \/ UnlinkLock(g) \/ OpenLock(g)
  PROVE  Leads(g)
<1>1. UNCHANGED <<gate, observed, records>>
  BY DEF GuardianPatrol, Acquire, UnlinkLock, OpenLock, daemonVars
<1>2. "diagnosis" \in DOMAIN guardian[g] /\ guardian = [w \in Watchers |-> guardian[w]]
  BY DEF PassInv, Entitled
<1> DEFINE held == [guardian[g] EXCEPT !.held = TRUE]
<1>3. /\ "diagnosis" \in DOMAIN held
      /\ guardian' = guardian => guardian' = [guardian EXCEPT ![g] = guardian[g]]
      /\ guardian' = [guardian EXCEPT ![g].held = TRUE] => guardian' = [guardian EXCEPT ![g] = held]
  BY <1>2
<1> HIDE DEF held
<1>4. /\ {"unlink", "open", "inspect"} \cap Inside = {} /\ {"unlink", "open", "inspect"} \cap Granted = {}
      /\ {"unlink", "open", "inspect"} \cap Before = {}
  BY DEF Inside, Granted, Before
<1>5. ASSUME NEW to \in {"unlink", "open", "inspect"}, Goto(g, to),
             guardian' = guardian \/ guardian' = [guardian EXCEPT ![g].held = TRUE]
      PROVE  Leads(g)
  BY <1>1, <1>2, <1>3, <1>4, <1>5, GotoLeads
<1>6. CASE Finish(g)
  BY <1>1, <1>6, FinishLeads
<1>7. ASSUME NEW only \in BOOLEAN, GuardianPatrol(g, only) PROVE Leads(g)
  <2>1. Supervise(g, "lock", only) /\ guardian' = guardian
    BY <1>7 DEF GuardianPatrol, guardianVars
  <2>2. Passes(g, guardian[g])
    BY <1>2, <2>1, Supervises
  <2> QED BY <1>1, <1>3, <2>1, <2>2, LeadsOn
<1> QED
  BY <1>5, <1>6, <1>7 DEF Acquire, UnlinkLock, OpenLock, Own

LEMMA AskingLeads ==
  ASSUME PassInv, NEW g \in Watchers,
         \/ \E due, same \in BOOLEAN : Inspect(g, due, same)
         \/ Ask(g) \/ (EnterGate(g, "ready", "asking") /\ UNCHANGED guardianVars)
         \/ StartCodex(g) \/ CodexFails(g) \/ CodexDiagnoses(g) \/ CodexDecides(g)
  PROVE  Leads(g)
<1>1. /\ "diagnosis" \in DOMAIN guardian[g]
      /\ guardian' = guardian => guardian' = [guardian EXCEPT ![g] = guardian[g]]
      /\ pc[g] \in Before /\ ~guardian[g].diagnosis => ~observed
  BY DEF PassInv, Entitled
<1>2. ASSUME NEW due \in BOOLEAN, NEW same \in BOOLEAN, Inspect(g, due, same) PROVE Leads(g)
  <2>1. UNCHANGED <<gate, observed, records>>
    BY <1>2 DEF Inspect, daemonVars
  <2>2. CASE Finish(g)
    BY <2>1, <2>2, FinishLeads
  <2>3. CASE ~Finish(g)
    <3> DEFINE m == [guardian[g] EXCEPT !.diagnosis = DiagnosisOnly, !.kind = Kind,
                                        !.upTo = events, !.pid = snap[g].pid]
    <3>1. /\ guardian' = [guardian EXCEPT ![g] = m]
          /\ pc' = [pc EXCEPT ![g] = "ask"] /\ snap' = [snap EXCEPT ![g] = NoResult]
      BY <1>2, <2>3 DEF Inspect, PassInv
    <3>2. "diagnosis" \in DOMAIN m /\ m.diagnosis = DiagnosisOnly
      BY <1>1
    <3> HIDE DEF m
    <3>3. Entitled("ask", NoResult, m)
      BY <3>2, NothingEntitled DEF Entitled, Granted, Before, DiagnosisOnly
    <3>4. Passes(g, m)
      BY <3>1, <3>3 DEF Passes, Inside
    <3> QED BY <2>1, <3>1, <3>4, LeadsOn
  <2> QED BY <2>2, <2>3
<1>3. CASE Ask(g)
  <2>1. UNCHANGED <<gate, observed, records>> /\ pc[g] = "ask"
    BY <1>3 DEF Ask, daemonVars
  <2>2. CASE Finish(g)
    BY <2>1, <2>2, FinishLeads
  <2>3. CASE Goto(g, "ready") /\ guardian' = guardian
    <3>1. "ready" \notin Inside /\ "ready" \notin Granted /\ pc[g] \in Before
      BY <2>1 DEF Inside, Granted, Before
    <3> QED BY <1>1, <2>1, <2>3, <3>1, GotoLeads
  <2> QED BY <1>3, <2>2, <2>3 DEF Ask
<1>4. CASE EnterGate(g, "ready", "asking") /\ UNCHANGED guardianVars
  BY <1>4, EnterLeads DEF Granted, Before, guardianVars
<1>5. CASE StartCodex(g)
  <2>1. UNCHANGED <<observed, records>> /\ pc[g] = "asking" /\ gate' = None
    BY <1>5 DEF StartCodex, daemonVars
  <2>2. "codex" \notin Inside /\ "codex" \notin Granted /\ pc[g] \in Before /\ pc[g] \in Inside
    BY <2>1 DEF Inside, Granted, Before
  <2>3. CASE Finish(g)
    BY <2>1, <2>2, <2>3, FinishLeads
  <2>4. CASE ~stop /\ Goto(g, "codex") /\ guardian' = guardian
    BY <1>1, <2>1, <2>2, <2>4, GotoLeads
  <2> QED BY <1>5, <2>3, <2>4 DEF StartCodex
<1>6. CASE CodexFails(g) \/ CodexDiagnoses(g)
  <2>1. Finish(g) /\ UNCHANGED <<gate, observed, records>>
    BY <1>6 DEF CodexFails, CodexDiagnoses, Fails, daemonVars
  <2> QED BY <2>1, FinishLeads
<1>7. CASE CodexDecides(g)
  <2>1. /\ Goto(g, "admit") /\ UNCHANGED <<gate, observed, records, guardian>>
        /\ pc[g] = "codex" /\ ~guardian[g].diagnosis
    BY <1>7 DEF CodexDecides, daemonVars, guardianVars
  <2>2. ~observed /\ "admit" \notin Inside /\ "admit" \notin Before
    BY <1>1, <2>1 DEF Inside, Before
  <2> QED BY <1>1, <2>1, <2>2, GotoLeads
<1> QED
  BY <1>2, <1>3, <1>4, <1>5, <1>6, <1>7

LEMMA GrantedLeads ==
  ASSUME PassInv, NEW g \in Watchers,
         \/ (EnterGate(g, "admit", "admitting") /\ UNCHANGED guardianVars)
         \/ \E restartRequired \in BOOLEAN : Admit(g, restartRequired)
         \/ \E force \in BOOLEAN : Verify(g, force)
         \/ Judge(g)
         \/ (EnterGate(g, "force", "forcing") /\ UNCHANGED guardianVars)
         \/ ForceKill(g) \/ Relaunch(g) \/ Await(g) \/ Retry(g) \/ Conclude(g)
  PROVE  Leads(g)
<1>1. /\ "diagnosis" \in DOMAIN guardian[g]
      /\ guardian' = guardian => guardian' = [guardian EXCEPT ![g] = guardian[g]]
  BY DEF PassInv, Entitled
<1>2. CASE \/ (EnterGate(g, "admit", "admitting") /\ UNCHANGED guardianVars)
           \/ (EnterGate(g, "force", "forcing") /\ UNCHANGED guardianVars)
  BY <1>2, EnterLeads DEF Granted, Before, guardianVars
<1>3. pc[g] \in Granted /\ ~observed /\ UNCHANGED <<observed, records>>
  <2>1. pc[g] \in Granted /\ UNCHANGED <<observed, records>>
    BY DEF EnterGate, Admit, Verify, Judge, ForceKill, Relaunch,
       Await, Retry, Conclude, daemonVars, Granted
  <2> QED BY <2>1 DEF PassInv, Entitled
<1>4. \A p \in {"verify", "accept", "force", "forced"} : p \notin Inside /\ p \notin Before
  BY DEF Inside, Before
<1>5. \A x, y : /\ "diagnosis" \in DOMAIN [guardian[g] EXCEPT !.force = x, !.pid = y]
               /\ "diagnosis" \in DOMAIN [guardian[g] EXCEPT !.tries = x]
  BY <1>1
<1>6. CASE \E restartRequired \in BOOLEAN : Admit(g, restartRequired)
  <2>1. pc[g] \in Inside /\ gate' = None
    BY <1>6 DEF Admit, Inside
  <2>2. Finish(g) \/ (Goto(g, "verify") /\ guardian' = guardian)
    BY <1>6 DEF Admit
  <2> QED BY <1>1, <1>3, <1>4, <2>1, <2>2, FinishLeads, GotoLeads
<1>7. ASSUME NEW force \in BOOLEAN, Verify(g, force) PROVE Leads(g)
  <2>1. /\ \E x, y : guardian' = [guardian EXCEPT ![g] = [guardian[g] EXCEPT !.force = x, !.pid = y]]
        /\ Supervise(g, "judge", FALSE) /\ UNCHANGED gate
    BY <1>7 DEF Verify, PassInv
  <2>2. PICK x, y : guardian' = [guardian EXCEPT ![g] = [guardian[g] EXCEPT !.force = x, !.pid = y]]
    BY <2>1
  <2>3. Passes(g, [guardian[g] EXCEPT !.force = x, !.pid = y])
    BY <1>3, <1>5, <2>1, Supervises
  <2> QED BY <1>3, <2>1, <2>2, <2>3, LeadsOn
<1>8. CASE Judge(g)
  <2>1. UNCHANGED gate
    BY <1>8 DEF Judge
  <2>2. \/ Finish(g) \/ (Goto(g, "force") /\ guardian' = guardian)
        \/ /\ Goto(g, "accept")
           /\ guardian' = [guardian EXCEPT ![g] = [guardian[g] EXCEPT !.force = FALSE, !.pid = None]]
    BY <1>8 DEF Judge, Fails, PassInv
  <2> QED BY <1>1, <1>3, <1>4, <1>5, <2>1, <2>2, FinishLeads, GotoLeads
<1>9. CASE ForceKill(g)
  <2>1. pc[g] \in Inside /\ gate' = None
    BY <1>9 DEF ForceKill, Inside
  <2>2. /\ Goto(g, "accept") \/ Goto(g, "forced")
        /\ guardian' = [guardian EXCEPT ![g] = [guardian[g] EXCEPT !.force = FALSE, !.pid = None]]
    BY <1>9 DEF ForceKill, PassInv
  <2> QED BY <1>3, <1>4, <1>5, <2>1, <2>2, GotoLeads
<1>10. CASE Relaunch(g) \/ Await(g)
  <2>1. UNCHANGED <<gate, guardian>>
    BY <1>10 DEF Relaunch, Await, guardianVars
  <2>2. \/ Supervise(g, "await", FALSE) \/ Supervise(g, "accept", FALSE)
        \/ Goto(g, "accept")
    BY <1>10 DEF Relaunch, Await
  <2>3. CASE Goto(g, "accept")
    BY <1>1, <1>3, <1>4, <2>1, <2>3, GotoLeads
  <2>4. CASE Supervise(g, "await", FALSE) \/ Supervise(g, "accept", FALSE)
    <3>1. Passes(g, guardian[g])
      BY <1>1, <1>3, <2>4, Supervises
    <3> QED BY <1>1, <1>3, <2>1, <3>1, LeadsOn
  <2> QED BY <2>2, <2>3, <2>4
<1>11. CASE Retry(g)
  <2>1. /\ \E x : guardian' = [guardian EXCEPT ![g] = [guardian[g] EXCEPT !.tries = x]]
        /\ Supervise(g, "accept", FALSE) /\ UNCHANGED gate
    BY <1>11 DEF Retry, PassInv
  <2>2. PICK x : guardian' = [guardian EXCEPT ![g] = [guardian[g] EXCEPT !.tries = x]]
    BY <2>1
  <2>3. Passes(g, [guardian[g] EXCEPT !.tries = x])
    BY <1>3, <1>5, <2>1, Supervises
  <2> QED BY <1>3, <2>1, <2>2, <2>3, LeadsOn
<1>12. CASE Conclude(g)
  BY <1>3, <1>12, FinishLeads DEF Conclude, Fails
<1> QED
  BY <1>2, <1>6, <1>7, <1>8, <1>9, <1>10, <1>11, <1>12

-----------------------------------------------------------------------------
(* The daemon, the operator and the clock. *)

LEMMA ElseKept ==
  ASSUME GuardianInv,
         \/ \E d \in Daemons : DaemonStep(d)
         \/ Environment \/ FailureEvent \/ UNCHANGED vars,
         UNCHANGED guardian
  PROVE  GuardianInv'
<1>1. UNCHANGED <<pc, snap, observed>>
  BY DEF DaemonStep, Boot, BootWrites, Leave, StartRound, AttemptEnds, RoundEnds,
     Environment, Dies, Wedges, Tick, Pause, Resume, Reconcile,
     FailureEvent, superviseVars, vars
<1>2. ~observed => records' = records
  BY DEF DaemonStep, Boot, BootWrites, Leave, StartRound, AttemptEnds, RoundEnds,
     Environment, Dies, Wedges, Tick, Pause, Resume, Reconcile,
     FailureEvent, superviseVars, vars, GuardianInv, PassInv
<1>3. gate' = gate \/ GateFree
  BY DEF DaemonStep, Boot, BootWrites, Leave, StartRound, AttemptEnds, RoundEnds,
     Environment, Dies, Wedges, Tick, Pause, Resume, Reconcile,
     FailureEvent, superviseVars, vars
<1>4. GateHeld'
  BY <1>1, <1>3 DEF GuardianInv, GateHeld, GateFree
<1>5. PassInv'
  BY <1>1, <1>2 DEF GuardianInv, PassInv, Entitled
<1> QED BY <1>4, <1>5 DEF GuardianInv

LEMMA StepLeads ==
  ASSUME GuardianInv, [Next]_vars
  PROVE  (\E w \in Watchers : Leads(w)) \/ (GuardianInv' /\ UNCHANGED pc)
<1>1. CASE FailureEvent \/ UNCHANGED vars
  <2>1. UNCHANGED <<pc, guardian>>
    BY <1>1 DEF FailureEvent, vars, guardianVars, superviseVars
  <2> QED BY <1>1, <2>1, ElseKept
<1>2. ASSUME UNCHANGED guardian, (\E d \in Daemons : DaemonStep(d)) \/ Environment
      PROVE  GuardianInv' /\ UNCHANGED pc
  <2>1. UNCHANGED pc
    BY <1>2 DEF DaemonStep, Boot, BootWrites, Leave, StartRound, AttemptEnds,
       RoundEnds, Environment, Dies, Wedges, Tick, Pause, Resume,
       Reconcile
  <2> QED BY <1>2, <2>1, ElseKept
<1>3. CASE ProjectStep
  <2>1. UNCHANGED guardian
    BY <1>3 DEF ProjectStep, guardianVars
  <2>2. ASSUME NEW w \in Watchers, Patrol(w) PROVE Leads(w)
    <3>1. Supervise(w, "idle", FALSE) /\ UNCHANGED <<gate, observed, records>>
      BY <2>2 DEF Patrol, daemonVars
    <3>2. "diagnosis" \in DOMAIN guardian[w] /\ guardian' = [guardian EXCEPT ![w] = guardian[w]]
      BY <2>1 DEF GuardianInv, PassInv, Entitled
    <3>3. Passes(w, guardian[w])
      BY <3>1, <3>2, Supervises
    <3> QED BY <3>1, <3>2, <3>3, LeadsOn DEF GuardianInv
  <2>3. ASSUME NEW w \in Watchers, SuperviseStep(w) PROVE Leads(w)
    BY <2>1, <2>3, SuperviseStepLeads DEF GuardianInv
  <2> QED BY <1>2, <1>3, <2>1, <2>2, <2>3 DEF ProjectStep
<1>4. ASSUME NEW g \in Watchers, GuardianDies(g) PROVE Leads(g)
  <2>1. Passes(g, NoPass)
    BY <1>4, RestEntitled DEF GuardianDies, WatcherDies, Passes, Inside
  <2>2. guardian' = [guardian EXCEPT ![g] = NoPass] /\ UNCHANGED <<gate, observed, records>>
    BY <1>4 DEF GuardianDies, WatcherDies
  <2> QED BY <2>1, <2>2, LeadsOn DEF GuardianInv
<1>5. ASSUME NEW g \in Watchers, GuardianStep(g) \/ \E only \in BOOLEAN : GuardianPatrol(g, only)
      PROVE  Leads(g)
  BY <1>5, LockStepsLead, AskingLeads, GrantedLeads DEF GuardianStep, GuardianInv
<1> QED
  BY <1>1, <1>3, <1>4, <1>5 DEF Next

LEMMA GuardianInvStep == GuardianInv /\ [Next]_vars => GuardianInv'
<1> SUFFICES ASSUME GuardianInv, [Next]_vars PROVE GuardianInv'
  OBVIOUS
<1>1. ASSUME NEW w \in Watchers, Leads(w) PROVE GuardianInv'
  BY <1>1, GateMoves, PassMoves DEF GuardianInv, PassInv, Leads
<1> QED
  BY <1>1, StepLeads

-----------------------------------------------------------------------------
LEMMA DecideLeavesDaemons ==
  \A w, tasklist, counted, kids, readable :
     Decide(w, tasklist, counted, kids, readable) => UNCHANGED <<daemon, sentinel>>
<1>1. ASSUME NEW w, NEW tasklist, NEW counted, NEW kids, NEW readable,
             Decide(w, tasklist, counted, kids, readable)
      PROVE  UNCHANGED daemonVars
  BY <1>1, Zenon DEF Decide
<1>2. UNCHANGED daemonVars => UNCHANGED <<daemon, sentinel>>
  BY DEF daemonVars
<1> QED
  BY <1>1, <1>2

\* Of all steps, only these write to the daemons what a supervisor writes.
LEMMA WhoIntervenes ==
  ASSUME Next, NEW d \in Daemons, daemon'[d] # daemon[d], daemon'[d] \in {"boot", "reaped"}
  PROVE  \E w \in Watchers : Reap(w) \/ Launch(w) \/ ForceKill(w)
<1>1. daemon' # daemon
  OBVIOUS
<1>2. ASSUME NEW e \in Daemons, NEW x, daemon' = [daemon EXCEPT ![e] = x], x \notin {"boot", "reaped"}
      PROVE  FALSE
  BY <1>2
<1>3. CASE \E e \in Daemons : DaemonStep(e) \/ Dies(e) \/ Wedges(e)
  <2>1. PICK e \in Daemons : DaemonStep(e) \/ Dies(e) \/ Wedges(e)
    BY <1>3
  <2>2. \E x : daemon' = [daemon EXCEPT ![e] = x] /\ x \notin {"boot", "reaped"}
    BY <2>1 DEF DaemonStep, Boot, BootWrites, Leave, StartRound, AttemptEnds,
       RoundEnds, Dies, Wedges
  <2> QED BY <1>2, <2>2
<1>4. CASE Tick \/ Pause \/ Resume \/ Reconcile \/ FailureEvent
  BY <1>1, <1>4 DEF Tick, Pause, Resume, Reconcile, FailureEvent,
     superviseVars
<1>5. ASSUME NEW w \in Watchers, Patrol(w) \/ SuperviseStep(w)
      PROVE  Reap(w) \/ Launch(w)
  BY <1>1, <1>5, DecideLeavesDaemons DEF Patrol, SuperviseStep, EnterGate, Sweep,
     daemonVars
<1>6. ASSUME NEW w \in Watchers,
             (\E only \in BOOLEAN : GuardianPatrol(w, only)) \/ GuardianStep(w) \/ GuardianDies(w)
      PROVE  ForceKill(w)
  BY <1>1, <1>6 DEF GuardianPatrol, GuardianStep, GuardianDies, WatcherDies,
     Acquire, UnlinkLock, OpenLock, Inspect, Ask, EnterGate,
     StartCodex, CodexFails, CodexDiagnoses, CodexDecides, Admit, Verify,
     Judge, Relaunch, Await, Retry, Conclude, daemonVars
<1> QED
  BY <1>3, <1>4, <1>5, <1>6 DEF Next, ProjectStep, Environment

\* Nobody requests a restart but Admit.
LEMMA WhoRequests ==
  ASSUME Next, sentinel', ~sentinel
  PROVE  \E g \in Watchers, restartRequired \in BOOLEAN : Admit(g, restartRequired)
<1>1. ASSUME sentinel' = sentinel \/ sentinel' = FALSE PROVE FALSE
  BY <1>1
<1>2. ASSUME \/ \E e \in Daemons : DaemonStep(e) \/ Dies(e) \/ Wedges(e)
             \/ Tick \/ Pause \/ Resume \/ Reconcile \/ FailureEvent
      PROVE  FALSE
  BY <1>2 DEF DaemonStep, Boot, BootWrites, Leave, StartRound, AttemptEnds,
     RoundEnds, Dies, Wedges, Tick, Pause, Resume, Reconcile,
     FailureEvent, superviseVars
<1>3. ASSUME NEW w \in Watchers, Patrol(w) \/ SuperviseStep(w) PROVE FALSE
  BY <1>1, <1>3, DecideLeavesDaemons DEF Patrol, SuperviseStep, EnterGate, Reap,
     Sweep, Launch, daemonVars
<1>4. ASSUME NEW w \in Watchers,
             (\E only \in BOOLEAN : GuardianPatrol(w, only)) \/ GuardianStep(w) \/ GuardianDies(w)
      PROVE  \E restartRequired \in BOOLEAN : Admit(w, restartRequired)
  BY <1>1, <1>4 DEF GuardianPatrol, GuardianStep, GuardianDies, WatcherDies,
     Acquire, UnlinkLock, OpenLock, Inspect, Ask, EnterGate,
     StartCodex, CodexFails, CodexDiagnoses, CodexDecides, Verify, Judge,
     ForceKill, Relaunch, Await, Retry, Conclude, daemonVars
<1> QED
  BY <1>2, <1>3, <1>4 DEF Next, ProjectStep, Environment

\* Codex is started when there is no stop file.
LEMMA WhoAsks ==
  ASSUME GuardianInv, Next, NEW v \in Watchers, pc[v] # "codex", pc'[v] = "codex"
  PROVE  ~stop
<1>1. PICK w \in Watchers : Leads(w)
  BY StepLeads
<1>2. PICK p : pc' = [pc EXCEPT ![w] = p] /\ (p = "codex" => ~stop)
  BY <1>1 DEF Leads, PassMove
<1> QED
  BY <1>2 DEF GuardianInv, PassInv

-----------------------------------------------------------------------------
LEMMA PausedStep == GuardianInv /\ [Next]_vars => [Acts => ~stop]_vars
<1> SUFFICES ASSUME GuardianInv, Next, Acts PROVE ~stop
  OBVIOUS
<1>1. CASE Intervenes
  <2>1. PICK w \in Watchers : Reap(w) \/ Launch(w) \/ ForceKill(w)
    BY <1>1, WhoIntervenes DEF Intervenes
  <2>2. daemon' # daemon
    BY <1>1 DEF Intervenes
  <2> QED BY <2>1, <2>2 DEF Reap, Launch, ForceKill, Blocked
<1>2. CASE sentinel' /\ ~sentinel
  <2>1. PICK g \in Watchers, restartRequired \in BOOLEAN : Admit(g, restartRequired)
    BY <1>2, WhoRequests
  <2> QED BY <1>2, <2>1 DEF Admit
<1>3. CASE \E g \in Watchers : pc[g] # "codex" /\ pc'[g] = "codex"
  BY <1>3, WhoAsks
<1> QED
  BY <1>1, <1>2, <1>3 DEF Acts

\* Once the stop file is written, the supervisor and the guardian start no daemon, kill none,
\* ask codex nothing and request no restart (pause-gate.ts, fleet.ts, supervise.ts).
THEOREM PausedStaysIdle == Spec => PausedIsIdle
<1> QED
  BY GuardianInvInit, GuardianInvStep, PausedStep, PTL DEF Spec, PausedIsIdle

LEMMA SparedStep == GuardianInv /\ [Next]_vars =>
    [\A d \in Daemons : daemon'[d] = "reaped" /\ daemon[d] # "reaped" =>
        records # "live" /\ (observed => \A g \in Watchers : pc[g] # "forcing")]_vars
<1> SUFFICES ASSUME GuardianInv, Next, NEW d \in Daemons, daemon'[d] = "reaped", daemon[d] # "reaped"
             PROVE  records # "live" /\ (observed => \A g \in Watchers : pc[g] # "forcing")
  OBVIOUS
<1>1. PICK w \in Watchers : Reap(w) \/ Launch(w) \/ ForceKill(w)
  BY WhoIntervenes
<1>2. \A g \in Watchers : pc[g] = "forcing" => ~observed
  BY DEF GuardianInv, PassInv, Entitled, Granted
<1>3. CASE Reap(w) \/ Launch(w)
  <2>1. daemon' # daemon
    OBVIOUS
  <2> QED BY <1>2, <1>3, <2>1 DEF Reap, Launch, Blocked
<1>4. CASE ForceKill(w)
  <2>1. ~observed /\ records = "none"
    BY <1>2, <1>4 DEF ForceKill, GuardianInv, PassInv
  <2> QED BY <2>1
<1> QED
  BY <1>1, <1>3, <1>4

\* With observed executions nothing is force-killed on codex's word, and a live execution is
\* never killed, by neither of the two (fleet.ts, supervise.ts).
THEOREM ProtectedStaySpared == Spec => ProtectedSpared
<1> QED
  BY GuardianInvInit, GuardianInvStep, SparedStep, PTL DEF Spec, ProtectedSpared
=============================================================================
