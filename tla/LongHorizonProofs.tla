-------------------------- MODULE LongHorizonProofs --------------------------
(* Proofs about the long-horizon run, for any drivers, operators and bounds; about one     *)
(* execution of the Herdr engine, for any hosts; and about a task's way through the gates, *)
(* for any verify command, reviewers and bounds.                                           *)
EXTENDS MCLongHorizon, FiniteSetTheorems, SequenceTheorems, TLAPS

(***************************************************************************)
(* A copy of the run state is sound, against the checkpoints that are on   *)
(* disk and the approvals that were given, when its counters are within    *)
(* its rounds, the steps it counts have checkpoints, an approval it holds  *)
(* was given, and it is complete only with something verified and nothing  *)
(* pending.  The invariant asks this of every copy: the file, the drivers' *)
(* memories and what operators have read, since each of them may be        *)
(* written back.                                                           *)
(***************************************************************************)
Sound(s, cps, given) ==
    /\ s \in RunState
    /\ s.verified <= s.rounds /\ s.same.n <= s.rounds
    /\ 1..s.verified \subseteq cps
    /\ s.pending.approved => s.pending.step \in given
    /\ s.phase = "complete" => s.verified > 0 /\ s.pending = NoPending

DriverSound(d) ==
    /\ Sound(mem[d], checkpoints, granted)
    /\ mem[d].phase # "complete"
    /\ pc[d] = "executing" =>
         /\ mem[d].verified < mem[d].rounds /\ mem[d].same.n < mem[d].rounds
         /\ mem[d].pending = NoPending
         /\ step[d] \in High => step[d] \in granted
    /\ pc[d] = "parking" /\ to[d] = "complete" =>
         mem[d].verified > 0 /\ mem[d].pending = NoPending

OperatorSound(o) ==
    /\ Sound(op[o].seen, checkpoints, granted)
    /\ op[o].at \in {"check", "drop"} => op[o].kind \in {"pause", "abort"}
    /\ op[o].at = "write" => op[o].kind \in {"pause", "abort", "approve"}
    /\ op[o].at = "write" /\ op[o].kind = "approve" => Approvable(op[o].seen)

IInv ==
    /\ TypeOK
    /\ Sound(disk, checkpoints, granted)
    /\ \A d \in Driver : DriverSound(d)
    /\ \A o \in Operator : OperatorSound(o)

-----------------------------------------------------------------------------
(* What the operators on run states preserve *)

LEMMA SoundGrows ==
  ASSUME NEW s, NEW c1, NEW c2, NEW g1, NEW g2,
         Sound(s, c1, g1), c1 \subseteq c2, g1 \subseteq g2
  PROVE  Sound(s, c2, g2)
BY DEF Sound

LEMMA NoRunSound ==
  ASSUME NEW c, NEW g
  PROVE  Sound(NoRun, c, g) /\ NoRun.phase = "none" /\ Sound(Fresh, c, g)
<1>1. Fresh \in RunState /\ Fresh.verified = 0 /\ Fresh.rounds = 0
      /\ Fresh.same.n = 0 /\ ~Fresh.pending.approved /\ Fresh.phase = "running"
  BY HorizonAssumption DEF Fresh, RunState, NoPending, NoFailure, Phase
<1>2. 1..0 = {}
  OBVIOUS
<1>3. Sound(Fresh, c, g)
  BY <1>1, <1>2 DEF Sound
<1>4. NoRun \in RunState /\ NoRun.verified = 0 /\ NoRun.rounds = 0
      /\ NoRun.same.n = 0 /\ ~NoRun.pending.approved /\ NoRun.phase = "none"
  BY <1>1 DEF NoRun, RunState, Phase
<1>5. Sound(NoRun, c, g)
  BY <1>2, <1>4 DEF Sound
<1> QED
  BY <1>3, <1>4, <1>5

LEMMA RephaseSound ==
  ASSUME NEW s, NEW c, NEW g, Sound(s, c, g), NEW p \in Phase,
         p = "complete" => s.verified > 0 /\ s.pending = NoPending
  PROVE  /\ Sound([s EXCEPT !.phase = p], c, g)
         /\ [s EXCEPT !.phase = p].phase = p
BY DEF Sound, RunState

LEMMA NextRoundSound ==
  ASSUME NEW s, NEW c, NEW g, Sound(s, c, g), ~OutOfRounds(s)
  PROVE  /\ Sound(NextRound(s), c, g)
         /\ NextRound(s).phase = s.phase
         /\ NextRound(s).pending = s.pending
         /\ NextRound(s).verified < NextRound(s).rounds
         /\ NextRound(s).same.n < NextRound(s).rounds
BY HorizonAssumption DEF Sound, RunState, NextRound, OutOfRounds

WithPending(s, p) == [s EXCEPT !.pending = p]

LEMMA PendingSound ==
  ASSUME NEW s, NEW c, NEW g, Sound(s, c, g), s.phase # "complete",
         NEW x \in High \cup {None}, NEW p, p = [step |-> x, approved |-> FALSE]
  PROVE  LET t == WithPending(s, p) IN
         /\ Sound(t, c, g) /\ t.phase = s.phase /\ t.pending = p
         /\ t.verified = s.verified /\ t.rounds = s.rounds /\ t.same = s.same
BY DEF Sound, RunState, WithPending

OneVerified(s) == [s EXCEPT !.verified = @ + 1, !.same = NoFailure]

LEMMA VerifiedSound ==
  ASSUME NEW s, NEW c, NEW g, Sound(s, c, g), s.phase # "complete",
         s.verified < s.rounds
  PROVE  LET t == OneVerified(s) IN
         /\ Sound(t, c \cup {CheckpointSeq(s)}, g)
         /\ t.phase = s.phase /\ t.pending = s.pending /\ t.verified > 0
<1> DEFINE t == OneVerified(s)
<1> USE DEF OneVerified
<1>1. NoFailure \in [fp: Fp \cup {None}, n: 0..MaxRounds] /\ NoFailure.n = 0
  BY HorizonAssumption DEF NoFailure
<1>2. s \in RunState /\ s.verified + 1 <= s.rounds
  BY DEF Sound, RunState
<1>3. /\ t.verified = s.verified + 1 /\ t.rounds = s.rounds /\ t.same = NoFailure
      /\ t.pending = s.pending /\ t.phase = s.phase /\ t.escalated = s.escalated
  BY <1>2 DEF RunState
<1>4. s.verified + 1 \in 0..MaxRounds
  <2>1. s.rounds \in 0..MaxRounds /\ s.verified \in 0..MaxRounds
    BY <1>2 DEF RunState
  <2> QED
    BY <1>2, <2>1, HorizonAssumption
<1>5. t \in RunState
  BY <1>1, <1>2, <1>4 DEF RunState
<1>6. 1..(s.verified + 1) \subseteq c \cup {s.verified + 1}
  BY <1>2 DEF Sound, RunState
<1>7. Sound(t, c \cup {s.verified + 1}, g)
  BY <1>1, <1>2, <1>3, <1>5, <1>6 DEF Sound, RunState
<1> QED
  BY <1>2, <1>3, <1>7 DEF CheckpointSeq, RunState

LEMMA FailedSound ==
  ASSUME NEW s, NEW c, NEW g, Sound(s, c, g), s.same.n < s.rounds, NEW f \in Fp
  PROVE  Sound(Failed(s, f), c, g) /\ Failed(s, f).phase = s.phase
<1>1. s.same \in [fp: Fp \cup {None}, n: 0..MaxRounds] /\ s.rounds \in 0..MaxRounds
  BY DEF Sound, RunState
<1> DEFINE m == [fp |-> f, n |-> IF s.same.fp = f THEN s.same.n + 1 ELSE 1]
<1>2. m \in [fp: Fp \cup {None}, n: 0..MaxRounds] /\ m.n <= s.rounds
  BY <1>1, HorizonAssumption
<1>3. Failed(s, f) = [s EXCEPT !.same = m]
  BY DEF Failed, Sound, RunState
<1> HIDE DEF m
<1> QED
  BY <1>2, <1>3 DEF Sound, RunState

LEMMA EscalationSound ==
  ASSUME NEW s, NEW c, NEW g, Sound(s, c, g)
  PROVE  /\ \A f \in Fp : LET t == [s EXCEPT !.escalated = @ \cup {f}] IN
              Sound(t, c, g) /\ t.phase = s.phase
         /\ Sound([s EXCEPT !.same = NoFailure], c, g)
         /\ [s EXCEPT !.same = NoFailure].phase = s.phase
BY HorizonAssumption DEF Sound, RunState, NoFailure

LEMMA InstructedSound ==
  ASSUME NEW s, NEW c, NEW g, Sound(s, c, g), NEW k \in {"pause", "abort", "approve"},
         k = "approve" => Approvable(s)
  PROVE  Sound(Instructed(s, k), c, IF k = "approve" THEN g \cup {s.pending.step} ELSE g)
<1>1. CASE k = "approve"
  BY <1>1 DEF Sound, RunState, Instructed, Approvable, AwaitsApproval
<1>2. CASE k # "approve"
  BY <1>2, RephaseSound DEF Instructed, Phase, Terminal
<1> QED
  BY <1>1, <1>2
-----------------------------------------------------------------------------
(* The initial states and the steps *)

LEMMA InitSound == Init => IInv
<1> SUFFICES ASSUME Init PROVE IInv
  OBVIOUS
<1> USE DEF Init, NoOrder
<1>0. Sound(NoRun, {}, {}) /\ NoRun.phase = "none"
  BY ONLY NoRunSound
<1>1. NoRun \in RunState /\ NoRun.phase = "none" /\ Sound(NoRun, {}, {})
  BY ONLY <1>0 DEF Sound
<1>2. TypeOK
  BY <1>1, HorizonAssumption DEF TypeOK, Phase
<1>3. \A d \in Driver : DriverSound(d)
  BY <1>1 DEF DriverSound
<1>4. \A o \in Operator : OperatorSound(o)
  BY <1>1 DEF OperatorSound
<1> QED
  BY <1>1, <1>2, <1>3, <1>4 DEF IInv

(* A step that adds at most checkpoints and approvals keeps sound every     *)
(* copy it does not touch; what remains to show is the copy it writes.      *)
LEMMA CopiesKept ==
  ASSUME IInv, TypeOK',
         checkpoints \subseteq checkpoints', granted \subseteq granted',
         disk' = disk \/ Sound(disk', checkpoints', granted'),
         \A d \in Driver :
           DriverSound(d)' \/ (/\ mem'[d] = mem[d] /\ step'[d] = step[d]
                              /\ to'[d] = to[d] /\ pc'[d] = pc[d]),
         \A o \in Operator : OperatorSound(o)' \/ op'[o] = op[o]
  PROVE  IInv'
<1>1. Sound(disk', checkpoints', granted')
  BY SoundGrows DEF IInv
<1>2. ASSUME NEW d \in Driver PROVE DriverSound(d)'
  <2>1. CASE /\ mem'[d] = mem[d] /\ step'[d] = step[d]
             /\ to'[d] = to[d] /\ pc'[d] = pc[d]
    <3>1. DriverSound(d) /\ Sound(mem[d], checkpoints', granted')
      BY SoundGrows DEF IInv, DriverSound
    <3> QED
      BY <2>1, <3>1 DEF DriverSound
  <2> QED
    BY <2>1
<1>3. ASSUME NEW o \in Operator PROVE OperatorSound(o)'
  <2>1. CASE op'[o] = op[o]
    <3>1. OperatorSound(o) /\ Sound(op[o].seen, checkpoints', granted')
      BY SoundGrows DEF IInv, OperatorSound
    <3> QED
      BY <2>1, <3>1 DEF OperatorSound
  <2> QED
    BY <2>1
<1> QED
  BY <1>1, <1>2, <1>3 DEF IInv

(* The manager is asked only when nothing waits for approval or execution. *)
LEMMA AskedWithNothingPending ==
  ASSUME NEW d \in Driver, TypeOK, AsksManager(d)
  PROVE  ~OutOfRounds(mem[d]) /\ mem[d].pending = NoPending
<1>1. mem[d].pending \in [step: High \cup {None}, approved: BOOLEAN]
  BY DEF TypeOK, RunState
<1>2. /\ ~OutOfRounds(mem[d])
      /\ mem[d].pending.step = None /\ ~mem[d].pending.approved
  BY <1>1 DEF AsksManager, MayGoOn, AwaitsApproval
<1> QED
  BY <1>1, <1>2 DEF NoPending

(* A driver's step *)
LEMMA DriverKeeps ==
  ASSUME IInv, NEW d \in Driver,
         \/ Start(d) \/ Resume(d) \/ DriverStep(d) \/ Stopped(d)
         \/ \E recorded \in BOOLEAN : InternalError(d, recorded)
         \/ Crash(d)
  PROVE  IInv'
<1> USE DEF Goto, Keep, Choose, ParkIn, files, local, history
<1>0. /\ TypeOK /\ DriverSound(d) /\ Sound(disk, checkpoints, granted)
      /\ \A c, g : Sound(NoRun, c, g) /\ NoRun \in RunState /\ NoRun.phase = "none"
      /\ \A c, g : Sound(Fresh, c, g) /\ Fresh \in RunState
  BY NoRunSound DEF IInv, Sound
<1>1. CASE Start(d)
  <2>a. TypeOK'
    BY <1>0, <1>1 DEF TypeOK, Start, Driving
  <2>b. DriverSound(d)'
    BY <1>0, <1>1 DEF TypeOK, DriverSound, Start, Driving
  <2> QED
    BY <1>0, <1>1, <2>a, <2>b, CopiesKept DEF TypeOK, Start, Driving
<1>2. CASE Resume(d)
  <2>a. TypeOK'
    BY <1>0, <1>2 DEF TypeOK, Resume, Driving
  <2>b. DriverSound(d)'
    BY <1>0, <1>2 DEF TypeOK, DriverSound, Resume, Driving
  <2> QED
    BY <1>0, <1>2, <2>a, <2>b, CopiesKept DEF TypeOK, Resume, Driving
<1>3. CASE Acquire(d)
  <2>a. TypeOK'
    BY <1>0, <1>3 DEF TypeOK, Acquire, Driving
  <2>b. DriverSound(d)'
    BY <1>0, <1>3 DEF TypeOK, DriverSound, Acquire, Driving
  <2> QED
    BY <1>0, <1>3, <2>a, <2>b, CopiesKept DEF TypeOK, Acquire, Driving
<1>4. CASE Begin(d)
  <2>1. /\ Sound([disk EXCEPT !.phase = "running"], checkpoints, granted)
        /\ [disk EXCEPT !.phase = "running"].phase = "running"
        /\ [disk EXCEPT !.phase = "running"] \in RunState
    BY <1>0, RephaseSound DEF Phase, Sound
  <2>a. TypeOK'
    BY <1>0, <2>1, <1>4 DEF TypeOK, Begin, Driving
  <2>b. DriverSound(d)'
    BY <1>0, <2>1, <1>4 DEF TypeOK, DriverSound, Begin, Driving
  <2> QED
    BY <1>0, <1>4, <2>a, <2>b, CopiesKept DEF TypeOK, Begin, Driving
<1>5. CASE Save(d)
  <2>a. TypeOK'
    BY <1>0, <1>5 DEF TypeOK, Save, Driving
  <2>b. DriverSound(d)'
    BY <1>0, <1>5 DEF TypeOK, DriverSound, Save, Driving
  <2> QED
    BY <1>0, <1>5, <2>a, <2>b, CopiesKept DEF TypeOK, DriverSound, Save, Driving
<1>6. CASE Park(d)
  <2>1. to[d] = "complete" => mem[d].verified > 0 /\ mem[d].pending = NoPending
    BY <1>0, <1>6 DEF Park, DriverSound
  <2>2. Sound([mem[d] EXCEPT !.phase = to[d]], checkpoints, granted)
    BY <1>0, <2>1, RephaseSound DEF TypeOK, DriverSound
  <2>3. [mem[d] EXCEPT !.phase = to[d]] \in RunState
    BY <2>2 DEF Sound
  <2>a. TypeOK'
    BY <1>0, <2>2, <2>3, <1>6 DEF TypeOK, Park, Forget, Driving, Phase
  <2>b. DriverSound(d)'
    BY <1>0, <2>2, <2>3, <1>6 DEF TypeOK, DriverSound, Park, Forget, Driving
  <2> QED
    BY <1>0, <1>6, <2>2, <2>a, <2>b, CopiesKept DEF TypeOK, Park, Forget, Driving
<1>7. CASE Release(d)
  <2>a. TypeOK'
    BY <1>0, <1>7 DEF TypeOK, Release, Driving
  <2>b. DriverSound(d)'
    BY <1>0, <1>7 DEF TypeOK, DriverSound, Release, Driving
  <2> QED
    BY <1>0, <1>7, <2>a, <2>b, CopiesKept DEF TypeOK, Release, Driving
<1>8. CASE TakeInterrupt(d)
  <2>a. TypeOK'
    BY <1>0, <1>8 DEF TypeOK, TakeInterrupt, Driving, Phase, Terminal
  <2>b. DriverSound(d)'
    BY <1>0, <1>8 DEF TypeOK, DriverSound, TakeInterrupt, Driving, Phase, Terminal
  <2> QED
    BY <1>0, <1>8, <2>a, <2>b, CopiesKept DEF TypeOK, TakeInterrupt, Driving, Phase, Terminal
<1>9. CASE Gate(d)
  <2>a. TypeOK'
    BY <1>0, <1>9 DEF TypeOK, Gate, Driving, Phase
  <2>b. DriverSound(d)'
    BY <1>0, <1>9 DEF TypeOK, DriverSound, Gate, Driving, Phase
  <2> QED
    BY <1>0, <1>9, <2>a, <2>b, CopiesKept DEF TypeOK, Gate, Driving, Phase
<1>10. CASE TakeApproved(d)
  <2> DEFINE r == NextRound(mem[d])
             t == WithPending(r, NoPending)
  <2>1. ~OutOfRounds(mem[d]) /\ mem[d].pending.approved
    BY <1>10 DEF TakeApproved, MayGoOn
  <2>2. /\ Sound(r, checkpoints, granted) /\ r.phase # "complete"
        /\ r.verified < r.rounds /\ r.same.n < r.rounds
    BY <1>0, <2>1, NextRoundSound DEF DriverSound
  <2>3. NoPending = [step |-> None, approved |-> FALSE]
    BY DEF NoPending
  <2>4. /\ Sound(t, checkpoints, granted) /\ t.phase # "complete" /\ t.pending = NoPending
        /\ t.verified < t.rounds /\ t.same.n < t.rounds
    <3> HIDE DEF r
    <3> QED
      BY <2>2, <2>3, PendingSound
  <2>5. t \in RunState
    BY <2>4 DEF Sound
  <2>6. mem[d].pending.step \in granted /\ mem[d].pending.step \in High \cup {None}
    BY <1>0, <2>1 DEF TypeOK, DriverSound, Sound, RunState
  <2>7. mem' = [mem EXCEPT ![d] = t]
    BY <1>10 DEF TakeApproved, WithPending
  <2> HIDE DEF r, t
  <2>a. TypeOK'
    BY <1>0, <1>10, <2>5, <2>6, <2>7 DEF TypeOK, TakeApproved, Driving
  <2>b. DriverSound(d)'
    BY <1>0, <1>10, <2>4, <2>6, <2>7 DEF TypeOK, DriverSound, TakeApproved
  <2> QED
    BY <1>0, <1>10, <2>a, <2>b, CopiesKept DEF TypeOK, TakeApproved
<1>11. CASE ManagerBlocks(d)
  <2>a. TypeOK'
    BY <1>0, <1>11 DEF TypeOK, ManagerBlocks, Driving, Phase
  <2>b. DriverSound(d)'
    BY <1>0, <1>11 DEF TypeOK, DriverSound, ManagerBlocks, Driving, Phase
  <2> QED
    BY <1>0, <1>11, <2>a, <2>b, CopiesKept DEF TypeOK, ManagerBlocks, Driving, Phase
<1>12. CASE ManagerClaims(d)
  <2> DEFINE r == NextRound(mem[d])
  <2>1. ~OutOfRounds(mem[d]) /\ mem[d].pending = NoPending
    BY <1>0, <1>12, AskedWithNothingPending DEF ManagerClaims
  <2>2. /\ Sound(r, checkpoints, granted) /\ r.phase # "complete" /\ r.pending = NoPending
        /\ r.verified < r.rounds /\ r.same.n < r.rounds
    BY <1>0, <2>1, NextRoundSound DEF DriverSound
  <2>3. r \in RunState /\ mem' = [mem EXCEPT ![d] = r]
    BY <1>12, <2>2 DEF Sound, ManagerClaims
  <2> HIDE DEF r
  <2>a. TypeOK'
    BY <1>0, <1>12, <2>3 DEF TypeOK, ManagerClaims, Driving
  <2>b. DriverSound(d)'
    BY <1>0, <1>12, <2>2, <2>3, HorizonAssumption DEF TypeOK, DriverSound, ManagerClaims
  <2> QED
    BY <1>0, <1>12, <2>a, <2>b, CopiesKept DEF TypeOK, ManagerClaims
<1>13. CASE \E s \in High \cup {"low"} : ManagerProposes(d, s)
  <2>0. PICK s \in High \cup {"low"} : ManagerProposes(d, s)
    BY <1>13
  <2>1. ~OutOfRounds(mem[d]) /\ mem[d].pending = NoPending
    BY <1>0, <2>0, AskedWithNothingPending DEF ManagerProposes
  <2>2. CASE Gated(s)
    <3> DEFINE p == [step |-> s, approved |-> FALSE]
               t == WithPending(mem[d], p)
    <3>1. s \in High \cup {None}
      BY <2>2 DEF Gated
    <3>2. Sound(t, checkpoints, granted) /\ t.phase # "complete"
      BY <1>0, <3>1, PendingSound DEF DriverSound
    <3>3. t \in RunState /\ mem' = [mem EXCEPT ![d] = t]
      BY <2>0, <2>2, <3>2 DEF Sound, ManagerProposes, WithPending
    <3> HIDE DEF t
    <3>a. TypeOK'
      BY <1>0, <2>0, <2>2, <3>3 DEF TypeOK, ManagerProposes, Driving
    <3>b. DriverSound(d)'
      BY <1>0, <2>0, <2>2, <3>2, <3>3 DEF TypeOK, DriverSound, ManagerProposes
    <3> QED
      BY <1>0, <2>0, <3>a, <3>b, CopiesKept DEF TypeOK, ManagerProposes
  <2>3. CASE ~Gated(s)
    <3> DEFINE r == NextRound(mem[d])
    <3>1. /\ Sound(r, checkpoints, granted) /\ r.phase # "complete" /\ r.pending = NoPending
          /\ r.verified < r.rounds /\ r.same.n < r.rounds
      BY <1>0, <2>1, NextRoundSound DEF DriverSound
    <3>2. r \in RunState /\ mem' = [mem EXCEPT ![d] = r]
      BY <2>0, <2>3, <3>1 DEF Sound, ManagerProposes
    <3> HIDE DEF r
    <3>a. TypeOK'
      BY <1>0, <2>0, <2>3, <3>2 DEF TypeOK, ManagerProposes, Driving
    <3>b. DriverSound(d)'
      BY <1>0, <2>0, <2>3, <3>1, <3>2 DEF TypeOK, DriverSound, ManagerProposes, Gated
    <3> QED
      BY <1>0, <2>0, <3>a, <3>b, CopiesKept DEF TypeOK, ManagerProposes
  <2> QED
    BY <2>2, <2>3
<1>14. CASE \E achieved \in BOOLEAN : AuditVerifies(d, achieved)
  <2>0. PICK achieved \in BOOLEAN : AuditVerifies(d, achieved)
    BY <1>14
  <2> DEFINE t == OneVerified(mem[d])
             c == CheckpointSeq(mem[d])
  <2>1. /\ mem[d].verified < mem[d].rounds /\ mem[d].pending = NoPending
        /\ Sound(mem[d], checkpoints, granted) /\ mem[d].phase # "complete"
    BY <1>0, <2>0 DEF DriverSound, AuditVerifies
  <2>2. /\ Sound(t, checkpoints \cup {c}, granted)
        /\ t.phase # "complete" /\ t.pending = NoPending /\ t.verified > 0
    BY <2>1, VerifiedSound
  <2>3. t \in RunState /\ c \in Nat
    BY <2>1, <2>2, HorizonAssumption DEF Sound, RunState, CheckpointSeq
  <2>4. mem' = [mem EXCEPT ![d] = t] /\ checkpoints' = checkpoints \cup {c}
    BY <2>0 DEF AuditVerifies, OneVerified
  <2> HIDE DEF t, c
  <2>a. TypeOK'
    BY <1>0, <2>0, <2>3, <2>4 DEF TypeOK, AuditVerifies, Driving, Phase, Terminal
  <2>b. DriverSound(d)'
    BY <1>0, <2>0, <2>2, <2>4 DEF TypeOK, DriverSound, AuditVerifies
  <2> QED
    BY <1>0, <2>0, <2>4, <2>a, <2>b, CopiesKept DEF TypeOK, AuditVerifies
<1>15. CASE \E f \in Fp : AuditRejects(d, f)
  <2>0. PICK f \in Fp : AuditRejects(d, f)
    BY <1>15
  <2> DEFINE t == Failed(mem[d], f)
             u == [t EXCEPT !.escalated = @ \cup {f}]
  <2>1. Sound(t, checkpoints, granted) /\ t.phase # "complete"
    BY <1>0, <2>0, FailedSound DEF DriverSound, AuditRejects
  <2>2. Sound(u, checkpoints, granted) /\ u.phase # "complete"
    BY <2>1, EscalationSound
  <2>3. t \in RunState /\ u \in RunState
    BY <2>1, <2>2 DEF Sound
  <2>4. PICK v \in {t, u} : mem' = [mem EXCEPT ![d] = v]
    BY <2>0 DEF AuditRejects
  <2> HIDE DEF t, u
  <2>a. TypeOK'
    BY <1>0, <2>0, <2>3, <2>4 DEF TypeOK, AuditRejects, Driving, Phase
  <2>b. DriverSound(d)'
    BY <1>0, <2>0, <2>1, <2>2, <2>4 DEF TypeOK, DriverSound, AuditRejects
  <2> QED
    BY <1>0, <2>0, <2>4, <2>a, <2>b, CopiesKept DEF TypeOK, AuditRejects
<1>16. CASE \E helped \in BOOLEAN : EscalationReturns(d, helped)
  <2>0. PICK helped \in BOOLEAN : EscalationReturns(d, helped)
    BY <1>16
  <2> DEFINE t == [mem[d] EXCEPT !.same = NoFailure]
  <2>1. Sound(t, checkpoints, granted) /\ t.phase # "complete"
    BY <1>0, EscalationSound DEF DriverSound
  <2>2. t \in RunState
    BY <2>1 DEF Sound
  <2>3. mem' = [mem EXCEPT ![d] = t] \/ mem' = mem
    BY <2>0 DEF EscalationReturns
  <2> HIDE DEF t
  <2>a. TypeOK'
    BY <1>0, <2>0, <2>2, <2>3 DEF TypeOK, EscalationReturns, Driving, Phase
  <2>b. DriverSound(d)'
    BY <1>0, <2>0, <2>1, <2>3 DEF TypeOK, DriverSound, EscalationReturns
  <2> QED
    BY <1>0, <2>0, <2>3, <2>a, <2>b, CopiesKept DEF TypeOK, EscalationReturns
<1>17. CASE Stopped(d)
  <2>a. TypeOK'
    BY <1>0, <1>17 DEF TypeOK, Stopped, Driving, Phase
  <2>b. DriverSound(d)'
    BY <1>0, <1>17 DEF TypeOK, DriverSound, Stopped, Driving, Phase
  <2> QED
    BY <1>0, <1>17, <2>a, <2>b, CopiesKept DEF TypeOK, Stopped, Driving, Phase
<1>18. CASE \E recorded \in BOOLEAN : InternalError(d, recorded)
  <2>0. PICK recorded \in BOOLEAN : InternalError(d, recorded)
    BY <1>18
  <2>1. /\ Sound([disk EXCEPT !.phase = "failed"], checkpoints, granted)
        /\ [disk EXCEPT !.phase = "failed"] \in RunState
    BY <1>0, RephaseSound, ZenonT(60) DEF Phase, Terminal, Sound
  <2>a. TypeOK'
    BY <1>0, <2>0, <2>1, HorizonAssumption, SMTT(40)
    DEF TypeOK, InternalError, Forget, Driving, Phase
  <2>b. DriverSound(d)'
    BY <1>0, <2>0 DEF TypeOK, DriverSound, InternalError, Forget
  <2> QED
    BY <1>0, <2>0, <2>1, <2>a, <2>b, CopiesKept DEF TypeOK, InternalError, Forget
<1>19. CASE Crash(d)
  <2>a. TypeOK'
    <3>1. disk' = disk /\ checkpoints' = checkpoints /\ interrupt' = interrupt
          /\ op' = op /\ orders' = orders /\ granted' = granted /\ consulted' = consulted
      BY <1>19 DEF Crash
    <3>2. pc' \in [Driver -> Driving \cup {"idle", "acquire"}] /\ faults' \in 0..MaxFaults
      BY <1>0, <1>19, HorizonAssumption DEF TypeOK, Crash
    <3>3. mem' \in [Driver -> RunState]
      BY <1>0, <1>19 DEF TypeOK, Crash, Forget
    <3>4. step' \in [Driver -> High \cup {None, "low", "claim"}]
      BY <1>0, <1>19 DEF TypeOK, Crash, Forget
    <3>5. to' \in [Driver -> Phase] /\ lock' \in Driver \cup {None}
      BY <1>0, <1>19 DEF TypeOK, Crash, Forget, Phase
    <3> QED
      BY <1>0, <3>1, <3>2, <3>3, <3>4, <3>5 DEF TypeOK
  <2>b. DriverSound(d)'
    BY <1>0, <1>19 DEF TypeOK, DriverSound, Crash, Forget, Driving, Phase
  <2> QED
    BY <1>0, <1>19, <2>a, <2>b, CopiesKept DEF TypeOK, Crash, Forget, Driving, Phase
<1> QED
  BY <1>1, <1>2, <1>3, <1>4, <1>5, <1>6, <1>7, <1>8, <1>9, <1>10, <1>11, <1>12, <1>13, <1>14, <1>15,
     <1>16, <1>17, <1>18, <1>19 DEF DriverStep

(* An operator's step *)
LEMMA OperatorKeeps ==
  ASSUME IInv, NEW o \in Operator, OperatorStep(o)
  PROVE  IInv'
<1> USE DEF OrderAt, files, local, history
<1>0. /\ TypeOK /\ OperatorSound(o) /\ Sound(disk, checkpoints, granted)
      /\ \A c, g : Sound(NoRun, c, g) /\ NoRun \in RunState
  BY NoRunSound DEF IInv, Sound
<1>1. ASSUME NEW kind \in {"pause", "abort", "approve"}, OperatorReads(o, kind)
      PROVE  IInv'
  <2>a. TypeOK'
    BY <1>0, <1>1, HorizonAssumption DEF TypeOK, OperatorReads
  <2>b. OperatorSound(o)'
    BY <1>0, <1>1 DEF TypeOK, OperatorSound, OperatorReads
  <2> QED
    BY <1>0, <1>1, <2>a, <2>b, CopiesKept DEF TypeOK, OperatorReads
<1>2. CASE OperatorChecks(o)
  <2>1. op[o].at = "check" /\ op[o].kind \in {"pause", "abort"}
    BY <1>0, <1>2 DEF OperatorChecks, OperatorSound
  <2>2. op'[o] \in {[op[o] EXCEPT !.at = "drop"], [op[o] EXCEPT !.at = "write"], NoOrder}
        /\ op' = [op EXCEPT ![o] = op'[o]]
    BY <1>0, <1>2 DEF OperatorChecks, TypeOK
  <2>3. /\ op'[o] \in [at: {"idle", "check", "drop", "write"},
                       kind: {None, "pause", "abort", "approve"}, seen: RunState]
        /\ op'[o].seen \in {op[o].seen, NoRun}
        /\ op'[o].kind = op[o].kind \/ op'[o].at = "idle"
    <3> DEFINE Order == [at: {"idle", "check", "drop", "write"},
                         kind: {None, "pause", "abort", "approve"}, seen: RunState]
    <3>1. op[o] \in Order /\ NoRun \in RunState
      BY <1>0 DEF TypeOK
    <3>2. NoOrder \in Order /\ NoOrder.seen = NoRun /\ NoOrder.at = "idle"
      BY <3>1 DEF NoOrder
    <3>3. CASE op'[o] = [op[o] EXCEPT !.at = "drop"]
      BY <3>1, <3>3
    <3>4. CASE op'[o] = [op[o] EXCEPT !.at = "write"]
      BY <3>1, <3>4
    <3> HIDE DEF Order
    <3>5. CASE op'[o] = NoOrder
      BY <3>2, <3>5 DEF Order
    <3> QED
      BY <2>2, <3>3, <3>4, <3>5
  <2>a. TypeOK'
    BY <1>0, <1>2, <2>2, <2>3 DEF TypeOK, OperatorChecks
  <2>b. OperatorSound(o)'
    BY <1>0, <1>2, <2>1, <2>3 DEF OperatorSound, OperatorChecks
  <2> QED
    BY <1>0, <1>2, <2>a, <2>b, CopiesKept DEF TypeOK, OperatorChecks
<1>3. CASE OperatorDrops(o)
  <2>1. op[o].at = "drop" /\ op[o].kind \in {"pause", "abort"}
    BY <1>0, <1>3 DEF OperatorDrops, OperatorSound
  <2>a. TypeOK'
    BY <1>0, <1>3, <2>1 DEF TypeOK, OperatorDrops, NoOrder
  <2>b. OperatorSound(o)'
    BY <1>0, <1>3 DEF TypeOK, OperatorSound, OperatorDrops, NoOrder
  <2> QED
    BY <1>0, <1>3, <2>a, <2>b, CopiesKept DEF TypeOK, OperatorDrops
<1>4. CASE OperatorWrites(o)
  <2> DEFINE s == op[o].seen
             k == op[o].kind
             t == Instructed(s, k)
  <2>1. op[o].at = "write" /\ k \in {"pause", "abort", "approve"}
        /\ (k = "approve" => Approvable(s)) /\ Sound(s, checkpoints, granted)
    BY <1>0, <1>4 DEF OperatorWrites, OperatorSound
  <2>2. Sound(t, checkpoints, granted')
    BY <1>4, <2>1, InstructedSound DEF OperatorWrites
  <2>3. t \in RunState
    BY <2>2 DEF Sound
  <2>4. k = "approve" => s.pending.step \in High
    BY <2>1 DEF Approvable, AwaitsApproval, Sound, RunState
  <2>5. disk' = t /\ granted \subseteq granted' /\ granted' \subseteq High
    BY <1>0, <1>4, <2>4 DEF OperatorWrites, TypeOK
  <2> HIDE DEF s, k, t
  <2>a. TypeOK'
    BY <1>0, <1>4, <2>3, <2>5 DEF TypeOK, OperatorWrites, NoOrder
  <2>b. OperatorSound(o)'
    BY <1>0, <1>4 DEF TypeOK, OperatorSound, OperatorWrites, NoOrder
  <2> QED
    BY <1>0, <1>4, <2>2, <2>5, <2>a, <2>b, CopiesKept DEF TypeOK, OperatorWrites
<1> QED
  BY <1>1, <1>2, <1>3, <1>4 DEF OperatorStep

LEMMA StepSound == IInv /\ [Next]_vars => IInv'
<1> SUFFICES ASSUME IInv, [Next]_vars PROVE IInv'
  OBVIOUS
<1>1. CASE UNCHANGED vars
  BY <1>1 DEF vars, IInv, TypeOK, DriverSound, OperatorSound
<1>2. ASSUME NEW d \in Driver,
             \/ Start(d) \/ Resume(d) \/ DriverStep(d) \/ Stopped(d)
             \/ \E recorded \in BOOLEAN : InternalError(d, recorded)
             \/ Crash(d)
      PROVE  IInv'
  BY <1>2, DriverKeeps
<1>3. ASSUME NEW o \in Operator, OperatorStep(o) PROVE IInv'
  BY <1>3, OperatorKeeps
<1> QED
  BY <1>1, <1>2, <1>3 DEF Next

-----------------------------------------------------------------------------

(***************************************************************************)
(* The invariant holds for every number of drivers, operators and orders,  *)
(* any round limit, and any number of crashes and internal errors.         *)
(***************************************************************************)
THEOREM HorizonCorrect == Spec => []IInv
<1> QED
  BY InitSound, StepSound, PTL DEF Spec

(***************************************************************************)
(* Type correctness; the counters stay within the round limit although     *)
(* operators write back old copies of the state.                           *)
(***************************************************************************)
THEOREM HorizonTypeCorrect == Spec => []TypeOK
<1>1. IInv => TypeOK
  BY DEF IInv
<1> QED
  BY <1>1, HorizonCorrect, PTL

(***************************************************************************)
(* No executor is handed a high-risk step that no operator approved.       *)
(***************************************************************************)
THEOREM HighRiskNeedsApproval == Spec => []HighRiskApproved
<1>1. IInv => HighRiskApproved
  BY DEF IInv, DriverSound, HighRiskApproved
<1> QED
  BY <1>1, HorizonCorrect, PTL

(***************************************************************************)
(* Every verified step counted on disk has its checkpoint, and a complete  *)
(* run has a verified step and no pending one.                             *)
(***************************************************************************)
THEOREM ProgressBacked == Spec => []ProgressIsBacked
<1>1. IInv => ProgressIsBacked
  BY DEF IInv, Sound, ProgressIsBacked, VerifiedHasCheckpoint, CompleteIsAudited
<1> QED
  BY <1>1, HorizonCorrect, PTL

-----------------------------------------------------------------------------
(***************************************************************************)
(* The Herdr engine: an execution is prompted at most once.  Before the    *)
(* intent is on disk only what an older host left counts, and a host that  *)
(* is about to reserve has seen it; once a host is past the reservation no *)
(* other host is.                                                          *)
(***************************************************************************)
Places == {"idle", "begin", "select", "reserve", "evidence", "launch", "wait", "commit"}
Phases == {"starting", "running", "cancelled", "ended"}
RunOf == [at : Places, before : Bases \cup {None}, prior : Bases \cup {None}]
ReceiptOf == [for : Bases, status : {"done", "failed"}] \cup {None}

HostType ==
    /\ head \in Bases
    /\ intent \in Bases \cup {None, Torn}
    /\ expected \in SUBSET Bases /\ IsFiniteSet(expected)
    /\ phase \in Phases
    /\ run \in [Hosts -> RunOf]
    /\ prompts \in Nat

\* A host that is past the reservation.
Past(h) == run[h].at \in {"evidence", "launch"}

\* The intent is there, the agent has not been prompted, and no other host is as far.
Owner == \A h \in Hosts : Past(h) =>
            /\ intent # None /\ prompts = 0
            /\ \A g \in Hosts : Past(g) => g = h

\* Before the intent is there, only a binding that an older host left has been prompted, and
\* a host that is about to reserve has seen whether there is one.
Untouched == intent = None =>
    /\ prompts = Cardinality(expected)
    /\ expected = {} \/ \E b \in Bases : expected = {b}
    /\ \A h \in Hosts : run[h].at = "reserve" /\ run[h].prior = None => expected = {}

Based == \A h \in Hosts : run[h].at \in {"select", "reserve", "evidence", "launch"}
                            => run[h].before \in Bases

PromptInv == HostType /\ Owner /\ Untouched /\ Based /\ prompts <= 1

LEMMA SameCard == \A S : Engine!Cardinality(S) = Cardinality(S)
  BY DEF Engine!Cardinality, Engine!IsFiniteSet, Cardinality, IsFiniteSet

LEMMA NotBase == None # Torn /\ \A b \in Bases : b # None /\ b # Torn
  BY HostsAssumption DEF Engine!HerdrAssumption

LEMMA SelectedIs ==
    ASSUME HostType
    PROVE  /\ Engine!Selected \in Bases \cup {None, Torn}
           /\ Engine!Selected = None <=> expected = {}
           /\ \A b \in Bases : Engine!Selected = b <=> expected = {b}
  <1> USE NotBase
  <1>1. CASE expected = {}
    BY <1>1, SameCard, FS_EmptySet DEF Engine!Selected
  <1>2. CASE Engine!Cardinality(expected) = 1
    <2>1. PICK b : expected = {b}
      BY <1>2, SameCard, FS_Singleton DEF HostType
    <2>2. (CHOOSE x \in expected : TRUE) = b
      BY <2>1
    <2> QED BY <1>2, <2>1, <2>2 DEF Engine!Selected, HostType
  <1>3. CASE expected # {} /\ Engine!Cardinality(expected) # 1
    <2>1. Engine!Selected = Torn
      BY <1>3 DEF Engine!Selected
    <2>2. \A b : expected # {b}
      BY <1>3, SameCard, FS_Singleton
    <2> QED BY <1>3, <2>1, <2>2
  <1> QED BY <1>1, <1>2, <1>3

\* What a host does to its own record.
LEMMA SetRun ==
    /\ Engine!Off \in RunOf
    /\ \A r \in RunOf, w \in Places :
          /\ [r EXCEPT !.at = w] \in RunOf
          /\ [r EXCEPT !.at = w].at = w
          /\ [r EXCEPT !.at = w].before = r.before
    /\ \A r \in RunOf, b \in Bases \cup {None} :
          /\ [r EXCEPT !.at = "select", !.before = b] \in RunOf
          /\ [r EXCEPT !.at = "select", !.before = b].at = "select"
          /\ [r EXCEPT !.at = "select", !.before = b].before = b
          /\ [r EXCEPT !.at = "reserve", !.prior = b] \in RunOf
          /\ [r EXCEPT !.at = "reserve", !.prior = b].at = "reserve"
          /\ [r EXCEPT !.at = "reserve", !.prior = b].before = r.before
          /\ [r EXCEPT !.at = "reserve", !.prior = b].prior = b
  BY DEF RunOf, Places, Engine!Off

LEMMA RunStep ==
    ASSUME HostType, NEW h \in Hosts, Engine!HostNext(h)
    PROVE  run' \in [Hosts -> RunOf]
  <1>1. /\ run \in [Hosts -> RunOf] /\ run[h] \in RunOf
        /\ head \in Bases \cup {None}
        /\ Engine!Selected # Torn => Engine!Selected \in Bases \cup {None}
    BY SelectedIs DEF HostType
  <1>2. {"begin", "evidence", "launch", "wait", "commit"} \subseteq Places
    BY DEF Places
  <1>3. \E r \in RunOf : run' = [run EXCEPT ![h] = r]
    <2> USE DEF Engine!Goes, Engine!Turns, Engine!Ends
    <2>1. CASE Engine!Preflight(h)
      <3>1. run' = [run EXCEPT ![h] = [run[h] EXCEPT !.at = "begin"]]
        BY <2>1 DEF Engine!Preflight
      <3> QED BY <3>1, <1>1, <1>2, SetRun
    <2>2. CASE Engine!Begin(h)
      BY <2>2, <1>1, SetRun DEF Engine!Begin
    <2>3. CASE Engine!Select(h)
      BY <2>3, <1>1, SetRun DEF Engine!Select
    <2>4. CASE Engine!Reserve(h)
      BY <2>4, <1>1, <1>2, SetRun DEF Engine!Reserve
    <2>5. CASE Engine!WriteExpected(h)
      BY <2>5, <1>1, <1>2, SetRun DEF Engine!WriteExpected
    <2>6. CASE Engine!Launch(h)
      BY <2>6, <1>1, <1>2, SetRun DEF Engine!Launch
    <2>7. CASE Engine!LauncherUnclear(h) \/ Engine!ReceiptRead(h) \/ Engine!Commit(h)
      BY <2>7, <1>1, <1>2, SetRun
         DEF Engine!LauncherUnclear, Engine!ReceiptRead, Engine!Commit
    <2>8. CASE Engine!Crash(h)
      BY <2>8, <1>1, SetRun DEF Engine!Crash
    <2> QED
      BY <1>1, Engine!HostNext(h), <2>1, <2>2, <2>3, <2>4, <2>5, <2>6, <2>7, <2>8
         DEF Engine!HostNext
  <1> QED BY <1>1, <1>3

LEMMA HostTypeStep == ASSUME HostType, Based, [Engine!Next]_(Engine!vars) PROVE HostType'
  <1> USE NotBase
  <1>1. ASSUME NEW h \in Hosts, Engine!HostNext(h) PROVE HostType'
    <2> USE DEF Engine!worldVars, Engine!diskVars, Engine!runVars, Engine!seeVars, Engine!At
    <2>1. run' \in [Hosts -> RunOf]
      BY <1>1, RunStep
    <2>2. intent' \in Bases \cup {None, Torn}
      <3>1. Engine!Reserve(h) => Engine!Named(h) \in Bases
        BY DEF Engine!Reserve, Engine!Named, HostType, Based, RunOf
      <3> QED
        BY <1>1, <3>1
           DEF Engine!HostNext, Engine!Preflight, Engine!Begin, Engine!Select, Engine!Reserve,
               Engine!WriteExpected, Engine!Launch, Engine!LauncherUnclear, Engine!ReceiptRead,
               Engine!Commit, Engine!Crash, HostType
    <2>3. expected' \in SUBSET Bases /\ IsFiniteSet(expected')
      <3>1. CASE Engine!WriteExpected(h)
        BY <3>1, FS_AddElement DEF Engine!WriteExpected, HostType, Based
      <3>2. CASE ~Engine!WriteExpected(h)
        <4>1. expected' = expected
          BY <1>1, <3>2
             DEF Engine!HostNext, Engine!Preflight, Engine!Begin, Engine!Select, Engine!Reserve,
                 Engine!Launch, Engine!LauncherUnclear, Engine!ReceiptRead, Engine!Commit,
                 Engine!Crash
        <4> QED BY <4>1 DEF HostType
      <3> QED BY <3>1, <3>2
    <2>4. head' \in Bases /\ phase' \in Phases /\ prompts' \in Nat
      <3>1. CASE Engine!Launch(h)
        BY <3>1 DEF Engine!Launch, HostType, Phases
      <3>2. CASE Engine!Commit(h)
        BY <3>2 DEF Engine!Commit, HostType, Phases
      <3> QED
        BY <1>1, <3>1, <3>2
           DEF Engine!HostNext, Engine!Preflight, Engine!Begin, Engine!Select, Engine!Reserve,
               Engine!WriteExpected, Engine!LauncherUnclear, Engine!ReceiptRead, Engine!Crash,
               HostType
    <2> QED BY <2>1, <2>2, <2>3, <2>4 DEF HostType
  <1>2. CASE \/ \E b \in Bases : Engine!AgentEnds(b)
             \/ Engine!HeadMoves \/ Engine!PhaseMoves \/ Engine!Inspect \/ Engine!LookUp
             \/ Engine!Answer \/ UNCHANGED Engine!vars
    BY <1>2
       DEF HostType, Phases, Engine!AgentEnds, Engine!HeadMoves, Engine!PhaseMoves, Engine!Inspect,
           Engine!LookUp, Engine!Answer, Engine!vars, Engine!worldVars, Engine!diskVars,
           Engine!runVars, Engine!seeVars
  <1> QED BY <1>1, <1>2 DEF Engine!Next

\* A host that ends, or has not chosen a base yet, disturbs nothing.
LEMMA AtRest ==
    ASSUME PromptInv, NEW h \in Hosts, NEW r \in RunOf, run' = [run EXCEPT ![h] = r],
           r.at \in {"idle", "begin", "wait", "commit"},
           UNCHANGED <<expected, prompts>>,
           intent' = intent \/ (intent = None /\ intent' # None)
    PROVE  Owner' /\ Untouched' /\ Based' /\ prompts' <= 1
  BY DEF PromptInv, HostType, Owner, Untouched, Based, Past

LEMMA PromptStep ==
    ASSUME PromptInv, [Engine!Next]_(Engine!vars)
    PROVE  PromptInv'
  <1> USE NotBase DEF PromptInv
  <1>0. HostType'
    BY HostTypeStep
  <1>1. ASSUME NEW h \in Hosts, Engine!HostNext(h)
        PROVE  Owner' /\ Untouched' /\ Based' /\ prompts' <= 1
    <2> DEFINE Rests == \E r \in RunOf :
                          /\ run' = [run EXCEPT ![h] = r]
                          /\ r.at \in {"idle", "begin", "wait", "commit"}
                          /\ UNCHANGED <<expected, prompts>>
                          /\ intent' = intent \/ (intent = None /\ intent' # None)
    <2>a. Rests => Owner' /\ Untouched' /\ Based' /\ prompts' <= 1
      BY AtRest
    <2>b. run[h] \in RunOf /\ head \in Bases
      BY DEF HostType
    <2>c. Engine!Off \in RunOf /\ Engine!Off.at = "idle"
      BY SetRun DEF Engine!Off
    <2>d. /\ \A w \in {"begin", "evidence", "launch", "wait", "commit"} :
                /\ [run[h] EXCEPT !.at = w] \in RunOf
                /\ [run[h] EXCEPT !.at = w].at = w
                /\ [run[h] EXCEPT !.at = w].before = run[h].before
      BY <2>b DEF RunOf, Places
    <2> HIDE DEF Rests
    <2>1. CASE Engine!Preflight(h)
      <3>1. run' = [run EXCEPT ![h] = [run[h] EXCEPT !.at = "begin"]]
        BY <2>1 DEF Engine!Preflight
      <3>2. UNCHANGED <<intent, expected, prompts>>
        BY <2>1 DEF Engine!Preflight, Engine!diskVars
      <3> QED BY <2>a, <2>d, <3>1, <3>2 DEF Rests
    <2>2. CASE Engine!Begin(h)
      <3>1. UNCHANGED <<intent, expected, prompts>>
        BY <2>2 DEF Engine!Begin, Engine!diskVars
      <3>2. CASE run' = [run EXCEPT ![h] = Engine!Off]
        BY <2>a, <2>c, <3>1, <3>2 DEF Rests
      <3>3. CASE run' = [run EXCEPT ![h] = [run[h] EXCEPT !.at = "select", !.before = head]]
        <4> DEFINE r == [run[h] EXCEPT !.at = "select", !.before = head]
        <4>1. /\ r \in RunOf /\ run' = [run EXCEPT ![h] = r]
              /\ r.at = "select" /\ r.before = head
          BY <2>b, <3>3 DEF RunOf, Places
        <4> HIDE DEF r
        <4> QED BY <2>b, <3>1, <4>1 DEF HostType, Owner, Untouched, Based, Past
      <3> QED BY <2>2, <3>2, <3>3 DEF Engine!Begin, Engine!Ends, Engine!Turns
    <2>3. CASE Engine!Select(h)
      <3>1. UNCHANGED <<intent, expected, prompts>>
        BY <2>3 DEF Engine!Select, Engine!diskVars
      <3>2. CASE run' = [run EXCEPT ![h] = Engine!Off]
        BY <2>a, <2>c, <3>1, <3>2 DEF Rests
      <3>3. CASE /\ Engine!Selected # Torn
                 /\ run' = [run EXCEPT ![h] = [run[h] EXCEPT !.at = "reserve",
                                                            !.prior = Engine!Selected]]
        <4>1. Engine!Selected \in Bases \cup {None} /\ (Engine!Selected = None <=> expected = {})
          BY <3>3, SelectedIs
        <4>2. run[h].before \in Bases
          BY <2>3 DEF Based, Engine!Select, Engine!At
        <4> DEFINE r == [run[h] EXCEPT !.at = "reserve", !.prior = Engine!Selected]
        <4>3. /\ r \in RunOf /\ run' = [run EXCEPT ![h] = r]
              /\ r.at = "reserve" /\ r.before = run[h].before /\ r.prior = Engine!Selected
          BY <2>b, <3>3, <4>1 DEF RunOf, Places
        <4> HIDE DEF r
        <4> QED BY <3>1, <4>1, <4>2, <4>3 DEF HostType, Owner, Untouched, Based, Past
      <3> QED BY <2>3, <3>2, <3>3 DEF Engine!Select, Engine!Ends, Engine!Turns
    <2>4. CASE Engine!Reserve(h)
      <3>1. UNCHANGED <<expected, prompts>> /\ run[h].at = "reserve" /\ run[h].before \in Bases
        BY <2>4 DEF Engine!Reserve, Engine!At, Based
      <3>2. Engine!Named(h) \in Bases
        BY <2>b, <3>1 DEF Engine!Named, RunOf
      <3>3. CASE run' = [run EXCEPT ![h] = Engine!Off]
        <4>1. intent' = intent \/ (intent = None /\ intent' # None)
          BY <2>4, <3>2 DEF Engine!Reserve, Engine!Reserved
        <4> QED BY <2>a, <2>c, <3>1, <3>3, <4>1 DEF Rests
      <3>4. CASE /\ intent = None /\ intent' = Engine!Named(h) /\ run[h].prior = None
                 /\ run' = [run EXCEPT ![h] = [run[h] EXCEPT !.at = "evidence"]]
        <4>1. expected = {} /\ prompts = 0
          BY <3>1, <3>4, SameCard, FS_EmptySet DEF Untouched
        <4>2. \A g \in Hosts : ~Past(g)
          BY <3>4 DEF Owner
        <4>3. PICK r \in RunOf : /\ run' = [run EXCEPT ![h] = r]
                                 /\ r.at = "evidence" /\ r.before = run[h].before
          BY <2>d, <3>4
        <4> QED BY <3>1, <3>2, <3>4, <4>1, <4>2, <4>3 DEF HostType, Owner, Untouched, Based, Past
      <3> QED
        BY <2>4, <3>3, <3>4
           DEF Engine!Reserve, Engine!Reserved, Engine!Ends, Engine!Goes, Engine!Turns
    <2>5. CASE Engine!WriteExpected(h)
      <3>1. UNCHANGED <<intent, prompts>> /\ Past(h) /\ run[h].before \in Bases
        BY <2>5 DEF Engine!WriteExpected, Engine!At, Based, Past
      <3>2. CASE run' = [run EXCEPT ![h] = Engine!Off] /\ expected' = expected
        BY <2>a, <2>c, <3>1, <3>2 DEF Rests
      <3>3. CASE run' = [run EXCEPT ![h] = [run[h] EXCEPT !.at = "launch"]]
        <4>1. PICK r \in RunOf : /\ run' = [run EXCEPT ![h] = r]
                                 /\ r.at = "launch" /\ r.before = run[h].before
          BY <2>d, <3>3
        <4> QED BY <3>1, <4>1 DEF HostType, Owner, Untouched, Based, Past
      <3> QED
        BY <2>5, <3>2, <3>3 DEF Engine!WriteExpected, Engine!Ends, Engine!Goes, Engine!Turns
    <2>6. CASE Engine!Launch(h)
      <3>1. /\ UNCHANGED <<intent, expected>> /\ Past(h)
            /\ prompts' = prompts + 1
            /\ run' = [run EXCEPT ![h] = [run[h] EXCEPT !.at = "wait"]]
        BY <2>6 DEF Engine!Launch, Engine!At, Engine!Goes, Engine!Turns, Engine!diskVars, Past
      <3>2. intent # None /\ prompts = 0 /\ \A g \in Hosts : Past(g) => g = h
        BY <3>1 DEF Owner
      <3>3. PICK r \in RunOf : run' = [run EXCEPT ![h] = r] /\ r.at = "wait"
        BY <2>d, <3>1
      <3> QED BY <3>1, <3>2, <3>3 DEF HostType, Owner, Untouched, Based, Past
    <2>7. CASE Engine!LauncherUnclear(h) \/ Engine!ReceiptRead(h) \/ Engine!Commit(h)
      <3>1. UNCHANGED <<intent, expected, prompts>>
        BY <2>7
           DEF Engine!LauncherUnclear, Engine!ReceiptRead, Engine!Commit, Engine!diskVars
      <3>2. \/ run' = [run EXCEPT ![h] = Engine!Off]
            \/ run' = [run EXCEPT ![h] = [run[h] EXCEPT !.at = "commit"]]
        BY <2>7
           DEF Engine!LauncherUnclear, Engine!ReceiptRead, Engine!Commit, Engine!Ends,
               Engine!Goes, Engine!Turns
      <3> QED BY <2>a, <2>c, <2>d, <3>1, <3>2 DEF Rests
    <2>8. CASE Engine!Crash(h)
      <3>1. /\ UNCHANGED <<expected, prompts>> /\ run' = [run EXCEPT ![h] = Engine!Off]
            /\ intent' = intent \/ (intent = None /\ intent' # None)
        BY <2>8 DEF Engine!Crash, Engine!Ends
      <3> QED BY <2>a, <2>c, <3>1 DEF Rests
    <2> QED
      BY <1>1, <2>1, <2>2, <2>3, <2>4, <2>5, <2>6, <2>7, <2>8 DEF Engine!HostNext
  <1>2. CASE \/ \E b \in Bases : Engine!AgentEnds(b)
             \/ Engine!HeadMoves \/ Engine!PhaseMoves \/ Engine!Inspect \/ Engine!LookUp
             \/ Engine!Answer \/ UNCHANGED Engine!vars
    <2>1. UNCHANGED <<intent, expected, run, prompts>>
      BY <1>2
         DEF Engine!AgentEnds, Engine!HeadMoves, Engine!PhaseMoves, Engine!Inspect,
             Engine!LookUp, Engine!Answer, Engine!vars, Engine!worldVars, Engine!diskVars,
             Engine!runVars, Engine!seeVars
    <2>2. Owner' /\ Based'
      BY <2>1 DEF Owner, Based, Past
    <2>3. Untouched'
      <3>1. /\ intent' = intent /\ expected' = expected
            /\ run' = run /\ prompts' = prompts
        BY <2>1
      <3> QED BY <3>1 DEF Untouched
    <2> QED BY <1>0, <2>1, <2>2, <2>3
  <1> QED BY <1>0, <1>1, <1>2 DEF Engine!Next

-----------------------------------------------------------------------------
Rank == [starting |-> 0, running |-> 1, cancelled |-> 2, ended |-> 3]

LookType ==
    /\ receipt \in [Bases -> ReceiptOf]
    /\ look = None \/ look \in [step : {"binding", "receipt", "again"}, phase : Phases,
                                expected : Bases \cup {None},
                                receipt : {None, "done", "failed"}]

\* What the inspection has read it will find unchanged only if it did not change meanwhile:
\* the phase of the record and the set of bindings only ever grow.
LookInv ==
    look # None =>
        /\ verdict = None
        /\ look.phase # "starting" /\ Rank[look.phase] <= Rank[phase]
        /\ look.step # "binding" => look.expected \in Bases /\ look.expected \in expected
        /\ look.step = "again" /\ phase = look.phase /\ expected = {look.expected} =>
             stood = [phase |-> look.phase, expected |-> look.expected, receipt |-> look.receipt]

SeenInv == LookType /\ LookInv /\ Engine!ReportedTogether

LEMMA SeenStep ==
    ASSUME HostType, HostType', Based, SeenInv, [Engine!Next]_(Engine!vars)
    PROVE  SeenInv'
  <1> USE NotBase DEF SeenInv
  <1>0. ASSUME NEW b \in Bases PROVE Engine!Receipt(b) \in {None, "done", "failed"}
    BY DEF Engine!Receipt, LookType, ReceiptOf
  <1>1. CASE /\ UNCHANGED <<look, verdict, stood, receipt>>
             /\ expected \subseteq expected'
             /\ phase' = phase \/ Rank[phase'] > Rank[phase]
    <2>1. LookType'
      BY <1>1 DEF LookType
    <2>2. LookInv'
      <3> SUFFICES ASSUME look # None PROVE LookInv'
        BY <1>1 DEF LookInv
      <3>1. look.phase \in Phases /\ phase \in Phases /\ phase' \in Phases
        BY DEF LookType, HostType
      <3>2. Rank[look.phase] <= Rank[phase'] /\ (phase' = look.phase => phase = look.phase)
        BY <1>1, <3>1 DEF LookInv, Rank, Phases
      <3>3. look.step = "again" /\ expected' = {look.expected} => expected = {look.expected}
        BY <1>1 DEF LookInv
      <3> QED BY <1>1, <3>2, <3>3 DEF LookInv
    <2> QED BY <1>1, <2>1, <2>2 DEF Engine!ReportedTogether
  <1>2. ASSUME NEW h \in Hosts, Engine!HostNext(h)
        PROVE  /\ UNCHANGED <<look, verdict, stood, receipt>>
               /\ expected \subseteq expected'
               /\ phase' = phase \/ Rank[phase'] > Rank[phase]
    <2> USE DEF Engine!worldVars, Engine!diskVars, Engine!runVars, Engine!seeVars
    <2>1. CASE Engine!Launch(h)
      BY <2>1 DEF Engine!Launch, Rank
    <2> QED
      BY <1>2, <2>1
         DEF Engine!HostNext, Engine!Preflight, Engine!Begin, Engine!Select, Engine!Reserve,
             Engine!WriteExpected, Engine!LauncherUnclear, Engine!ReceiptRead, Engine!Commit,
             Engine!Crash
  <1>3. ASSUME NEW b \in Bases, Engine!AgentEnds(b) PROVE SeenInv'
    <2>1. LookType'
      BY <1>3 DEF Engine!AgentEnds, LookType, ReceiptOf, Engine!seeVars
    <2> QED
      BY <1>3, <2>1
         DEF Engine!AgentEnds, LookInv, Engine!ReportedTogether, Engine!seeVars, Engine!worldVars
  <1>4. CASE Engine!HeadMoves \/ Engine!PhaseMoves \/ UNCHANGED Engine!vars
    <2>1. /\ UNCHANGED <<look, verdict, stood, receipt>>
          /\ expected \subseteq expected'
          /\ phase' = phase \/ Rank[phase'] > Rank[phase]
      BY <1>4
         DEF Engine!HeadMoves, Engine!PhaseMoves, Engine!vars, Engine!diskVars, Engine!seeVars,
             Engine!worldVars, Rank
    <2> QED BY <1>1, <2>1
  <1>5. CASE Engine!Inspect
    <2>1. LookType'
      BY <1>5 DEF Engine!Inspect, Engine!Blank, LookType, HostType, Engine!diskVars
    <2>2. LookInv'
      BY <1>5
         DEF Engine!Inspect, Engine!Blank, LookInv, HostType, Rank, Phases, Engine!worldVars
    <2> QED BY <1>5, <2>1, <2>2 DEF Engine!Inspect, Engine!ReportedTogether
  <1>6. CASE Engine!LookUp
    <2>1. CASE look.step = "binding"
      <3>1. /\ Engine!Selected \in Bases /\ expected = {Engine!Selected}
            /\ look' = [look EXCEPT !.step = "receipt", !.expected = Engine!Selected]
            /\ UNCHANGED <<stood, phase, expected, receipt, verdict>>
        BY <1>6, <2>1, SelectedIs DEF Engine!LookUp, Engine!worldVars, Engine!diskVars
      <3>2. LookType'
        BY <1>6, <3>1 DEF LookType, Engine!LookUp
      <3>3. LookInv'
        BY <1>6, <3>1 DEF LookType, LookInv, Engine!LookUp
      <3> QED BY <1>6, <3>1, <3>2, <3>3 DEF LookInv, Engine!ReportedTogether, Engine!LookUp
    <2>2. CASE look.step = "receipt"
      <3>1. /\ look' = [look EXCEPT !.step = "again", !.receipt = Engine!Receipt(look.expected)]
            /\ stood' = Engine!Now
            /\ UNCHANGED <<phase, expected, receipt, verdict>>
        BY <1>6, <2>2 DEF Engine!LookUp, Engine!worldVars, Engine!diskVars
      <3>2. look.expected \in Bases /\ look # None /\ verdict = None
        BY <1>6, <2>2 DEF LookInv, Engine!LookUp
      <3>3. LookType'
        BY <1>0, <3>1, <3>2 DEF LookType
      <3>4. expected = {look.expected} => Engine!Selected = look.expected
        BY <3>2, SelectedIs
      <3>5. /\ look'.phase = look.phase /\ look'.expected = look.expected
            /\ look'.receipt = Engine!Receipt(look.expected) /\ look'.step = "again"
        BY <3>1, <3>2 DEF LookType
      <3>6. phase = look.phase /\ expected = {look.expected} =>
              stood' = [phase |-> look.phase, expected |-> look.expected,
                        receipt |-> Engine!Receipt(look.expected)]
        BY <3>1, <3>2, <3>4 DEF Engine!Now
      <3>7. LookInv'
        <4>1. look.phase # "starting" /\ Rank[look.phase] <= Rank[phase] /\ look.expected \in expected
          BY <1>6, <2>2, <3>2 DEF LookInv
        <4>2. look'.phase # "starting" /\ Rank[look'.phase] <= Rank[phase']
          BY <3>1, <3>5, <4>1
        <4>3. look'.expected \in Bases /\ look'.expected \in expected'
          BY <3>1, <3>2, <3>5, <4>1
        <4>4. phase' = look'.phase /\ expected' = {look'.expected} =>
                stood' = [phase |-> look'.phase, expected |-> look'.expected,
                          receipt |-> look'.receipt]
          BY <3>1, <3>5, <3>6
        <4> QED BY <3>1, <3>2, <4>2, <4>3, <4>4 DEF LookInv
      <3> QED BY <3>1, <3>2, <3>3, <3>7 DEF Engine!ReportedTogether
    <2> QED BY <1>6, <2>1, <2>2 DEF Engine!LookUp
  <1>7. CASE Engine!Answer
    <2>1. LookType' /\ LookInv'
      BY <1>7 DEF Engine!Answer, LookType, LookInv, Engine!diskVars
    <2>2. verdict'.status = "done" => verdict'.read = stood'
      <3>1. CASE look.step = "binding" /\ verdict' = Engine!Says("missing")
        BY <3>1 DEF Engine!Says
      <3>2. CASE look.step = "again" /\ ~Engine!Recheck
        BY <1>7, <3>2 DEF Engine!Says, Engine!Answer
      <3>3. CASE look.step = "again" /\ Engine!Recheck
        <4>1. look.expected \in Bases /\ phase = look.phase /\ Engine!Selected = look.expected
          BY <1>7, <3>3 DEF LookInv, Engine!Answer, Engine!Recheck, Engine!BindingUnchanged
        <4>2. expected = {look.expected}
          BY <4>1, SelectedIs
        <4>3. stood = [phase |-> look.phase, expected |-> look.expected, receipt |-> look.receipt]
          BY <1>7, <3>3, <4>1, <4>2 DEF LookInv, Engine!Answer
        <4>4. verdict'.read
                = [phase |-> look.phase, expected |-> look.expected, receipt |-> look.receipt]
          BY <1>7, <3>3 DEF Engine!Answer, Engine!Says
        <4> QED BY <1>7, <4>3, <4>4 DEF Engine!Answer
      <3> QED BY <1>7, <3>1, <3>2, <3>3 DEF Engine!Answer
    <2> QED BY <2>1, <2>2 DEF Engine!ReportedTogether
  <1> QED BY <1>1, <1>2, <1>3, <1>4, <1>5, <1>6, <1>7 DEF Engine!Next

-----------------------------------------------------------------------------
LEMMA EngineInit == Engine!Init => PromptInv /\ SeenInv
  <1> SUFFICES ASSUME Engine!Init PROVE PromptInv /\ SeenInv
    OBVIOUS
  <1> USE NotBase DEF Engine!Init
  <1>1. /\ expected = {} \/ \E b \in Bases : expected = {b}
        /\ prompts = Cardinality(expected)
    BY SameCard
  <1>2. IsFiniteSet(expected) /\ prompts \in {0, 1} /\ expected \subseteq Bases
    <2>1. CASE expected = {}
      BY <1>1, <2>1, FS_EmptySet
    <2>2. CASE \E b \in Bases : expected = {b}
      BY <1>1, <2>2, FS_Singleton
    <2> QED BY <1>1, <2>1, <2>2
  <1>3. HostType
    BY SameCard, <1>2 DEF HostType, RunOf, Places, Phases, Engine!Off
  <1>4. Owner /\ Untouched /\ Based
    BY <1>1, SameCard DEF Owner, Untouched, Based, Past, Engine!Off
  <1>5. SeenInv
    BY DEF SeenInv, LookType, ReceiptOf, LookInv, Engine!ReportedTogether
  <1> QED BY <1>2, <1>3, <1>4, <1>5 DEF PromptInv

\* An execution is prompted at most once, whatever hosts run it, crash or read late, and a
\* completion that is reported of it stood on disk together (herdr.ts, herdr-inspection.ts).
THEOREM OnePromptOnly == DrivesSpec => []CompletionIsOwn
  <1>1. DrivesInit => PromptInv /\ SeenInv
    BY EngineInit DEF DrivesInit
  <1>2. [DrivesNext]_allVars => [Engine!Next]_(Engine!vars)
    BY DEF DrivesNext, allVars, engineVars, Engine!vars, Engine!worldVars, Engine!diskVars,
           Engine!runVars, Engine!seeVars
  <1>3. PromptInv /\ SeenInv /\ [Engine!Next]_(Engine!vars) => (PromptInv /\ SeenInv)'
    BY PromptStep, SeenStep DEF PromptInv
  <1>4. PromptInv /\ SeenInv => CompletionIsOwn
    BY DEF PromptInv, SeenInv, CompletionIsOwn, Engine!CompletionIsOwn, Engine!PromptedOnce
  <1> QED BY <1>1, <1>2, <1>3, <1>4, PTL DEF DrivesSpec

-----------------------------------------------------------------------------
(***************************************************************************)
(* The gates of a task.  A commit that lands was verified exactly as it    *)
(* landed although the branch may move under the verify command: whoever   *)
(* commits on top of a candidate makes the branch another commit for good, *)
(* so that the candidate, verified in part, can no longer be the head of   *)
(* main when the receipt is written (Overtaken).                           *)
(***************************************************************************)
Stops == {"idle", "worker", "ran", "gate", "ci", "judge", "review", "record", "gated", "merge",
          "receipt", "report", "close"}
Answers == {"none", "pass", "paused", "reject", "infra", "review", "release"}
Evidence == [ci : {"not-run", "pass", "fail", "blocked", "skip"},
             reviewer : {"not-run", "pass", "fail", "blocked", "skip", "not-applicable"}]

GitType ==
    /\ cfg \in Gates!Config
    /\ main \in Seq(Gates!Commit)
    /\ branch \in Gates!Commit \cup {None} /\ tree \in {"none", "marked", "bare"}
    /\ pending \in Gates!Candidate \cup {None}
    /\ work \in Nat

RowType == backlog \in {"open", "blocked", "done", "split"} /\ stop \in BOOLEAN

CycleType ==
    /\ at \in Stops /\ cand \in Gates!Commit \cup {None} /\ again \in BOOLEAN /\ done \in Nat
    /\ ev \in Evidence /\ check \in Answers

\* A candidate that somebody committed on top of before it landed: it never will.
Overtaken(c) ==
    /\ c.work > 0 /\ ~c.hand /\ ~Gates!Landed(c)
    /\ branch.hand \/ branch.work = 0
Kept(c) == Gates!Known("verified", c) \/ Overtaken(c)
Good(c) ==
    /\ Gates!VerifyRequired \/ cfg.cmd # "none" => Kept(c)
    /\ Gates!ReviewRequired => Gates!Known("reviewed", c) /\ ~(cfg.free /\ cfg.kin)
    /\ cfg.release => Gates!Known("approved", c)

Answered == {"pass", "paused", "review", "release"}
AtWork == \/ at \in {"ran", "gate", "ci", "judge", "review", "merge", "receipt"}
          \/ at \in {"record", "gated"} /\ check \in Answered

CycleOK ==
    /\ at # "idle" => branch \in Gates!Commit
    /\ at \notin {"idle", "worker"} => cand \in Gates!Commit
    /\ at \in {"idle", "worker", "ran"} => bundles = {}
    /\ at \in {"idle", "worker", "ran", "ci"} => ev = Gates!NoEvidence
    /\ AtWork => branch.work > 0
    /\ at \notin {"idle", "close"} => backlog = "open"
    /\ at = "close" => backlog = "done"
    /\ at \in {"ci", "judge", "review"} => check = "none"

\* A candidate that is verified: every step of the command exited 0 while the branch was it.
Verifying == \/ branch = cand /\ clean = 1 .. done /\ done < Steps
             \/ Overtaken(cand)

EvidenceOK ==
    /\ at = "ci" => Verifying
    /\ ev.ci = "pass" => Kept(cand)
    /\ ev.ci = "skip" => /\ cfg.cmd = "none"
                         /\ Gates!VerifyRequired =>
                              ev.reviewer = "not-run" /\ at \notin {"judge", "review"}
    /\ ev.reviewer = "pass" => Gates!Known("reviewed", cand) /\ ~(cfg.free /\ cfg.kin)
    /\ ev.reviewer \in {"skip", "not-applicable"} => ~Gates!ReviewRequired
    /\ \A b \in bundles : b.ready => Good(b.head)

ReceiptOK ==
    /\ at = "receipt" => main # <<>>
    /\ at = "report" \/ backlog = "done" => receipts # {}
    /\ \A r \in receipts : Gates!Proven(r.head)

PendingOK == Gates!Waiting => pending.head.work > 0

SavedOK ==
    /\ \A f \in facts : f[1] = "saved" =>
          \/ Gates!Known("rejected", f[2]) \/ backlog = "done"
          \/ Gates!Waiting /\ pending.head.work = f[2]
    /\ at = "worker" => ~Gates!Waiting
    /\ Gates!Waiting /\ AtWork => pending.head.work = branch.work
    /\ Gates!Waiting /\ at \in {"record", "gated"} /\ check = "reject" =>
         Gates!Known("rejected", pending.head.work)

LEMMA AppendLands ==
    ASSUME main \in Seq(Gates!Commit), NEW c \in Gates!Commit, main' = Gates!Append(main, c)
    PROVE  /\ main' \in Seq(Gates!Commit)
           /\ main' # <<>>
           /\ \A x : Gates!Landed(x)' <=> Gates!Landed(x) \/ x = c
  BY DEF Gates!Landed, Gates!ToSet

LEMMA LastLands ==
    ASSUME main \in Seq(Gates!Commit), main # <<>>
    PROVE  Gates!Landed(Gates!Last(main)) /\ Gates!Last(main) \in Gates!Commit
  BY DEF Gates!Landed, Gates!ToSet, Gates!Last


LEMMA FreshCommit == \A n \in Nat : Gates!At(n) \in Gates!Commit
  BY DEF Gates!Commit, Gates!At

LEMMA SetCommit ==
    \A c \in Gates!Commit, n \in Nat :
       /\ [c EXCEPT !.work = n] \in Gates!Commit /\ [c EXCEPT !.base = n] \in Gates!Commit
       /\ [c EXCEPT !.hand = TRUE] \in Gates!Commit
       /\ c.work \in Nat /\ c.base \in Nat /\ c.hand \in BOOLEAN
  BY DEF Gates!Commit

LEMMA RollbackType ==
    ASSUME branch \in Gates!Commit, Gates!Rollback
    PROVE  branch' \in Gates!Commit
  BY FreshCommit, SetCommit DEF Gates!Rollback

LEMMA SaveType ==
    ASSUME branch \in Gates!Commit, Gates!Save
    PROVE  pending' \in Gates!Candidate
  BY DEF Gates!Save, Gates!Candidate

LEMMA CloseType ==
    ASSUME pending \in Gates!Candidate \cup {None}, Gates!Close
    PROVE  pending' \in Gates!Candidate \cup {None}
  BY DEF Gates!Close, Gates!Candidate

\* What ends in Pause or Defer saves the branch, or leaves what was saved.
LEMMA PauseType ==
    ASSUME pending \in Gates!Candidate \cup {None}, branch \in Gates!Commit,
           Gates!Pause \/ Gates!Defer
    PROVE  pending' \in Gates!Candidate \cup {None}
  BY SaveType DEF Gates!Pause, Gates!Defer

LEMMA IdleType == ASSUME Gates!Idle PROVE CycleType'
  BY DEF Gates!Idle, Gates!NoEvidence, CycleType, Stops, Answers, Evidence

LEMMA PauseIdles == Gates!Pause \/ Gates!Defer => Gates!Idle /\ (backlog' = backlog \/ backlog' = "blocked")
  BY DEF Gates!Pause, Gates!Defer, Gates!Block

LEMMA ResolveIdles == Gates!ResolveFailure => Gates!Idle /\ backlog' \in {"open", "blocked", "split"}
  BY DEF Gates!ResolveFailure

LEMMA GitTypeStep == ASSUME GitType, CycleType, CycleOK, [Gates!Next]_(Gates!vars) PROVE GitType'
  <1> USE DEF Gates!gitVars, Gates!fileVars, Gates!modelVars, Gates!cycleVars, Gates!history,
              Gates!bounds, Gates!Gate
  <1>a. main \in Seq(Gates!Commit) => Gates!Len(main) \in Nat
    OBVIOUS
  <1>1. CASE Gates!Resume \/ Gates!Receipt \/ Gates!Report \/ Gates!ReapWorktree \/ Gates!Crash
    BY <1>1 DEF GitType, Gates!Resume, Gates!Receipt, Gates!Report, Gates!ReapWorktree, Gates!Crash
  <1>2. CASE Gates!Prepare
    <2>1. branch' \in Gates!Commit \cup {None}
      BY <1>2, <1>a, FreshCommit DEF GitType, Gates!Prepare
    <2> QED BY <1>2, <2>1 DEF GitType, Gates!Prepare
  <1>3. CASE Gates!Worker
    <2>1. branch \in Gates!Commit /\ work' \in Nat
      BY <1>3 DEF GitType, CycleOK, Gates!Worker
    <2>2. branch' \in Gates!Commit
      BY <1>3, <2>1, SetCommit DEF Gates!Worker
    <2> QED BY <1>3, <2>1, <2>2 DEF GitType, Gates!Worker
  <1>4. CASE Gates!Ran
    <2>1. branch \in Gates!Commit
      BY <1>4 DEF CycleOK, Gates!Ran
    <2>2. pending' \in Gates!Candidate \cup {None}
      BY <1>4, <2>1, PauseType, SaveType DEF Gates!Ran, GitType
    <2> QED BY <1>4, <2>2 DEF GitType, Gates!Ran
  <1>5. CASE Gates!StartGate \/ Gates!Throws \/ Gates!NoVerify \/ Gates!NoReview \/ Gates!Record
    BY <1>5
       DEF GitType, Gates!StartGate, Gates!Throws, Gates!NoVerify, Gates!NoReview, Gates!Record,
           Gates!Answer
  <1>6. ASSUME \/ Gates!VerifyStep \/ Gates!Judge \/ Gates!AskReviewer \/ Gates!AskFree
        PROVE  GitType'
    <2>1. branch \in Gates!Commit
      BY <1>6 DEF CycleOK, Gates!VerifyStep, Gates!StepExits0, Gates!StepFails, Gates!StepBlocked,
                  Gates!Judge, Gates!AskReviewer, Gates!AskFree
    <2>2. branch' = branch \/ Gates!Rollback
      BY <1>6 DEF Gates!VerifyStep, Gates!StepExits0, Gates!StepFails, Gates!StepBlocked,
                  Gates!Judge, Gates!AskReviewer, Gates!AskFree, Gates!Reject, Gates!Answer,
                  Gates!Verdict, Gates!Skipped, Gates!Review
    <2>3. UNCHANGED <<cfg, main, tree, pending, work>>
      BY <1>6 DEF Gates!VerifyStep, Gates!StepExits0, Gates!StepFails, Gates!StepBlocked,
                  Gates!Judge, Gates!AskReviewer, Gates!AskFree
    <2> QED BY <2>1, <2>2, <2>3, RollbackType DEF GitType
  <1>7. CASE Gates!Gated
    <2>1. branch \in Gates!Commit
      BY <1>7 DEF CycleOK, Gates!Gated
    <2>2. pending' \in Gates!Candidate \cup {None}
      BY <1>7, <2>1, PauseType, CloseType DEF Gates!Gated, GitType
    <2> QED BY <1>7, <2>2 DEF GitType, Gates!Gated
  <1>8. CASE Gates!Merge
    <2>1. branch \in Gates!Commit
      BY <1>8 DEF CycleOK, Gates!Merge
    <2>2. pending' \in Gates!Candidate \cup {None}
      BY <1>8, <2>1, PauseType DEF Gates!Merge, GitType
    <2>3. main' \in Seq(Gates!Commit)
      BY <1>8, <2>1, AppendLands DEF Gates!Merge, GitType
    <2>4. branch' \in Gates!Commit
      BY <1>8, <1>a, <2>1, SetCommit DEF Gates!Merge, GitType
    <2> QED BY <1>8, <2>2, <2>3, <2>4 DEF GitType, Gates!Merge
  <1>9. CASE Gates!Finish
    BY <1>9, CloseType DEF GitType, Gates!Finish
  <1>10. CASE Gates!Foreign
    <2>1. Gates!At(Gates!Len(main)) \in Gates!Commit
      BY <1>a, FreshCommit DEF GitType
    <2>2. main' \in Seq(Gates!Commit)
      BY <1>10, <2>1, AppendLands DEF GitType, Gates!Foreign, Gates!Others
    <2> QED BY <1>10, <2>2 DEF GitType, Gates!Foreign, Gates!Others
  <1>11. CASE Gates!ByHand
    BY <1>11, SetCommit DEF GitType, Gates!ByHand, Gates!Order, Gates!Others
  <1>12. CASE Gates!Reconfigure
    BY <1>12 DEF GitType, Gates!Reconfigure, Gates!Waiting, Gates!Order, Gates!Others, Gates!Candidate
  <1>13. CASE Gates!Answers \/ Gates!Stop \/ Gates!Approve \/ Gates!Reopen \/ Gates!Restart
    BY <1>13
       DEF GitType, Gates!Answers, Gates!Stop, Gates!Approve, Gates!Reopen, Gates!Restart,
           Gates!Order, Gates!Others
  <1>14. CASE UNCHANGED Gates!vars
    BY <1>14 DEF GitType, Gates!vars
  <1> QED
    BY <1>1, <1>2, <1>3, <1>4, <1>5, <1>6, <1>7, <1>8, <1>9, <1>10, <1>11, <1>12, <1>13, <1>14
       DEF Gates!Next, Gates!Cycle

\* Every step of a cycle either ends it or goes on to the next place.
Onward == UNCHANGED <<again, done, ev, check, asked, bundles, clean, backlog>>

LEMMA WorkerGoes == Gates!Worker =>
    /\ UNCHANGED <<cfg, main, tree, stop, pending, receipts, approval, facts>>
    /\ work' = work + 1
    /\ \/ Gates!Idle /\ backlog' \in {"open", "blocked", "split"} /\ UNCHANGED branch
       \/ /\ branch' = [branch EXCEPT !.work = work + 1] /\ cand' = branch' /\ at' = "ran"
          /\ Onward
  BY ResolveIdles DEF Gates!Worker, Onward

LEMMA RanGoes == Gates!Ran =>
    /\ UNCHANGED <<cfg, main, branch, tree, stop, receipts, approval, work>>
    /\ at = "ran"
    /\ \/ Gates!Idle /\ backlog' \in {backlog, "open", "blocked", "split"}
       \/ at' = "gate" /\ Onward /\ UNCHANGED cand
    /\ Gates!Save \/ UNCHANGED <<pending, facts>>
  BY PauseIdles, ResolveIdles
     DEF Gates!Ran, Onward, Gates!gitVars, Gates!cycleVars, Gates!bounds, Gates!Block,
         Gates!Pause, Gates!Defer

LEMMA GatedGoes == Gates!Gated =>
    /\ UNCHANGED <<cfg, main, branch, tree, stop, receipts, approval, work>>
    /\ at = "gated"
    /\ \/ Gates!Idle /\ backlog' \in {backlog, "open", "blocked", "split"}
       \/ check = "pass" /\ at' = "merge" /\ Onward /\ UNCHANGED cand
    /\ \/ check \in {"paused", "pass", "review"} /\ Gates!Save
       \/ at' = "idle" /\ check = "reject" /\ Gates!Close /\ UNCHANGED facts
       \/ UNCHANGED <<pending, facts>>
  BY PauseIdles, ResolveIdles
     DEF Gates!Gated, Onward, Gates!gitVars, Gates!cycleVars, Gates!bounds, Gates!Block,
         Gates!Pause, Gates!Defer, Gates!GivesUp, Gates!Idle

LEMMA MergeGoes == Gates!Merge =>
    /\ UNCHANGED <<cfg, tree, stop, receipts, approval, work>>
    /\ at = "merge"
    /\ \/ Gates!Idle /\ backlog' \in {backlog, "open", "blocked"} /\ UNCHANGED <<main, branch>>
       \/ /\ at' = "receipt" /\ Onward /\ UNCHANGED <<cand, branch>>
          /\ \/ Gates!Landed(branch) /\ UNCHANGED main
             \/ main' = Gates!Append(main, branch)
       \/ /\ at' = "gate" /\ again' = TRUE /\ branch' = [branch EXCEPT !.base = Gates!Len(main)]
          /\ UNCHANGED <<cand, done, ev, check, asked, bundles, clean, backlog, main>>
          /\ ~Gates!Landed(branch)
    /\ Gates!Save \/ UNCHANGED <<pending, facts>>
  BY PauseIdles
     DEF Gates!Merge, Onward, Gates!gitVars, Gates!cycleVars, Gates!bounds, Gates!Block,
         Gates!Pause, Gates!Defer

\* A gate keeps everything but the branch, its evidence and its answer; when it rejects the
\* candidate, the branch may be rolled back.
GateStep == \/ Gates!Throws \/ Gates!NoVerify \/ Gates!VerifyStep \/ Gates!Judge
            \/ Gates!NoReview \/ Gates!AskReviewer \/ Gates!AskFree

LEMMA GateGoes ==
    ASSUME GateStep, ev \in Evidence
    PROVE
    /\ UNCHANGED <<cfg, main, tree, backlog, stop, pending, receipts, approval, work>>
    /\ UNCHANGED <<bundles, cand, again>>
    /\ at \in {"ci", "judge", "review"} /\ at' \in {"ci", "judge", "review", "record", "gated"}
    /\ at' = "ci" => at = "ci"
    /\ \/ check' \in {check, "pass", "paused", "infra", "review"} /\ UNCHANGED branch
       \/ at' = "record" /\ Gates!Reject
    /\ at' = "gated" => check' = "infra"
    /\ at' \in {"ci", "judge", "review"} => check' = check
  <1> USE DEF Gates!Gate, Gates!Answer, Gates!Review
  <1>1. CASE Gates!Throws \/ Gates!NoVerify
    BY <1>1 DEF Gates!Throws, Gates!NoVerify
  <1>2. CASE Gates!VerifyStep
    BY <1>2 DEF Gates!VerifyStep, Gates!StepExits0, Gates!StepFails, Gates!StepBlocked
  <1>3. CASE Gates!Judge \/ Gates!NoReview
    BY <1>3 DEF Gates!Judge, Gates!NoReview
  <1>4. CASE Gates!AskReviewer \/ Gates!AskFree
    BY <1>4 DEF Gates!AskReviewer, Gates!AskFree, Gates!Verdict, Gates!Skipped
  <1> QED BY <1>1, <1>2, <1>3, <1>4 DEF GateStep

LEMMA GateEvidence ==
    ASSUME GateStep, ev \in Evidence, done \in Nat
    PROVE  ev' \in Evidence /\ done' \in Nat /\ (at' = "ci" => ev' = ev)
  <1> USE DEF Gates!Gate, Gates!Answer, Gates!Review
  <1>1. CASE Gates!Throws \/ Gates!NoVerify
    BY <1>1 DEF Gates!Throws, Gates!NoVerify, Evidence
  <1>2. CASE Gates!VerifyStep
    BY <1>2 DEF Gates!VerifyStep, Gates!StepExits0, Gates!StepFails, Gates!StepBlocked, Evidence
  <1>3. CASE Gates!Judge \/ Gates!NoReview
    BY <1>3 DEF Gates!Judge, Gates!NoReview, Evidence
  <1>4. CASE Gates!AskReviewer \/ Gates!AskFree
    BY <1>4 DEF Gates!AskReviewer, Gates!AskFree, Gates!Verdict, Gates!Skipped, Evidence
  <1> QED BY <1>1, <1>2, <1>3, <1>4 DEF GateStep

\* What the operator, others and the reviewers do leaves the cycle where it is.
Outside == \/ Gates!Answers \/ Gates!Foreign \/ Gates!ByHand \/ Gates!Stop \/ Gates!Approve
           \/ Gates!Reopen \/ Gates!Reconfigure \/ Gates!Restart

LEMMA OutsideGoes == Outside =>
    /\ UNCHANGED <<cfg, tree, receipts, bundles, at, cand, again, done, ev, check, asked, facts, work>>
    /\ \/ UNCHANGED <<main, branch, clean>>
       \/ main' = Gates!Append(main, Gates!At(Gates!Len(main))) /\ UNCHANGED <<branch, clean>>
       \/ /\ branch # None /\ branch.work > 0 /\ ~branch.hand /\ ~Gates!Landed(branch)
          /\ branch' = [branch EXCEPT !.hand = TRUE] /\ clean' = {} /\ UNCHANGED main
    /\ backlog' = backlog \/ (backlog = "blocked" /\ backlog' = "open")
    /\ stop' \in {stop, TRUE, FALSE}
    /\ \/ pending' = pending
       \/ at = "idle" /\ Gates!Waiting /\ pending' = [pending EXCEPT !.same = FALSE]
  <1> USE DEF Gates!Order, Gates!Others, Gates!gitVars, Gates!cycleVars, Gates!fileVars,
              Gates!history, Gates!bounds
  <1>1. CASE Gates!Answers \/ Gates!Stop \/ Gates!Approve \/ Gates!Reopen \/ Gates!Restart
    BY <1>1 DEF Gates!Answers, Gates!Stop, Gates!Approve, Gates!Reopen, Gates!Restart
  <1>2. CASE Gates!Foreign
    BY <1>2 DEF Gates!Foreign
  <1>3. CASE Gates!ByHand
    BY <1>3 DEF Gates!ByHand
  <1>4. CASE Gates!Reconfigure
    BY <1>4 DEF Gates!Reconfigure
  <1> QED BY <1>1, <1>2, <1>3, <1>4 DEF Outside

LEMMA CycleTypeStep ==
    ASSUME GitType, RowType, CycleType, CycleOK, [Gates!Next]_(Gates!vars)
    PROVE  RowType' /\ CycleType'
  <1> USE DEF Gates!gitVars, Gates!cycleVars
  <1>1. CASE Gates!Resume
    BY <1>1, IdleType DEF Gates!Resume, Gates!Intact, Gates!Block, CycleType, RowType, GitType, Stops,
       Gates!Candidate
  <1>2. CASE Gates!Prepare
    BY <1>2, IdleType DEF Gates!Prepare, Gates!Block, CycleType, RowType, Stops
  <1>3. CASE Gates!Worker
    <2>1. branch' \in Gates!Commit \cup {None}
      BY <1>3, GitTypeStep DEF GitType, Gates!Next, Gates!Cycle
    <2> QED BY <1>3, <2>1, WorkerGoes, IdleType DEF CycleType, RowType, Onward, Stops
  <1>4. CASE Gates!Ran
    BY <1>4, RanGoes, IdleType DEF CycleType, RowType, Onward, Stops
  <1>5. CASE Gates!StartGate
    BY <1>5 DEF Gates!StartGate, Gates!Gate, Gates!NoEvidence, CycleType, RowType, GitType, Stops,
       Answers, Evidence
  <1>6. CASE GateStep
    BY <1>6, GateGoes, GateEvidence DEF CycleType, RowType, Stops, Answers, Gates!Reject
  <1>7. CASE Gates!Record
    BY <1>7 DEF Gates!Record, Gates!Gate, CycleType, RowType, Stops, Answers
  <1>8. CASE Gates!Gated
    BY <1>8, GatedGoes, IdleType DEF CycleType, RowType, Onward, Stops
  <1>9. CASE Gates!Merge
    BY <1>9, MergeGoes, IdleType DEF CycleType, RowType, Onward, Stops
  <1>10. CASE Gates!Receipt \/ Gates!Report
    BY <1>10, IdleType DEF Gates!Receipt, Gates!Report, Gates!Block, CycleType, RowType, Stops
  <1>11. CASE Gates!Finish \/ Gates!Crash \/ Gates!ReapWorktree
    BY <1>11, IdleType DEF Gates!Finish, Gates!Crash, Gates!ReapWorktree, CycleType, RowType
  <1>12. CASE Outside
    BY <1>12, OutsideGoes DEF CycleType, RowType
  <1>13. CASE UNCHANGED Gates!vars
    BY <1>13 DEF Gates!vars, CycleType, RowType
  <1> QED
    BY <1>1, <1>2, <1>3, <1>4, <1>5, <1>6, <1>7, <1>8, <1>9, <1>10, <1>11, <1>12, <1>13
       DEF Gates!Next, Gates!Cycle, GateStep, Outside

LEMMA CycleStep ==
    ASSUME GitType, RowType, CycleType, CycleOK, PendingOK, [Gates!Next]_(Gates!vars)
    PROVE  CycleOK'
  <1> USE DEF Gates!gitVars, Gates!cycleVars, Gates!fileVars, Gates!history, CycleOK, AtWork, Answered
  <1>a. Gates!Idle => CycleOK'
    BY DEF Gates!Idle
  <1>b. GitType' /\ (branch # None => branch \in Gates!Commit)
    BY GitTypeStep DEF GitType
  <1>1. CASE Gates!Resume
    BY <1>1, <1>a, <1>b DEF Gates!Resume, Gates!Intact, Gates!Block, GitType, PendingOK, Gates!Waiting,
       Gates!Candidate
  <1>2. CASE Gates!Prepare
    <2>1. Gates!At(Gates!Len(main)) \in Gates!Commit
      <3>1. Gates!Len(main) \in Nat
        BY DEF GitType
      <3> QED BY <3>1, FreshCommit
    <2>2. CASE Gates!Idle
      BY <2>2, <1>a
    <2>3. CASE ~Gates!Idle
      BY <1>2, <2>1, <2>3 DEF Gates!Prepare, Gates!Block
    <2> QED BY <2>2, <2>3
  <1>3. CASE Gates!Worker
    <2>1. CASE Gates!Idle
      BY <2>1, <1>a
    <2>2. CASE ~Gates!Idle
      <3>1. branch \in Gates!Commit /\ at = "worker" /\ branch' = [branch EXCEPT !.work = work + 1]
        BY <1>3, <2>2, WorkerGoes DEF Gates!Worker
      <3>2. branch' \in Gates!Commit /\ branch'.work > 0
        BY <3>1 DEF Gates!Commit, GitType
      <3> QED BY <1>3, <2>2, <3>1, <3>2, WorkerGoes DEF Onward
    <2> QED BY <2>1, <2>2
  <1>4. CASE Gates!Ran
    BY <1>4, <1>a, RanGoes DEF Onward
  <1>5. CASE Gates!StartGate
    BY <1>5 DEF Gates!StartGate, Gates!Gate
  <1>6. CASE GateStep
    <2>1. ev \in Evidence /\ done \in Nat /\ branch \in Gates!Commit
      BY <1>6, GateGoes DEF CycleType
    <2>2. branch' \in Gates!Commit /\ ((check' = "reject" /\ at' = "record") \/ UNCHANGED branch)
      BY <1>6, <2>1, GateGoes, RollbackType DEF Gates!Reject
    <2> QED BY <1>6, <2>1, <2>2, GateGoes, GateEvidence
  <1>7. CASE Gates!Record
    BY <1>7 DEF Gates!Record, Gates!Gate
  <1>8. CASE Gates!Gated
    BY <1>8, <1>a, GatedGoes DEF Onward
  <1>9. CASE Gates!Merge
    <2>1. CASE Gates!Idle
      BY <2>1, <1>a
    <2>2. CASE ~Gates!Idle
      <3>1. branch \in Gates!Commit /\ branch.work > 0 /\ Gates!Len(main) \in Nat
        BY <1>9, MergeGoes DEF GitType
      <3>2. branch' \in Gates!Commit /\ branch'.work > 0
        BY <1>9, <2>2, <3>1, MergeGoes DEF Gates!Commit
      <3> QED BY <1>9, <2>2, <3>1, <3>2, MergeGoes DEF Onward
    <2> QED BY <2>1, <2>2
  <1>10. CASE Gates!Receipt \/ Gates!Report
    BY <1>10, <1>a DEF Gates!Receipt, Gates!Report, Gates!Block
  <1>11. CASE Gates!Finish \/ Gates!Crash \/ Gates!ReapWorktree
    BY <1>11, <1>a DEF Gates!Finish, Gates!Crash, Gates!ReapWorktree
  <1>12. CASE Outside
    <2>1. branch # None => branch' \in Gates!Commit /\ branch'.work = branch.work
      BY <1>12, <1>b, OutsideGoes DEF Gates!Commit
    <2>2. None \notin Gates!Commit
      BY GatesAssumption DEF Gates!VerificationAssumption
    <2> QED BY <1>12, <2>1, <2>2, OutsideGoes
  <1>13. CASE UNCHANGED Gates!vars
    BY <1>13 DEF Gates!vars
  <1> QED
    BY <1>1, <1>2, <1>3, <1>4, <1>5, <1>6, <1>7, <1>8, <1>9, <1>10, <1>11, <1>12, <1>13
       DEF Gates!Next, Gates!Cycle, GateStep, Outside

LEMMA PendingStep ==
    ASSUME GitType, RowType, CycleType, CycleOK, PendingOK, [Gates!Next]_(Gates!vars)
    PROVE  PendingOK'
  <1> USE DEF Gates!gitVars, Gates!cycleVars, Gates!fileVars, Gates!history, PendingOK, Gates!Waiting
  <1>1. CASE UNCHANGED pending
    BY <1>1
  <1>2. CASE Gates!Save /\ branch.work > 0
    BY <1>2 DEF Gates!Save
  <1>3. CASE Gates!Close \/ (Gates!Waiting /\ pending' = [pending EXCEPT !.same = FALSE])
    BY <1>3 DEF Gates!Close, GitType, Gates!Candidate
  <1>4. CASE Gates!Ran \/ Gates!Gated \/ Gates!Merge
    <2>1. CASE Gates!Ran
      BY <1>1, <1>2, <2>1, RanGoes DEF CycleOK, AtWork
    <2>2. CASE Gates!Merge
      BY <1>1, <1>2, <2>2, MergeGoes DEF CycleOK, AtWork
    <2>3. CASE Gates!Gated
      <3>1. check \in {"paused", "pass", "review"} => branch.work > 0
        BY <2>3, GatedGoes DEF CycleOK, AtWork, Answered
      <3> QED BY <1>1, <1>2, <1>3, <2>3, <3>1, GatedGoes
    <2> QED BY <1>4, <2>1, <2>2, <2>3
  <1>5. CASE GateStep
    BY <1>1, <1>5, GateGoes DEF CycleType
  <1>6. CASE Outside
    BY <1>1, <1>3, <1>6, OutsideGoes
  <1> QED
    BY <1>1, <1>3, <1>4, <1>5, <1>6, WorkerGoes
       DEF Gates!Next, Gates!Cycle, GateStep, Outside, Gates!vars, Gates!Resume, Gates!Prepare,
           Gates!StartGate, Gates!Record, Gates!Gate, Gates!Receipt, Gates!Report, Gates!Finish,
           Gates!ReapWorktree, Gates!Crash

LEMMA Learned ==
    ASSUME [Gates!Next]_(Gates!vars)
    PROVE  /\ facts \subseteq facts'
           /\ \A k, c : Gates!Known(k, c) => Gates!Known(k, c)'
           /\ cfg' = cfg /\ receipts \subseteq receipts'
  <1> USE DEF Gates!gitVars, Gates!cycleVars, Gates!fileVars, Gates!history, Gates!bounds
  <1>1. CASE Gates!Worker \/ Gates!Ran \/ Gates!Gated \/ Gates!Merge
    BY <1>1, WorkerGoes, RanGoes, GatedGoes, MergeGoes DEF Gates!Save, Gates!Learn, Gates!Known
  <1>2. CASE Gates!Throws \/ Gates!NoVerify \/ Gates!NoReview
    BY <1>2 DEF Gates!Throws, Gates!NoVerify, Gates!NoReview, Gates!Gate, Gates!Answer, Gates!Known
  <1>3. CASE Gates!VerifyStep
    BY <1>3 DEF Gates!VerifyStep, Gates!StepExits0, Gates!StepFails, Gates!StepBlocked, Gates!Gate,
                Gates!Answer, Gates!Reject, Gates!Learn, Gates!Known
  <1>4. CASE Gates!Judge
    BY <1>4 DEF Gates!Judge, Gates!Gate, Gates!Answer, Gates!Reject, Gates!Learn, Gates!Known
  <1>5. CASE Gates!AskReviewer \/ Gates!AskFree
    BY <1>5 DEF Gates!AskReviewer, Gates!AskFree, Gates!Verdict, Gates!Skipped, Gates!Gate,
                Gates!Answer, Gates!Reject, Gates!Learn, Gates!Known
  <1>6. CASE Gates!Record
    BY <1>6 DEF Gates!Record, Gates!Gate, Gates!Learn, Gates!Known
  <1>7. CASE Gates!Receipt
    BY <1>7 DEF Gates!Receipt, Gates!Known
  <1>8. CASE Outside
    BY <1>8, OutsideGoes DEF Gates!Known
  <1> QED
    BY <1>1, <1>2, <1>3, <1>4, <1>5, <1>6, <1>7, <1>8
       DEF Gates!Next, Gates!Cycle, Outside, Gates!vars, Gates!Resume, Gates!Prepare,
           Gates!StartGate, Gates!Gate, Gates!Report, Gates!Finish,
           Gates!ReapWorktree, Gates!Crash, Gates!Known

\* Main only grows: by the branch, or by commits of others, which no worker wrote.
LEMMA MainGrows ==
    ASSUME GitType, CycleOK, CycleType, [Gates!Next]_(Gates!vars)
    PROVE  /\ \A c : Gates!Landed(c) => Gates!Landed(c)'
           /\ main # <<>> => main' # <<>>
           /\ \A c : Gates!Landed(c)' => \/ Gates!Landed(c) \/ c.work = 0
                                        \/ (c = branch /\ Gates!Merge)
           /\ ~Gates!Merge /\ ~Gates!Foreign => main' = main
  <1> USE DEF Gates!gitVars, Gates!cycleVars, Gates!fileVars, Gates!history, Gates!bounds
  <1>1. CASE main' = main
    BY <1>1 DEF Gates!Landed
  <1>2. CASE Gates!Merge /\ main' # main
    <2>1. main' = Gates!Append(main, branch) /\ branch \in Gates!Commit
      BY <1>2, MergeGoes DEF CycleOK
    <2> QED BY <1>2, <2>1, AppendLands DEF GitType
  <1>3. CASE Gates!Foreign
    <2>1. Gates!Len(main) \in Nat
      BY DEF GitType
    <2>2. /\ main' = Gates!Append(main, Gates!At(Gates!Len(main)))
          /\ Gates!At(Gates!Len(main)) \in Gates!Commit /\ Gates!At(Gates!Len(main)).work = 0
      BY <1>3, <2>1, FreshCommit DEF Gates!Foreign, Gates!Others, Gates!At
    <2> QED BY <1>3, <2>2, AppendLands DEF GitType
  <1>4. ~Gates!Merge /\ ~Gates!Foreign => main' = main
    <2>1. GateStep => main' = main
      BY GateGoes DEF CycleType
    <2>2. Outside /\ ~Gates!Foreign => main' = main
      BY DEF Outside, Gates!Answers, Gates!ByHand, Gates!Stop, Gates!Approve, Gates!Reopen,
             Gates!Reconfigure, Gates!Restart, Gates!Order, Gates!Others
    <2> QED
      BY <2>1, <2>2, WorkerGoes, RanGoes, GatedGoes
       DEF Gates!Next, Gates!Cycle, GateStep, Outside, Gates!vars, Gates!Resume, Gates!Prepare,
           Gates!StartGate, Gates!Record, Gates!Gate, Gates!Receipt, Gates!Report, Gates!Finish,
           Gates!ReapWorktree, Gates!Crash
  <1> QED BY <1>1, <1>2, <1>3, <1>4

\* How the branch moves while a candidate is at its gates.
LEMMA BranchMoves ==
    ASSUME GitType, CycleOK, CycleType, [Gates!Next]_(Gates!vars),
           at \notin {"idle", "worker"}, at' # "idle"
    PROVE  /\ branch \in Gates!Commit
           /\ \/ branch' = branch
              \/ branch'.work = 0
              \/ branch'.work = branch.work /\ branch'.hand = branch.hand
              \/ branch'.work = branch.work /\ branch'.hand
  <1> USE DEF Gates!gitVars, Gates!cycleVars, Gates!fileVars, Gates!history, Gates!bounds
  <1>a. branch \in Gates!Commit
    BY DEF CycleOK
  <1>1. CASE Gates!Merge
    BY <1>1, <1>a, MergeGoes DEF Gates!Commit
  <1>2. CASE GateStep
    BY <1>2, <1>a, GateGoes DEF CycleType, Gates!Reject, Gates!Rollback, Gates!At
  <1>3. CASE Outside
    BY <1>3, <1>a, OutsideGoes DEF Gates!Commit
  <1> QED
    BY <1>a, <1>1, <1>2, <1>3, RanGoes, GatedGoes
       DEF Gates!Next, Gates!Cycle, GateStep, Outside, Gates!vars, Gates!Resume, Gates!Prepare,
           Gates!Worker, Gates!StartGate, Gates!Record, Gates!Gate, Gates!Receipt, Gates!Report,
           Gates!Finish, Gates!Idle, Gates!ReapWorktree, Gates!Crash

\* An overtaken candidate stays so until the cycle is over: the branch that lands is another.
LEMMA OvertakenStays ==
    ASSUME GitType, CycleOK, CycleType, [Gates!Next]_(Gates!vars),
           at \notin {"idle", "worker"}, at' # "idle", NEW c, Overtaken(c)
    PROVE  Overtaken(c)'
  <1>1. branch'.hand \/ branch'.work = 0
    BY BranchMoves DEF Overtaken, Gates!Commit
  <1>2. c # branch
    BY DEF Overtaken
  <1>3. ~Gates!Landed(c)'
    BY <1>2, MainGrows DEF Overtaken
  <1> QED BY <1>1, <1>3 DEF Overtaken

LEMMA KeptStays ==
    ASSUME GitType, CycleOK, CycleType, [Gates!Next]_(Gates!vars),
           at \notin {"idle", "worker"}, at' # "idle"
    PROVE  /\ \A c : Kept(c) => Kept(c)'
           /\ \A c : Good(c) => Good(c)'
  <1>1. ASSUME NEW c, Kept(c) PROVE Kept(c)'
    BY <1>1, Learned, OvertakenStays DEF Kept
  <1> QED BY <1>1, Learned DEF Good, Gates!VerifyRequired, Gates!ReviewRequired

LEMMA VerifyingStays ==
    ASSUME GitType, CycleOK, CycleType, [Gates!Next]_(Gates!vars), EvidenceOK, at' = "ci"
    PROVE  Verifying'
  <1> USE DEF Gates!gitVars, Gates!cycleVars, Gates!fileVars, Gates!history, Gates!bounds
  <1>1. CASE Gates!StartGate
    <2>1. Steps > 0 /\ 1 .. 0 = {}
      BY GatesAssumption DEF Gates!VerificationAssumption
    <2> QED BY <1>1, <2>1 DEF Gates!StartGate, Verifying
  <1>2. CASE at # "ci" /\ ~Gates!StartGate
    <2>1. ~GateStep /\ ~Outside /\ ~UNCHANGED Gates!vars
      BY <1>2, GateGoes, OutsideGoes DEF CycleType, Gates!vars
    <2>2. ~Gates!Worker /\ ~Gates!Ran /\ ~Gates!Gated /\ ~Gates!Merge
      BY WorkerGoes, RanGoes, GatedGoes, MergeGoes DEF Gates!Idle
    <2> QED
      BY <1>2, <2>1, <2>2
         DEF Gates!Next, Gates!Cycle, GateStep, Outside, Gates!Resume, Gates!Prepare, Gates!Block,
             Gates!Record, Gates!Gate, Gates!Receipt, Gates!Report, Gates!Finish, Gates!Idle,
             Gates!ReapWorktree, Gates!Crash
  <1>3. CASE at = "ci"
    <2>0. Verifying
      BY <1>3 DEF EvidenceOK, Verifying
    <2>1. CASE Gates!VerifyStep
      <3>1. Gates!StepExits0 /\ done + 1 < Steps
        BY <1>3, <2>1 DEF Gates!VerifyStep, Gates!StepExits0, Gates!StepFails, Gates!StepBlocked,
                          Gates!Gate
      <3>2. UNCHANGED <<branch, cand, main>> /\ clean' = clean \cup {done + 1} /\ done' = done + 1
        BY <3>1 DEF Gates!StepExits0, Gates!Gate
      <3>3. (1 .. done) \cup {done + 1} = 1 .. (done + 1)
        BY DEF CycleType
      <3> QED BY <2>0, <3>1, <3>2, <3>3 DEF Verifying, Overtaken, Gates!Landed
    <2>2. CASE Outside
      <3>1. CASE Overtaken(cand)
        BY <1>3, <2>2, <3>1, OvertakenStays, OutsideGoes DEF Verifying
      <3>2. CASE UNCHANGED branch /\ UNCHANGED clean
        BY <2>0, <2>2, <3>1, <3>2, OutsideGoes DEF Verifying
      <3>3. CASE ~Overtaken(cand) /\ ~(UNCHANGED branch /\ UNCHANGED clean)
        <4>1. /\ branch = cand /\ branch.work > 0 /\ ~branch.hand /\ ~Gates!Landed(branch)
              /\ branch' = [branch EXCEPT !.hand = TRUE] /\ UNCHANGED <<main, cand>>
          BY <2>0, <2>2, <3>3, OutsideGoes DEF Verifying
        <4>2. branch'.hand
          BY <1>3, <4>1 DEF CycleOK, Gates!Commit
        <4> QED BY <4>1, <4>2 DEF Verifying, Overtaken, Gates!Landed
      <3> QED BY <3>1, <3>2, <3>3
    <2>3. CASE UNCHANGED Gates!vars
      BY <2>0, <2>3 DEF Gates!vars, Verifying, Overtaken, Gates!Landed
    <2> QED
      BY <1>3, <2>1, <2>2, <2>3
         DEF Gates!Next, Gates!Cycle, Outside, Gates!Resume, Gates!Prepare, Gates!Worker, Gates!Ran,
             Gates!StartGate, Gates!Throws, Gates!NoVerify, Gates!Judge, Gates!NoReview,
             Gates!AskReviewer, Gates!AskFree, Gates!Record, Gates!Gated, Gates!Merge, Gates!Gate,
             Gates!Receipt, Gates!Report, Gates!Finish, Gates!Idle, Gates!ReapWorktree, Gates!Crash
  <1> QED BY <1>1, <1>2, <1>3

LEMMA EvidenceStep ==
    ASSUME GitType, RowType, CycleType, CycleOK, PendingOK, [Gates!Next]_(Gates!vars), EvidenceOK
    PROVE  EvidenceOK'
  <1> USE DEF Gates!gitVars, Gates!cycleVars, Gates!fileVars, Gates!history, Gates!bounds
  <1>0. CycleOK' /\ (at' = "ci" => Verifying') /\ UNCHANGED cfg
    BY CycleStep, VerifyingStays, Learned
  <1>1. CASE at' \in {"idle", "worker", "ran"}
    BY <1>0, <1>1 DEF EvidenceOK, CycleOK, Gates!NoEvidence
  <1>2. CASE at \in {"idle", "worker"} /\ at' \notin {"idle", "worker", "ran"}
    <2>1. ~GateStep /\ ~Outside /\ ~UNCHANGED Gates!vars
      BY <1>2, GateGoes, OutsideGoes DEF CycleType, Gates!vars
    <2>2. ~Gates!Worker /\ ~Gates!Ran /\ ~Gates!Gated /\ ~Gates!Merge
      BY <1>2, WorkerGoes, RanGoes, GatedGoes, MergeGoes DEF Gates!Idle
    <2> QED
      BY <1>2, <2>1, <2>2
         DEF Gates!Next, Gates!Cycle, GateStep, Outside, Gates!Resume, Gates!Prepare, Gates!Block,
             Gates!StartGate, Gates!Record, Gates!Gate, Gates!Receipt, Gates!Report, Gates!Finish,
             Gates!Idle, Gates!ReapWorktree, Gates!Crash
  <1>3. CASE at \notin {"idle", "worker"} /\ at' \notin {"idle", "worker", "ran"}
    <2>0. (\A c : Kept(c) => Kept(c)') /\ (\A c : Good(c) => Good(c)')
      BY <1>3, KeptStays
    <2>1. CASE UNCHANGED bundles
      <3>1. \A b \in bundles' : b.ready => Good(b.head)'
        BY <2>0, <2>1 DEF EvidenceOK
      <3>2. CASE UNCHANGED <<cand, ev>> /\ (at' \in {"judge", "review"} => at \in {"judge", "review"})
        BY <1>0, <2>0, <3>1, <3>2, Learned
           DEF EvidenceOK, Gates!VerifyRequired, Gates!ReviewRequired
      <3>3. CASE Gates!StartGate
        BY <1>0, <3>1, <3>3 DEF EvidenceOK, Gates!StartGate, Gates!Gate, Gates!NoEvidence
      <3>4. CASE Gates!NoVerify
        <4>1. at = "ci" /\ ev.reviewer = "not-run" /\ ev \in Evidence
          BY <3>4 DEF Gates!NoVerify, Gates!Gate, CycleOK, Gates!NoEvidence, CycleType
        <4>2. /\ ev'.ci \in {"blocked", "skip"} /\ ev'.reviewer = "not-run"
              /\ ev'.ci = "skip" => cfg.cmd = "none" /\ (Gates!VerifyRequired => at' = "record")
          BY <3>4, <4>1 DEF Gates!NoVerify, Gates!Gate, Evidence, GitType, Gates!Config
        <4> QED
          BY <1>0, <3>1, <4>2 DEF EvidenceOK, Gates!VerifyRequired
      <3>5. CASE Gates!VerifyStep
        <4>1. /\ ev = Gates!NoEvidence /\ at = "ci" /\ Verifying /\ cand' = cand
              /\ branch \in Gates!Commit /\ done \in Nat
          BY <3>5 DEF Gates!VerifyStep, Gates!StepExits0, Gates!StepFails, Gates!StepBlocked,
                      Gates!Gate, CycleOK, EvidenceOK, CycleType
        <4>2. ev'.ci = "pass" => Kept(cand)'
          <5>1. CASE ~(Gates!StepExits0 /\ done + 1 >= Steps)
            BY <3>5, <4>1, <5>1, GatesAssumption
               DEF Gates!VerifyStep, Gates!StepExits0, Gates!StepFails, Gates!StepBlocked,
                   Gates!NoEvidence, Gates!VerificationAssumption
          <5>2. CASE Gates!StepExits0 /\ done + 1 >= Steps
            <6>1. CASE Overtaken(cand)
              BY <2>0, <4>1, <6>1 DEF Kept
            <6>2. CASE branch = cand /\ clean = 1 .. done /\ done < Steps
              <7>1. clean' = 1 .. Steps /\ ~(done + 1 < Steps)
                BY <4>1, <5>2, <6>2, GatesAssumption
                   DEF Gates!StepExits0, Gates!VerificationAssumption
              <7> QED
                BY <4>1, <5>2, <6>2, <7>1
                   DEF Gates!StepExits0, Gates!Learn, Gates!Known, Kept
            <6> QED BY <4>1, <6>1, <6>2 DEF Verifying
          <5> QED BY <5>1, <5>2
        <4>3. ev'.ci # "skip" /\ ev'.reviewer = "not-run"
          BY <3>5, <4>1 DEF Gates!VerifyStep, Gates!StepExits0, Gates!StepFails, Gates!StepBlocked,
                            Gates!NoEvidence
        <4> QED BY <1>0, <3>1, <4>1, <4>2, <4>3 DEF EvidenceOK
      <3>6. CASE Gates!Judge \/ Gates!NoReview \/ Gates!AskReviewer \/ Gates!AskFree
        <4>1. cand' = cand /\ at \in {"judge", "review"} /\ ev'.ci = ev.ci
          BY <3>6 DEF Gates!Judge, Gates!NoReview, Gates!AskReviewer, Gates!AskFree, Gates!Gate,
                      Gates!Verdict, Gates!Skipped, Gates!Review, CycleType, Evidence
        <4>2. ev.ci = "skip" => cfg.cmd = "none" /\ ~Gates!VerifyRequired
          BY <4>1 DEF EvidenceOK
        <4>3. ev'.reviewer = "pass" => Gates!Known("reviewed", cand)' /\ ~(cfg.free /\ cfg.kin)
          BY <3>6, <4>1, Learned
             DEF Gates!Judge, Gates!NoReview, Gates!AskReviewer, Gates!AskFree, Gates!Gate,
                 Gates!Verdict, Gates!Skipped, Gates!Review, CycleType, Evidence, EvidenceOK,
                 Gates!Learn, Gates!Known
        <4>4. ev'.reviewer \in {"skip", "not-applicable"} => ~Gates!ReviewRequired
          BY <3>6, <4>1
             DEF Gates!Judge, Gates!NoReview, Gates!AskReviewer, Gates!AskFree, Gates!Gate,
                 Gates!Verdict, Gates!Skipped, Gates!Review, CycleType, Evidence, EvidenceOK
        <4> QED
          BY <1>0, <2>0, <3>1, <4>1, <4>2, <4>3, <4>4
             DEF EvidenceOK, Gates!VerifyRequired, Gates!ReviewRequired
      <3>7. CASE Gates!Throws \/ Gates!Ran \/ Gates!Gated \/ Gates!Merge \/ Outside \/ UNCHANGED Gates!vars
        BY <1>3, <3>2, <3>7, RanGoes, GatedGoes, MergeGoes, OutsideGoes
           DEF Gates!Throws, Gates!Gate, Gates!vars, Gates!Idle, Onward
      <3>8. CASE Gates!Receipt \/ Gates!Report \/ Gates!Record
        BY <1>3, <3>2, <3>8 DEF Gates!Receipt, Gates!Report, Gates!Record, Gates!Gate, Gates!Block, Gates!Idle
      <3> QED
        BY <1>3, <3>3, <3>4, <3>5, <3>6, <3>7, <3>8
           DEF Gates!Next, Gates!Cycle, Outside, Gates!Resume, Gates!Prepare, Gates!Worker, Gates!Finish,
               Gates!Idle, Gates!ReapWorktree, Gates!Crash
    <2>2. CASE Gates!Record
      <3>1. UNCHANGED <<cand, ev>> /\ at' = "gated"
        BY <2>2 DEF Gates!Record, Gates!Gate
      <3>2. \A b \in bundles' : b.ready => Good(b.head)'
        <4>1. SUFFICES ASSUME NEW b \in bundles', b \notin bundles, b.ready PROVE Good(b.head)'
          BY <2>0 DEF EvidenceOK
        <4>2. /\ b = Gates!Bundle /\ (Gates!Release = "pass" => Gates!Learn("approved", cand))
          BY <2>2, <4>1 DEF Gates!Record
        <4>3. /\ b.head = cand /\ {ev.ci, ev.reviewer, Gates!Release} \cap {"fail", "blocked", "not-run"} = {}
          BY <4>1, <4>2 DEF Gates!Bundle
        <4>4. /\ ev.ci \in {"pass", "skip"} /\ ev.reviewer \in {"pass", "skip", "not-applicable"}
              /\ cfg.release => Gates!Release = "pass"
          BY <4>3 DEF CycleType, Evidence, Gates!Release
        <4>5. cfg.release => Gates!Known("approved", cand)'
          BY <3>1, <4>2, <4>4 DEF Gates!Learn, Gates!Known
        <4>6. Gates!VerifyRequired \/ cfg.cmd # "none" => Kept(cand)'
          BY <2>0, <3>1, <4>4 DEF EvidenceOK, Kept, Overtaken, Gates!Known, Gates!Landed
        <4>7. Gates!ReviewRequired => Gates!Known("reviewed", cand)' /\ ~(cfg.free /\ cfg.kin)
          BY <3>1, <4>4, Learned DEF EvidenceOK, Gates!Known
        <4> QED
          BY <1>0, <3>1, <4>3, <4>5, <4>6, <4>7
             DEF Good, Kept, Overtaken, Gates!VerifyRequired, Gates!ReviewRequired
      <3> QED
        BY <1>0, <2>0, <3>1, <3>2, Learned
           DEF EvidenceOK, Gates!VerifyRequired, Gates!ReviewRequired
    <2>3. UNCHANGED bundles \/ Gates!Record
      <3>1. GateStep \/ Outside => UNCHANGED bundles
        BY GateGoes, OutsideGoes DEF CycleType
      <3> QED
        BY <1>3, <3>1, RanGoes, GatedGoes, MergeGoes
           DEF Gates!Next, Gates!Cycle, GateStep, Outside, Gates!vars, Gates!Resume, Gates!Prepare,
               Gates!Worker, Gates!StartGate, Gates!Gate, Gates!Receipt, Gates!Report, Gates!Block,
               Gates!Finish, Gates!Idle, Gates!ReapWorktree, Gates!Crash, Onward
    <2> QED BY <2>1, <2>2, <2>3
  <1> QED BY <1>1, <1>2, <1>3

LEMMA ReceiptStep ==
    ASSUME GitType, RowType, CycleType, CycleOK, PendingOK, [Gates!Next]_(Gates!vars), EvidenceOK,
           ReceiptOK
    PROVE  ReceiptOK'
  <1> USE DEF Gates!gitVars, Gates!cycleVars, Gates!fileVars, Gates!history, Gates!bounds
  <1>1. \A c : Gates!Proven(c) => Gates!Proven(c)'
    BY Learned, MainGrows DEF Gates!Proven, Gates!VerifyRequired, Gates!ReviewRequired
  <1>2. CASE Gates!Receipt
    <2>1. ASSUME NEW b \in bundles, b.ready, b.head = Gates!Last(main) PROVE Gates!Proven(b.head)
      <3>1. main # <<>> /\ Good(b.head)
        BY <1>2, <2>1 DEF Gates!Receipt, ReceiptOK, EvidenceOK
      <3>2. Gates!Landed(b.head)
        BY <2>1, <3>1, LastLands DEF GitType
      <3> QED BY <3>1, <3>2 DEF Good, Kept, Overtaken, Gates!Proven
    <2>2. \A r \in receipts' : Gates!Proven(r.head)
      BY <1>2, <2>1 DEF Gates!Receipt, ReceiptOK
    <2>3. at' # "receipt" /\ (at' = "report" \/ backlog' = "done" => receipts' # {})
      BY <1>2 DEF Gates!Receipt, Gates!Block, Gates!Idle, ReceiptOK
    <2> QED BY <1>1, <2>2, <2>3 DEF ReceiptOK
  <1>3. CASE ~Gates!Receipt
    <2>1. receipts' = receipts
      BY <1>3, GateGoes, WorkerGoes, RanGoes, GatedGoes, MergeGoes, OutsideGoes
         DEF Gates!Next, Gates!Cycle, GateStep, Outside, Gates!vars, Gates!Resume, Gates!Prepare,
             Gates!StartGate, Gates!Record, Gates!Gate, Gates!Report, Gates!Finish,
             Gates!ReapWorktree, Gates!Crash, CycleType
    <2>2. at' = "receipt" => main' # <<>>
      <3>1. CASE at = "receipt"
        BY <3>1, MainGrows DEF ReceiptOK
      <3>2. CASE Gates!Merge
        <4>1. Gates!Landed(branch) => main # <<>>
          BY DEF Gates!Landed, Gates!ToSet
        <4> QED BY <3>2, <4>1, MergeGoes, MainGrows, AppendLands DEF CycleOK, GitType, Gates!Idle
      <3>3. CASE at # "receipt" /\ ~Gates!Merge
        BY <3>3, GateGoes, WorkerGoes, RanGoes, GatedGoes, OutsideGoes
           DEF Gates!Next, Gates!Cycle, GateStep, Outside, Gates!vars, Gates!Resume, Gates!Prepare,
             Gates!StartGate, Gates!Record, Gates!Gate, Gates!Receipt, Gates!Report, Gates!Finish,
             Gates!Block, Gates!Idle, Gates!ReapWorktree, Gates!Crash, CycleType
      <3> QED BY <3>1, <3>2, <3>3
    <2>3. at' = "report" => at = "report"
      BY <1>3, GateGoes, WorkerGoes, RanGoes, GatedGoes, MergeGoes, OutsideGoes
         DEF Gates!Next, Gates!Cycle, GateStep, Outside, Gates!vars, Gates!Resume, Gates!Prepare,
             Gates!StartGate, Gates!Record, Gates!Gate, Gates!Report, Gates!Finish,
             Gates!Block, Gates!Idle, Gates!ReapWorktree, Gates!Crash, CycleType
    <2>4. backlog' = "done" => backlog = "done" \/ at = "report"
      BY <1>3, GateGoes, WorkerGoes, RanGoes, GatedGoes, MergeGoes, OutsideGoes
         DEF Gates!Next, Gates!Cycle, GateStep, Outside, Gates!vars, Gates!Resume, Gates!Prepare,
             Gates!StartGate, Gates!Record, Gates!Gate, Gates!Report, Gates!Finish, Onward,
             Gates!Block, Gates!Idle, Gates!ReapWorktree, Gates!Crash, CycleType
    <2> QED BY <1>1, <2>1, <2>2, <2>3, <2>4 DEF ReceiptOK
  <1> QED BY <1>2, <1>3

LEMMA SavedStep ==
    ASSUME GitType, RowType, CycleType, CycleOK, PendingOK, [Gates!Next]_(Gates!vars), SavedOK
    PROVE  SavedOK'
  <1> USE DEF Gates!gitVars, Gates!cycleVars, Gates!fileVars, Gates!history, Gates!bounds,
              Gates!Waiting
  <1>0. CycleOK' /\ (\A k, c : Gates!Known(k, c) => Gates!Known(k, c)')
    BY CycleStep, Learned
  <1>1. \/ UNCHANGED <<pending, facts>>
        \/ AtWork /\ Gates!Save
        \/ at = "gated" /\ check = "reject" /\ at' = "idle" /\ Gates!Close /\ UNCHANGED facts
        \/ at = "close" /\ at' = "idle" /\ Gates!Close /\ UNCHANGED facts
        \/ /\ at = "idle" /\ Gates!Waiting /\ pending' = [pending EXCEPT !.same = FALSE]
           /\ UNCHANGED <<facts, at>>
        \/ /\ UNCHANGED pending
           /\ \E k, c : k # "saved" /\ facts' = facts \cup {<<k, c>>}
        \/ at \in {"ci", "judge", "review"} /\ at' = "record" /\ Gates!Reject /\ UNCHANGED pending
    <2>1. CASE Gates!Worker \/ Gates!Ran \/ Gates!Merge
      BY <2>1, WorkerGoes, RanGoes, MergeGoes DEF AtWork
    <2>2. CASE Gates!Gated
      BY <2>2, GatedGoes DEF AtWork, Answered
    <2>3. CASE Gates!Throws \/ Gates!NoVerify \/ Gates!NoReview
      BY <2>3 DEF Gates!Throws, Gates!NoVerify, Gates!NoReview, Gates!Gate, Gates!Answer
    <2>4. CASE Gates!VerifyStep
      BY <2>4 DEF Gates!VerifyStep, Gates!StepExits0, Gates!StepFails, Gates!StepBlocked, Gates!Gate,
                  Gates!Answer, Gates!Learn
    <2>5. CASE Gates!Judge
      BY <2>5 DEF Gates!Judge, Gates!Gate, Gates!Answer
    <2>6. CASE Gates!AskReviewer \/ Gates!AskFree
      BY <2>6 DEF Gates!AskReviewer, Gates!AskFree, Gates!Verdict, Gates!Skipped, Gates!Gate,
                  Gates!Answer, Gates!Learn, Gates!Review
    <2>7. CASE Gates!Record
      BY <2>7 DEF Gates!Record, Gates!Gate, Gates!Learn
    <2>8. CASE Outside
      BY <2>8, OutsideGoes
    <2> QED
      BY <2>1, <2>2, <2>3, <2>4, <2>5, <2>6, <2>7, <2>8
         DEF Gates!Next, Gates!Cycle, Outside, Gates!vars, Gates!Resume, Gates!Prepare,
             Gates!StartGate, Gates!Gate, Gates!Receipt, Gates!Report, Gates!Finish,
             Gates!Idle, Gates!ReapWorktree, Gates!Crash
  <1>2. backlog = "done" => backlog' = "done"
    <2> SUFFICES ASSUME backlog = "done" PROVE backlog' = "done"
      OBVIOUS
    <2>1. at \in {"idle", "close"}
      BY DEF CycleOK
    <2>2. ~GateStep /\ ~Gates!Ran /\ ~Gates!Gated /\ ~Gates!Merge
      BY <2>1, GateGoes, RanGoes, GatedGoes, MergeGoes DEF CycleType
    <2>3. Outside => backlog' = backlog
      BY OutsideGoes
    <2> QED
      BY <2>1, <2>2, <2>3
         DEF Gates!Next, Gates!Cycle, GateStep, Outside, Gates!vars, Gates!Resume, Gates!Prepare,
           Gates!Worker, Gates!StartGate, Gates!Record, Gates!Receipt, Gates!Gate, Gates!Report,
           Gates!Finish, Gates!ReapWorktree, Gates!Crash
  <1>3. AtWork' => \/ AtWork /\ branch'.work = branch.work
                   \/ pending' = pending /\ (Gates!Waiting => branch' = pending.head)
    <2>1. CASE at = "idle"
      <3>1. ~GateStep /\ ~Gates!Ran /\ ~Gates!Gated /\ ~Gates!Merge
        BY <2>1, GateGoes, RanGoes, GatedGoes, MergeGoes DEF CycleType
      <3>2. Outside => at' = at
        BY OutsideGoes
      <3> QED
        BY <2>1, <3>1, <3>2
           DEF AtWork, Gates!Next, Gates!Cycle, GateStep, Outside, Gates!vars, Gates!Resume, Gates!Intact,
             Gates!Prepare, Gates!Block, Gates!Idle, Gates!Worker, Gates!StartGate, Gates!Record,
             Gates!Receipt, Gates!Gate, Gates!Report, Gates!Finish, Gates!ReapWorktree, Gates!Crash
    <2>2. CASE at = "worker"
      <3>1. ~GateStep /\ ~Gates!Ran /\ ~Gates!Gated /\ ~Gates!Merge
        BY <2>2, GateGoes, RanGoes, GatedGoes, MergeGoes DEF CycleType
      <3>2. Outside => at' = at
        BY OutsideGoes
      <3>3. ~Gates!Waiting /\ (Gates!Worker => pending' = pending)
        BY <2>2, WorkerGoes DEF SavedOK
      <3> QED
        BY <2>2, <3>1, <3>2, <3>3
           DEF AtWork, Gates!Next, Gates!Cycle, GateStep, Outside, Gates!vars, Gates!Resume,
             Gates!Prepare, Gates!Block, Gates!Idle, Gates!StartGate, Gates!Record,
             Gates!Receipt, Gates!Gate, Gates!Report, Gates!Finish, Gates!ReapWorktree, Gates!Crash
    <2>3. CASE at \notin {"idle", "worker"}
      <3>1. SUFFICES ASSUME AtWork' PROVE AtWork /\ branch'.work = branch.work
        OBVIOUS
      <3>2. branch \in Gates!Commit /\ at' # "idle"
        BY <2>3, <3>1 DEF AtWork, CycleOK
      <3>3. CASE GateStep
        <4>1. AtWork /\ UNCHANGED branch
          BY <3>1, <3>3, GateGoes DEF AtWork, Answered, CycleType, Gates!Reject
        <4> QED BY <4>1
      <3>4. CASE Outside
        <4>1. AtWork
          BY <3>1, <3>4, OutsideGoes DEF AtWork
        <4>2. branch'.work = branch.work
          BY <3>2, <3>4, OutsideGoes DEF Gates!Commit
        <4> QED BY <4>1, <4>2
      <3>5. CASE Gates!Merge
        <4>1. branch'.work = branch.work
          BY <3>2, <3>5, MergeGoes DEF Gates!Commit
        <4> QED BY <3>5, <4>1, MergeGoes DEF AtWork
      <3>6. CASE Gates!Ran \/ Gates!Gated
        BY <3>2, <3>6, RanGoes, GatedGoes DEF AtWork, Answered, Gates!Idle
      <3>7. CASE Gates!StartGate \/ Gates!Record
        BY <3>1, <3>7 DEF AtWork, Answered, Gates!StartGate, Gates!Record, Gates!Gate
      <3> QED
        BY <2>3, <3>1, <3>2, <3>3, <3>4, <3>5, <3>6, <3>7
           DEF AtWork, Gates!Next, Gates!Cycle, GateStep, Outside, Gates!vars, Gates!Resume,
             Gates!Prepare, Gates!Worker, Gates!Block, Gates!Idle,
             Gates!Receipt, Gates!Report, Gates!Finish, Gates!ReapWorktree, Gates!Crash
    <2> QED BY <2>1, <2>2, <2>3
  <1>4. at' \in {"record", "gated"} /\ check' = "reject" =>
          \/ at \in {"record", "gated"} /\ check = "reject"
          \/ at \in {"ci", "judge", "review"} /\ Gates!Reject /\ UNCHANGED pending
    <2>1. CASE GateStep
      BY <2>1, GateGoes DEF CycleType, CycleOK
    <2>2. CASE Outside
      BY <2>2, OutsideGoes
    <2> QED
      BY <2>1, <2>2, WorkerGoes, RanGoes, GatedGoes, MergeGoes
         DEF Gates!Next, Gates!Cycle, GateStep, Outside, Gates!vars, Gates!Resume, Gates!Prepare,
           Gates!StartGate, Gates!Record, Gates!Gate, Gates!Receipt, Gates!Report, Gates!Finish,
           Gates!Block, Gates!Idle, Gates!ReapWorktree, Gates!Crash
  <1>5. at' = "worker" => UNCHANGED pending /\ ~Gates!Waiting
    <2>1. CASE Outside
      BY <2>1, OutsideGoes DEF SavedOK
    <2>2. ~GateStep \/ at' # "worker"
      BY GateGoes DEF CycleType
    <2> QED
      BY <2>1, <2>2, WorkerGoes, RanGoes, GatedGoes, MergeGoes
         DEF SavedOK, Gates!Next, Gates!Cycle, GateStep, Outside, Gates!vars, Gates!Resume,
           Gates!Prepare, Gates!StartGate, Gates!Record, Gates!Gate, Gates!Receipt, Gates!Report,
           Gates!Finish, Gates!Block, Gates!Idle, Gates!ReapWorktree, Gates!Crash
  <1>9. /\ AtWork /\ Gates!Save => pending'.phase = "review" /\ pending'.head = branch /\ pending' # None
        /\ Gates!Close => ~Gates!Waiting'
        /\ Gates!Waiting /\ pending' = [pending EXCEPT !.same = FALSE] =>
             Gates!Waiting' /\ pending'.head = pending.head
    <2>1. pending = None \/ pending \in Gates!Candidate
      BY DEF GitType
    <2>2. None \notin Gates!Candidate
      BY GatesAssumption DEF Gates!VerificationAssumption
    <2>3. AtWork => branch \in Gates!Commit
      BY DEF AtWork, CycleOK
    <2>4. branch \in Gates!Commit /\ Gates!Save => pending' \in Gates!Candidate
      BY SaveType
    <2>5. AtWork /\ Gates!Save => pending'.phase = "review" /\ pending'.head = branch /\ pending' # None
      <3>1. Gates!Save => pending'.phase = "review" /\ pending'.head = branch
        BY DEF Gates!Save
      <3> QED BY <2>2, <2>3, <2>4, <3>1
    <2>6. Gates!Close => ~Gates!Waiting'
      BY <2>1, <2>2 DEF Gates!Close, Gates!Candidate
    <2>7. Gates!Waiting /\ pending' = [pending EXCEPT !.same = FALSE] =>
             Gates!Waiting' /\ pending'.head = pending.head
      <3>1. CASE pending \in Gates!Candidate /\ pending' = [pending EXCEPT !.same = FALSE]
        <4>1. pending' \in Gates!Candidate /\ pending'.phase = pending.phase /\ pending'.head = pending.head
          BY <3>1 DEF Gates!Candidate
        <4> QED BY <2>2, <4>1
      <3> QED BY <2>1, <3>1
    <2> QED BY <2>5, <2>6, <2>7
  <1>6. ASSUME NEW f \in facts', f[1] = "saved"
        PROVE  \/ Gates!Known("rejected", f[2])' \/ backlog' = "done"
               \/ Gates!Waiting' /\ pending'.head.work = f[2]
    <2>1. CASE f \in facts
      <3>1. \/ Gates!Known("rejected", f[2]) \/ backlog = "done"
            \/ Gates!Waiting /\ pending.head.work = f[2]
        BY <1>6, <2>1 DEF SavedOK
      <3>2. CASE ~Gates!Known("rejected", f[2]) /\ backlog # "done"
        <4>1. Gates!Waiting /\ pending.head.work = f[2]
          BY <3>1, <3>2
        <4>2. at # "close"
          BY <3>2 DEF CycleOK
        <4>3. AtWork /\ Gates!Save => Gates!Waiting' /\ pending'.head.work = f[2]
          BY <1>9, <4>1 DEF SavedOK
        <4>4. at = "gated" /\ check = "reject" => Gates!Known("rejected", f[2])
          BY <4>1 DEF SavedOK
        <4> QED BY <1>1, <1>9, <3>2, <4>1, <4>2, <4>3, <4>4
      <3> QED BY <1>0, <1>2, <3>1, <3>2
    <2>2. CASE f \notin facts
      <3>1. AtWork /\ Gates!Save /\ f = <<"saved", branch.work>>
        BY <1>1, <1>6, <2>2 DEF Gates!Save, Gates!Learn, Gates!Reject
      <3> QED BY <1>9, <3>1
    <2> QED BY <2>1, <2>2
  <1>7. Gates!Waiting' /\ AtWork' => pending'.head.work = branch'.work
    <2> SUFFICES ASSUME Gates!Waiting', AtWork' PROVE pending'.head.work = branch'.work
      OBVIOUS
    <2>1. CASE AtWork /\ branch'.work = branch.work
      <3>1. at' # "idle"
        BY DEF AtWork
      <3>2. Gates!Waiting => pending.head.work = branch.work
        BY <2>1 DEF SavedOK
      <3> QED BY <1>1, <1>9, <2>1, <3>1, <3>2 DEF AtWork
    <2> QED BY <1>3, <2>1
  <1>8. Gates!Waiting' /\ at' \in {"record", "gated"} /\ check' = "reject" =>
          Gates!Known("rejected", pending.head.work)'
    <2> SUFFICES ASSUME Gates!Waiting', at' \in {"record", "gated"}, check' = "reject"
                 PROVE  Gates!Known("rejected", pending.head.work)'
      OBVIOUS
    <2>1. CASE at \in {"record", "gated"} /\ check = "reject"
      <3>1. UNCHANGED pending
        BY <1>1, <2>1 DEF AtWork, Answered
      <3>2. Gates!Known("rejected", pending.head.work)
        BY <2>1, <3>1 DEF SavedOK
      <3> QED BY <3>1, <3>2, Learned DEF Gates!Known
    <2>2. CASE at \in {"ci", "judge", "review"} /\ Gates!Reject /\ UNCHANGED pending
      BY <2>2 DEF SavedOK, AtWork, Gates!Reject, Gates!Learn, Gates!Known
    <2> QED BY <1>4, <2>1, <2>2
  <1> QED BY <1>5, <1>6, <1>7, <1>8 DEF SavedOK


GateInv ==
    /\ GitType /\ RowType /\ CycleType /\ CycleOK /\ PendingOK
    /\ EvidenceOK /\ ReceiptOK /\ SavedOK

LEMMA GateInit == Gates!Init => GateInv
  <1> USE DEF Gates!Init
  <1>1. Gates!Init => GitType
    BY GatesAssumption DEF GitType, Gates!VerificationAssumption
  <1>4. Gates!Init => RowType
    BY DEF RowType
  <1>5. Gates!Init => CycleType
    <2> SUFFICES ASSUME Gates!Init PROVE CycleType
      OBVIOUS
    <2>1. at \in Stops /\ check \in Answers
      BY DEF Stops, Answers
    <2>2. ev \in Evidence
      BY DEF Evidence, Gates!NoEvidence
    <2>3. cand \in Gates!Commit \cup {None} /\ done \in Nat
      OBVIOUS
    <2>4. again \in BOOLEAN
      OBVIOUS
    <2> QED BY <2>1, <2>2, <2>3, <2>4 DEF CycleType
  <1>2. Gates!Init => CycleOK /\ PendingOK /\ SavedOK
    BY DEF CycleOK, PendingOK, SavedOK, AtWork, Gates!Waiting
  <1>3. Gates!Init => EvidenceOK /\ ReceiptOK
    BY DEF EvidenceOK, ReceiptOK, Gates!NoEvidence
  <1> QED BY <1>1, <1>2, <1>3, <1>4, <1>5 DEF GateInv

LEMMA GateSteps == GateInv /\ [Gates!Next]_(Gates!vars) => GateInv'
  BY GitTypeStep, CycleTypeStep, CycleStep, PendingStep, EvidenceStep, ReceiptStep, SavedStep
     DEF GateInv

\* A new worker starts on the task only with nothing saved that waits for its verdict.
LEMMA GateReplaces ==
    ASSUME GateInv, [Gates!Next]_(Gates!vars), at # "worker", at' = "worker"
    PROVE  \A f \in facts : f[1] = "saved" => Gates!Known("rejected", f[2])
  <1>1. ~GateStep /\ ~Outside /\ ~UNCHANGED Gates!vars
    BY GateGoes, OutsideGoes DEF GateInv, CycleType, Gates!vars
  <1>2. ~Gates!Worker /\ ~Gates!Ran /\ ~Gates!Gated /\ ~Gates!Merge
    BY RanGoes, GatedGoes, MergeGoes DEF Gates!Idle, Gates!Worker
  <1>3. Gates!Prepare
    BY <1>1, <1>2
       DEF Gates!Next, Gates!Cycle, GateStep, Outside, Gates!Resume, Gates!Block,
           Gates!StartGate, Gates!Record, Gates!Gate, Gates!Receipt, Gates!Report, Gates!Finish,
           Gates!Idle, Gates!ReapWorktree, Gates!Crash
  <1> QED BY <1>3 DEF GateInv, SavedOK, Gates!Prepare

LEMMA GatesDrive ==
    /\ DrivesInit => GateInv
    /\ GateInv /\ [DrivesNext]_allVars => GateInv' /\ [Gates!Next]_(Gates!vars)
  <1>1. DrivesInit => GateInv
    BY GateInit DEF DrivesInit
  <1>2. [DrivesNext]_allVars => [Gates!Next]_(Gates!vars)
    BY DEF DrivesNext, allVars, gatesVars, Gates!vars, Gates!gitVars, Gates!cycleVars,
           Gates!fileVars, Gates!history, Gates!bounds, Gates!modelVars
  <1> QED BY <1>1, <1>2, GateSteps

\* A commit with a merge receipt is in main, was verified step for step and reviewed as the
\* configuration asks, with its release approved; and a done row has such a receipt.
THEOREM DoneProven == DrivesSpec => []DoneIsProven
  <1>1. GateInv => DoneIsProven
    BY DEF GateInv, ReceiptOK, DoneIsProven, Gates!DoneIsProven
  <1> QED BY <1>1, GatesDrive, PTL DEF DrivesSpec

\* In the free-only tier, and elsewhere, no worker starts over while a saved candidate has
\* not been rejected.
THEOREM SavedAreJudged == DrivesSpec => SavedIsJudged
  <1>1. GateInv /\ [DrivesNext]_allVars =>
          [at # "worker" /\ at' = "worker" =>
             \A f \in facts : f[1] = "saved" => Gates!Known("rejected", f[2])]_(Gates!vars)
    BY GateReplaces, GatesDrive
  <1> QED BY <1>1, GatesDrive, PTL DEF DrivesSpec, SavedIsJudged, Gates!SavedIsJudged

=============================================================================
