-------------------------- MODULE ExecutionProofs --------------------------
(* Invariance proofs for Execution, for any hosts, tasks and bounds, and for *)
(* the backlog that MCStores puts beside it.                                 *)
EXTENDS MCStores, TLAPS

(***************************************************************************)
(* An execution is early until its observation is finished: its receipt is *)
(* active and open.  What the host knows then decides: without a reason to *)
(* recover the worker is gone, and by itself when an exit was seen, so a   *)
(* terminal receipt has no worker.  Hence a worker always has an open      *)
(* receipt, which no sweep moves and every admission sees.                 *)
(***************************************************************************)
Early == Observing \cup {"retrying"}

\* An execution with a worker, or with one still to come.
Live(e) == child[e] = "alive" \/ \E h \in Hosts : run[h] = e /\ step[h] \in Early

Open(r) == r # None /\ r.phase # "terminal"

HostSound(h) ==
    LET e == run[h] IN
    /\ step[h] = "idle" <=> e = None
    /\ step[h] # "idle" => task[e] # None
    /\ step[h] = "admitted" => child[e] = "none" /\ stopped[e] = "no" /\ mem[e].exit = "none"
    /\ step[h] \in {"validating", "retrying", "leaving"} /\ ~RecoveryRequired(e) =>
         child[e] # "alive" /\ (mem[e].exit = "exit" => stopped[e] = "no")
    /\ step[h] \in Observing => e \in held
    /\ step[h] \in Early => Open(active[e]) /\ Open(mem[e]) /\ history[e] = None
    /\ step[h] = "archiving" =>
         /\ lock = h /\ active[e] = mem[e] /\ Archiveable(mem[e])
         /\ e \notin request /\ child[e] # "alive" /\ stopped[e] = "no" /\ history[e] = None

RunSound(e) ==
    /\ task[e] = None => /\ mem[e] = Blank /\ child[e] = "none" /\ stopped[e] = "no"
                         /\ active[e] = None /\ history[e] = None
    /\ child[e] = "alive" => Open(active[e]) /\ e \in held
    /\ active[e] # None /\ active[e].phase = "terminal" /\ active[e].exit = "exit" =>
         stopped[e] = "no"
    /\ history[e] # None =>
         child[e] # "alive" /\ stopped[e] = "no" /\ e \notin request /\ active[e] = None

OneFollower == \A h, g \in Hosts : run[h] = run[g] /\ run[h] # None => h = g
LiveApart == \A e, f \in Runs : e # f /\ Live(e) /\ Live(f) => task[e] # task[f]

IInv ==
    /\ TypeOK
    /\ \A h \in Hosts : HostSound(h)
    /\ \A e \in Runs : RunSound(e)
    /\ OneFollower /\ LiveApart

-----------------------------------------------------------------------------
(* What the operators on receipts return *)

LEMMA NoneIsNoReceipt == None \notin Receipt /\ None \notin Runs /\ None # "dead" /\ None \notin Hosts
BY ExecutionAssumption

LEMMA BlankTyped == Blank \in Receipt
BY DEF Blank, Receipt

LEMMA ReceiptTyped ==
  ASSUME NEW m \in Receipt
  PROVE  /\ m.phase \in {"running", "validating", "unknown", "terminal"}
         /\ m.exit \in {"none", "exit", "wall", "idle", "cancelled"}
         /\ m.outcome \in {"none", "completed", "failed", "unconfirmed"}
         /\ m.cancel \in BOOLEAN /\ m.degraded \in BOOLEAN
BY DEF Receipt

\* Whatever becomes of a write, the memory has the state, perhaps marked as degraded, and
\* the receipt is the old one or the state.
LEMMA PersistKeeps ==
  ASSUME TypeOK, NEW e \in Runs, NEW m \in Receipt, Persist(e, m)
  PROVE  /\ \E n \in {m, [m EXCEPT !.degraded = TRUE]} :
              n \in Receipt /\ mem' = [mem EXCEPT ![e] = n]
         /\ active' = active \/ (lock = None /\ active' = [active EXCEPT ![e] = m])
         /\ faults' \in 0 .. MaxFaults
         /\ mem' \in [Runs -> Receipt] /\ active' \in [Runs -> Receipt \cup {None}]
<1>1. [m EXCEPT !.degraded = TRUE] \in Receipt
  BY DEF Receipt
<1>2. faults' \in 0 .. MaxFaults
  <2>1. UNCHANGED faults \/ (faults < MaxFaults /\ faults' = faults + 1)
    BY DEF Persist
  <2>2. faults \in 0 .. MaxFaults /\ MaxFaults \in Nat
    BY ExecutionAssumption DEF TypeOK
  <2> QED
    BY <2>1, <2>2
<1>3. \E n \in {m, [m EXCEPT !.degraded = TRUE]} :
        n \in Receipt /\ mem' = [mem EXCEPT ![e] = n]
  BY <1>1 DEF Persist
<1>4. active' = active \/ (lock = None /\ active' = [active EXCEPT ![e] = m])
  BY DEF Persist
<1>5. mem \in [Runs -> Receipt] /\ active \in [Runs -> Receipt \cup {None}]
  BY DEF TypeOK
<1>6. mem' \in [Runs -> Receipt]
  BY <1>3, <1>5
<1>7. active' \in [Runs -> Receipt \cup {None}]
  BY <1>4, <1>5
<1> QED
  BY <1>2, <1>3, <1>4, <1>6, <1>7

LEMMA FinishedTyped ==
  ASSUME TypeOK, NEW e \in Runs, NEW o \in {"completed", "failed", "unconfirmed"}
  PROVE  /\ Finished(e, o) \in Receipt
         /\ Finished(e, o).exit = mem[e].exit
         /\ Finished(e, o).phase = "terminal" => ~RecoveryRequired(e)
<1> DEFINE c == mem[e].cancel \/ e \in abort
           sure == o # "unconfirmed" /\ ~RecoveryRequired(e)
           u == IF sure THEN o ELSE "unconfirmed"
           p == IF sure THEN "terminal" ELSE "unknown"
<1>1. mem[e] \in Receipt /\ c \in BOOLEAN
  BY DEF TypeOK
<1>2. u \in {"completed", "failed", "unconfirmed"} /\ p \in {"terminal", "unknown"}
  OBVIOUS
<1>3. p = "terminal" => ~RecoveryRequired(e)
  OBVIOUS
<1>4. Finished(e, o) = [mem[e] EXCEPT !.cancel = c, !.outcome = u, !.phase = p]
  BY DEF Finished
<1> HIDE DEF c, u, p
<1>5. /\ Finished(e, o) \in Receipt /\ Finished(e, o).exit = mem[e].exit
      /\ Finished(e, o).phase = p
  BY <1>1, <1>2, <1>4 DEF Receipt
<1> QED
  BY <1>3, <1>5

LEMMA UnconfirmedTyped ==
  ASSUME NEW m \in Receipt
  PROVE  /\ Unconfirmed(m) \in Receipt /\ Unconfirmed(m).phase = "unknown"
         /\ Unconfirmed(m).exit = m.exit
         /\ [Unconfirmed(m) EXCEPT !.degraded = TRUE] \in Receipt
         /\ [Unconfirmed(m) EXCEPT !.degraded = TRUE].phase = "unknown"
         /\ [Unconfirmed(m) EXCEPT !.cancel = TRUE] \in Receipt
         /\ [Unconfirmed(m) EXCEPT !.cancel = TRUE].phase = "unknown"
BY DEF Unconfirmed, Receipt

LEMMA SweptTyped ==
  TypeOK => /\ SweptActive \in [Runs -> Receipt \cup {None}]
            /\ SweptHistory \in [Runs -> Receipt \cup {None}]
BY DEF TypeOK, SweptActive, SweptHistory

-----------------------------------------------------------------------------
(* Types *)

Outcomes == {"completed", "failed", "unconfirmed"}

\* A host that is not idle follows an execution.
LEMMA Followed ==
  ASSUME IInv, NEW h \in Hosts, step[h] # "idle"
  PROVE  run[h] \in Runs
BY DEF IInv, HostSound, TypeOK

LEMMA InitCorrect == Init => IInv
<1> SUFFICES ASSUME Init PROVE IInv
  OBVIOUS
<1>1. TypeOK
  BY BlankTyped, ExecutionAssumption DEF Init, TypeOK, Observing
<1>2. \A h \in Hosts : HostSound(h)
  BY DEF Init, HostSound, Early, Observing
<1>3. \A e \in Runs : RunSound(e)
  BY DEF Init, RunSound
<1>4. OneFollower /\ LiveApart
  BY DEF Init, OneFollower, LiveApart, Live, Early, Observing
<1> QED
  BY <1>1, <1>2, <1>3, <1>4 DEF IInv

\* A step of the observation: it changes its host's step, and its execution's record.
LEMMA PersistTypeStep ==
  ASSUME IInv, NEW h \in Hosts,
         \/ Spawn(h) \/ Cancelled(h) \/ Reaped(h) \/ Sample(h)
  PROVE  TypeOK'
<1> DEFINE e == run[h]
<1>0. TypeOK /\ step[h] # "idle" /\ e \in Runs /\ mem[e] \in Receipt
  BY Followed DEF IInv, TypeOK, Spawn, Cancelled, Reaped, Sample, Observing
<1>1. CASE Spawn(h)
  <2>1. [mem[e] EXCEPT !.phase = "running"] \in Receipt
    BY <1>0 DEF Receipt
  <2> QED
    BY <1>0, <1>1, <2>1, PersistKeeps DEF Spawn, TypeOK, Go, Observing
<1>2. CASE Cancelled(h)
  <2>1. [mem[e] EXCEPT !.cancel = TRUE, !.phase = "unknown"] \in Receipt
    BY <1>0 DEF Receipt
  <2> QED
    BY <1>0, <1>2, <2>1, PersistKeeps DEF Cancelled, TypeOK
<1>3. CASE Reaped(h)
  <2>1. [mem[e] EXCEPT !.exit = stopped[e], !.phase = "unknown"] \in Receipt
    BY <1>0, <1>3 DEF Receipt, Reaped, TypeOK
  <2> QED
    BY <1>0, <1>3, <2>1, PersistKeeps DEF Reaped, TypeOK, Go, Observing
<1>4. CASE Sample(h)
  <2> DEFINE m == IF e \in request THEN [mem[e] EXCEPT !.cancel = TRUE, !.phase = "unknown"] ELSE mem[e]
  <2>1. m \in Receipt
    BY <1>0 DEF Receipt
  <2>2. Persist(e, m)
    BY <1>4 DEF Sample
  <2> HIDE DEF m
  <2> QED
    BY <1>0, <1>4, <2>1, <2>2, PersistKeeps DEF Sample, TypeOK
<1> QED
  BY <1>1, <1>2, <1>3, <1>4

LEMMA CloseTypeStep ==
  ASSUME IInv, NEW e \in Runs, Closes(e)
  PROVE  TypeOK'
<1>0. TypeOK /\ mem[e] \in Receipt
  BY DEF IInv, TypeOK
<1>1. child' = [child EXCEPT ![e] = "closed"]
  BY DEF Closes
<1>2. CASE UNCHANGED <<step, mem, active, faults>>
  BY <1>0, <1>1, <1>2 DEF Closes, TypeOK
<1>3. ASSUME NEW h \in Hosts, Go(h, "validating"),
             Persist(e, [mem[e] EXCEPT !.exit = "exit", !.phase = "validating"])
      PROVE  TypeOK'
  <2>1. [mem[e] EXCEPT !.exit = "exit", !.phase = "validating"] \in Receipt
    BY <1>0 DEF Receipt
  <2> QED
    BY <1>0, <1>1, <1>3, <2>1, PersistKeeps DEF Closes, TypeOK, Go, Observing
<1> QED
  BY <1>2, <1>3 DEF Closes

LEMMA FinishTypeStep ==
  ASSUME IInv, NEW h \in Hosts, NEW o \in Outcomes, Finish(h, o)
  PROVE  TypeOK'
<1> DEFINE e == run[h]
           m == Finished(e, o)
           lost == [Unconfirmed(m) EXCEPT !.degraded = TRUE]
           cancelled == [Unconfirmed(m) EXCEPT !.cancel = TRUE]
<1>0. TypeOK /\ e \in Runs /\ o \in {"completed", "failed", "unconfirmed"}
  BY Followed DEF IInv, Finish, Outcomes
<1>1. m \in Receipt /\ lost \in Receipt /\ cancelled \in Receipt
  <2>1. m \in Receipt
    BY <1>0, FinishedTyped
  <2> QED
    BY <2>1, UnconfirmedTyped
<1>2. /\ \E n \in {m, lost, cancelled} : mem' = [mem EXCEPT ![e] = n]
      /\ active' = active \/ \E n \in {m, cancelled} : active' = [active EXCEPT ![e] = n]
      /\ lock' \in {lock, h, None} /\ step' \in {[step EXCEPT ![h] = "leaving"], [step EXCEPT ![h] = "archiving"]}
      /\ UNCHANGED faults \/ (faults < MaxFaults /\ faults' = faults + 1)
      /\ UNCHANGED <<history, request, run, task, process, held>>
  BY DEF Finish, Go
<1> HIDE DEF m, lost, cancelled
<1>3. faults' \in 0 .. MaxFaults
  BY <1>0, <1>2, ExecutionAssumption DEF TypeOK
<1>4. mem' \in [Runs -> Receipt]
  BY <1>0, <1>1, <1>2 DEF TypeOK
<1>5. active' \in [Runs -> Receipt \cup {None}]
  BY <1>0, <1>1, <1>2 DEF TypeOK
<1> QED
  BY <1>0, <1>2, <1>3, <1>4, <1>5 DEF TypeOK, process

LEMMA ArchiveTypeStep ==
  ASSUME IInv, NEW h \in Hosts, NEW moves \in BOOLEAN, Archive(h, moves)
  PROVE  TypeOK'
<1> DEFINE e == run[h]
           kept == [Unconfirmed(mem[e]) EXCEPT !.degraded = TRUE]
<1>0. TypeOK /\ e \in Runs /\ mem[e] \in Receipt
  BY Followed DEF IInv, Archive, TypeOK
<1>1. kept \in Receipt
  BY <1>0, UnconfirmedTyped
<1>2. /\ lock' = None /\ step' = [step EXCEPT ![h] = "leaving"]
      /\ UNCHANGED <<request, run, task, process, held>>
  BY DEF Archive, Go
<1>3. CASE /\ active' = [active EXCEPT ![e] = None] /\ history' = [history EXCEPT ![e] = mem[e]]
           /\ UNCHANGED <<mem, faults>>
  BY <1>0, <1>2, <1>3 DEF TypeOK, process
<1>4. CASE /\ faults < MaxFaults /\ faults' = faults + 1
           /\ active' = [active EXCEPT ![e] = kept] /\ mem' = [mem EXCEPT ![e] = kept]
           /\ UNCHANGED history
  <2> HIDE DEF kept
  <2>1. faults' \in 0 .. MaxFaults
    BY <1>0, <1>4, ExecutionAssumption DEF TypeOK
  <2> QED
    BY <1>0, <1>1, <1>2, <1>4, <2>1 DEF TypeOK, process
<1> QED
  BY <1>3, <1>4 DEF Archive

LEMMA AdmitTypeStep ==
  ASSUME IInv, NEW h \in Hosts, NEW e \in Runs, NEW t \in Tasks, Admit(h, e, t)
  PROVE  TypeOK'
<1>0. TypeOK
  BY DEF IInv
<1>1. active' \in [Runs -> Receipt \cup {None}] /\ history' \in [Runs -> Receipt \cup {None}]
  BY <1>0, SweptTyped, BlankTyped DEF Admit
<1> QED
  BY <1>0, <1>1 DEF Admit, TypeOK, Go, process, Observing

\* Every step keeps the types.
LEMMA TypeStep ==
  ASSUME IInv, [Next]_vars
  PROVE  TypeOK'
<1>0. TypeOK /\ MaxFaults \in Nat /\ None \notin Hosts
  BY ExecutionAssumption DEF IInv
<1>1. CASE Sweep
  BY <1>0, <1>1, SweptTyped DEF Sweep, TypeOK, process
<1>2. CASE Unlock
  BY <1>0, <1>2 DEF Unlock, TypeOK, process
<1>3. ASSUME NEW e \in Runs, RequestCancel(e) \/ Resolve(e)
      PROVE  TypeOK'
  BY <1>0, <1>3 DEF RequestCancel, Resolve, TypeOK, process
<1>4. ASSUME NEW h \in Hosts, \/ NotSpawned(h) \/ Throws(h) \/ ParentAborts(h)
                              \/ RetryInfrastructure(h) \/ Leave(h) \/ Dies(h)
      PROVE  TypeOK'
  <2>1. step[h] # "idle"
    BY <1>4 DEF NotSpawned, Throws, ParentAborts, RetryInfrastructure, Leave, Dies, Observing
  <2>2. run[h] \in Runs
    BY <2>1, Followed
  <2>3. CASE NotSpawned(h) \/ Throws(h)
    BY <1>0, <2>3 DEF NotSpawned, Throws, TypeOK, inventory, process, Go, Observing
  <2>4. CASE ParentAborts(h) \/ RetryInfrastructure(h)
    BY <1>0, <2>2, <2>4 DEF ParentAborts, RetryInfrastructure, TypeOK, inventory, process, Go
  <2>5. CASE Leave(h) \/ Dies(h)
    BY <1>0, <2>5 DEF Leave, Dies, TypeOK, inventory, process, Go
  <2> QED
    BY <1>4, <2>3, <2>4, <2>5
<1>5. ASSUME NEW h \in Hosts, NEW why \in {"wall", "idle"}, TimeLimit(h, why)
      PROVE  TypeOK'
  BY <1>0, <1>5 DEF TimeLimit, TypeOK, inventory
<1>6. CASE UNCHANGED vars
  BY <1>0, <1>6 DEF vars, TypeOK, inventory, process
<1> QED
  BY <1>1, <1>2, <1>3, <1>4, <1>5, <1>6, PersistTypeStep, CloseTypeStep, FinishTypeStep,
     ArchiveTypeStep, AdmitTypeStep DEF Next, Outcomes

-----------------------------------------------------------------------------
(* Steps of one host, on the execution it follows *)

\* What a step of h leaves alone: the other hosts, the other executions and the section
\* of another host.
Local(h, e) ==
    /\ run[h] = e /\ step[h] # "idle" /\ UNCHANGED <<task, request>>
    /\ run' = run \/ run' = [run EXCEPT ![h] = None]
    /\ \A g \in Hosts \ {h} : step'[g] = step[g] /\ (lock = g => lock' = g)
    /\ \A f \in Runs \ {e} :
         /\ active'[f] = active[f] /\ history'[f] = history[f] /\ mem'[f] = mem[f]
         /\ stopped'[f] = stopped[f] /\ child'[f] = child[f] /\ (f \in abort' <=> f \in abort)
         /\ (f \in held => f \in held')
    /\ step[h] \in Early \/ (step'[h] \notin Early /\ child'[e] = child[e])

LEMMA LocalStep ==
  ASSUME IInv, TypeOK', NEW h \in Hosts, NEW e \in Runs, Local(h, e),
         HostSound(h)', RunSound(e)'
  PROVE  IInv'
<1>0. TypeOK /\ run[h] = e /\ OneFollower /\ LiveApart /\ None \notin Runs
  BY ExecutionAssumption DEF IInv, Local
<1>1. ASSUME NEW g \in Hosts PROVE HostSound(g)'
  <2>1. CASE g = h
    BY <2>1
  <2>2. CASE g # h
    <3>1. step'[g] = step[g] /\ run'[g] = run[g] /\ task' = task /\ request' = request
      BY <1>0, <2>2 DEF Local, TypeOK
    <3>2. HostSound(g)
      BY DEF IInv
    <3>3. CASE step[g] = "idle"
      BY <3>1, <3>2, <3>3 DEF HostSound, Early, Observing
    <3>4. CASE step[g] # "idle"
      <4>1. run[g] \in Runs \ {e}
        BY <1>0, <2>2, <3>4, Followed DEF OneFollower
      <4>2. /\ active'[run[g]] = active[run[g]] /\ history'[run[g]] = history[run[g]]
            /\ mem'[run[g]] = mem[run[g]] /\ stopped'[run[g]] = stopped[run[g]]
            /\ child'[run[g]] = child[run[g]] /\ (run[g] \in abort' <=> run[g] \in abort)
            /\ (lock = g => lock' = g) /\ (run[g] \in held => run[g] \in held')
        BY <2>2, <4>1 DEF Local
      <4> QED
        BY <3>1, <3>2, <3>4, <4>1, <4>2 DEF HostSound, RecoveryRequired, Open
    <3> QED
      BY <3>3, <3>4
  <2> QED
    BY <2>1, <2>2
<1>2. ASSUME NEW f \in Runs PROVE RunSound(f)'
  <2>1. CASE f = e
    BY <2>1
  <2>2. CASE f # e
    <3>1. /\ active'[f] = active[f] /\ history'[f] = history[f] /\ mem'[f] = mem[f]
          /\ stopped'[f] = stopped[f] /\ child'[f] = child[f] /\ (f \in held => f \in held')
          /\ task' = task /\ request' = request
      BY <2>2 DEF Local
    <3>2. RunSound(f)
      BY DEF IInv
    <3> QED
      BY <3>1, <3>2 DEF RunSound, Open
  <2> QED
    BY <2>1, <2>2
<1>3. OneFollower'
  BY <1>0 DEF OneFollower, Local, TypeOK
<1>4. ASSUME NEW f \in Runs, Live(f)' PROVE Live(f)
  <2>1. CASE f = e
    <3>1. CASE step[h] \in Early
      BY <1>0, <2>1, <3>1 DEF Live
    <3>2. CASE step[h] \notin Early
      <4>1. step'[h] \notin Early /\ child'[e] = child[e]
        BY <3>2 DEF Local
      <4>2. ~ \E g \in Hosts : run'[g] = e /\ step'[g] \in Early
        BY <1>0, <4>1 DEF Local, OneFollower, TypeOK
      <4> QED
        BY <1>4, <2>1, <4>1, <4>2 DEF Live
    <3> QED
      BY <3>1, <3>2
  <2>2. CASE f # e
    <3>1. child'[f] = child[f]
      BY <2>2 DEF Local
    <3>2. ASSUME NEW g \in Hosts, run'[g] = f, step'[g] \in Early
          PROVE  run[g] = f /\ step[g] \in Early
      BY <1>0, <2>2, <3>2 DEF Local, TypeOK
    <3> QED
      BY <1>4, <3>1, <3>2 DEF Live
  <2> QED
    BY <2>1, <2>2
<1>5. LiveApart'
  <2>1. task' = task
    BY DEF Local
  <2> QED
    BY <1>0, <1>4, <2>1 DEF LiveApart
<1> QED
  BY <1>1, <1>2, <1>3, <1>5 DEF IInv

\* What a host knows of the execution it follows.
LEMMA FollowerSound ==
  ASSUME IInv, NEW h \in Hosts, step[h] # "idle"
  PROVE  /\ TypeOK /\ run[h] \in Runs /\ HostSound(h) /\ RunSound(run[h]) /\ task[run[h]] # None
         /\ mem[run[h]] \in Receipt /\ run[h] # None
<1>1. run[h] \in Runs
  BY Followed
<1> QED
  BY <1>1, NoneIsNoReceipt DEF IInv, HostSound, TypeOK

\* A step that saves the state m of the observation and leaves its receipt open.
LEMMA PersistStep ==
  ASSUME IInv, TypeOK', NEW h \in Hosts, NEW e \in Runs, run[h] = e, step[h] \in Observing,
         NEW m \in Receipt, m.phase # "terminal", Persist(e, m),
         NEW s \in Observing, NEW p, NEW c,
         step' = [step EXCEPT ![h] = s],
         stopped' = [stopped EXCEPT ![e] = p], child' = [child EXCEPT ![e] = c],
         abort' = abort \/ abort' = abort \cup {e},
         UNCHANGED <<lock, history, request, run, task, held>>,
         s = "admitted" => c = "none" /\ p = "no" /\ m.exit = "none",
         s = "validating" => \/ m.degraded \/ m.cancel \/ m.exit \notin {"none", "exit"} \/ e \in abort'
                             \/ c # "alive" /\ (m.exit = "exit" => p = "no")
  PROVE  IInv'
<1>0. /\ TypeOK /\ HostSound(h) /\ RunSound(e) /\ task[e] # None /\ step[h] # "idle"
      /\ mem[e] \in Receipt /\ e # None /\ s # "idle"
  BY FollowerSound DEF Observing
<1>1. PICK n \in {m, [m EXCEPT !.degraded = TRUE]} :
        n \in Receipt /\ mem' = [mem EXCEPT ![e] = n]
  BY <1>0, PersistKeeps
<1>2. n.phase # "terminal" /\ n.exit = m.exit /\ n.cancel = m.cancel /\ (m.degraded => n.degraded)
  BY DEF Receipt
<1>3. active' = active \/ active' = [active EXCEPT ![e] = m]
  BY <1>0, PersistKeeps
<1>4. mem'[e] = n /\ (active'[e] = active[e] \/ active'[e] = m)
  BY <1>0, <1>1, <1>3 DEF TypeOK
<1>5. step'[h] = s /\ stopped'[e] = p /\ child'[e] = c /\ run'[h] = e
  BY <1>0 DEF TypeOK
<1>6. Local(h, e)
  <2>1. \A f \in Runs \ {e} : active'[f] = active[f] /\ mem'[f] = mem[f]
    BY <1>0, <1>1, <1>3 DEF TypeOK
  <2>2. step[h] \in Early
    BY DEF Early
  <2> QED
    BY <1>0, <2>1, <2>2 DEF Local, TypeOK
<1>7. Open(active[e]) /\ history[e] = None /\ e \in held
  BY <1>0 DEF HostSound, Early
<1>8. Open(active'[e]) /\ Open(mem'[e])
  BY <1>1, <1>2, <1>4, <1>7, NoneIsNoReceipt DEF Open
<1>9. HostSound(h)'
  <2>1. s # "retrying" /\ s # "archiving" /\ s # "leaving"
    BY DEF Observing
  <2>2. s = "validating" /\ ~RecoveryRequired(e)' =>
          child'[e] # "alive" /\ (mem'[e].exit = "exit" => stopped'[e] = "no")
    BY <1>2, <1>4, <1>5 DEF RecoveryRequired
  <2>3. s = "admitted" => child'[e] = "none" /\ stopped'[e] = "no" /\ mem'[e].exit = "none"
    BY <1>2, <1>4, <1>5
  <2>4. task'[e] # None /\ history'[e] = None /\ e \in held'
    BY <1>0, <1>7
  <2> QED
    BY <1>0, <1>5, <1>8, <2>1, <2>2, <2>3, <2>4 DEF HostSound
<1>10. RunSound(e)'
  BY <1>0, <1>7, <1>8 DEF RunSound, Open
<1> QED
  BY <1>0, <1>6, <1>9, <1>10, LocalStep

LEMMA ObservationStep ==
  ASSUME IInv, TypeOK', NEW h \in Hosts, Spawn(h) \/ Cancelled(h) \/ Reaped(h) \/ Sample(h)
  PROVE  IInv'
<1> DEFINE e == run[h]
<1>0. /\ step[h] # "idle" /\ step[h] \in Observing
  BY DEF Spawn, Cancelled, Reaped, Sample, Observing
<1>1. /\ TypeOK /\ e \in Runs /\ HostSound(h) /\ RunSound(e) /\ mem[e] \in Receipt /\ Open(mem[e])
  BY <1>0, FollowerSound DEF HostSound, Early
<1>2. /\ stopped = [stopped EXCEPT ![e] = stopped[e]] /\ child = [child EXCEPT ![e] = child[e]]
      /\ step = [step EXCEPT ![h] = step[h]]
  BY <1>1 DEF TypeOK
<1>3. CASE Spawn(h)
  <2> DEFINE m == [mem[e] EXCEPT !.phase = "running"]
  <2>1. m \in Receipt /\ m.phase # "terminal"
    BY <1>1 DEF Receipt
  <2>2. /\ Persist(e, m) /\ step' = [step EXCEPT ![h] = "working"]
        /\ stopped' = [stopped EXCEPT ![e] = "no"] /\ child' = [child EXCEPT ![e] = "alive"]
        /\ UNCHANGED <<lock, history, request, run, task, held>> /\ abort' = abort
    BY <1>3 DEF Spawn, Go
  <2> HIDE DEF m, e
  <2>3. "working" \in Observing
    BY DEF Observing
  <2> QED
    BY <1>0, <1>1, <2>1, <2>2, <2>3, PersistStep DEF e
<1>4. CASE Cancelled(h)
  <2> DEFINE m == [mem[e] EXCEPT !.cancel = TRUE, !.phase = "unknown"]
  <2>1. m \in Receipt /\ m.phase # "terminal"
    BY <1>1 DEF Receipt
  <2>2. /\ Persist(e, m) /\ step[h] = "working" /\ step' = [step EXCEPT ![h] = "working"]
        /\ stopped' = [stopped EXCEPT ![e] = "cancelled"] /\ child' = [child EXCEPT ![e] = child[e]]
        /\ UNCHANGED <<lock, history, request, run, task, held>> /\ abort' = abort
    BY <1>2, <1>4 DEF Cancelled
  <2> HIDE DEF m, e
  <2> QED
    BY <1>0, <1>1, <1>2, <2>1, <2>2, PersistStep DEF e
<1>5. CASE Reaped(h)
  <2> DEFINE m == [mem[e] EXCEPT !.exit = stopped[e], !.phase = "unknown"]
  <2>0. stopped[e] \in {"wall", "idle", "cancelled"}
    BY <1>1, <1>5 DEF Reaped, TypeOK
  <2>1. m \in Receipt /\ m.phase # "terminal" /\ m.exit \notin {"none", "exit"}
    BY <1>1, <2>0 DEF Receipt
  <2>2. /\ Persist(e, m) /\ step[h] = "working" /\ step' = [step EXCEPT ![h] = "validating"]
        /\ stopped' = [stopped EXCEPT ![e] = stopped[e]]
        /\ UNCHANGED <<lock, history, request, run, task, held>> /\ abort' = abort
    BY <1>2, <1>5 DEF Reaped, Go
  <2>3. PICK c \in {"closed", child[e]} : child' = [child EXCEPT ![e] = c]
    BY <1>2, <1>5 DEF Reaped
  <2>4. "validating" \in Observing
    BY <1>2 DEF Observing
  <2> HIDE DEF m, e
  <2> QED
    BY <1>0, <1>1, <1>2, <2>1, <2>2, <2>3, <2>4, PersistStep DEF e
<1>6. CASE Sample(h)
  <2> DEFINE m == IF e \in request THEN [mem[e] EXCEPT !.cancel = TRUE, !.phase = "unknown"] ELSE mem[e]
  <2>1. /\ m \in Receipt /\ m.phase # "terminal" /\ m.exit = mem[e].exit
        /\ e \in request \/ m = mem[e]
    BY <1>1 DEF Receipt, Open
  <2>2. /\ Persist(e, m) /\ UNCHANGED <<lock, history, request, run, task, held>>
        /\ step' = [step EXCEPT ![h] = step[h]] /\ stopped' = [stopped EXCEPT ![e] = stopped[e]]
        /\ child' = [child EXCEPT ![e] = child[e]]
        /\ abort' = abort \/ abort' = abort \cup {e}
        /\ e \in abort => e \in abort'
    BY <1>2, <1>6 DEF Sample
  <2>3. step[h] = "validating" =>
          \/ m.degraded \/ m.cancel \/ m.exit \notin {"none", "exit"} \/ e \in abort'
          \/ child[e] # "alive" /\ (m.exit = "exit" => stopped[e] = "no")
    BY <1>1, <2>1, <2>2 DEF HostSound, RecoveryRequired
  <2>4. step[h] = "admitted" => child[e] = "none" /\ stopped[e] = "no" /\ m.exit = "none"
    BY <1>1, <2>1 DEF HostSound
  <2> HIDE DEF m, e
  <2> QED
    BY <1>0, <1>1, <1>2, <2>1, <2>2, <2>3, <2>4, PersistStep DEF e
<1> QED
  BY <1>3, <1>4, <1>5, <1>6

\* The host returns without a worker, runs out of time, is told to stop or will try again.
LEMMA QuietStep ==
  ASSUME IInv, TypeOK', NEW h \in Hosts, NEW e \in Runs, run[h] = e,
         \/ NotSpawned(h) \/ Throws(h) \/ ParentAborts(h) \/ RetryInfrastructure(h)
         \/ \E why \in {"wall", "idle"} : TimeLimit(h, why)
  PROVE  IInv'
<1>0. step[h] # "idle" /\ step[h] \in Early
  BY DEF NotSpawned, Throws, ParentAborts, RetryInfrastructure, TimeLimit, Observing, Early
<1>1. /\ TypeOK /\ HostSound(h) /\ RunSound(e) /\ e # None
      /\ Open(active[e]) /\ history[e] = None /\ task[e] # None
  BY <1>0, FollowerSound DEF HostSound
<1>2. UNCHANGED <<lock, active, history, request, run, task, mem, child>>
  BY DEF NotSpawned, Throws, ParentAborts, RetryInfrastructure, TimeLimit, inventory, process
<1>3. /\ \A f \in Runs \ {e} : /\ stopped'[f] = stopped[f] /\ (f \in abort' <=> f \in abort)
                              /\ (f \in held => f \in held')
      /\ \A g \in Hosts \ {h} : step'[g] = step[g]
  BY <1>1 DEF NotSpawned, Throws, ParentAborts, RetryInfrastructure, TimeLimit, TypeOK, Go, process
<1>4. Local(h, e)
  BY <1>0, <1>2, <1>3 DEF Local
<1>5. CASE NotSpawned(h) \/ Throws(h)
  <2>1. /\ step[h] = "admitted" /\ step'[h] = "validating"
        /\ UNCHANGED <<stopped, held, abort>>
    BY <1>1, <1>5 DEF NotSpawned, Throws, TypeOK, Go, process
  <2>2. HostSound(h)'
    BY <1>1, <1>2, <2>1 DEF HostSound, RecoveryRequired, Open, Early, Observing
  <2>3. RunSound(e)'
    BY <1>1, <1>2, <2>1 DEF RunSound, Open
  <2> QED
    BY <1>1, <1>4, <2>2, <2>3, LocalStep
<1>6. CASE ParentAborts(h)
  <2>1. /\ step[h] \in Observing /\ abort' = abort \cup {e} /\ UNCHANGED <<stopped, held, step>>
    BY <1>6 DEF ParentAborts
  <2>2. HostSound(h)'
    BY <1>1, <1>2, <2>1 DEF HostSound, RecoveryRequired, Open, Early, Observing
  <2>3. RunSound(e)'
    BY <1>1, <1>2, <2>1 DEF RunSound, Open
  <2> QED
    BY <1>1, <1>4, <2>2, <2>3, LocalStep
<1>7. CASE RetryInfrastructure(h)
  <2>1. /\ step[h] = "validating" /\ ~RecoveryRequired(e) /\ step'[h] = "retrying"
        /\ held' = held \ {e} /\ UNCHANGED <<stopped, abort>>
    BY <1>1, <1>7 DEF RetryInfrastructure, TypeOK, Go, process
  <2>2. child[e] # "alive"
    BY <1>1, <2>1 DEF HostSound
  <2>3. HostSound(h)'
    BY <1>1, <1>2, <2>1 DEF HostSound, RecoveryRequired, Open, Early, Observing
  <2>4. RunSound(e)'
    BY <1>1, <1>2, <2>1, <2>2 DEF RunSound, Open
  <2> QED
    BY <1>1, <1>4, <2>3, <2>4, LocalStep
<1>8. CASE \E why \in {"wall", "idle"} : TimeLimit(h, why)
  <2>1. /\ step[h] = "working" /\ UNCHANGED <<step, abort, held>>
    BY <1>8 DEF TimeLimit
  <2>2. HostSound(h)'
    BY <1>1, <1>2, <2>1 DEF HostSound, RecoveryRequired, Open, Early, Observing
  <2>3. RunSound(e)'
    BY <1>1, <1>2, <2>1 DEF RunSound, Open
  <2> QED
    BY <1>1, <1>4, <2>2, <2>3, LocalStep
<1> QED
  BY <1>5, <1>6, <1>7, <1>8

LEMMA CloseStep ==
  ASSUME IInv, TypeOK', NEW e \in Runs, Closes(e)
  PROVE  IInv'
<1>0. /\ TypeOK /\ child[e] = "alive" /\ child' = [child EXCEPT ![e] = "closed"]
      /\ UNCHANGED <<lock, history, request, run, task, abort, stopped, held>>
  BY DEF IInv, Closes
<1>1. ASSUME NEW h \in Hosts, run[h] = e, step[h] = "working", stopped[e] = "no",
             Persist(e, [mem[e] EXCEPT !.exit = "exit", !.phase = "validating"]),
             Go(h, "validating")
      PROVE  IInv'
  <2> DEFINE m == [mem[e] EXCEPT !.exit = "exit", !.phase = "validating"]
  <2>0. mem[e] \in Receipt
    BY <1>0 DEF TypeOK
  <2>1. m \in Receipt /\ m.phase # "terminal"
    BY <2>0 DEF Receipt
  <2>2. /\ Persist(e, m) /\ step' = [step EXCEPT ![h] = "validating"]
        /\ stopped' = [stopped EXCEPT ![e] = "no"] /\ abort' = abort
        /\ run[h] = e /\ step[h] = "working" /\ child' = [child EXCEPT ![e] = "closed"]
        /\ UNCHANGED <<lock, history, request, run, task, held>>
    BY <1>0, <1>1 DEF Go, TypeOK
  <2>3. "validating" \in Observing /\ "working" \in Observing
    BY DEF Observing
  <2> HIDE DEF m
  <2> QED
    BY <2>1, <2>2, <2>3, PersistStep
<1>2. CASE UNCHANGED <<step, mem, active, faults>>
  <2>1. ASSUME NEW h \in Hosts PROVE HostSound(h)'
    <3>1. HostSound(h)
      BY DEF IInv
    <3>2. CASE step[h] = "idle"
      BY <1>0, <1>2, <3>1, <3>2 DEF HostSound, Early, Observing
    <3>3. CASE step[h] # "idle"
      <4>1. /\ run[h] = e => child[run[h]] = "alive" /\ child'[run[h]] = "closed"
            /\ run[h] # e => child'[run[h]] = child[run[h]]
        BY <1>0, <3>3, Followed DEF TypeOK
      <4> QED
        BY <1>0, <1>2, <3>1, <3>3, <4>1 DEF HostSound, RecoveryRequired, Open
    <3> QED
      BY <3>2, <3>3
  <2>2. ASSUME NEW f \in Runs PROVE RunSound(f)'
    <3>1. RunSound(f) /\ (f = e => child[f] = "alive" /\ child'[f] = "closed") /\ (f # e => child'[f] = child[f])
      BY <1>0 DEF IInv, TypeOK
    <3> QED
      BY <1>0, <1>2, <3>1 DEF RunSound, Open
  <2>3. OneFollower'
    BY <1>0 DEF IInv, OneFollower
  <2>4. ASSUME NEW f \in Runs, Live(f)' PROVE Live(f)
    BY <1>0, <1>2, <2>4 DEF Live, TypeOK
  <2>5. LiveApart'
    BY <1>0, <2>4 DEF IInv, LiveApart
  <2> QED
    BY <2>1, <2>2, <2>3, <2>5 DEF IInv
<1> QED
  BY <1>1, <1>2 DEF Closes

LEMMA FinishStep ==
  ASSUME IInv, TypeOK', NEW h \in Hosts, NEW e \in Runs, run[h] = e,
         NEW o \in Outcomes, Finish(h, o)
  PROVE  IInv'
<1> DEFINE m == Finished(e, o)
           lost == [Unconfirmed(m) EXCEPT !.degraded = TRUE]
           told == [Unconfirmed(m) EXCEPT !.cancel = TRUE]
<1>0. /\ step[h] # "idle" /\ step[h] \in Early /\ step[h] \in {"validating", "retrying"}
      /\ o \in {"completed", "failed", "unconfirmed"}
  BY DEF Finish, Early, Observing, Outcomes
<1>1. /\ TypeOK /\ HostSound(h) /\ RunSound(e) /\ e # None
      /\ Open(active[e]) /\ Open(mem[e]) /\ history[e] = None /\ task[e] # None
  BY <1>0, FollowerSound DEF HostSound
<1>2. m \in Receipt /\ m.exit = mem[e].exit /\ (m.phase = "terminal" => ~RecoveryRequired(e))
  BY <1>0, <1>1, FinishedTyped
<1>3. /\ m.degraded = mem[e].degraded /\ m.cancel = (mem[e].cancel \/ e \in abort)
  BY <1>1 DEF Finished, TypeOK, Receipt
<1>4. /\ lost # None /\ told # None /\ m # None
      /\ lost.phase = "unknown" /\ told.phase = "unknown" /\ lost.degraded /\ told.cancel
  <2>1. lost \in Receipt /\ told \in Receipt /\ lost.phase = "unknown" /\ told.phase = "unknown"
    BY <1>2, UnconfirmedTyped
  <2>2. lost.degraded /\ told.cancel
    BY <1>2 DEF Unconfirmed, Receipt
  <2> QED
    BY <1>2, <2>1, <2>2, NoneIsNoReceipt
<1>5. ~RecoveryRequired(e) => child[e] # "alive" /\ (mem[e].exit = "exit" => stopped[e] = "no")
  BY <1>0, <1>1 DEF HostSound
<1>6. /\ UNCHANGED <<history, request, run, task, abort, stopped, child, held>>
      /\ lock' = lock \/ lock = None
      /\ \/ /\ active' = [active EXCEPT ![e] = told] /\ mem' = [mem EXCEPT ![e] = told]
            /\ step' = [step EXCEPT ![h] = "leaving"]
         \/ /\ active' = [active EXCEPT ![e] = m] /\ mem' = [mem EXCEPT ![e] = m]
            /\ e \notin request
            /\ step' = [step EXCEPT ![h] = IF Archiveable(m) THEN "archiving" ELSE "leaving"]
            /\ Archiveable(m) => lock' = h
         \/ /\ active' = active /\ mem' = [mem EXCEPT ![e] = lost]
            /\ step' = [step EXCEPT ![h] = "leaving"]
  BY DEF Finish, Go, process
<1>7. Local(h, e)
  <2>1. \A f \in Runs \ {e} : active'[f] = active[f] /\ mem'[f] = mem[f]
    BY <1>1, <1>6 DEF TypeOK
  <2>2. \A g \in Hosts \ {h} : step'[g] = step[g] /\ (lock = g => lock' = g)
    BY <1>1, <1>6, NoneIsNoReceipt DEF TypeOK
  <2> HIDE DEF m, lost, told
  <2> QED
    BY <1>0, <1>6, <2>1, <2>2 DEF Local
<1> HIDE DEF m, lost, told
<1>8. CASE /\ active' = [active EXCEPT ![e] = told] /\ mem' = [mem EXCEPT ![e] = told]
           /\ step' = [step EXCEPT ![h] = "leaving"]
  <2>1. active'[e] = told /\ mem'[e] = told /\ step'[h] = "leaving"
    BY <1>1, <1>8 DEF TypeOK
  <2>2. HostSound(h)'
    BY <1>1, <1>4, <1>6, <2>1 DEF HostSound, RecoveryRequired, Early, Observing
  <2>3. RunSound(e)'
    BY <1>1, <1>4, <1>6, <2>1 DEF RunSound, Open
  <2> QED
    BY <1>7, <2>2, <2>3, LocalStep
<1>9. CASE /\ active' = active /\ mem' = [mem EXCEPT ![e] = lost]
           /\ step' = [step EXCEPT ![h] = "leaving"]
  <2>1. active'[e] = active[e] /\ mem'[e] = lost /\ step'[h] = "leaving"
    BY <1>1, <1>9 DEF TypeOK
  <2>2. HostSound(h)'
    BY <1>1, <1>4, <1>6, <2>1 DEF HostSound, RecoveryRequired, Early, Observing
  <2>3. RunSound(e)'
    BY <1>1, <1>4, <1>6, <2>1 DEF RunSound, Open
  <2> QED
    BY <1>7, <2>2, <2>3, LocalStep
<1>10. CASE /\ active' = [active EXCEPT ![e] = m] /\ mem' = [mem EXCEPT ![e] = m]
            /\ e \notin request
            /\ step' = [step EXCEPT ![h] = IF Archiveable(m) THEN "archiving" ELSE "leaving"]
            /\ Archiveable(m) => lock' = h
  <2>1. /\ active'[e] = m /\ mem'[e] = m
        /\ step'[h] = IF Archiveable(m) THEN "archiving" ELSE "leaving"
    BY <1>1, <1>10 DEF TypeOK
  <2>2. RecoveryRequired(e)' <=> RecoveryRequired(e)
    BY <1>1, <1>2, <1>3, <1>6, <2>1 DEF RecoveryRequired, TypeOK, Receipt
  <2>3. Archiveable(m) => /\ m.phase = "terminal" /\ m.exit = "exit"
    BY DEF Archiveable
  <2>4. CASE Archiveable(m)
    <3>1. child[e] # "alive" /\ stopped[e] = "no" /\ step'[h] = "archiving"
      BY <1>2, <1>5, <2>1, <2>3, <2>4
    <3>2. HostSound(h)'
      BY <1>1, <1>6, <1>10, <2>1, <2>4, <3>1 DEF HostSound, Early, Observing
    <3> QED
      BY <1>1, <1>4, <1>6, <1>7, <2>1, <3>1, <3>2, LocalStep DEF RunSound
  <2>5. CASE ~Archiveable(m)
    <3>1. HostSound(h)'
      BY <1>1, <1>2, <1>5, <1>6, <2>1, <2>2, <2>5 DEF HostSound, Early, Observing
    <3>2. RunSound(e)'
      BY <1>1, <1>2, <1>4, <1>5, <1>6, <2>1 DEF RunSound, Open
    <3> QED
      BY <1>7, <3>1, <3>2, LocalStep
  <2> QED
    BY <2>4, <2>5
<1> QED
  BY <1>6, <1>8, <1>9, <1>10

LEMMA ArchiveStep ==
  ASSUME IInv, TypeOK', NEW h \in Hosts, NEW e \in Runs, run[h] = e,
         NEW moves \in BOOLEAN, Archive(h, moves)
  PROVE  IInv'
<1> DEFINE kept == [Unconfirmed(mem[e]) EXCEPT !.degraded = TRUE]
<1>0. step[h] = "archiving" /\ step[h] # "idle" /\ step[h] \notin Early
  BY DEF Archive, Early, Observing
<1>1. /\ TypeOK /\ HostSound(h) /\ RunSound(e) /\ e # None /\ task[e] # None /\ mem[e] \in Receipt
      /\ lock = h /\ e \notin request /\ child[e] # "alive" /\ stopped[e] = "no" /\ history[e] = None
  BY <1>0, FollowerSound DEF HostSound
<1>2. kept # None /\ kept.phase = "unknown" /\ kept.degraded
  <2>1. kept.degraded
    BY <1>1 DEF Unconfirmed, Receipt
  <2> QED
    BY <1>1, <2>1, UnconfirmedTyped, NoneIsNoReceipt
<1>3. /\ UNCHANGED <<request, run, task, abort, stopped, child, held>>
      /\ step' = [step EXCEPT ![h] = "leaving"]
      /\ \/ /\ active' = [active EXCEPT ![e] = None] /\ history' = [history EXCEPT ![e] = mem[e]]
            /\ mem' = mem
         \/ /\ active' = [active EXCEPT ![e] = kept] /\ mem' = [mem EXCEPT ![e] = kept]
            /\ history' = history
  BY DEF Archive, Go, process
<1> HIDE DEF kept
<1>4. Local(h, e)
  <2>1. /\ \A f \in Runs \ {e} : active'[f] = active[f] /\ mem'[f] = mem[f] /\ history'[f] = history[f]
        /\ \A g \in Hosts \ {h} : step'[g] = step[g]
        /\ step'[h] = "leaving"
    BY <1>1, <1>3 DEF TypeOK
  <2> QED
    BY <1>0, <1>1, <1>3, <2>1 DEF Local, Early, Observing
<1>5. CASE /\ active' = [active EXCEPT ![e] = None] /\ history' = [history EXCEPT ![e] = mem[e]]
           /\ mem' = mem
  <2>1. active'[e] = None /\ history'[e] # None /\ step'[h] = "leaving"
    BY <1>1, <1>3, <1>5, NoneIsNoReceipt DEF TypeOK
  <2>2. HostSound(h)'
    BY <1>1, <1>3, <2>1 DEF HostSound, Early, Observing
  <2>3. RunSound(e)'
    BY <1>1, <1>3, <2>1 DEF RunSound
  <2> QED
    BY <1>4, <2>2, <2>3, LocalStep
<1>6. CASE /\ active' = [active EXCEPT ![e] = kept] /\ mem' = [mem EXCEPT ![e] = kept]
           /\ history' = history
  <2>1. active'[e] = kept /\ step'[h] = "leaving"
    BY <1>1, <1>3, <1>6 DEF TypeOK
  <2>2. HostSound(h)'
    BY <1>1, <1>3, <2>1 DEF HostSound, Early, Observing
  <2>3. RunSound(e)'
    BY <1>1, <1>2, <1>3, <1>6, <2>1 DEF RunSound
  <2> QED
    BY <1>4, <2>2, <2>3, LocalStep
<1> QED
  BY <1>3, <1>5, <1>6

LEMMA LeaveStep ==
  ASSUME IInv, TypeOK', NEW h \in Hosts, NEW e \in Runs, run[h] = e, Leave(h) \/ Dies(h)
  PROVE  IInv'
<1>0. step[h] # "idle"
  BY DEF Leave, Dies
<1>1. /\ TypeOK /\ HostSound(h) /\ RunSound(e) /\ e # None
  BY <1>0, FollowerSound
<1>2. /\ UNCHANGED <<active, history, request, task, mem, abort, stopped, child>>
      /\ step' = [step EXCEPT ![h] = "idle"] /\ run' = [run EXCEPT ![h] = None]
      /\ lock # None /\ lock # h => lock' = lock
      /\ held' = held \/ (held' = held \ {e} /\ step[h] = "leaving" /\ ~RecoveryRequired(e))
  BY DEF Leave, Dies, Go, inventory, process
<1>3. step'[h] = "idle" /\ run'[h] = None
  BY <1>1, <1>2 DEF TypeOK
<1>4. Local(h, e)
  BY <1>0, <1>1, <1>2, <1>3, NoneIsNoReceipt DEF Local, TypeOK, Early, Observing
<1>5. HostSound(h)'
  BY <1>3 DEF HostSound, Early, Observing
<1>6. child[e] = "alive" => e \in held'
  BY <1>1, <1>2 DEF HostSound, RunSound
<1>7. RunSound(e)'
  BY <1>1, <1>2, <1>6 DEF RunSound, Open
<1> QED
  BY <1>4, <1>5, <1>7, LocalStep

-----------------------------------------------------------------------------
(* The sweep, admission and the operator *)

\* A sweep moves settled receipts only: an open one stays, and what goes has no worker.
LEMMA SweepKeeps ==
  ASSUME IInv, NEW f \in Runs
  PROVE  /\ Open(active[f]) \/ active[f] = None =>
              SweptActive[f] = active[f] /\ SweptHistory[f] = history[f]
         /\ \/ SweptActive[f] = active[f] /\ SweptHistory[f] = history[f]
            \/ /\ SweptActive[f] = None /\ child[f] # "alive" /\ stopped[f] = "no"
               /\ f \notin request /\ task[f] # None
<1>1. CASE Movable(f)
  <2>1. /\ active[f] # None /\ active[f].phase = "terminal" /\ active[f].exit = "exit"
        /\ f \notin request
    BY <1>1 DEF Movable, Archiveable
  <2>2. child[f] # "alive" /\ stopped[f] = "no" /\ task[f] # None
    BY <2>1 DEF IInv, RunSound, Open
  <2> QED
    BY <1>1, <2>1, <2>2 DEF SweptActive, Open
<1>2. CASE ~Movable(f)
  BY <1>2 DEF SweptActive, SweptHistory
<1> QED
  BY <1>1, <1>2

\* What follows an execution after a sweep: the receipts are the swept ones.
LEMMA SweptSound ==
  ASSUME IInv, lock = None,
         NEW f \in Runs, active'[f] = SweptActive[f], history'[f] = SweptHistory[f],
         mem'[f] = mem[f], task'[f] = task[f], child'[f] = child[f], stopped'[f] = stopped[f],
         UNCHANGED request, f \in held => f \in held', f \in abort' <=> f \in abort
  PROVE  /\ RunSound(f)'
         /\ \A g \in Hosts : run[g] = f /\ run'[g] = run[g] /\ step'[g] = step[g] => HostSound(g)'
<1>1. RunSound(f)
  BY DEF IInv
<1>2. /\ Open(active[f]) \/ active[f] = None => active'[f] = active[f] /\ history'[f] = history[f]
      /\ \/ active'[f] = active[f] /\ history'[f] = history[f]
         \/ /\ active'[f] = None /\ child[f] # "alive" /\ stopped[f] = "no"
            /\ f \notin request /\ task[f] # None
  BY SweepKeeps
<1>3. RunSound(f)'
  <2>1. CASE active'[f] = active[f] /\ history'[f] = history[f]
    BY <1>1, <2>1 DEF RunSound, Open
  <2>2. CASE active'[f] = None /\ child[f] # "alive" /\ stopped[f] = "no" /\ f \notin request /\ task[f] # None
    BY <2>2 DEF RunSound
  <2> QED
    BY <1>2, <2>1, <2>2
<1>4. ASSUME NEW g \in Hosts, run[g] = f, run'[g] = run[g], step'[g] = step[g]
      PROVE  HostSound(g)'
  <2>1. HostSound(g) /\ f # None
    BY NoneIsNoReceipt DEF IInv
  <2>2. step[g] # "archiving"
    BY <1>4, <2>1, NoneIsNoReceipt DEF HostSound
  <2> QED
    BY <1>2, <1>4, <2>1, <2>2 DEF HostSound, RecoveryRequired
<1> QED
  BY <1>3, <1>4

LEMMA SweepStep ==
  ASSUME IInv, TypeOK', Sweep
  PROVE  IInv'
<1>1. /\ TypeOK /\ lock = None /\ active' = SweptActive /\ history' = SweptHistory
      /\ UNCHANGED <<lock, request, step, run, task, mem, abort, stopped, child, held>>
  BY DEF IInv, Sweep, process
<1>2. ASSUME NEW f \in Runs PROVE RunSound(f)'
  BY <1>1, SweptSound
<1>3. ASSUME NEW g \in Hosts PROVE HostSound(g)'
  <2>1. CASE step[g] = "idle"
    BY <1>1, <2>1 DEF IInv, HostSound, Early, Observing
  <2>2. CASE step[g] # "idle"
    <3>1. run[g] \in Runs
      BY <2>2, Followed
    <3> QED
      BY <1>1, <3>1, SweptSound
  <2> QED
    BY <2>1, <2>2
<1>4. OneFollower' /\ LiveApart'
  BY <1>1 DEF IInv, OneFollower, LiveApart, Live
<1> QED
  BY <1>2, <1>3, <1>4 DEF IInv

LEMMA AdmitStep ==
  ASSUME IInv, TypeOK', NEW h \in Hosts, NEW e \in Runs, NEW t \in Tasks, Admit(h, e, t)
  PROVE  IInv'
<1>1. /\ TypeOK /\ lock = None /\ step[h] = "idle" /\ task[e] = None /\ t # None /\ e # None
      /\ run[h] = None /\ OneFollower /\ LiveApart
  BY ExecutionAssumption, NoneIsNoReceipt DEF IInv, HostSound, Admit
<1>2. /\ UNCHANGED <<lock, request, mem, abort, stopped, child>> /\ held' = held \cup {e}
      /\ active' = [SweptActive EXCEPT ![e] = Blank] /\ history' = SweptHistory
      /\ task' = [task EXCEPT ![e] = t] /\ run' = [run EXCEPT ![h] = e]
      /\ step' = [step EXCEPT ![h] = "admitted"]
  BY DEF Admit, Go, process
<1>3. /\ \A f \in Runs \ {e} : active'[f] = SweptActive[f] /\ task'[f] = task[f]
      /\ active'[e] = Blank /\ task'[e] = t
      /\ \A g \in Hosts \ {h} : step'[g] = step[g] /\ run'[g] = run[g]
      /\ run'[h] = e /\ step'[h] = "admitted"
  BY <1>1, <1>2, SweptTyped DEF TypeOK
<1>4. /\ SweptHistory[e] = None
      /\ \A f \in Runs : SweptActive[f] # None => task[f] # t
  BY DEF Admit, MayAdmit
<1>5. /\ mem[e] = Blank /\ child[e] = "none" /\ stopped[e] = "no" /\ Open(Blank) /\ Blank.exit = "none"
  <2>1. RunSound(e)
    BY DEF IInv
  <2> QED
    BY <1>1, <2>1, BlankTyped, NoneIsNoReceipt DEF RunSound, Open, Blank
<1>6. ASSUME NEW f \in Runs PROVE RunSound(f)'
  <2>1. CASE f = e
    BY <1>1, <1>2, <1>3, <1>4, <1>5, <2>1, NoneIsNoReceipt DEF RunSound, Open
  <2>2. CASE f # e
    BY <1>1, <1>2, <1>3, <2>2, SweptSound
  <2> QED
    BY <2>1, <2>2
<1>7. ASSUME NEW g \in Hosts PROVE HostSound(g)'
  <2>1. CASE g = h
    <3>1. history'[e] = None /\ mem'[e] = Blank /\ child'[e] = "none" /\ stopped'[e] = "no" /\ e \in held'
      BY <1>2, <1>4, <1>5
    <3> QED
      BY <1>1, <1>3, <1>5, <2>1, <3>1 DEF HostSound
  <2>2. CASE g # h /\ step[g] = "idle"
    <3>1. HostSound(g)
      BY DEF IInv
    <3> QED
      BY <1>3, <2>2, <3>1 DEF HostSound, Early, Observing
  <2>3. CASE g # h /\ step[g] # "idle"
    <3>1. run[g] \in Runs /\ run[g] # e
      BY <1>1, <2>3, FollowerSound
    <3> QED
      BY <1>1, <1>2, <1>3, <2>3, <3>1, SweptSound
  <2> QED
    BY <2>1, <2>2, <2>3
<1>8. \A g \in Hosts : run[g] # e
  <2>1. ASSUME NEW g \in Hosts, run[g] = e PROVE FALSE
    <3>1. step[g] # "idle"
      BY <1>1, <2>1 DEF IInv, HostSound
    <3> QED
      BY <1>1, <2>1, <3>1, FollowerSound
  <2> QED
    BY <2>1
<1>9. OneFollower'
  BY <1>1, <1>3, <1>8 DEF OneFollower
<1>10. ASSUME NEW f \in Runs, f # e, Live(f)'
       PROVE  Live(f) /\ task[f] # t
  <2>1. Live(f)
    <3>1. child'[f] = child[f]
      BY <1>2
    <3>2. ASSUME NEW g \in Hosts, run'[g] = f, step'[g] \in Early
          PROVE  run[g] = f /\ step[g] \in Early
      BY <1>3, <1>10, <3>2
    <3> QED
      BY <1>10, <3>1, <3>2 DEF Live
  <2>2. Open(active[f])
    <3>1. CASE child[f] = "alive"
      BY <3>1 DEF IInv, RunSound
    <3>2. ASSUME NEW g \in Hosts, run[g] = f, step[g] \in Early PROVE Open(active[f])
      BY <3>2 DEF IInv, HostSound
    <3> QED
      BY <2>1, <3>1, <3>2 DEF Live
  <2>3. SweptActive[f] # None
    BY <2>2, SweepKeeps DEF Open
  <2> QED
    BY <1>4, <2>1, <2>3
<1>11. LiveApart'
  <2>1. ASSUME NEW f \in Runs, NEW g \in Runs, f # g, Live(f)', Live(g)'
        PROVE  task'[f] # task'[g]
    <3>1. CASE f = e
      BY <1>3, <1>10, <2>1, <3>1
    <3>2. CASE g = e
      BY <1>3, <1>10, <2>1, <3>2
    <3>3. CASE f # e /\ g # e
      BY <1>1, <1>3, <1>10, <2>1, <3>3 DEF LiveApart
    <3> QED
      BY <3>1, <3>2, <3>3
  <2> QED
    BY <2>1 DEF LiveApart
<1> QED
  BY <1>6, <1>7, <1>9, <1>11 DEF IInv

LEMMA OperatorStep ==
  ASSUME IInv, TypeOK', Unlock \/ \E e \in Runs : RequestCancel(e) \/ Resolve(e)
  PROVE  IInv'
<1>0. TypeOK
  BY DEF IInv
<1>1. UNCHANGED <<history, step, run, task, mem, abort, stopped, child>>
  BY DEF Unlock, RequestCancel, Resolve, process
<1>2. OneFollower' /\ LiveApart'
  BY <1>1 DEF IInv, OneFollower, LiveApart, Live
<1>3. CASE Unlock
  <2>1. UNCHANGED <<active, request, held>>
    BY <1>3 DEF Unlock
  <2>2. ASSUME NEW g \in Hosts PROVE HostSound(g)'
    <3>1. HostSound(g) /\ step[g] # "archiving"
      BY <1>3, ExecutionAssumption DEF IInv, HostSound, Unlock
    <3> QED
      BY <1>1, <2>1, <3>1 DEF HostSound, RecoveryRequired
  <2>3. ASSUME NEW f \in Runs PROVE RunSound(f)'
    <3>1. RunSound(f)
      BY DEF IInv
    <3> QED
      BY <1>1, <2>1, <3>1 DEF RunSound
  <2> QED
    BY <1>2, <2>2, <2>3 DEF IInv
<1>4. ASSUME NEW e \in Runs, RequestCancel(e) PROVE IInv'
  <2>1. /\ UNCHANGED <<lock, active, held>> /\ request' = request \cup {e}
        /\ Open(active[e])
    BY <1>4 DEF RequestCancel, Open
  <2>2. ASSUME NEW g \in Hosts PROVE HostSound(g)'
    <3>1. HostSound(g) /\ (step[g] = "archiving" => run[g] # e)
      BY <2>1 DEF IInv, HostSound, Archiveable, Open
    <3> QED
      BY <1>1, <2>1, <3>1 DEF HostSound, RecoveryRequired
  <2>3. ASSUME NEW f \in Runs PROVE RunSound(f)'
    <3>1. RunSound(f) /\ (f = e => history[f] = None)
      BY <2>1 DEF IInv, RunSound, Open
    <3> QED
      BY <1>1, <2>1, <3>1 DEF RunSound
  <2> QED
    BY <1>2, <2>2, <2>3 DEF IInv
<1>5. ASSUME NEW e \in Runs, Resolve(e) PROVE IInv'
  <2>1. /\ UNCHANGED lock /\ request' = request \ {e} /\ held' = held \ {e}
        /\ active'[e] = None /\ \A f \in Runs \ {e} : active'[f] = active[f]
        /\ child[e] # "alive" /\ \A g \in Hosts : run[g] # e
    BY <1>0, <1>5 DEF Resolve, TypeOK
  <2>2. ASSUME NEW g \in Hosts PROVE HostSound(g)'
    <3>1. HostSound(g)
      BY DEF IInv
    <3>2. CASE step[g] = "idle"
      BY <1>1, <3>1, <3>2 DEF HostSound, Early, Observing
    <3>3. CASE step[g] # "idle"
      <4>1. run[g] \in Runs \ {e}
        BY <2>1, <3>3, Followed
      <4>2. active'[run[g]] = active[run[g]]
        BY <2>1, <4>1
      <4> QED
        BY <1>1, <2>1, <3>1, <3>3, <4>1, <4>2 DEF HostSound, RecoveryRequired
    <3> QED
      BY <3>2, <3>3
  <2>3. ASSUME NEW f \in Runs PROVE RunSound(f)'
    <3>1. RunSound(f)
      BY DEF IInv
    <3>2. CASE f = e
      BY <1>1, <2>1, <3>1, <3>2 DEF RunSound
    <3>3. CASE f # e
      <4>1. active'[f] = active[f]
        BY <2>1, <3>3
      <4> QED
        BY <1>1, <2>1, <3>1, <3>3, <4>1 DEF RunSound
    <3> QED
      BY <3>2, <3>3
  <2> QED
    BY <1>2, <2>2, <2>3 DEF IInv
<1> QED
  BY <1>3, <1>4, <1>5

-----------------------------------------------------------------------------
(* The invariant *)

LEMMA IInvStep == IInv /\ [Next]_vars => IInv'
<1> SUFFICES ASSUME IInv, [Next]_vars PROVE IInv'
  OBVIOUS
<1>0. TypeOK'
  BY TypeStep
<1>1. ASSUME NEW h \in Hosts, step[h] # "idle",
             \/ Spawn(h) \/ NotSpawned(h) \/ Throws(h)
             \/ \E why \in {"wall", "idle"} : TimeLimit(h, why)
             \/ Cancelled(h) \/ Reaped(h) \/ Sample(h) \/ ParentAborts(h)
             \/ \E o \in Outcomes : Finish(h, o)
             \/ RetryInfrastructure(h) \/ (\E moves \in BOOLEAN : Archive(h, moves))
             \/ Leave(h) \/ Dies(h)
      PROVE  IInv'
  <2>1. PICK e \in Runs : run[h] = e
    BY <1>1, Followed
  <2>2. CASE Spawn(h) \/ Cancelled(h) \/ Reaped(h) \/ Sample(h)
    BY <1>0, <2>2, ObservationStep
  <2>3. CASE \/ NotSpawned(h) \/ Throws(h) \/ ParentAborts(h) \/ RetryInfrastructure(h)
             \/ \E why \in {"wall", "idle"} : TimeLimit(h, why)
    BY <1>0, <2>1, <2>3, QuietStep
  <2>4. CASE \E o \in Outcomes : Finish(h, o)
    BY <1>0, <2>1, <2>4, FinishStep
  <2>5. CASE \E moves \in BOOLEAN : Archive(h, moves)
    BY <1>0, <2>1, <2>5, ArchiveStep
  <2>6. CASE Leave(h) \/ Dies(h)
    BY <1>0, <2>1, <2>6, LeaveStep
  <2> QED
    BY <1>1, <2>2, <2>3, <2>4, <2>5, <2>6
<1>2. CASE UNCHANGED vars
  <2>0. UNCHANGED <<lock, active, history, request, step, run, task, mem, abort, stopped, child, held>>
    BY <1>2 DEF vars, inventory, process
  <2>1. ASSUME NEW h \in Hosts PROVE HostSound(h)'
    <3>1. HostSound(h)
      BY DEF IInv
    <3> QED
      BY <2>0, <3>1 DEF HostSound, RecoveryRequired
  <2>2. ASSUME NEW e \in Runs PROVE RunSound(e)'
    <3>1. RunSound(e)
      BY DEF IInv
    <3> QED
      BY <2>0, <3>1 DEF RunSound
  <2>3. OneFollower' /\ LiveApart'
    BY <2>0 DEF IInv, OneFollower, LiveApart, Live
  <2> QED
    BY <1>0, <2>1, <2>2, <2>3 DEF IInv
<1>3. ASSUME NEW h \in Hosts,
             \/ Spawn(h) \/ NotSpawned(h) \/ Throws(h)
             \/ \E why \in {"wall", "idle"} : TimeLimit(h, why)
             \/ Cancelled(h) \/ Reaped(h) \/ Sample(h) \/ ParentAborts(h)
             \/ \E o \in Outcomes : Finish(h, o)
             \/ RetryInfrastructure(h) \/ (\E moves \in BOOLEAN : Archive(h, moves))
             \/ Leave(h) \/ Dies(h)
      PROVE  step[h] # "idle"
  BY <1>3 DEF Spawn, NotSpawned, Throws, TimeLimit, Cancelled, Reaped, Sample, ParentAborts,
              Finish, RetryInfrastructure, Archive, Leave, Dies, Observing
<1> QED
  BY <1>0, <1>1, <1>2, <1>3, SweepStep, OperatorStep, CloseStep, AdmitStep DEF Next, Outcomes

LEMMA IInvImplies == IInv => WorkersAccounted
<1> SUFFICES ASSUME IInv PROVE WorkersAccounted
  OBVIOUS
<1>1. OneWorkerPerTask
  BY DEF IInv, LiveApart, Live, OneWorkerPerTask
<1>2. HistoryIsSettled /\ HeldWhileAlive
  BY DEF IInv, RunSound, HistoryIsSettled, HeldWhileAlive
<1> QED
  BY <1>1, <1>2 DEF WorkersAccounted

\* Every reachable state satisfies the inductive invariant.
THEOREM ExecutionCorrect == Spec => []IInv
<1>1. Init => IInv
  BY InitCorrect
<1>2. IInv /\ [Next]_vars => IInv'
  BY IInvStep
<1> QED
  BY <1>1, <1>2, PTL DEF Spec

\* The variables keep their types.
THEOREM ExecutionTypeCorrect == Spec => []TypeOK
<1>1. IInv => TypeOK
  BY DEF IInv
<1> QED
  BY <1>1, ExecutionCorrect, PTL

\* Two workers never work on one task, the history has no worker beside it, and no
\* worker loses its claim and worktree, for any number of hosts and executions and
\* whatever dies, times out, is cancelled or fails to be written
\* (createExecutionObservation, readExecutionsUnlocked, finish, runSingleOnce).
THEOREM WorkersAreAccounted == Spec => []WorkersAccounted
<1>1. IInv => WorkersAccounted
  BY IInvImplies
<1> QED
  BY <1>1, ExecutionCorrect, PTL

-----------------------------------------------------------------------------
(***************************************************************************)
(* The backlog under its lock directory, for any number of users.  The     *)
(* directory does not say whose it is, but until somebody who saw an old   *)
(* one takes it from a process inside, whoever is inside made the one that *)
(* is there.                                                               *)
(***************************************************************************)
PlaceType == at \in [Lines!Procs -> {"idle", "working", "locking", "reaping", "locked",
                                     "writing", "unlocking", "dead"}]
Reapers == \A p \in Lines!Procs : at[p] = "reaping" => p \in sawOld
Within == robbed \/ \A p \in Lines!Procs : Lines!Inside(p) => guard = p
Current == /\ DOMAIN snap = Lines!Procs
           /\ robbed \/ \A p \in Lines!Procs : at[p] = "writing" => snap[p] = file
BacklogInv == PlaceType /\ Reapers /\ Within /\ Current

LEMMA BacklogInvInit == Lines!Init => BacklogInv
  BY LinesAssumption
  DEF Lines!BacklogAssumption, Lines!Init, Lines!Procs, Lines!Inside, BacklogInv, PlaceType,
      Reapers, Within, Current

LEMMA BacklogWorkKeeps ==
  ASSUME BacklogInv, Lines!Work \/ \E i \in 1 .. MaxLines : Lines!ReopenTask(i)
  PROVE  BacklogInv'
<1>1. /\ UNCHANGED <<file, guard, sawOld, robbed, snap>> /\ at[Daemon] \in {"idle", "working"}
      /\ at' = [at EXCEPT ![Daemon] = at'[Daemon]] /\ at'[Daemon] \in {"working", "locking"}
  BY DEF Lines!Work, Lines!Pick, Lines!SplitTask, Lines!Finish, Lines!ReopenTask, Lines!Begin,
         Lines!lockVars, BacklogInv, PlaceType, Lines!Procs
<1> QED
  BY <1>1, LinesAssumption
  DEF BacklogInv, PlaceType, Reapers, Within, Current, Lines!Inside, Lines!Procs,
      Lines!BacklogAssumption

LEMMA BacklogAskKeeps ==
  ASSUME BacklogInv, NEW u \in Users, NEW o, Lines!Asks(u, o)
  PROVE  BacklogInv'
<1>1. /\ UNCHANGED <<file, guard, sawOld, robbed, snap>> /\ at[u] = "idle"
      /\ at' = [at EXCEPT ![u] = "locking"]
  BY DEF Lines!Asks, Lines!Begin, Lines!lockVars
<1> QED
  BY <1>1 DEF BacklogInv, PlaceType, Reapers, Within, Current, Lines!Inside, Lines!Procs

LEMMA BacklogStepKeeps ==
  ASSUME BacklogInv, NEW p \in Lines!Procs, Lines!Step(p) \/ Lines!TimesOut(p) \/ Lines!Dies(p)
  PROVE  BacklogInv'
<1> USE LinesAssumption
    DEF BacklogInv, PlaceType, Reapers, Within, Current, Lines!Inside, Lines!Procs,
        Lines!BacklogAssumption, Lines!Go, Lines!lockVars
<1>1. CASE Lines!MakeDir(p)
  BY <1>1 DEF Lines!MakeDir
<1>2. CASE Lines!SeeOldLock(p)
  BY <1>2 DEF Lines!SeeOldLock
<1>3. CASE Lines!Reap(p)
  <2>1. /\ at[p] = "reaping" /\ at' = [at EXCEPT ![p] = "locking"] /\ guard' = None
        /\ sawOld' = sawOld \ {p} /\ UNCHANGED <<file, snap>>
        /\ robbed' = (robbed \/ (p \in sawOld /\ guard # None /\ Lines!Inside(guard)))
    BY <1>3 DEF Lines!Reap
  <2>2. robbed' \/ \A q \in Lines!Procs : at[q] \notin {"locked", "writing", "unlocking"}
    BY <2>1
  <2> QED
    BY <2>1, <2>2
<1>4. CASE Lines!Read(p)
  BY <1>4 DEF Lines!Read
<1>5. CASE Lines!Write(p)
  <2>1. /\ at[p] = "writing" /\ at' = [at EXCEPT ![p] = "unlocking"]
        /\ UNCHANGED <<guard, sawOld, robbed>> /\ snap' = [snap EXCEPT ![p] = <<>>]
    BY <1>5 DEF Lines!Write
  <2> QED
    BY <2>1
<1>6. CASE Lines!Unlock(p)
  BY <1>6 DEF Lines!Unlock
<1>7. CASE Lines!TimesOut(p)
  BY <1>7 DEF Lines!TimesOut
<1>8. CASE Lines!Dies(p)
  BY <1>8 DEF Lines!Dies
<1> QED
  BY <1>1, <1>2, <1>3, <1>4, <1>5, <1>6, <1>7, <1>8 DEF Lines!Step

LEMMA BacklogInvStep ==
  ASSUME BacklogInv, [Lines!Next]_backlogVars
  PROVE  BacklogInv'
<1>1. CASE Lines!Work \/ \E i \in 1 .. MaxLines : Lines!ReopenTask(i)
  BY <1>1, BacklogWorkKeeps
<1>2. ASSUME NEW u \in Users, Lines!CleanUp(u) \/ \E t \in Texts : Lines!AddTask(u, t) \/ Lines!AddUnique(u, t)
      PROVE  BacklogInv'
  <2>1. \E o : Lines!Asks(u, o)
    BY <1>2, Zenon DEF Lines!CleanUp, Lines!AddTask, Lines!AddUnique
  <2> QED
    BY <2>1, BacklogAskKeeps
<1>3. CASE \E p \in Lines!Procs : Lines!Step(p) \/ Lines!TimesOut(p) \/ Lines!Dies(p)
  BY <1>3, BacklogStepKeeps
<1>4. CASE Lines!Ages \/ Lines!Lingers \/ UNCHANGED backlogVars
  <2>1. UNCHANGED <<file, guard, sawOld, robbed, at, snap>>
    BY <1>4 DEF Lines!Ages, Lines!Lingers, backlogVars
  <2> QED
    BY <2>1 DEF BacklogInv, PlaceType, Reapers, Within, Current, Lines!Inside
<1> QED
  BY <1>1, <1>2, <1>3, <1>4, Zenon DEF Lines!Next

\* No writer writes over what another wrote meanwhile, whoever dies with the lock and is
\* reaped, until a directory is taken from a process inside by somebody who saw an old one
\* (withBacklogLock): a slow writer, or the first of two waiters, is where updates are lost.
THEOREM NoLostUpdate == StoresSpec => []WritesAreCurrent
<1>1. StoresInit => BacklogInv
  BY BacklogInvInit DEF StoresInit
<1>2. BacklogInv /\ [StoresNext]_allVars => BacklogInv'
  <2>1. [StoresNext]_allVars => [Lines!Next]_backlogVars
    BY DEF StoresNext, allVars, backlogVars
  <2> QED
    BY <2>1, BacklogInvStep
<1>3. BacklogInv => WritesAreCurrent
  BY DEF BacklogInv, Current, WritesAreCurrent, Lines!WritesAreCurrent
<1> QED
  BY <1>1, <1>2, <1>3, PTL DEF StoresSpec
=============================================================================
