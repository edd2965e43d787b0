------------------------------ MODULE MCDaemons ------------------------------
(* The process lease, the supervision of one daemon and the supervisors of    *)
(* the GitHub watcher for TLC: a behaviour is one of one of the three.        *)
EXTENDS LockLease, TLC

CONSTANTS Daemons, Watchers, Bare, Stale, Watchdog, Grace, HardCap, MaxAge, MaxLosses,
          Sups, Byhand, MaxStarts, MaxDeaths
VARIABLES stop, gate, daemonLock, daemon, beat, ended, sentinel, observed, records, at, snap, losses
VARIABLES place, mutex, child, seen, kid, gates, tied, runs, holder, paused, starts, deaths
VARIABLE part

Sup == INSTANCE Supervision WITH lock <- daemonLock, pc <- at, faults <- losses, MaxFaults <- MaxLosses
supVars == <<stop, gate, daemonLock, daemon, beat, ended, sentinel, observed, records, at, snap, losses>>
Sw == INSTANCE Watcher WITH pc <- place, gate <- gates, owner <- holder, faults <- deaths,
                           MaxFaults <- MaxDeaths
swVars == <<place, mutex, child, seen, kid, gates, tied, runs, holder, paused, starts, deaths>>
allVars == <<vars, supVars, swVars, part>>

ASSUME WatchersAssumption == Sw!WatcherAssumption
ASSUME DaemonsAssumption == Sup!SupervisionAssumption

\* Behaviours of the one leave the others as they are, in one of their initial states.
LeaseRests == ~dir /\ \A p \in Proc : pc[p] = "idle"
DaemonRests == beat = MaxAge /\ ~observed
WatcherRests == holder = None
DaemonsInit == /\ part \in {"lease", "daemon", "watcher"}
               /\ Init /\ (part # "lease" => LeaseRests)
               /\ Sup!Init /\ (part # "daemon" => DaemonRests)
               /\ Sw!Init /\ (part # "watcher" => WatcherRests)
\* The watchers come to rest when the bound on their starts is reached.
DaemonsNext == \/ part = "lease" /\ Next /\ UNCHANGED <<supVars, swVars, part>>
               \/ part = "daemon" /\ Sup!SuperviseNext /\ UNCHANGED <<vars, swVars, part>>
               \/ part = "watcher" /\ Sw!Next /\ UNCHANGED <<vars, supVars, part>>
               \/ part = "watcher" /\ starts = MaxStarts /\ UNCHANGED allVars

\* The fairness of LockLease!FairSpec and of Supervision!FairSuperviseSpec.
Lease(A) == part = "lease" /\ A /\ UNCHANGED <<supVars, swVars, part>>
Daemon(A) == part = "daemon" /\ A /\ UNCHANGED <<vars, swVars, part>>
DaemonsSpec ==
    /\ DaemonsInit /\ [][DaemonsNext]_allVars
    /\ \A p \in Proc : WF_allVars(Lease(LeaseStep(p)))
    /\ WF_allVars(Lease(Age)) /\ WF_allVars(Lease(\E p \in Proc : Spawn(p)))
    /\ SF_allVars(Lease(\E p \in Proc : AcquireBegin(p)))
    /\ WF_allVars(Daemon(Sup!Tick))
    /\ \A d \in Daemons :
         /\ SF_allVars(Daemon(Sup!Boot(d)))
         /\ SF_allVars(Daemon(Sup!Leave(d) \/ \E idle \in BOOLEAN : Sup!StartRound(d, idle)))
         /\ WF_allVars(Daemon(Sup!BootWrites(d) \/ Sup!AttemptEnds(d) \/ Sup!RoundEnds(d)))
    /\ \A w \in Watchers :
         /\ WF_allVars(Daemon(Sup!Patrol(w) \/ Sup!SuperviseStep(w)))
         /\ SF_allVars(Daemon(Sup!Sound(w)))
         /\ SF_allVars(Daemon(Sup!EnterGate(w, "reap", "reaping")))
         /\ SF_allVars(Daemon(Sup!EnterGate(w, "launch", "launching")))
         /\ SF_allVars(Daemon(Sup!Reap(w) /\ daemon' # daemon))
         /\ SF_allVars(Daemon(Sup!Launch(w) /\ daemon' # daemon))

\* LockLease!AbandonedIsTaken, of the behaviours of the lease, while Proc has a pid
\* left that neither record nor a backend goes by.
PidsOut == Proc \subseteq {row, owner} \cup backend
LeaseIsTaken == part = "lease" => Abandoned ~> ~Abandoned \/ PidsOut
OneDaemonWorks == Sup!OneDaemonWorks
\* Watcher!OneRun.
OneRun == Sw!OneRun
\* Supervision!Recovers, of the behaviours that supervise a daemon.
Recovers == part = "daemon" => Sup!Recovers
=============================================================================
