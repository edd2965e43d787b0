------------------------------ MODULE Watcher ------------------------------
(***************************************************************************)
(* The supervisor of the GitHub watcher (scripts/supervise-github-owner.ps1) *)
(* and the watcher it starts (scripts/watch-github-owner.ps1), on Windows. *)
(*                                                                         *)
(* Each supervisor takes a named mutex, starts a watcher behind a closed   *)
(* gate, puts it into a job object and opens the gate.  The watcher takes  *)
(* a mutex of its own and runs the command line again and again.  A job    *)
(* whose last handle is closed, also by the death of its owner, ends every *)
(* process in it; the process of a mutex that dies leaves the mutex to the *)
(* next who asks.  An ended process executes nothing, even where Windows   *)
(* still counts it as active.                                              *)
(***************************************************************************)
EXTENDS Naturals, FiniteSets

CONSTANTS
    Sups,      \* supervisors: invocations for one configuration and mode
    Byhand,    \* a watcher that somebody started by hand
    None,
    MaxStarts, MaxFaults   \* bounds: watchers started; deaths, refusals and operator acts

WatcherAssumption == None \notin Sups /\ Byhand # None /\ {MaxStarts, MaxFaults} \subseteq Nat

VARIABLES
    pc,       \* of each supervisor
    mutex,    \* the supervisor that has the mutex of configuration and mode
    child,    \* of each supervisor: the watcher it started, 0
    seen,     \* of each supervisor: whether it saw the pause while its watcher ran
    kid,      \* of each watcher: "none", "boot", "watch", "exit0", "exit1", "over"
    gate,     \* watchers whose gate is open
    tied,     \* watchers that are in their supervisor's job
    runs,     \* watchers whose command line runs
    owner,    \* the watcher that has the watchers' mutex, Byhand, or None
    paused, starts, faults

supervisor == <<pc, mutex, child, seen>>
watcher == <<kid, gate, tied, runs, owner>>
vars == <<supervisor, watcher, paused, starts, faults>>

Kids == 1 .. MaxStarts

Init ==
    /\ pc = [s \in Sups |-> "off"] /\ mutex = None
    /\ child = [s \in Sups |-> 0] /\ seen = [s \in Sups |-> FALSE]
    /\ kid = [c \in Kids |-> "none"] /\ gate = {} /\ tied = {} /\ runs = {}
    /\ owner \in {None, Byhand} /\ paused = FALSE /\ starts = 0 /\ faults = 0

Go(s, to) == pc' = [pc EXCEPT ![s] = to]
Fault == faults < MaxFaults /\ faults' = faults + 1
Exited(c) == kid[c] \in {"exit0", "exit1", "over"}

-----------------------------------------------------------------------------
(* The supervisor. *)

\* WaitOne(0): refused at once while another has the mutex.
Enter(s) ==
    /\ pc[s] = "off" /\ starts < MaxStarts
    /\ mutex = None /\ mutex' = s /\ Go(s, "top")
    /\ UNCHANGED <<child, seen, watcher, paused, starts, faults>>

\* Test-Paused at the head of the loop; the configuration may be unreadable then.
Top(s) ==
    /\ pc[s] = "top"
    /\ \/ paused /\ Go(s, "leave") /\ UNCHANGED faults
       \/ ~paused /\ starts < MaxStarts /\ Go(s, "start") /\ UNCHANGED faults
       \/ Fault /\ Go(s, "error")
    /\ UNCHANGED <<mutex, child, seen, watcher, paused, starts>>

Launch(s) ==
    /\ pc[s] = "start" /\ Go(s, "attach")
    /\ starts' = starts + 1 /\ child' = [child EXCEPT ![s] = starts']
    /\ seen' = [seen EXCEPT ![s] = FALSE] /\ kid' = [kid EXCEPT ![starts'] = "boot"]
    /\ UNCHANGED <<mutex, gate, tied, runs, owner, paused, faults>>

\* AssignProcessToJobObject refuses a process that has exited, and may fail otherwise.
Attach(s) ==
    /\ pc[s] = "attach"
    /\ \/ ~Exited(child[s]) /\ tied' = tied \cup {child[s]} /\ Go(s, "open") /\ UNCHANGED faults
       \/ Exited(child[s]) /\ Go(s, "error") /\ UNCHANGED <<tied, faults>>
       \/ Fault /\ Go(s, "error") /\ UNCHANGED tied
    /\ UNCHANGED <<mutex, child, seen, kid, gate, runs, owner, paused, starts>>

\* The pause once more, then the gate.
Look(s) ==
    /\ pc[s] = "open"
    /\ IF paused THEN seen' = [seen EXCEPT ![s] = TRUE] /\ Go(s, "stop")
                 ELSE Go(s, "gate") /\ UNCHANGED seen
    /\ UNCHANGED <<mutex, child, watcher, paused, starts, faults>>
Open(s) ==
    /\ pc[s] = "gate" /\ Go(s, "watch") /\ gate' = gate \cup {child[s]}
    /\ UNCHANGED <<mutex, child, seen, kid, tied, runs, owner, paused, starts, faults>>

\* Every 250 milliseconds: has the watcher exited, or is there a pause?
Watch(s) ==
    /\ pc[s] = "watch" /\ Go(s, "stop")
    /\ \/ Exited(child[s]) /\ UNCHANGED seen
       \/ ~Exited(child[s]) /\ paused /\ seen' = [seen EXCEPT ![s] = TRUE]
    /\ UNCHANGED <<mutex, child, watcher, paused, starts, faults>>

\* The end of the processes cs, and of what runs below them.
Ends(cs) ==
    /\ kid' = [c \in Kids |-> IF c \in cs /\ ~Exited(c) THEN "over" ELSE kid[c]]
    /\ runs' = runs \ cs /\ owner' = (IF owner \in cs THEN None ELSE owner)
InJob(s) == tied \cap {child[s]}

\* Ending the watcher alone.
StopsWatcher(s) ==
    /\ kid' = [kid EXCEPT ![child[s]] = IF Exited(child[s]) THEN @ ELSE "over"]
    /\ owner' = (IF owner = child[s] THEN None ELSE owner)
    /\ UNCHANGED runs
\* AdngWatcherJob.Stop: TerminateJobObject.
StopsJob(s) == Ends(InJob(s))

\* Every process of the job ended; it is empty within five seconds or not.
Stop(s) ==
    /\ pc[s] = "stop" /\ StopsJob(s)
    /\ \/ Go(s, "after") /\ UNCHANGED faults
       \/ Fault /\ Go(s, "error")
    /\ UNCHANGED <<mutex, child, seen, gate, tied, paused, starts>>

\* A clean exit, also the one of a watcher that found another at work, is not fought.
After(s) ==
    /\ pc[s] = "after" /\ child' = [child EXCEPT ![s] = 0]
    /\ IF seen[s] \/ paused \/ kid[child[s]] = "exit0" THEN Go(s, "leave") ELSE Go(s, "delay")
    /\ UNCHANGED <<mutex, seen, watcher, paused, starts, faults>>

Delay(s) ==
    /\ pc[s] = "delay" /\ Go(s, IF paused THEN "leave" ELSE "top")
    /\ UNCHANGED <<mutex, child, seen, watcher, paused, starts, faults>>

\* catch and finally: the job is closed and its processes with it; a watcher outside of it
\* is killed, before the mutex is released.
Error(s) ==
    /\ pc[s] = "error" /\ Ends({child[s]} \cap Kids)
    /\ child' = [child EXCEPT ![s] = 0] /\ Go(s, "leave")
    /\ UNCHANGED <<mutex, seen, gate, tied, paused, starts, faults>>

Leave(s) ==
    /\ pc[s] = "leave" /\ Go(s, "off") /\ mutex' = None
    /\ UNCHANGED <<child, seen, watcher, paused, starts, faults>>

Supervise(s) == \/ Enter(s) \/ Top(s) \/ Launch(s) \/ Attach(s) \/ Look(s) \/ Open(s) \/ Watch(s)
                \/ Stop(s) \/ After(s) \/ Delay(s) \/ Error(s) \/ Leave(s)

-----------------------------------------------------------------------------
(* The watcher. *)

Kid(c, to) == kid' = [kid EXCEPT ![c] = to]
Of(c) == UNCHANGED <<supervisor, gate, tied, paused, starts>>

\* Behind the gate; it is opened only for a watcher in its job.  Thirty seconds at most.
Begin(c) ==
    /\ kid[c] = "boot"
    /\ \/ c \in gate /\ owner = None /\ owner' = c /\ Kid(c, "watch")
       \/ c \in gate /\ owner # None /\ Kid(c, "exit0") /\ UNCHANGED owner
       \/ c \notin gate /\ Kid(c, "exit1") /\ UNCHANGED owner
    /\ Of(c) /\ UNCHANGED <<runs, faults>>

\* One run of the command line after the other, until the pause shows.
Command(c) ==
    /\ kid[c] = "watch"
    /\ \/ c \notin runs /\ runs' = runs \cup {c} /\ UNCHANGED <<kid, owner>>
       \/ c \in runs /\ runs' = runs \ {c} /\ UNCHANGED <<kid, owner>>
       \/ c \notin runs /\ paused /\ Kid(c, "exit0") /\ owner' = None /\ UNCHANGED runs
    /\ Of(c) /\ UNCHANGED faults

\* The watcher dies, or gives up on its configuration: its command line may run on.
WatcherFails(c) ==
    /\ kid[c] = "watch" /\ Fault /\ Kid(c, "exit1") /\ owner' = None
    /\ Of(c) /\ UNCHANGED runs

-----------------------------------------------------------------------------
(* Windows and the operator. *)

\* A supervisor is killed: its job handle closes, its mutex is abandoned.
Killed(s) ==
    /\ pc[s] # "off" /\ Fault /\ Go(s, "off") /\ Ends(InJob(s))
    /\ mutex' = None /\ child' = [child EXCEPT ![s] = 0]
    /\ UNCHANGED <<seen, gate, tied, paused, starts>>

Pause == /\ \/ ~paused /\ Fault /\ paused' = TRUE
            \/ paused /\ paused' = FALSE /\ UNCHANGED faults
         /\ UNCHANGED <<supervisor, watcher, starts>>

HandEnds == /\ owner = Byhand /\ owner' = None
            /\ UNCHANGED <<supervisor, kid, gate, tied, runs, paused, starts, faults>>

Next == \/ \E s \in Sups : Supervise(s) \/ Killed(s)
        \/ \E c \in Kids : Begin(c) \/ Command(c) \/ WatcherFails(c)
        \/ Pause \/ HandEnds

Spec == Init /\ [][Next]_vars

-----------------------------------------------------------------------------
(* Whatever runs the command line belongs to the watcher that the holder of the mutex is      *)
(* looking after and is in its job: neither a restart after a watcher that died, nor an error *)
(* or the death of a supervisor at any step leaves an old run beside a new one                *)
(* (supervise-github-owner.ps1:151, "Prove zero old workers").                                *)
OneRun == \A c \in runs : c \in tied /\ mutex # None /\ child[mutex] = c
=============================================================================
