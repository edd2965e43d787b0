---------------------------- MODULE GithubOwner ----------------------------
(***************************************************************************)
(* An account's repositories share one execution slot per tick             *)
(* (github/owner.ts).  A saved cursor orders them by their last attempt;   *)
(* the lock of the tick carries a recovery marker while a child that may   *)
(* execute has not told its result.                                        *)
(*                                                                         *)
(* Sequence numbers only order the repositories, so they are kept as       *)
(* ranks.  What a child does inside is GithubIssue; here it attempts       *)
(* something when its repository has work, and may fail to say so.         *)
(***************************************************************************)
EXTENDS Naturals, Sequences, FiniteSets, SequencesExt

CONSTANTS
    MaxRepo,        \* repositories are 1 .. MaxRepo, which is also their order by name
    Busy,           \* those which always have an issue to work on
    Churn,          \* those which come and go, be it by a rename or a lost permission
    MaxFaults       \* bound: crashes, lost results, failed marker writes

Repos == 1 .. MaxRepo
GithubOwnerAssumption ==
    MaxRepo \in Nat /\ Busy \subseteq Repos /\ Churn \subseteq Repos /\ MaxFaults \in Nat

VARIABLES
    listed,   \* what discovery returns
    found,    \* those of it that may be pushed to
    saved,    \* dispatch-cursor.json: seq, and of each known repository its entry
    cursor,   \* the same in memory
    pc, order,      \* where the tick is, and the repositories left
    current, executed,  \* the child's repository; the slot is used
    marker,   \* recovery-required.json in the lock
    lost,     \* repositories whose child may be at work without anybody waiting for it
    served, faults

vars == <<listed, found, saved, cursor, pc, order, current, executed, marker, lost, served, faults>>

Init ==
    /\ listed = Repos /\ found = Repos /\ saved = [seq |-> 0, repos |-> <<>>] /\ cursor = saved
    /\ pc = "idle" /\ order = <<>> /\ current = 0 /\ executed = FALSE
    /\ marker = FALSE /\ lost = {} /\ served = 0 /\ faults = 0

\* Names keep their progress; a new one joins at the present, never before everyone.
JoinFirst(c, new) ==
    [c EXCEPT !.repos = [r \in DOMAIN c.repos \cup new |->
        IF r \in DOMAIN c.repos THEN c.repos[r] ELSE [seq |-> 0, attempted |-> FALSE]]]
Join(c, new) ==
    [c EXCEPT !.repos = [r \in DOMAIN c.repos \cup new |->
        IF r \in DOMAIN c.repos THEN c.repos[r] ELSE [seq |-> c.seq, attempted |-> FALSE]]]

Before(c, q, r) ==
    LET a == c.repos[q] b == c.repos[r] IN
    \/ a.seq < b.seq
    \/ a.seq = b.seq /\ ~a.attempted /\ b.attempted
    \/ a.seq = b.seq /\ a.attempted = b.attempted /\ q < r

Served(c, r) ==
    [c EXCEPT !.seq = @ + 1, !.repos[r] = [seq |-> c.seq + 1, attempted |-> TRUE]]

\* Repositories that are not discovered any more are forgotten, those that may not be pushed
\* to for now are not; numbers become ranks.
Compress(c) ==
    LET kept == DOMAIN c.repos \cap listed
        used == {c.repos[r].seq : r \in kept} \cup {c.seq}
        Rank(n) == Cardinality({m \in used : m < n}) IN
    [seq |-> Rank(c.seq), repos |-> [r \in kept |-> [c.repos[r] EXCEPT !.seq = Rank(@)]]]

-----------------------------------------------------------------------------
\* The lock is taken: a dead holder's is, unless it carries a marker.
Start ==
    LET c == Join(saved, found \ DOMAIN saved.repos) IN
    /\ pc = "idle" /\ ~marker
    /\ cursor' = c /\ pc' = "scan" /\ executed' = FALSE
    /\ order' = SetToSortSeq(found, LAMBDA q, r : Before(c, q, r))
    /\ UNCHANGED <<listed, found, saved, current, marker, lost, served, faults>>

\* The marker is on disk before a child that may execute is called.
Dispatch ==
    /\ pc = "scan" /\ order # <<>> /\ ~executed
    /\ marker' = TRUE /\ current' = Head(order) /\ order' = Tail(order) /\ pc' = "child"
    /\ UNCHANGED <<listed, found, saved, cursor, executed, lost, served, faults>>

\* With the slot used the others are synchronised only.
Sync ==
    /\ pc = "scan" /\ order # <<>> /\ executed
    /\ order' = Tail(order)
    /\ UNCHANGED <<listed, found, saved, cursor, pc, current, executed, marker, lost, served, faults>>

\* A known result clears the marker, and an attempt uses the slot.
Returns ==
    /\ pc = "child" /\ marker' = FALSE /\ pc' = "scan" /\ current' = 0
    /\ IF current \in Busy
       THEN cursor' = Served(cursor, current) /\ executed' = TRUE /\ served' = current
       ELSE UNCHANGED <<cursor, executed, served>>
    /\ UNCHANGED <<listed, found, saved, order, lost, faults>>

\* The child throws, which counts as an attempt, or returns that recovery is required, after
\* an attempt or not: the lease stays with its marker, and the tick ends.
Unknown ==
    /\ pc = "child" /\ faults < MaxFaults /\ faults' = faults + 1
    /\ cursor' \in {cursor, Served(cursor, current)} /\ lost' = lost \cup {current}
    /\ order' = <<>> /\ pc' = "scan" /\ executed' = TRUE /\ current' = 0
    /\ UNCHANGED <<listed, found, saved, marker, served>>

\* The marker cannot be written, or is in place but not known to be on disk: no child is
\* called, yet the lease is kept and the attempt counts.  (Without a marker it goes with
\* the process.)
CannotMark ==
    /\ pc = "scan" /\ order # <<>> /\ ~executed /\ faults < MaxFaults /\ faults' = faults + 1
    /\ cursor' = Served(cursor, Head(order)) /\ marker' \in BOOLEAN
    /\ order' = <<>> /\ executed' = TRUE
    /\ UNCHANGED <<listed, found, saved, pc, current, lost, served>>

\* The authorisation is withdrawn, or a child that only synchronises requires recovery: the
\* tick ends, and nothing counts.
GivesUp ==
    /\ pc = "scan" /\ order # <<>> /\ faults < MaxFaults /\ faults' = faults + 1
    /\ order' = <<>>
    /\ UNCHANGED <<listed, found, saved, cursor, pc, current, executed, marker, lost, served>>

Finish ==
    /\ pc = "scan" /\ order = <<>>
    /\ saved' = Compress(cursor) /\ cursor' = saved' /\ pc' = "idle" /\ executed' = FALSE
    /\ UNCHANGED <<listed, found, order, current, marker, lost, served, faults>>

\* The process dies: what its child does now nobody sees, and the cursor is as it was.
Crash ==
    /\ pc # "idle" /\ faults < MaxFaults /\ faults' = faults + 1
    /\ lost' = IF pc = "child" THEN lost \cup {current} ELSE lost
    /\ cursor' = saved /\ pc' = "idle" /\ order' = <<>> /\ current' = 0 /\ executed' = FALSE
    /\ UNCHANGED <<listed, found, saved, marker, served>>

\* An operator who has seen that nothing runs any more lifts the lease.
OperatorRecovers ==
    /\ pc = "idle" /\ marker /\ marker' = FALSE /\ lost' = {}
    /\ UNCHANGED <<listed, found, saved, cursor, pc, order, current, executed, served, faults>>

\* A repository gets or loses its name, or the permission to push to it.
Discovery ==
    /\ pc = "idle"
    /\ \E r \in Churn :
         \/ /\ listed' = (listed \ {r}) \cup ({r} \ listed)
            /\ found' = IF r \in listed THEN found \ {r} ELSE found \cup {r}
         \/ /\ r \in listed /\ found' = (found \ {r}) \cup ({r} \ found) /\ UNCHANGED listed
    /\ UNCHANGED <<saved, cursor, pc, order, current, executed, marker, lost, served, faults>>

Tick == Start \/ Dispatch \/ Sync \/ Returns \/ Finish \/ OperatorRecovers
Next == Tick \/ Unknown \/ CannotMark \/ GivesUp \/ Crash \/ Discovery

Spec == Init /\ [][Next]_vars
\* Ticks come, children end, operators act.
FairSpec == Spec /\ WF_vars(Returns \/ Dispatch \/ Sync \/ Finish) /\ SF_vars(Start)
                 /\ WF_vars(OperatorRecovers)

-----------------------------------------------------------------------------
\* While a child may be at work that nobody waits for, no other one is started
\* (writeRecoveryMarker, the catch clause, and the lock of a process that died).
UnknownHeld == pc = "child" => lost = {}

\* A repository with work is served again and again, however often others come and go
\* under new names or lose and regain their permission, and whatever crashes.
EachServed == \A r \in Busy \ Churn : []<>(served = r)
=============================================================================
