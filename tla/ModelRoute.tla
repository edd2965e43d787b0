----------------------------- MODULE ModelRoute -----------------------------
(***************************************************************************)
(* callRoutedAgent of model-route-policy.ts: one logical call tries the    *)
(* candidates of its route in order, at most MaxAttempts of them, and      *)
(* falls back only after a passing failure.  A breaker per endpoint,       *)
(* credential and model is kept in files that all callers share, in this   *)
(* process or another: an OPEN receipt with its cooldown, a quarantine     *)
(* marker beside it, and a lease for the single request that may probe a   *)
(* candidate whose cooldown is over.                                       *)
(*                                                                         *)
(* A step of a caller runs up to its next await or its next file: another  *)
(* caller may come between reading the breaker and taking the lease, and   *)
(* between reading it and removing it.  The lease is exclusive, and free   *)
(* when its owner has died (LockLease).                                    *)
(***************************************************************************)
EXTENDS Naturals, Sequences, FiniteSets

CONSTANTS
    Callers,
    Keys,         \* breaker keys
    Route,        \* the keys of the candidates, in the order of the policy
    None,
    MaxAttempts,  \* the policy's limit on requests
    Cooldown,     \* how long a failure keeps a breaker open
    MaxTime,      \* bound: the clock stops here
    MaxFaults     \* bound: deaths of callers and damaged receipts

ModelRouteAssumption ==
    /\ Route \in Seq(Keys) /\ Len(Route) > 0 /\ None \notin Callers \cup Keys
    /\ MaxAttempts \in Nat \ {0} /\ {Cooldown, MaxTime, MaxFaults} \subseteq Nat

VARIABLES
    now,
    breaker,      \* <key>.json: "closed" (no file), "open", "quarantined", "damaged"
    retryAt,      \* the end of its cooldown
    marker,       \* the keys with a <key>.quarantine.json
    probe,        \* the owner of each <key>.probe lock, None
    pc,           \* where each caller is
    at,           \* the candidate it looks at
    tried,        \* the keys it sent a request to, in order
    failed,       \* what became of those requests
    halfOpen,     \* its request holds the lease
    result,       \* "none", "completed", "blocked", "unavailable"
    faults

files == <<breaker, retryAt, marker>>
call == <<at, tried, failed, halfOpen, result>>
vars == <<now, files, probe, pc, call, faults>>

\* isFallbackAllowed: a transient status, the transport or the time limit of one
\* request may fall back; cancellation, credentials, an invalid request or response
\* and an unknown identity end the call.
Classes == {"retriable", "final"}

Init ==
    /\ now = 0
    \* Earlier calls may have left a breaker open.
    /\ breaker \in [Keys -> {"closed", "open"}] /\ retryAt = [k \in Keys |-> 0] /\ marker = {}
    /\ probe = [k \in Keys |-> None]
    /\ pc = [c \in Callers |-> "next"] /\ at = [c \in Callers |-> 1]
    /\ tried = [c \in Callers |-> <<>>] /\ failed = [c \in Callers |-> <<>>]
    /\ halfOpen = [c \in Callers |-> FALSE] /\ result = [c \in Callers |-> "none"]
    /\ faults = 0

Key(c) == Route[at[c]]
Go(c, s) == pc' = [pc EXCEPT ![c] = s]
End(c, r) == Go(c, "ended") /\ result' = [result EXCEPT ![c] = r]
Tried(c) == {tried[c][i] : i \in DOMAIN tried[c]}

\* readBreaker: the marker speaks before the file.
State(k) == IF k \in marker THEN "quarantined" ELSE breaker[k]

\* release removes the caller's own lease only.
Release(c) == probe' = [k \in Keys |-> IF probe[k] = c THEN None ELSE probe[k]]

-----------------------------------------------------------------------------
(* One logical call. *)

\* The candidate is passed over: already tried, unusable, cooling, or probed by
\* somebody else.
Skip(c) ==
    /\ Go(c, "next") /\ at' = [at EXCEPT ![c] = @ + 1]
    /\ UNCHANGED <<now, files, probe, tried, failed, halfOpen, result, faults>>

Send(c, leased) ==
    /\ Go(c, "waiting")
    /\ tried' = [tried EXCEPT ![c] = Append(@, Key(c))]
    /\ halfOpen' = [halfOpen EXCEPT ![c] = leased]
    /\ UNCHANGED <<now, files, at, failed, result, faults>>

\* The head of the loop, as far as the request of a closed candidate or the
\* decision to ask for the lease.
Consider(c) ==
    /\ pc[c] = "next" /\ at[c] <= Len(Route) /\ Len(tried[c]) < MaxAttempts
    /\ \/ (Key(c) \in Tried(c) \/ State(Key(c)) \in {"quarantined", "damaged"}) /\ Skip(c)
       \/ /\ Key(c) \notin Tried(c) /\ State(Key(c)) = "open" /\ retryAt[Key(c)] > now
          /\ Skip(c)
       \/ /\ Key(c) \notin Tried(c) /\ State(Key(c)) = "open" /\ retryAt[Key(c)] <= now
          /\ Go(c, "probing") /\ UNCHANGED <<now, files, probe, call, faults>>
       \/ /\ Key(c) \notin Tried(c) /\ State(Key(c)) = "closed"
          /\ Send(c, FALSE) /\ UNCHANGED probe

\* acquireProbe, then the request.
Probe(c) ==
    /\ pc[c] = "probing"
    /\ IF probe[Key(c)] = None
       THEN probe' = [probe EXCEPT ![Key(c)] = c] /\ Send(c, TRUE)
       ELSE Skip(c)

\* The caller's signal or the total deadline, before a request goes out.
Interrupted(c) ==
    /\ pc[c] \in {"next", "probing"} /\ at[c] <= Len(Route) /\ Len(tried[c]) < MaxAttempts
    /\ End(c, "blocked")
    /\ UNCHANGED <<now, files, probe, at, tried, failed, halfOpen, faults>>

\* No candidate is left, or no attempt.
Exhausted(c) ==
    /\ pc[c] = "next" /\ (at[c] > Len(Route) \/ Len(tried[c]) >= MaxAttempts)
    /\ End(c, "unavailable")
    /\ UNCHANGED <<now, files, probe, at, tried, failed, halfOpen, faults>>

\* openBreaker reads, and writes unless it has read a quarantine.
Fails(c, cls) ==
    LET k == Key(c) IN
    /\ pc[c] = "waiting"
    /\ failed' = [failed EXCEPT ![c] = Append(@, cls)]
    /\ IF cls = "retriable"
       THEN /\ Go(c, IF State(k) = "quarantined" THEN "releasing" ELSE "opening")
            /\ UNCHANGED <<probe, result>>
       ELSE End(c, "blocked") /\ Release(c)
    /\ UNCHANGED <<now, files, at, tried, halfOpen, faults>>

Opens(c) ==
    /\ pc[c] = "opening"
    /\ breaker' = [breaker EXCEPT ![Key(c)] = "open"]
    /\ retryAt' = [retryAt EXCEPT ![Key(c)] = now + Cooldown]
    /\ Go(c, "releasing")
    /\ UNCHANGED <<now, marker, probe, call, faults>>

Releases(c) ==
    /\ pc[c] = "releasing" /\ Release(c)
    /\ Go(c, "next") /\ at' = [at EXCEPT ![c] = @ + 1] /\ halfOpen' = [halfOpen EXCEPT ![c] = FALSE]
    /\ UNCHANGED <<now, files, tried, failed, result, faults>>

QuarantineInReceipt(c) ==
    /\ pc[c] = "waiting"
    /\ Go(c, "marked") /\ failed' = [failed EXCEPT ![c] = Append(@, "identity-violation")]
    /\ UNCHANGED <<now, files, probe, at, tried, halfOpen, result, faults>>

\* An answer from an excluded model: quarantineRouteCandidate writes the marker,
\* then the receipt.
Quarantine(c) ==
    /\ pc[c] = "waiting"
    /\ marker' = marker \cup {Key(c)}
    /\ Go(c, "marked") /\ failed' = [failed EXCEPT ![c] = Append(@, "identity-violation")]
    /\ UNCHANGED <<now, breaker, retryAt, probe, at, tried, halfOpen, result, faults>>

QuarantineReceipt(c) ==
    /\ pc[c] = "marked"
    /\ breaker' = [breaker EXCEPT ![Key(c)] = "quarantined"]
    /\ End(c, "blocked") /\ Release(c)
    /\ UNCHANGED <<now, retryAt, marker, at, tried, failed, halfOpen, faults>>

\* A usable answer: clearBreaker looks at the breaker, then removes its receipt.
Succeeds(c) ==
    LET k == Key(c) IN
    /\ pc[c] = "waiting"
    /\ IF State(k) \in {"quarantined", "damaged"}
       THEN End(c, "blocked") /\ Release(c)
       ELSE Go(c, "clearing") /\ UNCHANGED <<probe, result>>
    /\ UNCHANGED <<now, files, at, tried, failed, halfOpen, faults>>

Clears(c) ==
    /\ pc[c] = "clearing"
    /\ breaker' = [breaker EXCEPT ![Key(c)] = "closed"]
    /\ End(c, "completed") /\ Release(c)
    /\ UNCHANGED <<now, retryAt, marker, at, tried, failed, halfOpen, faults>>

-----------------------------------------------------------------------------
(* Time and faults. *)

Tick ==
    /\ now < MaxTime /\ now' = now + 1
    /\ UNCHANGED <<files, probe, pc, call, faults>>

\* The process of the caller dies; its lease is free for the next one.
Dies(c) ==
    /\ pc[c] # "ended" /\ faults < MaxFaults /\ faults' = faults + 1
    /\ End(c, "none") /\ Release(c)
    /\ UNCHANGED <<now, files, at, tried, failed, halfOpen>>

\* A receipt that no longer parses.
Damage(k) ==
    /\ breaker[k] = "open" /\ faults < MaxFaults /\ faults' = faults + 1
    /\ breaker' = [breaker EXCEPT ![k] = "damaged"]
    /\ UNCHANGED <<now, retryAt, marker, probe, pc, call>>

Step(c) ==
    \/ Consider(c) \/ Probe(c) \/ Exhausted(c)
    \/ \E cls \in Classes : Fails(c, cls)
    \/ Opens(c) \/ Releases(c) \/ Quarantine(c) \/ QuarantineReceipt(c) \/ Succeeds(c) \/ Clears(c)

Next ==
    \/ Tick
    \/ \E c \in Callers : Step(c) \/ Interrupted(c) \/ Dies(c)
    \/ \E k \in Keys : Damage(k)

Spec == Init /\ [][Next]_vars

-----------------------------------------------------------------------------
(* Properties. *)

Sending == {"waiting", "opening", "marked", "clearing", "releasing"}
Outcomes == Classes \cup {"identity-violation"}

\* Every variable has its type.
TypeOK ==
    /\ now \in 0..MaxTime /\ retryAt \in [Keys -> Nat] /\ faults \in 0..MaxFaults
    /\ breaker \in [Keys -> {"closed", "open", "quarantined", "damaged"}] /\ marker \subseteq Keys
    /\ probe \in [Keys -> Callers \cup {None}]
    /\ pc \in [Callers -> Sending \cup {"next", "probing", "ended"}]
    /\ at \in [Callers -> 1..Len(Route) + 1]
    /\ tried \in [Callers -> Seq(Keys)] /\ failed \in [Callers -> Seq(Outcomes)]
    /\ halfOpen \in [Callers -> BOOLEAN]
    /\ result \in [Callers -> {"none", "completed", "blocked", "unavailable"}]

\* At most one request probes a candidate whose breaker is open, however callers
\* interleave or die (acquireProbe).
OneProbe ==
    \A c, d \in Callers :
        /\ c # d /\ pc[c] \in Sending /\ pc[d] \in Sending /\ halfOpen[c] /\ halfOpen[d]
        => Key(c) # Key(d)

\* An answer that breaks the policy is never forgotten: its candidate stays
\* quarantined, whatever other requests open or close (quarantineRouteCandidate,
\* openBreaker, clearBreaker).
QuarantineSticks ==
    \A c \in Callers : pc[c] = "ended" =>
        \A i \in DOMAIN failed[c] : failed[c][i] = "identity-violation" => State(tried[c][i]) = "quarantined"

\* A call sends no second request after a failure that may not fall back, and none
\* twice to one breaker key; what it completed was its last request.
FallsBackOnlyIfSafe ==
    \A c \in Callers :
        /\ Len(tried[c]) <= MaxAttempts
        /\ \A i, j \in DOMAIN tried[c] : i # j => tried[c][i] # tried[c][j]
        /\ \A i \in DOMAIN failed[c] : i < Len(tried[c]) => failed[c][i] = "retriable"
        /\ result[c] = "completed" => Len(failed[c]) = Len(tried[c]) - 1

\* The three together, as a call of callRoutedAgent promises them.
CallsAreSafe == OneProbe /\ QuarantineSticks /\ FallsBackOnlyIfSafe

\* A request never goes to a candidate inside a cooldown that was running when
\* it was sent.
CoolingRespected ==
    [][\A c \in Callers : pc[c] = "probing" /\ pc'[c] = "waiting" =>
          retryAt[Key(c)] <= now]_vars
=============================================================================
