----------------------------- MODULE MCAdmission -----------------------------
(* What decides whether a task may run, for TLC.  A behaviour is one of four:  *)
(*   "faults"   the team ledger with failing writes, stop files and a          *)
(*              suspended daemon, without a cost cap;                          *)
(*   "routing"  the choice of an engine, with the first engine in two slots    *)
(*              and under a daily cap, the second a subscription at no cost;   *)
(*   "calls"    the calls of routed models;                                    *)
(*   "host"     pausing, starting and moving a project that has one task.      *)
EXTENDS MCTeamState, MCRouting, MCModelRoute, MCHandoff

CONSTANTS g1, g2
MCRotation == <<g1, g1, g2>>
MCSubscriptions == <<g2>>
MCCap == (g1 :> 2) @@ (g2 :> 0)

CONSTANTS k1, k2
\* Two candidates of the route share a breaker key.
MCRoute == <<k1, k1, k2>>

VARIABLE part
allVars == <<vars, routerVars, callVars, hostVars, part>>

\* A machine whose behaviour it is not rests in one of its initial states.
AdmissionInit == /\ part \in {"faults", "routing", "calls", "host"}
                 /\ Init /\ Router!Init
                 /\ Calls!Init /\ (part # "calls" => \A k \in Keys : breaker[k] = "closed")
                 /\ Host!Init /\ (part # "host" => halted /\ parked /\ merged = {})
AdmissionNext ==
    \/ part = "faults" /\ Next /\ UNCHANGED <<routerVars, callVars, hostVars, part>>
    \/ part = "routing" /\ Router!Next /\ UNCHANGED <<vars, callVars, hostVars, part>>
    \/ part = "calls" /\ Calls!Next /\ UNCHANGED <<vars, routerVars, hostVars, part>>
    \/ part = "host" /\ Host!Next /\ UNCHANGED <<vars, routerVars, callVars, part>>
AdmissionSpec == AdmissionInit /\ [][AdmissionNext]_allVars
=============================================================================
