---------------------------- MODULE MCModelRoute ----------------------------
(* ModelRoute beside other machines: its state under names of its own.       *)
EXTENDS Naturals, Sequences

CONSTANTS Callers, Keys, Route, MaxAttempts, Cooldown, MaxTime, MaxDamages, NoCaller
VARIABLES now, breaker, retryAt, marker, probe, where, candidate, tried, failed, halfOpen, result,
          damages

Calls == INSTANCE ModelRoute
    WITH None <- NoCaller, MaxFaults <- MaxDamages, pc <- where, at <- candidate,
         faults <- damages
callVars == <<now, breaker, retryAt, marker, probe, where, candidate, tried, failed, halfOpen,
              result, damages>>

ASSUME CallsAssumption == Calls!ModelRouteAssumption

\* ModelRoute!CallsAreSafe: one probe at a time, a quarantine for good, and a fallback only
\* after a failure that allows it.
CallsAreSafe == Calls!CallsAreSafe
=============================================================================
