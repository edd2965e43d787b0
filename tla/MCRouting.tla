----------------------------- MODULE MCRouting -----------------------------
(* Routing beside other machines: its state under names of its own.         *)
EXTENDS Integers

CONSTANTS Engines, Rotation, Subscriptions, ZeroCost, Cap, Unset, MinRun, MinSamples,
          WeightSamples, MaxSlots, Window, MaxDay, MaxRows, MaxLosses
VARIABLES day, log, file, cached, choice, tags, engine, spared, unprobed, losses

Router == INSTANCE Routing
    WITH None <- Unset, pc <- choice, faults <- losses, MaxFaults <- MaxLosses
routerVars == <<day, log, file, cached, choice, tags, engine, spared, unprobed, losses>>

ASSUME RouterAssumption == Router!RoutingAssumption

LimitsKept == Router!LimitsKept
=============================================================================
