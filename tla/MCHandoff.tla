----------------------------- MODULE MCHandoff -----------------------------
(* Handoff beside other machines: its state under names of its own.         *)
EXTENDS Naturals

CONSTANTS Tasks, Workers, Consoles, Nobody, HasTeam, MaxDeaths, MaxCommands
VARIABLES halted, parked, runner, gate, doing, command, worker, kind, ours, lock, merged, done,
          claims, draft, stage, copy, kept, home, deaths, commands

Host == INSTANCE Handoff
    WITH None <- Nobody, Team <- HasTeam, MaxFaults <- MaxDeaths, MaxOrders <- MaxCommands,
         stop <- halted, at <- doing, task <- ours, step <- stage, faults <- deaths, orders <- commands
hostVars == <<halted, parked, runner, gate, doing, command, worker, kind, ours, lock, merged, done,
              claims, draft, stage, copy, kept, home, deaths, commands>>

ASSUME HostAssumption == Host!HandoffAssumption

HandoverIsSafe == Host!HandoverIsSafe
=============================================================================
