SPECIFICATION FairSpec
CONSTANTS
    Exec = {e1}
    Operator = {op}
    Cycle = cycle
    Steerable = {e1}
    MaxEnvelopes = 2
    MaxPending = 2
    MaxTurns = 2
    MaxFaults = 1
INVARIANTS DeliveredAsReceipted AcceptedConfirmed
PROPERTIES Settled
