SPECIFICATION FairSpec
CONSTANTS
    Workers = {w1, w2}
    Clients = {c1, c2}
    Jobs = {j1, j2}
    NoJob = NoJob
    Nobody = Nobody
    MaxPauses = 1
    SpuriousWakes = TRUE
INVARIANTS CountersExact NoStrandedJob FreedWhenQuiet
PROPERTIES WaitMeansDone ImplementsWorkPool JobsComplete WaitReturns DestroyTerminates
CHECK_DEADLOCK FALSE
