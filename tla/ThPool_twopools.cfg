SPECIFICATION NbFairSpec
CONSTANTS
    Workers = {w1}
    Clients = {c1}
    Jobs = {j1, j2}
    NoJob = NoJob
    Nobody = Nobody
    MaxPauses = 0
    SpuriousWakes = FALSE
PROPERTIES NeighbourJobsComplete
CHECK_DEADLOCK FALSE
