SPECIFICATION FairSpec
CONSTANTS
    Threads = {t1}
    Messages = {m1, m2}
    MaxConns = 2
    MaxTimers = 3
    MaxPosted = 1
    Overlap = FALSE
INVARIANTS StreamIntact Consistent
PROPERTIES GracefulClose CloseCompletes
CHECK_DEADLOCK FALSE
