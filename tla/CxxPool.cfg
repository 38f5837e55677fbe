SPECIFICATION FairSpec
CONSTANTS
    Workers = {w1, w2}
    Controllers = {c1, c2}
    Owners = {c1}
    Tasks = {t1, t2}
    NoTask = NoTask
    Nobody = Nobody
INVARIANTS Consistent
PROPERTIES WaitTruth TasksRun StopLeaves
CHECK_DEADLOCK FALSE
