SPECIFICATION FairSpec
CONSTANTS
    Workers = {w1, w2}
    Producers = {p1, p2}
    Stoppers = {s1, s2}
    Tasks = {t1, t2, t3, t4}
    NoTask = NoTask
    Limit = 2
INVARIANTS Consistent NobodyForgotten
PROPERTIES TasksRun StopReturns
CHECK_DEADLOCK FALSE
