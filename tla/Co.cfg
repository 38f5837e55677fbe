SPECIFICATION FairSpec
CONSTANTS
    Coroutines = {a, b, c}
    Stoppers = {s1, s2}
    Null = Null
    MaxRuns = 2
INVARIANTS Consistent
PROPERTIES TakesTurns StopReturns
CHECK_DEADLOCK FALSE
