SPECIFICATION FairSpec
CONSTANTS
    Timeouts = {t1, t2}
    Periods = {p1}
    Idles = {i1}
    Sources = {io}
    Delays = {2}
    Repeats = {1, 9}
    Forever = 9
    None = None
    MaxLate = 1
    DelAfterReset = FALSE
INVARIANTS Consistent NoUseAfterFree
PROPERTIES TimersFire DeletedNeverCalled ResetPostpones
CHECK_DEADLOCK FALSE
