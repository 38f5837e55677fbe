SPECIFICATION Spec
CONSTANTS
    Timeouts = {t1, t2}
    Periods = {p1}
    Idles = {i1}
    Sources = {io}
    Delays = {2}
    Repeats = {1, 9}
    Forever = 9
    None = None
    MaxLate = 1
    DelAfterReset = TRUE
INVARIANTS NoUseAfterFree
CHECK_DEADLOCK FALSE
