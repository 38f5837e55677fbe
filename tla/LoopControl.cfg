SPECIFICATION ControlFairSpec
CONSTANTS
    Posters = {p1, p2}
    Creator = p1
    Runner = run
    Customs = {e1, e2}
    NoEvent = NoEvent
    Nobody = Nobody
    MaxRuns = 2
INVARIANTS ControlConsistent
PROPERTIES ImplementsWorkPool PostedRun StopEndsLoop
CHECK_DEADLOCK FALSE
