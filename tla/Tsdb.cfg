SPECIFICATION Spec
CONSTANTS
    NSectors = 3
    Room = 6
    Sizes = {1, 3}
    Steps = {0, 2}
    MaxLogs = 5
    MaxCrashes = 2
    CrashPoints = {"ready","endpre","endwrite","erase","using","start","pre","write","format","formatmagic"}
    SplitCrashes = FALSE
INVARIANTS Consistent EachTSL 
PROPERTIES DropsOldest
CHECK_DEADLOCK FALSE
