CONSTANTS
    Folders = {f1, f2}
    Others = {r1}
    Strangers = {}
    Keys = {}
    None = None
    Old = Old
    Kinds = {"plain", "foreign", "unsupported"}
    MaxConcurrency = 2
    Faults = {"api", "interrupt"}
SPECIFICATION FairSpec
INVARIANTS ParentFirst ParentExistsOrStopped CyclesPushNothing Accounted
PROPERTIES PushReturns
CHECK_DEADLOCK FALSE
