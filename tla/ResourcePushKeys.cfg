CONSTANTS
    Folders = {}
    Others = {r1, r2, r3}
    Strangers = {s}
    Keys = {k1, k2}
    None = None
    Old = Old
    Kinds = {"unverified"}
    MaxConcurrency = 2
    Faults = {"api", "ghost"}
SPECIFICATION Spec
SYMMETRY Interchangeable
INVARIANTS PushedStaysUnlessReused LateWritesBounded
PROPERTIES CreatesNoDuplicate DryRunWritesNothing
CHECK_DEADLOCK FALSE
