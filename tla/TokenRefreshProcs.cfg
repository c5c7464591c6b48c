CONSTANTS
    p1 = p1
    p2 = p2
    r1 = r1
    r2 = r2
    d1 = d1
    d2 = d2
    None = None
    Procs <- TwoProcs
    Reqs <- TwoReqs
    ProcOf <- OneEach
    Dests = {d1, d2}
    MaxGen = 3
    Rotates = TRUE
    MayOmitExpiry = FALSE
    Faults = {"ghost", "login", "crash"}
SPECIFICATION Spec
SYMMETRY Alike
INVARIANTS PresentsStored NoLockout DestinationBound
PROPERTIES NeverOverwritesNewer SuccessMeansPersisted
