CONSTANTS
    p1 = p1
    p2 = p2
    r1 = r1
    r2 = r2
    d1 = d1
    d2 = d2
    None = None
    Procs <- OneProc
    Reqs <- TwoReqs
    ProcOf <- SameProc
    Dests = {d1}
    MaxGen = 3
    Rotates = TRUE
    MayOmitExpiry = TRUE
    Faults = {"cancel", "expire", "login", "crash"}
SPECIFICATION FairSpec
INVARIANTS SingleFlight
PROPERTIES RequestCompletes
