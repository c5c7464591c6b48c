CONSTANTS
    n = n
    m = m
    v = v
    w = w
    x = x
    y = y
    f1 = f1
    f2 = f2
    Files = {f1, f2}
    Names = {n, m}
    Versions = {v, w}
    Bodies = {x, y}
    Docs <- Written
    Starts <- Initial
    Scripts = {None, f2}
    Savers = {s1, s2}
    None = None
    Empty = Empty
    Mixed = Mixed
    MaxEdits = 1
    MaxSaves = 2
SPECIFICATION FairSpec
INVARIANTS SavedIsOnDisk TornExplained SourceSaidIt
PROPERTIES Settles
CHECK_DEADLOCK FALSE
