CONSTANTS
    a = a
    b = b
    x = x
    y = y
    None = None
    Partial = Partial
    Procs = {p1, p2}
    Last = 2
    Contexts = {c}
    StackFields = {a, b}
    CloudFields = {a, b}
    Kinds = {a}
    Values = {x, y}
    Docs <- Some
    Starts <- Initial
    Commands <- Chosen
    MaxEdits = 1
    MaxTroubles = 1
    Faults = {"keychain", "disk", "crash", "power", "old"}
SPECIFICATION FairSpec
INVARIANTS TypeOK RollbackSafe ViewKept
PROPERTIES KeepsTrying
