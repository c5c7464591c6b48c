CONSTANTS
    Procs = {p1, p2}
    Fields = {access}
    Secrets = {s1}
    None = None
    MaxAcct = 3
    Faults = {"keychain", "disabled", "disk", "crash", "power"}
SPECIFICATION Spec
SYMMETRY Interchangeable
INVARIANTS TypeOK FailureLeavesNoTrace
PROPERTIES ImplementsStore
