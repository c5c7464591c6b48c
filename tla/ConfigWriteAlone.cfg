CONSTANTS
    Procs = {p1}
    Fields = {access, refresh}
    Secrets = {s1, s2}
    None = None
    MaxAcct = 4
    Faults = {"keychain", "disabled", "power"}
SPECIFICATION Spec
SYMMETRY Interchangeable
INVARIANTS NeverDangling
PROPERTIES SuccessSettles
