CONSTANTS
    Hubs = {h1, h2}
    Callbacks = 2
    Conns = {c1}
    Cap = 1
    MaxChanges = 2
    MaxHellos = 1
    None = None
SPECIFICATION Spec
INVARIANT HubNeverPanics
SYMMETRY Interchangeable
CHECK_DEADLOCK FALSE
