CONSTANTS
    Hubs = {h1, h2}
    Callbacks = 2
    Conns = {c1}
    Cap = 1
    MaxChanges = 3
    MaxHellos = 2
    None = None
SPECIFICATION FairSpec
PROPERTIES NoChangeMissed ChangesBroadcast HandlersEnd
CHECK_DEADLOCK FALSE
