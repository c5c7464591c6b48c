CONSTANTS
    MaxLines = 3
    ManualTries = 2
    Faults = {"cancel", "listener", "exchange"}
SPECIFICATION FairSpec
INVARIANTS OneExchange TokenReachesUser SuccessPageNotInVain TerminalReleased
PROPERTIES FlowEnds
CHECK_DEADLOCK FALSE
