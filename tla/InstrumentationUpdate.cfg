CONSTANTS
    n1 = n1
    n2 = n2
    s = s
    Absent = Absent
    Procs = {p1, p2}
    Namespaces = {n1, n2}
    Services = {s}
    Commands <- Chosen
    Configs <- Initial
    MaxRetries = 1
    MaxRounds = 1
    MaxLate = 1
    Faults = {"late", "lost"}
SPECIFICATION FairSpec
INVARIANTS UndoesOnlyTheUnseen
PROPERTIES ReportIsTrue CommandsEnd
CHECK_DEADLOCK FALSE
