SPECIFICATION FairSpec
CONSTANTS
    m1 = m1
    m2 = m2
    e1 = e1
    e2 = e2
    MR <- MCMR
    Entry <- MCEntry
    Tomb = Tomb
    None = None
    Unsure = Unsure
    Clearing = Clearing
    MaxRetirements = 1
    OpFaults = 2
    FaultLimit = 3
    CallLimit = 3
    StopLimit = 1
    CrashLimit = 1
    PowerLimit = 1
INVARIANTS TypeOK RetirementHasCarrier
PROPERTIES ImplementsRegister TombstonesGo
CHECK_DEADLOCK FALSE
