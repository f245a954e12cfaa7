SPECIFICATION FairSpec
CONSTANTS
    j1 = j1
    j2 = j2
    m1 = m1
    Job = {j1, j2}
    MR = {m1}
    MrOf <- OneMR
    Child = {p1, p2}
    None = None
    Chat = Chat
    Limit = 1
    MaxAttempts = 2
    MaxConflicts = 1
    FaultLimit = 1
    CrashLimit = 1
    MoveLimit = 1
    MuteLimit = 1
    AskLimit = 3
    EventLimit = 5
INVARIANTS TypeOK InOrder PlanOnDisk TruthfulFollowup DoneIsFinished
PROPERTIES JobsFinish
CHECK_DEADLOCK FALSE
