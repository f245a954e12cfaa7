SPECIFICATION Spec
CONSTANTS
    Root = Root
    None = None
    Finding = {f1}
    Chat = {c1}
    Rereview = {r1}
    Published = {f1}
    Changes = {"none", "move"}
    Verdicts = {"none"}
    Parts = 1
    MaxFailures = 2
    MaxConflicts = 2
    MaxReconcileAttempts = 2
    HistoryLimit = None
    FaultLimit = 0
    CrashLimit = 1
    DiffLimit = 0
    RunLimit = 1
INVARIANTS RecoveryResumes
CHECK_DEADLOCK FALSE
