SPECIFICATION FairSpec
CONSTANTS
    Root = Root
    None = None
    Finding = {f1, f2}
    Chat = {c1}
    Rereview = {r1}
    Published = {f1}
    Changes = {"none", "edit", "move", "add"}
    Verdicts = {"none"}
    Parts = 2
    MaxFailures = 2
    MaxConflicts = 2
    MaxReconcileAttempts = 2
    HistoryLimit = None
    FaultLimit = 1
    CrashLimit = 1
    DiffLimit = 1
    RunLimit = 1
INVARIANTS TypeOK ReaderSeesVersions ThreadsMatch CommittedOnce
PROPERTIES EvaluatedOnCurrent AttemptsEnd
CHECK_DEADLOCK FALSE
