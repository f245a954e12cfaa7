SPECIFICATION FairSpec
CONSTANTS
    d1 = d1
    d2 = d2
    d3 = d3
    q1 = q1
    q2 = q2
    a = a
    Delivery = {d1, d2, d3}
    Note = {q1, q2}
    NoteOf <- Deliveries
    Disc = {a}
    DiscOf <- Threads
    OptIn = FALSE
    Requested = {d2}
    AdmitCap = 2
    Slots = 1
    SeenCap = 2
    MaxAttempts = 2
    FaultLimit = 2
    MuteLimit = 1
    EditLimit = 1
    ShutdownLimit = 1
    ExpireLimit = 1
    EventLimit = 2
INVARIANTS TypeOK AnsweredOnce NoStrandedAck MarkMeansCoveredUnmuted
PROPERTIES AckNotStolen ChatsEnd
CHECK_DEADLOCK FALSE
