SPECIFICATION Spec
CONSTANTS
  m1 = m1
  m2 = m2
  m3 = m3
  m4 = m4
  n1 = n1
  n2 = n2
  MR = {m1}
  Note = {n1, n2}
  NoteMR <- OneRequest
  Worker = {w1}
  Cleaner = {c1}
  None = None
  MaxAckNotes = 1
  QueueCap = 1
  CleanupCap = 1
  Journaled = TRUE
  Rejected = {}
  Limit <- LimitRestart
  FaultLimit = 1
INVARIANTS JournalCoherent NoStrandedReaction ResumeFits
PROPERTY LedgerSpec
\* Every environment event is bounded: once they are used up the daemon is idle.
CHECK_DEADLOCK FALSE
