SPECIFICATION Spec
CONSTANTS
  m1 = m1
  m2 = m2
  m3 = m3
  m4 = m4
  n1 = n1
  n2 = n2
  MR = {m1}
  Note = {n1, n2}
  NoteMR <- OneRequest
  Worker = {w1}
  Cleaner = {c1}
  None = None
  MaxAckNotes = 1
  QueueCap = 1
  CleanupCap = 1
  Journaled = TRUE
  Rejected = {}
  Limit <- LimitAbort
  FaultLimit = 0
INVARIANT NoStrandedReaction
\* Every environment event is bounded: once they are used up the daemon is idle.
CHECK_DEADLOCK FALSE
