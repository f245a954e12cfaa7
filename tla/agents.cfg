SPECIFICATION FairSpec
CONSTANTS
  a1 = a1
  a2 = a2
  Agent = {a1, a2}
  Budgeted = {a1}
  Rungs = 2
  Limit = 1
  MaxToolCalls = 2
  MaxDuplicates = 2
  MaxOutputRetries = 1
  MaxBatch = 2
INVARIANTS TypeOK NothingLost
PROPERTY AgentsEnd
\* The loops end.
CHECK_DEADLOCK FALSE
