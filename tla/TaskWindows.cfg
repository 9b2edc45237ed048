SPECIFICATION FairSpec
CONSTANTS
  Consumers = {c1, c2}
  Workers = {w1, w2}
  None = None
  Faults = {"splunkThrows", "stepThrows", "slow", "crash"}
  MaxClock = 2
  MaxQueue = 1
INVARIANTS TypeOK NothingSkipped AuditedIsDone DoneOnce
PROPERTY EveryHalfHourDone
