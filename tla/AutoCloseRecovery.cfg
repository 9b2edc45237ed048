SPECIFICATION RecoverySpec
CONSTANTS
  None = None
  Bugs = {b1}
  Ids = {a1, a2, a3}
  Closers = {c1}
  Auditors = {s1}
  Workers = {w1}
  RetryCount = 2
  PickLimit = 2
  MaxLost = 1
  Faults = {"chironThrows", "chironRefuses", "jnThrows", "jnRejects"}
PROPERTIES EveryAuditEnds ApprovedIsClosed
