SPECIFICATION Spec
CONSTANTS
  None = None
  Refused = Refused
  Threads = {t1, t2}
  Buckets = {b1, b2}
  Faults = {"chironThrows", "chironRefuses", "yuvaThrows", "crash"}
SYMMETRY Symmetry
INVARIANTS TypeOK BookedOnItsBucket BookedIsFiled FiledIsClosable NothingLost
CHECK_DEADLOCK FALSE
