SPECIFICATION Spec
CONSTANTS
  None = None
  NotValid = NotValid
  Threads = {p1, p2}
  Traces = {t1, t2, t3}
  Faults = {"throws", "tooLarge", "crash"}
  MaxFaults = 1
  MaxList = 2
  MaxBuckets = 3
SYMMETRY Symmetry
INVARIANTS TypeOK AskedOnceADay AnalysisFits
