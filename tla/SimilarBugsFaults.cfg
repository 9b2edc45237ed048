SPECIFICATION Spec
CONSTANTS
  Keys = {k1, k2}
  Bugs = {b1, b2}
  Nodes = {n1, n2}
  Faults = {"late", "chironThrows", "jnThrows", "jnRejects", "jnNoId", "crash"}
  MaxFaults = 1
  MaxReports = 3
  MaxTold = 4
SYMMETRY Symmetry
INVARIANTS TypeOK ReportsTracked AnsweredWasTold ToldPerEntry
