SPECIFICATION FairSpec
CONSTANTS
  Keys = {k1, k2}
  Bugs = {b1, b2}
  Nodes = {n1, n2}
  Faults = {}
  MaxFaults = 0
  MaxReports = 3
  MaxTold = 4
PROPERTY EveryReportTold
