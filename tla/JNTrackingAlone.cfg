SPECIFICATION PolledSpec
CONSTANTS
  None = None
  NotValid = NotValid
  n1 = n1
  n2 = n2
  r1 = r1
  Bugs = {b1, b2}
  Synthetic = {b2}
  Ids = {a1, a2}
  Nodes = {n1}
  Plain = {r1}
  Synth = {}
  Filers = {f1}
  Pollers = {p1}
  NodeOf <- OneNode
  Faults = {"jnThrows", "noPdf"}
INVARIANTS  AttachedOnce 
 
