SPECIFICATION Spec
CONSTANTS
  None = None
  NotValid = NotValid
  n1 = n1
  n2 = n2
  r1 = r1
  Bugs = {b1, b2}
  Synthetic = {b2}
  Ids = {a1, a2}
  Nodes = {n1, n2}
  Plain = {r1}
  Synth = {q1}
  Filers = {}
  Pollers = {p1}
  NodeOf <- TwoNodes
  Faults = {"chironThrows", "jnThrows", "noPdf", "crash"}
SYMMETRY Symmetry
INVARIANT ResultOfItsBug
PROPERTY AnsweredAsAsked
