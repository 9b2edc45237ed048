SPECIFICATION Spec
CONSTANTS
  Audits = {a1, a2}
  Passes = {p1, p2}
  Beans = {p1, p2}
  BeanOf <- OnePerNode
SYMMETRY Symmetry
INVARIANTS TypeOK ClosedOnlyWhenCleared VerdictFits
CHECK_DEADLOCK FALSE
