SPECIFICATION Spec
CONSTANTS
  Audits = {a1, a2}
  Passes = {p1, p2}
  Beans = {o1}
  BeanOf <- OneNode
INVARIANTS ClosedOnlyWhenCleared
CHECK_DEADLOCK FALSE
