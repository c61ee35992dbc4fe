CONSTANTS
  w1 = w1
  p1 = p1
  p2 = p2
  d1 = d1
  Token = {"a", "b", "ok", "7"}
  VariableToken = {"7"}
  Wildcard = "<*>"
  MaxDepth = 1
  MaxChildren = 1
  SimNum = 2
  SimDen = 5
  Workload = {w1}
  Pod = {p1, p2}
  Digest = {d1}
  None = None
  Message <- MCMessage
  Line <- MCLine
  MinHistory = 1
  MinLines = 2
  PodRetention = 1
  HitRetention = 2
  MaxTime = 3
  MaxLines = 4
SPECIFICATION Spec
INVARIANT FireOnce
INVARIANT ColdStartQuiet
INVARIANT PodsExact
INVARIANT BeforeAfterExact
CHECK_DEADLOCK FALSE
