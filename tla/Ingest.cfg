CONSTANTS
  w1 = w1
  w2 = w2
  p1 = p1
  p2 = p2
  timeout = timeout
  Token = {"a", "b", "c"}
  VariableToken = {}
  Wildcard = "<*>"
  MaxDepth = 1
  MaxChildren = 2
  SimNum = 2
  SimDen = 5
  Workload = {w1, w2}
  Pod = {p1, p2}
  Digest = {}
  None = None
  Message <- MCMessage
  MinHistory = 0
  MinLines = 1
  PodRetention = 2
  HitRetention = 2
  Line <- MCLine
  MaxTime = 1
  MaxLines = 3
  Topic = {timeout, none}
  NoTopic = none
  dedupWindow = 2
  groupWindow = 1
  maxItems = 1
  Request = {r1, r2}
  Batch <- MCBatch
  errorTopic <- MCTopic
  SpreadWindow = 1
  Critical = 3
SPECIFICATION Spec
SYMMETRY Symmetry
INVARIANT AlertedExactlyOnce
INVARIANT EveryAnomalyAccounted
PROPERTY Promised
CHECK_DEADLOCK FALSE
