CONSTANTS
  t1 = t1
  t2 = t2
  t3 = t3
  timeout = timeout
  Workload = {w1, w2}
  Template = {t1, t2, t3}
  Topic = {timeout, none}
  NoTopic = none
  Error <- MCError
  Severity <- MCSeverity
  dedupWindow = 3
  groupWindow = 2
  maxItems = 2
  MaxPods = 2
  MaxLag = 1
  MaxRecords = 3
  MaxUpdates = 1
  MaxTime = 4
  summaryWindow = 4
SPECIFICATION Spec
SYMMETRY Symmetry
INVARIANT IndexesAgree
INVARIANT NoRepeatedAlert
INVARIANT OneCardPerTopicInOrder
INVARIANT PrimaryIsWorst
PROPERTY CardsOnlyGain
CHECK_DEADLOCK FALSE
