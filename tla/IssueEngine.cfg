CONSTANTS
  Object = {o1}
  Event = {backoff, evicted}
  IssueEvent = {backoff}
  UserState = {"silenced"}
  Limit = 1
  engineWindow = 1
  eventWindow = 1
  gcAge = 1
  maxIssues = 2
  Minute = 1
  Day = 8
  Workload = {w1}
  Template = {t1}
  Topic = {none}
  NoTopic = none
  dedupWindow = 2
  groupWindow = 1
  maxItems = 2
  MaxTime = 2
  MaxChanges = 2
  MaxEvents = 1
  MaxRecords = 1
  MaxUpdates = 1
SPECIFICATION Spec
INVARIANT RefreshComplete
PROPERTY LogStateIsTheUsers
PROPERTY SignalsSurface
CHECK_DEADLOCK FALSE
