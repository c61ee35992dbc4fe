CONSTANTS
  p1 = p1
  r1 = r1
  r2 = r2
  deploy = deploy
  cm = cm
  sec = sec
  e1 = e1
  e2 = e2
  e3 = e3
  alice = alice
  controller = controller
  key = key
  empty = empty
  Pod = {p1}
  ReplicaSet = {r1, r2}
  None = None
  OwnerOf <- MCOwnerOf
  ParentOf <- MCParentOf
  CreatedAt <- MCCreatedAt
  MountsOf <- MCMountsOf
  Config = {cm, sec}
  KindOf <- MCKindOf
  Skipped = {}
  Key = {key}
  Value = {empty}
  Absent = Absent
  EmptyValue = empty
  Malformed = {}
  maxHist = 1
  NoConfig = NoConfig
  Event = {e1, e2, e3}
  Warning = {e1, e2}
  Category <- MCCategory
  maxItems = 2
  Object = {cm, sec}
  Manager = {alice, controller}
  User = {alice}
  AuditKind <- MCKindOf
  TooNoisy = {}
  maxEvents = 2
  MaxWrites = 3
  MaxTime = 2
SPECIFICATION Spec
INVARIANT RolloutIsNewest
INVARIANT HistoryChains
INVARIANT NewestWarningKept
INVARIANT AuditTellsWrites
PROPERTY OwnersSettle
CHECK_DEADLOCK FALSE
