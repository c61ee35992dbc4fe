CONSTANTS
  Req = {q1, q2}
  None = None
  MaxOps = 4
  Cluster = {c1, c2}
  Org = {o1}
  Name = {n1}
  User = {u1}
  Namespace = {ns1}
  Scope = {viewer}
  InCluster = TRUE
  Home = Home
  Slug = {s1, s2}
  Email = {m1}
  Token = {t1, t2}
  SessionTTL = 1
  MaxTime = 2
  Process = {d1, d2}
  Main = d1
  Files = 2
  Repeatable = {2}
SPECIFICATION Spec
INVARIANT MigratedInOrder
INVARIANT CacheFollowsTable
INVARIANT ProxyIsOfItsCluster
INVARIANT OnboardedHasRole
INVARIANT EndedStaysEnded
INVARIANT OrgHasAdmin
PROPERTY StartsUp
CHECK_DEADLOCK FALSE
