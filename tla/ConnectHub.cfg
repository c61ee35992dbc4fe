CONSTANTS
  Attempt = {a1, a2}
  Token = {t1, t2}
  Org = {o1}
  Name = {n1}
  Cluster = {c1, c2}
  None = None
  Flaky = {FALSE, TRUE}
  MaxRestarts = 1
SPECIFICATION Spec
INVARIANT TokenPerCluster
INVARIANT SessionsOfOneToken
INVARIANT OnlineIsWatched
INVARIANT RegisteredIsListed
PROPERTY GoneIsOffline
CHECK_DEADLOCK FALSE
