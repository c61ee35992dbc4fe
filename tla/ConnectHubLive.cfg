CONSTANTS
  Attempt = {a1, a2}
  Token = {t1}
  Org = {o1}
  Name = {n1}
  Cluster = {c1, c2}
  None = None
  Flaky = {FALSE}
  MaxRestarts = 0
SPECIFICATION Spec
PROPERTY LiveIsOnline
CHECK_DEADLOCK FALSE
