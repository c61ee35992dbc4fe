CONSTANTS
  Path = {p1}
  Inode = {i1, i2}
  NoInode = NoInode
  Stream = {stdout}
  MaxLines = 3
  MaxFaults = 1
  ChanSize = 1
  BatchSize = 2
SPECIFICATION Spec
INVARIANT InOrderAtMostOnce
INVARIANT FullEndsRecord
PROPERTY ReadsOn
PROPERTY Delivers
CHECK_DEADLOCK FALSE
