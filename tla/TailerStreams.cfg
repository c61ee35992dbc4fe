CONSTANTS
  Path = {p1}
  Inode = {i1, i2}
  NoInode = NoInode
  Stream = {stdout, stderr}
  MaxLines = 3
  MaxFaults = 1
  ChanSize = 1
  BatchSize = 2
SPECIFICATION Spec
INVARIANT OneMessage
CHECK_DEADLOCK FALSE
