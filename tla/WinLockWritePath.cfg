\* Every EXCLUSIVE lock is reached through RESERVED, as ordinary commits do.
SPECIFICATION FairSpec
CONSTANTS
  c1 = c1
  c2 = c2
  c3 = c3
  NoConn = NoConn
  Conn = {c1, c2, c3}
  Direct = {}
  RdOnly = {c3}
INVARIANTS
  ExclusivePrecludes
  ReadLockInPlace
PROPERTIES
  PendingBlocksReaders
  WriterNotStarved
