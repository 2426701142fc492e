\* Two threads, two files, transactions and table locks.
SPECIFICATION SharedSpec
CONSTANTS
  c1 = c1
  c2 = c2
  Conn = {c1, c2}
  NoConn = NoConn
  f1 = f1
  f2 = f2
  File = {f1, f2}
  NoFile = NoFile
  NShared = 2
  MaxWant = 1
  AttachInCallback = FALSE
  NTable = 2
SYMMETRY Symmetry
INVARIANTS
  NoDeadlock
  OneCache
  TablesExclude
  PendingEnds
