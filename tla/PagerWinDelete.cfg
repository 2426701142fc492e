\* Lock conversions of winLock, an open journal cannot be deleted.
SPECIFICATION Spec
CONSTANTS
  c1 = c1
  c2 = c2
  NoConn = NoConn
  Conn = {c1, c2}
  MaxPage = 2
  InitSize = 1
  k1 = k1
  Key = {k1}
  Absent = Absent
  Torn = Torn
  Garbage = Garbage
  Vfs = "win"
  JournalMode = "delete"
  MaxTxn = 2
  MaxFault = 2
INVARIANTS
  TypeOK
  Recoverable
  SnapshotReads
  VersionTellsContent
