\* Atomic lock conversions, the journal is truncated and synced at commit.
SPECIFICATION Spec
CONSTANTS
  c1 = c1
  c2 = c2
  NoConn = NoConn
  Conn = {c1, c2}
  MaxPage = 2
  InitSize = 1
  k1 = k1
  Key = {k1}
  Absent = Absent
  Torn = Torn
  Garbage = Garbage
  Vfs = "unix"
  JournalMode = "truncate"
  MaxTxn = 2
  MaxFault = 2
INVARIANTS
  Recoverable
PROPERTIES
  Irrevocable
  StoreSpec
