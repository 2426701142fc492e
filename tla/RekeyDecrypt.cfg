\* The key is removed from a database.
SPECIFICATION RekeySpec
CONSTANTS
  c1 = c1
  c2 = c2
  NoConn = NoConn
  Conn = {c1, c2}
  MaxPage = 2
  InitSize = 2
  k1 = k1
  k2 = k2
  NoKey = NoKey
  Key = {k1, k2, NoKey}
  Absent = Absent
  Torn = Torn
  Garbage = Garbage
  Vfs = "unix"
  JournalMode = "delete"
  MaxTxn = 1
  MaxFault = 1
  StartKey = {k1}
  RekeyTo = {NoKey}
  Rekeyers = {c1}
  Mistaken = {c1}
  Threaded = FALSE
  InTransaction = FALSE
INVARIANTS
  WriteKeyRestored
