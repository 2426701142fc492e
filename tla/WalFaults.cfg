\* Two crashes, power failures and I/O errors; the last connection deletes the log.
SPECIFICATION Spec
CONSTANTS
  c1 = c1
  c2 = c2
  NoConn = NoConn
  Conn = {c1, c2}
  Readers = {c1}
  Writers = {c1}
  Checkpointers = {c2}
  Modes = {"truncate"}
  Closers = {c2}
  NPage = 2
  Mortal = {c1}
  Batches = {{1}}
  NReader = 2
  MaxFrame = 2
  Salt = {1, 2, 3, 4, 5, 6, 7, 8}
  NoFrame = NoFrame
  NoImage = NoImage
  Torn = Torn
  SyncFull = TRUE
  MaxTxn = 2
  MaxFault = 2
INVARIANTS
  Recoverable
PROPERTIES
  StoreSpec
CONSTRAINTS
  NotDisturbed
