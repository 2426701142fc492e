\* Readers, writers and checkpoints; nothing fails.
SPECIFICATION Spec
CONSTANTS
  c1 = c1
  c2 = c2
  NoConn = NoConn
  Conn = {c1, c2}
  Readers = {c1, c2}
  Writers = {c1, c2}
  Checkpointers = {c2}
  Modes = {"passive", "truncate"}
  Closers = {}
  NPage = 2
  Mortal = {c2}
  Batches = {{1}}
  NReader = 3
  MaxFrame = 2
  Salt = {1, 2, 3, 4, 5, 6, 7, 8}
  NoFrame = NoFrame
  NoImage = NoImage
  Torn = Torn
  SyncFull = TRUE
  MaxTxn = 2
  MaxFault = 0
INVARIANTS
  WalTypeOK
  SnapshotKept
  HeaderTellsContent
PROPERTIES
  StoreSpec
