\* Two files, unlinks that reach the disk in their order.
SPECIFICATION Spec
CONSTANTS
  c1 = c1
  c2 = c2
  Conn = {c1, c2}
  Writers = {c1, c2}
  NFile = 2
  NoJournal = NoJournal
  Ordered = TRUE
  MaxTxn = 2
  MaxFault = 3
INVARIANTS
  AllOrNone
  CommitStays
  ReadTogether
