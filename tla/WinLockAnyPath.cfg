\* Any connection may also go from SHARED to EXCLUSIVE, as hot-journal
\* rollback does.
SPECIFICATION Spec
CONSTANTS
  c1 = c1
  c2 = c2
  c3 = c3
  NoConn = NoConn
  Conn = {c1, c2, c3}
  Direct = {c1, c2, c3}
  RdOnly = {}
INVARIANTS
  TypeOK
  Exclusion
  OneReserved
  NothingLeaks
PROPERTIES
  FileLockSpec
