\* Two connections at once, any call may fail.
SPECIFICATION Spec
CONSTANTS
  c1 = c1
  c2 = c2
  u1 = u1
  u2 = u2
  p1 = p1
  p2 = p2
  Conn = {c1, c2}
  User = {u1, u2}
  Pw = {p1, p2}
  NoUser = NoUser
  NoTable = NoTable
INVARIANTS
  AlwaysAdmin
  LevelTrue
PROPERTIES
  OwnPrivilegeKept
