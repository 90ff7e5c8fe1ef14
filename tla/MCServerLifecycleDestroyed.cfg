CONSTANTS
  ChatroomManagers = {c1}
  UserManagers = {u1}
  LogManagers = {l1}
  Conns = {k1}
SPECIFICATION Spec
INVARIANTS
  DestroyedIsUnused
