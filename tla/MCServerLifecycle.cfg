CONSTANTS
  ChatroomManagers = {c1, c2}
  UserManagers = {}
  LogManagers = {}
  Conns = {k1}
SPECIFICATION FairSpec
INVARIANTS
  NoNullBalancer
  LateStopIsComplete
  LateStopDoesNotWait
  SecondStopIsComplete
PROPERTIES
  ProcessEndsOrJoinsUntold
