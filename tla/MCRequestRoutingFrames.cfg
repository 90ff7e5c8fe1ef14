CONSTANTS
  UserManagers = {u1, u2}
  ChatroomManagers = {c1}
  LogManagers = {l1}
  Handler = Handler
  Registrars = {}
  Types = {"SEND_MESSAGE_TO_USER"}
  MaxRequests = 2
  MaxStrays = 0
SPECIFICATION Spec
INVARIANTS
  FramesAreWhole
