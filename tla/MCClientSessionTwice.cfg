CONSTANTS
  Conns = {c1, c2, c3}
  Managers = {m1, m2}
  NoConn = NoConn
  MaxId = 1
  MaxConnects = 1
  MaxHandlers = 2
  Claims = {0}
  StaleIds = {}
  Requests = {"SEND_MESSAGE_TO_USER", "LOGOUT"}
  Retry = "any"
  EagerRequests = FALSE
  ForeignNames = FALSE
SPECIFICATION Spec
INVARIANTS
  OneHandlerPerClient
