CONSTANTS
  Conns = {c1, c2, c3}
  Managers = {m1}
  NoConn = NoConn
  MaxId = 1
  MaxConnects = 1
  MaxHandlers = 1
  Claims = {0}
  StaleIds = {}
  Requests = {"LOGOUT"}
  Retry = "any"
  EagerRequests = FALSE
  ForeignNames = FALSE
SPECIFICATION FairSpec
PROPERTIES
  LogoutRemoves
