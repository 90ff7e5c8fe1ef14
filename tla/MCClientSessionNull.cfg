CONSTANTS
  Conns = {c1, c2, c3, c4}
  Managers = {m1}
  NoConn = NoConn
  MaxId = 2
  MaxConnects = 2
  MaxHandlers = 2
  Claims = {0}
  StaleIds = {}
  Requests = {"LOGOUT"}
  Retry = "never"
  EagerRequests = FALSE
  ForeignNames = TRUE
SPECIFICATION Spec
SYMMETRY Symmetry
INVARIANTS
  NoCrash
