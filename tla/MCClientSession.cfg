CONSTANTS
  Conns = {c1, c2, c3}
  Managers = {m1, m2}
  NoConn = NoConn
  MaxId = 2
  MaxConnects = 3
  MaxHandlers = 2
  Claims = {0, 1}
  StaleIds = {2}
  Requests = {"LOGOUT"}
  Retry = "any"
  EagerRequests = TRUE
  ForeignNames = TRUE
SPECIFICATION Spec
SYMMETRY Symmetry
INVARIANTS
  TypeOK
  RegisteredAreOpen
  OpenAreOwned
  LiveIdsAreUnique
  RepliesAreAddressed
  ConnectIsSettled
  NullOnlyIfMisused
  EndedSessionIsUnregistered
PROPERTIES
  SocketsAreNotReplaced
