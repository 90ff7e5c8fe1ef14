CONSTANTS
  UserManagers = {u1, u2}
  ChatroomManagers = {c1}
  LogManagers = {l1}
  Handler = Handler
  Registrars = {r1}
  Types = {"SEND_MESSAGE_TO_USER", "CREATE_CHATROOM", "GET_TO_USER_MESSAGES", "CONNECT", "LOGOUT"}
  MaxRequests = 2
  MaxStrays = 2
SPECIFICATION FairSpec
INVARIANTS
  TypeOK
  FramesAreWholeInTurn
  AnsweredOnce
  OnlyMisplacedFail
  SessionSurvives
PROPERTIES
  RequestIsAnswered
