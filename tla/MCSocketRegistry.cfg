CONSTANTS
  Threads = {t1, t2, t3}
  Ids = {i1, i2}
  NoThread = NoThread
  NoId = NoId
  MaxCalls = 5
SPECIFICATION Spec
SYMMETRY Symmetry
INVARIANTS
  TypeOK
  NoDeadlock
  Exclusion
  
  AnswersAreCurrent
