SPECIFICATION Spec

CONSTANTS
  Cli = Cli
  Srv = Srv
  MaxAttempts = 1
  MaxOpens <- OneEach
  NByCli = 0
  NBySrv = 0
  PassiveOk <- OnlyClient
  GracefulFinish = TRUE
  CancelsToNull = FALSE
  LinkMayFail = TRUE
  ResourcesMayFail = TRUE
  LogInMayFail = TRUE

INVARIANTS
  ErrOnce
  GracefulBarrier
  FinFulfilsOnce
  WaitingIsNotHosed

PROPERTIES
  NothingOpensWhenHosed

CHECK_DEADLOCK FALSE
