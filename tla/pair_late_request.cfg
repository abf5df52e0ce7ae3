SPECIFICATION Spec

CONSTANTS
  Cli = Cli
  Srv = Srv
  MaxAttempts = 1
  MaxOpens <- OneEach
  NByCli = 0
  NBySrv = 0
  PassiveOk <- BothSides
  GracefulFinish = TRUE
  CancelsToNull = FALSE
  LinkMayFail = TRUE
  ResourcesMayFail = TRUE
  LogInMayFail = TRUE

INVARIANT RequestsFindChannel

CHECK_DEADLOCK FALSE
