SPECIFICATION Spec

CONSTANTS
  Cli = Cli
  Srv = Srv
  MaxAttempts = 1
  MaxOpens <- NoOpens
  NByCli = 1
  NBySrv = 0
  PassiveOk <- BothSides
  GracefulFinish = FALSE
  CancelsToNull = FALSE
  LinkMayFail = TRUE
  ResourcesMayFail = TRUE
  LogInMayFail = TRUE

INVARIANT NullHasNoChannel

CHECK_DEADLOCK FALSE
