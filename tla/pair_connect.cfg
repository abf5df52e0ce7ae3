SPECIFICATION FairSpec

CONSTANTS
  Cli = Cli
  Srv = Srv
  MaxAttempts = 2
  MaxOpens <- ServerOnce
  NByCli = 1
  NBySrv = 1
  PassiveOk <- BothSides
  GracefulFinish = FALSE
  CancelsToNull = TRUE
  LinkMayFail = TRUE
  ResourcesMayFail = TRUE
  LogInMayFail = TRUE

INVARIANTS
  InitNotMixed
  InitChannelsAgree
  ConnectDoneOnce
  TasksFindChannel

PROPERTIES
  CallsEnd
  DtorEnds

CHECK_DEADLOCK FALSE
