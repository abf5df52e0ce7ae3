SPECIFICATION Spec

CONSTANTS
  Cli = Cli
  Srv = Srv
  MaxAttempts = 1
  MaxOpens <- ClientTwice
  NByCli = 0
  NBySrv = 0
  PassiveOk <- BothSides
  GracefulFinish = FALSE
  CancelsToNull = FALSE
  LinkMayFail = TRUE
  ResourcesMayFail = TRUE
  LogInMayFail = FALSE

INVARIANTS
  TypeOK
  HosedOnlyInPeer
  ErrorNotLost
  ActiveImpliesPassive

PROPERTIES
  PeerIsForever

CHECK_DEADLOCK FALSE
