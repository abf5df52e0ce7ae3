SPECIFICATION Spec

CONSTANTS
  Reqs = {r1, r2}
  GivesErrCode = TRUE

INVARIANTS
  SetDestroyedAlone

CHECK_DEADLOCK FALSE
