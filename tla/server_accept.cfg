SPECIFICATION FairSpec

CONSTANTS
  Reqs = {r1, r2, r3}
  GivesErrCode = TRUE

INVARIANTS
  TypeOK
  IncompleteIsOutstanding
  OwnedBySomebody

PROPERTIES
  ImplementsContract
  FailedSessionsDie
  AllAreAnswered
  DtorReturns

CHECK_DEADLOCK FALSE
