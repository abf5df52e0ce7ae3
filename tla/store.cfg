SPECIFICATION FairSpec
CONSTANTS
  Clients = {c1, c2}
  Pids = {1, 2}
  MaxStarts = 2
  MaxCalls = 1
  MaxMade = 2

INVARIANTS TypeOK HalfWrittenUnseen ListenerIsNamed NamesAreOwned NextNameIsNew OpensItsOwn PendingIsOpenable

PROPERTIES ConnectEnds ConstructorEnds

CHECK_DEADLOCK FALSE
