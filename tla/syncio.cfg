SPECIFICATION FairSpec

CONSTANTS
  MaxChans = 3
  MaxInits = 2
  MaxAccepts = 3

INVARIANTS
  BytesMatchResults
  OneAcceptInFlight
  CodeIsOwn

PROPERTIES
  KeepsContract
  KeepsAcceptContract
  ChannelsGiven
  ErrorTold
  AcceptsAnswered

CHECK_DEADLOCK FALSE
