SPECIFICATION Spec

CONSTANTS
  MaxChans = 1
  MaxInits = 2
  MaxAccepts = 1

PROPERTY
  InitHandlersMeansPeer

CHECK_DEADLOCK FALSE
