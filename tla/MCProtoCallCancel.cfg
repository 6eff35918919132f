CONSTANTS
  N = 1
  MaxMessages = 2
  Scripts <- MCScripts
  Handlers <- MCHandlers
SPECIFICATION ProtoSpec
CHECK_DEADLOCK FALSE
PROPERTIES CancelReachesTransport
