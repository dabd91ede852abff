SPECIFICATION LiveLocks
CONSTANTS
  Connections <- TwoConnections
  Answering = {"game"}
  Admins = {}
  NoConnection = NoConnection
PROPERTY OldMessagesAreSent
CHECK_DEADLOCK FALSE
