\* The token changes while the socket is open.
SPECIFICATION Spec
CONSTANTS
  Sensors = {s1}
  SocketIds = {k1, k2}
  NoSocket = NoSocket
  MaxReadings = 1
  MaxTokens = 2
  MaxDrops = 0
INVARIANTS
  OpenIsShown
\* A tab that is signed out has nothing left to do.
CHECK_DEADLOCK FALSE
