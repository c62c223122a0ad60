\* One sensor, two overlapping sockets, a rotation and a cut, in a tab whose page
\* is left and mounted again, and which is hidden and shown.
SPECIFICATION Spec
CONSTANTS
  Sensors = {s1}
  SocketIds = {k1, k2}
  NoSocket = NoSocket
  MaxReadings = 2
  MaxTokens = 2
  MaxDrops = 1
INVARIANTS
  BehindByLossOnly
PROPERTIES
  NeverBackwards
  Reopens
  Released
  RefusalReachesSocket
\* A tab that is signed out has nothing left to do.
CHECK_DEADLOCK FALSE
