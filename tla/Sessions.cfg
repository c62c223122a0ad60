\* Two concurrent requests over a login and its rotations.
SPECIFICATION Spec
CONSTANTS
  Requests = {q1, q2}
  Second = 2
  AccessLife = 1
  RefreshLife = 1
  MaxPairs = 2
  MaxStatusEdits = 1
  MaxClock = 3
INVARIANTS
  TypeOK
  RetiredIsDead
  ReplayRefused
SYMMETRY Interchangeable
\* At its bound the clock has outlived every token: nothing is left to do.
CHECK_DEADLOCK FALSE
