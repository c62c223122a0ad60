\* Two requests at a time, a lock after two failures.
SPECIFICATION Spec
CONSTANTS
  Requests = {q1, q2}
  MaxAttempts = 2
  LockTime = 2
  MaxStatusEdits = 1
  MaxClock = 6
INVARIANTS
  SerialCount
  LockOutlivesLogins
\* Nothing logs in to an account left suspended.
CHECK_DEADLOCK FALSE
