\* Attempts reach Redis up to one tick late.
SPECIFICATION LimiterSpec
CONSTANTS
  Limit = 2
  Window = 3
  MaxDelay = 1
  MaxCalls = 6
  MaxTime = 7
INVARIANTS
  RateBounded
\* Clients may stop calling, and at its bound the clock stops.
CHECK_DEADLOCK FALSE
