\* Three calls on two accounts, a failure anywhere.
SPECIFICATION Spec
CONSTANTS
  Requests = {q1, q2, q3}
  root = root
  acme = acme
  n0 = n0
  n1 = n1
  n2 = n2
  Seed <- TwoAccounts
  Numbers = {n1, n2}
  BadNumber = BadNumber
  Roles = {"COMPANY"}
  Payloads <- Bodies
  None = None
  MaxFails = 1
INVARIANTS
  UniqueNumber
  AnswerMatchesTrail
  TrailReplays
PROPERTIES
  ChangesAreTrailed
SYMMETRY Interchangeable
CHECK_DEADLOCK FALSE
