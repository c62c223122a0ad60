\* Two accounts of one sensor; outages, failed runs, retention.
SPECIFICATION Spec
CONSTANTS
  s1 = s1
  s2 = s2
  a1 = a1
  a2 = a2
  Sensors = {s1, s2}
  Owner <- OneEach
  Values = {0, 1}
  Bucket = 2
  StartOffset = 5
  EndOffset = 1
  Every = 2
  Chunk = 4
  Retention = 5
  Lag = 1
  Freshness = 2
  MaxLimit = 2
  Asked = {4}
  None = None
  MaxClock = 9
  MaxReadings = 2
  MaxFaults = 1
  MaxEdits = 1
INVARIANTS
  TypeOK
  HistoryMatches
  MaterialisedInTime
  AnswersAgree
  OnlineAgrees
CHECK_DEADLOCK FALSE
