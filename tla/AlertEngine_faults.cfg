\* One rule on one sensor, with an edit and a failure.
SPECIFICATION Spec
CONSTANTS
  Rules = {r1}
  Sensors = {s1}
  AnySensor = AnySensor
  NoRule = NoRule
  Values = {0, 1}
  Conditions = {"GT"}
  Thresholds = {0}
  Targets = {s1}
  Durations = {0, 1, 2}
  Cooldowns = {1}
  MinuteTicks = 2
  BreachFloor = 3
  MaxClock = 5
  MaxEdits = 1
  MaxAborts = 1
INVARIANTS
  NotificationSpacing
  CooldownHasAlert
  SustainedUndisturbed
  NoSilentBreach
PROPERTIES
  KeepsContract
