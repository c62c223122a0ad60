\* Deactivate a rule and activate it again.
SPECIFICATION Spec
CONSTANTS
  Rules = {r1}
  Sensors = {s1}
  AnySensor = AnySensor
  NoRule = NoRule
  Values = {0, 1}
  Conditions = {"GT"}
  Thresholds = {0}
  Targets = {s1}
  Durations = {2}
  Cooldowns = {1}
  MinuteTicks = 2
  BreachFloor = 3
  MaxClock = 5
  MaxEdits = 2
  MaxAborts = 0
INVARIANTS
  Sustained
