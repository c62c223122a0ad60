\* Two gateways of one account.
SPECIFICATION Spec
CONSTANTS
  g1 = g1
  g2 = g2
  a1 = a1
  Accounts = {a1}
  Gateways = {g1, g2}
  Refs = {"12571", "16145"}
  AccountOf <- TwoGatewaysOfOneAccount
  NoGateway = NoGateway
  NoValue = NoValue
  Sentinel <- Tenths
  Exchanges <- Answers
  PatchKinds = {"temperature", "flood"}
  MaxPolls = 2
  MaxCrashes = 1
  MaxRaises = 1
  MaxPatches = 1
INVARIANTS
  TypeOK
  IndexUnique
  SeenIsLastReading
  HandedOverOnce
  EvaluatedUnlessInterrupted
  ChoiceKept
  DetectorNeverMasked
  SentinelNeverStored
  FailuresContained
