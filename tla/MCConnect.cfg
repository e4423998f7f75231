SPECIFICATION ConnectSpec
CONSTANTS
  Nil = Nil
  Bad = Bad
  Keys <- MCKeys
  Options <- MCOptions
  MaxOptions = 2
  Models = {Nil, "omni"}
  DefaultURL <- MCDefaultURL
  DefaultModel = "turbo"
  DefaultConnectTimeout = 15
  DefaultWriteTimeout = 10
  DefaultReadLimit = 8
  DefaultAttempts = 3
  DefaultBase = 2
  DefaultMax = 20
  MaxInt = 1000
  Statuses <- MCStatuses
INVARIANTS
  ConfigSettled
  SettingsHonoured
  CodeMatchesStatus
  RetryAdvice
PROPERTY ConnectReturns
