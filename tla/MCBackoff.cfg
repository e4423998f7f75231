CONSTANTS
  Fields = {0, 1, 3, 40}
  Policies <- MCPolicies
  AttemptArgs <- MCAttemptArgs
  Attempts = {0, 1, 3, 5}
  DefaultBase = 2
  DefaultMax = 20
  MaxInt = 4000
SPECIFICATION RetrySpec
INVARIANTS BackoffTypeOK DelayInWindow CallsMatchOutcome
