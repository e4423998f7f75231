CONSTANTS
  Fields = {0}
  Policies <- MCPolicies
  AttemptArgs <- MCAttemptArgs
  Attempts = {10}
  DefaultBase = 2
  DefaultMax = 20
  MaxInt = 127
SPECIFICATION RetrySpec
INVARIANT DelayInWindow
