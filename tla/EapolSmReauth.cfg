SPECIFICATION Spec
CONSTANTS
  reAuthMax = 2
  txPeriod = 2
  quietPeriod = 1
  maxReq = 2
  serverTimeout = 2
  DefaultSuppTimeout = 1
  DefaultReAuthPeriod = 3
  SessionTimeouts <- MCOneTimeout
  SessionTimeoutSet = FALSE
INVARIANT ZeroDisablesReauth
