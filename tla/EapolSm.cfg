SPECIFICATION FairSpec
CONSTANTS
  reAuthMax = 2
  txPeriod = 2
  quietPeriod = 1
  maxReq = 2
  serverTimeout = 2
  DefaultSuppTimeout = 1
  DefaultReAuthPeriod = 2
  SessionTimeouts <- MCSessionTimeouts
  SessionTimeoutSet = FALSE
INVARIANTS TypeOK AuthorizedByAccept RejectRevokes Lockstep EveryWaitTimed TickOwned InputsServed RetriesBounded ReplyCarriesState
PROPERTIES ImplementsPortAccess StepTerminates ReauthConcludes
