SPECIFICATION FairTimedSpec
CONSTANTS
  twoPairs = twoPairs
  onePair = onePair
  twoGPUs = twoGPUs
  nothing = nothing
  NoTimer = NoTimer
  Request = {twoPairs, onePair, twoGPUs, nothing}
  PairCount <- MCPairCount
  InterceptedCount <- MCInterceptedCount
  Debounce = 2
INVARIANTS
  TypeOK
  SerialMutation
  NoStrandedRequest
  HeldOnce
  BatchClosedInTime
PROPERTIES
  
  EveryRequestAnswered
