SPECIFICATION FairSpec
CONSTANTS
  Session = {s1, s2}
  Request = {r1, r2, r3}
  NoToken = NoToken
  NoRequest = NoRequest
  IdleLifetime = 1
  AbsoluteLifetime = 2
  MaxTime = 2
INVARIANT
  RefreshInv
PROPERTIES
  NoTokenAfterRevocation
  ImplementsChain
  EveryRefreshEnds
CHECK_DEADLOCK FALSE
