SPECIFICATION Spec
CONSTANTS
  alice = alice
  s1 = s1
  s2 = s2
  r1 = r1
  r2 = r2
  Nobody = Nobody
  Never = Never
  Account = {alice}
  Session = {s1, s2}
  Owner <- MCOwner
  Request = {r1, r2}
  PoolSize = 2
  HashSlots = 1
  Window = 1
  CodeLifetime = 1
  Minute = 1
  MaxGuesses = 1
  IdleLifetime = 2
  AbsoluteExpiry = 3
  Asked <- MCAsked
  MaxCodes = 2
  MaxTime = 2
INVARIANTS
  ReauthenticationInv
PROPERTIES
  CodesAreSpent
  WindowsOpenInTime
  ChangesInsideTheWindow
  EveryReauthenticationEnds
CHECK_DEADLOCK FALSE
