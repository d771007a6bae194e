\* The smallest instance of the race: one identity, one email, two first logins.
SPECIFICATION Spec
CONSTANTS
  Attempt = {a1, a2}
  Callback = {k1, k2}
  Exchange = {x1, x2}
  Identity = {i1}
  Google = {i1}
  Email = {e1}
  Hosted = {}
  None = None
  Lifetime = 1
  MaxFailures = 1
  MaxTime = 0
SYMMETRY Symmetry
INVARIANTS
  RefusedForAnotherOwner
CHECK_DEADLOCK FALSE
