SPECIFICATION Spec
CONSTANTS
  Attempt = {a1, a2}
  Callback = {k1, k2}
  Exchange = {x1, x2}
  Identity = {i1, i2}
  Google = {i1}
  Email = {e1, e2}
  Hosted = {e1, e2}
  None = None
  Lifetime = 1
  MaxFailures = 1
  MaxTime = 2
SYMMETRY Symmetry
INVARIANTS
  ProviderInv
  OnlyTheOwner
PROPERTIES
  ExhaustedIsOver
  ImplementsVoucher
CHECK_DEADLOCK FALSE
