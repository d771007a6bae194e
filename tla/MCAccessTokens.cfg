SPECIFICATION Spec
CONSTANTS
  p1 = p1
  p2 = p2
  a1 = a1
  a2 = a2
  s1 = s1
  t1 = t1
  q1 = q1
  Pod = {p1, p2}
  Account = {a1, a2}
  Session = {s1}
  Token = {t1}
  Request = {q1}
  Owner <- MCOwner
  Lifetime = 2
  Delay = 3
  DrainTime = 1
  Skew = 1
  MaxKey = 3
  MaxTime = 4
SYMMETRY Pods
INVARIANTS
  KeysCoverTokens
  AdmittedSessionsAreLive
  RefusedForAReason
