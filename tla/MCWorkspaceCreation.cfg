SPECIFICATION Spec
CONSTANTS
  c1 = c1
  c2 = c2
  c3 = c3
  c4 = c4
  c5 = c5
  NoCall = NoCall
  Call <- MCCall
  Scope <- MCScope
  Subject <- MCSubject
  ScopeOf <- MCScopeOf
  KeyOf <- MCKeyOf
  TextOf <- MCTextOf
  MaxKey = 1
  MaxName = 1
  SubjectOf <- MCSubjectOf
  Lock = {"lock"}
  LockOf <- MCLockOf
  Lifetime = 1
  MaxTime = 1
  MaxFaults = 1
SYMMETRY MCSymmetry
INVARIANTS
  CreationInv
  ReadsFindWhatWasAnswered
  RefusalsAreFinal
PROPERTIES
  ImplementsCreateOnce
CHECK_DEADLOCK FALSE
