SPECIFICATION Spec
CONSTANTS
  l1 = l1
  l2 = l2
  l3 = l3
  a1 = a1
  a2 = a2
  c1 = c1
  c2 = c2
  edge = edge
  Nobody = Nobody
  Malformed = Malformed
  NoSource = NoSource
  Request <- MCRequest
  Address <- MCAddress
  Trusted <- MCTrusted
  Nodes <- MCNodes
  Forged <- MCForged
  Others <- MCOthers
  Key <- MCKey
  KeysOf <- MCKeysOf
  Maximum <- MCMaximum
  Window <- MCWindow
  DailyMaximum <- MCDailyMaximum
  Day = 2
  Interval <- MCInterval
  MaxTime = 2
INVARIANTS
  LimitsHold
  CountedIfAdmitted
  ClientsCannotHide
PROPERTY
  EveryRequestEnds
CHECK_DEADLOCK FALSE
