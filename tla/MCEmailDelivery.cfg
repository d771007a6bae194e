\* Two workers deliver two codes through faults of every kind.
CONSTANTS
  c1 = c1
  c2 = c2
  w1 = w1
  w2 = w2
  Nobody = Nobody
  Gone = Gone
  Challenge = {c1, c2}
  Notice = {}
  Worker = {w1, w2}
  Refused = {}
  ConnectionsFail = TRUE
  MaxFaults = 1
SPECIFICATION Spec
SYMMETRY Symmetry
INVARIANT DeliveryInv
PROPERTY ImplementsCourier
