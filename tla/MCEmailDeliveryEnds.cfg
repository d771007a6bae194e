\* A code that cannot be sent, another code in the same partition, and a notice.
CONSTANTS
  c1 = c1
  c2 = c2
  n1 = n1
  w1 = w1
  Nobody = Nobody
  Gone = Gone
  Challenge = {c1, c2}
  Notice = {n1}
  Worker = {w1}
  Refused = {c1}
  ConnectionsFail = FALSE
  MaxFaults = 0
SPECIFICATION FairSpec
PROPERTIES EveryCodeEnds EveryNoticeIsSent
