SPECIFICATION Spec
CONSTANTS
  Workers = {w1, w2}
  Refs = {r1}
  Received = 2
  Amounts = {1, 2}
  OutsideAmounts = {1}
  MaxOutside = 1
  MaxNews = 3
  MaxFaults = 1
SYMMETRY Interchangeable
INVARIANTS
  SentOnce
  SentAsReserved
  EndsAsAnnounced
PROPERTY
  NeverWalksBack
CHECK_DEADLOCK FALSE
