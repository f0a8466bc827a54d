SPECIFICATION Spec
CONSTANTS
  Tasks = {t1, t2}
  Off = Off
SYMMETRY TaskSymmetry
INVARIANTS
  TypeOK
  DisputeIsToldTruly
  AttemptEndsOnce
  ChargedOnce
  PaidIsSettled
  WithinPayment
  ReversedIsTrue
  DeadMeansTried
  OneClaimant
PROPERTY EndedStaysEnded
CHECK_DEADLOCK FALSE
