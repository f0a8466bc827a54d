SPECIFICATION Spec
CONSTANTS
  Tasks = {t1, t2}
  Pair = {p1, p2}
  Off = Off
SYMMETRY Symmetry
INVARIANTS
  TypeOK
  SucceededIsTrue
  BooksFollow
  SyncMissesNothing
  AddressBoundsHold
  PaidOnce
  CodeWithinBound
  CoinsAreTheChains
  SendsApart
PROPERTIES
  OneBadReadingRewindsNothing
  ImplementsLifecycle
CHECK_DEADLOCK FALSE
