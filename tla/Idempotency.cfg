SPECIFICATION Spec
CONSTANTS
  Requests = {r1, r2, r3}
  Bodies = {b1, b2}
  ClaimAttempts = 2
  MaxWindows = 3
  MaxCrashes = 2
SYMMETRY Interchangeable
INVARIANTS
  OneAnswerPerWindow
  OneRunner
  AnswersOwnRequest
PROPERTY
  RecordedAnswerStays
CHECK_DEADLOCK FALSE
