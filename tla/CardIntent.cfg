SPECIFICATION Spec
CONSTANTS
  Workers = {w1, w2}
  CaptureMethods = {"automatic", "manual"}
  SavedMethods = {TRUE, FALSE}
  CaptureAmounts = {"full"}
  MaxAttempts = 1
  MaxAborts = 1
SYMMETRY WorkerSymmetry
INVARIANTS
  OutcomeTold
  SucceededIsPaid
  CalledOffFirst
PROPERTIES
  ImplementsLifecycle
CHECK_DEADLOCK FALSE
