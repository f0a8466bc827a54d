SPECIFICATION Spec
CONSTANTS
  Workers = {w1, w2}
  CaptureMethods = {"automatic"}
  SavedMethods = {FALSE}
  CaptureAmounts = {"part", "full"}
  MaxAttempts = 1
  MaxAborts = 1
SYMMETRY WorkerSymmetry
INVARIANT
  NeverPaidAfterCancel
CHECK_DEADLOCK FALSE
