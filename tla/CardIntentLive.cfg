SPECIFICATION FairSpec
CONSTANTS
  Workers = {w1, w2}
  CaptureMethods = {"automatic"}
  SavedMethods = {FALSE}
  CaptureAmounts = {"full"}
  MaxAttempts = 1
  MaxAborts = 0
PROPERTIES
  SettlementArrives
  ExpiryEnds
CHECK_DEADLOCK FALSE
