SPECIFICATION Spec
CONSTANTS
  Sessions = {s1}
  Workers = {w1}
  Methods = {"card", "faircoin"}
  MaxRedemptions = 0
  MaxQuotes = 1
  MaxWrites = 5
  MaxFaults = 0
INVARIANT CardChoicePayable
CHECK_DEADLOCK FALSE
