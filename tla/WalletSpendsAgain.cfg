SPECIFICATION Spec
CONSTANTS
  Funds = {f1}
  Late = {}
  Sends = {s1, s2}
  MaxHeight = 2
  MaxForks = 0
  MaxCopies = 0
  MaxCrashes = 0
INVARIANT SpentOnce
CHECK_DEADLOCK FALSE
