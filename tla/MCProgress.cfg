SPECIFICATION Spec
CONSTANT Off = Off
PROPERTIES
  PaidSettles
  UndoneIsNoticed
  DueOrderEnds
  DunningEnds
  DeliveriesEnd
CHECK_DEADLOCK FALSE
