SPECIFICATION Spec
CONSTANTS
  Orders = {o1, o2}
  Scheduled = {o1}
  None = None
  MaxFaults = 0
PROPERTIES
  WindowExpiresOrder
CHECK_DEADLOCK FALSE
