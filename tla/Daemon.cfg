SPECIFICATION Spec
CONSTANTS
  Orders = {o1, o2}
  Scheduled = {o1}
  None = None
  MaxFaults = 1
INVARIANTS
  ReplacedOnlyWhenLost
  SignablePlansAreNext
PROPERTIES
  FollowsOrderFlow
  QueueDrains
CHECK_DEADLOCK FALSE
