SPECIFICATION Spec
CONSTANTS
  a1 = a1
  a2 = a2
  Actions = {a1, a2}
  Manifests <- MCManifests
  Callers = {c1, c2}
  Nonces = {n1, n2}
  MaxClock = 2
  MaxRevision = 7
  None = None
SYMMETRY MCSymmetry
INVARIANTS
  TypeOK
  StartedWithAuthority
  SpendWithinMandate
  NoncesUsedOnce
  DeliveredIsSettled
  ReceiptsDescribe
  DeliveredTogether
PROPERTIES
  StartsAreFinal
CHECK_DEADLOCK FALSE
