SPECIFICATION Spec
CONSTANTS
  a1 = a1
  a2 = a2
  Actions = {a1, a2}
  Manifests <- MCOneManifest
  Callers = {c1, c2}
  Nonces = {n1, n2}
  MaxClock = 2
  MaxRevision = 7
  None = None
INVARIANTS
  AnswersAreStored
CHECK_DEADLOCK FALSE
