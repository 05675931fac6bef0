SPECIFICATION Spec
SYMMETRY Symmetry
CONSTANTS
  Keys = {k1, k2}
  Requests = {r1, r2, r3}
  PerKeyLimit = 1
  GlobalLimit = 2
  Window = 2
  MaxClock = 3
  None = None
  Images = {i1, i2}
  NoAsset = NoAsset
  ExternalIds = {e1}
  Openings = {1, 3}
  Expiries = {2, 3}
  MinLife = 1
  MaxChanges = 1
INVARIANTS TypeOK AcceptedIsStored PurchaseIsServed PublicIsReviewed
PROPERTY RejectedOnlyIfChanged
CHECK_DEADLOCK FALSE
