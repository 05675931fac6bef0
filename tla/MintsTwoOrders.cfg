SPECIFICATION Spec
SYMMETRY Alike
CONSTRAINTS TwoAtOnce SevenWrites
CONSTANTS
  o1 = o1
  o2 = o2
  Orders = {o1, o2}
  Deposits = {d1, d2}
  Workers = {w1}
  None = None
  Clients = {c1, c2}
  Scheduled = {o2}
  StageStart <- MCStageStart
  Deadline <- MCDeadline
  ExpiresAt <- MCExpiresAt
  DepositValue <- MCDepositValue
  MinRemaining = 1
  BroadcastDelay = 0
  MaxClock = 2
  GasCosts = {1}
  PrepareLead = 1
  PlanTtl = 1
  RecoveryGrace = 1
  MaxMintPrice = 3
  MaxTotalCost = 9
  Prices = {3}
  Fees = {1}
  MintGas = 1
  DeliveryGas = 1
  RefundGas = 1
  MinRefundFee = 2
INVARIANTS
  TypeOK
  OneOpenLease
  SnapshotsCurrent
  PlansAreLeased
  DepositFundsOneOrder
  ReceiptsAreOwn
PROPERTIES
  RecordsAreFinal
  TreasuryIsSerial
CHECK_DEADLOCK FALSE
