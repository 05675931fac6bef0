SPECIFICATION Spec
CONSTANTS
  o1 = o1
  o2 = o2
  Orders = {o1}
  Deposits = {d1}
  Workers = {w1}
  None = None
  Clients = {c1}
  Scheduled = {}
  StageStart <- MCStageStartOne
  Deadline <- MCStageStartOne
  ExpiresAt <- MCExpiresAtOne
  DepositValue <- MCDepositValue
  MinRemaining = 1
  BroadcastDelay = 0
  MaxClock = 2
  GasCosts = {1}
  PrepareLead = 1
  PlanTtl = 1
  RecoveryGrace = 1
  MaxMintPrice = 3
  MaxTotalCost = 9
  Prices = {3}
  Fees = {1}
  MintGas = 1
  DeliveryGas = 1
  RefundGas = 1
  MinRefundFee = 2
INVARIANTS
  RefundsReconcile
CHECK_DEADLOCK FALSE
