SPECIFICATION Spec
SYMMETRY Symmetry
CONSTANTS
  Procs = {p1, p2}
  Paths = {f1, f2}
  MaxQuotes = 2
  None = None
  Torn = Torn
INVARIANTS PaidOncePerQuote DeliveredIsTrue
PROPERTIES PaymentStateIsKept SealedProofIsKept
CHECK_DEADLOCK FALSE
