SPECIFICATION Spec
CONSTANTS
  Mandates = {m1, m2}
  References = {r1, r2}
  Terms <- MCTerms
  Amounts = {0, 2, 3}
  MaxUint64 = 9
  MaxTime = 4
  None = None
SYMMETRY MCSymmetry
INVARIANTS
  TypeOK
  SpendWithinCap
  PaymentsWithinTerms
  ReferencesPaidOnce
  PreviewAgrees
PROPERTIES
  RevocationIsFinal
CHECK_DEADLOCK FALSE
