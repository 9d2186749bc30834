\* A contract may make another call until it is aborted.
SPECIFICATION Spec
CONSTANTS
  k1 = k1
  k2 = k2
  m1 = m1
  m2 = m2
  Key <- MCKey
  Message <- MCMessage
  Capacity = 3
  IntFillsSize = FALSE
INVARIANTS
  TypeOK
  HeldExact
  AbortNeedsLeaks
  NeverWrong
PROPERTY SchemeSpec
CHECK_DEADLOCK FALSE
