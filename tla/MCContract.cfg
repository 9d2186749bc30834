\* A program that exited takes no step.
SPECIFICATION Spec
CONSTANTS
  k1 = k1
  m1 = m1
  m2 = m2
  a = a
  b = b
  Key <- MCKey
  Message <- MCMessage
  Arg <- MCArg
  Killed = 134
  Capacity = 2
  IntFillsSize = FALSE
  MaxArgs = 3
  MaxMoves = 3
INVARIANTS
  TypeOK
  ZeroMeansEnded
  ArgvExact
  OnlySigned
CHECK_DEADLOCK FALSE
