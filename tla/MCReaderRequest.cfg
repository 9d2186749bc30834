SPECIFICATION Spec
CONSTANTS
  r1 = r1
  r2 = r2
  Slot <- MCSlot
  Index <- MCIndex
  Offset <- MCOffset
  Junk = 99
  NilNumber = 0
INVARIANTS
  TypeOK
  OwnItem
