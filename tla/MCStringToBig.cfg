\* One conversion is followed: a contract that got an error is done.
SPECIFICATION Spec
CONSTANTS
  Decimal = 3
  Hex = 4
  Word = 16
  Double = 256
  BigMod = 1024
  Bases <- MCBases
  Fixnums <- MCFixnums
  MaxChars = 6
INVARIANTS
  TypeOK
  PrefixHeld
  ResultExact
  ShortIsExact
  PrintedIsRead
CHECK_DEADLOCK FALSE
