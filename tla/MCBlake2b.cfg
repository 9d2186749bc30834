\* A crashed contract stops, hence no deadlock check.
SPECIFICATION LiveSpec
CONSTANTS
  Byte <- MCByte
  Zero = 0
  BlockBytes = 2
  OutBytes = 2
  OutLens <- MCOutLens
  IntMod = 6
  UpperHalf <- MCUpperHalf
  MaxUpdate = 5
  Word = 3
  MaxMessage = 8
INVARIANTS
  TypeOK
  BytesAccounted
  CounterExact
  DigestCorrect
PROPERTIES
  HashSpec
  UpdateEnds
CHECK_DEADLOCK FALSE
