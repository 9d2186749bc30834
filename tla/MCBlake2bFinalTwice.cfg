\* Only good digest lengths: every object is initialised; an mrb_int fills a
\* size_t.
SPECIFICATION Spec
CONSTANTS
  Byte <- MCByte
  Zero = 0
  BlockBytes = 2
  OutBytes = 2
  OutLens <- MCGoodOutLens
  IntMod = 6
  UpperHalf <- MCClear
  MaxUpdate = 5
  Word = 3
  MaxMessage = 7
INVARIANT FinalIsDigest
CHECK_DEADLOCK FALSE
