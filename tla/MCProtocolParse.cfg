\* One call is followed to its answer and then nothing is left to do.
CHECK_DEADLOCK FALSE
SPECIFICATION Spec
CONSTANTS
  HashLen = 3
  IntMod = 256
  MaxArgs = 2
  MaxOdd = 2
  Scales <- MCScales
  Lens <- MCLens
INVARIANTS TypeOK ParsedExact
PROPERTY ParserSpec
