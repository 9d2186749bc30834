SPECIFICATION Spec
CONSTANTS
  Key = {k1, k2}
  HashKey = {tx_hash}
  HashLen = 2
  SizeMod = 16
  MaxLen = 3
  MaxFds = 3
  Offsets <- MCOffsets
  Lens <- MCLens
INVARIANT IndexErrorMeansAbsent
