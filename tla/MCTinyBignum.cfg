\* A program that stopped takes no step.
SPECIFICATION Spec
CONSTANTS
  BigMod = 4
  IntMod = 8
  Counts <- MCCounts
  MaxObjects = 3
  MaxBlocks = 3
  MaxExact = 4
  Library <- MCLibrary
INVARIANTS
  TypeOK
  NotShared
  BlocksExact
  ModularExact
PROPERTY ValuesNeverChange
CHECK_DEADLOCK FALSE
