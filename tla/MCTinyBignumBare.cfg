\* A program that stopped takes no step.
SPECIFICATION Spec
CONSTANTS
  BigMod = 4
  IntMod = 8
  Counts <- MCCounts
  MaxObjects = 2
  MaxBlocks = 3
  MaxExact = 6
  Library <- MCLibrary
INVARIANT SelfAlwaysChecked
CHECK_DEADLOCK FALSE
