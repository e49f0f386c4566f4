SPECIFICATION Spec
CONSTANTS
  NL = 3
  MaxUsize = 4
  MaxFiles = 5
  Defaults = {1, 3}
  Files <- MCFiles
INVARIANTS TypeOK Coverage NoBetterFile BoundIsOfTheseChunks
CHECK_DEADLOCK FALSE
