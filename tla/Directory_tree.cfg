SPECIFICATION Spec
CONSTANTS
  NAMES <- MCNames
  Paths <- MCPaths
  Fresh <- MCFresh
  PROGRAM <- MCProgram
  MAXNAMLEN = 2
  PER_BLOCK = 3
  INODES = 4
  AIT_LIMIT = 1
  MAX_ENTRIES = 4
  CRASHES = 1
INVARIANTS OneEntry AllReachable InATree
PROPERTIES ActsOnName Implements
VIEW View
CHECK_DEADLOCK FALSE
