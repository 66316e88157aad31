SPECIFICATION BlocksSpec
CONSTANTS
  LIST = 2
  LISTS = 5
  DBLKNO = 2
  DSIZE = 11
  NDADDR = 2
  LS = 2
  BLOCK_SIZE = 2
  INODES = 3
  MAX_SIZE = 10
  EVENTS = 2
  Heads = {2, 7}
  Lengths = {3}
INVARIANTS MapsKept NoSharing NothingLost
PROPERTIES FaultOnlyWhen
CHECK_DEADLOCK FALSE
