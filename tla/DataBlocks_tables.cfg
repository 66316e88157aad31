SPECIFICATION BlocksSpec
CONSTANTS
  LIST = 2
  LISTS = 9
  DBLKNO = 2
  DSIZE = 19
  NDADDR = 1
  LS = 2
  BLOCK_SIZE = 2
  INODES = 2
  MAX_SIZE = 15
  EVENTS = 0
  Heads = {6, 14}
  Lengths = {1}
INVARIANT AllMapsKept
CHECK_DEADLOCK FALSE
