SPECIFICATION Spec
CONSTANTS
  LIST = 3
  LISTS = 2
  DBLKNO = 2
  DSIZE = 8
PROPERTY AllListed
