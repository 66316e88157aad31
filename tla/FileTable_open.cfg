SPECIFICATION Spec
CONSTANTS
  PROCESS_LIMIT = 2
  FDT_LIMIT = 2
  OFT_LIMIT = 2
  AIT_LIMIT = 2
  INODES = 3
  BLOCK_SIZE = 1
  MAX_SIZE = 2
  Lengths = {2}
  MayFill = TRUE
INVARIANTS LinksExact OneCopy DescriptorsSound SizeKept EntriesKept BlocksCover
