SPECIFICATION FairSpec
CONSTANTS
  RETRY = 3
  FIFO = 2
  ADDR_LEN = 1
  BLOCK_NUM = 2
  BLOCK_LEN = 2
  Bytes = {0, 171}
  Addresses = {0, 1, 2, 255}
INVARIANTS InSync
PROPERTIES ImplementsDevice CallReturns
