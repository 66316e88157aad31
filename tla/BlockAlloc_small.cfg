SPECIFICATION Spec
CONSTANTS
  LIST = 2
  LISTS = 2
  DBLKNO = 2
  DSIZE = 5
INVARIANTS TypeOK WellLinked NoDoubleAlloc
PROPERTIES Conserved ImplementsPool
