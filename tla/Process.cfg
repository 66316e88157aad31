SPECIFICATION FairSpec
CONSTANTS
  PROCESS_LIMIT = 4
  UINT_MOD = 4
  ExecPrio = {1}
  KillDigits = {0, 1, 2, 3, 4, 5}
INVARIANTS TypeOK QueueMatchesTable CurrentAtHead DeadRunsOnlyWhenIdle OneShell
PROPERTIES NoStarvation
