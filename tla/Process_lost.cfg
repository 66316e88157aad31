SPECIFICATION Spec
CONSTANTS
  PROCESS_LIMIT = 3
  UINT_MOD = 4
  ExecPrio = {1}
  KillDigits = {4}
INVARIANTS EveryLiveProcessQueued
