SPECIFICATION Spec
CONSTANTS
  PROCESS_LIMIT = 4
  UINT_MOD = 4
  ExecPrio = {1}
  KillDigits = {}
INVARIANTS StartedBeforeNextLine
