SPECIFICATION ChanSpec
CONSTANTS
  PROCESS_LIMIT = 3
  UINT_MOD = 2
  ExecPrio = {0}
  KillDigits = {0, 1, 4}
  MSGCHAN_LIMIT = 1
  Names = {1}
  Values = {1}
INVARIANTS BlockedDoesNotRun HangsOnlyWithoutShell
PROPERTIES NoResurrection
