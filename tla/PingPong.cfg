SPECIFICATION PPSpec
CONSTANTS
  PROCESS_LIMIT = 3
  UINT_MOD = 2
  ExecPrio = {0}
  KillDigits = {}
  MSGCHAN_LIMIT = 2
  N = 2
  NAME_MOD = 3
  Names = {1, 2, 3}
  Values = {1, 2, 3, 4}
INVARIANTS InLockstep ChannelAvailable SameChannel
PROPERTIES RoundsComplete
