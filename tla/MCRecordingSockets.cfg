CONSTANTS
  proxy1 = proxy1
  proxy2 = proxy2
  file1 = file1
  Sockets = {proxy1, proxy2}
  Files = {file1}
  UPDATE_BACKUP = 4
  Delay = 0
  CacheSize = 2
  FlushBelow = 1
  qtv_maxstreams = 1
  HasPassword = TRUE
  MaxUnits = 3
SPECIFICATION Spec
INVARIANT NoSocketLost
CHECK_DEADLOCK FALSE
