CONSTANTS
  c1 = c1
  c2 = c2
  Clients = {c1, c2}
  MAX_CLIENTS = 2
  Pool = 2
  MaxDelay = 1
  MaxArrivals = 5
  pausable = TRUE
  sv_vm = TRUE
SPECIFICATION LiveSpec
INVARIANTS TypeOK InArrivalOrder OwnPackets PoolBound
PROPERTY DelayedGoesOn
CHECK_DEADLOCK FALSE
