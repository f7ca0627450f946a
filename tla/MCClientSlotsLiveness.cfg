CONSTANTS
  h1 = h1
  h2 = h2
  MAX_CLIENTS = 2
  Hosts = {h1, h2}
  Qports = {1}
  Ports = {1}
  Requests <- PlayersAndWatchers
  Mortals <- FirstHost
  maxclients = 1
  maxspectators = 1
  maxvip_spectators = 0
  sv_maxuserid = 2
  timeout = 0
  zombietime = 0
  login_time = 0
  sv_login = 2
  pausable = FALSE
  sv_vm = TRUE
SPECIFICATION LiveSpec
INVARIANTS PlayersWithinLimit SpectatorsWithinLimit
PROPERTY Reclaimed
CHECK_DEADLOCK FALSE
