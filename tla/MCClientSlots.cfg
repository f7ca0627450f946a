CONSTANTS
  h1 = h1
  h2 = h2
  h3 = h3
  h4 = h4
  MAX_CLIENTS = 2
  Hosts = {h1}
  Qports = {1, 2}
  Ports = {1, 2}
  Requests <- PlayersOnly
  maxclients = 2
  maxspectators = 0
  maxvip_spectators = 0
  sv_maxuserid = 2
  timeout = 0
  zombietime = 0
  login_time = 0
  sv_login = 0
  pausable = TRUE
  sv_vm = TRUE
SPECIFICATION Spec
INVARIANTS TypeOK UniqueUserids PacketsReachNewest
CHECK_DEADLOCK FALSE
