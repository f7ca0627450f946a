CONSTANTS
  MAX_CLIENTS = 2
  Parts <- TwoParts
  MinPiece = 1
  sv_botscore = FALSE
  Downloads = TRUE
  HalfFull = FALSE
  MaxLevel = 2
  MaxInfo = 1
SPECIFICATION LiveSpec
INVARIANTS SpawnedWasTold KnowsOthers
PROPERTY GetsIn
CHECK_DEADLOCK FALSE
