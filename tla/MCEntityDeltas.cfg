CONSTANTS
  Entities = {511, 600}
  Fields <- MCFields
  States <- MCStates
  UPDATE_BACKUP = 4
  max_packet_entities = 2
  MaxSequence = 4
SPECIFICATION Spec
INVARIANT ClientAgrees
CHECK_DEADLOCK FALSE
