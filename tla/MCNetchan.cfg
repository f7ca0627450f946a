CONSTANTS
  Server = Server
  Client = Client
  d1 = d1
  d2 = d2
  Data = {d1, d2}
  Repeats = TRUE
  MaxMessage = 2
  MaxSequence = 4
  MaxWrites = 3
  MaxInFlight = 2
  MaxLosses = 0
SPECIFICATION Spec
SYMMETRY Symmetry
INVARIANTS TypeOK  FreedWhenDelivered OneLiveReliable 
 
CHECK_DEADLOCK FALSE
