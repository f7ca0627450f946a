CONSTANTS
  Server = Server
  Client = Client
  d1 = d1
  Data = {d1}
  Repeats = FALSE
  MaxMessage = 2
  MaxSequence = 5
  MaxWrites = 2
  MaxInFlight = 1
  MaxLosses = 1
SPECIFICATION LiveSpec
PROPERTIES Delivery BufferDrains
CHECK_DEADLOCK FALSE
