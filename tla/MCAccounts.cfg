CONSTANTS
  name1 = name1
  address1 = address1
  elsewhere = elsewhere
  Names = {name1}
  Addresses = {address1}
  Elsewhere = elsewhere
  MAX_CLIENTS = 2
  MAX_ACCOUNTS = 2
  MAX_FAILURES = 2
  MaxInUse = 2
  sv_login = 1
  OutOfTurn = FALSE
SPECIFICATION Spec
INVARIANTS TypeOK  FileIsCurrent
CHECK_DEADLOCK FALSE
 
