CONSTANTS
  r1 = r1
  r2 = r2
  r3 = r3
  id1 = id1
  id2 = id2
  None = None
  Requests = {r1, r2, r3}
  Ids = {id1}
  IdOf <- MCOneId
SPECIFICATION Spec
INVARIANTS
  TypeOK
  SerialIsSafe
  ClosedEntryIsLeaving
  ClosedByGuestOnly
CHECK_DEADLOCK FALSE
