CONSTANTS
  Server = {1, 2}
  Client = {1, 2}
  Room = {1, 2}
  Home <- HomeOf
  Garbage = {0, 9}
  MaxId <- OneEach
SPECIFICATION LossySpec
INVARIANTS TypeOK NoCheckFails HeldByItsRoom
PROPERTIES ImplementsBroadcast OtherRoomsDeliver
