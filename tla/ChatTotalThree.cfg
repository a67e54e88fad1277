CONSTANTS
  Server = {1, 2, 3}
  Client = {1, 2}
  Room = {1}
  Home <- HomeOf
  Garbage = {0}
  MaxId <- OneEach
SPECIFICATION ReliableSpec
INVARIANTS Inv SameOrder
PROPERTY EventuallyDelivered
