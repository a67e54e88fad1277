CONSTANTS
  Server = {1, 2}
  Client = {1, 2}
  Room = {1, 2}
  Home <- HomeOf
  MaxLines <- TwoAndOne
  MayQuit = {2}
SPECIFICATION Spec
INVARIANTS TypeOK HeldForEarlierLine FifoOrder
PROPERTIES ImplementsFifo EventuallyDelivered
