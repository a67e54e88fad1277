CONSTANTS
  Server = {1, 2}
  Client = {1, 2}
  Room = {1}
  Home <- HomeOf
  MaxLines <- ThreeOfOne
  MayQuit = {1}
SPECIFICATION Spec
INVARIANT FifoOrderOfAll
