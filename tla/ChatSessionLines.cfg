CONSTANTS
  Server = {1, 2}
  Client = {1, 2, 3, 4}
  Room = {1}
  Home <- HomeOf
  Nick <- NickOfTwo
  MaxLines <- OneOfOne
SPECIFICATION Spec
INVARIANTS TypeOK AtMostOnce ToldTheTruth OneRecordEach
PROPERTIES EventuallyReceived OthersUntouched
