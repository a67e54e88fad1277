CONSTANTS
  MaxConn = 3
  MaxFd = 3
  Mailers = {1, 2}
  Unreliable = {2}
SPECIFICATION Spec
INVARIANTS TypeOK OpenIsListed ToldBeforeExit OwnConnection
PROPERTY StopEnds
CHECK_DEADLOCK FALSE
