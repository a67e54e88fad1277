CONSTANTS
  User = {"ann", "bob"}
  Conn = {1, 2, 3}
  Boxes <- UpToTwo
SPECIFICATION Spec
INVARIANTS TypeOK CopyIsMailbox
PROPERTIES ImplementsStore LockIsFreed
