CONSTANTS
  User = {"ann", "bob"}
  Conn = {1, 2}
  MaxMails = 2
  MaxLines = 1
  HeadLike = {FALSE}
SPECIFICATION Spec
INVARIANTS TypeOK CleanAtWait AckedIsWritten
PROPERTY EventuallyAnswered
