CONSTANTS
  User = {"ann", "bob"}
  Conn = {1, 2}
  MaxMails = 1
  MaxLines = 1
  HeadLike = {FALSE, TRUE}
SPECIFICATION Spec
INVARIANT NewMailIsMail
