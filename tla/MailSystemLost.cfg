CONSTANTS
  User = {"ann"}
  Conn = {1, 2}
  PopConn = {1, 2}
  MaxMails = 2
  MaxLines = 0
  HeadLike = {FALSE}
SPECIFICATION SystemServeSpec
INVARIANT MailLocked
