\* Progress: two clients and a table of one, so that it is often full.
CONSTANTS
  c1 = c1
  c2 = c2
  c3 = c3
  Clients = {c1, c2}
  NoOne = NoOne
  MAX_CLIENT_NUMS = 1
  Fds = {4, 5}
  LsnFd = 3

SPECIFICATION FairSpec
CHECK_DEADLOCK FALSE
PROPERTIES SentIsRead QuietEmpties
