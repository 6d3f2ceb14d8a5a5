\* Three clients for a table of two, three descriptors.
CONSTANTS
  c1 = c1
  c2 = c2
  c3 = c3
  Clients = {c1, c2, c3}
  NoOne = NoOne
  MAX_CLIENT_NUMS = 2
  Fds = {4, 5, 6}
  LsnFd = 3

SPECIFICATION Spec
CHECK_DEADLOCK FALSE
SYMMETRY ClientSymmetry
INVARIANTS TypeOK TableInStep NoBlindRead
