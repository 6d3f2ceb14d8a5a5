\* A saved transfer flag and a restart.
CONSTANTS
  Size = 3
  httpd = httpd
  netlink = netlink
  agent = agent
  Agent = agent
  Free = Free
  Bootstrap = Bootstrap
  Boot = Boot
  Transfer = Transfer
  MReboot = MReboot
  MDownload = MDownload
  ConnectionRequest = ConnectionRequest
  Listeners <- MCListeners
  Events <- MCEvents
  Raises <- MCRaises
  MaxRaise <- MCMaxRaise
  NoCode = NoCode
  MaxAssumed = 1

SPECIFICATION Spec
CHECK_DEADLOCK FALSE
PROPERTIES RestartKeepsTransfer
