SPECIFICATION LiveSpec
CONSTANTS
  Threads = {httpd, bridge}
  NParams = 3
  Device = {3}
  Settable = {3}
  ProductClass = ProductClass
  Keys = {ProductClass}
  Key <- MCKey
  NoKey = NoKey
  Values = {v1, v2}
  Empty = Empty
  Text = Text
  Unset = Unset
  Nobody = Nobody
  MaxItems = 2
  MaxRestarts = 1
INVARIANTS TypeOK ReadIsStored CopiesInStep
PROPERTIES RestartKeepsSets Served
CHECK_DEADLOCK FALSE
