\* Two kinds of task, the priorities of queue.h, at most five entries.
CONSTANTS
  download = download
  callback = callback
  Tasks = {download, callback}
  Priorities = {0, 1, 2}
  Common = 1
  MaxNodes = 5

SPECIFICATION Spec
CHECK_DEADLOCK FALSE
INVARIANTS TypeOK NoBadAccess FifoWithoutCallbacks
PROPERTIES ImplementsList
SYMMETRY TasksAlike
