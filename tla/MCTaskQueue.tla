---------------------------- MODULE MCTaskQueue ----------------------------
(* One instance of TaskQueue for TLC: two tasks and the three priorities of  *)
(* queue.h, five nodes.  The queue never looks at a task: one is as good as  *)
(* the other.                                                                *)
EXTENDS TaskQueueList, TLC

CONSTANTS download, callback

TasksAlike == Permutations(Tasks)
=============================================================================
