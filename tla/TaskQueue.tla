------------------------------ MODULE TaskQueue ------------------------------
(****************************************************************************)
(* The task queue of libcwmp/src/queue.c, node by node.  queue_push and     *)
(* queue_add do all their work under the mutex and are one step each.       *)
(* queue_pop looks at first before it takes the mutex and dereferences it   *)
(* after: it is two steps.  Any thread may push or add; the only caller of  *)
(* queue_pop is the agent, in cwmp_agent_run_tasks.                         *)
(****************************************************************************)
EXTENDS Integers, Sequences

CONSTANTS
  Tasks,       \* what the entries ask for (the datatype tags)
  Priorities,  \* QUEUE_PRIORITY_LOW .. QUEUE_PRIORITY_HIGH
  Common,      \* QUEUE_PRIORITY_COMMON, the priority of a push
  MaxNodes     \* bound: nodes allocated in one behaviour

Nodes == 1..MaxNodes
Null == 0

ASSUME QueueAssumption ==
  /\ Tasks # {}
  /\ Priorities \subseteq Nat
  /\ Common \in Priorities
  /\ MaxNodes \in Nat

VARIABLES
  node,    \* the fields of each node: task, prio, next
  used,    \* nodes allocated so far
  freed,   \* nodes given back with free
  first, last, size,
  pc,      \* the consumer: "idle", "popping", or "crash" after a NULL access
  popped,  \* history: tasks handed out
  pushed,  \* history: tasks of queue_push, in order
  added    \* history: calls of queue_add

pointerVars == <<first, last, size>>
historyVars == <<popped, pushed, added>>
vars == <<node, used, freed, pointerVars, pc, historyVars>>

\* A slip the properties notice: stores a priority that is not one.
OutOfRange(task, prio) == [task |-> task, prio |-> prio + 2, next |-> Null]

Blank(task, prio) == [task |-> task, prio |-> prio, next |-> Null]

Init ==
  /\ \E task \in Tasks : node = [n \in Nodes |-> Blank(task, Common)]
  /\ used = 0
  /\ freed = {}
  /\ first = Null
  /\ last = Null
  /\ size = 0
  /\ pc = "idle"
  /\ popped = <<>>
  /\ pushed = <<>>
  /\ added = 0

----------------------------------------------------------------------------
(* Producers.  A node is allocated and filled, then linked under the mutex.  *)
(* An allocation that fails only logs: no step.                              *)

\* q->last->next = node with last NULL or freed is an access the process does
\* not survive (or does not survive whole): the model stops there.
ReadableLast == last # Null /\ last \notin freed

\* A slip the properties notice: does not move the tail.
LinkKeepingLast(n, entry) ==
  /\ size' = size + 1
  /\ last' = IF first = Null THEN n ELSE last
  /\ first' = IF first = Null THEN n ELSE first
  /\ node' = [node EXCEPT ![n] = entry, ![last].next = n]
  /\ UNCHANGED pc

\* n becomes the only node, or the one after last.
LinkLast(n, entry) ==
  /\ size' = size + 1
  /\ last' = n
  /\ IF first = Null
     THEN /\ first' = n
          /\ node' = [node EXCEPT ![n] = entry]
          /\ UNCHANGED pc
     ELSE IF ReadableLast
     THEN /\ node' = [node EXCEPT ![n] = entry, ![last].next = n]
          /\ UNCHANGED <<first, pc>>
     ELSE /\ pc' = "crash"
          /\ UNCHANGED <<first, node>>

\* A slip the properties notice: puts the node before the head.
InsertFirst(n, entry) ==
  /\ size' = size + 1
  /\ first' = n
  /\ node' = [node EXCEPT ![n] = [entry EXCEPT !.next = first]]
  /\ UNCHANGED <<last, pc>>

\* n takes the place of the head, whose node is neither freed nor linked.
ReplaceFirst(n, entry) ==
  /\ size' = size + 1
  /\ first' = n
  /\ node' = [node EXCEPT ![n] = [entry EXCEPT !.next = node[first].next]]
  /\ UNCHANGED <<last, pc>>

Allocate ==
  /\ pc # "crash"
  /\ used < MaxNodes
  /\ used' = used + 1

Push(task) ==
  /\ Allocate
  /\ LinkLast(used + 1, Blank(task, Common))
  /\ pushed' = Append(pushed, task)
  /\ UNCHANGED <<freed, popped, added>>

Add(task, prio) ==
  /\ Allocate
  /\ IF first # Null /\ prio >= node[first].prio
     THEN ReplaceFirst(used + 1, Blank(task, prio))
     ELSE LinkLast(used + 1, Blank(task, prio))
  /\ added' = added + 1
  /\ UNCHANGED <<freed, popped, pushed>>

----------------------------------------------------------------------------
(* The consumer.  Finding the queue empty ends cwmp_agent_run_tasks and       *)
(* changes nothing here.                                                      *)

\* A slip the properties notice: takes a used queue for a filled one.
NotEmptyOrStale == used > 0

NotEmpty == first # Null

PopCheck ==
  /\ pc = "idle"
  /\ NotEmpty
  /\ pc' = "popping"
  /\ UNCHANGED <<node, used, freed, pointerVars, historyVars>>

LastAfterPop == IF node[first].next = Null THEN Null ELSE last

FirstAfterPop == node[first].next

PopTake ==
  /\ pc = "popping"
  /\ IF first = Null
     THEN /\ pc' = "crash"
          /\ UNCHANGED <<pointerVars, freed, popped>>
     ELSE /\ popped' = Append(popped, node[first].task)
          /\ first' = FirstAfterPop
          /\ last' = LastAfterPop
          /\ freed' = freed \cup {first}
          /\ size' = size - 1
          /\ pc' = "idle"
  /\ UNCHANGED <<node, used, pushed, added>>

Next ==
  \/ \E task \in Tasks : Push(task)
  \/ \E task \in Tasks, prio \in Priorities : Add(task, prio)
  \/ PopCheck
  \/ PopTake

Spec == Init /\ [][Next]_vars

----------------------------------------------------------------------------
(* Properties                                                               *)

\* Types of the queue, its nodes and the histories.
TypeOK ==
  /\ node \in [Nodes -> [task : Tasks, prio : Priorities, next : Nodes \cup {Null}]]
  /\ used \in 0..MaxNodes
  /\ freed \subseteq Nodes
  /\ first \in Nodes \cup {Null}
  /\ last \in Nodes \cup {Null}
  /\ size \in Int
  /\ pc \in {"idle", "popping", "crash"}
  /\ popped \in Seq(Tasks)
  /\ pushed \in Seq(Tasks)
  /\ added \in Nat

\* Neither a producer that appends nor the consumer that pops ever follows a
\* NULL or freed pointer, although the consumer tests first before it locks.
NoBadAccess == pc # "crash"

=============================================================================
