------------------------------ MODULE TaskList ------------------------------
(****************************************************************************)
(* What the task queue of libcwmp/src/queue.c amounts to for the threads    *)
(* that use it: a sequence with operations push, add and pop, whatever the  *)
(* nodes and pointers do.  TaskQueue.tla is shown to implement it.          *)
(*                                                                          *)
(* queue_add with a priority at least that of the head puts its entry in    *)
(* the place of the head.  When the head was the only entry the tail stays  *)
(* on the replaced node: the list is detached, and what is appended then    *)
(* is never popped.                                                         *)
(****************************************************************************)
EXTENDS Naturals, Sequences

CONSTANTS Tasks, Priorities, Common

VARIABLES
  items,     \* the entries that can still be popped, head first
  detached,  \* TRUE when appending does not reach items
  popped     \* the tasks handed out, in order

listVars == <<items, detached, popped>>

Entry(task, prio) == [task |-> task, prio |-> prio]

Appended(entry) ==
  IF items = <<>> THEN <<entry>>
  ELSE IF detached THEN items
  ELSE Append(items, entry)

ListInit ==
  /\ items = <<>>
  /\ detached = FALSE
  /\ popped = <<>>

PushEntry(task) ==
  /\ items' = Appended(Entry(task, Common))
  /\ UNCHANGED <<detached, popped>>

AddEntry(task, prio) ==
  /\ IF items # <<>> /\ prio >= Head(items).prio
     THEN /\ items' = <<Entry(task, prio)>> \o Tail(items)
          /\ detached' = (Len(items) = 1)
     ELSE /\ items' = Appended(Entry(task, prio))
          /\ UNCHANGED detached
  /\ UNCHANGED popped

PopEntry ==
  /\ items # <<>>
  /\ items' = Tail(items)
  /\ popped' = Append(popped, Head(items).task)
  /\ detached' = FALSE

ListNext ==
  \/ \E task \in Tasks : PushEntry(task)
  \/ \E task \in Tasks, prio \in Priorities : AddEntry(task, prio)
  \/ PopEntry

ListSpec == ListInit /\ [][ListNext]_listVars
=============================================================================
