---------------------------- MODULE TaskQueueList ----------------------------
(****************************************************************************)
(* The list that the nodes of TaskQueue.tla hold, and what the queue does    *)
(* in terms of it.                                                          *)
(****************************************************************************)
EXTENDS TaskQueue

NextOf == [n \in Nodes \cup {Null} |-> IF n = Null THEN Null ELSE node[n].next]

\* The k-th node met from first along next, Null past the end.
Met[k \in 1..MaxNodes + 1] == IF k = 1 THEN first ELSE NextOf[Met[k - 1]]

Length == CHOOSE l \in 0..MaxNodes : Met[l + 1] = Null /\ (l = 0 \/ Met[l] # Null)

Chain == [k \in 1..Length |-> Met[k]]

Items == LET chain == Chain
         IN  [i \in 1..Len(chain) |-> [task |-> node[chain[i]].task,
                                       prio |-> node[chain[i]].prio]]
Tasked(entries) == [i \in 1..Len(entries) |-> entries[i].task]
Detached == LET chain == Chain IN chain # <<>> /\ last # chain[Len(chain)]

\* As long as no callback task is added, the queue is first in, first out,
\* loses nothing, and size is the number of tasks waiting.
FifoWithoutCallbacks ==
  added = 0 => /\ popped \o Tasked(Items) = pushed
               /\ size = Len(Items)

\* The queue does what TaskList says: pushes append, adds may replace the head,
\* and appends are lost while the tail is on a replaced node.
List == INSTANCE TaskList WITH items <- Items, detached <- Detached
ImplementsList == List!ListSpec
=============================================================================
