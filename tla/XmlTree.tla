------------------------------ MODULE XmlTree ------------------------------
(***************************************************************************)
(* What the DOM of libcwmp/src/xmlet promises its callers: a forest in     *)
(* which every node keeps the sequence of its children, and in which a     *)
(* call puts one node at one place, takes one out, swaps two, or drops a   *)
(* detached subtree. No pointers and no order of assignments.              *)
(***************************************************************************)
EXTENDS Naturals, SequencesExt

CONSTANT TreeNodes

VARIABLE kids \* the children of every node that exists, in document order

TreeLive == DOMAIN kids

\* n and the nodes anywhere below it.
TreeBelow(n) ==
  LET k == kids
      Below[m \in DOMAIN k] == {m} \cup UNION {Below[c] : c \in Range(k[m])}
  IN  Below[n]

TreeRoots ==
  LET k == kids IN DOMAIN k \ UNION {Range(k[m]) : m \in DOMAIN k}

\* The children of a node, of which none is named twice, without c.
Without(s, c) ==
  IF c \in Range(s) THEN RemoveAt(s, CHOOSE i \in DOMAIN s : s[i] = c) ELSE s

TreeInit == kids = <<>>

\* A new node is a tree of its own.
TreeCreate(n) ==
  /\ n \in TreeNodes \ TreeLive
  /\ kids' = [m \in TreeLive \cup {n} |-> IF m = n THEN <<>> ELSE kids[m]]

\* c may come under p: it has no parent or is a child of p already, and
\* nothing comes to stand below itself.
TreeMayPut(p, c) ==
  /\ p \notin TreeBelow(c)
  /\ c \in TreeRoots \cup Range(kids[p])

\* c comes to stand at place i among the children of p.
TreePut(p, c) ==
  /\ TreeMayPut(p, c)
  /\ LET k == kids
         s == Without(k[p], c)
     IN  \E i \in 1..(Len(s) + 1) : kids' = [k EXCEPT ![p] = InsertAt(s, i, c)]

TreeTake(p, c) ==
  LET k == kids
  IN  c \in Range(k[p]) /\ kids' = [k EXCEPT ![p] = Without(@, c)]

\* The new child stands exactly where the old one stood.
TreeSwap(p, c, old) ==
  /\ c # old
  /\ TreeMayPut(p, c)
  /\ LET k == kids
         s == Without(k[p], c)
     IN  /\ old \in Range(s)
         /\ kids' = [k EXCEPT ![p] =
                       [j \in DOMAIN s |-> IF s[j] = old THEN c ELSE s[j]]]

TreeDrop(n) ==
  /\ n \in TreeRoots
  /\ kids' = LET k == kids IN [m \in DOMAIN k \ TreeBelow(n) |-> k[m]]

TreeNext ==
  \/ \E n \in TreeNodes : TreeCreate(n)
  \/ \E n \in TreeLive : TreeDrop(n)
  \/ \E p, c \in TreeLive :
        \/ TreePut(p, c)
        \/ TreeTake(p, c)
        \/ \E old \in Range(kids[p]) : TreeSwap(p, c, old)

TreeSpec == TreeInit /\ [][TreeNext]_kids
=============================================================================
