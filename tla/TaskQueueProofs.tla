--------------------------- MODULE TaskQueueProofs ---------------------------
(****************************************************************************)
(* The queue's pointers are safe for every set of tasks, every number of    *)
(* nodes and any number of producers, with the agent as the one consumer,   *)
(* and what the nodes hold is the list of TaskList.tla.                     *)
(****************************************************************************)
EXTENDS TaskQueueList, SequenceTheorems, WellFoundedInduction, NaturalsInduction, TLAPS

\* The tail is the last node linked: allocated, not freed, with nothing behind
\* it.  That is what keeps the tail from being the node a pop frees while the
\* list goes on.
TailInv ==
  /\ freed \subseteq 1..used
  /\ last # Null => last <= used /\ last \notin freed /\ node[last].next = Null
  /\ first <= used
  /\ \A n \in Nodes : node[n].next <= used
  /\ first = Null <=> last = Null

\* The consumer takes the mutex only on a queue it saw filled, and nobody else
\* pops.
PopInv == pc = "popping" => first # Null

IInv == TypeOK /\ TailInv /\ PopInv /\ NoBadAccess

LEMMA InitIInv == Init => IInv
<1> SUFFICES ASSUME Init PROVE IInv
  OBVIOUS
<1> USE QueueAssumption DEF Init, Nodes, Null
<1>1. PICK task \in Tasks : node = [n \in Nodes |-> Blank(task, Common)]
  OBVIOUS
<1>2. node \in [Nodes -> [task : Tasks, prio : Priorities, next : Nodes \cup {Null}]]
  BY <1>1 DEF Blank
<1>3. TypeOK
  BY <1>2 DEF TypeOK
<1>4. TailInv /\ PopInv /\ NoBadAccess
  BY <1>1 DEF TailInv, PopInv, NoBadAccess, Blank
<1>5. QED
  BY <1>3, <1>4 DEF IInv

\* Linking a new node at the tail keeps the invariant's parts about pointers.
LEMMA LinkLastIInv ==
  ASSUME IInv, NEW task \in Tasks, NEW prio \in Priorities,
         used < MaxNodes, used' = used + 1, freed' = freed,
         LinkLast(used + 1, Blank(task, prio))
  PROVE  /\ node' \in [Nodes -> [task : Tasks, prio : Priorities, next : Nodes \cup {Null}]]
         /\ used' \in 0..MaxNodes
         /\ first' \in Nodes /\ last' \in Nodes
         /\ size' \in Int
         /\ pc' = pc
         /\ TailInv'
<1> USE QueueAssumption DEF IInv, TypeOK, Nodes, Null
<1> DEFINE n == used + 1
           entry == Blank(task, prio)
<1>1. n \in Nodes /\ entry \in [task : Tasks, prio : Priorities, next : Nodes \cup {Null}]
      /\ entry.next = Null
  BY DEF Blank
<1>2. CASE first = Null
  <2>1. node' = [node EXCEPT ![n] = entry] /\ first' = n /\ last' = n /\ pc' = pc /\ size' = size + 1
    BY <1>2 DEF LinkLast
  <2>2. QED
    BY <1>1, <2>1 DEF TailInv
<1>3. CASE first # Null
  <2>1. ReadableLast /\ last \in Nodes /\ last # n
    BY <1>3 DEF TailInv, ReadableLast
  <2>2. /\ node' = [node EXCEPT ![n] = entry, ![last].next = n]
        /\ first' = first /\ last' = n /\ pc' = pc /\ size' = size + 1
    BY <1>3, <2>1 DEF LinkLast
  <2>3. node'[n] = entry
    BY <1>1, <2>1, <2>2
  <2>4. node' \in [Nodes -> [task : Tasks, prio : Priorities, next : Nodes \cup {Null}]]
    <3>1. [node[last] EXCEPT !.next = n] \in [task : Tasks, prio : Priorities, next : Nodes \cup {Null}]
      BY <1>1, <2>1
    <3>2. node' = [[node EXCEPT ![n] = entry] EXCEPT ![last] = [node[last] EXCEPT !.next = n]]
      BY <1>1, <2>1, <2>2
    <3>3. QED
      BY <1>1, <2>1, <3>1, <3>2
  <2>5. used' \in 0..MaxNodes /\ first' \in Nodes /\ last' \in Nodes /\ size' \in Int /\ pc' = pc
    BY <1>1, <1>3, <2>1, <2>2
  <2>6. freed' \subseteq 1..used'
    BY DEF TailInv
  <2>7. last' \notin freed' /\ last' <= used'
    BY <1>1, <2>2 DEF TailInv
  <2>8. node'[last'].next = Null
    BY <1>1, <2>2, <2>3
  <2>9. first' <= used' /\ \A m \in Nodes : node'[m].next <= used'
    <3>1. first' <= used'
      BY <1>1, <2>1, <2>2 DEF TailInv
    <3>2. ASSUME NEW m \in Nodes PROVE node'[m].next <= used'
      <4>1. node[m].next <= used /\ used < n
        BY DEF TailInv
      <4>2. node'[m].next \in {Null, n, node[m].next}
        BY <1>1, <2>1, <2>2
      <4>3. QED
        BY <1>1, <4>1, <4>2
    <3>3. QED
      BY <3>1, <3>2
  <2>10. TailInv'
    BY <1>1, <1>3, <2>2, <2>5, <2>6, <2>7, <2>8, <2>9 DEF TailInv
  <2>11. QED
    BY <2>4, <2>5, <2>10
<1>4. QED
  BY <1>2, <1>3

LEMMA NextIInv == IInv /\ [Next]_vars => IInv'
<1> SUFFICES ASSUME IInv, [Next]_vars PROVE IInv'
  OBVIOUS
<1> USE QueueAssumption DEF Nodes, Null
<1>1. ASSUME NEW task \in Tasks, Push(task) PROVE IInv'
  <2>1. /\ used < MaxNodes /\ used' = used + 1 /\ freed' = freed
        /\ LinkLast(used + 1, Blank(task, Common))
        /\ pushed' = Append(pushed, task) /\ popped' = popped /\ added' = added
    BY <1>1 DEF Push, Allocate
  <2>2. /\ node' \in [Nodes -> [task : Tasks, prio : Priorities, next : Nodes \cup {Null}]]
        /\ used' \in 0..MaxNodes
        /\ first' \in Nodes /\ last' \in Nodes
        /\ size' \in Int
        /\ pc' = pc
        /\ TailInv'
    BY <2>1, LinkLastIInv
  <2>3. TypeOK'
    BY <2>1, <2>2 DEF IInv, TypeOK
  <2>4. QED
    BY <2>2, <2>3 DEF IInv, PopInv, NoBadAccess
<1>2. ASSUME NEW task \in Tasks, NEW prio \in Priorities, Add(task, prio) PROVE IInv'
  <2>1. /\ used < MaxNodes /\ used' = used + 1 /\ freed' = freed
        /\ added' = added + 1 /\ popped' = popped /\ pushed' = pushed
    BY <1>2 DEF Add, Allocate
  <2>2. CASE first # Null /\ prio >= node[first].prio
    <3>1. ReplaceFirst(used + 1, Blank(task, prio))
      BY <1>2, <2>2 DEF Add
    <3>2. used + 1 \in Nodes /\ first \in Nodes /\ used \in Nat
      BY <2>1, <2>2 DEF IInv, TypeOK
    <3> DEFINE entry == [Blank(task, prio) EXCEPT !.next = node[first].next]
    <3>3. entry \in [task : Tasks, prio : Priorities, next : Nodes \cup {Null}]
      BY <3>2 DEF Blank, IInv, TypeOK
    <3>4. /\ node' = [node EXCEPT ![used + 1] = entry] /\ first' = used + 1
          /\ last' = last /\ pc' = pc /\ size' = size + 1
      BY <3>1 DEF ReplaceFirst
    <3>5. TypeOK'
      <4>1. node' \in [Nodes -> [task : Tasks, prio : Priorities, next : Nodes \cup {Null}]]
        BY <3>2, <3>3, <3>4 DEF IInv, TypeOK
      <4>2. size' \in Int /\ used' \in 0..MaxNodes /\ added' \in Nat
        BY <2>1, <3>2, <3>4 DEF IInv, TypeOK
      <4>3. QED
        BY <2>1, <3>2, <3>4, <4>1, <4>2 DEF IInv, TypeOK
    <3>6. TailInv'
      <4>1. last # Null /\ last <= used /\ last \notin freed /\ node[last].next = Null
            /\ freed \subseteq 1..used
        BY <2>2 DEF IInv, TailInv
      <4>2. last # used + 1 /\ last \in Nodes
        BY <3>2, <4>1 DEF IInv, TypeOK
      <4>3. node'[last] = node[last]
        BY <3>2, <3>4, <4>2 DEF IInv, TypeOK
      <4>4. freed' \subseteq 1..used'
        BY <2>1, <3>2, <4>1
      <4>5. last' # Null /\ last' <= used' /\ last' \notin freed' /\ node'[last'].next = Null
        BY <2>1, <3>2, <3>4, <4>1, <4>2, <4>3
      <4>6. first' # Null /\ first' <= used'
        BY <2>1, <3>2, <3>4
      <4>7. ASSUME NEW m \in Nodes PROVE node'[m].next <= used'
        <5>1. node[m].next <= used /\ node[first].next <= used
          BY <3>2 DEF IInv, TailInv
        <5>2. node'[m].next \in {node[first].next, node[m].next}
          BY <3>2, <3>4 DEF Blank, IInv, TypeOK
        <5>3. node[m].next \in Nat /\ node[first].next \in Nat
          BY <3>2 DEF IInv, TypeOK
        <5>4. QED
          BY <2>1, <3>2, <5>1, <5>2, <5>3
      <4>8. QED
        BY <4>4, <4>5, <4>6, <4>7 DEF TailInv
    <3>7. QED
      BY <3>2, <3>4, <3>5, <3>6 DEF IInv, PopInv, NoBadAccess
  <2>3. CASE ~(first # Null /\ prio >= node[first].prio)
    <3>1. LinkLast(used + 1, Blank(task, prio))
      BY <1>2, <2>3 DEF Add
    <3>2. /\ node' \in [Nodes -> [task : Tasks, prio : Priorities, next : Nodes \cup {Null}]]
          /\ used' \in 0..MaxNodes
          /\ first' \in Nodes /\ last' \in Nodes
          /\ size' \in Int
          /\ pc' = pc
          /\ TailInv'
      BY <2>1, <3>1, LinkLastIInv
    <3>3. TypeOK'
      BY <2>1, <3>2 DEF IInv, TypeOK
    <3>4. QED
      BY <3>2, <3>3 DEF IInv, PopInv, NoBadAccess
  <2>4. QED
    BY <2>2, <2>3
<1>3. ASSUME PopCheck PROVE IInv'
  BY <1>3 DEF PopCheck, NotEmpty, pointerVars, historyVars, IInv, TypeOK, TailInv,
     PopInv, NoBadAccess
<1>4. ASSUME PopTake PROVE IInv'
  <2>1. first \in Nodes /\ first # Null
    BY <1>4 DEF PopTake, IInv, TypeOK, PopInv
  <2>2. /\ popped' = Append(popped, node[first].task)
        /\ first' = node[first].next /\ last' = LastAfterPop
        /\ freed' = freed \cup {first} /\ size' = size - 1 /\ pc' = "idle"
        /\ node' = node /\ used' = used /\ pushed' = pushed /\ added' = added
    BY <1>4, <2>1 DEF PopTake, FirstAfterPop
  <2>3. TypeOK'
    BY <2>1, <2>2 DEF LastAfterPop, IInv, TypeOK
  <2>4. TailInv'
    <3>1. first <= used /\ freed \subseteq 1..used /\ last # Null /\ last <= used
          /\ last \notin freed /\ node[last].next = Null
      BY <2>1 DEF IInv, TailInv
    <3>2. freed' \subseteq 1..used'
      BY <2>1, <2>2, <3>1 DEF IInv, TypeOK
    <3>3. first' <= used' /\ \A n \in Nodes : node'[n].next <= used'
      BY <2>1, <2>2 DEF IInv, TailInv
    <3>4. CASE node[first].next = Null
      <4>1. first' = Null /\ last' = Null
        BY <2>2, <3>4 DEF LastAfterPop
      <4>2. QED
        BY <2>2, <3>2, <3>3, <4>1 DEF TailInv
    <3>5. CASE node[first].next # Null
      <4>1. last' = last /\ last # first /\ first' # Null
        BY <2>2, <3>1, <3>5 DEF LastAfterPop
      <4>2. QED
        BY <2>2, <3>1, <3>2, <3>3, <4>1 DEF TailInv
    <3>6. QED
      BY <3>4, <3>5
  <2>5. QED
    BY <2>2, <2>3, <2>4 DEF IInv, PopInv, NoBadAccess
<1>5. ASSUME UNCHANGED vars PROVE IInv'
  BY <1>5 DEF vars, pointerVars, historyVars, IInv, TypeOK, TailInv, PopInv, NoBadAccess
<1>6. QED
  BY <1>1, <1>2, <1>3, <1>4, <1>5 DEF Next

\* The invariant holds in every behaviour of the queue.
THEOREM QueueInvariant == Spec => []IInv
<1>1. Init => IInv
  BY InitIInv
<1>2. IInv /\ [Next]_vars => IInv'
  BY NextIInv
<1>3. QED
  BY <1>1, <1>2, PTL DEF Spec

\* The fields of queue_t and of its nodes keep their types.
THEOREM QueueTypes == Spec => []TypeOK
<1>1. IInv => TypeOK
  BY DEF IInv
<1>2. QED
  BY <1>1, QueueInvariant, PTL

\* No producer and not the consumer follows a NULL or freed pointer: the test
\* queue_pop makes before it locks is enough with one consumer.
THEOREM QueuePointersSafe == Spec => []NoBadAccess
<1>1. IInv => NoBadAccess
  BY DEF IInv
<1>2. QED
  BY <1>1, QueueInvariant, PTL

----------------------------------------------------------------------------
(* The list                                                                  *)

\* A set of naturals that is not empty has a least element.  Applied to the
\* counterexamples of a statement, this is induction.
LEMMA LeastNatural ==
  ASSUME NEW T, T \subseteq Nat, T # {}
  PROVE  \E n \in T : \A m \in T : n <= m
<1> DEFINE R == OpToRel(<, Nat)
<1>1. IsWellFoundedOn(R, Nat)
  BY NatLessThanWellFounded
<1>2. \A x, y \in Nat : <<x, y>> \in R <=> x < y
  BY DEF OpToRel
<1>3. PICK n \in T : \A y \in T : ~(<<y, n>> \in R)
  <2> HIDE DEF R
  <2> QED BY <1>1, WFMin
<1>4. \A y \in T : ~(y < n)
  <2> HIDE DEF R
  <2> QED BY <1>2, <1>3, Zenon
<1>5. \A y \in T : y \in Nat
  OBVIOUS
<1> QED BY <1>4, <1>5

Record == [task : Tasks, prio : Priorities]

\* The nodes of s, in order, are those met from first along next.
Linked(s) ==
  /\ Len(s) <= MaxNodes
  /\ first = IF s = <<>> THEN Null ELSE s[1]
  /\ \A i \in 1..Len(s) : node[s[i]].next = IF i = Len(s) THEN Null ELSE s[i + 1]

\* Chain is the one sequence of nodes that is linked.
LEMMA ChainIs ==
  \A s \in Seq(Nodes) : TypeOK /\ Linked(s) => Chain = s
<1> SUFFICES ASSUME NEW s \in Seq(Nodes), TypeOK, Linked(s) PROVE Chain = s
  OBVIOUS
<1> USE QueueAssumption DEF Nodes, Null
<1> DEFINE Eq(f) == f = [k \in 1..MaxNodes + 1 |-> IF k = 1 THEN first ELSE NextOf[f[k - 1]]]
           F == [k \in 1..MaxNodes + 1 |-> IF k <= Len(s) THEN s[k] ELSE Null]
<1>0. Len(s) \in Nat /\ s \in [1..Len(s) -> Nodes] /\ Len(s) <= MaxNodes /\ (s = <<>> <=> Len(s) = 0)
  BY DEF Linked
<1>1. Eq(F)
  <2> SUFFICES ASSUME NEW k \in 1..MaxNodes + 1
               PROVE  F[k] = IF k = 1 THEN first ELSE NextOf[F[k - 1]]
    BY Zenon
  <2>1. CASE k = 1
    <3>1. first = IF Len(s) = 0 THEN Null ELSE s[1]
      BY <1>0 DEF Linked
    <3>2. F[1] = IF Len(s) = 0 THEN Null ELSE s[1]
      BY <1>0
    <3>3. QED
      BY <2>1, <3>1, <3>2
  <2>2. CASE k # 1 /\ k - 1 <= Len(s)
    <3>1. F[k - 1] = s[k - 1] /\ s[k - 1] \in Nodes /\ k - 1 \in 1..Len(s)
      BY <1>0, <2>2
    <3>2. NextOf[F[k - 1]] = node[s[k - 1]].next
      BY <3>1 DEF NextOf
    <3>3. node[s[k - 1]].next = IF k - 1 = Len(s) THEN Null ELSE s[k]
      BY <3>1, <2>2 DEF Linked
    <3>4. QED
      BY <1>0, <2>2, <3>2, <3>3
  <2>3. CASE k # 1 /\ k - 1 > Len(s)
    BY <1>0, <2>3 DEF NextOf
  <2>4. QED
    BY <1>0, <2>1, <2>2, <2>3
<1>2. Eq(Met)
  <2> HIDE DEF F
  <2>1. \E f : Eq(f)
    BY <1>1
  <2>2. Met = CHOOSE f : Eq(f)
    BY DEF Met
  <2>3. QED
    BY <2>1, <2>2, Zenon
<1>3. \A k \in 1..MaxNodes + 1 : Met[k] = F[k]
  <2> DEFINE Bad == {k \in 1..MaxNodes + 1 : Met[k] # F[k]}
  <2>1. SUFFICES ASSUME Bad # {} PROVE FALSE
    OBVIOUS
  <2>2. PICK k \in Bad : \A m \in Bad : k <= m
    <3>1. Bad \subseteq Nat
      BY DEF Bad
    <3> HIDE DEF Bad
    <3>2. QED
      BY <2>1, <3>1, LeastNatural
  <2>3. k # 1
    BY <1>1, <1>2
  <2>4. k - 1 \in 1..MaxNodes + 1 /\ Met[k - 1] = F[k - 1]
    BY <2>2, <2>3
  <2>5. QED
    <3> HIDE DEF F
    <3>1. Met[k] = NextOf[Met[k - 1]] /\ F[k] = NextOf[F[k - 1]]
      BY <1>1, <1>2, <2>3
    <3>2. QED
      BY <2>4, <3>1
<1>4. Length = Len(s)
  <2>1. \A l \in 0..MaxNodes :
          (Met[l + 1] = Null /\ (l = 0 \/ Met[l] # Null)) <=> l = Len(s)
    <3> SUFFICES ASSUME NEW l \in 0..MaxNodes
                 PROVE  (Met[l + 1] = Null /\ (l = 0 \/ Met[l] # Null)) <=> l = Len(s)
      OBVIOUS
    <3>1. Met[l + 1] = F[l + 1] /\ (l # 0 => Met[l] = F[l])
      BY <1>3
    <3>2. F[l + 1] = Null <=> l >= Len(s)
      BY <1>0
    <3>3. l # 0 => (F[l] = Null <=> l > Len(s))
      BY <1>0
    <3> HIDE DEF F
    <3>4. CASE l = 0
      BY <1>0, <3>1, <3>2, <3>4
    <3>5. CASE l # 0
      <4>1. Met[l] = Null <=> l > Len(s)
        BY <3>1, <3>3, <3>5
      <4>2. Met[l + 1] = Null <=> l >= Len(s)
        BY <3>1, <3>2
      <4>3. (l >= Len(s) /\ ~(l > Len(s))) <=> l = Len(s)
        <5>1. Len(s) \in Nat /\ l \in Nat
          BY <1>0
        <5> HIDE DEF Nodes, Null
        <5>2. QED
          BY <5>1
      <4>4. QED
        BY <3>5, <4>1, <4>2, <4>3, Zenon
    <3>6. QED
      BY <3>4, <3>5
  <2> DEFINE Ends(l) == Met[l + 1] = Null /\ (l = 0 \/ Met[l] # Null)
  <2>2. Length = CHOOSE l \in 0..MaxNodes : Ends(l)
    BY DEF Length
  <2>3. Len(s) \in 0..MaxNodes
    BY <1>0
  <2>4. \A l \in 0..MaxNodes : Ends(l) <=> l = Len(s)
    BY <2>1
  <2> HIDE DEF Ends
  <2>5. QED
    BY <2>2, <2>3, <2>4
<1>5. QED
  BY <1>0, <1>3, <1>4 DEF Chain

LEMMA NextChainIs ==
  (\A s \in Seq(Nodes) : TypeOK /\ Linked(s) => Chain = s)'
BY ChainIs, PTL

----------------------------------------------------------------------------
(* What the steps do to the list                                             *)

\* s is the list, its nodes are allocated, and the tail is its end or, after
\* the only entry was replaced, a node outside of it.
Carries(s) ==
  /\ Linked(s)
  /\ Len(s) <= used
  /\ \A i \in 1..Len(s) : s[i] <= used
  /\ s # <<>> => last = s[Len(s)] \/ (Len(s) = 1 /\ last # s[1])

ChainInv == \E s \in Seq(Nodes) : Carries(s)

Entries(s) == [i \in 1..Len(s) |-> [task |-> node[s[i]].task, prio |-> node[s[i]].prio]]

\* What the list mapped to TaskList is, given the nodes on it.
Shows(s) ==
  /\ Items = Entries(s)
  /\ Items \in Seq(Record)
  /\ Len(Items) = Len(s)
  /\ Detached <=> (s # <<>> /\ last # s[Len(s)])
  /\ Detached \in BOOLEAN

LEMMA CarriedIs ==
  \A s \in Seq(Nodes) : TypeOK /\ Carries(s) => Shows(s)
<1> SUFFICES ASSUME NEW s \in Seq(Nodes), TypeOK, Carries(s) PROVE Shows(s)
  OBVIOUS
<1>1. Chain = s
  BY ChainIs DEF Carries
<1>2. Items = Entries(s)
  BY <1>1 DEF Items, Entries
<1>3. Len(s) \in Nat /\ \A i \in 1..Len(s) : s[i] \in Nodes
  OBVIOUS
<1>4. \A i \in 1..Len(s) : Entries(s)[i] \in Record
  BY <1>3 DEF Entries, TypeOK, Record
<1>5. Entries(s) \in Seq(Record) /\ Len(Entries(s)) = Len(s)
  BY <1>3, <1>4 DEF Entries
<1>6. QED
  BY <1>1, <1>2, <1>5 DEF Detached, Shows

LEMMA NextCarriedIs ==
  (\A s \in Seq(Nodes) : TypeOK /\ Carries(s) => Shows(s))'
BY CarriedIs, PTL

\* Linking at the tail is appending, where the tail is the list's end.
LEMMA LinkLastAppends ==
  ASSUME IInv, ChainInv, TypeOK', NEW task \in Tasks, NEW prio \in Priorities,
         used < MaxNodes, used' = used + 1,
         LinkLast(used + 1, Blank(task, prio))
  PROVE  /\ ChainInv'
         /\ Items' = List!Appended(List!Entry(task, prio))
         /\ Detached' = Detached
<1>1. PICK s \in Seq(Nodes) : Carries(s)
  BY DEF ChainInv
<1>2. TypeOK /\ TailInv
  BY DEF IInv
<1>3. PICK n : n = used + 1
  OBVIOUS
<1>4. PICK entry : entry = Blank(task, prio)
  OBVIOUS
<1>5. PICK e : e = List!Entry(task, prio)
  OBVIOUS
<1>6. e \in Record /\ e = [task |-> entry.task, prio |-> entry.prio] /\ entry.next = Null
  BY <1>4, <1>5 DEF Record, Blank, List!Entry
<1>7. /\ used \in Nat /\ n \in Nodes /\ 1 <= MaxNodes /\ MaxNodes \in Nat
      /\ Len(s) \in Nat /\ Len(s) <= used
      /\ s = <<>> <=> Len(s) = 0
  BY <1>1, <1>2, <1>3, QueueAssumption DEF Carries, TypeOK, Nodes
<1>8. \A i \in 1..Len(s) : s[i] \in Nodes /\ s[i] <= used /\ s[i] # n
  BY <1>1, <1>3, <1>7 DEF Carries, Nodes
<1>9. /\ Items = Entries(s) /\ Items \in Seq(Record) /\ Len(Items) = Len(s)
      /\ Detached <=> (s # <<>> /\ last # s[Len(s)])
      /\ Detached \in BOOLEAN
  BY <1>1, <1>2, CarriedIs DEF Shows
<1>10. /\ Items # <<>> <=> s # <<>>
  BY <1>7, <1>9
<1>11. CASE s = <<>>
  <2>1. first = Null
    BY <1>1, <1>11 DEF Carries, Linked
  <2>2. first' = n /\ last' = n /\ node' = [node EXCEPT ![n] = entry]
    BY <1>3, <1>4, <2>1 DEF LinkLast
  <2>3. node'[n] = entry
    BY <1>2, <1>7, <2>2 DEF TypeOK
  <2>4. PICK t \in Seq(Nodes) : t = <<n>> /\ t # <<>> /\ Len(t) = 1 /\ t[1] = n
    <3>1. <<n>> \in Seq(Nodes)
      BY <1>7
    <3>2. <<n>> # <<>> /\ Len(<<n>>) = 1 /\ <<n>>[1] = n
      OBVIOUS
    <3>3. QED
      BY <3>1, <3>2
  <2>5. Linked(t)'
    BY <1>6, <1>7, <2>2, <2>3, <2>4 DEF Linked
  <2>6. Carries(t)'
    BY <1>3, <1>7, <2>2, <2>4, <2>5 DEF Carries
  <2>7. /\ Items' = Entries(t)' /\ Items' \in Seq(Record) /\ Len(Items') = Len(t)
        /\ Detached' <=> (t # <<>> /\ last' # t[Len(t)])
        /\ Detached' \in BOOLEAN
    BY <2>6, NextCarriedIs DEF Shows
  <2>8. Items'[1] = e
    BY <1>6, <2>3, <2>4, <2>7 DEF Entries
  <2>9. Items' = <<e>>
    BY <1>6, <2>4, <2>7, <2>8
  <2>10. Items = <<>> /\ Detached = FALSE /\ Detached' = FALSE
    BY <1>9, <1>10, <1>11, <2>2, <2>4, <2>7
  <2>11. QED
    BY <1>5, <2>4, <2>6, <2>9, <2>10 DEF ChainInv, List!Appended
<1>12. CASE s # <<>>
  <2>1. first = s[1] /\ s[1] \in Nodes /\ first # Null
    BY <1>1, <1>7, <1>8, <1>12 DEF Carries, Linked, Nodes, Null
  <2>2. ReadableLast /\ last \in Nodes /\ last # n /\ node[last].next = Null
    BY <1>2, <1>3, <1>7, <2>1 DEF TailInv, TypeOK, ReadableLast, Nodes
  <2>3. first' = first /\ last' = n /\ node' = [node EXCEPT ![n] = entry, ![last].next = n]
    BY <1>3, <1>4, <2>1, <2>2 DEF LinkLast
  <2>4. /\ node'[n] = entry
        /\ node'[last] = [node[last] EXCEPT !.next = n]
        /\ \A m \in Nodes : m # n /\ m # last => node'[m] = node[m]
    BY <1>2, <1>7, <2>2, <2>3 DEF TypeOK
  <2>5. /\ \A m \in Nodes : m # n => node'[m].task = node[m].task /\ node'[m].prio = node[m].prio
        /\ node'[last].next = n
    BY <1>2, <2>2, <2>4 DEF TypeOK
  <2>6. \A i \in 1..Len(s) - 1 : node[s[i]].next = s[i + 1] /\ s[i + 1] \in Nodes /\ s[i] # last
    <3> SUFFICES ASSUME NEW i \in 1..Len(s) - 1
                 PROVE  node[s[i]].next = s[i + 1] /\ s[i + 1] \in Nodes /\ s[i] # last
      OBVIOUS
    <3>1. i \in 1..Len(s) /\ i + 1 \in 1..Len(s) /\ i # Len(s)
      BY <1>7
    <3>2. node[s[i]].next = s[i + 1] /\ s[i + 1] \in Nodes
      BY <1>1, <1>8, <3>1 DEF Carries, Linked
    <3>3. QED
      BY <2>2, <3>2 DEF Nodes, Null
  <2>7. CASE last = s[Len(s)]
    <3>1. PICK t \in Seq(Nodes) : t = Append(s, n)
      BY <1>7, AppendProperties
    <3>2. /\ t # <<>> /\ Len(t) = Len(s) + 1
          /\ \A i \in 1..Len(s) : t[i] = s[i]
          /\ t[Len(s) + 1] = n
      BY <1>7, <3>1, AppendProperties
    <3>3. \A i \in 1..Len(t) : node'[t[i]].next = IF i = Len(t) THEN Null ELSE t[i + 1]
      <4> SUFFICES ASSUME NEW i \in 1..Len(t)
                   PROVE  node'[t[i]].next = IF i = Len(t) THEN Null ELSE t[i + 1]
        OBVIOUS
      <4>1. CASE i = Len(t)
        BY <1>6, <2>4, <3>2, <4>1
      <4>2. CASE i = Len(s)
        BY <1>7, <1>12, <2>5, <2>7, <3>2, <4>2
      <4>3. CASE i \in 1..Len(s) - 1
        <5>1. i \in 1..Len(s) /\ i + 1 \in 1..Len(s) /\ i # Len(t)
          BY <1>7, <3>2, <4>3
        <5>2. t[i] = s[i] /\ t[i + 1] = s[i + 1] /\ s[i] \in Nodes /\ s[i] # n
          BY <1>8, <3>2, <5>1
        <5>3. QED
          BY <2>4, <2>6, <4>3, <5>1, <5>2
      <4>4. QED
        BY <1>7, <3>2, <4>1, <4>2, <4>3
    <3>4. Len(t) <= used' /\ Len(t) <= MaxNodes
      BY <1>3, <1>7, <3>2 DEF Nodes
    <3>5. first' = t[1]
      BY <1>7, <1>12, <2>1, <2>3, <3>2
    <3>6. \A i \in 1..Len(t) : t[i] <= used'
      <4> SUFFICES ASSUME NEW i \in 1..Len(t) PROVE t[i] <= used'
        OBVIOUS
      <4>1. CASE i = Len(t)
        BY <1>3, <1>7, <3>2, <4>1
      <4>2. CASE i # Len(t)
        <5>1. i \in 1..Len(s)
          BY <1>7, <3>2, <4>2
        <5>2. t[i] = s[i] /\ s[i] <= used /\ s[i] \in Nodes
          BY <1>8, <3>2, <5>1
        <5>3. QED
          BY <1>7, <5>2 DEF Nodes
      <4>3. QED
        BY <4>1, <4>2
    <3>7. last' = t[Len(t)]
      BY <2>3, <3>2
    <3>8. Carries(t)'
      BY <3>2, <3>3, <3>4, <3>5, <3>6, <3>7 DEF Carries, Linked
    <3>9. /\ Items' = Entries(t)' /\ Items' \in Seq(Record) /\ Len(Items') = Len(t)
          /\ Detached' <=> (t # <<>> /\ last' # t[Len(t)])
          /\ Detached' \in BOOLEAN
      BY <3>8, NextCarriedIs DEF Shows
    <3>10. \A i \in 1..Len(s) : Items'[i] = Items[i]
      <4> SUFFICES ASSUME NEW i \in 1..Len(s) PROVE Items'[i] = Items[i]
        OBVIOUS
      <4>1. i \in 1..Len(t) /\ t[i] = s[i] /\ s[i] \in Nodes /\ s[i] # n
        BY <1>7, <1>8, <3>2
      <4>2. Items[i] = [task |-> node[s[i]].task, prio |-> node[s[i]].prio]
        BY <1>9 DEF Entries
      <4>3. Items'[i] = [task |-> node'[t[i]].task, prio |-> node'[t[i]].prio]
        BY <3>9, <4>1 DEF Entries
      <4>4. QED
        BY <2>5, <4>1, <4>2, <4>3
    <3>11. Items'[Len(s) + 1] = e
      <4>1. Len(s) + 1 \in 1..Len(t) /\ t[Len(s) + 1] = n
        BY <1>7, <3>2
      <4>2. Items'[Len(s) + 1] = [task |-> node'[n].task, prio |-> node'[n].prio]
        BY <3>9, <4>1 DEF Entries
      <4>3. QED
        BY <1>6, <2>4, <4>2
    <3>12. Items' = Append(Items, e)
      <4>1. /\ Append(Items, e) \in Seq(Record) /\ Len(Append(Items, e)) = Len(s) + 1
            /\ \A i \in 1..Len(s) : Append(Items, e)[i] = Items[i]
            /\ Append(Items, e)[Len(s) + 1] = e
        BY <1>6, <1>9, AppendProperties
      <4>2. Len(Items') = Len(Append(Items, e))
        BY <3>2, <3>9, <4>1
      <4>3. \A i \in 1..Len(Items') : Items'[i] = Append(Items, e)[i]
        BY <1>7, <3>2, <3>9, <3>10, <3>11, <4>1
      <4>4. QED
        BY <3>9, <4>1, <4>2, <4>3, SeqEqual
    <3>13. Items # <<>> /\ Detached = FALSE /\ Detached' = FALSE
      BY <1>9, <1>10, <1>12, <2>7, <3>7, <3>9
    <3>14. QED
      BY <1>5, <3>8, <3>12, <3>13 DEF ChainInv, List!Appended
  <2>8. CASE last # s[Len(s)]
    <3>1. Len(s) = 1 /\ last # s[1]
      BY <1>1, <1>12, <2>8 DEF Carries
    <3>2. s[1] \in Nodes /\ s[1] <= used /\ s[1] # n
      BY <1>8, <3>1
    <3>3. node'[s[1]] = node[s[1]] /\ node[s[1]].next = Null
      BY <1>1, <2>4, <3>1, <3>2 DEF Carries, Linked
    <3>4. Linked(s)'
      BY <1>7, <1>12, <2>1, <2>3, <3>1, <3>3 DEF Linked
    <3>5. Carries(s)'
      <4>1. \A i \in 1..Len(s) : s[i] <= used'
        BY <1>7, <3>1, <3>2 DEF Nodes
      <4>2. Len(s) <= used' /\ last' # s[1]
        BY <1>7, <2>3, <3>2
      <4>3. QED
        BY <3>1, <3>4, <4>1, <4>2 DEF Carries
    <3>6. Items' = Entries(s)' /\ Len(Items') = Len(s) /\ Items' \in Seq(Record)
          /\ (Detached' <=> (s # <<>> /\ last' # s[Len(s)])) /\ Detached' \in BOOLEAN
      BY <3>5, NextCarriedIs DEF Shows
    <3>7. Items'[1] = Items[1]
      BY <1>9, <3>1, <3>3, <3>6 DEF Entries
    <3>8. Items' = Items
      BY <1>9, <3>1, <3>6, <3>7, SeqEqual
    <3>9. Detached = TRUE /\ Detached' = TRUE
      BY <1>9, <1>12, <2>3, <2>8, <3>1, <3>2, <3>6
    <3>10. QED
      BY <1>10, <1>12, <3>5, <3>8, <3>9 DEF ChainInv, List!Appended
  <2>9. QED
    BY <2>7, <2>8
<1>13. QED
  BY <1>11, <1>12

\* An entry that replaces the head leaves the others, and cuts off the tail
\* where there are none.
LEMMA ReplaceFirstReplaces ==
  ASSUME IInv, ChainInv, TypeOK', NEW task \in Tasks, NEW prio \in Priorities,
         used < MaxNodes, used' = used + 1, first # Null,
         ReplaceFirst(used + 1, Blank(task, prio))
  PROVE  /\ ChainInv'
         /\ Items # <<>> /\ Head(Items).prio = node[first].prio
         /\ Items' = <<List!Entry(task, prio)>> \o Tail(Items)
         /\ Detached' = (Len(Items) = 1)
<1>1. PICK s \in Seq(Nodes) : Carries(s)
  BY DEF ChainInv
<1>2. TypeOK /\ TailInv
  BY DEF IInv
<1>3. PICK n : n = used + 1
  OBVIOUS
<1>4. PICK entry : entry = [Blank(task, prio) EXCEPT !.next = node[first].next]
  OBVIOUS
<1>5. PICK e : e = List!Entry(task, prio)
  OBVIOUS
<1>6. e \in Record /\ e = [task |-> entry.task, prio |-> entry.prio] /\ entry.next = node[first].next
  BY <1>4, <1>5 DEF Record, Blank, List!Entry
<1>7. /\ used \in Nat /\ n \in Nodes /\ MaxNodes \in Nat
      /\ Len(s) \in Nat /\ Len(s) <= used /\ used <= MaxNodes
      /\ s = <<>> <=> Len(s) = 0
  BY <1>1, <1>2, <1>3, QueueAssumption DEF Carries, TypeOK, Nodes
<1>8. \A i \in 1..Len(s) : s[i] \in Nodes /\ s[i] <= used /\ s[i] # n
  BY <1>1, <1>3, <1>7 DEF Carries, Nodes
<1>9. s # <<>> /\ first = s[1] /\ 1 \in 1..Len(s) /\ s[1] \in Nodes
  BY <1>1, <1>7, <1>8 DEF Carries, Linked
<1>10. /\ Items = Entries(s) /\ Items \in Seq(Record) /\ Len(Items) = Len(s) /\ Items # <<>>
       /\ Items[1] = [task |-> node[first].task, prio |-> node[first].prio]
  <2>1. Shows(s)
    BY <1>1, <1>2, CarriedIs
  <2>2. QED
    BY <1>7, <1>9, <2>1 DEF Shows, Entries
<1>11. Head(Items).prio = node[first].prio
  BY <1>10
<1>12. first' = n /\ last' = last /\ node' = [node EXCEPT ![n] = entry]
  BY <1>3, <1>4 DEF ReplaceFirst
<1>13. node'[n] = entry /\ \A m \in Nodes : m # n => node'[m] = node[m]
  BY <1>2, <1>7, <1>12 DEF TypeOK
<1>14. PICK t \in Seq(Nodes) : t = [s EXCEPT ![1] = n]
  BY <1>7, <1>9, ExceptSeq
<1>15. Len(t) = Len(s) /\ t # <<>> /\ t[1] = n /\ \A i \in 1..Len(s) : i # 1 => t[i] = s[i]
  BY <1>7, <1>9, <1>14, ExceptSeq
<1>16. \A i \in 1..Len(t) : node'[t[i]].next = IF i = Len(t) THEN Null ELSE t[i + 1]
  <2> SUFFICES ASSUME NEW i \in 1..Len(s)
               PROVE  node'[t[i]].next = IF i = Len(s) THEN Null ELSE t[i + 1]
    BY <1>15
  <2>1. node'[t[i]].next = node[s[i]].next
    <3>1. CASE i = 1
      BY <1>6, <1>9, <1>13, <1>15, <3>1
    <3>2. CASE i # 1
      BY <1>8, <1>13, <1>15, <3>2
    <3>3. QED
      BY <3>1, <3>2
  <2>2. node[s[i]].next = IF i = Len(s) THEN Null ELSE s[i + 1]
    BY <1>1 DEF Carries, Linked
  <2>3. i # Len(s) => t[i + 1] = s[i + 1]
    <3> SUFFICES ASSUME i # Len(s) PROVE t[i + 1] = s[i + 1]
      OBVIOUS
    <3>1. i + 1 \in 1..Len(s) /\ i + 1 # 1
      BY <1>7
    <3>2. QED
      BY <1>15, <3>1
  <2>4. QED
    BY <2>1, <2>2, <2>3
<1>17. Carries(t)'
  <2>1. Linked(t)'
    BY <1>7, <1>12, <1>15, <1>16 DEF Linked
  <2>2. \A i \in 1..Len(t) : t[i] <= used'
    <3> SUFFICES ASSUME NEW i \in 1..Len(s) PROVE t[i] <= used + 1
      BY <1>15
    <3>1. s[i] \in Int /\ s[i] <= used
      BY <1>8 DEF Nodes
    <3>2. t[i] = n \/ t[i] = s[i]
      BY <1>15
    <3>3. QED
      BY <1>3, <1>7, <3>1, <3>2
  <2>3. last' = t[Len(t)] \/ (Len(t) = 1 /\ last' # t[1])
    <3>1. last \in Int /\ last <= used /\ last # n
      BY <1>2, <1>3, <1>7 DEF TailInv, TypeOK, Nodes, Null
    <3>2. CASE Len(s) = 1
      BY <1>12, <1>15, <3>1, <3>2
    <3>3. CASE Len(s) # 1
      <4>1. last = s[Len(s)] /\ Len(s) \in 1..Len(s)
        BY <1>1, <1>7, <1>9, <3>3 DEF Carries
      <4>2. QED
        BY <1>12, <1>15, <3>3, <4>1
    <3>4. QED
      BY <3>2, <3>3
  <2>4. QED
    BY <1>7, <1>15, <2>1, <2>2, <2>3 DEF Carries
<1>18. Shows(t)'
  BY <1>17, NextCarriedIs
<1>19. Detached' = (Len(Items) = 1)
  <2>1. Len(Items) = Len(t)
    BY <1>10, <1>15
  <2>2. CASE Len(s) = 1
    <3>1. last # n
      BY <1>2, <1>3, <1>7 DEF TailInv, TypeOK, Nodes, Null
    <3>2. QED
      BY <1>12, <1>15, <1>18, <2>1, <2>2, <3>1 DEF Shows
  <2>3. CASE Len(s) # 1
    <3>1. last = s[Len(s)] /\ Len(s) \in 1..Len(s)
      BY <1>1, <1>7, <1>9, <2>3 DEF Carries
    <3>2. QED
      BY <1>12, <1>15, <1>18, <2>1, <2>3, <3>1 DEF Shows
  <2>4. QED
    BY <2>2, <2>3
<1>20. Items' = <<e>> \o Tail(Items)
  <2>1. PICK l : l = <<e>> \o Tail(Items)
    OBVIOUS
  <2>2. /\ Tail(Items) \in Seq(Record) /\ Len(Tail(Items)) = Len(s) - 1
        /\ \A i \in 1..Len(s) - 1 : Tail(Items)[i] = Items[i + 1]
    BY <1>7, <1>10, HeadTailProperties
  <2>3. <<e>> \in Seq(Record) /\ Len(<<e>>) = 1 /\ <<e>>[1] = e
    BY <1>6
  <2>4. /\ l \in Seq(Record) /\ Len(l) = Len(s)
        /\ l[1] = e /\ \A i \in 2..Len(s) : l[i] = Tail(Items)[i - 1]
    BY <1>7, <1>9, <2>1, <2>2, <2>3, ConcatProperties
  <2>5. Items' \in Seq(Record) /\ Len(Items') = Len(s)
    BY <1>15, <1>18 DEF Shows
  <2>6. \A i \in 1..Len(s) : Items'[i] = l[i]
    <3> SUFFICES ASSUME NEW i \in 1..Len(s) PROVE Items'[i] = l[i]
      OBVIOUS
    <3>1. Items'[i] = [task |-> node'[t[i]].task, prio |-> node'[t[i]].prio]
      BY <1>15, <1>18 DEF Shows, Entries
    <3>2. CASE i = 1
      BY <1>6, <1>13, <1>15, <2>4, <3>1, <3>2
    <3>3. CASE i # 1
      <4>1. i \in 2..Len(s) /\ i - 1 \in 1..Len(s) - 1 /\ (i - 1) + 1 = i
        BY <1>7, <3>3
      <4>2. l[i] = Items[i]
        BY <2>2, <2>4, <4>1
      <4>3. Items[i] = [task |-> node[s[i]].task, prio |-> node[s[i]].prio]
        BY <1>10 DEF Entries
      <4>4. t[i] = s[i] /\ node'[s[i]] = node[s[i]]
        BY <1>8, <1>13, <1>15, <3>3
      <4>5. QED
        BY <3>1, <4>2, <4>3, <4>4
    <3>4. QED
      BY <3>2, <3>3
  <2>7. QED
    BY <2>1, <2>4, <2>5, <2>6, SeqEqual
<1>21. QED
  BY <1>5, <1>10, <1>11, <1>17, <1>19, <1>20 DEF ChainInv

\* Popping takes the first entry and leaves the others, and the tail is their
\* end again.
LEMMA PopTakeTakes ==
  ASSUME IInv, ChainInv, TypeOK', PopTake
  PROVE  ChainInv' /\ List!PopEntry
<1>1. PICK s \in Seq(Nodes) : Carries(s)
  BY DEF ChainInv
<1>2. TypeOK /\ TailInv
  BY DEF IInv
<1>3. first # Null
  BY DEF IInv, PopInv, PopTake
<1>4. /\ popped' = Append(popped, node[first].task)
      /\ first' = node[first].next /\ last' = LastAfterPop
      /\ node' = node /\ used' = used
  BY <1>3 DEF PopTake, FirstAfterPop
<1>5. /\ used \in Nat /\ MaxNodes \in Nat /\ Len(s) \in Nat /\ Len(s) <= used /\ Len(s) <= MaxNodes
      /\ s = <<>> <=> Len(s) = 0
  BY <1>1, <1>2, QueueAssumption DEF Carries, Linked, TypeOK
<1>6. \A i \in 1..Len(s) : s[i] \in Nodes /\ s[i] <= used
  BY <1>1 DEF Carries
<1>7. s # <<>> /\ first = s[1] /\ 1 \in 1..Len(s)
  BY <1>1, <1>3, <1>5 DEF Carries, Linked
<1>8. Shows(s)
  BY <1>1, <1>2, CarriedIs
<1>9. /\ Items \in Seq(Record) /\ Len(Items) = Len(s) /\ Items # <<>>
      /\ Head(Items).task = node[first].task
  BY <1>5, <1>7, <1>8 DEF Shows, Entries
<1>10. PICK t \in Seq(Nodes) : t = Tail(s)
  BY <1>7, HeadTailProperties
<1>11. Len(t) = Len(s) - 1 /\ \A i \in 1..Len(t) : t[i] = s[i + 1]
  BY <1>7, <1>10, HeadTailProperties
<1>12. t = <<>> <=> Len(s) = 1
  BY <1>5, <1>7, <1>11
<1>13. \A i \in 1..Len(t) : i + 1 \in 1..Len(s) /\ t[i] \in Nodes /\ t[i] <= used
  <2> SUFFICES ASSUME NEW i \in 1..Len(t)
               PROVE  i + 1 \in 1..Len(s) /\ t[i] \in Nodes /\ t[i] <= used
    OBVIOUS
  <2>1. i + 1 \in 1..Len(s)
    BY <1>5, <1>11
  <2>2. QED
    BY <1>6, <1>11, <2>1
<1>14. \A i \in 1..Len(t) : node[t[i]].next = IF i = Len(t) THEN Null ELSE t[i + 1]
  <2> SUFFICES ASSUME NEW i \in 1..Len(t)
               PROVE  node[t[i]].next = IF i = Len(t) THEN Null ELSE t[i + 1]
    OBVIOUS
  <2>1. node[s[i + 1]].next = IF i + 1 = Len(s) THEN Null ELSE s[(i + 1) + 1]
    BY <1>1, <1>13 DEF Carries, Linked
  <2>2. i + 1 = Len(s) <=> i = Len(t)
    BY <1>5, <1>11
  <2>3. i # Len(t) => t[i + 1] = s[(i + 1) + 1]
    BY <1>5, <1>11
  <2>4. QED
    BY <1>11, <2>1, <2>2, <2>3
<1>15. node[first].next = IF Len(s) = 1 THEN Null ELSE s[2]
  <2>1. node[s[1]].next = IF 1 = Len(s) THEN Null ELSE s[1 + 1]
    BY <1>1, <1>7 DEF Carries, Linked
  <2>2. QED
    BY <1>7, <2>1
<1>16. Linked(t)'
  <2>1. first' = IF t = <<>> THEN Null ELSE t[1]
    <3>1. CASE Len(s) = 1
      BY <1>4, <1>12, <1>15, <3>1
    <3>2. CASE Len(s) # 1
      <4>1. 1 \in 1..Len(t) /\ t[1] = s[2]
        BY <1>5, <1>7, <1>11, <3>2
      <4>2. QED
        BY <1>4, <1>12, <1>15, <3>2, <4>1
    <3>3. QED
      BY <3>1, <3>2
  <2>2. Len(t) <= MaxNodes
    BY <1>5, <1>11
  <2>3. QED
    BY <1>4, <1>14, <2>1, <2>2 DEF Linked
<1>17. t # <<>> => last' = t[Len(t)]
  <2> SUFFICES ASSUME Len(s) # 1 PROVE last' = t[Len(t)]
    BY <1>12
  <2>1. last = s[Len(s)]
    BY <1>1, <1>7 DEF Carries
  <2>2. Len(t) \in 1..Len(t) /\ Len(t) + 1 = Len(s) /\ 2 \in 1..Len(s)
    BY <1>5, <1>7, <1>11
  <2>3. node[first].next # Null
    BY <1>6, <1>15, <2>2 DEF Nodes, Null
  <2>4. QED
    BY <1>4, <1>11, <2>1, <2>2, <2>3 DEF LastAfterPop
<1>18. Carries(t)'
  BY <1>4, <1>5, <1>11, <1>13, <1>16, <1>17 DEF Carries
<1>19. Shows(t)'
  BY <1>18, NextCarriedIs
<1>20. Detached' = FALSE
  BY <1>17, <1>19 DEF Shows
<1>21. Items' = Tail(Items)
  <2>1. /\ Tail(Items) \in Seq(Record) /\ Len(Tail(Items)) = Len(t)
        /\ \A i \in 1..Len(t) : Tail(Items)[i] = Items[i + 1]
    BY <1>5, <1>9, <1>11, HeadTailProperties
  <2>2. Items' \in Seq(Record) /\ Len(Items') = Len(t)
    BY <1>19 DEF Shows
  <2>3. \A i \in 1..Len(t) : Items'[i] = Tail(Items)[i]
    <3> SUFFICES ASSUME NEW i \in 1..Len(t) PROVE Items'[i] = Tail(Items)[i]
      OBVIOUS
    <3>1. Items'[i] = [task |-> node[t[i]].task, prio |-> node[t[i]].prio]
      BY <1>4, <1>19 DEF Shows, Entries
    <3>2. Items[i + 1] = [task |-> node[s[i + 1]].task, prio |-> node[s[i + 1]].prio]
      BY <1>8, <1>13 DEF Shows, Entries
    <3>3. QED
      BY <1>11, <2>1, <3>1, <3>2
  <2>4. QED
    BY <2>1, <2>2, <2>3, SeqEqual
<1>22. QED
  BY <1>4, <1>9, <1>18, <1>20, <1>21 DEF ChainInv, List!PopEntry

----------------------------------------------------------------------------
(* The refinement of TaskList                                                *)

LInv == IInv /\ ChainInv

LEMMA InitList == Init => LInv /\ List!ListInit
<1> SUFFICES ASSUME Init PROVE LInv /\ List!ListInit
  OBVIOUS
<1>1. IInv
  BY InitIInv
<1>2. <<>> \in Seq(Nodes) /\ Len(<<>>) = 0
  OBVIOUS
<1>3. Carries(<<>>)
  BY <1>2, QueueAssumption DEF Init, Carries, Linked
<1>4. Shows(<<>>)
  BY <1>1, <1>2, <1>3, CarriedIs DEF IInv
<1>5. Items = <<>> /\ Detached = FALSE
  BY <1>2, <1>4 DEF Shows
<1>6. QED
  BY <1>1, <1>2, <1>3, <1>5 DEF LInv, ChainInv, List!ListInit, Init

\* The head of the list is the node first points to.
LEMMA HeadIsFirst ==
  ASSUME IInv, ChainInv
  PROVE  /\ Items \in Seq(Record)
         /\ Items # <<>> <=> first # Null
         /\ Items # <<>> => Head(Items).prio = node[first].prio
<1>1. PICK s \in Seq(Nodes) : Carries(s)
  BY DEF ChainInv
<1>2. Shows(s)
  BY <1>1, CarriedIs DEF IInv
<1>3. Len(s) \in Nat /\ (s = <<>> <=> Len(s) = 0) /\ \A i \in 1..Len(s) : s[i] \in Nodes
  OBVIOUS
<1>4. CASE s = <<>>
  BY <1>1, <1>2, <1>3, <1>4 DEF Carries, Linked, Shows
<1>5. CASE s # <<>>
  <2>1. first = s[1] /\ 1 \in 1..Len(s) /\ first # Null
    BY <1>1, <1>3, <1>5 DEF Carries, Linked, Nodes, Null
  <2>2. QED
    BY <1>2, <1>3, <1>5, <2>1 DEF Shows, Entries
<1>6. QED
  BY <1>4, <1>5

\* Each step of the queue is the step of the same name on the list, and the
\* test before the lock is none.
LEMMA NextList == LInv /\ [Next]_vars => LInv' /\ [List!ListNext]_(List!listVars)
<1> SUFFICES ASSUME LInv, [Next]_vars PROVE LInv' /\ [List!ListNext]_(List!listVars)
  OBVIOUS
<1>1. IInv /\ ChainInv /\ IInv' /\ TypeOK'
  BY NextIInv DEF LInv, IInv
<1>2. ASSUME NEW task \in Tasks, Push(task) PROVE ChainInv' /\ List!PushEntry(task)
  <2>1. /\ used < MaxNodes /\ used' = used + 1 /\ popped' = popped
        /\ LinkLast(used + 1, Blank(task, Common))
    BY <1>2 DEF Push, Allocate
  <2>2. /\ ChainInv'
        /\ Items' = List!Appended(List!Entry(task, Common))
        /\ Detached' = Detached
    BY <1>1, <2>1, LinkLastAppends, QueueAssumption
  <2>3. QED
    BY <2>1, <2>2 DEF List!PushEntry
<1>3. ASSUME NEW task \in Tasks, NEW prio \in Priorities, Add(task, prio)
      PROVE  ChainInv' /\ List!AddEntry(task, prio)
  <2>1. used < MaxNodes /\ used' = used + 1 /\ popped' = popped
    BY <1>3 DEF Add, Allocate
  <2>2. CASE first # Null /\ prio >= node[first].prio
    <3>1. ReplaceFirst(used + 1, Blank(task, prio))
      BY <1>3, <2>2 DEF Add
    <3>2. /\ ChainInv'
          /\ Items # <<>> /\ Head(Items).prio = node[first].prio
          /\ Items' = <<List!Entry(task, prio)>> \o Tail(Items)
          /\ Detached' = (Len(Items) = 1)
      BY <1>1, <2>1, <2>2, <3>1, ReplaceFirstReplaces
    <3>3. QED
      BY <2>1, <2>2, <3>2 DEF List!AddEntry
  <2>3. CASE ~(first # Null /\ prio >= node[first].prio)
    <3>1. LinkLast(used + 1, Blank(task, prio))
      BY <1>3, <2>3 DEF Add
    <3>2. /\ ChainInv'
          /\ Items' = List!Appended(List!Entry(task, prio))
          /\ Detached' = Detached
      BY <1>1, <2>1, <3>1, LinkLastAppends
    <3>3. ~(Items # <<>> /\ prio >= Head(Items).prio)
      BY <1>1, <2>3, HeadIsFirst
    <3>4. QED
      BY <2>1, <3>2, <3>3 DEF List!AddEntry
  <2>4. QED
    BY <2>2, <2>3
<1>4. ASSUME PopTake PROVE ChainInv' /\ List!PopEntry
  BY <1>1, <1>4, PopTakeTakes
<1>5. ASSUME node' = node, used' = used, first' = first, last' = last, popped' = popped
      PROVE  ChainInv' /\ UNCHANGED List!listVars
  <2>1. PICK s \in Seq(Nodes) : Carries(s)
    BY <1>1 DEF ChainInv
  <2>2. Carries(s)'
    BY <1>5, <2>1 DEF Carries, Linked
  <2>3. Shows(s) /\ Shows(s)'
    BY <1>1, <2>1, <2>2, CarriedIs, NextCarriedIs DEF IInv
  <2>4. Items' = Items /\ Detached' = Detached
    BY <1>5, <2>3 DEF Shows, Entries
  <2>5. QED
    BY <1>5, <2>2, <2>4 DEF ChainInv, List!listVars
<1>6. CASE PopCheck \/ UNCHANGED vars
  BY <1>1, <1>5, <1>6 DEF PopCheck, vars, pointerVars, historyVars, LInv
<1>7. QED
  BY <1>1, <1>2, <1>3, <1>4, <1>6 DEF Next, List!ListNext, LInv

\* Whatever the pointers do, the threads see the list of TaskList.tla: an
\* append is lost exactly while the tail is on a replaced node (queue.c).
THEOREM QueueImplementsList == Spec => ImplementsList
<1>1. Spec => []LInv
  BY InitList, NextList, PTL DEF Spec
<1>2. QED
  BY InitList, NextList, PTL DEF Spec, ImplementsList, List!ListSpec

----------------------------------------------------------------------------
(* First in, first out                                                       *)

LEMMA TaskedOfAppend ==
  ASSUME NEW items \in Seq(Record), NEW e \in Record
  PROVE  /\ Tasked(items) \in Seq(Tasks)
         /\ Tasked(Append(items, e)) = Append(Tasked(items), e.task)
<1>1. Len(items) \in Nat /\ (\A i \in 1..Len(items) : items[i] \in Record) /\ e.task \in Tasks
  <2>1. Len(items) \in Nat /\ \A i \in 1..Len(items) : items[i] \in Record
    OBVIOUS
  <2>2. e.task \in Tasks
    BY DEF Record
  <2>3. QED
    BY <2>1, <2>2
<1>2. Tasked(items) \in Seq(Tasks) /\ Len(Tasked(items)) = Len(items)
  BY <1>1 DEF Tasked, Record
<1>3. /\ Append(items, e) \in Seq(Record) /\ Len(Append(items, e)) = Len(items) + 1
      /\ \A i \in 1..Len(items) : Append(items, e)[i] = items[i]
      /\ Append(items, e)[Len(items) + 1] = e
  BY AppendProperties
<1>4. PICK l \in Seq(Record) : l = Append(items, e)
  BY <1>3
<1>5. Tasked(l) \in Seq(Tasks) /\ Len(Tasked(l)) = Len(items) + 1
  <2>1. Len(l) = Len(items) + 1 /\ Len(l) \in Nat /\ \A i \in 1..Len(l) : l[i] \in Record
    BY <1>1, <1>3, <1>4
  <2>2. QED
    BY <2>1 DEF Tasked, Record
<1>6. /\ Append(Tasked(items), e.task) \in Seq(Tasks)
      /\ Len(Append(Tasked(items), e.task)) = Len(items) + 1
      /\ \A i \in 1..Len(items) : Append(Tasked(items), e.task)[i] = Tasked(items)[i]
      /\ Append(Tasked(items), e.task)[Len(items) + 1] = e.task
  BY <1>1, <1>2, AppendProperties
<1>7. \A i \in 1..Len(items) + 1 : Tasked(l)[i] = Append(Tasked(items), e.task)[i]
  <2> SUFFICES ASSUME NEW i \in 1..Len(items) + 1
               PROVE  Tasked(l)[i] = Append(Tasked(items), e.task)[i]
    OBVIOUS
  <2>1. Tasked(l)[i] = l[i].task
    BY <1>1, <1>3, <1>4 DEF Tasked
  <2>2. CASE i = Len(items) + 1
    BY <1>3, <1>4, <1>6, <2>1, <2>2
  <2>3. CASE i \in 1..Len(items)
    BY <1>3, <1>4, <1>6, <2>1, <2>3 DEF Tasked
  <2>4. i = Len(items) + 1 \/ i \in 1..Len(items)
    <3>1. Len(items) \in Nat
      OBVIOUS
    <3>2. QED
      BY <3>1
  <2>5. QED
    BY <2>2, <2>3, <2>4
<1>8. QED
  BY <1>2, <1>4, <1>5, <1>6, <1>7, SeqEqual

LEMMA TaskedOfTail ==
  ASSUME NEW items \in Seq(Record), items # <<>>
  PROVE  /\ Tasked(Tail(items)) \in Seq(Tasks)
         /\ Head(items).task \in Tasks
         /\ Tasked(items) = <<Head(items).task>> \o Tasked(Tail(items))
<1>1. /\ Len(items) \in Nat /\ Len(items) # 0 /\ (\A i \in 1..Len(items) : items[i] \in Record)
      /\ Head(items) = items[1] /\ items[1].task \in Tasks
  <2>1. /\ Len(items) \in Nat /\ Len(items) # 0 /\ \A i \in 1..Len(items) : items[i] \in Record
        /\ Head(items) = items[1]
    OBVIOUS
  <2>2. items[1] \in Record
    BY <2>1
  <2>3. QED
    BY <2>1, <2>2 DEF Record
<1>2. PICK l \in Seq(Record) : l = Tail(items)
  BY HeadTailProperties
<1>3. Len(l) = Len(items) - 1 /\ \A i \in 1..Len(l) : l[i] = items[i + 1]
  BY <1>2, HeadTailProperties
<1>4. Tasked(l) \in Seq(Tasks) /\ Len(Tasked(l)) = Len(l)
  <2>1. Len(l) \in Nat /\ \A i \in 1..Len(l) : l[i] \in Record
    OBVIOUS
  <2>2. QED
    BY <2>1 DEF Tasked, Record
<1>5. Tasked(items) \in Seq(Tasks) /\ Len(Tasked(items)) = Len(items)
  BY <1>1 DEF Tasked, Record
<1>6. PICK h \in Seq(Tasks) : h = <<items[1].task>> /\ Len(h) = 1 /\ h[1] = items[1].task
  <2>1. <<items[1].task>> \in Seq(Tasks)
    BY <1>1
  <2>2. QED
    BY <2>1
<1>7. /\ h \o Tasked(l) \in Seq(Tasks) /\ Len(h \o Tasked(l)) = Len(items)
      /\ \A i \in 1..Len(items) : (h \o Tasked(l))[i] = IF i <= 1 THEN h[i] ELSE Tasked(l)[i - 1]
  <2>1. /\ h \o Tasked(l) \in Seq(Tasks) /\ Len(h \o Tasked(l)) = 1 + Len(l)
        /\ \A i \in 1..1 + Len(l) : (h \o Tasked(l))[i] = IF i <= 1 THEN h[i] ELSE Tasked(l)[i - 1]
    BY <1>4, <1>6, ConcatProperties
  <2>2. 1 + Len(l) = Len(items)
    BY <1>1, <1>3
  <2>3. QED
    BY <2>1, <2>2
<1>8. \A i \in 1..Len(items) : Tasked(items)[i] = (h \o Tasked(l))[i]
  <2> SUFFICES ASSUME NEW i \in 1..Len(items) PROVE Tasked(items)[i] = (h \o Tasked(l))[i]
    OBVIOUS
  <2>1. Tasked(items)[i] = items[i].task
    BY DEF Tasked
  <2>2. CASE i = 1
    BY <1>6, <1>7, <2>1, <2>2
  <2>3. CASE i # 1
    <3>1. i - 1 \in 1..Len(l) /\ (i - 1) + 1 = i /\ ~(i <= 1)
      BY <1>1, <1>3, <2>3
    <3>2. Tasked(l)[i - 1] = items[i].task
      BY <1>3, <3>1 DEF Tasked
    <3>3. QED
      BY <1>7, <2>1, <3>1, <3>2
  <2>4. QED
    BY <2>2, <2>3
<1>9. QED
  BY <1>1, <1>2, <1>4, <1>5, <1>6, <1>7, <1>8, SeqEqual

\* With the tail on the list: only an add can take it off.
FifoInv ==
  added = 0 => /\ popped \o Tasked(Items) = pushed
               /\ size = Len(Items)
               /\ ~Detached

LEMMA InitFifo == Init => FifoInv
<1> SUFFICES ASSUME Init PROVE FifoInv
  OBVIOUS
<1>1. Items = <<>> /\ ~Detached
  BY InitList DEF List!ListInit
<1>2. Tasked(<<>>) = <<>>
  BY DEF Tasked
<1>3. <<>> \o <<>> = <<>> /\ Len(<<>>) = 0
  OBVIOUS
<1>4. QED
  BY <1>1, <1>2, <1>3 DEF Init, FifoInv

LEMMA NextFifo == LInv /\ FifoInv /\ [Next]_vars => FifoInv'
<1> SUFFICES ASSUME LInv, FifoInv, [Next]_vars PROVE FifoInv'
  OBVIOUS
<1>1. IInv /\ ChainInv /\ IInv' /\ TypeOK /\ TypeOK' /\ ChainInv'
  BY NextIInv, NextList DEF LInv, IInv
<1>2. Items \in Seq(Record)
  BY <1>1, HeadIsFirst
<1>3. ASSUME NEW task \in Tasks, Push(task) PROVE FifoInv'
  <2>1. /\ used < MaxNodes /\ used' = used + 1 /\ popped' = popped /\ added' = added
        /\ pushed' = Append(pushed, task)
        /\ LinkLast(used + 1, Blank(task, Common))
        /\ size' = size + 1
    BY <1>3 DEF Push, Allocate, LinkLast
  <2>2. /\ Items' = List!Appended(List!Entry(task, Common))
        /\ Detached' = Detached
    BY <1>1, <2>1, LinkLastAppends, QueueAssumption
  <2>3. PICK e \in Record : e = List!Entry(task, Common) /\ e.task = task
    <3>1. List!Entry(task, Common) \in Record
      BY QueueAssumption DEF Record, List!Entry
    <3>2. List!Entry(task, Common).task = task
      BY DEF List!Entry
    <3>3. QED
      BY <3>1, <3>2
  <2> SUFFICES ASSUME added = 0
               PROVE  /\ popped' \o Tasked(Items') = pushed'
                      /\ size' = Len(Items')
                      /\ ~Detached'
    BY <2>1 DEF FifoInv
  <2>4. popped \o Tasked(Items) = pushed /\ size = Len(Items) /\ ~Detached
    BY <2>1 DEF FifoInv
  <2>5. Items' = Append(Items, e)
    <3>1. CASE Items = <<>>
      <4>1. Append(<<>>, e) = <<e>>
        OBVIOUS
      <4>2. QED
        BY <2>2, <2>3, <3>1, <4>1 DEF List!Appended
    <3>2. CASE Items # <<>>
      BY <2>2, <2>3, <2>4, <3>2 DEF List!Appended
    <3>3. QED
      BY <3>1, <3>2
  <2>6. Tasked(Items) \in Seq(Tasks) /\ Tasked(Items') = Append(Tasked(Items), task)
    BY <1>2, <2>3, <2>5, TaskedOfAppend
  <2>7. popped \o Append(Tasked(Items), task) = Append(popped \o Tasked(Items), task)
    <3>1. popped \in Seq(Tasks)
      BY <1>1 DEF TypeOK
    <3>2. PICK x \in Seq(Tasks) : x = Tasked(Items)
      BY <2>6
    <3>3. <<task>> \in Seq(Tasks) /\ popped \o x \in Seq(Tasks)
      BY <3>1
    <3>4. Append(x, task) = x \o <<task>> /\ Append(popped \o x, task) = (popped \o x) \o <<task>>
      BY <3>3, AppendIsConcat
    <3>5. (popped \o x) \o <<task>> = popped \o (x \o <<task>>)
      BY <3>1, <3>3, ConcatAssociative
    <3>6. QED
      BY <3>2, <3>4, <3>5
  <2>8. Len(Items') = Len(Items) + 1
    BY <1>2, <2>5, AppendProperties
  <2>9. QED
    BY <2>1, <2>2, <2>4, <2>6, <2>7, <2>8
<1>4. ASSUME NEW task \in Tasks, NEW prio \in Priorities, Add(task, prio) PROVE FifoInv'
  <2>1. added' = added + 1 /\ added \in Nat
    BY <1>1, <1>4 DEF Add, TypeOK
  <2>2. QED
    BY <2>1 DEF FifoInv
<1>5. ASSUME PopTake PROVE FifoInv'
  <2>1. List!PopEntry
    BY <1>1, <1>5, PopTakeTakes
  <2>2. first # Null
    BY <1>1, <1>5 DEF IInv, PopInv, PopTake
  <2>3. added' = added /\ pushed' = pushed /\ size' = size - 1
    BY <1>5, <2>2 DEF PopTake
  <2>4. Items # <<>> /\ Items' = Tail(Items) /\ Detached' = FALSE
        /\ popped' = Append(popped, Head(Items).task)
    BY <2>1 DEF List!PopEntry
  <2> SUFFICES ASSUME added = 0
               PROVE  popped' \o Tasked(Items') = pushed /\ size' = Len(Items')
    BY <2>3, <2>4 DEF FifoInv
  <2>5. popped \o Tasked(Items) = pushed /\ size = Len(Items)
    BY DEF FifoInv
  <2>6. PICK x \in Seq(Tasks), h \in Tasks :
          /\ x = Tasked(Items') /\ h = Head(Items).task
          /\ Tasked(Items) = <<h>> \o x
    BY <1>2, <2>4, TaskedOfTail
  <2>7. Append(popped, h) \o x = popped \o (<<h>> \o x)
    <3>1. popped \in Seq(Tasks) /\ <<h>> \in Seq(Tasks)
      BY <1>1 DEF TypeOK
    <3>2. Append(popped, h) = popped \o <<h>>
      BY <3>1, AppendIsConcat
    <3>3. QED
      BY <3>1, <3>2, ConcatAssociative
  <2>8. Len(Items') = Len(Items) - 1
    BY <1>2, <2>4, HeadTailProperties
  <2>9. QED
    BY <2>3, <2>4, <2>5, <2>6, <2>7, <2>8
<1>6. CASE PopCheck \/ UNCHANGED vars
  <2>1. /\ node' = node /\ first' = first /\ last' = last
        /\ popped' = popped /\ pushed' = pushed /\ added' = added /\ size' = size
    BY <1>6 DEF PopCheck, vars, pointerVars, historyVars
  <2>2. Items' = Items /\ Detached' = Detached
    BY <2>1 DEF Items, Detached, Chain, Length, Met, NextOf
  <2>3. QED
    BY <2>1, <2>2 DEF FifoInv
<1>7. QED
  BY <1>3, <1>4, <1>5, <1>6 DEF Next

\* As long as no callback task is added, what was popped followed by what
\* waits is what was pushed, in order, and size counts what waits (queue.c).
THEOREM QueueIsFifo == Spec => []FifoWithoutCallbacks
<1>1. FifoInv => FifoWithoutCallbacks
  BY DEF FifoInv, FifoWithoutCallbacks
<1>2. QED
  BY <1>1, InitList, NextList, InitFifo, NextFifo, PTL DEF Spec
=============================================================================
