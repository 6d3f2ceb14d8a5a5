----------------------------- MODULE HttpdProofs -----------------------------
(****************************************************************************)
(* The table of connections, the select set and the count of ready          *)
(* connections agree, for a table of any size, any finite set of clients    *)
(* and any set of descriptors.                                              *)
(****************************************************************************)
EXTENDS Httpd, FiniteSetTheorems, SequenceTheorems, TLAPS

\* A client waits in the listen queue once, or is in the table, not both.
QueueInv ==
  /\ \A k, l \in DOMAIN backlog : backlog[k] = backlog[l] => k = l
  /\ \A k \in DOMAIN backlog : \A s \in Held : backlog[k] # sock[s]

\* What the thread relies on at each place: a connection to accept, a reported
\* slot to serve, the scan begun at the first slot.
PlaceInv ==
  /\ pc = "accept" => backlog # <<>> /\ rdset \subseteq readset
  /\ pc \in {"read", "raise", "close"} => i \in Held
  /\ pc = "read" => Reported(i)
  /\ pc \in {"select", "sweep", "accept"} => i = 1

\* Everything reported that the scan has not passed has something to read.
SentInv ==
  pc \in {"accept", "scan", "read", "raise", "close"} =>
    \A s \in Held : s >= i /\ FdOf(s) \in rdset => data[sock[s]] # "none"

\* The reported connections from slot n on.
From(n) == {s \in n..MAX_CLIENT_NUMS : Reported(s)}

\* nready over the whole turn of the loop.
CountInv ==
  /\ pc = "accept" => nready = Cardinality(From(1)) + 1
  /\ pc = "scan" => nready = Cardinality(From(i))
  /\ pc \in {"read", "raise", "close"} => nready = Cardinality(From(i + 1))

IInv == TypeOK /\ TableIsSelected /\ QueueInv /\ PlaceInv /\ SentInv /\ CountInv

LEMMA InitIInv == Init => IInv
<1> SUFFICES ASSUME Init PROVE IInv
  OBVIOUS
<1> USE HttpdAssumption DEF Init, Table, NoFd
<1>1. Held = {}
  BY DEF Held
<1>2. TypeOK
  <2>1. backlog \in Seq(Clients)
    OBVIOUS
  <2>2. /\ fd \in [Clients -> Fds \cup {NoFd}]
        /\ data \in [Clients -> {"none", "part", "request", "eof", "reset"}]
        /\ sock \in [Table -> Clients \cup {NoOne}]
    OBVIOUS
  <2>3. /\ old \in SUBSET Table
        /\ readset \in SUBSET (Fds \cup {LsnFd})
        /\ rdset \in SUBSET (Fds \cup {LsnFd})
    OBVIOUS
  <2>4. /\ nready \in 0..(MAX_CLIENT_NUMS + 1)
        /\ maxfd \in Nat
        /\ i \in 1..(MAX_CLIENT_NUMS + 1)
    OBVIOUS
  <2>5. QED
    BY <2>1, <2>2, <2>3, <2>4 DEF TypeOK
<1>3. TableIsSelected
  BY <1>1 DEF TableIsSelected
<1>4. QueueInv /\ PlaceInv /\ SentInv /\ CountInv
  BY <1>1 DEF QueueInv, PlaceInv, SentInv, CountInv
<1>5. QED
  BY <1>2, <1>3, <1>4 DEF IInv

----------------------------------------------------------------------------
(* Facts about states                                                       *)

LEMMA FromFinite ==
  ASSUME NEW n \in Nat
  PROVE  IsFiniteSet(From(n)) /\ Cardinality(From(n)) \in Nat
<1>1. IsFiniteSet(n..MAX_CLIENT_NUMS)
  BY HttpdAssumption, FS_Interval
<1>2. From(n) \subseteq n..MAX_CLIENT_NUMS
  BY DEF From
<1>3. QED
  BY <1>1, <1>2, FS_Subset, FS_CardinalityType

LEMMA FromBound == Cardinality(From(1)) <= MAX_CLIENT_NUMS
<1>1. IsFiniteSet(1..MAX_CLIENT_NUMS) /\ Cardinality(1..MAX_CLIENT_NUMS) = MAX_CLIENT_NUMS
  BY HttpdAssumption, FS_Interval
<1>2. From(1) \subseteq 1..MAX_CLIENT_NUMS
  BY DEF From
<1>3. QED
  BY <1>1, <1>2, FS_Subset

\* The set of descriptors that select reports corresponds to the slots they
\* are in, and the listening socket.
LEMMA ReadyCount ==
  ASSUME TypeOK, TableIsSelected
  PROVE  LET R == {s \in 1..MAX_CLIENT_NUMS : s \in Held /\ FdOf(s) \in Ready}
         IN  /\ Cardinality(Ready) = Cardinality(R) + (IF LsnFd \in Ready THEN 1 ELSE 0)
             /\ IsFiniteSet(R) /\ Cardinality(R) \in Nat
<1> DEFINE R == {s \in 1..MAX_CLIENT_NUMS : s \in Held /\ FdOf(s) \in Ready}
           g == [s \in R |-> FdOf(s)]
<1> SUFFICES /\ Cardinality(Ready) = Cardinality(R) + (IF LsnFd \in Ready THEN 1 ELSE 0)
             /\ IsFiniteSet(R) /\ Cardinality(R) \in Nat
  OBVIOUS
<1>1. IsFiniteSet(R) /\ Cardinality(R) \in Nat
  <2>1. IsFiniteSet(1..MAX_CLIENT_NUMS)
    BY HttpdAssumption, FS_Interval
  <2>2. R \subseteq 1..MAX_CLIENT_NUMS
    OBVIOUS
  <2>3. QED
    BY <2>1, <2>2, FS_Subset, FS_CardinalityType
<1>2. \A s \in Held : FdOf(s) # LsnFd
  BY HttpdAssumption DEF TypeOK, Held, FdOf, NoFd
<1>3. g \in Bijection(R, Ready \ {LsnFd})
  <2>1. g \in [R -> Ready \ {LsnFd}]
    BY <1>2
  <2>2. \A s, t \in R : g[s] = g[t] => s = t
    BY DEF TableIsSelected
  <2>3. \A f \in Ready \ {LsnFd} : \E s \in R : g[s] = f
    <3> TAKE f \in Ready \ {LsnFd}
    <3>1. f \in {FdOf(s) : s \in Held}
      BY DEF Ready, TableIsSelected
    <3>2. PICK s \in Held : FdOf(s) = f
      BY <3>1
    <3>3. s \in R
      BY <3>2 DEF Held, Table
    <3>4. QED
      BY <3>2, <3>3
  <2>4. QED
    BY <2>1, <2>2, <2>3 DEF Bijection, Injection, Surjection, IsInjective
<1>4. IsFiniteSet(Ready \ {LsnFd}) /\ Cardinality(Ready \ {LsnFd}) = Cardinality(R)
  BY <1>1, <1>3, FS_Bijection DEF ExistsBijection
<1>5. CASE LsnFd \in Ready
  <2>1. Ready = (Ready \ {LsnFd}) \cup {LsnFd}
    BY <1>5
  <2>2. Cardinality(Ready) = Cardinality(Ready \ {LsnFd}) + 1
    BY <2>1, <1>4, FS_AddElement
  <2>3. QED
    BY <2>2, <1>1, <1>4, <1>5
<1>6. CASE LsnFd \notin Ready
  <2>1. Ready = Ready \ {LsnFd}
    BY <1>6
  <2>2. Cardinality(Ready) = Cardinality(Ready \ {LsnFd})
    BY <2>1
  <2>3. QED
    BY <2>2, <1>1, <1>4, <1>6
<1>7. QED
  BY <1>1, <1>5, <1>6

----------------------------------------------------------------------------
(* Steps                                                                    *)

\* The peers and time touch neither the table nor the thread.
LEMMA PeersIInv ==
  ASSUME IInv,
         \/ \E c \in Clients : Connect(c) \/ Send(c)
         \/ \E s \in Table : Age(s)
  PROVE  IInv'
<1> USE DEF IInv
<1>1. UNCHANGED serverVars
  BY DEF Connect, Send, Age
<1>2. Held' = Held /\ \A s : FdOf(s)' = FdOf(s) /\ Reported(s)' = Reported(s)
  BY <1>1 DEF serverVars, loopVars, Held, FdOf, Reported
<1>3. TableIsSelected'
  BY <1>1, <1>2 DEF TableIsSelected, serverVars
<1>4. CountInv'
  BY <1>1, <1>2, Zenon DEF CountInv, From, serverVars, loopVars
<1>5. CASE \E c \in Clients : Connect(c)
  <2>1. PICK c \in Clients : Connect(c)
    BY <1>5
  <2>2. /\ c \notin Connected
        /\ backlog \in Seq(Clients)
        /\ backlog' = Append(backlog, c)
        /\ UNCHANGED <<data, old>>
    BY <2>1 DEF Connect, TypeOK
  <2>3. /\ backlog' \in Seq(Clients) /\ backlog' # <<>>
        /\ DOMAIN backlog' = 1..(Len(backlog) + 1)
        /\ backlog'[Len(backlog) + 1] = c
        /\ \A k \in DOMAIN backlog : backlog'[k] = backlog[k]
        /\ DOMAIN backlog = 1..Len(backlog)
        /\ Len(backlog) \in Nat
    BY <2>2
  <2>4. \A k \in DOMAIN backlog : backlog[k] # c
    BY <2>2 DEF Connected, Queued
  <2>5. \A s \in Held : sock[s] # c
    BY <2>2 DEF Connected
  <2>6. \A k \in DOMAIN backlog' : k \in DOMAIN backlog \/ k = Len(backlog) + 1
    BY <2>3
  <2>7. QueueInv'
    <3>1. \A k, l \in DOMAIN backlog' : backlog'[k] = backlog'[l] => k = l
      BY <2>3, <2>4, <2>6 DEF QueueInv
    <3>2. \A k \in DOMAIN backlog' : \A s \in Held : backlog'[k] # sock[s]
      BY <2>3, <2>5, <2>6 DEF QueueInv
    <3>3. QED
      BY <3>1, <3>2, <1>1, <1>2 DEF QueueInv, serverVars
  <2>8. TypeOK'
    BY <1>1, <2>2, <2>3 DEF TypeOK, serverVars, loopVars
  <2>9. PlaceInv' /\ SentInv'
    BY <1>1, <1>2, <2>2, <2>3 DEF PlaceInv, SentInv, serverVars, loopVars
  <2>10. QED
    BY <1>3, <1>4, <2>7, <2>8, <2>9
<1>6. CASE \E c \in Clients : Send(c)
  <2>1. PICK c \in Clients : Send(c)
    BY <1>6
  <2>2. /\ UNCHANGED <<backlog, old>>
        /\ \E d \in {"part", "request", "eof", "reset"} : data' = [data EXCEPT ![c] = d]
    BY <2>1 DEF Send
  <2>3. /\ data' \in [Clients -> {"none", "part", "request", "eof", "reset"}]
        /\ \A e \in Clients : data[e] # "none" => data'[e] # "none"
    BY <2>2 DEF TypeOK
  <2>4. TypeOK'
    BY <1>1, <2>2, <2>3 DEF TypeOK, serverVars, loopVars
  <2>5. QueueInv' /\ PlaceInv'
    BY <1>1, <1>2, <2>2 DEF QueueInv, PlaceInv, serverVars, loopVars
  <2>6. SentInv'
    <3>1. \A s \in Held : sock[s] \in Clients
      BY DEF Held, TypeOK
    <3>2. QED
      BY <1>1, <1>2, <2>3, <3>1 DEF SentInv, serverVars, loopVars
  <2>7. QED
    BY <1>3, <1>4, <2>4, <2>5, <2>6
<1>7. CASE \E s \in Table : Age(s)
  <2>1. UNCHANGED <<backlog, data>> /\ old' \in SUBSET Table
    BY <1>7 DEF Age, TypeOK
  <2>2. TypeOK'
    BY <1>1, <2>1 DEF TypeOK, serverVars, loopVars
  <2>3. QueueInv' /\ PlaceInv' /\ SentInv'
    BY <1>1, <1>2, <2>1 DEF QueueInv, PlaceInv, SentInv, serverVars, loopVars
  <2>4. QED
    BY <1>3, <1>4, <2>2, <2>3
<1>8. QED
  BY <1>5, <1>6, <1>7

\* Closing the connections of some slots leaves the others as they are.
LEMMA FreeKeepsTable ==
  ASSUME IInv, NEW S \in SUBSET Held, Free(S), UNCHANGED <<backlog, maxfd>>
  PROVE  /\ /\ fd' \in [Clients -> Fds \cup {NoFd}]
            /\ data' \in [Clients -> {"none", "part", "request", "eof", "reset"}]
            /\ sock' \in [Table -> Clients \cup {NoOne}]
            /\ old' \in SUBSET Table
            /\ readset' \in SUBSET (Fds \cup {LsnFd})
         /\ Held' = Held \ S
         /\ \A s \in Held' : /\ sock'[s] = sock[s]
                             /\ FdOf(s)' = FdOf(s)
                             /\ data'[sock[s]] = data[sock[s]]
         /\ TableIsSelected'
         /\ QueueInv'
<1> USE DEF IInv
<1>1. /\ fd' \in [Clients -> Fds \cup {NoFd}]
      /\ data' \in [Clients -> {"none", "part", "request", "eof", "reset"}]
      /\ sock' \in [Table -> Clients \cup {NoOne}]
  BY DEF Free, TypeOK
<1>2. old' \in SUBSET Table /\ readset' \in SUBSET (Fds \cup {LsnFd})
  BY DEF Free, TypeOK
<1>3. Held' = Held \ S
  BY DEF Held, Free
<1>4. \A s, t \in Held : sock[s] = sock[t] => s = t
  BY DEF TableIsSelected, FdOf
<1>5. \A s \in Held : sock[s] \in Clients /\ s \in Table
  BY DEF Held, TypeOK
<1>6. \A s \in Held' : /\ sock'[s] = sock[s]
                       /\ ~ \E t \in S : sock[t] = sock[s]
  BY <1>3, <1>4, <1>5 DEF Free
<1>7. \A s \in Held' : /\ FdOf(s)' = FdOf(s)
                       /\ data'[sock[s]] = data[sock[s]]
  BY <1>3, <1>5, <1>6 DEF Free, FdOf
<1>8. TableIsSelected'
  <2>1. readset' = {LsnFd} \cup {FdOf(s)' : s \in Held'}
    <3>1. LsnFd \notin {FdOf(s) : s \in S}
      BY <1>5, HttpdAssumption DEF FdOf, TypeOK, NoFd
    <3>2. \A s \in Held' : FdOf(s) \notin {FdOf(t) : t \in S}
      BY <1>3 DEF TableIsSelected
    <3>3. readset' = {LsnFd} \cup {FdOf(s) : s \in Held'}
      BY <3>1, <3>2, <1>3 DEF Free, TableIsSelected
    <3>4. {FdOf(s)' : s \in Held'} = {FdOf(s) : s \in Held'}
      BY <1>7
    <3>5. QED
      BY <3>3, <3>4
  <2>2. \A s, t \in Held' : FdOf(s)' = FdOf(t)' => s = t
    BY <1>3, <1>7 DEF TableIsSelected
  <2>3. \A c \in Clients : fd'[c] # NoFd => \E s \in Held' : sock'[s] = c
    <3> TAKE c \in Clients
    <3> HAVE fd'[c] # NoFd
    <3>1. fd[c] # NoFd /\ ~ \E s \in S : sock[s] = c
      BY DEF Free
    <3>2. PICK s \in Held : sock[s] = c
      BY <3>1 DEF TableIsSelected
    <3>3. s \in Held'
      BY <3>1, <3>2, <1>3
    <3>4. QED
      BY <3>2, <3>3, <1>6
  <2>4. \A f \in readset' : f <= maxfd'
    BY DEF Free, TableIsSelected
  <2>5. QED
    BY <2>1, <2>2, <2>3, <2>4 DEF TableIsSelected
<1>9. QueueInv'
  BY <1>3, <1>6 DEF QueueInv
<1>10. QED
  BY <1>1, <1>2, <1>3, <1>6, <1>7, <1>8, <1>9

LEMMA SelectIInv ==
  ASSUME IInv, Select \/ SelectTimeout
  PROVE  IInv'
<1> USE DEF IInv
<1>1. /\ UNCHANGED <<backlog, tableVars, maxfd, i, new_request>>
      /\ i = 1
  BY DEF Select, SelectTimeout, PlaceInv, loopVars
<1>2. Held' = Held /\ \A s : FdOf(s)' = FdOf(s)
  BY <1>1 DEF tableVars, Held, FdOf
<1>3. TableIsSelected' /\ QueueInv'
  BY <1>1, <1>2 DEF TableIsSelected, QueueInv, tableVars
<1>4. CASE SelectTimeout
  <2>1. TypeOK'
    BY <1>1, <1>4 DEF SelectTimeout, TypeOK, tableVars, loopVars
  <2>2. PlaceInv' /\ SentInv' /\ CountInv'
    BY <1>1, <1>4 DEF SelectTimeout, PlaceInv, SentInv, CountInv
  <2>3. QED
    BY <1>3, <2>1, <2>2
<1>5. CASE Select
  <2> DEFINE R == {s \in 1..MAX_CLIENT_NUMS : s \in Held /\ FdOf(s) \in Ready}
  <2>1. /\ Cardinality(Ready) = Cardinality(R) + (IF LsnFd \in Ready THEN 1 ELSE 0)
        /\ IsFiniteSet(R) /\ Cardinality(R) \in Nat
    BY ReadyCount
  <2>2. From(1)' = R
    BY <1>2, <1>5 DEF From, Reported, Select
  <2>3. Cardinality(R) <= MAX_CLIENT_NUMS
    <3>1. IsFiniteSet(1..MAX_CLIENT_NUMS) /\ Cardinality(1..MAX_CLIENT_NUMS) = MAX_CLIENT_NUMS
      BY HttpdAssumption, FS_Interval
    <3>2. R \subseteq 1..MAX_CLIENT_NUMS
      OBVIOUS
    <3>3. QED
      BY <3>1, <3>2, FS_Subset
  <2> HIDE DEF R
  <2>4. TypeOK'
    <3>1. nready' \in 0..(MAX_CLIENT_NUMS + 1)
      BY <1>5, <2>1, <2>3, HttpdAssumption DEF Select
    <3>2. rdset' \in SUBSET (Fds \cup {LsnFd})
      BY <1>5 DEF Select, Ready, TypeOK
    <3>3. QED
      BY <1>1, <1>5, <3>1, <3>2 DEF Select, TypeOK, tableVars
  <2>5. PlaceInv'
    BY <1>1, <1>5 DEF Select, PlaceInv, Ready, Readable, tableVars
  <2>6. SentInv'
    <3>1. \A s \in Held : FdOf(s) \in Ready => data[sock[s]] # "none"
      <4> TAKE s \in Held
      <4> HAVE FdOf(s) \in Ready
      <4>1. FdOf(s) # LsnFd /\ FdOf(s) # NoFd
        BY HttpdAssumption DEF TypeOK, Held, FdOf, NoFd, Ready, TableIsSelected
      <4>2. PICK c \in Clients : fd[c] = FdOf(s) /\ data[c] # "none"
        BY <4>1 DEF Ready, Readable
      <4>3. PICK t \in Held : sock[t] = c
        BY <4>1, <4>2 DEF TableIsSelected
      <4>4. t = s
        BY <4>2, <4>3 DEF TableIsSelected, FdOf
      <4>5. QED
        BY <4>2, <4>3, <4>4
    <3>2. QED
      BY <1>1, <1>2, <1>5, <3>1 DEF Select, SentInv, tableVars
  <2>7. CountInv'
    <3>1. i' = 1 /\ pc' \in {"accept", "scan"} /\ nready' = Cardinality(Ready)
      BY <1>1, <1>5 DEF Select
    <3>2. pc' = "accept" <=> LsnFd \in Ready
      BY <1>5 DEF Select
    <3>3. From(i)' = From(1)'
      BY <3>1
    <3>4. QED
      BY <2>1, <2>2, <3>1, <3>2, <3>3 DEF CountInv
  <2>8. QED
    BY <1>3, <2>4, <2>5, <2>6, <2>7
<1>6. QED
  BY <1>4, <1>5

\* Going round the loop: what a turn leaves in the table is all that matters.
LEMMA LoopIInv ==
  ASSUME Loop, TableIsSelected', QueueInv', PlaceInv, TypeOK,
         /\ backlog' \in Seq(Clients)
         /\ fd' \in [Clients -> Fds \cup {NoFd}]
         /\ data' \in [Clients -> {"none", "part", "request", "eof", "reset"}]
         /\ sock' \in [Table -> Clients \cup {NoOne}]
         /\ old' \in SUBSET Table
         /\ readset' \in SUBSET (Fds \cup {LsnFd})
         /\ maxfd' \in Nat,
         UNCHANGED new_request
  PROVE  IInv'
<1>1. TypeOK'
  BY HttpdAssumption DEF Loop, TypeOK
<1>2. PlaceInv' /\ SentInv' /\ CountInv'
  BY DEF Loop, PlaceInv, SentInv, CountInv
<1>3. QED
  BY <1>1, <1>2 DEF IInv

LEMMA SweepIInv ==
  ASSUME IInv, Sweep
  PROVE  IInv'
<1>1. TimedOut \in SUBSET Held
  BY DEF TimedOut
<1>2. Free(TimedOut) /\ UNCHANGED <<backlog, maxfd>>
  BY DEF Sweep
<1>3. /\ /\ fd' \in [Clients -> Fds \cup {NoFd}]
         /\ data' \in [Clients -> {"none", "part", "request", "eof", "reset"}]
         /\ sock' \in [Table -> Clients \cup {NoOne}]
         /\ old' \in SUBSET Table
         /\ readset' \in SUBSET (Fds \cup {LsnFd})
      /\ TableIsSelected'
      /\ QueueInv'
  BY <1>1, <1>2, FreeKeepsTable
<1>4. QED
  BY <1>2, <1>3, LoopIInv DEF Sweep, IInv, TypeOK

\* Facts about the rest of the listen queue.
LEMMA QueueTail ==
  ASSUME TypeOK, QueueInv, backlog # <<>>, backlog' = Tail(backlog)
  PROVE  /\ Head(backlog) \in Clients
         /\ backlog' \in Seq(Clients)
         /\ \A k, l \in DOMAIN backlog' : backlog'[k] = backlog'[l] => k = l
         /\ \A k \in DOMAIN backlog' : /\ backlog'[k] # Head(backlog)
                                       /\ \A s \in Held : backlog'[k] # sock[s]
         /\ \A s \in Held : Head(backlog) # sock[s]
<1>1. /\ backlog \in Seq(Clients) /\ Len(backlog) \in Nat \ {0}
      /\ DOMAIN backlog = 1..Len(backlog) /\ 1 \in DOMAIN backlog
      /\ Head(backlog) = backlog[1]
  BY DEF TypeOK
<1>2. /\ backlog' \in Seq(Clients) /\ Len(backlog') = Len(backlog) - 1
      /\ DOMAIN backlog' = 1..(Len(backlog) - 1)
      /\ \A k \in 1..(Len(backlog) - 1) : backlog'[k] = backlog[k + 1]
  BY <1>1
<1>3. \A k \in DOMAIN backlog' : k + 1 \in DOMAIN backlog /\ k + 1 # 1 /\ backlog'[k] = backlog[k + 1]
  BY <1>1, <1>2
<1>4. \A k, l \in DOMAIN backlog' : backlog'[k] = backlog'[l] => k = l
  <2> TAKE k, l \in DOMAIN backlog'
  <2> HAVE backlog'[k] = backlog'[l]
  <2>1. k + 1 = l + 1
    BY <1>3 DEF QueueInv
  <2>2. QED
    BY <2>1, <1>1, <1>2
<1>5. QED
  BY <1>1, <1>2, <1>3, <1>4 DEF QueueInv

LEMMA AcceptIInv ==
  ASSUME IInv, Accept
  PROVE  IInv'
<1> USE DEF IInv
<1>1. PICK n \in Table \ Held, f \in Fds \ {fd[c] : c \in Clients} :
        /\ sock' = [sock EXCEPT ![n] = Head(backlog)]
        /\ fd' = [fd EXCEPT ![Head(backlog)] = f]
        /\ readset' = readset \cup {f}
        /\ maxfd' = RaisedMaxFd(f)
  BY DEF Accept
<1>2. /\ pc = "accept" /\ i = 1 /\ backlog # <<>> /\ rdset \subseteq readset
      /\ backlog' = Tail(backlog)
      /\ UNCHANGED <<data, old, new_request>>
  BY DEF Accept, PlaceInv
<1>3. /\ Head(backlog) \in Clients
      /\ backlog' \in Seq(Clients)
      /\ \A k, l \in DOMAIN backlog' : backlog'[k] = backlog'[l] => k = l
      /\ \A k \in DOMAIN backlog' : /\ backlog'[k] # Head(backlog)
                                    /\ \A s \in Held : backlog'[k] # sock[s]
      /\ \A s \in Held : Head(backlog) # sock[s]
  BY <1>2, QueueTail
<1>4. /\ fd' \in [Clients -> Fds \cup {NoFd}]
      /\ sock' \in [Table -> Clients \cup {NoOne}]
      /\ readset' \in SUBSET (Fds \cup {LsnFd})
      /\ maxfd' \in Nat /\ maxfd' >= maxfd /\ maxfd' >= f
  <2>1. fd' \in [Clients -> Fds \cup {NoFd}]
    BY <1>1, <1>3 DEF TypeOK
  <2>2. sock' \in [Table -> Clients \cup {NoOne}]
    BY <1>1, <1>3 DEF TypeOK
  <2>3. readset' \in SUBSET (Fds \cup {LsnFd})
    BY <1>1 DEF TypeOK
  <2>4. f \in Nat /\ maxfd \in Nat
    BY HttpdAssumption DEF TypeOK
  <2>5. maxfd' \in Nat /\ maxfd' >= maxfd /\ maxfd' >= f
    BY <1>1, <2>4 DEF RaisedMaxFd
  <2>6. QED
    BY <2>1, <2>2, <2>3, <2>5
<1>5. Held' = Held \cup {n} /\ n \in Table
  BY <1>1, <1>3, HttpdAssumption DEF Held, TypeOK
<1>6. \A s \in Held : sock[s] \in Clients /\ s \in Table /\ s # n
  BY <1>1 DEF Held, TypeOK
<1>7. \A s \in Held : sock'[s] = sock[s] /\ FdOf(s)' = FdOf(s) /\ FdOf(s) # f
  BY <1>1, <1>3, <1>6 DEF FdOf, TypeOK
<1>8. sock'[n] = Head(backlog) /\ FdOf(n)' = f
  BY <1>1, <1>3, <1>5 DEF FdOf, TypeOK
<1>9. f \notin readset
  <2>1. f # LsnFd
    BY HttpdAssumption
  <2>2. QED
    BY <1>7, <2>1 DEF TableIsSelected
<1>10. TableIsSelected'
  <2>1. readset' = {LsnFd} \cup {FdOf(s)' : s \in Held'}
    <3>1. {FdOf(s)' : s \in Held'} = {FdOf(s) : s \in Held} \cup {f}
      BY <1>5, <1>7, <1>8
    <3>2. QED
      BY <1>1, <3>1 DEF TableIsSelected
  <2>2. \A s, t \in Held' : FdOf(s)' = FdOf(t)' => s = t
    BY <1>5, <1>7, <1>8 DEF TableIsSelected
  <2>3. \A c \in Clients : fd'[c] # NoFd => \E s \in Held' : sock'[s] = c
    <3> TAKE c \in Clients
    <3> HAVE fd'[c] # NoFd
    <3>1. CASE c = Head(backlog)
      BY <3>1, <1>5, <1>8
    <3>2. CASE c # Head(backlog)
      <4>1. fd[c] # NoFd
        BY <3>2, <1>1, <1>3 DEF TypeOK
      <4>2. PICK s \in Held : sock[s] = c
        BY <4>1 DEF TableIsSelected
      <4>3. QED
        BY <4>2, <1>5, <1>7
    <3>3. QED
      BY <3>1, <3>2
  <2>4. \A g \in readset' : g <= maxfd'
    <3>1. \A g \in readset : g \in Nat
      BY HttpdAssumption DEF TypeOK
    <3>2. QED
      BY <1>1, <1>4, <3>1, HttpdAssumption DEF TableIsSelected, TypeOK
  <2>5. QED
    BY <2>1, <2>2, <2>3, <2>4 DEF TableIsSelected
<1>11. QueueInv'
  BY <1>3, <1>5, <1>7, <1>8 DEF QueueInv
<1>12. CASE Left <= 0 /\ Loop
  <2>1. /\ data' \in [Clients -> {"none", "part", "request", "eof", "reset"}]
        /\ old' \in SUBSET Table
        /\ UNCHANGED new_request
    BY <1>2 DEF TypeOK
  <2>2. QED
    BY <1>3, <1>4, <1>10, <1>11, <1>12, <2>1, LoopIInv
<1>13. CASE ~(Left <= 0) /\ nready' = Left /\ pc' = "scan" /\ UNCHANGED <<rdset, i>>
  <2>1. nready' = nready - 1 /\ nready' \in 0..(MAX_CLIENT_NUMS + 1)
    BY <1>13, HttpdAssumption DEF Left, TypeOK
  <2>2. TypeOK'
    BY <1>2, <1>3, <1>4, <1>13, <2>1 DEF TypeOK
  <2>3. PlaceInv'
    BY <1>13 DEF PlaceInv
  <2>4. \A s \in Table : Reported(s)' <=> Reported(s)
    BY <1>2, <1>5, <1>7, <1>8, <1>9, <1>13, <1>6 DEF Reported
  <2>5. SentInv'
    BY <1>2, <1>5, <1>7, <1>8, <1>9, <1>13 DEF SentInv
  <2>6. CountInv'
    <3>1. From(1)' = From(1)
      BY <2>4 DEF From, Table
    <3>2. From(i)' = From(1)'
      BY <1>2, <1>13
    <3>3. nready = Cardinality(From(1)) + 1 /\ Cardinality(From(1)) \in Nat
      BY <1>2, FromFinite DEF CountInv
    <3>4. nready' = Cardinality(From(i)')
      BY <2>1, <3>1, <3>2, <3>3
    <3>5. QED
      BY <1>13, <3>4 DEF CountInv
  <2>7. QED
    BY <1>10, <1>11, <2>2, <2>3, <2>5, <2>6
<1>14. QED
  BY <1>12, <1>13 DEF Accept

LEMMA RefuseIInv ==
  ASSUME IInv, Refuse \/ AcceptFails
  PROVE  IInv'
<1> USE DEF IInv
<1>1. CASE Refuse
  <2>1. /\ backlog # <<>> /\ backlog' = Tail(backlog) /\ Loop
        /\ data' = [data EXCEPT ![Head(backlog)] = "none"]
        /\ UNCHANGED <<fd, sock, old, readset, maxfd, new_request>>
    BY <1>1 DEF Refuse, PlaceInv
  <2>2. /\ backlog' \in Seq(Clients)
        /\ \A k, l \in DOMAIN backlog' : backlog'[k] = backlog'[l] => k = l
        /\ \A k \in DOMAIN backlog' : \A s \in Held : backlog'[k] # sock[s]
    BY <2>1, QueueTail
  <2>3. Held' = Held /\ \A s : FdOf(s)' = FdOf(s)
    BY <2>1 DEF Held, FdOf
  <2>4. TableIsSelected'
    BY <2>1, <2>3 DEF TableIsSelected
  <2>5. QueueInv'
    BY <2>1, <2>2, <2>3 DEF QueueInv
  <2>6. data' \in [Clients -> {"none", "part", "request", "eof", "reset"}]
    BY <2>1 DEF TypeOK
  <2>7. QED
    BY <2>1, <2>2, <2>4, <2>5, <2>6, LoopIInv DEF TypeOK
<1>2. CASE AcceptFails
  <2>1. /\ UNCHANGED <<backlog, tableVars, maxfd, loopVars, new_request>>
        /\ pc' = "wild"
    BY <1>2 DEF AcceptFails
  <2>2. Held' = Held /\ \A s : FdOf(s)' = FdOf(s)
    BY <2>1 DEF Held, FdOf, tableVars
  <2>3. TypeOK'
    BY <2>1 DEF TypeOK, tableVars, loopVars
  <2>4. TableIsSelected' /\ QueueInv'
    BY <2>1, <2>2 DEF TableIsSelected, QueueInv, tableVars
  <2>5. PlaceInv' /\ SentInv' /\ CountInv'
    BY <2>1 DEF PlaceInv, SentInv, CountInv
  <2>6. QED
    BY <2>3, <2>4, <2>5
<1>3. QED
  BY <1>1, <1>2

\* Passing over slots that are not reported does not change what is to come.
LEMMA HitCount ==
  ASSUME NEW n \in Nat, NEW m \in n..MAX_CLIENT_NUMS, Reported(m),
         \A s \in n..(m - 1) : ~Reported(s)
  PROVE  Cardinality(From(n)) = Cardinality(From(m + 1)) + 1
<1>1. From(n) = From(m + 1) \cup {m}
  BY HttpdAssumption DEF From
<1>2. m \notin From(m + 1)
  BY HttpdAssumption DEF From
<1>3. IsFiniteSet(From(m + 1))
  BY FromFinite
<1>4. QED
  BY <1>1, <1>2, <1>3, FS_AddElement

LEMMA ScanIInv ==
  ASSUME IInv, ScanHit \/ ScanEnd
  PROVE  IInv'
<1> USE DEF IInv
<1>1. UNCHANGED <<backlog, tableVars, maxfd, new_request>> /\ pc = "scan"
  BY DEF ScanHit, ScanEnd
<1>2. Held' = Held /\ \A s : FdOf(s)' = FdOf(s)
  BY <1>1 DEF Held, FdOf, tableVars
<1>3. TableIsSelected' /\ QueueInv'
  BY <1>1, <1>2 DEF TableIsSelected, QueueInv, tableVars
<1>4. CASE ScanEnd
  BY <1>1, <1>3, <1>4, LoopIInv DEF ScanEnd, TypeOK, tableVars
<1>5. CASE ScanHit
  <2>1. /\ nready > 0 /\ nready' = nready - 1 /\ pc' = "read" /\ rdset' = rdset
        /\ i' \in i..MAX_CLIENT_NUMS /\ Reported(i')
        /\ \A s \in i..(i' - 1) : ~Reported(s)
    BY <1>5 DEF ScanHit
  <2>2. i \in Nat /\ i' \in Nat /\ i' >= i /\ i' \in Table
    BY <2>1, HttpdAssumption DEF TypeOK, Table
  <2>3. nready' \in 0..(MAX_CLIENT_NUMS + 1) /\ i' \in 1..(MAX_CLIENT_NUMS + 1)
    BY <2>1, <2>2, HttpdAssumption DEF TypeOK, Table
  <2>4. TypeOK'
    BY <1>1, <2>1, <2>3 DEF TypeOK, tableVars
  <2>5. PlaceInv'
    BY <1>2, <2>1 DEF PlaceInv, Reported
  <2>6. SentInv'
    <3>1. \A s \in Held : s \in Nat
      BY HttpdAssumption DEF Held, Table
    <3>2. QED
      BY <1>1, <1>2, <2>1, <2>2, <3>1 DEF SentInv, tableVars
  <2>7. CountInv'
    <3>1. \A s : Reported(s)' = Reported(s)
      BY <1>2, <2>1 DEF Reported
    <3>2. From(i + 1)' = From(i' + 1)
      BY <3>1, Zenon DEF From
    <3>3. Cardinality(From(i)) = Cardinality(From(i' + 1)) + 1
      BY <2>1, <2>2, HitCount
    <3>4. Cardinality(From(i' + 1)) \in Nat
      BY <2>2, FromFinite
    <3>5. nready = Cardinality(From(i))
      BY <1>1 DEF CountInv
    <3>6. nready' = Cardinality(From(i + 1)')
      BY <2>1, <3>2, <3>3, <3>4, <3>5
    <3>7. QED
      BY <2>1, <3>6 DEF CountInv
  <2>8. QED
    BY <1>3, <2>4, <2>5, <2>6, <2>7
<1>6. QED
  BY <1>4, <1>5

LEMMA ServeIInv ==
  ASSUME IInv, Read \/ ReadNoUri \/ ReadReset \/ RaiseEvent
  PROVE  IInv'
<1> USE DEF IInv
<1>1. /\ UNCHANGED <<backlog, tableVars, maxfd, loopVars>>
      /\ new_request' \in BOOLEAN
      /\ pc \in {"read", "raise"} /\ pc' \in {"raise", "close", "killed"}
  BY DEF Read, ReadNoUri, ReadReset, RaiseEvent, TypeOK
<1>2. Held' = Held /\ \A s : FdOf(s)' = FdOf(s) /\ Reported(s)' = Reported(s)
  BY <1>1 DEF Held, FdOf, Reported, tableVars, loopVars
<1>3. TypeOK'
  BY <1>1 DEF TypeOK, tableVars, loopVars
<1>4. TableIsSelected' /\ QueueInv'
  BY <1>1, <1>2 DEF TableIsSelected, QueueInv, tableVars
<1>5. PlaceInv' /\ SentInv'
  BY <1>1, <1>2 DEF PlaceInv, SentInv, tableVars, loopVars
<1>6. CountInv'
  <2>1. From(i + 1)' = From(i + 1)
    BY <1>1, <1>2, Zenon DEF From, loopVars
  <2>2. QED
    BY <1>1, <2>1 DEF CountInv, loopVars
<1>7. QED
  BY <1>3, <1>4, <1>5, <1>6

LEMMA CloseIInv ==
  ASSUME IInv, Close
  PROVE  IInv'
<1> USE DEF IInv
<1>1. /\ pc = "close" /\ pc' = "scan" /\ i' = i + 1 /\ Free({i})
      /\ UNCHANGED <<backlog, maxfd, rdset, nready, new_request>>
      /\ {i} \in SUBSET Held /\ i \in Table
  BY DEF Close, After, PlaceInv, Held
<1>2. /\ /\ fd' \in [Clients -> Fds \cup {NoFd}]
         /\ data' \in [Clients -> {"none", "part", "request", "eof", "reset"}]
         /\ sock' \in [Table -> Clients \cup {NoOne}]
         /\ old' \in SUBSET Table
         /\ readset' \in SUBSET (Fds \cup {LsnFd})
      /\ Held' = Held \ {i}
      /\ \A s \in Held' : /\ sock'[s] = sock[s]
                          /\ FdOf(s)' = FdOf(s)
                          /\ data'[sock[s]] = data[sock[s]]
      /\ TableIsSelected'
      /\ QueueInv'
  BY <1>1, FreeKeepsTable
<1>3. i' \in 1..(MAX_CLIENT_NUMS + 1) /\ i \in Nat
  BY <1>1, HttpdAssumption DEF Table
<1>4. TypeOK'
  BY <1>1, <1>2, <1>3 DEF TypeOK
<1>5. PlaceInv'
  BY <1>1 DEF PlaceInv
<1>6. SentInv'
  <2>1. \A s \in Held : s \in Nat
    BY HttpdAssumption DEF Held, Table
  <2>2. QED
    BY <1>1, <1>2, <1>3, <2>1 DEF SentInv
<1>7. CountInv'
  <2>1. \A s \in (i + 1)..MAX_CLIENT_NUMS : Reported(s)' <=> Reported(s)
    BY <1>1, <1>2, <1>3, HttpdAssumption DEF Reported
  <2>2. From(i)' = From(i + 1)
    BY <1>1, <2>1 DEF From
  <2>3. QED
    BY <1>1, <2>2 DEF CountInv
<1>8. QED
  BY <1>2, <1>4, <1>5, <1>6, <1>7

LEMMA NextIInv == IInv /\ [Next]_vars => IInv'
<1> SUFFICES ASSUME IInv, [Next]_vars PROVE IInv'
  OBVIOUS
<1>1. CASE UNCHANGED vars
  <2>1. Held' = Held /\ \A s : FdOf(s)' = FdOf(s) /\ Reported(s)' = Reported(s)
    BY <1>1 DEF vars, Held, FdOf, Reported, tableVars, loopVars
  <2>2. TypeOK' /\ TableIsSelected' /\ QueueInv' /\ PlaceInv' /\ SentInv'
    BY <1>1, <2>1 DEF IInv, vars, TypeOK, TableIsSelected, QueueInv, PlaceInv, SentInv,
                      tableVars, loopVars
  <2>3. CountInv'
    BY <1>1, <2>1, Zenon DEF IInv, vars, CountInv, From, loopVars
  <2>4. QED
    BY <2>2, <2>3 DEF IInv
<1>2. CASE (\E c \in Clients : Connect(c) \/ Send(c)) \/ (\E s \in Table : Age(s))
  BY <1>2, PeersIInv
<1>3. CASE Server
  BY <1>3, SelectIInv, SweepIInv, AcceptIInv, RefuseIInv, ScanIInv, ServeIInv, CloseIInv
     DEF Server
<1>4. QED
  BY <1>1, <1>2, <1>3 DEF Next

----------------------------------------------------------------------------
\* The inductive invariant holds in every reachable state.
THEOREM HttpdInvariant == Spec => []IInv
<1>1. Init => IInv
  BY InitIInv
<1>2. IInv /\ [Next]_vars => IInv'
  BY NextIInv
<1>3. QED
  BY <1>1, <1>2, PTL DEF Spec

\* The server's variables keep their types; above all nready stays within the
\* table and the listening socket, and the scan within the table.
THEOREM HttpdTypes == Spec => []TypeOK
<1>1. IInv => TypeOK
  BY DEF IInv
<1>2. QED
  BY <1>1, HttpdInvariant, PTL

\* The select set (FD_SET and FD_CLR on readset) and the table of connections
\* agree, for any size of table and any descriptors the kernel hands out.
THEOREM HttpdTableIsSelected == Spec => []TableIsSelected
<1>1. IInv => TableIsSelected
  BY DEF IInv
<1>2. QED
  BY <1>1, HttpdInvariant, PTL

\* The scan neither skips a connection that select reported nor goes on when
\* none is left: nready counts exactly those to come.
THEOREM HttpdReadyCounted == Spec => []ReadyCounted
<1>1. IInv => ReadyCounted
  BY DEF IInv, CountInv, ReadyCounted, From
<1>2. QED
  BY <1>1, HttpdInvariant, PTL

\* The table of connections, the select set and nready agree all the time, for
\* a table of any size.
THEOREM HttpdTableInStep == Spec => []TableInStep
<1>1. TableIsSelected /\ ReadyCounted => TableInStep
  BY DEF TableInStep
<1>2. QED
  BY <1>1, HttpdTableIsSelected, HttpdReadyCounted, PTL

\* http_read_request, which has no time-out, is only called on a connection
\* that has something to read, though descriptors are reused.
THEOREM HttpdNoBlindRead == Spec => []NoBlindRead
<1>1. IInv => NoBlindRead
  <2> SUFFICES ASSUME IInv, pc = "read" PROVE data[sock[i]] # "none"
    BY DEF NoBlindRead
  <2>1. i \in Held /\ FdOf(i) \in rdset
    BY DEF IInv, PlaceInv, Reported
  <2>2. i >= i
    BY HttpdAssumption DEF IInv, TypeOK
  <2>3. QED
    BY <2>1, <2>2 DEF IInv, SentInv
<1>2. QED
  BY <1>1, HttpdInvariant, PTL

=============================================================================
