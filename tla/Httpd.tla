------------------------------- MODULE Httpd -------------------------------
(****************************************************************************)
(* The HTTP server of libcwmp/src/httpd.c: one thread, a table of           *)
(* MAX_CLIENT_NUMS connections, the set it selects on, and the sweep of     *)
(* connections that have said nothing for fifteen seconds.  A connection is *)
(* served once and closed.  Clients come, send all or part of a request or  *)
(* nothing, break the connection, and come again, without limit.            *)
(*                                                                          *)
(* The kernel's part is the listen queue, the descriptors it hands out and  *)
(* what select reports.  What is asked, and how it is answered, is          *)
(* abstracted to whether it is a granted connection request, which goes on  *)
(* to new_request and the event list (EventList.tla, AgentSession.tla).     *)
(****************************************************************************)
EXTENDS Naturals, Sequences, FiniteSets

CONSTANTS
  Clients,         \* peers, each with at most one connection at a time
  NoOne,           \* the NULL of sessionfd[i].sock
  MAX_CLIENT_NUMS, \* connections the table holds
  Fds,             \* descriptors the kernel may hand out
  LsnFd            \* the listening socket's

ASSUME HttpdAssumption ==
  /\ IsFiniteSet(Clients)
  /\ NoOne \notin Clients
  /\ MAX_CLIENT_NUMS \in Nat \ {0}
  /\ Fds \subseteq Nat \ {0}
  /\ LsnFd \in Nat \ ({0} \cup Fds)

Table == 1..MAX_CLIENT_NUMS
NoFd == 0

VARIABLES
  backlog,     \* the listen queue
  fd,          \* the descriptor of each client's accepted connection
  data,        \* what recv finds: nothing, part of a header, a request, the
               \* peer's end of file, or its reset
  sock,        \* sessionfd[i].sock
  old,         \* slots whose sessionfd[i].time is more than 15 seconds ago
  readset, rdset, nready, maxfd,
  i,           \* the scan's index
  pc,          \* where the thread stands
  new_request  \* cwmp->new_request

tableVars == <<fd, data, sock, old, readset>>
loopVars == <<rdset, nready, i>>
vars == <<backlog, tableVars, maxfd, loopVars, pc, new_request>>

Init ==
  /\ backlog = <<>>
  /\ fd = [c \in Clients |-> NoFd]
  /\ data = [c \in Clients |-> "none"]
  /\ sock = [s \in Table |-> NoOne]
  /\ old = {}
  /\ readset = {LsnFd}
  /\ rdset = {}
  /\ nready = 0
  /\ maxfd = LsnFd
  /\ i = 1
  /\ pc = "select"
  /\ new_request = FALSE

Held == {s \in Table : sock[s] # NoOne}
FdOf(s) == fd[sock[s]]
Queued == {backlog[k] : k \in DOMAIN backlog}
Connected == Queued \cup {sock[s] : s \in Held}

----------------------------------------------------------------------------
(* The peers and the passing of time                                        *)

serverVars == <<fd, sock, readset, maxfd, loopVars, pc, new_request>>

Connect(c) ==
  /\ c \notin Connected
  /\ backlog' = Append(backlog, c)
  /\ UNCHANGED <<data, old, serverVars>>

\* A header comes whole or in parts; instead of the rest, the end of the stream
\* or a reset may come.
Send(c) ==
  /\ c \in Connected
  /\ \/ data[c] = "none" /\ data' = [data EXCEPT ![c] = "part"]
     \/ /\ data[c] \in {"none", "part"}
        /\ \E d \in {"request", "eof", "reset"} : data' = [data EXCEPT ![c] = d]
  /\ UNCHANGED <<backlog, old, serverVars>>

\* Fifteen seconds after a connection was put into the table.
Age(s) ==
  /\ s \in Held
  /\ old' = old \cup {s}
  /\ UNCHANGED <<backlog, data, serverVars>>

----------------------------------------------------------------------------
(* select                                                                   *)

Readable(f) ==
  IF f = LsnFd THEN backlog # <<>> ELSE \E c \in Clients : fd[c] = f /\ data[c] # "none"

Ready == {f \in readset : f <= maxfd /\ Readable(f)}

\* A slip the properties notice: goes by the set it asked for, not the answer.
SelectAsked ==
  /\ pc = "select"
  /\ Ready # {}
  /\ rdset' = readset
  /\ nready' = Cardinality(Ready)
  /\ pc' = IF LsnFd \in Ready THEN "accept" ELSE "scan"
  /\ UNCHANGED <<backlog, tableVars, maxfd, i, new_request>>

Select ==
  /\ pc = "select"
  /\ Ready # {}
  /\ rdset' = Ready
  /\ nready' = Cardinality(Ready)
  /\ pc' = IF LsnFd \in Ready THEN "accept" ELSE "scan"
  /\ UNCHANGED <<backlog, tableVars, maxfd, i, new_request>>

\* Ten seconds without anything to read.
SelectTimeout ==
  /\ pc = "select"
  /\ Ready = {}
  /\ pc' = "sweep"
  /\ UNCHANGED <<backlog, tableVars, maxfd, loopVars, new_request>>

\* FD_ZERO at the top of the loop.
Loop ==
  /\ pc' = "select"
  /\ rdset' = {}
  /\ nready' = 0
  /\ i' = 1

\* A slip the properties notice: leaves the descriptor in the select set.
FreeKeepingBit(S) ==
  /\ sock' = [s \in Table |-> IF s \in S THEN NoOne ELSE sock[s]]
  /\ fd' = [c \in Clients |-> IF \E s \in S : sock[s] = c THEN NoFd ELSE fd[c]]
  /\ data' = [c \in Clients |-> IF \E s \in S : sock[s] = c THEN "none" ELSE data[c]]
  /\ old' = old \ S
  /\ UNCHANGED readset

\* The connections of the slots in S are closed and their slots freed; what the
\* peer had sent and nobody read is gone.
Free(S) ==
  /\ sock' = [s \in Table |-> IF s \in S THEN NoOne ELSE sock[s]]
  /\ fd' = [c \in Clients |-> IF \E s \in S : sock[s] = c THEN NoFd ELSE fd[c]]
  /\ data' = [c \in Clients |-> IF \E s \in S : sock[s] = c THEN "none" ELSE data[c]]
  /\ old' = old \ S
  /\ readset' = readset \ {FdOf(s) : s \in S}

\* A slip the properties notice: does not find the slots that are old.
NoneTimedOut == {}

TimedOut == Held \cap old

Sweep ==
  /\ pc = "sweep"
  /\ Free(TimedOut)
  /\ Loop
  /\ UNCHANGED <<backlog, maxfd, new_request>>

----------------------------------------------------------------------------
(* accept: one connection per turn of the loop                               *)

\* A slip the properties notice: does not raise maxfd.
SameMaxFd(f) == maxfd

RaisedMaxFd(f) == IF f > maxfd THEN f ELSE maxfd

\* --nready
Left == nready - 1

Accept ==
  /\ pc = "accept"
  /\ \E s \in Table \ Held, f \in Fds \ {fd[c] : c \in Clients} :
       /\ \A t \in 1..(s - 1) : t \in Held
       /\ sock' = [sock EXCEPT ![s] = Head(backlog)]
       /\ fd' = [fd EXCEPT ![Head(backlog)] = f]
       /\ readset' = readset \cup {f}
       /\ maxfd' = RaisedMaxFd(f)
  /\ backlog' = Tail(backlog)
  /\ IF Left <= 0 THEN Loop
     ELSE nready' = Left /\ pc' = "scan" /\ UNCHANGED <<rdset, i>>
  /\ UNCHANGED <<data, old, new_request>>

\* The table is full: the connection is closed, and what else was ready waits
\* for the next turn.
Refuse ==
  /\ pc = "accept"
  /\ Held = Table
  /\ backlog' = Tail(backlog)
  /\ data' = [data EXCEPT ![Head(backlog)] = "none"]
  /\ Loop
  /\ UNCHANGED <<fd, sock, old, readset, maxfd, new_request>>

\* The result of accept is not looked at: when it fails newsock is a pointer
\* that was never assigned, and the process has no defined behaviour.
AcceptFails ==
  /\ pc = "accept"
  /\ pc' = "wild"
  /\ UNCHANGED <<backlog, tableVars, maxfd, loopVars, new_request>>

----------------------------------------------------------------------------
(* The scan serves what select reported, slot by slot                        *)

Reported(s) == s \in Held /\ FdOf(s) \in rdset

\* A slip the properties notice: steps over a slot.
AfterNext == i + 2

After == i + 1

ScanHit ==
  /\ pc = "scan"
  /\ nready > 0
  /\ i' \in i..MAX_CLIENT_NUMS
  /\ Reported(i')
  /\ \A s \in i..(i' - 1) : ~Reported(s)
  /\ nready' = nready - 1
  /\ pc' = "read"
  /\ UNCHANGED <<backlog, tableVars, maxfd, rdset, new_request>>

ScanEnd ==
  /\ pc = "scan"
  /\ nready > 0 => \A s \in i..MAX_CLIENT_NUMS : ~Reported(s)
  /\ Loop
  /\ UNCHANGED <<backlog, tableVars, maxfd, new_request>>

\* http_read_request waits, without a time-out, for a whole header and body or
\* the end of the stream; the answer is written.
Read ==
  /\ pc = "read"
  /\ data[sock[i]] \in {"request", "eof"}
  /\ \/ pc' = "raise" /\ new_request' = TRUE
     \/ pc' = "close" /\ UNCHANGED new_request
  /\ UNCHANGED <<backlog, tableVars, maxfd, loopVars>>

\* The first line has no second word: uri stays NULL, and what is appended to it
\* ends the process.
ReadNoUri ==
  /\ pc = "read"
  /\ data[sock[i]] \in {"request", "eof"}
  /\ pc' = "killed"
  /\ UNCHANGED <<backlog, tableVars, maxfd, loopVars, new_request>>

\* recv reports a reset once; the 400 then written to the broken connection
\* raises SIGPIPE, which nothing catches.
ReadReset ==
  /\ pc = "read"
  /\ data[sock[i]] = "reset"
  /\ pc' = "killed"
  /\ UNCHANGED <<backlog, tableVars, maxfd, loopVars, new_request>>

\* cwmp_event_set_value, after new_request has been set.
RaiseEvent ==
  /\ pc = "raise"
  /\ pc' = "close"
  /\ UNCHANGED <<backlog, tableVars, maxfd, loopVars, new_request>>

Close ==
  /\ pc = "close"
  /\ Free({i})
  /\ i' = After
  /\ pc' = "scan"
  /\ UNCHANGED <<backlog, maxfd, rdset, nready, new_request>>

----------------------------------------------------------------------------
Server ==
  \/ Select \/ SelectTimeout \/ Sweep
  \/ Accept \/ Refuse \/ AcceptFails
  \/ ScanHit \/ ScanEnd \/ Read \/ ReadNoUri \/ ReadReset \/ RaiseEvent \/ Close

Next ==
  \/ \E c \in Clients : Connect(c) \/ Send(c)
  \/ \E s \in Table : Age(s)
  \/ Server

Spec == Init /\ [][Next]_vars

\* The thread runs and time passes; nothing is asked of the peers.
FairSpec == Spec /\ WF_vars(Server) /\ \A s \in Table : WF_vars(Age(s))

----------------------------------------------------------------------------
(* Properties                                                               *)

\* Types of the variables.
TypeOK ==
  /\ backlog \in Seq(Clients)
  /\ fd \in [Clients -> Fds \cup {NoFd}]
  /\ data \in [Clients -> {"none", "part", "request", "eof", "reset"}]
  /\ sock \in [Table -> Clients \cup {NoOne}]
  /\ old \in SUBSET Table
  /\ readset \in SUBSET (Fds \cup {LsnFd})
  /\ rdset \in SUBSET (Fds \cup {LsnFd})
  /\ nready \in 0..(MAX_CLIENT_NUMS + 1)
  /\ maxfd \in Nat
  /\ i \in 1..(MAX_CLIENT_NUMS + 1)
  /\ pc \in {"select", "sweep", "accept", "scan", "read", "raise", "close", "wild", "killed"}
  /\ new_request \in BOOLEAN

\* The select set, the table and the kernel agree: the thread selects on the
\* listening socket and on exactly the connections in its table, no two slots
\* share a descriptor, and no accepted connection is left out of the table.
TableIsSelected ==
  /\ readset = {LsnFd} \cup {FdOf(s) : s \in Held}
  /\ \A s, t \in Held : FdOf(s) = FdOf(t) => s = t
  /\ \A c \in Clients : fd[c] # NoFd => \E s \in Held : sock[s] = c
  /\ \A f \in readset : f <= maxfd

\* nready says exactly how many reported connections the scan has not come to:
\* it neither ends early nor goes round with nothing to serve.
ReadyCounted ==
  pc = "scan" => nready = Cardinality({s \in i..MAX_CLIENT_NUMS : Reported(s)})

\* The table, the select set and the count of what select reported agree, while
\* connections come, are closed by the sweep and leave their descriptors to others.
TableInStep == TableIsSelected /\ ReadyCounted

\* The thread, which reads without a time-out, begins to read only where
\* something has come, although descriptors are closed and used again between
\* one select and the next.
NoBlindRead == pc = "read" => data[sock[i]] # "none"

\* What has come when the thread selects is read in the end, or its connection
\* is refused, and is never swept away unread, on two conditions: no peer leaves
\* a request unfinished for ever, for the one thread waits for it, and the table
\* is not found full again and again, for a turn that refuses serves none.
Finishing == \A c \in Clients : data[c] = "part" ~> data[c] # "part"
Crowded == pc = "accept" /\ Held = Table
Dead == pc \in {"wild", "killed"}
Taken(c) == (pc = "read" /\ sock[i] = c) \/ (Crowded /\ Head(backlog) = c) \/ Dead
SentIsRead ==
  Finishing /\ <>[]~Crowded
    => \A c \in Clients : (data[c] # "none" /\ pc = "select") ~> Taken(c)

\* When nothing more comes, every silent connection is closed in the end.  (As
\* long as something comes every ten seconds none is: the sweep waits for a
\* select that times out.)
QuietEmpties == <>[](Ready = {}) => <>[](Held = {} \/ Dead)

=============================================================================
