------------------------- MODULE AgentSessionProofs -------------------------
(****************************************************************************)
(* The session's safety, for every retry limit, with or without digest      *)
(* authentication, and however often the ACS answers and the listeners      *)
(* wake the agent.                                                          *)
(****************************************************************************)
EXTENDS AgentSession, SequenceTheorems, TLAPS

One(b) == IF b THEN 1 ELSE 0

\* The readers dangle from the analysis of an answer to the next read; on that
\* way the answer has accepted the credentials, so no handshake follows.
DanglingInv ==
  /\ readers = "dangling" => status \in {"SEND", "POST", "RECV", "EXIT"}
  /\ readers = "dangling" /\ status = "SEND" => active
  /\ status = "ANSLYSE" => active

NewDataInv == newdata => status = "SEND"

\* A transfer carried out is in the list, in the flag, or reported: once.
TransferInv == sent + One(transfer) + One("transfer" \in pending) <= done

\* Attempts and retries count the same thing.
ConnectInv ==
  /\ connects <= MaxSessionRetry + 2
  /\ status = "START" => connects = retry_count /\ retry_count <= MaxSessionRetry + 1
  /\ status = "RETRY" => connects = retry_count + 1 /\ retry_count <= MaxSessionRetry + 1

Inv == DanglingInv /\ NewDataInv /\ TransferInv /\ ConnectInv

IInv == TypeOK /\ Inv

LEMMA InitIInv == Init => IInv
<1> SUFFICES ASSUME Init PROVE IInv
  OBVIOUS
<1>1. wakes \in [{"httpd", "netlink"} -> Nat]
  BY DEF Init
<1>2. queue \in Seq(TaskBodies) /\ writers \in Seq(Docs) /\ inflight \in Seq(Replies)
  BY EmptySeq DEF Init
<1>3. pending \in SUBSET EventKinds /\ status \in Statuses /\ readers \in Bodies
  BY DEF Init, EventKinds, Statuses, Bodies
<1>4. TypeOK
  BY <1>1, <1>2, <1>3 DEF Init, TypeOK
<1>5. Inv
  BY AgentAssumption
     DEF Init, Inv, DanglingInv, NewDataInv, TransferInv, One, ConnectInv
<1>6. QED
  BY <1>4, <1>5 DEF IInv

\* Reading an answer: what is left, and what becomes of auth.active.
LEMMA NextAnswer ==
  ASSUME TypeOK, inflight # <<>>
  PROVE  /\ Head(inflight) \in Replies
         /\ Head(inflight).body \in Bodies
         /\ Tail(inflight) \in Seq(Replies)
         /\ ActiveAfter(Head(inflight)) \in BOOLEAN
         /\ Head(inflight).code = 200 => ActiveAfter(Head(inflight)) = TRUE
<1>1. Head(inflight) \in Replies /\ Tail(inflight) \in Seq(Replies)
  BY HeadTailProperties DEF TypeOK
<1>2. Head(inflight).body \in Bodies
  BY <1>1 DEF Replies, Bodies
<1>3. active \in BOOLEAN
  BY DEF TypeOK
<1>4. ActiveAfter(Head(inflight)) \in BOOLEAN
  BY <1>3 DEF ActiveAfter
<1>5. Head(inflight).code = 200 => ActiveAfter(Head(inflight)) = TRUE
  BY DEF ActiveAfter
<1>6. QED
  BY <1>1, <1>2, <1>4, <1>5

\* The listeners and the ACS touch neither the session nor its counts.
LEMMA OthersIInv ==
  ASSUME IInv, HttpdFlag \/ HttpdRaise \/ NetlinkRaise \/ NetlinkFlag \/ AcsReply
  PROVE  IInv'
<1> USE DEF IInv
<1>0. /\ UNCHANGED <<queue, status, sessionVars, ran, historyVars>>
      /\ UNCHANGED transfer
      /\ ("transfer" \in pending') = ("transfer" \in pending)
  BY DEF HttpdFlag, HttpdRaise, NetlinkRaise, NetlinkFlag, AcsReply, Answer, eventVars
<1>1. Inv'
  BY <1>0 DEF Inv, DanglingInv, NewDataInv, TransferInv, One, ConnectInv, sessionVars, historyVars
<1>2. CASE HttpdFlag
  <2>1. wakes' \in [{"httpd", "netlink"} -> Nat]
    BY <1>2 DEF TypeOK, HttpdFlag
  <2>2. QED
    BY <1>1, <1>2, <2>1 DEF TypeOK, HttpdFlag, eventVars, sessionVars, acsVars, historyVars
<1>3. CASE HttpdRaise
  BY <1>1, <1>3 DEF TypeOK, HttpdRaise, EventKinds, sessionVars, acsVars, historyVars
<1>4. CASE NetlinkRaise
  <2>1. wakes' \in [{"httpd", "netlink"} -> Nat]
    BY <1>4 DEF TypeOK, NetlinkRaise
  <2>2. QED
    BY <1>1, <1>4, <2>1 DEF TypeOK, NetlinkRaise, EventKinds, sessionVars, acsVars, historyVars
<1>5. CASE NetlinkFlag
  BY <1>1, <1>5 DEF TypeOK, NetlinkFlag, eventVars, sessionVars, acsVars, historyVars
<1>6. CASE AcsReply
  <2>1. inflight' \in Seq(Replies)
    BY <1>6, AppendProperties DEF TypeOK, AcsReply, Answer
  <2>2. asked' \in Nat /\ replies' \in Nat
    BY <1>6 DEF TypeOK, AcsReply, Answer
  <2>3. QED
    BY <1>1, <1>6, <2>1, <2>2
       DEF TypeOK, AcsReply, Answer, listenVars, eventVars, sessionVars, historyVars
<1>7. QED
  BY <1>2, <1>3, <1>4, <1>5, <1>6

\* The outer loop starts a session with its counts at zero.
LEMMA OuterIInv ==
  ASSUME IInv, Wake \/ Take \/ TasksDone
  PROVE  IInv'
<1> USE DEF IInv, listenVars, eventVars, sessionVars, acsVars, historyVars
<1>1. CASE Wake
  <2>1. TypeOK'
    BY <1>1 DEF TypeOK, Wake, Statuses
  <2>2. Inv'
    BY <1>1 DEF Inv, DanglingInv, NewDataInv, TransferInv, ConnectInv, Wake, One
  <2>3. QED
    BY <2>1, <2>2
<1>2. CASE Take
  <2>1. TypeOK'
    <3>1. writers' \in Seq(Docs)
      BY <1>2, EmptySeq DEF Take, FreshSession
    <3>2. status' \in Statuses /\ readers' \in Bodies
      BY <1>2 DEF Take, FreshSession, Statuses, Bodies
    <3>3. QED
      BY <1>2, <3>1, <3>2 DEF TypeOK, Take, FreshSession
  <2>2. Inv'
    BY <1>2, AgentAssumption
       DEF TypeOK, Inv, DanglingInv, NewDataInv, TransferInv, ConnectInv, Take, FreshSession, One
  <2>3. QED
    BY <2>1, <2>2
<1>3. CASE TasksDone
  <2>1. TypeOK'
    BY <1>3 DEF TypeOK, TasksDone, Statuses
  <2>2. Inv'
    BY <1>3 DEF Inv, DanglingInv, NewDataInv, TransferInv, ConnectInv, TasksDone, One
  <2>3. QED
    BY <2>1, <2>2
<1>4. QED
  BY <1>1, <1>2, <1>3

\* Connecting and retrying.
LEMMA ConnectIInv ==
  ASSUME IInv, Start \/ Retry
  PROVE  IInv'
<1> USE DEF IInv, listenVars, eventVars, sessionVars, acsVars, historyVars
<1>1. CASE Start
  <2>1. TypeOK'
    <3>1. status' \in Statuses /\ connects' \in Nat
      BY <1>1 DEF TypeOK, Start, Statuses
    <3>2. QED
      BY <1>1, <3>1 DEF TypeOK, Start
  <2>2. DanglingInv' /\ NewDataInv' /\ TransferInv'
    BY <1>1 DEF Inv, DanglingInv, NewDataInv, TransferInv, Start, One
  <2>3. ConnectInv'
    BY <1>1, AgentAssumption DEF TypeOK, Inv, ConnectInv, Start
  <2>4. QED
    BY <2>1, <2>2, <2>3 DEF Inv
<1>2. CASE Retry
  <2>1. TypeOK'
    BY <1>2 DEF TypeOK, Retry, TriesLeft, Statuses
  <2>2. DanglingInv' /\ NewDataInv' /\ TransferInv'
    BY <1>2 DEF Inv, DanglingInv, NewDataInv, TransferInv, Retry, TriesLeft, One
  <2>3. ConnectInv'
    BY <1>2, AgentAssumption DEF TypeOK, Inv, ConnectInv, Retry, TriesLeft
  <2>4. QED
    BY <2>1, <2>2, <2>3 DEF Inv
<1>3. QED
  BY <1>1, <1>2

\* What clearing the list does to the transfer it may hold: it moves from the
\* list to the flag and is counted once on either side.
LEMMA ClearKeepsTransfer ==
  ASSUME TypeOK, TransferInv, pending' = {}, transfer' = (transfer \/ "transfer" \in pending),
         UNCHANGED <<done, sent>>
  PROVE  TransferInv'
<1>1. One("transfer" \in pending') = 0
  BY DEF One
<1>2. One(transfer') <= One(transfer) + One("transfer" \in pending)
  <2>1. CASE transfer \/ "transfer" \in pending
    <3>1. One(transfer) + One("transfer" \in pending) >= 1
      BY <2>1 DEF One
    <3>2. One(transfer') <= 1
      BY DEF One
    <3>3. QED
      BY <3>1, <3>2 DEF One
  <2>2. CASE ~(transfer \/ "transfer" \in pending)
    <3>1. ~transfer'
      BY <2>2, Zenon
    <3>2. QED
      BY <2>2, <3>1 DEF One
  <2>3. QED
    BY <2>1, <2>2
<1>3. One(transfer') \in Nat /\ One(transfer) \in Nat /\ One("transfer" \in pending) \in Nat
  BY DEF One
<1>4. QED
  BY <1>1, <1>2, <1>3 DEF TypeOK, TransferInv

LEMMA InformIInv ==
  ASSUME IInv, Inform \/ ClearAndWrite
  PROVE  IInv'
<1> USE DEF IInv, listenVars, eventVars, sessionVars, acsVars, historyVars
<1>1. CASE Inform
  <2>1. TypeOK'
    BY <1>1 DEF TypeOK, Inform, Statuses
  <2>2. Inv'
    BY <1>1 DEF Inv, DanglingInv, NewDataInv, TransferInv, ConnectInv, Inform, One
  <2>3. QED
    BY <2>1, <2>2
<1>2. CASE ClearAndWrite
  <2>1. TypeOK'
    <3>1. writers' \in Seq(Docs)
      BY <1>2, AppendProperties DEF TypeOK, ClearAndWrite, Docs
    <3>2. transfer' \in BOOLEAN /\ pending' \in SUBSET EventKinds
      BY <1>2 DEF TypeOK, ClearAndWrite
    <3>3. active' \in BOOLEAN /\ status' \in Statuses
      BY <1>2 DEF TypeOK, ClearAndWrite, Statuses
    <3>4. QED
      BY <1>2, <3>1, <3>2, <3>3 DEF TypeOK, ClearAndWrite
  <2>2. TransferInv'
    BY <1>2, ClearKeepsTransfer DEF Inv, ClearAndWrite
  <2>3. DanglingInv' /\ NewDataInv' /\ ConnectInv'
    BY <1>2 DEF Inv, DanglingInv, NewDataInv, ConnectInv, ClearAndWrite
  <2>4. QED
    BY <2>1, <2>2, <2>3 DEF Inv
<1>3. QED
  BY <1>1, <1>2

\* A handshake starts only when auth.active is FALSE, so never while dangling.
LEMMA SendIInv ==
  ASSUME IInv, Send \/ HandshakeTimeout \/ Post
  PROVE  IInv'
<1> USE DEF IInv, listenVars, eventVars, sessionVars, acsVars, historyVars
<1>1. CASE Send
  <2>1. TypeOK'
    <3>1. asked' \in Nat /\ status' \in Statuses
      BY <1>1 DEF TypeOK, Send, Statuses
    <3>2. QED
      BY <1>1, <3>1 DEF TypeOK, Send
  <2>2. Inv'
    BY <1>1 DEF Inv, DanglingInv, NewDataInv, TransferInv, ConnectInv, Send, One
  <2>3. QED
    BY <2>1, <2>2
<1>2. CASE HandshakeTimeout
  <2>1. TypeOK'
    BY <1>2 DEF TypeOK, HandshakeTimeout, Statuses
  <2>2. Inv'
    BY <1>2 DEF Inv, DanglingInv, NewDataInv, TransferInv, ConnectInv, HandshakeTimeout, One
  <2>3. QED
    BY <2>1, <2>2
<1>3. CASE Post
  <2>1. TypeOK'
    <3>1. asked' \in Nat /\ status' \in Statuses
      BY <1>3 DEF TypeOK, Post, Statuses
    <3>2. QED
      BY <1>3, <3>1 DEF TypeOK, Post
  <2>2. Inv'
    BY <1>3 DEF Inv, DanglingInv, NewDataInv, TransferInv, ConnectInv, Post, One
  <2>3. QED
    BY <2>1, <2>2
<1>4. QED
  BY <1>1, <1>2, <1>3

LEMMA RecvIInv ==
  ASSUME IInv, HandshakeRecv \/ Recv
  PROVE  IInv'
<1> USE DEF IInv, listenVars, eventVars, sessionVars, acsVars, historyVars
<1>1. /\ Head(inflight).body \in Bodies
      /\ inflight' \in Seq(Replies)
      /\ active' \in BOOLEAN
      /\ Head(inflight).code = 200 => active' = TRUE
  BY NextAnswer DEF HandshakeRecv, Recv
<1>2. "dangling" \notin Bodies
  BY DEF Bodies, TaskBodies
<1>3. CASE HandshakeRecv
  <2>1. readers # "dangling"
    BY <1>3 DEF Inv, DanglingInv, HandshakeRecv
  <2>2. status' = "POST" /\ readers' \in Bodies
    BY <1>1, <1>3, <2>1 DEF TypeOK, HandshakeRecv
  <2>3. TypeOK'
    BY <1>1, <1>3, <2>2 DEF TypeOK, HandshakeRecv, Statuses
  <2>4. Inv'
    BY <1>2, <1>3, <2>2
       DEF Inv, DanglingInv, NewDataInv, TransferInv, ConnectInv, HandshakeRecv, One
  <2>5. QED
    BY <2>3, <2>4
<1>4. CASE Recv
  <2>1. status' \in {"ANSLYSE", "END"} /\ readers' \in Bodies
    BY <1>1, <1>4 DEF Recv
  <2>2. status' = "ANSLYSE" => active'
    BY <1>1, <1>4 DEF Recv
  <2>3. TypeOK'
    BY <1>1, <1>4, <2>1 DEF TypeOK, Recv, Statuses
  <2>4. DanglingInv'
    BY <1>2, <2>1, <2>2 DEF DanglingInv
  <2>5. NewDataInv' /\ TransferInv' /\ ConnectInv'
    BY <1>4, <2>1 DEF Inv, NewDataInv, TransferInv, ConnectInv, Recv, One
  <2>6. QED
    BY <2>3, <2>4, <2>5 DEF Inv
<1>5. QED
  BY <1>3, <1>4

LEMMA EndIInv ==
  ASSUME IInv, RecvTimeout \/ End \/ Exit
  PROVE  IInv'
<1> USE DEF IInv, listenVars, eventVars, sessionVars, acsVars, historyVars
<1>1. CASE RecvTimeout
  <2>1. TypeOK'
    BY <1>1 DEF TypeOK, RecvTimeout, Statuses, Bodies
  <2>2. Inv'
    BY <1>1 DEF Inv, DanglingInv, NewDataInv, TransferInv, ConnectInv, RecvTimeout, One
  <2>3. QED
    BY <2>1, <2>2
<1>2. CASE End
  <2>1. status' = "EXIT"
    BY <1>2 DEF End, Inv, NewDataInv
  <2>2. TypeOK'
    BY <1>2, <2>1 DEF TypeOK, End, Statuses
  <2>3. Inv'
    BY <1>2, <2>1 DEF Inv, DanglingInv, NewDataInv, TransferInv, ConnectInv, End, One
  <2>4. QED
    BY <2>2, <2>3
<1>3. CASE Exit
  <2>1. TypeOK'
    <3>1. writers' \in Seq(Docs) /\ inflight' \in Seq(Replies)
      BY <1>3, EmptySeq DEF Exit, FreshSession
    <3>2. status' \in Statuses /\ readers' \in Bodies
      BY <1>3 DEF Exit, FreshSession, Statuses, Bodies
    <3>3. QED
      BY <1>3, <3>1, <3>2 DEF TypeOK, Exit, FreshSession
  <2>2. Inv'
    BY <1>3 DEF Inv, DanglingInv, NewDataInv, TransferInv, ConnectInv, Exit, FreshSession, One
  <2>3. QED
    BY <2>1, <2>2
<1>4. QED
  BY <1>1, <1>2, <1>3

\* A task: a transfer is carried out and raised, or the list is cleared.
LEMMA RunTaskIInv ==
  ASSUME IInv, RunTask
  PROVE  IInv'
<1> USE DEF IInv, listenVars, eventVars, sessionVars, acsVars, historyVars
<1>1. queue' \in Seq(TaskBodies)
  BY HeadTailProperties DEF TypeOK, RunTask
<1>2. DanglingInv' /\ NewDataInv' /\ ConnectInv'
  BY DEF Inv, DanglingInv, NewDataInv, ConnectInv, RunTask
<1>3. CASE TaskTransfer
  <2>1. TypeOK'
    BY <1>1, <1>3 DEF TypeOK, RunTask, TaskTransfer, EventKinds
  <2>2. done' = done + 1 /\ sent' = sent /\ transfer' = transfer
    BY <1>3 DEF RunTask, TaskTransfer
  <2>3. One("transfer" \in pending') <= One("transfer" \in pending) + 1
    BY DEF One
  <2>4. One(transfer) \in Nat /\ One("transfer" \in pending) \in Nat /\ One("transfer" \in pending') \in Nat
    BY DEF One
  <2>5. TransferInv'
    BY <2>2, <2>3, <2>4 DEF TypeOK, Inv, TransferInv
  <2>6. QED
    BY <1>2, <2>1, <2>5 DEF Inv
<1>4. CASE TaskClear
  <2>1. TypeOK'
    <3>1. transfer' \in BOOLEAN /\ pending' \in SUBSET EventKinds
      BY <1>4 DEF TypeOK, TaskClear
    <3>2. QED
      BY <1>1, <1>4, <3>1 DEF TypeOK, RunTask, TaskClear
  <2>2. TransferInv'
    BY <1>4, ClearKeepsTransfer DEF Inv, RunTask, TaskClear
  <2>3. QED
    BY <1>2, <2>1, <2>2 DEF Inv
<1>5. QED
  BY <1>3, <1>4 DEF RunTask

\* The event check takes the transfer from the flag into a message.
LEMMA EventCheckKept ==
  ASSUME TypeOK, TransferInv, NEW kept \in Seq(Docs), EventCheck(kept), UNCHANGED <<pending, done>>
  PROVE  /\ transfer' = FALSE
         /\ writers' \in Seq(Docs)
         /\ sent' \in Nat
         /\ TransferInv'
<1>1. transfer' = FALSE
  BY DEF EventCheck
<1>2. "transfercomplete" \in Docs
  BY DEF Docs
<1>3. writers' \in Seq(Docs)
  BY <1>2, AppendProperties DEF EventCheck
<1>4. sent' \in Nat /\ sent' <= sent + One(transfer)
  BY DEF EventCheck, One, TypeOK
<1>5. One(transfer') = 0
  BY <1>1 DEF One
<1>6. One(transfer) \in Nat /\ One("transfer" \in pending) \in Nat
  BY DEF One
<1>7. TransferInv'
  BY <1>4, <1>5, <1>6 DEF TypeOK, TransferInv
<1>8. QED
  BY <1>1, <1>3, <1>4, <1>7

LEMMA AnalyseIInv ==
  ASSUME IInv, Analyse
  PROVE  IInv'
<1> USE DEF IInv, listenVars, eventVars, sessionVars, acsVars, historyVars
<1>1. /\ status = "ANSLYSE" /\ active = TRUE
      /\ UNCHANGED <<new_request, httpd, netlink, wakes, pending, retry_count, active,
                     asked, inflight, replies, ran, connects, informed, done>>
  BY DEF Analyse, Inv, DanglingInv, TypeOK
<1>2. "dangling" \notin Bodies
  BY DEF Bodies, TaskBodies
<1>3. SUFFICES /\ transfer' \in BOOLEAN /\ sent' \in Nat /\ writers' \in Seq(Docs)
               /\ queue' \in Seq(TaskBodies) /\ newdata' \in BOOLEAN
               /\ readers' \in Bodies \cup {"dangling"}
               /\ status' \in {"SEND", "END", "CRASH"}
               /\ readers' = "dangling" => status' = "SEND"
               /\ newdata' => status' = "SEND"
               /\ TransferInv'
  <2>1. TypeOK'
    BY <1>1, <1>3 DEF TypeOK, Statuses
  <2>2. Inv'
    BY <1>1, <1>3 DEF Inv, DanglingInv, NewDataInv, ConnectInv
  <2>3. QED
    BY <2>1, <2>2
<1>4. ~newdata
  BY <1>1 DEF Inv, NewDataInv
<1>5. CASE AnalyseEmpty
  <2>1. readers' = "empty" /\ queue' \in Seq(TaskBodies) /\ readers' \in Bodies
    BY <1>5 DEF AnalyseEmpty, TypeOK, Bodies
  <2>2. CASE EventCheck(writers) /\ newdata' = transfer /\ status' = IF transfer THEN "SEND" ELSE "END"
    <3>1. /\ transfer' = FALSE /\ writers' \in Seq(Docs) /\ sent' \in Nat /\ TransferInv'
      BY <1>1, <2>2, EventCheckKept DEF TypeOK, Inv
    <3>2. newdata' \in BOOLEAN /\ status' \in {"SEND", "END"} /\ (newdata' => status' = "SEND")
      BY <2>2 DEF TypeOK
    <3>3. QED
      BY <2>1, <3>1, <3>2
  <2>3. CASE status' = "CRASH" /\ UNCHANGED <<transfer, writers, sent, newdata>>
    <3>1. TransferInv'
      BY <1>1, <2>3 DEF Inv, TransferInv, One
    <3>2. QED
      BY <1>4, <2>1, <2>3, <3>1 DEF TypeOK
  <2>4. QED
    BY <1>5, <2>2, <2>3 DEF AnalyseEmpty
<1>6. CASE AnalyseGarbage
  <2>1. writers' \in Seq(Docs)
    BY <1>6, AppendProperties DEF AnalyseGarbage, TypeOK, Docs
  <2>2. TransferInv'
    BY <1>1, <1>6 DEF Inv, TransferInv, One, AnalyseGarbage
  <2>3. readers' = "garbage" /\ readers' \in Bodies
    BY <1>6 DEF AnalyseGarbage, Bodies
  <2>4. QED
    BY <1>4, <1>6, <2>1, <2>2, <2>3 DEF AnalyseGarbage, TypeOK
<1>7. CASE AnalyseMethod
  <2>1. readers' = "dangling" /\ newdata' = TRUE /\ status' = "SEND"
    BY <1>7 DEF AnalyseMethod
  <2>2. queue' \in Seq(TaskBodies)
    BY <1>7, AppendProperties DEF AnalyseMethod, TypeOK
  <2>3. /\ transfer' \in BOOLEAN /\ writers' \in Seq(Docs) /\ sent' \in Nat /\ TransferInv'
    <3>1. CASE readers = "null"
      <4>1. EventCheck(<<>>)
        BY <1>7, <3>1 DEF AnalyseMethod
      <4>2. <<>> \in Seq(Docs)
        BY EmptySeq
      <4>3. QED
        BY <1>1, <4>1, <4>2, EventCheckKept DEF Inv
    <3>2. CASE readers # "null"
      <4>1. writers' = <<"response">> /\ UNCHANGED <<transfer, sent>>
        BY <1>7, <3>2 DEF AnalyseMethod
      <4>2. writers' \in Seq(Docs)
        BY <4>1 DEF Docs
      <4>3. TransferInv'
        BY <1>1, <4>1 DEF Inv, TransferInv, One
      <4>4. QED
        BY <4>1, <4>2, <4>3 DEF TypeOK
    <3>3. QED
      BY <3>1, <3>2
  <2>4. QED
    BY <2>1, <2>2, <2>3
<1>8. QED
  BY <1>5, <1>6, <1>7 DEF Analyse

LEMMA NextIInv == IInv /\ [Next]_vars => IInv'
<1> SUFFICES ASSUME IInv, [Next]_vars PROVE IInv'
  OBVIOUS
<1>1. CASE Next
  BY <1>1, OthersIInv, OuterIInv, RunTaskIInv, ConnectIInv, InformIInv, SendIInv,
     RecvIInv, EndIInv, AnalyseIInv DEF Next, AgentStep
<1>2. CASE UNCHANGED vars
  <2>1. TypeOK'
    BY <1>2 DEF IInv, TypeOK, vars, listenVars, eventVars, sessionVars, acsVars, historyVars
  <2>2. Inv'
    BY <1>2 DEF IInv, Inv, DanglingInv, NewDataInv, TransferInv, ConnectInv, One,
                vars, listenVars, eventVars, sessionVars, acsVars, historyVars
  <2>3. QED
    BY <2>1, <2>2 DEF IInv
<1>3. QED
  BY <1>1, <1>2

\* The inductive invariant holds in every reachable state of the agent.
THEOREM AgentInvariant == Spec => []IInv
<1>1. Init => IInv
  BY InitIInv
<1>2. IInv /\ [Next]_vars => IInv'
  BY NextIInv
<1>3. QED
  BY <1>1, <1>2, PTL DEF Spec

\* The variables of cwmp_agent_start_session keep their types.
THEOREM AgentTypes == Spec => []TypeOK
<1>1. IInv => TypeOK
  BY DEF IInv
<1>2. QED
  BY <1>1, AgentInvariant, PTL

\* No handshake answer is ever appended to readers that pool_clear has given
\* back: an answer that was analysed accepted the credentials.
THEOREM AgentHandshakeSafe == Spec => []NoHandshakeOnDangling
<1>1. IInv => NoHandshakeOnDangling
  BY DEF IInv, Inv, DanglingInv, NoHandshakeOnDangling
<1>2. QED
  BY <1>1, AgentInvariant, PTL

\* CWMP_ST_END never finds new data, so a session that gets there ends.
THEOREM AgentEndExits == Spec => []EndHasNoNewData
<1>1. IInv => EndHasNoNewData
  BY DEF IInv, Inv, NewDataInv, EndHasNoNewData
<1>2. QED
  BY <1>1, AgentInvariant, PTL

\* cwmp_agent_retry_session bounds the attempts of one session, for every
\* MAX_SESSION_RETRY.
THEOREM AgentConnectsBounded == Spec => []ConnectsBounded
<1>1. IInv => ConnectsBounded
  BY DEF IInv, Inv, ConnectInv, ConnectsBounded
<1>2. QED
  BY <1>1, AgentInvariant, PTL

\* However sessions and answers fall, a TransferComplete is written at most
\* once for every transfer carried out.
THEOREM AgentCompletedOnce == Spec => []CompletedOnce
<1>1. IInv => CompletedOnce
  <2>1. One(transfer) \in Nat /\ One("transfer" \in pending) \in Nat
    BY DEF One
  <2>2. QED
    BY <2>1 DEF IInv, TypeOK, Inv, TransferInv, CompletedOnce
<1>2. QED
  BY <1>1, AgentInvariant, PTL

----------------------------------------------------------------------------
(* What goes out and what comes back; and what wakes the agent.             *)

\* Requests that are not answered and answers that are not read.
UnderWay == asked + Len(inflight)

\* A session begins with none. Only the handshake before the first request
\* leaves one behind: whatever is analysed has accepted the credentials.
LateInv ==
  /\ UnderWay <= 2
  /\ status \in {"IDLE", "TAKE", "START", "RETRY", "INFORM", "CLEAR", "TASKS"} => UnderWay = 0
  /\ status \in {"SEND", "HANDSHAKE", "POST", "ANSLYSE"} => UnderWay <= 1
  /\ status = "SEND" /\ ~active => UnderWay = 0

\* Until the first handshake is over there is at most the Inform to send.
DocInv ==
  /\ status \in {"START", "RETRY", "INFORM", "CLEAR"} => Len(writers) = 0
  /\ (status = "SEND" /\ ~active) \/ status = "HANDSHAKE" => Len(writers) <= 1
  /\ DocumentsGoAlone

\* An event that was raised after the list was cleared comes with a request
\* for a session, or with one that is about to be made.
WakeInv ==
  /\ status \in {"START", "RETRY", "INFORM"} => ~informed
  /\ informed /\ status # "CLEAR" /\ pending \ {"connreq"} # {} =>
       new_request \/ netlink = "raised" \/ (status = "TASKS" /\ ran)

StepInv == LateInv /\ DocInv /\ WakeInv

LEMMA LateKept ==
  ASSUME IInv, LateInv, [Next]_vars
  PROVE  LateInv'
<1> USE DEF UnderWay, LateInv
<1>1. asked \in Nat /\ inflight \in Seq(Replies) /\ Len(inflight) \in Nat
  BY LenProperties DEF IInv, TypeOK
<1>2. inflight # <<>> => Len(Tail(inflight)) = Len(inflight) - 1
  BY <1>1, HeadTailProperties
<1>3. Len(<<>>) = 0
  OBVIOUS
<1>4. CASE AcsReply
  <2>1. PICK r \in Replies : inflight' = Append(inflight, r)
    BY <1>4 DEF AcsReply, Answer
  <2>2. Len(inflight') = Len(inflight) + 1
    BY <1>1, <2>1, AppendProperties
  <2>3. UnderWay' = UnderWay /\ status' = status /\ active' = active
    BY <1>1, <1>4, <2>2 DEF AcsReply, Answer, sessionVars
  <2> QED BY <2>3
<1>5. CASE HttpdFlag \/ HttpdRaise \/ NetlinkRaise \/ NetlinkFlag \/ UNCHANGED vars
  BY <1>5 DEF HttpdFlag, HttpdRaise, NetlinkRaise, NetlinkFlag, vars, sessionVars, acsVars
<1>6. CASE Wake \/ Take \/ RunTask \/ TasksDone
  BY <1>6 DEF Wake, Take, RunTask, TasksDone, sessionVars, acsVars
<1>7. CASE Start \/ Retry \/ Inform \/ ClearAndWrite
  <2>1. /\ status \in {"START", "RETRY", "INFORM", "CLEAR"} /\ UNCHANGED acsVars
        /\ status' \in {"START", "RETRY", "INFORM", "CLEAR", "SEND", "EXIT"}
    BY <1>7 DEF Start, Retry, Inform, ClearAndWrite
  <2>2. UnderWay = 0 /\ UnderWay' = 0
    BY <2>1 DEF acsVars
  <2> QED BY <2>2
<1>8. CASE Send
  BY <1>1, <1>8 DEF Send
<1>9. CASE HandshakeRecv \/ HandshakeTimeout
  BY <1>1, <1>2, <1>9 DEF HandshakeRecv, HandshakeTimeout, sessionVars, acsVars
<1>10. CASE Post
  BY <1>1, <1>10 DEF Post, sessionVars
<1>11. CASE Recv \/ RecvTimeout
  BY <1>1, <1>2, <1>11 DEF Recv, RecvTimeout, acsVars
<1>12. CASE Analyse
  <2>1. active /\ active' = active /\ UNCHANGED acsVars /\ status = "ANSLYSE"
    BY <1>12 DEF Analyse, IInv, Inv, DanglingInv
  <2>2. status' \in {"SEND", "END", "CRASH"}
    BY <1>12 DEF Analyse, AnalyseEmpty, AnalyseGarbage, AnalyseMethod
  <2> QED BY <2>1, <2>2 DEF acsVars
<1>13. CASE End
  BY <1>13 DEF End, sessionVars, acsVars, IInv, Inv, NewDataInv
<1>14. CASE Exit
  BY <1>3, <1>14 DEF Exit
<1> QED
  BY <1>4, <1>5, <1>6, <1>7, <1>8, <1>9, <1>10, <1>11, <1>12, <1>13, <1>14
     DEF Next, AgentStep

LEMMA DocKept ==
  ASSUME IInv, DocInv, [Next]_vars
  PROVE  DocInv'
<1> USE DEF DocInv, DocumentsGoAlone
<1>1. writers \in Seq(Docs) /\ Len(writers) \in Nat /\ Len(<<>>) = 0
  BY LenProperties DEF IInv, TypeOK
<1>2. \A d \in Docs : /\ Len(Append(writers, d)) = Len(writers) + 1
                      /\ Len(Append(<<>>, d)) = 1 /\ Len(<<d>>) = 1
  BY <1>1, AppendProperties, EmptySeq
<1>3. CASE HttpdFlag \/ HttpdRaise \/ NetlinkRaise \/ NetlinkFlag \/ AcsReply \/ UNCHANGED vars
  BY <1>3 DEF HttpdFlag, HttpdRaise, NetlinkRaise, NetlinkFlag, AcsReply, Answer, vars, sessionVars
<1>4. CASE Wake \/ Take \/ RunTask \/ TasksDone
  BY <1>1, <1>4 DEF Wake, Take, FreshSession, RunTask, TasksDone, sessionVars
<1>5. CASE Start \/ Retry \/ Inform
  BY <1>5 DEF Start, Retry, Inform, sessionVars
<1>6. CASE ClearAndWrite
  <2>1. Len(writers') = 1 /\ status' = "SEND"
    BY <1>2, <1>6 DEF ClearAndWrite, Docs
  <2> QED BY <2>1
<1>7. CASE Send
  BY <1>7 DEF Send
<1>8. CASE HandshakeRecv \/ HandshakeTimeout
  BY <1>1, <1>8 DEF HandshakeRecv, HandshakeTimeout, sessionVars
<1>9. CASE Post \/ Recv \/ RecvTimeout
  BY <1>9 DEF Post, Recv, RecvTimeout, sessionVars
<1>10. CASE Analyse
  <2>1. active /\ active' = active /\ status' \in {"SEND", "END", "CRASH"}
    BY <1>10 DEF Analyse, AnalyseEmpty, AnalyseGarbage, AnalyseMethod, IInv, Inv, DanglingInv
  <2>2. readers' \in {"empty", "garbage"} \/ Len(writers') <= 1
    <3>1. CASE AnalyseEmpty \/ AnalyseGarbage
      BY <3>1 DEF AnalyseEmpty, AnalyseGarbage
    <3>2. CASE AnalyseMethod
      <4>1. \/ writers' = <<"response">>
            \/ writers' = <<>>
            \/ writers' = Append(<<>>, "transfercomplete")
        BY <3>2 DEF AnalyseMethod, EventCheck
      <4>2. \A d \in Docs : Len(Append(<<>>, d)) <= 1 /\ Len(<<d>>) <= 1
        BY <1>2
      <4>3. "response" \in Docs /\ "transfercomplete" \in Docs
        BY DEF Docs
      <4>4. Len(<<"response">>) <= 1 /\ Len(Append(<<>>, "transfercomplete")) <= 1
        BY <4>2, <4>3
      <4>5. Len(<<>>) <= 1
        BY <1>1
      <4> QED BY ONLY <4>1, <4>4, <4>5, Zenon
    <3> QED BY <1>10, <3>1, <3>2 DEF Analyse
  <2>3. Len(writers') \in Nat
    BY NextIInv, LenProperties DEF IInv, TypeOK
  <2> QED BY <2>1, <2>2, <2>3
<1>11. CASE End \/ Exit
  BY <1>1, <1>11 DEF End, Exit, FreshSession, sessionVars, IInv, Inv, NewDataInv
<1> QED
  BY <1>3, <1>4, <1>5, <1>6, <1>7, <1>8, <1>9, <1>10, <1>11 DEF Next, AgentStep

LEMMA WakeKept ==
  ASSUME IInv, WakeInv, [Next]_vars
  PROVE  WakeInv'
<1> USE DEF WakeInv
<1>1. CASE HttpdFlag \/ HttpdRaise \/ NetlinkRaise \/ NetlinkFlag \/ AcsReply \/ UNCHANGED vars
  BY <1>1 DEF HttpdFlag, HttpdRaise, NetlinkRaise, NetlinkFlag, AcsReply, Answer, vars,
     listenVars, eventVars, historyVars
<1>2. CASE Wake
  BY <1>2 DEF Wake, listenVars, eventVars, historyVars
<1>3. CASE Take
  <2>1. informed' = FALSE /\ status' = "START"
    BY <1>3 DEF Take
  <2> QED BY <2>1
<1>8. CASE TasksDone
  <2>1. /\ status = "TASKS" /\ status' = "IDLE"
        /\ new_request' = (new_request \/ ran)
        /\ UNCHANGED <<netlink, pending, informed>>
    BY <1>8 DEF TasksDone, listenVars, eventVars, historyVars
  <2> QED BY <2>1
<1>9. CASE RunTask
  <2>1. status' = "TASKS" /\ ran' = TRUE
    BY <1>9 DEF RunTask
  <2> QED BY <2>1
<1>4. CASE Start \/ Retry \/ Inform
  <2>1. /\ status \in {"START", "RETRY", "INFORM"} /\ UNCHANGED pending
        /\ \/ status' \in {"START", "RETRY", "INFORM", "EXIT"} /\ informed' = informed
           \/ status' = "CLEAR"
    BY <1>4 DEF Start, Retry, Inform, eventVars, historyVars
  <2> QED BY <2>1
<1>10. CASE ClearAndWrite
  <2>1. pending' = {} /\ status' = "SEND"
    BY <1>10 DEF ClearAndWrite
  <2> QED BY <2>1
<1>5. CASE Send \/ HandshakeRecv \/ HandshakeTimeout \/ Post \/ Recv \/ RecvTimeout
  BY <1>5 DEF Send, HandshakeRecv, HandshakeTimeout, Post, Recv, RecvTimeout,
     listenVars, eventVars, historyVars
<1>6. CASE Analyse
  <2>1. status = "ANSLYSE" /\ status' \in {"SEND", "END", "CRASH"}
    BY <1>6 DEF Analyse, AnalyseEmpty, AnalyseGarbage, AnalyseMethod
  <2> QED BY <1>6, <2>1 DEF Analyse, listenVars
<1>7. CASE End \/ Exit
  BY <1>7 DEF End, Exit, listenVars, eventVars, historyVars
<1> QED
  BY <1>1, <1>2, <1>3, <1>4, <1>5, <1>6, <1>7, <1>8, <1>9, <1>10 DEF Next, AgentStep

\* The three parts hold in every reachable state of the agent.
THEOREM AgentInStep == Spec => []StepInv
<1>1. Init => StepInv
  <2>1. Len(<<>>) = 0
    OBVIOUS
  <2> QED
    BY <2>1 DEF Init, StepInv, LateInv, UnderWay, DocInv, DocumentsGoAlone, WakeInv
<1>2. IInv /\ StepInv /\ [Next]_vars => StepInv'
  BY LateKept, DocKept, WakeKept DEF StepInv
<1>3. QED
  BY <1>1, <1>2, AgentInvariant, PTL DEF Spec

\* A document is sent alone unless the answer before was no document, and at
\* most one answer is late, for any number of answers and sessions.
THEOREM AgentAnswersInStep == Spec => []AnswersInStep
<1>1. StepInv => AnswersInStep
  BY DEF StepInv, LateInv, UnderWay, DocInv, AnswersInStep, OneLateAnswer
<1>2. QED
  BY <1>1, AgentInStep, PTL

\* An event left in the list while the agent sleeps has a request with it.
THEOREM AgentWoken == Spec => []EventWakesAgent
<1>1. StepInv => EventWakesAgent
  BY DEF StepInv, WakeInv, EventWakesAgent
<1>2. QED
  BY <1>1, AgentInStep, PTL

=============================================================================
