---------------------------- MODULE AgentSession ----------------------------
(****************************************************************************)
(* The agent of cwmpd/src/agent.c: the loop of cwmp_agent_start_session,    *)
(* its CWMP_ST_* state machine, cwmp_agent_analyse_session and              *)
(* cwmp_agent_run_tasks, with the two threads that wake it (the HTTP server *)
(* and the netlink listener) and an ACS that answers as it likes, late or   *)
(* not at all.                                                              *)
(*                                                                          *)
(* The event list appears as the set of kinds it holds and its two          *)
(* operations as single steps (EventList.tla has the detail), the task      *)
(* queue as a sequence, which it is as long as only queue_push is used      *)
(* (FifoWithoutCallbacks of TaskQueueList.tla).                             *)
(****************************************************************************)
EXTENDS Naturals, Sequences

CONSTANTS
  AgentStarted,    \* whether cwmp_agent_session calls cwmp_agent_start_session
  MaxSessionRetry, \* MAX_SESSION_RETRY
  AcsAuth,         \* cwmp->acs_auth
  MaxReplies,      \* bound: answers of the ACS that leave something behind
  MaxWakes         \* bound: wake-ups by each listener in one behaviour

ASSUME AgentAssumption ==
  /\ AgentStarted \in BOOLEAN
  /\ MaxSessionRetry \in Nat
  /\ AcsAuth \in BOOLEAN
  /\ MaxReplies \in Nat
  /\ MaxWakes \in Nat

\* What a non-empty answer asks for.  "null": InformResponse,
\* TransferCompleteResponse or an unknown method; "rpc": answered at once;
\* "garbage": not XML; "clearing": a reboot or a factory reset, which do the
\* same to the event list.
TaskBodies == {"transfer", "clearing"}
Bodies == {"empty", "null", "rpc", "garbage"} \cup TaskBodies

\* 401 stands for every refusal: the others leave auth.active alone, which is
\* FALSE in the handshake and in a session that ends.
Replies == [code : {200}, body : Bodies] \cup [code : {401}, body : {"garbage"}]

Docs == {"inform", "response", "transfercomplete", "fault"}

EventKinds == {"bootstrap", "boot", "connreq", "transfer"}

\* CWMP_ST_*, with SEND cut at its blocking calls and INFORM at the two calls
\* that touch the event list; IDLE, TAKE and TASKS are the outer loop, CRASH
\* is the access through an uninitialised or dangling pointer.
Statuses == {"IDLE", "TAKE", "START", "INFORM", "CLEAR", "SEND", "HANDSHAKE",
             "POST", "RECV", "ANSLYSE", "RETRY", "END", "EXIT", "TASKS", "CRASH"}

VARIABLES
  new_request, \* cwmp->new_request
  httpd,       \* "idle", or "flagged": new_request set, event not yet raised
  netlink,     \* "idle", or "raised": event raised, new_request not yet set
  wakes,       \* history: wake-ups begun, per listener
  pending,     \* kinds in the event list
  transfer,    \* EVENT_REBOOT_TRANSFERCOMPLETE_FLAG of event_global
  queue,       \* cwmp->queue
  status,      \* session->status
  retry_count, \* session->retry_count
  newdata,     \* session->newdata
  active,      \* session->dest->auth.active
  readers,     \* session->readers: a body, or "dangling" after pool_clear
  writers,     \* session->writers: the documents one after the other
  asked,       \* requests the ACS has received and not answered
  inflight,    \* its answers, not yet read
  replies,     \* history: answers given that leave something behind
  connects,    \* history: connection attempts of this session
  informed,    \* history: this session has got to its Inform
  ran,         \* ok of cwmp_agent_run_tasks
  done,        \* history: transfers carried out
  sent         \* history: TransferComplete messages written

listenVars == <<httpd, netlink, wakes>>
eventVars == <<pending, transfer>>
sessionVars == <<retry_count, newdata, active, readers, writers>>
acsVars == <<asked, inflight, replies>>
historyVars == <<connects, informed, done, sent>>
vars == <<new_request, listenVars, eventVars, queue, status, sessionVars,
          acsVars, ran, historyVars>>

\* cwmp_event_init leaves BOOTSTRAP in the list; new_request depends on whether
\* the link is up when the daemon starts.
Init ==
  /\ new_request \in BOOLEAN
  /\ httpd = "idle"
  /\ netlink = "idle"
  /\ wakes = [httpd |-> 0, netlink |-> 0]
  /\ pending = {"bootstrap"}
  /\ transfer = FALSE
  /\ queue = <<>>
  /\ status = "IDLE"
  /\ retry_count = 0
  /\ newdata = FALSE
  /\ active = FALSE
  /\ readers = "empty"
  /\ writers = <<>>
  /\ asked = 0
  /\ inflight = <<>>
  /\ replies = 0
  /\ connects = 0
  /\ informed = FALSE
  /\ ran = FALSE
  /\ done = 0
  /\ sent = 0

----------------------------------------------------------------------------
(* The listeners                                                            *)

\* The HTTP server sets new_request, then raises the event.
HttpdFlag ==
  /\ httpd = "idle"
  /\ wakes.httpd < MaxWakes
  /\ new_request' = TRUE
  /\ httpd' = "flagged"
  /\ wakes' = [wakes EXCEPT !.httpd = @ + 1]
  /\ UNCHANGED <<netlink, eventVars, queue, status, sessionVars, acsVars, ran, historyVars>>

HttpdRaise ==
  /\ httpd = "flagged"
  /\ pending' = pending \cup {"connreq"}
  /\ httpd' = "idle"
  /\ UNCHANGED <<new_request, netlink, wakes, transfer, queue, status, sessionVars,
                 acsVars, ran, historyVars>>

\* A slip the properties notice: raises the event without asking for a session.
NetlinkRaiseForgettingFlag ==
  /\ netlink = "idle"
  /\ wakes.netlink < MaxWakes
  /\ pending' = pending \cup {"boot"}
  /\ wakes' = [wakes EXCEPT !.netlink = @ + 1]
  /\ UNCHANGED <<new_request, httpd, netlink, transfer, queue, status, sessionVars,
                 acsVars, ran, historyVars>>

\* cwmp_agent_netlink_msg_cb does it in the other order.
NetlinkRaise ==
  /\ netlink = "idle"
  /\ wakes.netlink < MaxWakes
  /\ pending' = pending \cup {"boot"}
  /\ netlink' = "raised"
  /\ wakes' = [wakes EXCEPT !.netlink = @ + 1]
  /\ UNCHANGED <<new_request, httpd, transfer, queue, status, sessionVars, acsVars,
                 ran, historyVars>>

NetlinkFlag ==
  /\ netlink = "raised"
  /\ new_request' = TRUE
  /\ netlink' = "idle"
  /\ UNCHANGED <<httpd, wakes, eventVars, queue, status, sessionVars, acsVars,
                 ran, historyVars>>

\* What lengthens the task queue or the writers.  Every other answer may come
\* again and again, so nothing here ends a session.
LeavesMore(r) == r.code = 200 /\ r.body \in TaskBodies \cup {"garbage"}

Answer(r) ==
  /\ asked > 0
  /\ LeavesMore(r) => replies < MaxReplies
  /\ inflight' = Append(inflight, r)
  /\ asked' = asked - 1
  /\ replies' = IF LeavesMore(r) THEN replies + 1 ELSE replies
  /\ UNCHANGED <<new_request, listenVars, eventVars, queue, status, sessionVars,
                 ran, historyVars>>

\* The ACS answers one of the requests it has, in any way.
AcsReply == \E r \in Replies : Answer(r)

\* It answers that it has nothing more to ask, or refuses.
AcsDone == \E r \in Replies : (r.code # 200 \/ r.body = "empty") /\ Answer(r)

----------------------------------------------------------------------------
(* The outer loop: the request is tested, then taken                        *)

\* At this commit the call in cwmp_agent_session is commented out, so that the
\* daemon built from it only listens; AgentStarted tells the two apart.
Wake ==
  /\ AgentStarted
  /\ status = "IDLE"
  /\ new_request
  /\ status' = "TAKE"
  /\ UNCHANGED <<new_request, listenVars, eventVars, queue, sessionVars, acsVars,
                 ran, historyVars>>

\* What cwmp_session_create leaves in a session.
FreshSession ==
  /\ retry_count' = 0
  /\ newdata' = FALSE
  /\ active' = FALSE
  /\ readers' = "empty"
  /\ writers' = <<>>

\* cwmp_session_create and cwmp_session_open.
Take ==
  /\ status = "TAKE"
  /\ new_request' = FALSE
  /\ status' = "START"
  /\ FreshSession
  /\ connects' = 0
  /\ informed' = FALSE
  /\ UNCHANGED <<listenVars, eventVars, queue, acsVars, ran, done, sent>>

\* cwmp_agent_run_tasks: one task of the queue.  Reboot raises MREBOOT and
\* clears the list, factory reset clears the list; nothing restarts.
TaskTransfer ==
  /\ Head(queue) = "transfer"
  /\ done' = done + 1
  /\ pending' = pending \cup {"transfer"}
  /\ UNCHANGED transfer

TaskClear ==
  /\ Head(queue) = "clearing"
  /\ pending' = {}
  /\ transfer' = (transfer \/ "transfer" \in pending)
  /\ UNCHANGED done

RunTask ==
  /\ status = "TASKS"
  /\ queue # <<>>
  /\ queue' = Tail(queue)
  /\ ran' = TRUE
  /\ TaskTransfer \/ TaskClear
  /\ UNCHANGED <<new_request, listenVars, status, sessionVars, acsVars, connects,
                 informed, sent>>

\* A slip the properties notice: does not wait for the queue to be empty.
TasksLeft ==
  /\ status = "TASKS"
  /\ new_request' = (new_request \/ ran)
  /\ ran' = FALSE
  /\ status' = "IDLE"
  /\ UNCHANGED <<listenVars, eventVars, queue, sessionVars, acsVars, historyVars>>

\* Having run a task asks for a session that reports it.
TasksDone ==
  /\ status = "TASKS"
  /\ queue = <<>>
  /\ new_request' = (new_request \/ ran)
  /\ ran' = FALSE
  /\ status' = "IDLE"
  /\ UNCHANGED <<listenVars, eventVars, queue, sessionVars, acsVars, historyVars>>
----------------------------------------------------------------------------
(* The session                                                              *)

\* cwmp_session_connect makes a new dest, so auth.active starts FALSE.
Start ==
  /\ status = "START"
  /\ connects' = connects + 1
  /\ active' = FALSE
  /\ status' \in {"INFORM", "RETRY"}
  /\ UNCHANGED <<new_request, listenVars, eventVars, queue, retry_count, newdata,
                 readers, writers, acsVars, ran, informed, done, sent>>

\* A slip the properties notice: is off by one.
TriesLeftOneMore == retry_count <= MaxSessionRetry + 1

\* cwmp_agent_retry_session
TriesLeft == retry_count <= MaxSessionRetry

\* A slip the properties notice: counts down.
RetryCountingDown ==
  /\ status = "RETRY"
  /\ retry_count' = retry_count - 1
  /\ status' = "START"
  /\ UNCHANGED <<new_request, listenVars, eventVars, queue, newdata, active, readers,
                 writers, acsVars, ran, historyVars>>

Retry ==
  /\ status = "RETRY"
  /\ IF TriesLeft
     THEN retry_count' = retry_count + 1 /\ status' = "START"
     ELSE retry_count' = 0 /\ status' = "EXIT"
  /\ UNCHANGED <<new_request, listenVars, eventVars, queue, newdata, active, readers,
                 writers, acsVars, ran, historyVars>>

\* The active events are copied; the Inform written in the end carries them.
Inform ==
  /\ status = "INFORM"
  /\ informed' = TRUE
  /\ status' = "CLEAR"
  /\ UNCHANGED <<new_request, listenVars, eventVars, queue, sessionVars, acsVars,
                 ran, connects, done, sent>>

\* The list is cleared, the credentials are set and the Inform is written.
ClearAndWrite ==
  /\ status = "CLEAR"
  /\ pending' = {}
  /\ transfer' = (transfer \/ "transfer" \in pending)
  /\ active' = IF AcsAuth THEN FALSE ELSE active
  /\ writers' = Append(writers, "inform")
  /\ status' = "SEND"
  /\ UNCHANGED <<new_request, listenVars, queue, retry_count, newdata, readers,
                 acsVars, ran, historyVars>>

\* Digest authentication first posts nothing to be given a nonce; whether that
\* post succeeds is not looked at.
Send ==
  /\ status = "SEND"
  /\ newdata' = FALSE
  /\ IF AcsAuth /\ ~active
     THEN status' = "HANDSHAKE" /\ asked' \in {asked, asked + 1}
     ELSE status' = "POST" /\ UNCHANGED asked
  /\ UNCHANGED <<new_request, listenVars, eventVars, queue, retry_count, active,
                 readers, writers, inflight, replies, ran, historyVars>>

\* A slip the properties notice: does not note that the ACS accepted.
NeverActivated(reply) == IF reply.code = 401 THEN FALSE ELSE active

\* cwmp_session_recv_response reads the next answer, whichever request it
\* answers: the body goes to the readers, the code decides auth.active.
ActiveAfter(reply) == IF reply.code = 401 THEN FALSE ELSE IF reply.code = 200 THEN TRUE ELSE active

\* Handshake: the result is ignored, a body is appended to what readers holds.
HandshakeRecv ==
  /\ status = "HANDSHAKE"
  /\ inflight # <<>>
  /\ inflight' = Tail(inflight)
  /\ active' = ActiveAfter(Head(inflight))
  /\ IF readers = "dangling" /\ Head(inflight).body # "empty"
     THEN status' = "CRASH" /\ UNCHANGED readers
     ELSE /\ status' = "POST"
          /\ readers' = IF Head(inflight).body = "empty" THEN readers ELSE Head(inflight).body
  /\ UNCHANGED <<new_request, listenVars, eventVars, queue, retry_count, newdata,
                 writers, asked, replies, ran, historyVars>>

HandshakeTimeout ==
  /\ status = "HANDSHAKE"
  /\ status' = "POST"
  /\ UNCHANGED <<new_request, listenVars, eventVars, queue, sessionVars, acsVars,
                 ran, historyVars>>

Post ==
  /\ status = "POST"
  /\ \/ status' = "RECV" /\ asked' = asked + 1
     \/ status' = "EXIT" /\ UNCHANGED asked
  /\ UNCHANGED <<new_request, listenVars, eventVars, queue, sessionVars, inflight,
                 replies, ran, historyVars>>

\* The readers are cleared first, so nothing is appended to an old body.
Recv ==
  /\ status = "RECV"
  /\ inflight # <<>>
  /\ inflight' = Tail(inflight)
  /\ active' = ActiveAfter(Head(inflight))
  /\ readers' = Head(inflight).body
  /\ status' = IF Head(inflight).code = 200 THEN "ANSLYSE" ELSE "END"
  /\ UNCHANGED <<new_request, listenVars, eventVars, queue, retry_count, newdata,
                 writers, asked, replies, ran, historyVars>>

\* A slip the properties notice: waits for ever.
RecvWithoutTimeout ==
  /\ status = "RECV"
  /\ readers' = "empty"
  /\ UNCHANGED <<new_request, listenVars, eventVars, queue, status, retry_count,
                 newdata, active, writers, acsVars, ran, historyVars>>

RecvTimeout ==
  /\ status = "RECV"
  /\ readers' = "empty"
  /\ status' = "END"
  /\ UNCHANGED <<new_request, listenVars, eventVars, queue, retry_count, newdata,
                 active, writers, acsVars, ran, historyVars>>

\* END sends again when there is new data.
End ==
  /\ status = "END"
  /\ status' = IF newdata THEN "SEND" ELSE "EXIT"
  /\ UNCHANGED <<new_request, listenVars, eventVars, queue, sessionVars, acsVars,
                 ran, historyVars>>

\* A slip the properties notice: reuses the connection.
ExitKeepingAnswers ==
  /\ status = "EXIT"
  /\ FreshSession
  /\ status' = "TASKS"
  /\ UNCHANGED <<new_request, listenVars, eventVars, queue, acsVars, ran, historyVars>>

\* cwmp_session_close and cwmp_session_free: the connection goes, with whatever
\* is still under way on it, and so does the session; session->reconnect is
\* never set.
Exit ==
  /\ status = "EXIT"
  /\ asked' = 0
  /\ inflight' = <<>>
  /\ FreshSession
  /\ status' = "TASKS"
  /\ UNCHANGED <<new_request, listenVars, eventVars, queue, replies, ran, historyVars>>

----------------------------------------------------------------------------
(* cwmp_agent_analyse_session                                               *)

\* A slip the properties notice: leaves the flag set.
EventCheckKeepingFlag(kept) ==
  /\ UNCHANGED transfer
  /\ IF transfer
     THEN writers' = Append(kept, "transfercomplete") /\ sent' = sent + 1
     ELSE writers' = kept /\ UNCHANGED sent

\* The event check: a TransferComplete when the flag asks for one.
EventCheck(kept) ==
  /\ transfer' = FALSE
  /\ IF transfer
     THEN writers' = Append(kept, "transfercomplete") /\ sent' = sent + 1
     ELSE writers' = kept /\ UNCHANGED sent

\* An empty answer jumps to the event check over the assignment of its cwmp
\* pointer: the read goes to the daemon's state or anywhere.
AnalyseEmpty ==
  /\ readers = "empty"
  /\ UNCHANGED <<queue, readers>>
  /\ \/ /\ EventCheck(writers)
        /\ newdata' = transfer
        /\ status' = IF transfer THEN "SEND" ELSE "END"
     \/ /\ status' = "CRASH"
        /\ UNCHANGED <<transfer, writers, sent, newdata>>

\* A body that is not XML appends a fault to what was sent last and returns a
\* result that was never assigned.
AnalyseGarbage ==
  /\ readers = "garbage"
  /\ writers' = Append(writers, "fault")
  /\ status' \in {"SEND", "END"}
  /\ UNCHANGED <<queue, readers, transfer, sent, newdata>>

\* Otherwise the pool behind both chunks is cleared; only the writers are reset.
AnalyseMethod ==
  /\ readers \in {"null", "rpc"} \cup TaskBodies
  /\ IF readers = "null" THEN EventCheck(<<>>)
     ELSE writers' = <<"response">> /\ UNCHANGED <<transfer, sent>>
  /\ queue' = IF readers \in TaskBodies THEN Append(queue, readers) ELSE queue
  /\ readers' = "dangling"
  /\ newdata' = TRUE
  /\ status' = "SEND"

Analyse ==
  /\ status = "ANSLYSE"
  /\ AnalyseEmpty \/ AnalyseGarbage \/ AnalyseMethod
  /\ UNCHANGED <<new_request, listenVars, pending, retry_count, active, acsVars,
                 ran, connects, informed, done>>

----------------------------------------------------------------------------
AgentStep ==
  \/ Wake \/ Take \/ RunTask \/ TasksDone
  \/ Start \/ Retry \/ Inform \/ ClearAndWrite
  \/ Send \/ HandshakeRecv \/ HandshakeTimeout \/ Post
  \/ Recv \/ RecvTimeout \/ Analyse \/ End \/ Exit

Next ==
  \/ HttpdFlag \/ HttpdRaise
  \/ NetlinkRaise \/ NetlinkFlag
  \/ AcsReply
  \/ AgentStep

Spec == Init /\ [][Next]_vars

\* Every read has a timeout and every wait of the agent ends by itself; the
\* ACS and the listeners need not take another step.
FairSpec == Spec /\ WF_vars(AgentStep)

----------------------------------------------------------------------------
(* Properties                                                               *)

\* Types of the variables.
TypeOK ==
  /\ new_request \in BOOLEAN
  /\ httpd \in {"idle", "flagged"}
  /\ netlink \in {"idle", "raised"}
  /\ wakes \in [{"httpd", "netlink"} -> Nat]
  /\ pending \in SUBSET EventKinds
  /\ transfer \in BOOLEAN
  /\ queue \in Seq(TaskBodies)
  /\ status \in Statuses
  /\ retry_count \in Nat
  /\ newdata \in BOOLEAN
  /\ active \in BOOLEAN
  /\ readers \in Bodies \cup {"dangling"}
  /\ writers \in Seq(Docs)
  /\ asked \in Nat
  /\ inflight \in Seq(Replies)
  /\ replies \in Nat
  /\ connects \in Nat
  /\ informed \in BOOLEAN
  /\ ran \in BOOLEAN
  /\ done \in Nat
  /\ sent \in Nat

\* The body of a handshake answer is never appended to readers whose memory
\* cwmp_agent_analyse_session has given back with pool_clear: once an answer
\* was analysed, no handshake takes place before the readers are cleared.
NoHandshakeOnDangling == status = "HANDSHAKE" => readers # "dangling"

\* A request carries one document.  A second one is only ever appended when the
\* answer before was empty or not XML: what analysis of a proper answer writes
\* goes alone, and so does the Inform.
DocumentsGoAlone ==
  status \in {"SEND", "HANDSHAKE", "POST"} /\ Len(writers) > 1
    => readers \in {"empty", "garbage"}

\* CWMP_ST_END never goes back to CWMP_ST_SEND: what analysis found to send is
\* sent from there, and a failed exchange leaves nothing new.
EndHasNoNewData == status \in {"RECV", "END"} => ~newdata

\* A session that cannot connect gives up after MAX_SESSION_RETRY + 2 attempts.
ConnectsBounded == connects <= MaxSessionRetry + 2

\* An answer is read at most one request late: the request whose answer the
\* handshake did not wait for is the only one ever outstanding beside the last.
OneLateAnswer ==
  /\ asked + Len(inflight) <= 2
  /\ status \in {"IDLE", "START", "HANDSHAKE", "ANSLYSE"} => asked + Len(inflight) <= 1

\* What goes out and what comes back stay in step: documents go alone, and no
\* answer is taken for that of a request made two exchanges before.
AnswersInStep == DocumentsGoAlone /\ OneLateAnswer

\* No transfer is reported complete twice, and none that was not carried out.
CompletedOnce == sent <= done

\* A boot event of the netlink thread or a finished transfer left in the list
\* while the agent sleeps was met by a session that never got to its Inform;
\* otherwise the agent has a request waiting.
EventWakesAgent ==
  status = "IDLE" /\ netlink = "idle" /\ pending \ {"connreq"} # {} /\ informed
    => new_request

\* The event check works on the daemon's event flags, as its comment says.
EventCheckUsesDaemonState == status # "CRASH"

\* What the two properties below ask of the ACS.  A session lasts as long as
\* the ACS has something to ask, and the agent puts no end to it: an ACS that
\* answers for ever must say, again and again, that it has nothing more.  One
\* that falls silent asks nothing of this kind.
AcsLetsGo == []<><<AcsReply>>_vars => []<><<AcsDone>>_vars

\* Every task a session has promised the ACS is run in the end, if the ACS lets
\* sessions end.
AcceptedTasksRun ==
  AcsLetsGo => (queue # <<>> ~> (queue = <<>> \/ status = "CRASH"))

\* A request for a session is taken up: the session under way ends and a new
\* one starts, if the ACS lets sessions end.
RequestServed == AcsLetsGo => (new_request ~> (status \in {"START", "CRASH"}))

=============================================================================
