----------------------------- MODULE RpcMethods -----------------------------
(***************************************************************************)
(* What the agent answers to a document of the ACS: the methods that       *)
(* agent_analyse_session hands out (cwmpd/src/agent.c), their parsing and  *)
(* the answers built in libcwmp/src/session.c and cwmp.c. A document is    *)
(* what the code looks for in it; how the agent comes to have one is       *)
(* AgentSession's, how it is read and written XmlParser's and XmlPrint's.  *)
(* No object of the tree has an add or del function in this build          *)
(* (ModelFunction of data_model.c), so instances come and go by            *)
(* ParameterTree's own operations only.                                    *)
(***************************************************************************)
EXTENDS ParameterTree, Integers

CONSTANTS
  HeaderIds,    \* texts of a cwmp:ID
  ParamValues,  \* values
  FileUrls,     \* URLs a Download names, "" among them
  AskedLists,   \* lists of names a GetParameterValues asks for, each a path
  SetLists,     \* lists of <<name, value>> a SetParameterValues sends
  InformNames,  \* the parameters an Inform always lists
  EventLists,   \* lists of events to be informed of, <<code, command key>>
  RenewSize,    \* CWMP_RENEW_SIZE: entries a parameter list starts with
  MaxAsked,     \* bound: documents answered
  MaxBetween    \* bound: instances made and deleted between documents

ASSUME RpcAssumption ==
  /\ RenewSize \in Nat \ {0} /\ "own" \notin HeaderIds
  /\ InformNames \in Seq(STRING) /\ AskedLists \subseteq Seq(Seq(STRING))
  /\ EventLists \subseteq Seq(STRING \X STRING)
  /\ \A l \in SetLists : l \in Seq(Seq(STRING) \X ParamValues)

NoHeader == "no header"
NoId == "no id"
NoPath == <<"no path">>   \* ParameterPath, ObjectName is missing or empty
NoList == <<NoPath>>      \* ParameterNames or ParameterList is missing

Headers == HeaderIds \cup {NoHeader, NoId}
OneOff == {"GetRPCMethods", "Download", "Upload", "Reboot", "FactoryReset"}
Tags == [Download |-> "download", Reboot |-> "reboot", FactoryReset |-> "factoryreset"]
ResponseTo ==
  [GetRPCMethods |-> "GetRPCMethodsResponse", Download |-> "DownloadResponse",
   Reboot |-> "RebootResponse", FactoryReset |-> "FactoryResetResponse",
   GetParameterNames |-> "GetParameterNamesResponse",
   GetParameterValues |-> "GetParameterValuesResponse",
   SetParameterValues |-> "SetParameterValuesResponse",
   AddObject |-> "AddObjectResponse", DeleteObject |-> "DeleteObjectResponse"]
Silent == {"InformResponse", "TransferCompleteResponse", "SetParameterAttributes",
           "no method"}

VARIABLES
  asked,     \* the document being answered: method, header, and its arguments
             \* path, next (NextLevel), names and texts; way is history, the
             \* node met for each of the names
  answer,    \* the answer, [kind, id, list]; kind "died" when the agent did
  tasks,     \* pushed to cwmp->queue: <<tag, url of the argument>>
  paramText, \* node->value
  transfer,  \* fault code of the transfer to be reported, or NotDue
  served     \* history: <<method, url>> answered, in order

rpcVars == <<asked, answer, tasks, paramText, transfer, served>>
NotDue == -1
NoUrl == "NULL"
EmptyText == ""
Nothing == [kind |-> "nothing", id |-> NoId, list |-> <<>>]

----------------------------------------------------------------------------
(* Parts of the answer.                                                    *)

\* cwmp_parse_header_node and cwmp_create_header_node: the answer has a
\* header when the request had one, with its id or without.
IdOf(header) == header

Answer(kind, header, list) == [kind |-> kind, id |-> IdOf(header), list |-> list]
Died == [kind |-> "died", id |-> NoId, list |-> <<>>]

\* cwmp_create_faultcode_response_message.
FaultAnswer(header, code) == Answer("Fault", header, << <<NoPath, code>> >>)

\* rpc_methods. Two of them are not handled, AddObject and DeleteObject,
\* which are, are not in it.
rpc_methods == <<"GetRPCMethods", "SetParameterValues", "GetParameterValues",
  "GetParameterNames", "SetParameterAttributes", "GetParameterAttributes", "Download",
  "Upload", "Reboot", "FactoryReset", "Inform">>

\* cwmp_get_parameter_node compares names with a buffer it never fills: no
\* node, or any one along the first children and their siblings.
FoundNodes ==
  LET at[n \in 0..Len(params)] ==
        IF n = NoParam THEN {} ELSE ToSet(Siblings(params, n)) \cup at[params[n].child]
  IN  {n \in at[Root(params)] : params[n].name # Nameless} \cup {NoParam}

\* A way cwmp_get_parameter_node may go for each of k names.
Picks(k) == [1..k -> FoundNodes]

\* Of these, the ways of a reading that ends at the first name without a node.
PicksToNone(k) ==
  {pick \in Picks(k) : \A i \in 2..k : pick[i - 1] = NoParam => pick[i] = NoParam}

\* get and set are cpe_get_igd_ms_value and cpe_set_igd_ms_value for what
\* the document has as a parameter; an object has neither, nor has a copy.
HasHandler(n) == ~params[n].object

----------------------------------------------------------------------------
(* GetParameterNames.                                                      *)

\* cwmp_create_getparameternames_response_all_parameter_names: the path and
\* what is below it, "{i}" and all below it left out.
AllNames(path, n) ==
  LET below[m \in 0..Len(params)] ==
        LET kids == SelectSeq(ChildrenOf(params, m), LAMBDA c : params[c].name # Template)
        IN  <<<<>>>> \o FlattenSeq([i \in DOMAIN kids |->
               [j \in DOMAIN below[kids[i]] |-> params[kids[i]].name \o below[kids[i]][j]]])
  IN  [i \in DOMAIN below[n] |-> Parts(path) \o below[n][i]]

\* cwmp_create_getparameternames_response_message for the node found: the
\* path as it is asked for, the children, or all.
NamesListed(path, next_level, n) ==
  IF Last(path) # EmptyText THEN <<path>>
  ELSE IF next_level
       THEN LET kids == SelectSeq(ChildrenOf(params, n), LAMBDA c : params[c].name # Template)
            IN  [i \in DOMAIN kids |-> Parts(path) \o params[kids[i]].name]
       ELSE AllNames(path, n)

\* cwmp_session_create_getparameternames_response_message. A path that is
\* NULL is read all the same; no node makes no answer.
GetParameterNames(header, path, next_level) ==
  LET n == cwmp_get_parameter_path_node(params, path)
  IN  IF path = NoPath THEN Died
      ELSE IF n = NoParam THEN Nothing
      ELSE Answer("GetParameterNamesResponse", header, NamesListed(path, next_level, n))

----------------------------------------------------------------------------
(* GetParameterValues and SetParameterValues.                              *)

\* cwmp_create_getparametervalues_response_message.
ValuesAnswer(header, list) == Answer("GetParameterValuesResponse", header, list)

\* How many entries of a list can be read back: the array grows by a copy
\* while nextpv stays in the old one, so the entry that made it grow is NULL.
Readable(k) == IF k < RenewSize THEN k ELSE RenewSize - 1

\* cwmp_parse_getparametervalues_message and the answer, whose list ends at
\* the first name without a node; the fault set there goes nowhere.
GetParameterValues(header, names, pick) ==
  LET ends == {i \in DOMAIN names : pick[i] = NoParam}
      k == IF ends = {} THEN Len(names) ELSE (CHOOSE i \in ends : \A j \in ends : i <= j) - 1
  IN  IF Readable(k) < k THEN Died
      ELSE ValuesAnswer(header, [i \in 1..k |-> <<names[i], paramText[pick[i]]>>])

\* cwmp_parse_setparametervalues_message: each entry that comes out with a
\* node is listed with the code of its set, 9008 if there is none; one
\* without a node is passed over.
SetCodes(items, pick) ==
  LET codes[k \in 0..Len(items)] ==
        IF k = 0 THEN <<>>
        ELSE IF pick[k] = NoParam THEN codes[k - 1]
        ELSE Append(codes[k - 1], <<items[k][1], IF HasHandler(pick[k]) THEN 0 ELSE 9008>>)
  IN  codes[Len(items)]

\* A slip the properties notice: the node is written without its function.
AfterSetsUnchecked(items, pick) ==
  [n \in Params |->
     LET to == {i \in DOMAIN items : pick[i] = n}
     IN  IF to = {} THEN paramText[n]
         ELSE items[CHOOSE i \in to : \A j \in to : j <= i][2]]

\* What the sets leave in the nodes: each goes through as it is read.
AfterSets(items, pick) ==
  [n \in Params |->
     LET to == {i \in DOMAIN items : pick[i] = n /\ HasHandler(n)}
     IN  IF to = {} THEN paramText[n]
         ELSE items[CHOOSE i \in to : \A j \in to : j <= i][2]]

\* cwmp_create_setparametervalues_response_message.
StatusAnswer(header, status) ==
  Answer("SetParameterValuesResponse", header, <<IF status = 0 THEN 0 ELSE 1>>)

\* cwmp_session_create_setparametervalues_response_message: status 0, or the
\* fault with all that was listed, up to the entry that cannot be read.
SetAnswer(header, items, pick) ==
  LET codes == SetCodes(items, pick)
  IN  IF \E j \in DOMAIN codes : codes[j][2] # 0
      THEN Answer("Fault", header, << <<NoPath, 9003>> >> \o SubSeq(codes, 1, Readable(Len(codes))))
      ELSE StatusAnswer(header, 0)

----------------------------------------------------------------------------
(* AddObject and DeleteObject.                                             *)

\* cwmp_parse_addobject_message: the child is looked at only for an object
\* that may be written, and may not be there. There is no add function.
AddObject(header, path) ==
  LET n == IF path = NoPath THEN NoParam ELSE cwmp_get_parameter_path_node(params, path)
  IN  IF n # NoParam /\ params[n].object /\ params[n].rw = 1 /\ params[n].child = NoParam
      THEN Died ELSE FaultAnswer(header, 9005)

\* cwmp_parse_deleteobject_message: no node has a del function.
DeleteObject(header, path) == FaultAnswer(header, 9005)

----------------------------------------------------------------------------
(* Methods that look nothing up.                                           *)

\* cwmp_create_getrpcmethods_response_message: names up to the end of the
\* array.
cwmp_create_getrpcmethods_response_message(header) ==
  Answer("GetRPCMethodsResponse", header, rpc_methods)

\* cwmp_parse_download_message takes each part as a string out of its node;
\* pool_pstrdup answers NULL for one that is missing or empty.
cwmp_parse_download_message(url) == IF url = EmptyText THEN NoUrl ELSE url

\* cwmp_clone_download_arg: the same in memory of its own, NULL as NULL.
cwmp_clone_download_arg(arg) == arg

\* cwmp_create_download_response_message: any status but 0 is written 1, and
\* the caller passes 1, the download being still to come.
cwmp_create_download_response_message(header, status) ==
  Answer("DownloadResponse", header, <<IF status = 0 THEN 0 ELSE 1>>)

\* cwmp_parse_upload_message copies from the address that is the size of a
\* record.
cwmp_parse_upload_message == Died

\* cwmp_create_reboot_response_message, cwmp_create_factoryreset_response_message.
EmptyResponse(kind, header) == Answer(kind, header, <<>>)

\* A Reboot without a CommandKey is answered like one with it: what
\* cwmp_parse_reboot_message returns is not looked at.
OneOffAnswer(method, header) ==
  CASE method = "GetRPCMethods" -> cwmp_create_getrpcmethods_response_message(header)
    [] method = "Download" -> cwmp_create_download_response_message(header, 1)
    [] method \in {"Reboot", "FactoryReset"} -> EmptyResponse(ResponseTo[method], header)
    [] method = "Upload" -> cwmp_parse_upload_message

\* What the method pushes to cwmp->queue.
OneOffTask(method, url) ==
  CASE method = "Download" ->
         << <<"download", cwmp_clone_download_arg(cwmp_parse_download_message(url))>> >>
    [] method \in {"Reboot", "FactoryReset"} -> << <<Tags[method], NoUrl>> >>
    [] OTHER -> <<>>

----------------------------------------------------------------------------
(* Inform.                                                                 *)

\* cwmp_create_parameter_list and cwmp_add_parameter_to_list, which puts the
\* entry into the array as it is after it grew.
NewList == [size |-> RenewSize, entries |-> <<>>]
cwmp_add_parameter_to_list(pl, p) ==
  [size    |-> IF Len(pl.entries) >= pl.size - 1 THEN pl.size + RenewSize ELSE pl.size,
   entries |-> Append(pl.entries, p)]

\* cwmp_session_create_inform_parameters.
InformParameters ==
  LET with[k \in 0..Len(InformNames)] ==
        IF k = 0 THEN NewList
        ELSE cwmp_add_parameter_to_list(with[k - 1], <<InformNames[k], EmptyText>>)
  IN  with[Len(InformNames)]

\* cwmp_create_event_node: the command key goes with one event code only.
EventNode(events) ==
  [i \in DOMAIN events |->
     <<events[i][1], IF events[i][1] = "M Reboot" THEN events[i][2] ELSE EmptyText>>]

\* cwmp_create_parameter_list_node: pl->count entries, from the first.
ParameterListNode(pl) == [i \in 1..Len(pl.entries) |-> pl.entries[i]]

\* cwmp_session_create_inform_message and cwmp_create_inform_message.
InformMessage(events) ==
  [kind |-> "Inform", id |-> "own",
   list |-> EventNode(events) \o ParameterListNode(InformParameters)]

----------------------------------------------------------------------------
(* The agent.                                                              *)

RpcInit ==
  /\ TreeInit
  /\ asked = [method |-> "no method", header |-> NoHeader, path |-> NoPath,
              next |-> FALSE, names |-> <<>>, texts |-> <<>>, way |-> <<>>]
  /\ answer = Nothing /\ tasks = <<>> /\ transfer = NotDue /\ served = <<>>
  /\ paramText = [n \in Params |-> "loaded"]

Args(path, next, names, texts, way) ==
  [path |-> path, next |-> next, names |-> names, texts |-> texts, way |-> way]
NoArgs == Args(NoPath, FALSE, <<>>, <<>>, <<>>)

\* A slip the properties notice: the transfer is reported first, in place of
\* an answer that is there.
CheckedFirst(a) ==
  IF transfer # NotDue
  THEN [kind |-> "TransferComplete", id |-> "own",
        list |-> IF transfer = 0 THEN <<>> ELSE <<transfer>>]
  ELSE a

\* The end of agent_analyse_session: without an answer the transfer that is
\* due makes a TransferComplete, with a header of the agent's own.
Checked(a) ==
  IF a.kind = "nothing" /\ transfer # NotDue
  THEN [kind |-> "TransferComplete", id |-> "own",
        list |-> IF transfer = 0 THEN <<>> ELSE <<transfer>>]
  ELSE a

Told(method, header, args, a) ==
  /\ Len(served) < MaxAsked /\ answer.kind # "died"
  /\ asked' = [method |-> method, header |-> header, path |-> args.path,
               next |-> args.next, names |-> args.names, texts |-> args.texts,
               way |-> args.way]
  /\ answer' = Checked(a)
  /\ transfer' = IF a.kind = "nothing" THEN NotDue ELSE transfer
  /\ served' = Append(served, <<method, IF method = "Download" THEN args.texts[1] ELSE EmptyText>>)
  /\ UNCHANGED treeVars

\* A Download is read, queued and answered, the others likewise.
AnalyseOneOff(method, header, url) ==
  /\ method # "Download" => url = EmptyText
  /\ tasks' = tasks \o OneOffTask(method, url)
  /\ Told(method, header,
          IF method = "Download" THEN Args(NoPath, FALSE, <<>>, <<url>>, <<>>) ELSE NoArgs,
          OneOffAnswer(method, header))
  /\ UNCHANGED paramText

\* An answer of the ACS, an unknown method, or no body.
AnalyseSilent(method, header) ==
  Told(method, header, NoArgs, Nothing) /\ UNCHANGED <<tasks, paramText>>

AnalyseNames(header, path, next_level) ==
  /\ Told("GetParameterNames", header, Args(path, next_level, <<>>, <<>>, <<>>),
          GetParameterNames(header, path, next_level))
  /\ UNCHANGED <<tasks, paramText>>

AnalyseGet(header, names) ==
  /\ \E pick \in PicksToNone(Len(names)) :
       Told("GetParameterValues", header, Args(NoPath, FALSE, names, <<>>, pick),
            GetParameterValues(header, names, pick))
  /\ UNCHANGED <<tasks, paramText>>

AnalyseSet(header, items) ==
  /\ \E pick \in Picks(Len(items)) :
       /\ Told("SetParameterValues", header,
               Args(NoPath, FALSE, [i \in DOMAIN items |-> items[i][1]],
                    [i \in DOMAIN items |-> items[i][2]], pick),
               SetAnswer(header, items, pick))
       /\ paramText' = AfterSets(items, pick)
  /\ UNCHANGED tasks

\* Without its list, Get and Set go on with a pointer that was never set:
\* the agent dies, or finds some list.
AnalyseNoList(method, header) ==
  /\ \E a \in {Died, Answer(IF method = "SetParameterValues" THEN "Fault"
                            ELSE "GetParameterValuesResponse", header, <<>>)} :
       Told(method, header, Args(NoPath, FALSE, NoList, <<>>, <<>>), a)
  /\ UNCHANGED <<tasks, paramText>>

AnalyseObject(header, path) ==
  /\ \/ Told("AddObject", header, Args(path, FALSE, <<>>, <<>>, <<>>), AddObject(header, path))
     \/ Told("DeleteObject", header, Args(path, FALSE, <<>>, <<>>, <<>>), DeleteObject(header, path))
  /\ UNCHANGED <<tasks, paramText>>

\* A session begins.
AgentInforms(events) ==
  Told("Inform", NoHeader, NoArgs, InformMessage(events)) /\ UNCHANGED <<tasks, paramText>>

\* cwmp_agent_run_tasks between two documents: a transfer ends.
TransferEnds(code) ==
  /\ transfer = NotDue /\ answer.kind # "died" /\ Len(served) < MaxAsked
  /\ transfer' = code
  /\ UNCHANGED <<asked, answer, tasks, paramText, served, treeVars>>

\* Instances made or deleted between two documents.
EditTree ==
  /\ TreeNext /\ Len(served) < MaxAsked /\ edits < MaxBetween
  /\ answer.kind # "died" /\ answer' = Nothing
  /\ UNCHANGED <<asked, tasks, paramText, transfer, served>>

RpcNext ==
  \/ \E h \in Headers :
       \/ \E m \in OneOff, url \in FileUrls : AnalyseOneOff(m, h, url)
       \/ \E m \in Silent : AnalyseSilent(m, h)
       \/ \E p \in SearchPaths \cup {NoPath} :
            \/ \E next \in BOOLEAN : AnalyseNames(h, p, next)
            \/ AnalyseObject(h, p)
       \/ \E l \in AskedLists : AnalyseGet(h, l)
       \/ \E l \in SetLists : AnalyseSet(h, l)
       \/ \E m \in {"GetParameterValues", "SetParameterValues"} : AnalyseNoList(m, h)
  \/ \E evs \in EventLists : AgentInforms(evs)
  \/ \E code \in {0, 9001} : TransferEnds(code)
  \/ EditTree

RpcSpec == RpcInit /\ [][RpcNext]_<<treeVars, rpcVars>>

----------------------------------------------------------------------------
(* Properties.                                                             *)

Kinds == {ResponseTo[m] : m \in DOMAIN ResponseTo}
           \cup {"nothing", "died", "Fault", "TransferComplete", "Inform"}

RpcTypeOK ==
  /\ TreeTypeOK
  /\ asked.header \in Headers
  /\ answer.kind \in Kinds /\ answer.id \in Headers \cup {"own"}
  /\ tasks \in Seq({"download", "reboot", "factoryreset"} \X (FileUrls \cup {NoUrl}))
  /\ paramText \in [Params -> ParamValues \cup {"loaded"}]
  /\ transfer \in {NotDue, 0, 9001}

\* What GetParameterNames should list: the names that are there.
NamesThere(path, next_level) ==
  {p \in present :
     IF Last(path) # EmptyText THEN p = path
     ELSE /\ IsPrefix(Parts(path), p) /\ "{i}" \notin ToSet(p)
          /\ next_level => Len(p) = Len(path)}

\* In a tree the search is written for, a path that exists and ends with a
\* dot, or names a parameter, is answered with exactly the names below it, each
\* once.
NamesAreTrue ==
  answer.kind = "GetParameterNamesResponse" /\ Nested /\ ~astray
    /\ Parts(asked.path) \in present =>
        /\ ToSet(answer.list) = NamesThere(asked.path, asked.next)
        /\ IsInjective(answer.list)

\* The tree holds what it should, for who searches it by a path and for who
\* asks for the names in it.
TreeFaithful == TreeAsEdited /\ NamesAreTrue

\* The nodes with that name, as one reads it off the tree.
NamedBy(name) ==
  LET routes == {s \in RoutesBelow(params, RootParam) : NameOf(params, s) = name}
  IN  {n \in Params : \E s \in routes : Last(s) = n}

\* Every name of the list was found at a node that has it. The code does not see
\* to that: cwmp_get_parameter_node compares the names of the nodes with a buffer
\* that was never filled (cwmp.c:1006, :1018), so it may meet another or none.
Found(q) == \A i \in DOMAIN q.names : q.way[i] \in NamedBy(q.names[i])

\* GetParameterValues answers all the names it was asked for, in their order and
\* with the values they have. There are two exceptions. For a name taken for
\* another node the value is that one's. A name no node was met for cuts the list
\* off there, and what is answered is no fault (UnknownNameFaults).
ValuesAsAsked ==
  answer.kind = "GetParameterValuesResponse" /\ asked.names # NoList =>
    /\ IsPrefix([i \in DOMAIN answer.list |-> answer.list[i][1]], asked.names)
    /\ \A i \in DOMAIN asked.names :
         (\A j \in 1..i : asked.way[j] \in NamedBy(asked.names[j])) =>
            /\ i \in DOMAIN answer.list
            /\ \E n \in NamedBy(asked.names[i]) : answer.list[i][2] = paramText[n]
    /\ \A i \in DOMAIN answer.list : asked.way[i] # NoParam

\* A name that no node is found for is answered with a fault: the comments at
\* cwmp.c:1313 and cwmp.c:1412 say that one is created there.
UnknownNameFaults ==
  answer.kind \in {"GetParameterValuesResponse", "SetParameterValuesResponse"}
    /\ asked.names # NoList =>
      \A i \in DOMAIN asked.way : asked.way[i] # NoParam

\* The documents answered so far that promise a task, in order.
Promised(s) ==
  LET from[k \in 0..Len(s)] ==
        IF k = 0 THEN <<>>
        ELSE IF s[k][1] \in DOMAIN Tags THEN Append(from[k - 1], s[k]) ELSE from[k - 1]
  IN  from[Len(s)]

\* The answer is that of the method asked, or a fault, and carries its id; a
\* TransferComplete comes only in place of no answer. What was answered with
\* a promise is in the queue: one task each, in order and with the file that
\* was named, and nothing else. An Inform has all its parameters, however
\* often their list had to grow, and a command key with a reboot the ACS
\* asked for.
Paired ==
  /\ answer.id = "own" <=> answer.kind \in {"TransferComplete", "Inform"}
  /\ answer.kind \notin {"nothing", "died", "TransferComplete", "Inform"} =>
       /\ answer.id = asked.header
       /\ answer.kind \in {ResponseTo[asked.method], "Fault"}
  /\ answer.kind = "TransferComplete" =>
       asked.method \in Silent \cup {"GetParameterNames"}
  /\ answer.kind = "Inform" =>
       /\ Len(InformParameters.entries) < InformParameters.size
       /\ \A i \in DOMAIN InformNames :
            answer.list[Len(answer.list) - Len(InformNames) + i][1] = InformNames[i]
       /\ \A i \in DOMAIN answer.list : answer.list[i][2] # EmptyText => answer.list[i][1] = "M Reboot"
  /\ LET promised == Promised(served)
     IN  /\ Len(tasks) = Len(promised)
         /\ \A i \in DOMAIN tasks :
              /\ tasks[i][1] = Tags[promised[i][1]]
              /\ tasks[i][2] = IF promised[i][2] = EmptyText THEN NoUrl ELSE promised[i][2]

\* What ends the agent: an Upload, a list or path that is missing, a writable
\* object without children, or a list that outgrows its array.
DiesOnlyOf ==
  answer.kind = "died" =>
    \/ asked.method = "Upload"
    \/ asked.names = NoList
    \/ asked.method = "GetParameterNames" /\ asked.path = NoPath
    \/ asked.method = "AddObject" /\ \E n \in DOMAIN params :
          params[n].rw = 1 /\ params[n].child = NoParam
    \/ asked.method = "GetParameterValues" /\ Len(asked.names) >= RenewSize

\* What is answered is of the question, is kept, and ends the agent only as the
\* code's known faults do.
AnswersMatch == ValuesAsAsked /\ Paired /\ DiesOnlyOf

\* What SetParameterValues does to entries k of a list whose names were all
\* found: the last text sent for a name is the value of a node that has it, when
\* it can be set, and nothing else changes.
AsSent(q) ==
  /\ \A n \in Params : paramText'[n] # paramText[n] =>
       \E k \in DOMAIN q.names : n \in NamedBy(q.names[k]) /\ paramText'[n] = q.texts[k]
  /\ \A k \in DOMAIN q.names :
       (\A l \in DOMAIN q.names : l > k => NamedBy(q.names[l]) \cap NamedBy(q.names[k]) = {}) =>
         \E n \in NamedBy(q.names[k]) : HasHandler(n) => paramText'[n] = q.texts[k]

\* SetParameterValues is not all or nothing: it says by a fault that some entry
\* had no set function (and names it unless the list outgrew its array), the
\* others are set even so, and it answers with status 0 only if every node met
\* was set. When all names are found the texts are in the nodes they name. The
\* exceptions are those of ValuesAsAsked: for a name taken for another node it is
\* that one that is set, though never to a text that was not sent, and a name no
\* node was met for is passed over and makes no fault (UnknownNameFaults).
SetsTold ==
  [][ served' # served /\ asked'.method = "SetParameterValues" =>
        /\ asked'.names # NoList /\ Found(asked') => AsSent(asked')
        /\ \A n \in Params : paramText'[n] # paramText[n] =>
             ~params[n].object /\ paramText'[n] \in ToSet(asked'.texts)
        /\ answer'.kind = "Fault" /\ asked'.names # NoList /\ Len(asked'.names) < RenewSize =>
             \E j \in 2..Len(answer'.list) : answer'.list[j][2] = 9008
        /\ answer'.kind = "SetParameterValuesResponse" =>
             /\ answer'.list = <<0>>
             /\ \A i \in DOMAIN asked'.way : asked'.way[i] = NoParam \/ HasHandler(asked'.way[i])
    ]_<<treeVars, rpcVars>>
=============================================================================
