---------------------------- MODULE ParameterValues ----------------------------
(***************************************************************************)
(* Parameter values of cwmpd: node->value, guarded by value_mutex, read    *)
(* and written by every thread that serves a JSON command                  *)
(* (libcwmp/src/httpjson.c, cwmp_com.c) through cwmp_data.c and            *)
(* cwmpd/src/modules/paravalue.c.  A value has up to five copies: the      *)
(* string node->value points to, the system's settings under the           *)
(* parameter's ininame, /tmp/dm.xml, the device itself, and the process    *)
(* that registered the parameter's object, called the peer below.          *)
(* Strings are cut from cwmp->pool, which no lock guards and which never   *)
(* takes a small one back (pool_pfree finds only large ones).  A string    *)
(* is one cell; its text is a value or, when it is a name, Text.  Names    *)
(* are those of the parameter table, every one with its object.  Memory    *)
(* does not run out: Cells are enough for MaxItems names.                  *)
(***************************************************************************)
EXTENDS Naturals

CONSTANTS Threads,      \* threads that serve JSON commands
          NParams,      \* how many parameters there are
          Device,       \* parameters with a getfunc in ParaFunction
          Settable,     \* parameters with a setfunc in ParaFunction
          Keys,         \* keys of the system's settings
          Key,          \* the ininame of each parameter; several may share one
          NoKey,        \* the ininame of a parameter without one
          Values,       \* values, Empty left out
          Empty,        \* the empty string, which pool_pstrdup turns into NULL
          Text,         \* what a cell with a name holds
          Unset,        \* a copy this process has not written
          Nobody,       \* nobody: the holder of a free mutex
          MaxItems,     \* bound: parameters named in commands
          MaxRestarts   \* bound: restarts of the process

Params == 1..NParams
Strings == Values \cup {Empty}
Cells == 1..(NParams + 2 * MaxItems)
NULL == 0

ASSUME SizesAreNaturals == /\ NParams \in Nat \ {0}
                           /\ MaxItems \in Nat
                           /\ MaxRestarts \in Nat
ASSUME TablesNameParams == Device \subseteq Params /\ Settable \subseteq Device
ASSUME KeyIsTotal == Key \in [Params -> Keys \cup {NoKey}]
ASSUME TokensAreNew == /\ NoKey \notin Keys
                       /\ Empty \notin Values
                       /\ Text \notin Strings
                       /\ Unset \notin Strings
                       /\ Nobody \notin Threads
                       /\ Nobody \notin Params

VARIABLES
  pc,         \* where each thread is
  call,       \* the parameter it reads or sets, and the value
  seen,       \* pool->d.last as the thread read it
  cell,       \* nametemp, or the pointer cwmp_data_get_parameter_value returned
  got,        \* history: the text under that pointer when it was returned
  mutex,      \* holder of value_mutex
  last,       \* pool->d.last: the next free cell of cwmp->pool
  mem,        \* text of each cell
  node,       \* node->value: a cell or NULL
  sys,        \* the system's settings
  xml,        \* /tmp/dm.xml, as far as this process wrote it
  device,     \* what the device answers for its parameters
  peer,       \* the value the peer was told last by this process
  raced,      \* history: two threads have been inside pool_palloc at once
  astray,     \* history: sets of the parameter overlapped, or one was not told
  setter,     \* history: the parameter whose set wrote each key last
  items, restarts

thread == <<pc, call, seen, cell, got>>
store == <<mutex, last, mem, node>>
copies == <<sys, xml, device, peer>>
history == <<raced, astray, setter, items, restarts>>
vars == <<thread, store, copies, history>>

(***************************************************************************)
(* The program counters.  nameRead to ask or tell is one of the two _ex    *)
(* functions, lock to the release of the mutex the body of the caller.     *)
(***************************************************************************)
Allocating == {"nameTake", "valTake"}
Untold == {"nameRead", "nameTake", "tell"}
Inside == {"valRead", "valTake", "deliver", "saveConf", "saveXml"}
PCs == Inside \cup Untold \cup {"idle", "ask", "lock", "use"}

TextAt(c) == IF c = NULL THEN Empty ELSE mem[c]

\* What cwmp_model_init_parameter makes of the settings when the model is loaded.
LoadedNode(s) == [p \in Params |->
                    IF Key[p] = NoKey \/ s[Key[p]] = Empty THEN NULL ELSE p]
LoadedMem(s) == [c \in Cells |->
                    IF c \in Params /\ Key[c] # NoKey THEN s[Key[c]] ELSE Text]

\* The locals of a thread between two names.
NoCall == [op |-> "get", p |-> 1, v |-> Empty]

\* A process that has just loaded its model.
Loaded(s) ==
  /\ pc = [t \in Threads |-> "idle"]
  /\ call = [t \in Threads |-> NoCall]
  /\ seen = [t \in Threads |-> NULL]
  /\ cell = [t \in Threads |-> NULL]
  /\ got = [t \in Threads |-> Empty]
  /\ mutex = Nobody
  /\ last = NParams + 1
  /\ mem = LoadedMem(s)
  /\ node = LoadedNode(s)
  /\ xml = [p \in Params |-> Unset]
  /\ peer = [p \in Params |-> Unset]
  /\ raced = FALSE
  /\ astray = [p \in Params |-> FALSE]
  /\ setter = [k \in Keys |-> Nobody]

Init ==
  /\ sys \in [Keys -> Strings]
  /\ device \in [Device -> Values]
  /\ items = 0
  /\ restarts = 0
  /\ Loaded(sys)

-----------------------------------------------------------------------------
\* The next name of a GetParameterValues command: cwmp_data_get_parameter_value
\* starts with cwmp_data_get_parameter_value_ex.
GetBegin(t) ==
  /\ pc[t] = "idle" /\ items < MaxItems
  /\ \E p \in Params : call' = [call EXCEPT ![t] = [op |-> "get", p |-> p, v |-> Empty]]
  /\ pc' = [pc EXCEPT ![t] = "nameRead"]
  /\ items' = items + 1
  /\ UNCHANGED <<seen, cell, got, store, copies, raced, astray, setter, restarts>>

\* The next name and value of a SetParameterValues command.
SetBegin(t) ==
  /\ pc[t] = "idle" /\ items < MaxItems
  /\ \E p \in Params, v \in Strings :
       call' = [call EXCEPT ![t] = [op |-> "set", p |-> p, v |-> v]]
  /\ pc' = [pc EXCEPT ![t] = "lock"]
  /\ items' = items + 1
  /\ UNCHANGED <<seen, cell, got, store, copies, raced, astray, setter, restarts>>

\* pool_palloc reads where the free space begins.
ReadLast(t, next) ==
  /\ seen' = [seen EXCEPT ![t] = last]
  /\ raced' = (raced \/ \E u \in Threads \ {t} : pc[u] \in Allocating)
  /\ pc' = [pc EXCEPT ![t] = next]
  /\ UNCHANGED <<call, cell, got, store, copies, astray, setter, items, restarts>>

\* It moves the beginning behind the string, which pool_pstrdup then copies.
TakeCell(t, text) ==
  /\ seen[t] \in Cells
  /\ last' = seen[t] + 1
  /\ mem' = [mem EXCEPT ![seen[t]] = text]

\* The call returns, and its locals are gone.
Return(t) ==
  /\ pc' = [pc EXCEPT ![t] = "idle"]
  /\ call' = [call EXCEPT ![t] = NoCall]
  /\ seen' = [seen EXCEPT ![t] = NULL]
  /\ cell' = [cell EXCEPT ![t] = NULL]
  /\ got' = [got EXCEPT ![t] = Empty]

\* pool_pstrdup(pool, name) in either _ex function, with no lock held.
NameRead(t) == pc[t] = "nameRead" /\ ReadLast(t, "nameTake")

NameTake(t) ==
  /\ pc[t] = "nameTake"
  /\ TakeCell(t, Text)
  /\ cell' = [cell EXCEPT ![t] = seen[t]]
  /\ pc' = [pc EXCEPT ![t] = IF call[t].op = "get" THEN "ask" ELSE "tell"]
  /\ UNCHANGED <<call, seen, got, mutex, node, copies, history>>

\* The name is cut to its object's, and the object's process is asked for the
\* value.  cwmp_com_GetParameterValues returns -1 whatever the answer is, so
\* the answer is dropped.
Ask(t) ==
  /\ pc[t] = "ask"
  /\ mem' = [mem EXCEPT ![cell[t]] = Text]
  /\ pc' = [pc EXCEPT ![t] = "lock"]
  /\ seen' = [seen EXCEPT ![t] = NULL]
  /\ cell' = [cell EXCEPT ![t] = NULL]
  /\ UNCHANGED <<call, got, mutex, last, node, copies, history>>

\* value_mutex is taken for a get; a parameter of the device is read from it,
\* and stays empty when the device does not answer.
LockGet(t) ==
  /\ pc[t] = "lock" /\ call[t].op = "get" /\ mutex = Nobody
  /\ mutex' = t
  /\ IF call[t].p \in Device
     THEN /\ \E v \in {device[call[t].p], Empty} : call' = [call EXCEPT ![t].v = v]
          /\ pc' = [pc EXCEPT ![t] = "valRead"]
     ELSE /\ pc' = [pc EXCEPT ![t] = "deliver"]
          /\ UNCHANGED call
  /\ UNCHANGED <<seen, cell, got, last, mem, node, copies, history>>

\* It is taken for a set; the device is set first, and may refuse, which
\* nobody looks at.
LockSet(t) ==
  /\ pc[t] = "lock" /\ call[t].op = "set" /\ mutex = Nobody
  /\ mutex' = t
  /\ \/ UNCHANGED device
     \/ /\ call[t].p \in Settable /\ call[t].v # Empty
        /\ device' = [device EXCEPT ![call[t].p] = call[t].v]
  /\ pc' = [pc EXCEPT ![t] = "valRead"]
  /\ UNCHANGED <<call, seen, cell, got, last, mem, node, sys, xml, peer, history>>

AfterStore(t) == IF call[t].op = "get" THEN "deliver" ELSE "saveConf"

\* pool_pstrdup of an empty string is NULL.
StoreNull(t) ==
  /\ pc[t] = "valRead" /\ call[t].v = Empty
  /\ node' = [node EXCEPT ![call[t].p] = NULL]
  /\ pc' = [pc EXCEPT ![t] = AfterStore(t)]
  /\ UNCHANGED <<call, seen, cell, got, mutex, last, mem, copies, history>>

\* Otherwise it is a new cell, and node->value points to it.
ValRead(t) == pc[t] = "valRead" /\ call[t].v # Empty /\ ReadLast(t, "valTake")

\* A slip the properties notice: the new value is written over the old one.
ValTakeInPlace(t) ==
  LET old == node[call[t].p] IN
  /\ pc[t] = "valTake"
  /\ IF old = NULL THEN /\ TakeCell(t, call[t].v)
                        /\ node' = [node EXCEPT ![call[t].p] = seen[t]]
                   ELSE /\ mem' = [mem EXCEPT ![old] = call[t].v]
                        /\ UNCHANGED <<last, node>>
  /\ pc' = [pc EXCEPT ![t] = AfterStore(t)]
  /\ UNCHANGED <<call, seen, cell, got, mutex, copies, history>>

ValTake(t) ==
  /\ pc[t] = "valTake"
  /\ TakeCell(t, call[t].v)
  /\ node' = [node EXCEPT ![call[t].p] = seen[t]]
  /\ pc' = [pc EXCEPT ![t] = AfterStore(t)]
  /\ UNCHANGED <<call, seen, cell, got, mutex, copies, history>>

\* A slip the properties notice: a return that leaves the mutex locked.
DeliverLocked(t) ==
  /\ pc[t] = "deliver"
  /\ cell' = [cell EXCEPT ![t] = node[call[t].p]]
  /\ got' = [got EXCEPT ![t] = TextAt(node[call[t].p])]
  /\ pc' = [pc EXCEPT ![t] = "use"]
  /\ UNCHANGED <<call, seen, store, copies, history>>

\* *value = node->value, and the mutex is released: the pointer is used later.
Deliver(t) ==
  /\ pc[t] = "deliver"
  /\ cell' = [cell EXCEPT ![t] = node[call[t].p]]
  /\ got' = [got EXCEPT ![t] = TextAt(node[call[t].p])]
  /\ mutex' = Nobody
  /\ pc' = [pc EXCEPT ![t] = "use"]
  /\ UNCHANGED <<call, seen, last, mem, node, copies, history>>

\* The text under the pointer goes into the answer.
Use(t) ==
  /\ pc[t] = "use"
  /\ Return(t)
  /\ UNCHANGED <<store, copies, history>>

\* A slip the properties notice: the settings are not written.
SaveConfNothing(t) ==
  /\ pc[t] = "saveConf"
  /\ LET k == Key[call[t].p] IN
       IF k = NoKey THEN UNCHANGED setter
       ELSE setter' = [setter EXCEPT ![k] = call[t].p]
  /\ pc' = [pc EXCEPT ![t] = "saveXml"]
  /\ UNCHANGED <<call, seen, cell, got, store, copies, raced, astray, items, restarts>>

\* cwmp_conf_set, when the node has an ininame.
SaveConf(t) ==
  /\ pc[t] = "saveConf"
  /\ LET k == Key[call[t].p] IN
       IF k = NoKey THEN UNCHANGED <<sys, setter>>
       ELSE /\ sys' = [sys EXCEPT ![k] = call[t].v]
            /\ setter' = [setter EXCEPT ![k] = call[t].p]
  /\ pc' = [pc EXCEPT ![t] = "saveXml"]
  /\ UNCHANGED <<call, seen, cell, got, store, xml, device, peer, raced, astray, items, restarts>>

OtherUntold(t) == \E u \in Threads \ {t} : /\ call[u].op = "set"
                                           /\ call[u].p = call[t].p
                                           /\ pc[u] \in Untold

\* A slip the properties notice: a return that skips the peer.
SaveXmlOnly(t) ==
  /\ pc[t] = "saveXml"
  /\ xml' = [xml EXCEPT ![call[t].p] = call[t].v]
  /\ mutex' = Nobody
  /\ Return(t)
  /\ UNCHANGED <<last, mem, node, sys, device, peer, history>>

\* A slip the properties notice: the arguments of dmxml_set_value swapped.
SaveXmlName(t) ==
  /\ pc[t] = "saveXml"
  /\ xml' = [xml EXCEPT ![call[t].p] = Text]
  /\ mutex' = Nobody
  /\ pc' = [pc EXCEPT ![t] = "nameRead"]
  /\ UNCHANGED <<call, seen, cell, got, last, mem, node, sys, device, peer, history>>

\* dmxml_set_value, and the mutex is released.
SaveXml(t) ==
  /\ pc[t] = "saveXml"
  /\ xml' = [xml EXCEPT ![call[t].p] = call[t].v]
  /\ mutex' = Nobody
  /\ astray' = [astray EXCEPT ![call[t].p] = @ \/ OtherUntold(t)]
  /\ pc' = [pc EXCEPT ![t] = "nameRead"]
  /\ UNCHANGED <<call, seen, cell, got, last, mem, node, sys, device, peer, raced, setter, items, restarts>>

\* The object's process is told the value; that it was not reached is not noticed.
Tell(t) ==
  /\ pc[t] = "tell"
  /\ mem' = [mem EXCEPT ![cell[t]] = Text]
  /\ \/ /\ peer' = [peer EXCEPT ![call[t].p] = call[t].v]
        /\ UNCHANGED astray
     \/ /\ astray' = [astray EXCEPT ![call[t].p] = TRUE]
        /\ UNCHANGED peer
  /\ Return(t)
  /\ UNCHANGED <<mutex, last, node, sys, xml, device, raced, setter, items, restarts>>

\* External: the device gets another address.
DeviceChanges ==
  /\ \E p \in Device, v \in Values : device' = [device EXCEPT ![p] = v]
  /\ UNCHANGED <<thread, store, sys, xml, peer, history>>

\* The process ends, wherever its threads are, and a new one loads the model.
Restart ==
  /\ restarts < MaxRestarts
  /\ restarts' = restarts + 1
  /\ pc' = [t \in Threads |-> "idle"]
  /\ call' = [t \in Threads |-> NoCall]
  /\ seen' = [t \in Threads |-> NULL]
  /\ cell' = [t \in Threads |-> NULL]
  /\ got' = [t \in Threads |-> Empty]
  /\ mutex' = Nobody
  /\ last' = NParams + 1
  /\ mem' = LoadedMem(sys)
  /\ node' = LoadedNode(sys)
  /\ xml' = [p \in Params |-> Unset]
  /\ peer' = [p \in Params |-> Unset]
  /\ raced' = FALSE
  /\ astray' = [p \in Params |-> FALSE]
  /\ setter' = [k \in Keys |-> Nobody]
  /\ UNCHANGED <<sys, device, items>>

Step(t) ==
  \/ NameRead(t) \/ NameTake(t) \/ Ask(t) \/ LockGet(t) \/ LockSet(t)
  \/ StoreNull(t) \/ ValRead(t) \/ ValTake(t) \/ Deliver(t) \/ Use(t)
  \/ SaveConf(t) \/ SaveXml(t) \/ Tell(t)

Next ==
  \/ \E t \in Threads : GetBegin(t) \/ SetBegin(t) \/ Step(t)
  \/ DeviceChanges
  \/ Restart

Spec == Init /\ [][Next]_vars

-----------------------------------------------------------------------------
\* The types.
TypeOK ==
  /\ pc \in [Threads -> PCs]
  /\ call \in [Threads -> [op : {"get", "set"}, p : Params, v : Strings]]
  /\ seen \in [Threads -> Cells \cup {NULL, NParams + 2 * MaxItems + 1}]
  /\ cell \in [Threads -> Cells \cup {NULL}]
  /\ got \in [Threads -> Strings \cup {Text}]
  /\ mutex \in Threads \cup {Nobody}
  /\ last \in Cells \cup {NParams + 2 * MaxItems + 1}
  /\ mem \in [Cells -> Strings \cup {Text}]
  /\ node \in [Params -> Cells \cup {NULL}]
  /\ sys \in [Keys -> Strings]
  /\ xml \in [Params -> Strings \cup {Unset}]
  /\ device \in [Device -> Values]
  /\ peer \in [Params -> Strings \cup {Unset}]
  /\ raced \in BOOLEAN
  /\ astray \in [Params -> BOOLEAN]
  /\ setter \in [Keys -> Params \cup {Nobody}]
  /\ items \in 0..MaxItems
  /\ restarts \in 0..MaxRestarts

\* The pointer cwmp_data_get_parameter_value returned is used after value_mutex
\* is released, and another thread may have set the parameter since: the text
\* under it is still what it was, unless two threads met inside pool_palloc.
ReadIsStored ==
  ~raced => \A t \in Threads : pc[t] = "use" => TextAt(cell[t]) = got[t]

\* While nobody holds value_mutex, what node->value points to is what dm.xml
\* says, and what the settings say if no other parameter with the same ininame
\* was set since: three copies written one after the other by cpe_set_igd_ms_value.
\* Parameters of the device are left out, as reading one rewrites node->value alone.
CopiesAgree ==
  (~raced /\ mutex = Nobody) =>
     \A p \in Params \ Device :
        /\ xml[p] # Unset => xml[p] = TextAt(node[p])
        /\ Key[p] # NoKey /\ setter[Key[p]] = p => sys[Key[p]] = TextAt(node[p])

\* The peer is told after value_mutex is released.  When no set of a parameter
\* is under way, the value its peer was told last is the one the parameter has,
\* unless two sets overlapped or the peer was not reached.
PeerInStep ==
  \A p \in Params \ Device :
     (/\ ~raced /\ ~astray[p]
      /\ \A t \in Threads : call[t].op = "set" /\ call[t].p = p =>
                               pc[t] \in {"idle", "lock"})
     => (xml[p] # Unset => peer[p] = TextAt(node[p]))

\* A value and its copies agree when no set is under way: in memory, in dm.xml,
\* in the settings and at the process that registered the object.
CopiesInStep == CopiesAgree /\ PeerInStep

\* A set that was answered survives a restart, if the parameter has an ininame
\* and no other one with the same ininame was set after it.
RestartKeepsSets ==
  [][(Restart /\ ~raced /\ mutex = Nobody) =>
       \A p \in Params \ Device :
          Key[p] # NoKey /\ setter[Key[p]] = p => TextAt(node[p])' = TextAt(node[p])]_vars

\* Every thread goes on: the mutex is not held across an exchange, and an
\* exchange with the peer ends, with an answer or without.
Fairness == \A t \in Threads : WF_vars(Step(t))
LiveSpec == Spec /\ Fairness

\* Every name of a command is dealt with: nobody leaves cwmp_data_get_parameter_value
\* or cwmp_data_set_parameter_value with value_mutex held.
Served == \A t \in Threads : pc[t] # "idle" ~> pc[t] = "idle"
=============================================================================
