# A specification of netcwmp_xo

netcwmp_xo is a TR-069 (CWMP) client for devices: a daemon, `cwmpd`, that keeps
sessions with an auto configuration server (ACS), on top of a library,
`libcwmp`. These modules model its core, check it with TLC on small instances
and prove part of it with TLAPS for every value of the constants. All paths
below are relative to `src/netcwmp_xo/`; the line numbers are those of the
commit in `src/`.

## 1. Inventory

`main` (`cwmpd/src/cwmpd.c`) zeroes one `cwmp_t`, lets `cwmp_set_var` create the
event list, the task queue and the mutexes, reads the configuration
(`cwmp_conf_init`), loads the object model, and starts its threads
(`cwmpd/src/thread.c:111-128`): one runs the HTTP server, one
`cwmp_agent_session`. The second one runs the netlink listener; the call of the
agent's own loop, `cwmp_agent_start_session`, is commented out at this commit
(`cwmpd/src/agent.c:642`). The threads share the `cwmp_t`: `new_request` and the
flags of `event_global` without any lock, the event list and the task queue
each with a mutex of its own.

| Component | State | Operations | Talks to | What is hard | What makes it correct |
|---|---|---|---|---|---|
| Event list, `libcwmp/src/event.c` | 64 slots, `count`, the flags saved in a file | raise (`cwmp_event_set_value`), copy into an Inform (`cwmp_agent_get_active_event`), clear (`cwmp_event_clear_active`), start-up (`cwmp_event_init`) | raised by HTTP server, netlink thread and agent; read by the agent | `count` read before the lock; copy without the lock; clear after the copy; restart | indices stay in the array, no more is reported than was raised, nothing raised is dropped |
| Task queue, `libcwmp/src/queue.c` | linked nodes, `first`, `last`, `size` | `queue_push`, `queue_add`, `queue_pop` | pushed by the RPC handlers and by callbacks, popped by the agent | emptiness tested before the lock; the head replaced in place | no bad pointer; first in, first out |
| Agent session, `cwmpd/src/agent.c`, `libcwmp/src/session.c` | `new_request`, status, retries, readers and writers, `newdata`, `auth.active` | one step per CWMP_ST_* status, the answer's analysis, the task loop | event list, task queue, HTTP client, both listeners | answers late or missing, retries, state shared with the listeners, an ACS that never stops asking | a request is served and an accepted task is run if the ACS lets sessions end, a document is sent alone |
| HTTP server, `libcwmp/src/httpd.c` | eight connections and their times | accept, serve, idle time-out | sets `new_request`, raises an event, reads and writes parameter values | table full, several ready at once, slow clients | a slot is given back once, a descriptor is watched while its slot is used |
| HTTP client, `libcwmp/src/http.c` | socket, headers, the auth record, chunks | send, read an answer, digest headers, `http_parse_url`, `http_receive_file`, `http_send_file` | session, transfers | partial reads, broken connections, fields that keep an older value | a fault code says what happened to the file; a digest answers the challenge meant |
| Netlink listener, `libcwmp/src/netlink.c` | socket | callback on a link or address change | raises BOOT, then sets `new_request` | order against the agent | no change goes unreported |
| RPC methods, `libcwmp/src/cwmp.c` | none of its own | GetRPCMethods, Get/SetParameterValues, GetParameterNames, AddObject, DeleteObject, Download, Upload, Reboot, FactoryReset | parameter tree, values, task queue | one of several steps failing, arrays that grow, parts of a document missing | the answer fits the question, values are those of the names, what was promised is queued |
| Parameter tree, `libcwmp/src/model.c`, `dm_xml.c` | nodes with parent, child, sibling | load, lookup, copy for AddObject, delete | RPC methods | pointers at the first child, searches that assume one shape of document | searches find what is there |
| Parameter values, `libcwmp/src/cwmp_data.c`, `cwmpd/src/modules/` | `node->value`, settings, `/tmp/dm.xml`, `value_mutex`, the unlocked `cwmp->pool` | get, set, load | agent, HTTP server, command bridge | a value returned after the mutex is released; several copies; settings shared by parameters | what was read is what was stored, the copies agree, a restart keeps what was set |
| Command bridge, `libcwmp/src/cwmp_com.c` | socket | get and set values as JSON | parameter values | peer missing or slow | what was answered is what is stored |
| Ring buffer, `libcwmp/src/ring_buffer.c` | `in`, `out`, bytes | put, get, length | the netlink listener's thread | full and empty at the wrap | first in, first out |
| Hash table, lists, `libcwmp/src/hashtab.c`, `paratab.c`, `list.c` | chains, rings | insert, find, iterate, destroy | parameter values | a full table, a shared bucket | the function they stand for |
| Chunks and pools, `libcwmp/src/buffer.c`, `pool/pool.c` | buffers, blocks, large pieces, handlers | append, copy out, clear, allocate, free | everyone | which block is tried first, what clearing leaves behind | pieces lie apart, bytes come out in order |
| XML library, `libcwmp/src/xmlet/` | trees of nodes, attributes, the parser's stack, text buffers | parse, search, create, insert, replace, remove, copy, free, print | RPC methods, parameter tree, `/tmp/dm.xml` | four pointers a node, moved by hand; malformed texts | lists linked both ways, the tree a text describes, the text of a tree |
| Configuration file, `libcwmp/src/ini.c`, `cfg.c` | the file and its twin | get, set, erase | start-up, parameter values, HTTP server | the process dying between removing the file and renaming the twin | every setting is somewhere |

Left out entirely: logging, TLS, string and time helpers (I/O or pure functions
without state the properties are about), the JSON parser, `getopt` and a second
allocator without a caller. `PROJECT.json` lists every component with its
status, and under `hazards` every place in the code where one of these
difficulties bites, with the properties that cover it or the reason why none
does yet.

## 2. Modules

The daemon's threads and what they share:

| Module | Models | Composes with |
|---|---|---|
| `EventList` | the event list with its three raising threads, the agent's copy and clear, restarts | - |
| `TaskList` | what the task queue promises: a sequence, and when it loses entries | - |
| `TaskQueue` | the queue's nodes and pointers, `queue_pop` in two steps | - |
| `TaskQueueList` | the walk along `next`, and `TaskQueue` implementing `TaskList` | `TaskQueue`, `INSTANCE TaskList` |
| `AgentSession` | the agent's loop and session, both listeners, the ACS | uses the event list as a set and the task queue as a sequence |
| `Httpd` | the HTTP server's loop, its table and select set, the peers and the kernel | its granted request is the `HttpdFlag`/`HttpdRaise` of `AgentSession` |
| `ParameterValues` | the copies of a parameter's value, `value_mutex`, the shared pool, the process that registered the parameter, restarts | its threads are the commands served by `Httpd` and by the command bridge |

The library and the RPC methods, which one thread runs at a time:

| Module | Models | Composes with |
|---|---|---|
| `XmlTree` | what a document is: a set of nodes, each with the sequence of its children | - |
| `XmlDom` | `node.c`, `document.c`, `element.c`: nodes with four pointers, every call that makes, moves, copies, frees, searches or lists them | implements `XmlTree` (`DomRefinesTree`) |
| `XmlParser` | `parser.c`: the state machine over the pieces of a text, its stack of open elements | - |
| `XmlPrint` | `xmlet.c`: the text of a tree | reads the tree of `XmlDom`, its text is judged by the grammar of `XmlParser` |
| `XmlAttributes` | the attribute list of an element, set, removed, replaced; name maps (`namemap.c`) | - |
| `XmlNamespace` | which URI the parser gives a prefix | - |
| `XmlBuffer` | `xmlet/buffer.c`: the growing text buffer | - |
| `MemPool` | `pool.c`: blocks, large pieces, cleanup handlers, freeing and clearing | - |
| `ChunkBuffer` | `buffer.c`: bytes in a list of buffers | - |
| `RingBuffer`, `HashTable`, `LinkedList` | `ring_buffer.c`, `hashtab.c` and `paratab.c`, `list.c` | - |
| `IniFile` | `ini.c` and `cfg.c`: the configuration file, its rewriting, deaths of the process | - |
| `HttpTransfer` | `http_receive_file`, `http_send_file` line by line and block by block, and the fault codes `agent.c` makes of them | - |
| `HttpAuth` | digest fields read out of a header, the two digest dialogues, `http_parse_url` | - |
| `ParameterTree` | `model.c`: loading, instances made and deleted; the search of a path in `cwmp.c` | - |
| `RpcMethods` | every method `agent_analyse_session` hands out, its answer, tasks and values; the Inform | `EXTENDS ParameterTree` |
| `MC*`, `*Proofs` | the instances for TLC; the theorems and their proofs | the module of that name |

How state and actions correspond to the code:

* `EventList`. `slots`, `count`, `mutex`, `flag`, `file` are `el->events`,
  `el->count`, `event_mutex`, `event_global.event_flag` and its copy in the
  event file. `cwmp_event_set_value` is `RaiseCheck` (size check and the read of
  `count` before the lock), `RaiseErase` (lock, search, the slot zeroed),
  `RaiseFill` (kind and ref) and `RaisePublish` (the code, `count++`, unlock). The
  copy, which takes no mutex, is `CopyBegin`, `CopyTest` and `CopyRead` for each
  slot (the ref is tested, memory asked for, and only then the code read, of a
  slot that may have been erased and filled again), and `CopyEnd`, which reports
  BOOT when no entry was met; the clearing, all under the mutex, is `Clear`. `Restart` is `cwmp_event_init` in a new process. `"wild"` is an access
  past the array.
* `TaskQueue`. `Push`, `Add`: `queue_push`, `queue_add`, whose work is under the
  mutex. `PopCheck` is the test before the lock, `PopTake` the rest of
  `queue_pop`. `"crash"` is an access through a NULL or freed pointer.
* `AgentSession`. `status` is `session->status`, with the outer loop (`IDLE`,
  `TAKE`, `TASKS`) and `CWMP_ST_SEND` cut at its blocking calls (`SEND`,
  `HANDSHAKE`, `POST`, `RECV`). Each action is one case of the loop's switch, or
  one branch of `cwmp_agent_analyse_session`. `readers` and `writers` are what the
  two chunks hold; `"dangling"` is a chunk whose pool was cleared. An answer of
  the ACS is a status code and what its body asks for; it may send as many as it
  likes, only those that lengthen a queue or a chunk for good (`LeavesMore`) are
  bounded. `AgentStarted` says
  whether the loop is called: `FALSE` is this commit, `TRUE` the program the
  code is written for (the repository's own `cwmpd.log:31` is the trace of a run
  that had it).
* `Httpd`. `sock`, `readset`, `rdset`, `nready`, `maxfd`, `i`, `new_request` are
  the variables of `httpd_build_server`. `Select`, `SelectTimeout`, `Sweep`,
  `Accept`, `Refuse`, `ScanHit`, `Read`, `Close` are its branches in order;
  `AcceptFails` goes to `"wild"` (an unassigned pointer is used), `ReadReset` to
  `"killed"` (SIGPIPE), and so does `ReadNoUri` (a request line without a URI,
  appended to through NULL). The kernel hands out any descriptor that is free.
  Whether an answer is 200, 400 or 401 matters only in that the 200 of a
  connection request sets `new_request`.

* `ParameterValues`. A command is, name by name, `GetBegin` or `SetBegin` and the
  steps of `cwmp_data_get_parameter_value` and `cwmp_data_set_parameter_value`:
  the name is duplicated (`NameRead`, `NameTake`), the process that registered
  the object is asked or told (`Ask`, `Tell`), `value_mutex` is taken (`LockGet`,
  `LockSet`), `node->value` replaced (`StoreNull`, or `ValRead` and `ValTake`),
  the settings and `/tmp/dm.xml` written (`SaveConf`, `SaveXml`, which also
  unlocks), the pointer returned (`Deliver`) and put into the answer (`Use`).
  `pool_palloc` is cut between its read of `d.last` and its write, since
  `cwmp->pool` has no lock; `raced` remembers that two threads were between the
  two. `mem` is the pool's memory, one cell a string; small strings are never
  given back (`pool_pfree` finds large ones only). The answer to `Ask` is
  dropped because `cwmp_com_GetParameterValues` never returns 0. `Restart` loads
  every value from the settings. `raced`, `astray`, `setter` and `got` are history:
  no step depends on them.

* `XmlDom`. A node is its pointers `parent`, `first`, `prev`, `next`; actions are
  the calls (`XmlNodeInsertBefore`, `XmlNodeReplaceChild`, `XmlNodeRemoveChild`,
  `XmlNodeFree`, copies, creation), each with the assignments in the code's
  order; `domFreed` says which nodes were given back. `DomMoves` says whether a
  node may be moved from one parent straight to another, which no caller in the
  repository does: the four assignments then leave the old siblings linked to
  it. `XmlAttributes` has the same pointers for one element's attributes.
* `XmlParser`. A step reads one piece of the text; a piece is what the code tells
  apart with one comparison, and is chosen when the parser first looks at it, so
  the text is any sequence of pieces. White space, characters and entity
  references are below that level. What is expected of it is written apart from
  it: `XmlAllows` says where XML lets a piece stand, `Lax` lists where this parser
  takes one all the same (a comment or instruction inside a tag, a missing or stray
  `>`, a text without a root).
* `XmlPrint`. A value with markup may hold any of the shapes `Markups` lists: for a
  text between tags a start tag, an end tag, an element, a comment, or an element
  closed and opened again; for the value of an attribute a quote and then another
  attribute, the end of the tag, or a tag. Only text nodes are escaped.
* `MemPool` counts bytes with heads and alignment as `pool.c` does; `current` and
  the large list are the fields of those names. A block is passed over when, at the
  adding of a new one, less than the alignment is left in it (`CurrentAfter`). `XmlBuffer`
  computes the lengths of `xmlet/buffer.c`. `ChunkBuffer` numbers the bytes.
* `HttpTransfer`. `at` is where the thread is in `http_receive_file` or
  `http_send_file`; the file server chooses the next line, what length it announces, and how much
  the next `recv` brings, which may be more than was announced; it may break off at
  any read or write. `got` is what came, `file` what `fwrite` wrote of it, which
  nobody looks at (`http.c:820`). `reported` is the fault code of the
  `TransferComplete`. An upload whose task names no file type, or one too short for the
  name copied over it (`agent.c:852`), may end the process.
* `HttpAuth`. A text is a sequence of atoms, so that a field's value may contain another
  field's name, be longer than the array it is copied to, or be absent: a challenge
  names its document as `uri=`, as `domain=`, or not at all, and may come with a 401 or a 407. A caller's
  header may be sent again. `overrun` says that `http_parse_url`
  has copied the document of an url past `MAX_URI_LEN`; behind that nothing is known.
* `RpcMethods`. A document is what the code looks for in it: a method, the header
  with its id or without, and the arguments, any of which may be missing; names of
  parameters are paths, so that a name and the node that has it can be compared.
  `cwmp_get_parameter_node` compares with a buffer it never fills
  (`cwmp.c:1006`, `:1018`), so a name may be taken for any node on its way or for none
  (`FoundNodes`); `way` remembers which. One
  action is one pass of `agent_analyse_session`: parsing, looking up, setting,
  pushing the task, the answer. `"died"` is a NULL or unset pointer followed.
* `IniFile`. A file is a sequence of lines; `cwmp_conf_set` is cut at opening,
  writing, removing and renaming, and the process may die between any two.

Definitions whose comment begins "A slip the properties notice" are not part of
any specification: each is what a plausible mistake would make of the definition
after it, and TLC finds the property that `PROJECT.json` names for it violated.

### What could come next

The plan of the first version is carried out but for these: values longer than
`pool->max` in `ParameterValues`, which `pool_pfree` really frees; the
refinements of `AgentSession`'s listeners by `Httpd` and of its event set by
`EventList`; command keys as data in `EventList`, so that two transfers sharing a
slot can be told apart; and the theorems that are left, `TreeFaithful` of
`ParameterTree` and `LinesAsMeant` of `HttpAuth`, of which section 4 says more.

## 3. What is checked

| Run | What it shows | Bounds |
|---|---|---|
| `event_list` | `TypeOK`, `CountBound` (count passes the array by at most one per other raising thread), `ReportedAtMostRaised` (no more is reported than was raised, apart from the BOOT of an Inform that met no entry), `TransferSentOnce`, `FreshRaiseKeepsList` (which raises keep the list whole) | 3 slots, the program's 3 threads, each kind raised once or twice, one Inform without entries |
| `task_queue` | `NoBadAccess`, `FifoWithoutCallbacks`, and `ImplementsList`: the pointers do what `TaskList` says | 5 nodes (interchangeable: symmetry), 2 tasks, the 3 priorities |
| `agent_session` | `NoHandshakeOnDangling`, `AnswersInStep` (a document goes alone unless the answer before was empty or did not parse, and a late answer is at most one behind), `ConnectsBounded`, `CompletedOnce`, `EventWakesAgent`, and, for an ACS that lets sessions end, the liveness properties `AcceptedTasksRun`, `RequestServed` | `MaxSessionRetry` 0 (3 in the code; the theorem has any), 2 answers that leave a task or a fault behind and any number of others, one wake-up per listener, digest authentication as by default |
| `httpd` | `TableInStep` (table, select set and `nready` agree), `NoBlindRead` | 3 clients, table of 2, 3 descriptors |
| `httpd_liveness` | `SentIsRead`, `QuietEmpties` | 2 clients, table of 1 |
| `parameter_values` | `ReadIsStored` (a pointer used after the mutex is released), `CopiesInStep` (`node->value`, settings, dm.xml, and what the peer was told), `RestartKeepsSets`, `Served` | 2 threads, 3 parameters of which 2 share an ininame and 1 is the device's, 2 values, 2 names in commands, 1 restart |
| `services` | see below | see below |
| `event_lost`, `transfer_after_restart`, `download_reported`, `cdata_refused`, `unknown_name` | one disagreement each, see section 5 | as above |

`services` runs every module of the second table (`MCServices`). These modules
share no variable, so a behaviour chooses its part at the start and takes that
part's steps alone: the states of the parts add up, and one run asks of each part
what a run of its own would. Its properties are conjunctions by question:

| Property | Part | What it says |
|---|---|---|
| `DomLinks` | XmlDom | sibling lists are linked both ways, have one parent and start at its `firstChild`, no node is in two |
| `DomRefinesTree` | XmlDom | every call does to the tree of pointers what `XmlTree` says the tree of nodes undergoes |
| `DomFaithful` | XmlDom, XmlPrint | searches and lists answer the nodes below in document order; exactly the calls that would break the tree are refused; no pointer leads to a freed node; a deep copy is the tree unless, and only unless, a child stands behind a text or section in it; the printed text is, as XML, the tree again if and only if no value printed unescaped (an attribute's, a section's, an element's own) holds markup |
| `ParserFaithful` | XmlParser, XmlNamespace | an accepted text has every piece where XML allows it, or is one of the named laxities; a refused one has a piece where XML does not, or a section with the digit 0 (`cdata_refused`); the tree is the one written; the stack is the path; a name has the namespace in scope, save for the cases that are written out |
| `AttrsKept` | XmlAttributes | no call loses an attribute other than the one it is about, but for the three ways in `CutOff` |
| `MemoryKept` | MemPool, ChunkBuffer, XmlBuffer | pieces of a pool lie apart and inside their blocks; a chunk gives back what was written; a text fits its buffer |
| `ContainersKeep` | RingBuffer, HashTable, LinkedList, XmlAttributes, IniFile | what was put in comes out: in order, under its key, along the ring, from the map; a setting survives a death of the process at any step of a rewrite, in the file or in its twin |
| `TransferTruth` | HttpTransfer | the file never holds more than came, and may hold less; status 200 of a download means that the announced length came, unless the connection broke or none was found; a download reported without a fault created no file and asked for nothing; an upload reported so had its `100` and its `200`, and of each whole block of the file at most one byte went out, after the `100` |
| `LinesAsMeant` | HttpAuth | a caller is let in exactly when the header was made with the right user and password and fits (whoever sends it, and however often); a document answers the latest challenge, with no document named if the challenge names none, save for values cut and names of fields inside of values; an url gives its parts cut to their fields, except the document, which is not cut and overruns its field exactly when it is longer |
| `TreeFaithful` | ParameterTree, RpcMethods | the tree holds what was loaded and made and not what was deleted, for a search and for GetParameterNames, until the first child of a node is deleted |
| `AnswersMatch` | RpcMethods | values listed are those of the nodes named, in the order asked, up to the first name for which no node was met; a name taken for another node has that node's value; an answer is of its question and carries its id; what was promised is queued with its url, in order; the agent dies of the listed causes only |
| `SetsTold` | RpcMethods | when all names are found, the last text sent for a name is the value of a node that has it and nothing else changes; no value ever becomes a text that was not sent; a fault names an entry without a set function (if the list fits its array), and status 0 means that every node met was set. A name for which no node was met is passed over without a fault (`unknown_name`) |

Bounds of `services`: 6 nodes (a document, three elements, a text, a section);
texts of 5 pieces over two names; 6 attributes, two of one name, one with a
namespace and one that only looks so, and two of one prefix; 3 elements with 2 declarations or attributes and 2 URIs; a pool with
blocks of 16 bytes, 4 allocations of 3 sizes (small, block-filling, large) and 2
clears; 9 bytes in buffers of 3; a ring of 4; 5 keys in 2 buckets with a limit of
4; lists of 3 entries and 2 heads; 2 files and none, 3 settings, 3 writes and 1 death;
bodies, and announced lengths, of 0 to 4 units in blocks of 2 and up to 5 header lines;
header values of up to 5 atoms for arrays of 2 to 4; urls whose document is up to
8 characters written out, for a field of 6; three documents of parameters (nested, flat
as the shipped `data.xml`, one with a nameless element; the methods are asked of the first two)
and 4 edits; 2 documents answered with one edit between, lists of up to 3 names (there, missing, and repeated) in
arrays of 3; 9 shapes of markup.

Why these bounds are enough. The event list misbehaves when it is one short of
full while several threads are between check and lock: three slots and three
threads reach `count` 4 and 5. The queue's pointers differ for no node, one node
and several, with a node freed and one replaced: five nodes hold a replaced head
and two appended entries after a pop. The session's length is the ACS's choice
and has no bound; two answers that leave something behind make a task accepted and
another one after it, or a completed transfer and a fault. Two commands are the
least that overlap in `ParameterValues`, and every property relates one set to
one other command or to a restart; three pass as well, by hand, in a longer run. In the HTTP server three clients on two slots fill the table while
one is refused, and three descriptors are reused at once. The bounds `MaxRaise`,
`MaxAssumed`, `MaxNodes`, `MaxReplies`, `MaxWakes`, and the `Max...` of the parts of `services`
(those named after a constant of the code, as `MAX_HEADERS`, excepted) are in the guards of the actions they
bound and cut behaviours short, nothing else; `Httpd` has none, its clients come
again without limit. In `services` each array is small enough to be passed by the
inputs: a value is one atom longer than the field, a list one entry longer than
its array, a body one unit past a block, a block too small for the third
allocation. Five pieces hold an element within another with text, both ways of
closing, and one error at any depth; six nodes hold three siblings below one
parent, the least for which the order of the four assignments matters. Six attributes are
the least that reach the third way of losing some: an attribute without a namespace
that has the name of a namespaced one takes its place, the node behind is told of a
node that is not in the list, and its removal later cuts off the rest.

Fairness. `AgentSession` assumes it of the agent's own steps and of nothing
else: every wait of that thread ends by itself (`http_timeout` is set on the
socket, `session.c`; the retry sleeps are bounded), so if a step is possible it
is taken. Neither the ACS nor the listeners need ever act. That a session ends is
another matter: the agent goes on as long as the ACS has something to ask
(`agent.c:334-345`), so `AcceptedTasksRun` and `RequestServed` have a condition on the
ACS, `AcsLetsGo`: if it answers for ever, it says for ever again that it has nothing
more, or refuses. TLC refutes both without it. An ACS that falls silent owes nothing:
then the reads time out. `ParameterValues` assumes
that each thread goes on while it can; weak fairness is enough, as the threads
it competes with for `value_mutex` have only `MaxItems` commands between them,
and an exchange with the other process is taken to end (its time-out is in
`unix_com.c`, outside the repository). `Httpd` assumes that
its thread runs and that time passes. Its thread does wait for its peers,
without a time-out, so `SentIsRead` states what that costs as a condition
(`Finishing`: no request stays half sent for ever) instead of assuming it; the
second condition, that the table is not found full for ever, is there because a
turn that refuses a connection goes round without serving (`httpd.c:257`), and
TLC refutes the property without it.

The modules of `services` are called and return; nothing in them waits, so they
state no fairness.

Deadlock is not checked in these runs: where the counters have reached their
bounds and nobody wakes the daemon, it waits, as it should, a text that is read
or a transfer that is reported is done, and the models of an undefined state
(`"wild"`, `"crash"`, `"CRASH"`, `"killed"`, `"died"`) stop.

## 4. What is proved

TLAPS checks the theorems for every value of the constants, under the named
assumptions of each module (`SizeAssumption`, `ThreadAssumption`,
`EventAssumption`, `QueueAssumption`, `AgentAssumption`, `HttpdAssumption`, and
`SizesAreNaturals`, `TablesNameParams`, `KeyIsTotal`, `TokensAreNew`, and those of
the parts of `MCServices`: types, finiteness of the sets of threads and clients,
distinctness of sentinels, such as the name that stands for none in `XmlAssumption`
and the prefix and URI that do in `NsAssumption`). Three say more than a type. `HashAssumption`: a hash
value is below the table's size. `AttrAssumption`: attributes of one name have one
local name. `IniAssumption`: the file the daemon starts with has a setting at most
once in its section (blanks before "=" apart), as erasing the first of two lines
uncovers the other; that every write keeps it so is part of the proof.
`TreeAssumption` says that a node of a loaded document stands below one before it,
`RpcAssumption` that no ACS uses the id that the agent's own messages have in the
model, and that the array for parameters starts with room for one.
Each proof follows one pattern: a strengthening `IInv` with `Init => IInv`
and one lemma per group of actions for `IInv /\ [Next]_vars => IInv'`.

* `EventListProofs`: `EventListTypes` and `EventListCountBound`. The bound alone
  is not inductive: a thread that has passed the size check will still add one.
  `FlightInv` counts them, `count + |InFlight| <= Size + |Setters| - 1`; the
  check lets a thread in only below `Size`, when at most all the others are in
  flight. `EventReportedAtMostRaised` and `EventTransferSentOnce` count differently:
  a stale count can give one kind two slots, and the clearing leaves the slots
  beyond `count` live, so neither is a matter of one slot per kind. `Promised` adds
  the live slots of a kind, from the agent's place in the list on, to the raises
  that will still fill one, and `CountsInv` says that what was reported (or told,
  with the flag) and what is promised was raised, or is the BOOT of an Inform without
  entries. What the agent reads was another thing when it tested it: `EventListSlots`
  says that the code in a slot is that of its kind or none, and, between the test and
  the reading, none if the slot is not live. `EventFreshRaiseKeepsList` needs
  `WriterInv`, what the holder of the mutex has written so far.
* `TaskQueueProofs`: `QueueTypes`, `QueuePointersSafe`. `TailInv` relates `first`
  and `last` (both NULL or neither, and `last` allocated and not freed), `PopInv`
  says that between the unlocked test and the lock nobody but the one consumer
  empties the queue.
  `QueueIsFifo` (`[]FifoWithoutCallbacks`) and `QueueImplementsList`
  (`Spec => ImplementsList`) add what is along the pointers: `ChainInv` says that
  there is a sequence of nodes, none twice and all allocated, that begins at `first`,
  follows `next` and ends at `last`, and `Shows` that it carries what
  `TaskList` holds. The walk of the refinement (`Chain`) is a recursive function;
  that it computes this sequence (`ChainIs`) is shown by its least
  counterexample (`LeastNatural`). Each of `LinkLast`, `ReplaceFirst` and `PopTake`
  then does to the sequence what the action of `TaskList` does to the list, and the other
  steps leave it alone. `FifoInv` says that, as long as no callback has put a task into
  the queue, what was taken and what the list holds are together what was given.
* `AgentSessionProofs`: `AgentTypes`, `AgentHandshakeSafe`, `AgentEndExits`,
  `AgentConnectsBounded`, `AgentCompletedOnce`. `DanglingInv` ties readers left
  dangling to `auth.active`, which a 200 answer has set and only the Inform
  clears; `TransferInv` counts messages sent plus those the flag and the list
  still owe against transfers done. `AgentAnswersInStep` and `AgentWoken` rest on a
  second strengthening, inductive on top of the first: `LateInv` bounds, for each
  status, the requests and answers under way (only the handshake before the first
  request leaves one behind), `DocInv` says that until that handshake is over
  there is at most the Inform to send, and `WakeInv` follows an event raised
  after the clearing from the listener to the request it makes.
* `HttpdProofs`: `HttpdTypes`, `HttpdTableIsSelected`, `HttpdReadyCounted`,
  their conjunction `HttpdTableInStep`, `HttpdNoBlindRead`. `QueueInv` keeps a client out of the table while it is in
  the listen queue, `CountInv` follows `nready` through the turn of the loop, and
  `SentInv` says that what select reported stays readable until it is served,
  the new connection's descriptor being none of those reported.
* `ParameterValuesProofs`: `ParameterTypes`, `ParameterReads`. That a text stays
  where it was rests on who points where: `BelowLast` keeps every pointer below
  the pool's free space, `OneAllocates` says that a thread inside `pool_palloc`
  still has the right `d.last`, so it writes where nobody points to, and
  `NamesApart` that a name about to be cut at a dot is nobody else's string. All
  three need that no two threads met inside `pool_palloc`, and `ReadIsStored`
  says so. `ParameterCopies` and `ParameterSetsSurvive` (`CopiesInStep`,
  `RestartKeepsSets`) follow each set through its copies, from the mutex to the file.
* `ContainerProofs`: what the theorems about memory, containers and attributes rest on,
  for blocks, buffers, rings and requests of every size, any keys, lists and files. `PoolInv`
  keeps every piece of a pool below the mark its block has reached, and every
  large one in the list of large ones once, which is what clearing relies on. `ChunkInv` says that the buffers
  of a chunk are full but for the last one and hold the bytes in the order they
  were written. `XmlBufferInv` is the text's length against its allocation. `RingInv`
  says where the bytes between the two marks lie, around the end of the array.
  `ListInv`: there is for every list head a sequence of
  entries, disjoint from all others, along which `next` and `prev` go around
  (`Rings`); adding, deleting, replacing and splicing are changes of such a cycle
  (`Cycled`). `HashInv`: each chain of the table has ascending keys, all of its
  bucket, with the datum of the first insert, and the chains together hold every
  key inserted, so the walk that stops at the first key not below the one it
  looks for misses none. `IniInv`: file and twin each have a setting once or are
  not there, the twin is the file with one setting changed when the copy is done
  (`JobIs`), and the one a reader would take holds the value last written of every
  setting (`Known`), wherever a crash falls.
  The attributes of an element are linked with far less care: nodes are cut off,
  and a new one is told its predecessor only by some of the calls, so this is no
  doubly linked list. That a walk over it ends at all is
  shown by a count of the nodes that rises along `nextSibling` and falls along
  `prevSibling` (`Ranked`). `AttrShape` adds that the walk from the first attribute
  meets no name twice and that a node which was told of a listed one was told of
  the one right before it (`ToldOf`), without which a removal would short-cut the
  list. An append, a replacement and a removal each take the listed sequence to a
  known other one (`AttrSteps`), from which `AttrsKept` is read off.
  The lemmas before them are used by every part: `UpTo`, `Least` and `Recursion`, and
  those about sequences (appending, concatenating, inserting, removing).
* `XmlProofs`: the parser and the DOM. `ServicesParse` (stated in `ServicesProofs`),
  `ServicesSpec => []ParserFaithful`, is about texts of any length, elements nested to
  any depth, any names, prefixes and URIs.
  `ParserInv` compares what the parser has with the part of the text it has
  consumed (`Kept`): the open elements are a path of nodes, each written inside the
  next one and none of them closed since (`Branch`, `OpenNode`); every node stands
  where its piece stands, below the node of the element around that place, with
  the attributes written in its tag, and no piece is without its node (`TreeOK`);
  and the state the parser is in says whether the text stands in the prolog, in
  a tag, in content or behind the root. The depth and the enclosing element of a place, which the
  grammar of the model is written with, are functions of the text alone; the lemmas
  `DepthIs`, `EnclosingIs` and `SameEnclosing` say how one more piece changes them
  and that reading on does not change them for the pieces before. So the
  parser's own checks, made with a stack, a current node and three states, are those of the
  grammar: `XmlAllows` or `Lax` of every
  consumed piece, and what stops the parser is neither, or the digit 0 in a section.
  `NsInv` is about the namespaces: an entry of the stack lists what its
  element wrote, the last one for each prefix; the entries are the
  elements around, from inside out; the URI of an element is the one in scope, if
  no element on its path is one of the known cases; and an element that waits
  for its URI has not declared it. The known cases enter as `PathClear`, which
  is why they are all there are. An element that declares its own prefix again
  disturbs only itself, not what is inside it, and `NamespaceAsMeant` says so.
  `DomAlwaysLinked`, for any finite set of nodes of any kinds: types come first
  (`DomTypes`), then each call is taken as a change of at most five nodes.
  `DomLinks` is inductive with the types and with the guard that no node moves
  from one parent straight to another, which is the assumption `DomMoves = FALSE`
  of every theorem about the DOM; without it TLC finds the counterexample (two
  siblings whose `next` is the same node), so the assumption is needed.
  `ServicesShowTree`, `ServicesSpec => DomRefinesTree` (and `DomIsTree`, of `DomSpec`),
  is the refinement of `XmlTree`. `ForestInv` adds to the links that every node has a
  list of children, a sequence along `next` from `firstChild` on, in which
  each node with that parent stands once (`IsList`), and that there are heights
  which fall from parent to child (`HasHeights`), so no node is below itself. The
  recursive functions of the model are then shown to compute what they are for:
  `DomKids` the list (`ForestIs`), the nodes `TreeBelow` a node are those the
  free walks over (`BelowIs`), and the walk of `XmlNodeIsAncestor` meets exactly
  the nodes above (`AncestorIs`). Linking before a node or last inserts into
  the list, unlinking takes out of it, a free drops the tree; each call is put
  together from these and is one step of `XmlTree` (`AppendStep`, `InsertStep`,
  `ReplaceStep`, `TakeStep`, `DropStep`, `CreateStep`). From the same
  invariant `DomKeepsForest` has `DomNoDangling` and `RefusalsExact`: an insertion is
  refused exactly when it would close a circle.
* `ServicesProofs`: `TransferIsTrue`, for any lengths of bodies, any block size
  and any server. `TransferTruth` speaks of where a call ends; `TransferInv` says
  at each of its stops what has come, what was written of it, what was announced and
  answered, so that the one place where an answer is complete (`AnswerDone`) is seen
  with what came before it.
  Then the parameter tree and the methods. That a walk over the tree ends is not
  clear, as `model.c` copies and cuts pieces of it by hand: `TreeInv` says that there
  is a rank of the nodes which falls along `child` and along `next_sibling`
  (`Walkable`). The document loaded has one, the place of a node in it (`LoadedIs`);
  a copy of an instance ranks below the node it hangs on, in the order of what it is a
  copy of (`CopyWalks`); and a deletion only shortens walks (`UnlinkedIs`,
  `DeletedIs`), the shortened list of the first loop of
  `cwmp_model_delete_parameter` included. So the search of a path ends, at a node of
  the tree or at none (`SearchEnds`). `RpcInv` says of the last document that the
  answer is one its method can have (`Answers`, with one lemma for each method:
  `GetAnswers`, `SetAnswers`, `ObjectAnswers` and so on) and that the queue holds the
  tasks of what was promised so far (`Backed`). `InformListed` follows the array of an
  Inform's parameters, which grows while it is filled: there is always one place
  left. `ServicesTellSets` (`SetsTold`) rests on `CodesAre`, what the loop over a list
  to be set has gathered after any number of entries. That the values answered are
  those of the names asked for (`ValuesTold`) is told from where the list is cut
  (`CutEnds`) and from the nodes the walk met; it holds until the next step changes
  the tree or the texts, which `OtherKind` and `NothingToKeep` show takes the answer
  along.
  At the end all parts are taken together: a step of `MCServices` is a step of one
  part and leaves the others alone (`PartsStep`), so the invariants of the parts
  are kept side by side (`ServicesInv`). From it follow `ServicesKeepMemory`,
  `ServicesKeepContainers` (`[]MemoryKept`, `[]ContainersKeep`) and
  `ServicesKeepAttributes` (`AttrsKept`). `ServicesTellSets`, `ServicesSpec => SetsTold`,
  is an action property of the agent's answer to SetParameterValues, for every tree,
  every list and arrays of every size; its exceptions (a name taken for another node,
  a name without one) are those of the property. `ServicesAnswer`, `ServicesSpec => []AnswersMatch`,
  is about every answer: it is of the method asked or a fault, carries its id,
  lists the values of the nodes named in the order they were asked for, up to the first
  name without a node, promises only what is queued, and ends the agent for the listed
  causes only. Its strengthening `RepliesInv` adds to `RpcInv` the values and that while
  the tree alone is edited there is no answer.

`HttpdTableIsSelected` and `HttpdReadyCounted` are the two parts of `TableInStep`,
which `HttpdTableInStep` states and `httpd` checks. `AgentEndExits` states an
invariant no run lists, as it is a part of the strengthening.

Only model-checked: liveness (fairness and `ENABLED` are out of the prover's
reach), and of the properties of `services` `LinesAsMeant`, `TreeFaithful`,
`ServicesTypeOK` and two parts of `DomFaithful`, `TraversalsFaithful`
and `PrintParsesBack`. The library's induction theorems cannot be used, as no
installed prover instantiates their operators. Where a walk is a recursive
function over numbers or nodes with heights, a least counterexample takes
their place: `LeastNatural`, `UpTo` and `Recursion` are proved from
well-foundedness of the naturals, with a set for the predicate, and give the
function's existence and what it computes. That is how the chains, copies,
depths, scopes and trees above are proved. It needs a set the function's values are in.
The copies and texts in `TraversalsFaithful` and `PrintParsesBack` are trees of
records inside records, which no set of the model holds, and those two stay with TLC.
`TreeFaithful` is about the names gathered along a tree of parameters, so beyond
the end of the walks (`TreeInv`) it needs which nodes they meet after any number of
copies and deletions; `LinesAsMeant` is about searches of one text in another.

## 5. Where code and documentation disagree

* `event_lost`: events raised between the copy into an Inform and the clearing
  are dropped (`agent.c:264-267`), though the policy they have means "never to
  be discarded" (`event.h:69`).
* `transfer_after_restart`: the event file is read before its name is configured
  (`cwmpd.c:87` before `:181`), so a restart raises BOOTSTRAP and never the
  events the saved flags call for (`event.c:152`).
* `download_reported`: `http_receive_file` answers the status 200 and its caller
  takes everything but 0 for a fault (`agent.c:835`), so a download that brought
  the whole file is reported to the ACS with FaultCode 9001, though the README
  lists Download among what is supported (`README.md:41`).
* `cdata_refused`: the parser looks for the digit `'0'` where it means the end of the
  string (`parser.c:2545`, `:2557`), so a text with a section like `<![CDATA[10]]>` is
  refused, though the comment says that sections are processed "as defined by XML
  spec" (`parser.c:2520`).
* `unknown_name`: where no node is found for a name the comments say "Create Fault code"
  (`cwmp.c:1313`, `:1412`), but no fault is answered. GetParameterValues answers the
  values before that name, since its caller drops the fault; SetParameterValues passes
  the name over, sets the others and answers with status 0.

Noticed on the way and written into the models, without a run of its own:

* The loop's only call is commented out (`agent.c:642`), though the README lists
  Inform among what is supported (`README.md:37`). `AgentStarted = FALSE` is this.
* An empty answer jumps over the initialisation of the pointer the event check reads
  (`agent.c:430`, `:522`, `:532`): `"CRASH"`.
* `cwmp_get_parameter_node` compares with a buffer it never fills (`cwmp.c:1006`,
  `:1018`): any node may be met, or none (`FoundNodes`).
* The deep copy of a node, which by its comment "clones subtree under nodeptr"
  (`node.c:1635`), stops after a text or CDATA child: `CopyStops`.
* The parser takes a comment or instruction inside a tag, an end tag or a tag with the `>`
  before it missing, a `>` in front of the root, and a text without a root: `Lax`.
* Attribute values, sections and the values of elements are printed unescaped
  (`xmlet.c:215`): `HasMarkup`.
* `http_parse_url` copies the document without a bound (`http.c:600-615`): `overrun`.
* `http_check_digest_auth` compares the nonce with none that was handed out
  (`http.c:1283-1361`), so a header that was let in once is let in again: `SendAgain`.
* A challenge without `uri=` or `domain=` is answered with an empty uri
  (`http.c:1427-1436`): `ChallengeAnswered`.
* What `fwrite` wrote is not looked at (`http.c:820`); a download whose file could not
  be created is the only one reported as a success (`http.c:1761`, `agent.c:833`); of
  an upload one byte per whole block is sent: `TransferTruth`.

## 6. What is not modelled

* Of the XML library: character tables, entity references, files,
  `cwmp_xml_print_doc_to_chunk` (no caller). Of HTTP: `http_parse_request` (no
  caller), cookies, TLS. Of the pools: `mpool.c`, `memory.c` and the
  aligned allocations, which have no caller. Of `ini.c`: names without a section
  (`cwmp_conf_split` leaves the key unset), lines longer than its buffer, and the
  listing of sections and keys (no caller). All shipped build files define
  `SYS_DATA_MODE`, which replaces the file by a store outside of the repository;
  `ParameterValues` takes that store as one value per key, `IniFile` is the other
  build.
* Of the RPC methods: types of values, the answers to AddObject, DeleteObject and
  Upload that the code never reaches (no object has an add or delete function,
  and an Upload dies in its parsing), refresh of objects (no object has a refresh
  function).
* `unix_com.c`, which the command bridge calls, is not in the repository; decoding
  of netlink messages, logging, option parsing and forking are I/O; `cJSON` and
  `getopt` are vendored.
* Memory exhaustion: allocations succeed, except where the code's own limits
  (slots of a table, sizes of arrays) refuse.
