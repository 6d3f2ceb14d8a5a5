------------------------------ MODULE EventList ------------------------------
(****************************************************************************)
(* The inform event list of libcwmp/src/event.c.  Three threads raise       *)
(* events with cwmp_event_set_value: the HTTP server (connection request),  *)
(* the netlink listener (boot) and the agent itself (transfer complete and  *)
(* reboot, from its task loop).  The agent copies the active events into an *)
(* Inform without taking the mutex and then clears them under it.           *)
(*                                                                          *)
(* cwmp_event_set_value is split where another thread can come between: the *)
(* unlocked read of count, then, under the mutex, the erasure of the slot,  *)
(* the writing of its kind and ref, and that of its code with the increment *)
(* of count.  Copying tests the ref of a slot and reads its code in a later *)
(* step.  The stores of one thread are seen in program order.               *)
(****************************************************************************)
EXTENDS Naturals, Sequences, FiniteSets

CONSTANTS
  Size,        \* number of preallocated slots (INFORM_MAX)
  Listeners,   \* threads other than the agent that raise events
  Agent,       \* the agent thread
  Free,        \* the value of an unheld mutex
  Events,      \* event kinds the program raises
  Bootstrap, Boot, Transfer, MReboot, MDownload, \* the kinds event.c names
  NoCode,      \* a NULL code: the entry goes out without an event code
  Raises,      \* which kinds each thread raises
  MaxRaise,    \* bound: how often each kind is raised in one behaviour
  MaxAssumed   \* bound: Informs that report BOOT for want of an entry

Setters == Listeners \cup {Agent}
Slots == 1..Size

ASSUME SizeAssumption == Size \in Nat \ {0}
ASSUME ThreadAssumption ==
  /\ IsFiniteSet(Listeners)
  /\ Agent \notin Listeners
  /\ Free \notin Setters
ASSUME EventAssumption ==
  /\ {Bootstrap, Boot, Transfer, MReboot, MDownload} \subseteq Events
  /\ NoCode \notin Events
  /\ Raises \in [Setters -> SUBSET Events]
  /\ MaxRaise \in [Events -> Nat] /\ MaxAssumed \in Nat

\* The bits of event_flag; EVENT_REBOOT_NONE_FLAG is the empty set.
Flags == {"bootstrap", "acs", "transfer"}

VARIABLES
  slots,       \* el->events: the kind, the ref and the code of each slot
  count,       \* el->count
  mutex,       \* event_mutex
  flag,        \* event_global.event_flag
  file,        \* event_flag as last saved to the event file
  pc,          \* where each thread stands
  seen,        \* per thread: the count it read before it locked
  target,      \* per thread: the slot it writes (k in the code)
  raising,     \* per thread: the kind it raises
  elsize, idx, \* the agent's copying loop: bound read once, next slot
  anyCopied,   \* whether el->count of the Inform's own list is above 0
  raised,      \* history: calls of cwmp_event_set_value per kind
  reported,    \* history: entries copied into Informs per kind
  sent,        \* history: TransferComplete messages built
  owed,        \* history: kinds raised and not copied into an Inform since
  assumed      \* history: Informs that report BOOT for want of an entry

callVars == <<seen, target, raising>>
copyVars == <<elsize, idx, anyCopied>>
globalVars == <<flag, file>>
historyVars == <<raised, reported, sent, owed, assumed>>
vars == <<slots, count, mutex, pc, callVars, copyVars, globalVars, historyVars>>

Live(i) == slots[i].ref > 0

\* Kinds an Inform built now would carry.
Visible == {slots[i].event : i \in {j \in Slots : j <= count /\ Live(j)}}

Empty == [event |-> Bootstrap, ref |-> 0, code |-> NoCode]  \* zeroed memory: kind 0 is BOOTSTRAP
Active(e) == [event |-> e, ref |-> 1, code |-> e]

Bump(f, S) == [x \in DOMAIN f |-> IF x \in S THEN f[x] + 1 ELSE f[x]]

----------------------------------------------------------------------------
(* A fresh process.  cwmp_set_var zeroes cwmp_t and calls cwmp_event_init    *)
(* before cwmp_conf_init sets event_filename, so the event file is not found *)
(* and cwmp_event_global_init leaves the flags zero, whatever was saved.     *)

LoadedFlag == {}

FreshFlag(loaded) ==
  IF loaded = {} \/ "bootstrap" \in loaded THEN {"bootstrap"} ELSE loaded

FreshRaises(loaded) ==
  (IF "bootstrap" \in FreshFlag(loaded) THEN <<Bootstrap>>
   ELSE IF "acs" \in loaded THEN <<Boot, MReboot>> ELSE <<Boot>>)
  \o (IF "transfer" \in FreshFlag(loaded) THEN <<MDownload, Transfer>> ELSE <<>>)

\* A raise that finds the list full is refused.
FreshEvents(loaded) ==
  LET evs == FreshRaises(loaded)
  IN  SubSeq(evs, 1, IF Len(evs) <= Size THEN Len(evs) ELSE Size)

FreshSlots(evs) ==
  [i \in Slots |-> IF i <= Len(evs) THEN Active(evs[i]) ELSE Empty]

FreshKinds(evs) == {evs[i] : i \in 1..Len(evs)}

FreshThreads ==
  /\ mutex' = Free
  /\ pc' = [t \in Setters |-> "idle"]
  /\ seen' = [t \in Setters |-> 0]
  /\ target' = [t \in Setters |-> 1]
  /\ raising' = [t \in Setters |-> Bootstrap]
  /\ elsize' = 0
  /\ idx' = 1
  /\ anyCopied' = FALSE

Init ==
  /\ slots = FreshSlots(<<Bootstrap>>)
  /\ count = 1
  /\ mutex = Free
  /\ flag = {"bootstrap"}
  /\ file = {}
  /\ pc = [t \in Setters |-> "idle"]
  /\ seen = [t \in Setters |-> 0]
  /\ target = [t \in Setters |-> 1]
  /\ raising = [t \in Setters |-> Bootstrap]
  /\ elsize = 0
  /\ idx = 1
  /\ anyCopied = FALSE
  /\ raised = [e \in Events |-> IF e = Bootstrap THEN 1 ELSE 0]
  /\ reported = [e \in Events |-> 0]
  /\ sent = 0
  /\ owed = {Bootstrap}
  /\ assumed = 0

\* The process dies at any point, or the device reboots, and starts again.
Restart ==
  LET evs == FreshEvents(LoadedFlag)
      kinds == FreshKinds(evs)
  IN  /\ \A e \in kinds : raised[e] < MaxRaise[e]
      /\ slots' = FreshSlots(evs)
      /\ count' = Len(evs)
      /\ flag' = FreshFlag(LoadedFlag)
      /\ FreshThreads
      /\ raised' = Bump(raised, kinds)
      /\ owed' = kinds
      /\ UNCHANGED <<file, reported, sent, assumed>>

----------------------------------------------------------------------------
(* cwmp_event_set_value *)

\* The agent reboots by raising MREBOOT and clearing the list (run_tasks).
AfterRaise(t, e) == IF t = Agent /\ e = MReboot THEN "wiping" ELSE "idle"

\* A slip the properties notice: lets one more in than there is room for.
RoomForOneTooMany == count <= Size

\* count is read, and compared with the size, before the mutex is taken.
Room == count < Size

RaiseCheck(t, e) ==
  /\ pc[t] = "idle"
  /\ e \in Raises[t]
  /\ raised[e] < MaxRaise[e]
  /\ raised' = Bump(raised, {e})
  /\ owed' = owed \cup {e}
  /\ IF Room
     THEN /\ raising' = [raising EXCEPT ![t] = e]
          /\ seen' = [seen EXCEPT ![t] = count]
          /\ pc' = [pc EXCEPT ![t] = "checked"]
     ELSE /\ pc' = [pc EXCEPT ![t] = AfterRaise(t, e)]
          /\ UNCHANGED <<raising, seen>>
  /\ UNCHANGED <<slots, count, mutex, target, copyVars, globalVars, reported, sent, assumed>>

\* k of the code: the first slot below the stale count that holds the kind,
\* else the stale count itself.
Holds(t, i) == slots[i].event = raising[t]

\* A slip the properties notice: takes the last entry's slot for a new kind.
LastOrFirst(t, i) ==
  \/ i \in 1..seen[t] /\ Holds(t, i) /\ \A j \in 1..(i - 1) : ~Holds(t, j)
  \/ (IF seen[t] = 0 THEN i = 1 ELSE i = seen[t]) /\ \A j \in 1..seen[t] : ~Holds(t, j)

TakesSlot(t, i) ==
  \/ i \in 1..seen[t] /\ Holds(t, i) /\ \A j \in 1..(i - 1) : ~Holds(t, j)
  \/ i = seen[t] + 1 /\ \A j \in 1..seen[t] : ~Holds(t, j)

RaiseErase(t) ==
  /\ pc[t] = "checked"
  /\ mutex = Free
  /\ mutex' = t
  /\ \E i \in Slots :
       /\ TakesSlot(t, i)
       /\ target' = [target EXCEPT ![t] = i]
       /\ slots' = [slots EXCEPT ![i] = Empty]
  /\ pc' = [pc EXCEPT ![t] = "erased"]
  /\ UNCHANGED <<count, seen, raising, copyVars, globalVars, historyVars>>

\* The kind and the ref are there before the code is.
RaiseFill(t) ==
  /\ pc[t] = "erased"
  /\ slots' = [slots EXCEPT ![target[t]] = [Active(raising[t]) EXCEPT !.code = NoCode]]
  /\ pc' = [pc EXCEPT ![t] = "filled"]
  /\ UNCHANGED <<count, mutex, callVars, copyVars, globalVars, historyVars>>

\* count grows even when the kind already had a slot; nobody who reads both it
\* and the code could tell in which order they change.  The locals go out of
\* scope here, and the agent's in Clear: they return to a resting value.
RaisePublish(t) ==
  /\ pc[t] = "filled"
  /\ slots' = [slots EXCEPT ![target[t]].code = raising[t]]
  /\ count' = count + 1
  /\ mutex' = Free
  /\ pc' = [pc EXCEPT ![t] = AfterRaise(t, raising[t])]
  /\ seen' = [seen EXCEPT ![t] = 0]
  /\ target' = [target EXCEPT ![t] = 1]
  /\ raising' = [raising EXCEPT ![t] = Bootstrap]
  /\ UNCHANGED <<copyVars, globalVars, historyVars>>

----------------------------------------------------------------------------
(* The agent: cwmp_agent_get_active_event, without the mutex, then           *)
(* cwmp_event_clear_active.  The reboot and factory reset tasks only clear.  *)

\* A slip the properties notice: counts the slots from zero.
CopyBeginAtZero ==
  /\ pc[Agent] = "idle" /\ assumed < MaxAssumed
  /\ elsize' = count
  /\ idx' = 0
  /\ anyCopied' = FALSE
  /\ pc' = [pc EXCEPT ![Agent] = "copying"]
  /\ UNCHANGED <<slots, count, mutex, callVars, globalVars, historyVars>>

CopyBegin ==
  /\ pc[Agent] = "idle" /\ assumed < MaxAssumed
  /\ elsize' = count
  /\ idx' = 1
  /\ anyCopied' = FALSE
  /\ pc' = [pc EXCEPT ![Agent] = "copying"]
  /\ UNCHANGED <<slots, count, mutex, callVars, globalVars, historyVars>>

\* The ref is tested; the entry is read later, after memory was asked for it.
\* An index past the array reads memory that is not a slot: after that the
\* process has no defined behaviour and the agent stops here.
CopyTest ==
  /\ pc[Agent] = "copying"
  /\ idx <= elsize
  /\ IF idx > Size
     THEN pc' = [pc EXCEPT ![Agent] = "wild"] /\ UNCHANGED idx
     ELSE IF Live(idx)
     THEN pc' = [pc EXCEPT ![Agent] = "reading"] /\ UNCHANGED idx
     ELSE idx' = idx + 1 /\ UNCHANGED pc
  /\ UNCHANGED <<slots, count, mutex, callVars, elsize, anyCopied, globalVars, historyVars>>

\* What the Inform will carry is the code that is there now: another event's
\* if the slot was filled again since the test, none if it was only erased.
CopyRead ==
  /\ pc[Agent] = "reading"
  /\ reported' = Bump(reported, {slots[idx].code})
  /\ owed' = owed \ {slots[idx].code}
  /\ anyCopied' = TRUE
  /\ idx' = idx + 1
  /\ pc' = [pc EXCEPT ![Agent] = "copying"]
  /\ UNCHANGED <<slots, count, mutex, callVars, elsize, globalVars, raised, sent, assumed>>

\* An Inform for which there is no entry reports BOOT.
CopyEnd ==
  /\ pc[Agent] = "copying"
  /\ idx > elsize
  /\ IF anyCopied
     THEN UNCHANGED <<reported, assumed, owed>>
     ELSE /\ reported' = Bump(reported, {Boot})
          /\ assumed' = assumed + 1
          /\ owed' = owed \ {Boot}
  /\ pc' = [pc EXCEPT ![Agent] = "clearing"]
  /\ UNCHANGED <<slots, count, mutex, callVars, copyVars, globalVars, raised, sent>>

FactoryReset ==
  /\ pc[Agent] = "idle"
  /\ pc' = [pc EXCEPT ![Agent] = "wiping"]
  /\ UNCHANGED <<slots, count, mutex, callVars, copyVars, globalVars, historyVars>>

FlagBits(es) ==
  (IF es \cap {Bootstrap, MReboot} # {} THEN {"acs"} ELSE {})
  \cup (IF Transfer \in es THEN {"transfer"} ELSE {})

\* A slip the properties notice: leaves the entries active.
ClearedKeepingRefs == slots

\* Active slots below count are remembered in the flags, which are saved, and
\* are cleared; slots beyond count keep what they hold.
ClearedSlots == [i \in Slots |-> IF i <= count THEN [slots[i] EXCEPT !.ref = 0] ELSE slots[i]]

Clear ==
  /\ pc[Agent] \in {"clearing", "wiping"}
  /\ mutex = Free
  /\ IF count > Size
     THEN /\ pc' = [pc EXCEPT ![Agent] = "wild"]
          /\ mutex' = Agent
          /\ UNCHANGED <<slots, count, copyVars, globalVars>>
     ELSE /\ pc' = [pc EXCEPT ![Agent] = "idle"]
          /\ slots' = ClearedSlots
          /\ count' = 0
          /\ elsize' = 0
          /\ idx' = 1
          /\ anyCopied' = FALSE
          /\ flag' = flag \cup FlagBits(Visible)
          /\ file' = IF FlagBits(Visible) = {} THEN file ELSE flag'
          /\ UNCHANGED mutex
  /\ UNCHANGED <<callVars, historyVars>>

\* A slip the properties notice: leaves the flag set.
TransferCheckKeepingFlag ==
  /\ pc[Agent] = "idle"
  /\ "transfer" \in flag
  /\ sent <= MaxRaise[Transfer]
  /\ sent' = sent + 1
  /\ UNCHANGED <<slots, count, mutex, pc, callVars, copyVars, globalVars, raised, reported, owed, assumed>>

\* The event check of cwmp_agent_analyse_session builds the TransferComplete
\* message the flag calls for and drops the flag, in memory only.
TransferCheck ==
  /\ pc[Agent] = "idle"
  /\ "transfer" \in flag
  /\ flag' = flag \ {"transfer"}
  /\ sent' = sent + 1
  /\ UNCHANGED <<slots, count, mutex, pc, callVars, copyVars, file, raised, reported, owed, assumed>>

----------------------------------------------------------------------------
Raise(t) ==
  \/ \E e \in Events : RaiseCheck(t, e)
  \/ RaiseErase(t)
  \/ RaiseFill(t)
  \/ RaisePublish(t)

Inform == CopyBegin \/ CopyTest \/ CopyRead \/ CopyEnd \/ Clear

Next ==
  \/ \E t \in Setters : Raise(t)
  \/ Inform
  \/ FactoryReset
  \/ TransferCheck
  \/ Restart

Spec == Init /\ [][Next]_vars

----------------------------------------------------------------------------
(* Properties                                                               *)

ThreadStates == {"idle", "checked", "erased", "filled", "copying", "reading",
                 "clearing", "wiping", "wild"}

SlotEntry == [event : Events, ref : {0, 1}, code : Events \cup {NoCode}]

\* Types of the list, the flags and the threads' local variables.
TypeOK ==
  /\ slots \in [Slots -> SlotEntry]
  /\ count \in Nat
  /\ mutex \in Setters \cup {Free}
  /\ flag \in SUBSET Flags
  /\ file \in SUBSET Flags
  /\ pc \in [Setters -> ThreadStates]
  /\ seen \in [Setters -> Nat]
  /\ target \in [Setters -> Slots]
  /\ raising \in [Setters -> Events]
  /\ elsize \in Nat
  /\ idx \in Nat \ {0}
  /\ anyCopied \in BOOLEAN
  /\ raised \in [Events -> Nat]
  /\ reported \in [Events -> Nat]
  /\ sent \in Nat
  /\ owed \in SUBSET Events
  /\ assumed \in Nat

\* Threads inside cwmp_event_set_value that have passed the size check.
InFlight == {t \in Setters : pc[t] \in {"checked", "erased", "filled"}}

\* The size check is made before the lock is taken, so count can pass the size
\* of the array; it does so by at most one per other thread that raises.
CountBound == count <= Size + Cardinality(Setters) - 1

\* An event that was raised once is not put into two Informs, whatever the
\* raises that rewrite slots while the agent tests, reads and clears them, or a
\* restart.  Only BOOT is reported without a raise, once for each Inform that
\* met no entry at all; an entry read between its erasure and its new code
\* goes out without a code and reports nothing.
ReportedAtMostRaised ==
  \A e \in Events : reported[e] <= raised[e] + (IF e = Boot THEN assumed ELSE 0)

\* At most one TransferComplete message goes out per finished transfer: the
\* flag set by the clearing and dropped by the event check is not set twice
\* for one transfer, even over a restart.
TransferSentOnce == sent <= raised[Transfer]

\* A raise that finds the list no longer than it was when it read count, takes
\* no other event's slot, and its own event is in the list when it publishes.
FreshRaiseKeepsList ==
  [][\A t \in Setters :
       /\ RaiseErase(t) /\ count <= seen[t] =>
            Visible \ {raising[t]} \subseteq Visible'
       /\ RaisePublish(t) /\ count = seen[t] =>
            Visible \cup {raising[t]} \subseteq Visible']_vars

\* The policy comment of event.h: policy 0, which every event of this program
\* has, is never to be discarded.  An Inform may then clear only what it
\* carries; the clearing also drops what was raised after the copy.
NeverDiscarded ==
  [][Clear /\ pc[Agent] = "clearing" => Visible \cap owed \subseteq Visible']_vars

\* The comments of cwmp_event_init: after a restart the event that the saved
\* flags call for (a firmware upgrade's transfer) is raised again.
RestartKeepsTransfer ==
  [][Restart /\ "transfer" \in file => Transfer \in Visible']_vars

=============================================================================
