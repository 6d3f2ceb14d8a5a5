--------------------------- MODULE EventListProofs ---------------------------
(****************************************************************************)
(* The event list for every size and any finite set of raising threads:     *)
(* its types, the bound on count, what is reported and told at most once    *)
(* for a raise, and the raises that keep the list.                          *)
(****************************************************************************)
EXTENDS EventList, FiniteSetTheorems, SequenceTheorems, TLAPS

\* Who stands where: only the agent copies and clears, the one between erase
\* and publish holds the mutex, and it passed the size check before.
PlaceInv ==
  /\ \A t \in Listeners : pc[t] \in {"idle", "checked", "erased", "filled"}
  /\ \A t \in InFlight : seen[t] < Size
  /\ \A t \in Setters : pc[t] \in {"erased", "filled"} => mutex = t

\* Every thread in flight may still add one to count.
FlightInv == count + Cardinality(InFlight) <= Size + Cardinality(Setters) - 1

IInv == TypeOK /\ PlaceInv /\ FlightInv

LEMMA SettersFinite == IsFiniteSet(Setters) /\ Cardinality(Setters) \in Nat \ {0} /\ Agent \in Setters
<1>1. IsFiniteSet(Setters)
  BY ThreadAssumption, FS_AddElement DEF Setters
<1>2. Cardinality(Setters) \in Nat /\ Cardinality(Setters) # 0
  BY <1>1, FS_CardinalityType, FS_EmptySet DEF Setters
<1>3. QED
  BY <1>1, <1>2 DEF Setters

LEMMA InFlightFinite ==
  /\ IsFiniteSet(InFlight) /\ Cardinality(InFlight) \in Nat
  /\ Cardinality(InFlight) <= Cardinality(Setters)
<1>1. InFlight \subseteq Setters
  BY DEF InFlight
<1>2. QED
  BY <1>1, SettersFinite, FS_Subset, FS_CardinalityType

LEMMA InFlightFiniteNext ==
  /\ IsFiniteSet(InFlight') /\ Cardinality(InFlight') \in Nat
  /\ Cardinality(InFlight') <= Cardinality(Setters)
<1>1. InFlight' \subseteq Setters
  BY DEF InFlight
<1>2. QED
  BY <1>1, SettersFinite, FS_Subset, FS_CardinalityType


\* The flags are never loaded, so a restart raises BOOTSTRAP and nothing else.
LEMMA FreshEventsValue == FreshEvents(LoadedFlag) = <<Bootstrap>> /\ FreshFlag(LoadedFlag) = {"bootstrap"}
<1>1. FreshFlag(LoadedFlag) = {"bootstrap"}
  BY DEF FreshFlag, LoadedFlag
<1>2. FreshRaises(LoadedFlag) = <<Bootstrap>> \o <<>>
  BY <1>1 DEF FreshRaises
<1>3. FreshRaises(LoadedFlag) = <<Bootstrap>>
  BY <1>2
<1>4. FreshEvents(LoadedFlag) = SubSeq(<<Bootstrap>>, 1, 1)
  BY <1>3, SizeAssumption DEF FreshEvents
<1>5. <<Bootstrap>> \in Seq(Events) /\ Len(<<Bootstrap>>) = 1
  BY EventAssumption
<1>6. FreshEvents(LoadedFlag) = <<Bootstrap>>
  BY <1>4, <1>5, SubSeqFull
<1>7. QED
  BY <1>1, <1>6

LEMMA FreshSlotsType == FreshSlots(<<Bootstrap>>) \in [Slots -> SlotEntry]
<1>1. Bootstrap \in Events
  BY EventAssumption
<1>2. ASSUME NEW i \in Slots PROVE FreshSlots(<<Bootstrap>>)[i] \in SlotEntry
  <2>1. CASE i = 1
    BY <1>1, <2>1 DEF FreshSlots, Active, SlotEntry
  <2>2. CASE i # 1
    BY <1>1, <2>2, SizeAssumption DEF FreshSlots, Empty, Slots, SlotEntry
  <2>3. QED
    BY <2>1, <2>2
<1>3. QED
  BY <1>2 DEF FreshSlots

\* Counting occurrences keeps the type of the histories.
LEMMA BumpType ==
  ASSUME NEW f \in [Events -> Nat], NEW S
  PROVE  Bump(f, S) \in [Events -> Nat]
BY DEF Bump

LEMMA InitIInv == Init => IInv
<1> SUFFICES ASSUME Init PROVE IInv
  OBVIOUS
<1>1. TypeOK
  <2>1. slots \in [Slots -> SlotEntry]
    BY FreshSlotsType DEF Init
  <2>2. /\ pc \in [Setters -> ThreadStates] /\ seen \in [Setters -> Nat]
        /\ target \in [Setters -> Slots] /\ raising \in [Setters -> Events]
    BY SizeAssumption, EventAssumption DEF Init, ThreadStates, Slots
  <2>3. raised \in [Events -> Nat] /\ reported \in [Events -> Nat] /\ owed \in SUBSET Events
    BY EventAssumption DEF Init
  <2>4. anyCopied \in BOOLEAN
    BY Zenon DEF Init
  <2>5. /\ count = 1 /\ mutex = Free /\ flag = {"bootstrap"} /\ file = {} /\ elsize = 0 /\ idx = 1
        /\ sent = 0 /\ assumed = 0
    BY DEF Init
  <2>6. QED
    BY <2>1, <2>2, <2>3, <2>4, <2>5 DEF TypeOK, Flags
<1>2. InFlight = {}
  BY DEF Init, InFlight
<1>3. PlaceInv
  BY <1>2 DEF Init, PlaceInv, Setters
<1>4. FlightInv
  BY <1>2, FS_EmptySet, SettersFinite, SizeAssumption DEF Init, FlightInv
<1>5. QED
  BY <1>1, <1>3, <1>4 DEF IInv

\* A step that takes no thread into the raise and does not raise count keeps
\* the bound.
LEMMA FlightKept ==
  ASSUME IInv, TypeOK', InFlight' \subseteq InFlight, count' <= count
  PROVE  FlightInv'
<1>1. Cardinality(InFlight') <= Cardinality(InFlight)
  BY InFlightFinite, FS_Subset
<1>2. QED
  BY <1>1, InFlightFinite, InFlightFiniteNext, SettersFinite, SizeAssumption
     DEF IInv, TypeOK, FlightInv

\* A step that empties the list keeps the bound, whoever is in flight.
LEMMA FlightEmptied ==
  ASSUME count' \in Nat, count' <= Size
  PROVE  InFlight' = {} \/ count' = 0 => FlightInv'
<1>1. CASE InFlight' = {}
  BY <1>1, FS_EmptySet, SettersFinite, SizeAssumption DEF FlightInv
<1>2. CASE count' = 0
  BY <1>2, InFlightFiniteNext, SettersFinite, SizeAssumption DEF FlightInv
<1>3. QED
  BY <1>1, <1>2

LEMMA RaiseCheckIInv ==
  ASSUME IInv, NEW t \in Setters, NEW e \in Events, RaiseCheck(t, e)
  PROVE  IInv'
<1> USE DEF IInv
<1>1. /\ pc[t] = "idle" /\ raised' = Bump(raised, {e}) /\ owed' = owed \cup {e}
      /\ UNCHANGED <<slots, count, mutex, target, copyVars, globalVars, reported, sent, assumed>>
  BY DEF RaiseCheck
<1>2. raised' \in [Events -> Nat]
  BY <1>1, BumpType DEF TypeOK
<1>3. CASE Room
  <2>1. /\ raising' = [raising EXCEPT ![t] = e] /\ seen' = [seen EXCEPT ![t] = count]
        /\ pc' = [pc EXCEPT ![t] = "checked"] /\ count < Size
    BY <1>3 DEF RaiseCheck, Room
  <2>2. TypeOK'
    BY <1>1, <1>2, <2>1 DEF TypeOK, copyVars, globalVars, ThreadStates
  <2>3. PlaceInv'
    BY <1>1, <2>1 DEF PlaceInv, InFlight, TypeOK, Setters
  <2>4. FlightInv'
    <3>1. count' = count /\ count' \in Nat
      BY <1>1 DEF TypeOK
    <3>2. QED
      BY <2>1, <3>1, InFlightFiniteNext, SettersFinite, SizeAssumption DEF FlightInv
  <2>5. QED
    BY <2>2, <2>3, <2>4
<1>4. CASE ~Room
  <2>1. /\ raising' = raising /\ seen' = seen
        /\ pc' = [pc EXCEPT ![t] = AfterRaise(t, e)]
    BY <1>4 DEF RaiseCheck
  <2>2. AfterRaise(t, e) \in {"idle", "wiping"} /\ (t \in Listeners => AfterRaise(t, e) = "idle")
    BY ThreadAssumption DEF AfterRaise
  <2>3. TypeOK'
    BY <1>1, <1>2, <2>1, <2>2 DEF TypeOK, copyVars, globalVars, ThreadStates
  <2>4. PlaceInv'
    BY <1>1, <2>1, <2>2 DEF PlaceInv, InFlight, TypeOK, Setters
  <2>5. InFlight' \subseteq InFlight /\ count' <= count
    BY <1>1, <2>1, <2>2 DEF InFlight, TypeOK
  <2>6. QED
    BY <2>3, <2>4, <2>5, FlightKept
<1>5. QED
  BY <1>3, <1>4

LEMMA RaiseEraseIInv ==
  ASSUME IInv, NEW t \in Setters, RaiseErase(t)
  PROVE  IInv'
<1> USE DEF IInv
<1>1. PICK i \in Slots : /\ target' = [target EXCEPT ![t] = i]
                        /\ slots' = [slots EXCEPT ![i] = Empty]
  BY DEF RaiseErase
<1>2. /\ pc[t] = "checked" /\ mutex = Free /\ mutex' = t /\ pc' = [pc EXCEPT ![t] = "erased"]
      /\ UNCHANGED <<count, seen, raising, copyVars, globalVars, historyVars>>
  BY DEF RaiseErase
<1>3. TypeOK'
  <2>1. slots' \in [Slots -> SlotEntry]
    BY <1>1, EventAssumption DEF TypeOK, Empty, SlotEntry
  <2>2. pc' \in [Setters -> ThreadStates] /\ target' \in [Setters -> Slots] /\ mutex' \in Setters
    BY <1>1, <1>2 DEF TypeOK, ThreadStates
  <2>3. QED
    BY <1>2, <2>1, <2>2 DEF TypeOK, copyVars, globalVars, historyVars
<1>4. PlaceInv'
  BY <1>2, ThreadAssumption DEF PlaceInv, InFlight, TypeOK, Setters
<1>5. InFlight' \subseteq InFlight /\ count' <= count
  BY <1>2 DEF InFlight, TypeOK
<1>6. QED
  BY <1>3, <1>4, <1>5, FlightKept

LEMMA RaiseFillIInv ==
  ASSUME IInv, NEW t \in Setters, RaiseFill(t)
  PROVE  IInv'
<1> USE DEF IInv
<1>1. /\ pc[t] = "erased" /\ slots' = [slots EXCEPT ![target[t]] = [Active(raising[t]) EXCEPT !.code = NoCode]]
      /\ pc' = [pc EXCEPT ![t] = "filled"]
      /\ UNCHANGED <<count, mutex, callVars, copyVars, globalVars, historyVars>>
  BY DEF RaiseFill
<1>2. TypeOK'
  <2>1. slots' \in [Slots -> SlotEntry]
    BY <1>1 DEF TypeOK, Active, SlotEntry
  <2>2. pc' \in [Setters -> ThreadStates]
    BY <1>1 DEF TypeOK, ThreadStates
  <2>3. QED
    BY <1>1, <2>1, <2>2 DEF TypeOK, callVars, copyVars, globalVars, historyVars
<1>3. PlaceInv'
  BY <1>1 DEF PlaceInv, InFlight, TypeOK, Setters, callVars
<1>4. InFlight' \subseteq InFlight /\ count' <= count
  BY <1>1 DEF InFlight, TypeOK
<1>5. QED
  BY <1>2, <1>3, <1>4, FlightKept

\* The thread that raises count leaves the set of those still to do so.
LEMMA RaisePublishIInv ==
  ASSUME IInv, NEW t \in Setters, RaisePublish(t)
  PROVE  IInv'
<1> USE DEF IInv
<1> DEFINE next == AfterRaise(t, raising[t])
<1>1. /\ pc[t] = "filled" /\ count' = count + 1 /\ mutex' = Free
      /\ pc' = [pc EXCEPT ![t] = next]
      /\ seen' = [seen EXCEPT ![t] = 0]
      /\ target' = [target EXCEPT ![t] = 1]
      /\ raising' = [raising EXCEPT ![t] = Bootstrap]
      /\ slots' = [slots EXCEPT ![target[t]].code = raising[t]]
      /\ UNCHANGED <<copyVars, globalVars, historyVars>>
  BY DEF RaisePublish
<1>2. next \in {"idle", "wiping"} /\ (t \in Listeners => next = "idle")
  BY ThreadAssumption DEF AfterRaise
<1>3. TypeOK'
  <2>1. /\ pc' \in [Setters -> ThreadStates] /\ seen' \in [Setters -> Nat]
        /\ target' \in [Setters -> Slots] /\ raising' \in [Setters -> Events]
    <3>1. 1 \in Slots /\ Bootstrap \in Events
      BY SizeAssumption, EventAssumption DEF Slots
    <3>2. pc' \in [Setters -> ThreadStates]
      <4>1. next \in ThreadStates
        BY <1>2 DEF ThreadStates
      <4>2. QED
        BY <1>1, <4>1 DEF TypeOK
    <3>3. seen' \in [Setters -> Nat] /\ target' \in [Setters -> Slots]
      BY <1>1, <3>1 DEF TypeOK
    <3>4. raising' \in [Setters -> Events]
      BY <1>1, <3>1 DEF TypeOK
    <3>5. QED
      BY <3>2, <3>3, <3>4
  <2>2. QED
    <3>1. slots' \in [Slots -> SlotEntry]
      BY <1>1 DEF TypeOK, SlotEntry
    <3>2. QED
      BY <1>1, <2>1, <3>1 DEF TypeOK, copyVars, globalVars, historyVars
<1>4. PlaceInv'
  <2>1. mutex = t
    BY <1>1 DEF PlaceInv
  <2>2. \A u \in Setters : pc'[u] \in {"erased", "filled"} => FALSE
    <3>1. ASSUME NEW u \in Setters, pc'[u] \in {"erased", "filled"} PROVE FALSE
      <4>1. u # t
        BY <1>1, <1>2, <3>1 DEF TypeOK
      <4>2. pc[u] \in {"erased", "filled"}
        BY <1>1, <3>1, <4>1 DEF TypeOK
      <4>3. QED
        BY <2>1, <4>1, <4>2 DEF PlaceInv
    <3>2. QED
      BY <3>1
  <2>3. QED
    BY <1>1, <1>2, <2>2 DEF PlaceInv, InFlight, TypeOK, Setters
<1>5. InFlight' = InFlight \ {t} /\ t \in InFlight
  BY <1>1, <1>2 DEF InFlight, TypeOK
<1>6. Cardinality(InFlight') = Cardinality(InFlight) - 1
  BY <1>5, InFlightFinite, FS_RemoveElement
<1>7. FlightInv'
  BY <1>1, <1>6, InFlightFinite, SettersFinite, SizeAssumption DEF FlightInv, TypeOK
<1>8. QED
  BY <1>3, <1>4, <1>7

\* The agent's copy and clear: no thread enters the raise, and count does not
\* grow.
LEMMA AgentIInv ==
  ASSUME IInv, CopyBegin \/ CopyTest \/ CopyRead \/ CopyEnd \/ FactoryReset \/ TransferCheck
  PROVE  IInv'
<1> USE DEF IInv
<1>1. Agent \in Setters /\ Agent \notin Listeners
  BY ThreadAssumption DEF Setters
<1>2. /\ count' = count /\ mutex' = mutex /\ slots' = slots /\ UNCHANGED callVars
      /\ raised' = raised /\ file' = file
  BY DEF CopyBegin, CopyTest, CopyRead, CopyEnd, FactoryReset, TransferCheck, historyVars, globalVars
<1>3. PICK place \in {"idle", "copying", "reading", "clearing", "wiping", "wild"} :
        pc' = [pc EXCEPT ![Agent] = place] /\ pc[Agent] \in {"idle", "copying", "reading"}
  <2>1. CASE pc' = pc /\ pc[Agent] \in {"idle", "copying", "reading"}
    BY <1>1, <2>1 DEF TypeOK
  <2>2. CASE pc' # pc
    BY <2>2 DEF CopyBegin, CopyTest, CopyRead, CopyEnd, FactoryReset, TransferCheck
  <2>3. QED
    BY <2>1, <2>2 DEF CopyBegin, CopyTest, CopyRead, CopyEnd, FactoryReset, TransferCheck
<1>4. elsize' \in Nat /\ idx' \in Nat \ {0}
  BY DEF TypeOK, CopyBegin, CopyTest, CopyRead, CopyEnd, FactoryReset, TransferCheck, copyVars
<1>5. reported' \in [Events -> Nat] /\ owed' \in SUBSET Events
  BY BumpType DEF TypeOK, CopyBegin, CopyTest, CopyRead, CopyEnd, FactoryReset, TransferCheck, historyVars
<1>6. /\ sent' \in Nat /\ flag' \in SUBSET Flags /\ anyCopied' \in BOOLEAN
      /\ assumed' \in Nat
  <2>1. CASE CopyBegin \/ CopyTest \/ CopyRead
    BY <2>1 DEF TypeOK, CopyBegin, CopyTest, CopyRead, historyVars, globalVars
  <2>2. CASE CopyEnd \/ FactoryReset \/ TransferCheck
    BY <2>2 DEF TypeOK, CopyEnd, FactoryReset, TransferCheck, historyVars, globalVars, copyVars
  <2> QED BY <2>1, <2>2
<1>7. TypeOK'
  <2>1. pc' \in [Setters -> ThreadStates]
    BY <1>1, <1>3 DEF TypeOK, ThreadStates
  <2>2. QED
    BY <1>2, <1>4, <1>5, <1>6, <2>1 DEF TypeOK, callVars
<1>8. PlaceInv'
  BY <1>1, <1>2, <1>3 DEF PlaceInv, InFlight, TypeOK, Setters, callVars
<1>9. InFlight' \subseteq InFlight /\ count' <= count
  BY <1>1, <1>2, <1>3 DEF InFlight, TypeOK
<1>10. QED
  BY <1>7, <1>8, <1>9, FlightKept

LEMMA ClearIInv ==
  ASSUME IInv, Clear
  PROVE  IInv'
<1> USE DEF IInv
<1>1. Agent \in Setters /\ Agent \notin Listeners
  BY ThreadAssumption DEF Setters
<1>2. pc[Agent] \in {"clearing", "wiping"} /\ mutex = Free /\ UNCHANGED <<callVars, historyVars>>
  BY DEF Clear
<1>3. CASE count > Size
  <2>1. /\ pc' = [pc EXCEPT ![Agent] = "wild"] /\ mutex' = Agent
        /\ UNCHANGED <<slots, count, copyVars, globalVars>>
    BY <1>3 DEF Clear
  <2>2. TypeOK'
    BY <1>1, <1>2, <2>1 DEF TypeOK, ThreadStates, callVars, historyVars, copyVars, globalVars
  <2>3. \A u \in Setters : pc[u] \notin {"erased", "filled"}
    BY <1>2, ThreadAssumption DEF PlaceInv
  <2>4. PlaceInv'
    BY <1>1, <1>2, <2>1, <2>3 DEF PlaceInv, InFlight, TypeOK, Setters, callVars
  <2>5. InFlight' \subseteq InFlight /\ count' <= count
    BY <1>1, <2>1 DEF InFlight, TypeOK
  <2>6. QED
    BY <2>2, <2>4, <2>5, FlightKept
<1>4. CASE ~(count > Size)
  <2>1. /\ pc' = [pc EXCEPT ![Agent] = "idle"] /\ slots' = ClearedSlots /\ count' = 0
        /\ elsize' = 0 /\ idx' = 1 /\ flag' = flag \cup FlagBits(Visible)
        /\ file' = IF FlagBits(Visible) = {} THEN file ELSE flag'
        /\ mutex' = mutex
    BY <1>4 DEF Clear
  <2>2. slots' \in [Slots -> SlotEntry]
    BY <2>1 DEF ClearedSlots, TypeOK, SlotEntry
  <2>3. flag' \in SUBSET Flags /\ file' \in SUBSET Flags
    BY <2>1 DEF FlagBits, Flags, TypeOK
  <2>4. TypeOK'
    <3>1. anyCopied' \in BOOLEAN
      BY <1>4, Zenon DEF Clear
    <3> QED BY <1>1, <1>2, <2>1, <2>2, <2>3, <3>1 DEF TypeOK, ThreadStates, callVars, historyVars
  <2>5. PlaceInv'
    BY <1>1, <1>2, <2>1 DEF PlaceInv, InFlight, TypeOK, Setters, callVars
  <2>6. FlightInv'
    BY <2>1, FlightEmptied, SizeAssumption
  <2>7. QED
    BY <2>4, <2>5, <2>6
<1>5. QED
  BY <1>3, <1>4

LEMMA RestartIInv ==
  ASSUME IInv, Restart
  PROVE  IInv'
<1> USE DEF IInv
<1>1. /\ slots' = FreshSlots(<<Bootstrap>>) /\ count' = Len(<<Bootstrap>>)
      /\ flag' = {"bootstrap"} /\ FreshThreads
      /\ raised' = Bump(raised, FreshKinds(<<Bootstrap>>)) /\ owed' = FreshKinds(<<Bootstrap>>)
      /\ UNCHANGED <<file, reported, sent, assumed>>
  BY FreshEventsValue DEF Restart
<1>2. count' = 1
  BY <1>1
<1>3. owed' \in SUBSET Events
  BY <1>1, EventAssumption DEF FreshKinds
<1>4. TypeOK'
  <2>1. /\ pc' \in [Setters -> ThreadStates] /\ seen' \in [Setters -> Nat]
        /\ target' \in [Setters -> Slots] /\ raising' \in [Setters -> Events]
        /\ mutex' = Free /\ elsize' = 0 /\ idx' = 1
    BY <1>1, SizeAssumption, EventAssumption DEF FreshThreads, ThreadStates, Slots
  <2>2. slots' \in [Slots -> SlotEntry] /\ raised' \in [Events -> Nat]
    BY <1>1, FreshSlotsType, BumpType DEF TypeOK
  <2>3. /\ file' = file /\ reported' = reported /\ sent' = sent /\ flag' \in SUBSET Flags
        /\ assumed' = assumed
    BY <1>1 DEF Flags
  <2>4. anyCopied' \in BOOLEAN
    BY <1>1, Zenon DEF FreshThreads
  <2>5. QED
    BY <1>2, <1>3, <2>1, <2>2, <2>3, <2>4 DEF TypeOK
<1>5. InFlight' = {}
  BY <1>1 DEF FreshThreads, InFlight
<1>6. PlaceInv'
  <2>1. pc' = [t \in Setters |-> "idle"]
    BY <1>1 DEF FreshThreads
  <2>2. \A t \in Setters : pc'[t] = "idle"
    BY <2>1
  <2>3. \A t \in Listeners : pc'[t] = "idle"
    BY <2>2 DEF Setters
  <2>4. QED
    BY <1>5, <2>2, <2>3 DEF PlaceInv
<1>7. FlightInv'
  BY <1>2, <1>5, FlightEmptied, SizeAssumption
<1>8. QED
  BY <1>4, <1>6, <1>7

LEMMA NextIInv == IInv /\ [Next]_vars => IInv'
<1> SUFFICES ASSUME IInv, [Next]_vars PROVE IInv'
  OBVIOUS
<1>1. CASE UNCHANGED vars
  BY <1>1 DEF vars, callVars, copyVars, globalVars, historyVars, IInv, TypeOK, PlaceInv,
     FlightInv, InFlight
<1>2. CASE \E t \in Setters : Raise(t)
  BY <1>2, RaiseCheckIInv, RaiseEraseIInv, RaiseFillIInv, RaisePublishIInv DEF Raise
<1>3. CASE Inform \/ FactoryReset \/ TransferCheck
  BY <1>3, AgentIInv, ClearIInv DEF Inform
<1>4. CASE Restart
  BY <1>4, RestartIInv
<1>5. QED
  BY <1>1, <1>2, <1>3, <1>4 DEF Next

\* The invariant holds in every behaviour of the list.
THEOREM EventListInvariant == Spec => []IInv
<1>1. QED
  BY InitIInv, NextIInv, PTL DEF Spec

\* The slots, the flags and the threads' locals keep their types; in particular
\* every raise writes a slot of the array, however stale the count it read.
THEOREM EventListTypes == Spec => []TypeOK
<1>1. IInv => TypeOK
  BY DEF IInv
<1>2. QED
  BY <1>1, EventListInvariant, PTL

\* count passes the size of the array by at most one per thread that raises
\* beside the one that saw the last free slot.
THEOREM EventListCountBound == Spec => []CountBound
<1>1. IInv => CountBound
  BY InFlightFinite, SettersFinite, SizeAssumption DEF IInv, TypeOK, FlightInv, CountBound
<1>2. QED
  BY <1>1, EventListInvariant, PTL

----------------------------------------------------------------------------
(* What the agent may read of a slot while a raise rewrites it.             *)

\* The slot of an event that has its ref and not yet its code.
Uncoded(s, e) == s.event = e /\ s.ref = 1 /\ s.code = NoCode

\* What the holder of the mutex has written: a slot no further than one past
\* the count it read, and from the filling on its own event.
WriterInv ==
  \A t \in Setters :
    /\ pc[t] \in {"erased", "filled"} => target[t] <= seen[t] + 1
    /\ pc[t] = "filled" => Uncoded(slots[target[t]], raising[t])

LEMMA WriterKept ==
  ASSUME IInv, IInv', WriterInv, [Next]_vars
  PROVE  WriterInv'
<1> SUFFICES ASSUME NEW t \in Setters, pc'[t] \in {"erased", "filled"}
             PROVE  /\ target'[t] <= seen'[t] + 1
                    /\ pc'[t] = "filled" => Uncoded(slots'[target'[t]], raising'[t])
  BY DEF WriterInv
<1>1. CASE RaiseErase(t)
  <2>1. PICK i \in Slots : TakesSlot(t, i) /\ target' = [target EXCEPT ![t] = i]
    BY <1>1 DEF RaiseErase
  <2>2. i <= seen[t] + 1
    <3>1. seen[t] \in Nat /\ (i \in 1..seen[t] \/ i = seen[t] + 1)
      BY <2>1 DEF TakesSlot, IInv, TypeOK
    <3> QED BY <3>1
  <2>3. pc'[t] = "erased" /\ seen' = seen /\ target'[t] = i
    BY <1>1, <2>1 DEF RaiseErase, IInv, TypeOK
  <2> QED BY <2>2, <2>3
<1>2. CASE RaiseFill(t)
  BY <1>2 DEF RaiseFill, callVars, WriterInv, Uncoded, Active, IInv, TypeOK
<1>3. CASE ~RaiseErase(t) /\ ~RaiseFill(t)
  <2>1. /\ pc[t] = pc'[t] /\ UNCHANGED <<slots, target>>
        /\ seen'[t] = seen[t] /\ raising'[t] = raising[t]
    <3>1. CASE UNCHANGED vars
      BY <3>1 DEF vars, callVars
    <3>2. CASE \E u \in Setters : Raise(u)
      <4>1. PICK u \in Setters : Raise(u)
        BY <3>2
      <4>2. CASE u = t
        BY <1>3, <4>1, <4>2 DEF Raise, RaiseCheck, RaisePublish, AfterRaise, IInv, TypeOK
      <4>3. CASE u # t
        <5>1. pc'[t] = pc[t]
          BY <4>1, <4>3 DEF Raise, RaiseCheck, RaiseErase, RaiseFill, RaisePublish, IInv, TypeOK
        <5>2. mutex = t /\ mutex # Free
          BY <5>1, ThreadAssumption DEF IInv, PlaceInv
        <5>3. \E e \in Events : RaiseCheck(u, e)
          BY <4>1, <4>3, <5>2 DEF Raise, RaiseErase, RaiseFill, RaisePublish, IInv, PlaceInv
        <5> QED BY <4>3, <5>1, <5>3 DEF RaiseCheck, IInv, TypeOK
      <4> QED BY <4>2, <4>3
    <3>3. CASE CopyBegin \/ CopyTest \/ CopyRead \/ CopyEnd \/ FactoryReset \/ TransferCheck
      BY <3>3, SettersFinite
         DEF CopyBegin, CopyTest, CopyRead, CopyEnd, FactoryReset, TransferCheck, callVars, IInv, TypeOK
    <3>4. CASE Clear
      <4>1. pc'[t] = pc[t]
        BY <3>4 DEF Clear, IInv, TypeOK
      <4> QED BY <3>4, <4>1, ThreadAssumption DEF Clear, IInv, PlaceInv
    <3>5. CASE Restart
      BY <3>5 DEF Restart, FreshThreads
    <3> QED BY <3>1, <3>2, <3>3, <3>4, <3>5 DEF Next, Inform
  <2> QED BY <2>1 DEF WriterInv
<1> QED BY <1>1, <1>2, <1>3

\* The code of a slot is that of its kind, or is not there yet.
CodeInv == \A i \in Slots : slots[i].code \in {NoCode, slots[i].event}

\* Between the agent's test of a slot and its reading, the slot may be erased
\* and filled again, but never holds the code of an entry that is not live.
ReadInv ==
  pc[Agent] = "reading" => idx \in Slots /\ (Live(idx) \/ slots[idx].code = NoCode)

SlotInv == WriterInv /\ CodeInv /\ ReadInv

LEMMA RaiseSlots ==
  ASSUME IInv, SlotInv, NEW t \in Setters, Raise(t)
  PROVE  CodeInv' /\ ReadInv'
<1>1. /\ idx' = idx
      /\ pc'[Agent] = "reading" => pc[Agent] = "reading"
  BY SettersFinite
     DEF Raise, RaiseCheck, RaiseErase, RaiseFill, RaisePublish, AfterRaise, copyVars, IInv, TypeOK
<1>2. CASE \E e \in Events : RaiseCheck(t, e)
  <2>1. slots' = slots
    BY <1>2 DEF RaiseCheck
  <2> QED BY <1>1, <2>1 DEF SlotInv, CodeInv, ReadInv, Live
<1>3. CASE RaiseErase(t)
  <2>1. PICK i \in Slots : slots' = [slots EXCEPT ![i] = Empty]
    BY <1>3 DEF RaiseErase
  <2>2. \A j \in Slots : slots'[j] = IF j = i THEN Empty ELSE slots[j]
    BY <2>1 DEF IInv, TypeOK
  <2> QED BY <1>1, <2>2 DEF SlotInv, CodeInv, ReadInv, Live, Empty
<1>4. CASE RaiseFill(t)
  <2>1. PICK i \in Slots : i = target[t]
    BY DEF IInv, TypeOK
  <2>2. \A j \in Slots : IF j = i THEN Uncoded(slots'[j], raising[t]) ELSE slots'[j] = slots[j]
    BY <1>4, <2>1 DEF RaiseFill, IInv, TypeOK, Uncoded, Active
  <2> QED BY <1>1, <2>2 DEF SlotInv, CodeInv, ReadInv, Live, Uncoded
<1>5. CASE RaisePublish(t)
  <2>1. PICK i \in Slots : i = target[t]
    BY DEF IInv, TypeOK
  <2>2. slots[i].event = raising[t] /\ slots[i].ref = 1
    BY <1>5, <2>1 DEF RaisePublish, SlotInv, WriterInv, Uncoded
  <2>3. \A j \in Slots :
          /\ slots'[j].event = slots[j].event /\ slots'[j].ref = slots[j].ref
          /\ slots'[j].code = IF j = i THEN raising[t] ELSE slots[j].code
    BY <1>5, <2>1 DEF RaisePublish, IInv, TypeOK
  <2> QED BY <1>1, <2>2, <2>3 DEF SlotInv, CodeInv, ReadInv, Live
<1> QED BY <1>2, <1>3, <1>4, <1>5 DEF Raise

LEMMA NextSlots == IInv /\ IInv' /\ SlotInv /\ [Next]_vars => SlotInv'
<1> SUFFICES ASSUME IInv, IInv', SlotInv, [Next]_vars PROVE CodeInv' /\ ReadInv'
  BY WriterKept DEF SlotInv
<1>1. CASE UNCHANGED vars
  BY <1>1 DEF vars, copyVars, SlotInv, CodeInv, ReadInv, Live
<1>2. CASE \E t \in Setters : Raise(t)
  BY <1>2, RaiseSlots
<1>3. CASE CopyBegin \/ CopyTest \/ CopyRead \/ CopyEnd \/ FactoryReset \/ TransferCheck
  <2>1. slots' = slots
    BY <1>3 DEF CopyBegin, CopyTest, CopyRead, CopyEnd, FactoryReset, TransferCheck
  <2>2. ASSUME pc'[Agent] = "reading" PROVE idx' = idx /\ idx \in Slots /\ Live(idx)
    <3>1. CASE CopyTest
      <4>1. idx \in Nat /\ idx >= 1 /\ pc[Agent] = "copying" /\ Size \in Nat
        BY <3>1, SizeAssumption DEF CopyTest, IInv, TypeOK
      <4>2. ~(idx > Size) /\ Live(idx) /\ idx' = idx
        BY <2>2, <3>1, SettersFinite DEF CopyTest, IInv, TypeOK
      <4> QED BY <4>1, <4>2 DEF Slots
    <3>2. CASE TransferCheck
      BY <2>2, <3>2 DEF TransferCheck
    <3>3. CASE CopyBegin \/ CopyRead \/ CopyEnd \/ FactoryReset
      BY <2>2, <3>3, SettersFinite DEF CopyBegin, CopyRead, CopyEnd, FactoryReset, IInv, TypeOK
    <3> QED BY <1>3, <3>1, <3>2, <3>3
  <2> QED BY <2>1, <2>2 DEF SlotInv, CodeInv, ReadInv, Live
<1>4. CASE Clear
  <2>1. pc'[Agent] # "reading"
    BY <1>4, SettersFinite DEF Clear, IInv, TypeOK
  <2>2. \A j \in Slots : slots'[j].event = slots[j].event /\ slots'[j].code = slots[j].code
    <3>1. slots' = slots \/ slots' = ClearedSlots
      BY <1>4 DEF Clear
    <3> QED BY <3>1 DEF ClearedSlots, IInv, TypeOK, SlotEntry
  <2> QED BY <2>1, <2>2 DEF SlotInv, CodeInv, ReadInv
<1>5. CASE Restart
  <2>1. slots' = FreshSlots(<<Bootstrap>>) /\ pc'[Agent] = "idle"
    BY <1>5, FreshEventsValue, SettersFinite DEF Restart, FreshThreads
  <2>2. \A j \in Slots : slots'[j].code \in {NoCode, slots'[j].event}
    BY <2>1 DEF FreshSlots, Active, Empty
  <2> QED BY <2>1, <2>2 DEF CodeInv, ReadInv
<1> QED BY <1>1, <1>2, <1>3, <1>4, <1>5 DEF Next, Inform

\* Whatever the raises do to a slot the agent is reading, what it reads is the
\* code of a live entry of that kind or none.
THEOREM EventListSlots == Spec => []SlotInv
<1>1. Init => SlotInv
  BY SettersFinite DEF Init, SlotInv, WriterInv, CodeInv, ReadInv, FreshSlots, Active, Empty
<1>2. QED
  BY <1>1, NextSlots, EventListInvariant, PTL DEF Spec

----------------------------------------------------------------------------
(* No event is reported, and no transfer told, more often than it was       *)
(* raised.  A raise pays for one entry of the list; stale entries that the  *)
(* clearing left beyond count are paid for as well.                         *)

\* The live entries of a kind from slot k on, and the raises of it that will
\* still make one.
Held(k, e) == {i \in Slots : k <= i /\ Live(i) /\ slots[i].event = e}
Coming(e) == {t \in Setters : pc[t] \in {"checked", "erased"} /\ raising[t] = e}
Promised(k, e) == Cardinality(Held(k, e)) + Cardinality(Coming(e))

\* The agent's place in the list: at its first slot unless it copies or clears,
\* and never past what the clearing will clear.
CopyInv ==
  /\ pc[Agent] \notin {"copying", "reading", "clearing", "wild"} => idx = 1
  /\ pc[Agent] \in {"copying", "reading", "clearing"} => elsize <= count /\ idx <= elsize + 1
  /\ pc[Agent] = "reading" => idx <= elsize

\* What pays for a report: a raise, or for BOOT an Inform that met no entry.
Funds(e) == raised[e] + (IF e = Boot THEN assumed ELSE 0)

\* Entries the copy has passed are reported; those ahead may still be.
ReportInv == \A e \in Events : reported[e] + Promised(idx, e) <= Funds(e)

\* The flag owes one message, and so may every entry that will set it.
OweInv ==
  sent + (IF "transfer" \in flag THEN 1 ELSE 0) + Promised(1, Transfer) <= raised[Transfer]

CountsInv == CopyInv /\ ReportInv /\ OweInv

LEMMA PromisedFinite ==
  ASSUME NEW k, NEW e
  PROVE  /\ IsFiniteSet(Held(k, e)) /\ Cardinality(Held(k, e)) \in Nat
         /\ IsFiniteSet(Coming(e)) /\ Cardinality(Coming(e)) \in Nat
         /\ Promised(k, e) \in Nat
<1>1. IsFiniteSet(Slots)
  BY FS_Interval, SizeAssumption DEF Slots
<1>2. Held(k, e) \in SUBSET Slots /\ Coming(e) \in SUBSET Setters
  BY DEF Held, Coming
<1> QED BY <1>1, <1>2, SettersFinite, FS_Subset, FS_CardinalityType DEF Promised

LEMMA PromisedFiniteNext ==
  ASSUME NEW k, NEW e
  PROVE  /\ IsFiniteSet(Held(k, e)') /\ Cardinality(Held(k, e)') \in Nat
         /\ IsFiniteSet(Coming(e)') /\ Cardinality(Coming(e)') \in Nat
         /\ Promised(k, e)' \in Nat
<1>1. IsFiniteSet(Slots)
  BY FS_Interval, SizeAssumption DEF Slots
<1>2. Held(k, e)' \in SUBSET Slots /\ Coming(e)' \in SUBSET Setters
  BY DEF Held, Coming
<1> QED BY <1>1, <1>2, SettersFinite, FS_Subset, FS_CardinalityType DEF Promised

\* How a set's size follows the elements it gains and loses.
LEMMA SizeSteps ==
  ASSUME NEW S, IsFiniteSet(S), NEW T
  PROVE  /\ T \subseteq S => Cardinality(T) <= Cardinality(S)
         /\ \A x : T \subseteq S \cup {x} => Cardinality(T) <= Cardinality(S) + 1
         /\ \A x \in S : T \subseteq S \ {x} => Cardinality(T) <= Cardinality(S) - 1
<1>1. T \subseteq S => Cardinality(T) <= Cardinality(S)
  BY FS_Subset
<1>2. ASSUME NEW x, T \subseteq S \cup {x} PROVE Cardinality(T) <= Cardinality(S) + 1
  <2>1. IsFiniteSet(S \cup {x}) /\ Cardinality(S \cup {x}) <= Cardinality(S) + 1
    <3>1. Cardinality(S) \in Nat
      BY FS_CardinalityType
    <3>2. IsFiniteSet(S \cup {x})
          /\ Cardinality(S \cup {x}) = IF x \in S THEN Cardinality(S) ELSE Cardinality(S) + 1
      BY FS_AddElement
    <3> QED BY <3>1, <3>2
  <2>2. Cardinality(T) <= Cardinality(S \cup {x}) /\ IsFiniteSet(T)
    BY <1>2, <2>1, FS_Subset
  <2> QED BY <2>1, <2>2, FS_CardinalityType
<1>3. ASSUME NEW x \in S, T \subseteq S \ {x} PROVE Cardinality(T) <= Cardinality(S) - 1
  <2>1. IsFiniteSet(S \ {x}) /\ Cardinality(S \ {x}) = Cardinality(S) - 1
    BY FS_RemoveElement
  <2> QED BY <1>3, <2>1, FS_Subset
<1> QED BY <1>1, <1>2, <1>3

\* A step that makes no entry and lets no thread into a raise promises no more.
LEMMA PromisedKept ==
  ASSUME NEW k, NEW l, NEW e, Held(l, e)' \subseteq Held(k, e), Coming(e)' \subseteq Coming(e)
  PROVE  Promised(l, e)' <= Promised(k, e)
<1>1. /\ Cardinality(Held(l, e)') <= Cardinality(Held(k, e))
      /\ Cardinality(Coming(e)') <= Cardinality(Coming(e))
  BY PromisedFinite, SizeSteps
<1> QED BY <1>1, PromisedFinite, PromisedFiniteNext DEF Promised

LEMMA CheckPromises ==
  ASSUME IInv, NEW t \in Setters, NEW e \in Events, RaiseCheck(t, e), NEW k, NEW f \in Events
  PROVE  /\ Promised(k, f)' <= Promised(k, f) + (IF f = e THEN 1 ELSE 0)
         /\ raised'[f] = raised[f] + (IF f = e THEN 1 ELSE 0)
<1>1. pc[t] = "idle" /\ slots' = slots /\ raised' = Bump(raised, {e})
  BY DEF RaiseCheck
<1>2. raised'[f] = raised[f] + (IF f = e THEN 1 ELSE 0)
  BY <1>1 DEF IInv, TypeOK, Bump
<1>3. Held(k, f)' = Held(k, f)
  BY <1>1 DEF Held, Live
<1>4. Coming(f)' \subseteq Coming(f) \cup {t} /\ (f # e => Coming(f)' \subseteq Coming(f))
  BY DEF RaiseCheck, AfterRaise, Coming, IInv, TypeOK
<1>5. Cardinality(Coming(f)') <= Cardinality(Coming(f)) + (IF f = e THEN 1 ELSE 0)
  <2>1. IsFiniteSet(Coming(f)) /\ Cardinality(Coming(f)) \in Nat /\ Cardinality(Coming(f)') \in Nat
    BY PromisedFinite, PromisedFiniteNext
  <2>2. CASE f = e
    BY <1>4, <2>1, <2>2, SizeSteps
  <2>3. CASE f # e
    BY <1>4, <2>1, <2>3, SizeSteps
  <2> QED BY <2>2, <2>3
<1> QED BY <1>2, <1>3, <1>5, PromisedFinite, PromisedFiniteNext DEF Promised

LEMMA ErasePromises ==
  ASSUME IInv, NEW t \in Setters, RaiseErase(t), NEW k, NEW f
  PROVE  Promised(k, f)' <= Promised(k, f)
<1>1. PICK i \in Slots : slots' = [slots EXCEPT ![i] = Empty]
  BY DEF RaiseErase
<1>2. Held(k, f)' \subseteq Held(k, f)
  BY <1>1 DEF Held, Live, Empty, IInv, TypeOK
<1>3. Coming(f)' \subseteq Coming(f)
  BY DEF RaiseErase, Coming, IInv, TypeOK
<1> QED BY <1>2, <1>3, PromisedKept

\* The entry filled was promised by the thread that fills it.
LEMMA FillPromises ==
  ASSUME IInv, NEW t \in Setters, RaiseFill(t), NEW k, NEW f
  PROVE  Promised(k, f)' <= Promised(k, f)
<1>1. /\ pc[t] = "erased" /\ slots' = [slots EXCEPT ![target[t]] = [Active(raising[t]) EXCEPT !.code = NoCode]]
      /\ pc' = [pc EXCEPT ![t] = "filled"] /\ raising' = raising
  BY DEF RaiseFill, callVars
<1>2. Coming(f)' \subseteq Coming(f) \ {t}
  BY <1>1 DEF Coming, IInv, TypeOK
<1>3. CASE f # raising[t]
  <2>1. Held(k, f)' \subseteq Held(k, f)
    BY <1>1, <1>3 DEF Held, Live, Active, IInv, TypeOK
  <2> QED BY <1>2, <2>1, PromisedKept
<1>4. CASE f = raising[t]
  <2>1. t \in Coming(f)
    BY <1>1, <1>4 DEF Coming
  <2>2. Cardinality(Coming(f)') <= Cardinality(Coming(f)) - 1
    BY <1>2, <2>1, PromisedFinite, SizeSteps
  <2>3. Held(k, f)' \subseteq Held(k, f) \cup {target[t]}
    BY <1>1 DEF Held, Live, Active, IInv, TypeOK
  <2>4. Cardinality(Held(k, f)') <= Cardinality(Held(k, f)) + 1
    BY <2>3, PromisedFinite, SizeSteps
  <2> QED BY <2>2, <2>4, PromisedFinite, PromisedFiniteNext DEF Promised
<1> QED BY <1>3, <1>4

LEMMA PublishPromises ==
  ASSUME IInv, NEW t \in Setters, RaisePublish(t), NEW k, NEW f
  PROVE  Promised(k, f)' <= Promised(k, f)
<1>1. Held(k, f)' = Held(k, f)
  BY DEF RaisePublish, Held, Live
<1>2. Coming(f)' \subseteq Coming(f)
  BY DEF RaisePublish, AfterRaise, Coming, IInv, TypeOK
<1> QED BY <1>1, <1>2, PromisedKept

LEMMA FundsType ==
  ASSUME IInv, NEW f \in Events
  PROVE  Funds(f) \in Nat /\ Funds(f) >= raised[f] /\ raised[f] \in Nat /\ reported[f] \in Nat
<1>1. raised[f] \in Nat /\ reported[f] \in Nat /\ assumed \in Nat
  BY DEF IInv, TypeOK
<1> QED BY <1>1 DEF Funds

\* ReportInv after a step that leaves the agent at slot m.
LEMMA ReportNext ==
  ASSUME NEW m, m = idx', \A f \in Events : reported'[f] + Promised(m, f)' <= Funds(f)'
  PROVE  ReportInv'
BY DEF ReportInv, Promised, Held, Funds

LEMMA RaiseCounts ==
  ASSUME IInv, CountsInv, NEW t \in Setters, Raise(t)
  PROVE  CountsInv'
<1>1. /\ reported' = reported /\ sent' = sent /\ flag' = flag /\ idx' = idx /\ elsize' = elsize
      /\ assumed' = assumed
  BY DEF Raise, RaiseCheck, RaiseErase, RaiseFill, RaisePublish, copyVars, globalVars, historyVars
<1>2. CopyInv'
  <2>1. count' = count \/ count' = count + 1
    BY DEF Raise, RaiseCheck, RaiseErase, RaiseFill, RaisePublish
  <2>2. \/ pc'[Agent] = pc[Agent]
        \/ /\ pc[Agent] \in {"idle", "checked", "erased", "filled"}
           /\ pc'[Agent] \in {"idle", "checked", "erased", "filled", "wiping"}
    BY SettersFinite
       DEF Raise, RaiseCheck, RaiseErase, RaiseFill, RaisePublish, AfterRaise, IInv, TypeOK
  <2> QED BY <1>1, <2>1, <2>2 DEF CountsInv, CopyInv, IInv, TypeOK
<1>3. ASSUME NEW f \in Events, NEW k
      PROVE  Promised(k, f)' - raised'[f] <= Promised(k, f) - raised[f]
             /\ Promised(k, f)' \in Nat /\ Promised(k, f) \in Nat
             /\ raised[f] \in Nat /\ raised'[f] \in Nat
  <2>1. Promised(k, f)' \in Nat /\ Promised(k, f) \in Nat /\ raised[f] \in Nat
    BY PromisedFinite, PromisedFiniteNext DEF IInv, TypeOK
  <2>2. CASE \E e \in Events : RaiseCheck(t, e)
    BY <2>1, <2>2, CheckPromises
  <2>3. CASE RaiseErase(t) \/ RaiseFill(t) \/ RaisePublish(t)
    <3>1. raised' = raised
      BY <2>3 DEF RaiseErase, RaiseFill, RaisePublish, historyVars
    <3> QED BY <2>1, <2>3, <3>1, ErasePromises, FillPromises, PublishPromises
  <2> QED BY <2>2, <2>3 DEF Raise
<1>4. ReportInv'
  <2>1. PICK k : k = idx
    OBVIOUS
  <2>2. ASSUME NEW f \in Events PROVE reported'[f] + Promised(k, f)' <= Funds(f)'
    <3>1. /\ reported[f] \in Nat /\ assumed \in Nat
          /\ reported[f] + Promised(k, f) <= raised[f] + (IF f = Boot THEN assumed ELSE 0)
      BY <2>1 DEF CountsInv, ReportInv, Funds, IInv, TypeOK
    <3>2. reported'[f] + Promised(k, f)' <= raised'[f] + (IF f = Boot THEN assumed ELSE 0)
      BY <1>1, <1>3, <3>1
    <3> QED BY <1>1, <3>2 DEF Funds
  <2> QED BY <1>1, <2>1, <2>2, ReportNext
<1>5. OweInv'
  <2>1. Transfer \in Events
    BY EventAssumption
  <2> QED BY <1>1, <1>3, <2>1 DEF CountsInv, OweInv, IInv, TypeOK
<1> QED BY <1>2, <1>4, <1>5 DEF CountsInv

----------------------------------------------------------------------------
(* The agent's steps. *)

\* The slot the copy passes leaves the ones still to be read.
LEMMA CopyReadReports ==
  ASSUME IInv, SlotInv, CountsInv, CopyRead
  PROVE  ReportInv'
<1>1. /\ UNCHANGED <<slots, raising, raised, assumed>>
      /\ \A f : Coming(f)' \subseteq Coming(f)
  BY DEF CopyRead, callVars, Coming, IInv, TypeOK
<1>k. PICK k : k = idx
  OBVIOUS
<1>2. /\ k \in Slots /\ idx' = k + 1 /\ reported' = Bump(reported, {slots[k].code})
      /\ Live(k) \/ slots[k].code = NoCode
  BY <1>k DEF CopyRead, SlotInv, ReadInv
<1> SUFFICES ASSUME NEW f \in Events
             PROVE  reported'[f] + Promised(k + 1, f)' <= Funds(f)'
  BY <1>2, ReportNext
<1>3. /\ reported[f] \in Nat /\ Funds(f) \in Nat /\ Funds(f)' = Funds(f)
      /\ reported[f] + Promised(k, f) <= Funds(f)
  BY <1>1, <1>k, FundsType DEF CountsInv, ReportInv, Funds
<1>4. Promised(k, f) \in Nat /\ Promised(k + 1, f)' \in Nat
  BY PromisedFinite, PromisedFiniteNext
<1>5. Held(k + 1, f)' \subseteq Held(k, f) /\ k \notin Held(k + 1, f)'
  BY <1>1, <1>2 DEF Held, Live, Slots
<1>6. CASE slots[k].code = f
  <2>1. reported'[f] = reported[f] + 1
    BY <1>2, <1>6 DEF Bump, IInv, TypeOK
  <2>2. k \in Held(k, f)
    <3>1. Live(k) /\ slots[k].event = f
      BY <1>2, <1>6, EventAssumption DEF SlotInv, CodeInv
    <3> QED BY <1>2, <3>1 DEF Held, Slots
  <2> DEFINE H == Held(k, f)  Hn == Held(k + 1, f)'  C == Coming(f)  Cn == Coming(f)'
  <2>3. /\ IsFiniteSet(H) /\ Cardinality(H) \in Nat /\ IsFiniteSet(C) /\ Cardinality(C) \in Nat
        /\ Cardinality(Hn) \in Nat /\ Cardinality(Cn) \in Nat
    BY PromisedFinite, PromisedFiniteNext
  <2>4. Hn \subseteq H \ {k} /\ Cn \subseteq C /\ k \in H
    BY <1>1, <1>5, <2>2
  <2>5. Promised(k, f) = Cardinality(H) + Cardinality(C)
        /\ Promised(k + 1, f)' = Cardinality(Hn) + Cardinality(Cn)
    BY DEF Promised
  <2> HIDE DEF H, Hn, C, Cn
  <2>6. Cardinality(Hn) <= Cardinality(H) - 1 /\ Cardinality(Cn) <= Cardinality(C)
    BY <2>3, <2>4, SizeSteps
  <2> QED BY <1>3, <2>1, <2>3, <2>5, <2>6
<1>7. CASE slots[k].code # f
  <2>1. reported'[f] = reported[f]
    BY <1>2, <1>7 DEF Bump, IInv, TypeOK
  <2>2. Promised(k + 1, f)' <= Promised(k, f)
    BY <1>1, <1>5, PromisedKept
  <2> QED BY <1>3, <1>4, <2>1, <2>2
<1> QED BY <1>6, <1>7

\* A slot that is not live is no entry, and one past the array is none either.
LEMMA CopyTestReports ==
  ASSUME IInv, CountsInv, CopyTest
  PROVE  ReportInv'
<1>1. /\ UNCHANGED <<slots, raising, raised, assumed, reported>>
      /\ \A f : Coming(f)' \subseteq Coming(f)
  BY DEF CopyTest, callVars, historyVars, Coming, IInv, TypeOK
<1>k. PICK k : k = idx
  OBVIOUS
<1>m. PICK m : m = idx'
  OBVIOUS
<1> SUFFICES ASSUME NEW f \in Events
             PROVE  reported'[f] + Promised(m, f)' <= Funds(f)'
  BY <1>m, ReportNext
<1>2. m = k \/ (k \in Slots /\ m = k + 1)
  BY <1>k, <1>m, SizeAssumption DEF CopyTest, Slots, IInv, TypeOK
<1>3. Held(m, f)' \subseteq Held(k, f)
  BY <1>1, <1>2 DEF Held, Live, Slots
<1>4. Promised(m, f)' <= Promised(k, f)
  BY <1>1, <1>3, PromisedKept
<1>5. /\ reported[f] \in Nat /\ Funds(f) \in Nat /\ Funds(f)' = Funds(f)
      /\ reported[f] + Promised(k, f) <= Funds(f)
  BY <1>1, <1>k, FundsType DEF CountsInv, ReportInv, Funds
<1> QED BY <1>1, <1>4, <1>5, PromisedFinite, PromisedFiniteNext

\* The BOOT of an Inform that met no entry is counted where it is assumed.
LEMMA CopyEndFunds ==
  ASSUME IInv, CopyEnd, NEW f \in Events
  PROVE  /\ reported'[f] \in Nat /\ Funds(f)' \in Nat
         /\ reported'[f] - reported[f] = Funds(f)' - Funds(f)
<1>1. reported[f] \in Nat /\ raised[f] \in Nat /\ assumed \in Nat /\ raised' = raised
  BY DEF CopyEnd, IInv, TypeOK
<1>2. CASE anyCopied
  BY <1>1, <1>2 DEF CopyEnd, Funds
<1>3. CASE ~anyCopied
  <2>1. assumed' = assumed + 1 /\ reported'[f] = IF f = Boot THEN reported[f] + 1 ELSE reported[f]
    BY <1>3 DEF CopyEnd, Bump, IInv, TypeOK
  <2> QED BY <1>1, <2>1 DEF Funds
<1> QED BY <1>2, <1>3

LEMMA InformCounts ==
  ASSUME IInv, SlotInv, CountsInv, CopyBegin \/ CopyTest \/ CopyRead \/ CopyEnd \/ FactoryReset \/ TransferCheck
  PROVE  CountsInv'
<1>1. /\ UNCHANGED <<slots, raising, raised>>
      /\ \A f : Coming(f)' \subseteq Coming(f)
  BY DEF CopyBegin, CopyTest, CopyRead, CopyEnd, FactoryReset, TransferCheck, callVars, historyVars,
     Coming, IInv, TypeOK
<1>2. CopyInv'
  BY SettersFinite, SizeAssumption
     DEF CopyBegin, CopyTest, CopyRead, CopyEnd, FactoryReset, TransferCheck, copyVars, callVars,
         CountsInv, CopyInv, IInv, TypeOK
<1>3. \A k, f : Promised(k, f)' <= Promised(k, f)
  <2>1. \A k, f : Held(k, f)' \subseteq Held(k, f)
    BY <1>1 DEF Held, Live
  <2> QED BY <1>1, <2>1, PromisedKept
<1>4. ReportInv'
  <2>1. CASE CopyTest \/ CopyRead
    BY <2>1, CopyTestReports, CopyReadReports
  <2>2. CASE CopyBegin \/ CopyEnd \/ FactoryReset \/ TransferCheck
    <3>1. PICK k : k = idx /\ k = idx'
      BY <2>2 DEF CopyBegin, CopyEnd, FactoryReset, TransferCheck, copyVars, CountsInv, CopyInv
    <3>2. ASSUME NEW f \in Events PROVE reported'[f] + Promised(k, f)' <= Funds(f)'
      <4>1. /\ reported[f] \in Nat /\ Funds(f) \in Nat /\ Promised(k, f) \in Nat
            /\ Promised(k, f)' \in Nat
        BY PromisedFinite, PromisedFiniteNext, FundsType
      <4>2. reported[f] + Promised(k, f) <= Funds(f)
        BY <3>1 DEF CountsInv, ReportInv
      <4>3. CASE CopyEnd
        BY <1>3, <4>1, <4>2, <4>3, CopyEndFunds
      <4>4. CASE ~CopyEnd
        <5>1. reported' = reported /\ Funds(f)' = Funds(f)
          BY <2>2, <4>4 DEF CopyBegin, FactoryReset, TransferCheck, historyVars, Funds
        <5> QED BY <1>3, <4>1, <4>2, <5>1
      <4> QED BY <4>3, <4>4
    <3> QED BY <3>1, <3>2, ReportNext
  <2> QED BY <2>1, <2>2
<1>5. OweInv'
  <2>1. /\ Promised(1, Transfer) \in Nat /\ Promised(1, Transfer)' \in Nat /\ sent \in Nat
        /\ raised[Transfer] \in Nat /\ Promised(1, Transfer)' <= Promised(1, Transfer)
    BY <1>3, PromisedFinite, PromisedFiniteNext, EventAssumption DEF IInv, TypeOK
  <2>2. \/ sent' = sent /\ flag' = flag
        \/ sent' = sent + 1 /\ "transfer" \in flag /\ "transfer" \notin flag'
    BY DEF CopyBegin, CopyTest, CopyRead, CopyEnd, FactoryReset, TransferCheck, globalVars, historyVars
  <2> QED BY <1>1, <2>1, <2>2 DEF CountsInv, OweInv
<1> QED BY <1>2, <1>4, <1>5 DEF CountsInv

\* The clearing pays for the flag with an entry it clears.
LEMMA ClearCounts ==
  ASSUME IInv, CountsInv, Clear
  PROVE  CountsInv'
<1>1. UNCHANGED <<raising, raised, reported, sent, assumed>>
  BY DEF Clear, callVars, historyVars
<1>2. \A f : Coming(f)' \subseteq Coming(f)
  BY <1>1 DEF Clear, Coming, IInv, TypeOK
<1>3. CASE count > Size
  <2>1. UNCHANGED <<slots, count, idx, elsize, flag>> /\ pc' = [pc EXCEPT ![Agent] = "wild"]
    BY <1>3 DEF Clear, copyVars, globalVars
  <2>2. CopyInv'
    BY <2>1, SettersFinite DEF CopyInv, IInv, TypeOK
  <2>3. \A k, f : Promised(k, f)' <= Promised(k, f)
    <3>1. \A k, f : Held(k, f)' \subseteq Held(k, f)
      BY <2>1 DEF Held, Live
    <3> QED BY <1>2, <3>1, PromisedKept
  <2>4. ReportInv'
    <3>k. PICK k : k = idx
      OBVIOUS
    <3>1. ASSUME NEW f \in Events PROVE reported'[f] + Promised(k, f)' <= Funds(f)'
      <4>1. /\ reported[f] \in Nat /\ Funds(f) \in Nat /\ Promised(k, f) \in Nat
            /\ Promised(k, f)' \in Nat /\ Funds(f)' = Funds(f)
        BY <1>1, PromisedFinite, PromisedFiniteNext, FundsType DEF Funds
      <4>2. reported[f] + Promised(k, f) <= Funds(f)
        BY <3>k DEF CountsInv, ReportInv
      <4> QED BY <1>1, <2>3, <4>1, <4>2
    <3> QED BY <2>1, <3>k, <3>1, ReportNext
  <2>5. OweInv'
    <3>1. /\ Promised(1, Transfer) \in Nat /\ Promised(1, Transfer)' \in Nat /\ sent \in Nat
          /\ raised[Transfer] \in Nat /\ Promised(1, Transfer)' <= Promised(1, Transfer)
      BY <2>3, PromisedFinite, PromisedFiniteNext, EventAssumption DEF IInv, TypeOK
    <3> QED BY <1>1, <2>1, <3>1 DEF CountsInv, OweInv
  <2> QED BY <2>2, <2>4, <2>5 DEF CountsInv
<1>4. CASE ~(count > Size)
  <2>1. /\ slots' = ClearedSlots /\ count' = 0 /\ elsize' = 0 /\ idx' = 1
        /\ pc' = [pc EXCEPT ![Agent] = "idle"] /\ flag' = flag \cup FlagBits(Visible)
    BY <1>4 DEF Clear
  <2>2. CopyInv'
    BY <2>1, SettersFinite DEF CopyInv, IInv, TypeOK
  <2>3. idx <= count + 1
    BY SettersFinite DEF Clear, CountsInv, CopyInv, IInv, TypeOK
  <2>4. ASSUME NEW f PROVE Held(1, f)' = {i \in Slots : i > count /\ Live(i) /\ slots[i].event = f}
    BY <2>1, SizeAssumption DEF Held, Live, ClearedSlots, Slots, IInv, TypeOK
  <2>5. ReportInv'
    <3>k. PICK k : k = idx
      OBVIOUS
    <3>1. ASSUME NEW f \in Events PROVE reported'[f] + Promised(1, f)' <= Funds(f)'
      <4>1. /\ reported[f] \in Nat /\ Funds(f) \in Nat /\ Promised(k, f) \in Nat
            /\ Promised(1, f)' \in Nat /\ Funds(f)' = Funds(f)
        BY <1>1, PromisedFinite, PromisedFiniteNext, FundsType DEF Funds
      <4>2. Held(1, f)' \subseteq Held(k, f)
        <5>1. k \in Nat /\ count \in Nat /\ k <= count + 1
          BY <2>3, <3>k DEF IInv, TypeOK
        <5>2. ASSUME NEW i \in Slots, i > count PROVE k <= i
          BY <5>1, <5>2 DEF Slots
        <5> QED BY <2>4, <5>2 DEF Held
      <4>3. Promised(1, f)' <= Promised(k, f)
        BY <1>2, <4>2, PromisedKept
      <4>4. reported[f] + Promised(k, f) <= Funds(f)
        BY <3>k DEF CountsInv, ReportInv
      <4> QED BY <1>1, <4>1, <4>3, <4>4
    <3> QED BY <2>1, <3>1, ReportNext
  <2>6. OweInv'
    <3> DEFINE H == Held(1, Transfer)  Hn == Held(1, Transfer)'
               C == Coming(Transfer)  Cn == Coming(Transfer)'
    <3>1. /\ IsFiniteSet(H) /\ Cardinality(H) \in Nat /\ IsFiniteSet(C) /\ Cardinality(C) \in Nat
          /\ Cardinality(Hn) \in Nat /\ Cardinality(Cn) \in Nat
      BY PromisedFinite, PromisedFiniteNext
    <3>2. /\ Promised(1, Transfer) = Cardinality(H) + Cardinality(C)
          /\ Promised(1, Transfer)' = Cardinality(Hn) + Cardinality(Cn)
      BY DEF Promised
    <3>3. Hn \subseteq H /\ Cn \subseteq C
      BY <1>2, <2>4 DEF Held, Slots
    <3>4. sent \in Nat /\ raised[Transfer] \in Nat
      BY EventAssumption DEF IInv, TypeOK
    <3>5. CASE Transfer \notin Visible
      <4>1. "transfer" \in flag' <=> "transfer" \in flag
        BY <2>1, <3>5 DEF FlagBits
      <4>2. Cardinality(Hn) <= Cardinality(H) /\ Cardinality(Cn) <= Cardinality(C)
        BY <3>1, <3>3, SizeSteps
      <4> HIDE DEF H, Hn, C, Cn
      <4> QED BY <1>1, <3>1, <3>2, <3>4, <4>1, <4>2 DEF CountsInv, OweInv
    <3>6. CASE Transfer \in Visible
      <4>1. PICK i \in Slots : i <= count /\ Live(i) /\ slots[i].event = Transfer
        BY <3>6 DEF Visible
      <4>2. i \in H /\ Hn \subseteq H \ {i}
        <5>1. i \in H /\ 1 <= i
          BY <4>1 DEF Held, Slots
        <5>2. i \notin Hn
          BY <2>4, <4>1, SizeAssumption DEF Slots, IInv, TypeOK
        <5> QED BY <3>3, <5>1, <5>2
      <4>3. Cardinality(Hn) <= Cardinality(H) - 1 /\ Cardinality(Cn) <= Cardinality(C)
        BY <3>1, <3>3, <4>2, SizeSteps
      <4> HIDE DEF H, Hn, C, Cn
      <4> QED BY <1>1, <3>1, <3>2, <3>4, <4>3 DEF CountsInv, OweInv
    <3> QED BY <3>5, <3>6
  <2> QED BY <2>2, <2>5, <2>6 DEF CountsInv
<1> QED BY <1>3, <1>4

----------------------------------------------------------------------------
(* A fresh process. *)

\* The one entry a fresh list holds, BOOTSTRAP, was raised with it.
LEMMA FreshPromises ==
  ASSUME NEW k, NEW f, slots' = FreshSlots(<<Bootstrap>>), pc' = [t \in Setters |-> "idle"]
  PROVE  Promised(k, f)' <= (IF f = Bootstrap THEN 1 ELSE 0)
<1>1. Coming(f)' = {}
  BY DEF Coming
<1>2. Held(k, f)' \subseteq (IF f = Bootstrap THEN {1} ELSE {})
  BY DEF Held, Live, FreshSlots, Active, Empty, Slots
<1>3. Cardinality(Held(k, f)') <= (IF f = Bootstrap THEN 1 ELSE 0)
  <2>1. IsFiniteSet({}) /\ Cardinality({}) = 0
    BY FS_EmptySet
  <2>2. CASE f = Bootstrap
    <3>1. IsFiniteSet({1}) /\ Cardinality({1}) = 1 /\ Held(k, f)' \in SUBSET {1}
      BY <1>2, <2>2, FS_Singleton
    <3>2. Cardinality(Held(k, f)') <= Cardinality({1})
      BY <3>1, FS_Subset
    <3> QED BY <2>2, <3>1, <3>2
  <2>3. CASE f # Bootstrap
    BY <1>2, <2>1, <2>3
  <2> QED BY <2>2, <2>3
<1> QED BY <1>1, <1>3, FS_EmptySet, PromisedFiniteNext DEF Promised

LEMMA RestartCounts ==
  ASSUME IInv, CountsInv, Restart
  PROVE  CountsInv'
<1>1. /\ slots' = FreshSlots(<<Bootstrap>>) /\ flag' = {"bootstrap"} /\ FreshThreads
      /\ raised' = Bump(raised, FreshKinds(<<Bootstrap>>)) /\ UNCHANGED <<reported, sent, assumed>>
  BY FreshEventsValue DEF Restart
<1>2. FreshKinds(<<Bootstrap>>) = {Bootstrap}
  BY DEF FreshKinds
<1>3. idx' = 1 /\ pc' = [t \in Setters |-> "idle"]
  BY <1>1 DEF FreshThreads
<1>4. CopyInv'
  BY <1>3, SettersFinite DEF CopyInv
<1>5. ASSUME NEW f \in Events
      PROVE  /\ raised[f] \in Nat /\ raised'[f] = raised[f] + (IF f = Bootstrap THEN 1 ELSE 0)
             /\ Promised(1, f)' \in Nat /\ Promised(1, f)' <= (IF f = Bootstrap THEN 1 ELSE 0)
  BY <1>1, <1>2, <1>3, FreshPromises, PromisedFiniteNext DEF Bump, IInv, TypeOK
<1>6. ASSUME NEW f \in Events PROVE reported'[f] + Promised(1, f)' <= Funds(f)'
  <2>1. PICK k : k = idx
    OBVIOUS
  <2>2. PICK a \in Nat : a = IF f = Boot THEN assumed ELSE 0
    BY DEF IInv, TypeOK
  <2>3. /\ reported[f] \in Nat /\ Promised(k, f) \in Nat
        /\ reported[f] + Promised(k, f) <= raised[f] + a
    BY <2>1, <2>2, PromisedFinite DEF CountsInv, ReportInv, Funds, IInv, TypeOK
  <2>4. Funds(f)' = raised'[f] + a
    BY <1>1, <2>2 DEF Funds
  <2> QED BY <1>1, <1>5, <2>3, <2>4
<1>7. OweInv'
  <2>1. Promised(1, Transfer) \in Nat /\ sent \in Nat /\ Transfer \in Events
    BY PromisedFinite, EventAssumption DEF IInv, TypeOK
  <2> QED BY <1>1, <1>5, <2>1 DEF CountsInv, OweInv
<1> QED BY <1>3, <1>4, <1>6, <1>7, ReportNext DEF CountsInv

\* A fresh list owes what it was made with.
LEMMA InitCounts == Init => CountsInv
<1> SUFFICES ASSUME Init PROVE CountsInv
  OBVIOUS
<1>1. CopyInv
  BY SettersFinite DEF Init, CopyInv
<1>2. ASSUME NEW f \in Events PROVE Promised(1, f) <= raised[f] /\ Promised(1, f) \in Nat
  <2>1. Coming(f) = {}
    BY DEF Coming, Init
  <2>2. Held(1, f) \subseteq (IF f = Bootstrap THEN {1} ELSE {})
    BY DEF Held, Live, FreshSlots, Active, Empty, Slots, Init
  <2>3. Cardinality(Held(1, f)) <= (IF f = Bootstrap THEN 1 ELSE 0)
    <3>1. CASE f = Bootstrap
      <4>1. IsFiniteSet({1}) /\ Cardinality({1}) = 1 /\ Held(1, f) \in SUBSET {1}
        BY <2>2, <3>1, FS_Singleton
      <4>2. Cardinality(Held(1, f)) <= Cardinality({1})
        BY <4>1, FS_Subset
      <4> QED BY <3>1, <4>1, <4>2
    <3>2. CASE f # Bootstrap
      BY <2>2, <3>2, FS_EmptySet
    <3> QED BY <3>1, <3>2
  <2>4. raised[f] = IF f = Bootstrap THEN 1 ELSE 0
    BY DEF Init
  <2> QED BY <2>1, <2>3, <2>4, FS_EmptySet, PromisedFinite DEF Promised
<1>3. ReportInv
  <2>1. ASSUME NEW f \in Events PROVE reported[f] + Promised(1, f) <= Funds(f)
    BY <1>2 DEF Init, Funds
  <2> QED BY <2>1 DEF Init, ReportInv
<1>4. OweInv
  BY <1>2, EventAssumption DEF Init, OweInv
<1> QED BY <1>1, <1>3, <1>4 DEF CountsInv

LEMMA NextCounts == IInv /\ SlotInv /\ CountsInv /\ [Next]_vars => CountsInv'
<1> SUFFICES ASSUME IInv, SlotInv, CountsInv, [Next]_vars PROVE CountsInv'
  OBVIOUS
<1>1. CASE UNCHANGED vars
  BY <1>1 DEF vars, callVars, copyVars, globalVars, historyVars, CountsInv, CopyInv, ReportInv,
     OweInv, Promised, Held, Live, Coming, Funds
<1>2. CASE \E t \in Setters : Raise(t)
  BY <1>2, RaiseCounts
<1>3. CASE Inform \/ FactoryReset \/ TransferCheck
  BY <1>3, InformCounts, ClearCounts DEF Inform
<1>4. CASE Restart
  BY <1>4, RestartCounts
<1> QED BY <1>1, <1>2, <1>3, <1>4 DEF Next

\* Every entry reported and every message told was paid for by a raise.
THEOREM EventListCounts == Spec => []CountsInv
<1>1. QED
  BY InitCounts, NextCounts, EventListInvariant, EventListSlots, PTL DEF Spec

\* No event is put into more Informs than it was raised, for any length of the
\* list, any threads that erase and rewrite slots between the agent's test of
\* one and its reading, and any restarts; BOOT may be reported once more for
\* each Inform that met no entry.
THEOREM EventReportedAtMostRaised == Spec => []ReportedAtMostRaised
<1>1. IInv /\ CountsInv => ReportedAtMostRaised
  <2>1. ASSUME IInv, CountsInv, NEW e \in Events PROVE reported[e] <= Funds(e)
    <3>1. PICK k : k = idx
      OBVIOUS
    <3>2. reported[e] + Promised(k, e) <= Funds(e)
      BY <2>1, <3>1 DEF CountsInv, ReportInv
    <3> QED BY <2>1, <3>2, PromisedFinite, FundsType
  <2> QED BY <2>1 DEF ReportedAtMostRaised, Funds
<1> QED BY <1>1, EventListInvariant, EventListCounts, PTL

\* At most one TransferComplete goes out for a finished transfer, though one
\* kind may hold several slots of the list and the flags outlive it.
THEOREM EventTransferSentOnce == Spec => []TransferSentOnce
<1>1. IInv /\ CountsInv => TransferSentOnce
  BY PromisedFinite, EventAssumption DEF IInv, TypeOK, CountsInv, OweInv, TransferSentOnce
<1> QED BY <1>1, EventListInvariant, EventListCounts, PTL

----------------------------------------------------------------------------
(* Raises that read count when it was what it still is. *)

\* Erasing a slot of its own kind, or one past the count, hides no other event.
LEMMA EraseHidesNothing ==
  ASSUME IInv, NEW t \in Setters, RaiseErase(t), count <= seen[t]
  PROVE  Visible \ {raising[t]} \subseteq Visible'
<1>1. PICK i \in Slots : TakesSlot(t, i) /\ slots' = [slots EXCEPT ![i] = Empty]
  BY DEF RaiseErase
<1>2. slots[i].event = raising[t] \/ i > count
  BY <1>1 DEF TakesSlot, Holds, Slots, IInv, TypeOK
<1>3. count' = count
  BY DEF RaiseErase
<1>4. ASSUME NEW j \in Slots, j <= count, Live(j), slots[j].event # raising[t]
      PROVE  j <= count' /\ Live(j)' /\ slots'[j].event = slots[j].event
  <2>1. j # i
    BY <1>2, <1>4 DEF Slots, IInv, TypeOK
  <2> QED BY <1>1, <1>3, <1>4, <2>1 DEF Live, IInv, TypeOK
<1> QED BY <1>4 DEF Visible

LEMMA PublishShows ==
  ASSUME IInv, SlotInv, NEW t \in Setters, RaisePublish(t), count = seen[t]
  PROVE  Visible \cup {raising[t]} \subseteq Visible'
<1>1. PICK i \in Slots : i = target[t]
  BY DEF IInv, TypeOK
<1>2. /\ count' = count + 1 /\ count \in Nat
      /\ \A j \in Slots : slots'[j].event = slots[j].event /\ slots'[j].ref = slots[j].ref
  BY DEF RaisePublish, IInv, TypeOK
<1>3. i <= count' /\ Live(i)' /\ slots'[i].event = raising[t]
  <2>1. i <= seen[t] + 1 /\ slots[i].event = raising[t] /\ slots[i].ref = 1
    BY <1>1 DEF RaisePublish, SlotInv, WriterInv, Uncoded
  <2> QED BY <1>2, <2>1 DEF Live
<1>4. ASSUME NEW j \in Slots, j <= count, Live(j)
      PROVE j <= count' /\ Live(j)' /\ slots'[j].event = slots[j].event
  BY <1>2, <1>4 DEF Live, Slots
<1> QED BY <1>2, <1>3, <1>4 DEF Visible

\* A raise that finds count as it read it keeps every event of the list and
\* adds its own, whatever the threads that raised, copied or cleared between.
THEOREM EventFreshRaiseKeepsList == Spec => FreshRaiseKeepsList
<1>1. IInv /\ SlotInv /\ [Next]_vars =>
        [\A t \in Setters :
           /\ RaiseErase(t) /\ count <= seen[t] => Visible \ {raising[t]} \subseteq Visible'
           /\ RaisePublish(t) /\ count = seen[t] => Visible \cup {raising[t]} \subseteq Visible']_vars
  BY EraseHidesNothing, PublishShows
<1> QED BY <1>1, EventListInvariant, EventListSlots, PTL DEF Spec, FreshRaiseKeepsList
=============================================================================
