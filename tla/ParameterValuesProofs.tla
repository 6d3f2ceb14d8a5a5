------------------------- MODULE ParameterValuesProofs -------------------------
(***************************************************************************)
(* For any number of threads, parameters and commands: the types, and that *)
(* the text under a pointer that left value_mutex is still what it was     *)
(* when it is used; that a value and its copies agree when no set is under *)
(* way, and that a set outlives the process.                               *)
(***************************************************************************)
EXTENDS ParameterValues, TLAPS

\* Every pointer is below the free space.
BelowLast == /\ \A p \in Params : node[p] < last
             /\ \A t \in Threads : cell[t] < last

\* Who is inside pool_palloc is there alone, and read where the space begins.
OneAllocates ==
  \A t \in Threads : pc[t] \in Allocating =>
     /\ seen[t] = last
     /\ \A u \in Threads \ {t} : pc[u] \notin Allocating

\* Nobody else points to a name that is still to be cut.
NamesApart ==
  \A t \in Threads : pc[t] \in {"ask", "tell"} =>
     /\ cell[t] # NULL
     /\ \A p \in Params : node[p] # cell[t]
     /\ \A u \in Threads \ {t} : cell[u] # cell[t]

TextsKept == \A t \in Threads : pc[t] = "use" => TextAt(cell[t]) = got[t]

Unraced == ~raced => BelowLast /\ OneAllocates /\ NamesApart /\ TextsKept

IInv == TypeOK /\ Unraced

\* The cells are 1..TopCell, in terms the provers need not multiply in.
LEMMA CellsFacts ==
  /\ Cells \subseteq Nat \ {0}
  /\ Params \subseteq Cells
  /\ \A c \in Cells : c + 1 \in Cells \cup {NParams + 2 * MaxItems + 1}
  /\ NParams + 1 \in Cells \cup {NParams + 2 * MaxItems + 1}
  /\ NParams + 2 * MaxItems + 1 \in Nat \ {0}
  /\ 1 \in Params
  /\ \A p \in Params : p < NParams + 1
  BY SizesAreNaturals DEF Cells, Params

\* Pointers can be compared.
LEMMA PointersAreNaturals == \A c \in Cells \cup {NULL} : c \in Nat
  BY DEF Cells, NULL

\* What a process loads is of the right types, and below the free space.
LEMMA LoadedFacts ==
  ASSUME NEW s \in [Keys -> Strings]
  PROVE  /\ LoadedNode(s) \in [Params -> Cells \cup {NULL}]
         /\ LoadedMem(s) \in [Cells -> Strings \cup {Text}]
         /\ \A p \in Params : LoadedNode(s)[p] < NParams + 1
         /\ NoCall \in [op : {"get", "set"}, p : Params, v : Strings]
<1>1. /\ LoadedNode(s) \in [Params -> Cells \cup {NULL}]
      /\ \A p \in Params : LoadedNode(s)[p] < NParams + 1
  BY CellsFacts, SizesAreNaturals DEF LoadedNode, NULL
<1>2. LoadedMem(s) \in [Cells -> Strings \cup {Text}]
  <2>1. ASSUME NEW c \in Cells, c \in Params, Key[c] # NoKey
        PROVE  s[Key[c]] \in Strings
    BY <2>1, KeyIsTotal
  <2>2. QED
    BY <2>1 DEF LoadedMem
<1>3. NoCall \in [op : {"get", "set"}, p : Params, v : Strings]
  BY CellsFacts DEF NoCall, Strings
<1>4. QED
  BY <1>1, <1>2, <1>3

LEMMA InitTypes == Init => TypeOK
<1> SUFFICES ASSUME Init PROVE TypeOK
  OBVIOUS
<1>1. sys \in [Keys -> Strings]
  BY DEF Init
<1>2. /\ node \in [Params -> Cells \cup {NULL}]
      /\ mem \in [Cells -> Strings \cup {Text}]
      /\ call \in [Threads -> [op : {"get", "set"}, p : Params, v : Strings]]
  BY <1>1, LoadedFacts DEF Init, Loaded
<1>3. /\ last \in Cells \cup {NParams + 2 * MaxItems + 1}
      /\ items \in 0..MaxItems
      /\ restarts \in 0..MaxRestarts
  BY CellsFacts, SizesAreNaturals DEF Init, Loaded
<1>4. QED
  BY <1>1, <1>2, <1>3 DEF Init, Loaded, TypeOK, PCs, Strings

-----------------------------------------------------------------------------
\* Every step keeps the types.
LEMMA NextTypes == TypeOK /\ [Next]_vars => TypeOK'
<1> SUFFICES ASSUME TypeOK, [Next]_vars PROVE TypeOK'
  OBVIOUS
<1> USE DEF TypeOK
<1> DEFINE Calls == [op : {"get", "set"}, p : Params, v : Strings]
<1>a. ASSUME NEW t \in Threads PROVE call[t].p \in Params /\ call[t].v \in Strings
  OBVIOUS
<1>b. /\ "idle" \in PCs /\ "nameRead" \in PCs /\ "nameTake" \in PCs /\ "ask" \in PCs
      /\ "lock" \in PCs /\ "valRead" \in PCs /\ "valTake" \in PCs /\ "deliver" \in PCs
      /\ "use" \in PCs /\ "saveConf" \in PCs /\ "saveXml" \in PCs /\ "tell" \in PCs
  BY DEF PCs, Inside, Untold
<1>c. ASSUME NEW t \in Threads PROVE AfterStore(t) \in PCs
  BY <1>b DEF AfterStore
<1>d. ASSUME NEW t \in Threads, NEW text \in Strings \cup {Text}, TakeCell(t, text)
      PROVE  /\ last' \in Cells \cup {NParams + 2 * MaxItems + 1}
             /\ mem' \in [Cells -> Strings \cup {Text}]
             /\ seen[t] \in Cells
  BY <1>d, CellsFacts DEF TakeCell
<1>e. NoCall \in Calls
  BY LoadedFacts, CellsFacts DEF NoCall, Strings
<1>f. ASSUME NEW c \in Cells \cup {NULL} PROVE TextAt(c) \in Strings \cup {Text}
  BY DEF TextAt, Strings
<1>1. ASSUME NEW t \in Threads, GetBegin(t) PROVE TypeOK'
  BY <1>1, <1>b, SizesAreNaturals DEF GetBegin, store, copies, Strings
<1>2. ASSUME NEW t \in Threads, SetBegin(t) PROVE TypeOK'
  BY <1>2, <1>b, SizesAreNaturals DEF SetBegin, store, copies
<1>3. ASSUME NEW t \in Threads, NameRead(t) PROVE TypeOK'
  BY <1>3, <1>b DEF NameRead, ReadLast, store, copies
<1>4. ASSUME NEW t \in Threads, NameTake(t) PROVE TypeOK'
  BY <1>4, <1>b, <1>d DEF NameTake, copies, history
<1>5. ASSUME NEW t \in Threads, Ask(t) PROVE TypeOK'
  BY <1>5, <1>b DEF Ask, copies, history
<1>6. ASSUME NEW t \in Threads, LockGet(t) PROVE TypeOK'
  <2>1. call' \in [Threads -> Calls]
    <3>1. CASE call[t].p \in Device
      <4>1. PICK v \in {device[call[t].p], Empty} : call' = [call EXCEPT ![t].v = v]
        BY <1>6, <3>1 DEF LockGet
      <4>2. device[call[t].p] \in Values
        BY <3>1
      <4>3. v \in Strings
        BY <4>1, <4>2 DEF Strings
      <4>4. QED
        BY <4>1, <4>3
    <3>2. QED
      BY <1>6, <3>1 DEF LockGet
  <2>2. /\ \E n \in PCs : pc' = [pc EXCEPT ![t] = n]
        /\ mutex' = t
        /\ UNCHANGED <<seen, cell, got, last, mem, node, copies, history>>
    BY <1>6, <1>b DEF LockGet
  <2>3. QED
    BY <2>1, <2>2 DEF copies, history
<1>7. ASSUME NEW t \in Threads, LockSet(t) PROVE TypeOK'
  <2>1. device' \in [Device -> Values]
    BY <1>7, <1>a DEF LockSet, Strings
  <2>2. QED
    BY <1>7, <1>b, <2>1 DEF LockSet, history
<1>8. ASSUME NEW t \in Threads, StoreNull(t) PROVE TypeOK'
  BY <1>8, <1>a, <1>c DEF StoreNull, copies, history
<1>9. ASSUME NEW t \in Threads, ValRead(t) PROVE TypeOK'
  BY <1>9, <1>b DEF ValRead, ReadLast, store, copies
<1>10. ASSUME NEW t \in Threads, ValTake(t) PROVE TypeOK'
  BY <1>10, <1>a, <1>c, <1>d DEF ValTake, copies, history
<1>11. ASSUME NEW t \in Threads, Deliver(t) PROVE TypeOK'
  <2>1. node[call[t].p] \in Cells \cup {NULL}
    BY <1>a
  <2>2. TextAt(node[call[t].p]) \in Strings \cup {Text}
    BY <2>1, <1>f
  <2>3. QED
    BY <1>11, <1>b, <2>1, <2>2 DEF Deliver, copies, history
<1>12. ASSUME NEW t \in Threads, Use(t) PROVE TypeOK'
  BY <1>12, <1>b, <1>e DEF Use, Return, store, copies, history, Strings
<1>13. ASSUME NEW t \in Threads, SaveConf(t) PROVE TypeOK'
  BY <1>13, <1>a, <1>b DEF SaveConf, store
<1>14. ASSUME NEW t \in Threads, SaveXml(t) PROVE TypeOK'
  BY <1>14, <1>a, <1>b DEF SaveXml
<1>15. ASSUME NEW t \in Threads, Tell(t) PROVE TypeOK'
  BY <1>15, <1>a, <1>b, <1>e DEF Tell, Return, Strings
<1>16. CASE DeviceChanges
  BY <1>16 DEF DeviceChanges, thread, store, history
<1>17. CASE Restart
  <2>1. /\ node' \in [Params -> Cells \cup {NULL}]
        /\ mem' \in [Cells -> Strings \cup {Text}]
        /\ call' \in [Threads -> Calls]
    BY <1>17, <1>e, LoadedFacts DEF Restart
  <2>2. /\ last' \in Cells \cup {NParams + 2 * MaxItems + 1}
        /\ restarts' \in 0..MaxRestarts
    BY <1>17, CellsFacts, SizesAreNaturals DEF Restart
  <2>3. QED
    BY <1>17, <1>b, <2>1, <2>2 DEF Restart, Strings
<1>18. CASE UNCHANGED vars
  BY <1>18 DEF vars, thread, store, copies, history
<1>19. QED
  BY <1>1, <1>2, <1>3, <1>4, <1>5, <1>6, <1>7, <1>8, <1>9, <1>10, <1>11, <1>12, <1>13,
     <1>14, <1>15, <1>16, <1>17, <1>18 DEF Next, Step

\* Program counters, locals, the memory and its copies keep their types.
THEOREM ParameterTypes == Spec => []TypeOK
<1>1. QED
  BY InitTypes, NextTypes, PTL DEF Spec

-----------------------------------------------------------------------------
LEMMA InitUnraced == Init => Unraced
  BY LoadedFacts, CellsFacts, SizesAreNaturals
     DEF Init, Loaded, Unraced, BelowLast, OneAllocates, NamesApart, TextsKept,
         Allocating, NULL

\* A string is written where nobody points to: the texts under all pointers stay.
LEMMA FreshTake ==
  ASSUME TypeOK, NEW t \in Threads, NEW text, seen[t] = last,
         TakeCell(t, text), NEW c \in Cells \cup {NULL}, c < last
  PROVE  (IF c = NULL THEN Empty ELSE mem'[c]) = TextAt(c)
<1>1. CASE c = NULL
  BY <1>1 DEF TextAt
<1>2. CASE c # NULL
  <2>1. c # seen[t] /\ c \in Cells
    BY <1>2, CellsFacts DEF TypeOK
  <2>2. mem'[c] = mem[c]
    BY <2>1 DEF TakeCell, TypeOK
  <2>3. QED
    BY <1>2, <2>2 DEF TextAt
<1>3. QED
  BY <1>1, <1>2

\* Cutting a name changes the text under no other pointer.
LEMMA CutKeeps ==
  ASSUME TypeOK, NEW t \in Threads,
         mem' = [mem EXCEPT ![cell[t]] = Text],
         NEW c \in Cells \cup {NULL}, c # cell[t]
  PROVE  (IF c = NULL THEN Empty ELSE mem'[c]) = TextAt(c)
  BY DEF TextAt, TypeOK

LEMMA NextUnraced == IInv /\ [Next]_vars => Unraced'
<1> SUFFICES ASSUME TypeOK, Unraced, [Next]_vars, ~raced' PROVE Unraced'
  BY DEF IInv, Unraced
<1>0. ASSUME ~Restart PROVE ~raced
  BY <1>0 DEF Next, Step, GetBegin, SetBegin, NameRead, NameTake, Ask, LockGet, LockSet,
       StoreNull, ValRead, ValTake, Deliver, Use, SaveConf, SaveXml, Tell, DeviceChanges,
       ReadLast, history, vars
<1>r. CASE Restart
  BY <1>r, LoadedFacts, CellsFacts, SizesAreNaturals
     DEF Restart, TypeOK, Unraced, BelowLast, OneAllocates, NamesApart, TextsKept,
         Allocating, NULL
<1>s. CASE ~Restart
  <2> BelowLast /\ OneAllocates /\ NamesApart /\ TextsKept
    BY <1>s, <1>0 DEF Unraced
  <2>a. ASSUME NEW t \in Threads
        PROVE  /\ cell[t] \in Cells \cup {NULL} /\ call[t].p \in Params
               /\ cell[t] \in Nat /\ last \in Nat /\ NULL < last
    <3>1. cell[t] \in Cells \cup {NULL} /\ call[t].p \in Params
      BY DEF TypeOK
    <3>2. last \in Nat \ {0}
      BY CellsFacts DEF TypeOK
    <3>3. cell[t] \in Nat
      BY <3>1, PointersAreNaturals
    <3>4. QED
      BY <3>1, <3>2, <3>3 DEF NULL
  <2>b. ASSUME NEW p \in Params PROVE node[p] \in Cells \cup {NULL} /\ node[p] \in Nat
    <3>1. node[p] \in Cells \cup {NULL}
      BY DEF TypeOK
    <3>2. QED
      BY <3>1, PointersAreNaturals
  \* What a step that only moves a thread has to show.
  <2>c. ASSUME UNCHANGED <<mem, node, last, seen>>, NEW t \in Threads,
               \/ UNCHANGED <<cell, got>>
               \/ /\ pc'[t] # "use"
                  /\ cell' = [cell EXCEPT ![t] = NULL]
                  /\ got' = [got EXCEPT ![t] = Empty],
               \E n \in PCs \ (Allocating \cup {"ask", "tell", "use"}) :
                  pc' = [pc EXCEPT ![t] = n]
        PROVE  Unraced'
    <3>1. /\ pc'[t] \notin Allocating \cup {"ask", "tell", "use"}
          /\ \A u \in Threads \ {t} : pc'[u] = pc[u]
      BY <2>c DEF TypeOK
    <3>2. /\ \A u \in Threads : cell'[u] = cell[u] \/ cell'[u] = NULL
          /\ \A u \in Threads \ {t} : cell'[u] = cell[u] /\ got'[u] = got[u]
      BY <2>c DEF TypeOK
    <3>3. BelowLast'
      BY <2>a, <2>c, <3>2 DEF BelowLast
    <3>4. OneAllocates'
      BY <2>c, <3>1 DEF OneAllocates
    <3>5. NamesApart'
      BY <2>c, <3>1, <3>2 DEF NamesApart
    <3>6. TextsKept'
      BY <2>c, <3>1, <3>2 DEF TextsKept, TextAt
    <3>7. QED
      BY <3>3, <3>4, <3>5, <3>6 DEF Unraced
  <2>1. ASSUME NEW t \in Threads, GetBegin(t) \/ SetBegin(t) PROVE Unraced'
    BY <2>1, <2>c DEF GetBegin, SetBegin, store, PCs, Inside, Untold, Allocating
  <2>2. ASSUME NEW t \in Threads, LockGet(t) \/ LockSet(t) PROVE Unraced'
    BY <2>2, <2>c DEF LockGet, LockSet, PCs, Inside, Untold, Allocating
  <2>3. ASSUME NEW t \in Threads, SaveConf(t) \/ SaveXml(t) PROVE Unraced'
    BY <2>3, <2>c DEF SaveConf, SaveXml, store, PCs, Inside, Untold, Allocating
  <2>4. ASSUME NEW t \in Threads, Use(t) PROVE Unraced'
    BY <2>4, <2>a DEF Use, Return, store, history, TypeOK, Unraced, BelowLast, OneAllocates,
                      NamesApart, TextsKept, TextAt, NULL, Allocating
  <2>5. ASSUME NEW t \in Threads, NameRead(t) \/ ValRead(t) PROVE Unraced'
    <3>1. /\ pc'[t] \in Allocating /\ seen'[t] = last
          /\ \A u \in Threads \ {t} : pc'[u] = pc[u] /\ seen'[u] = seen[u]
          /\ UNCHANGED <<cell, got, mem, node, last>>
      BY <2>5 DEF NameRead, ValRead, ReadLast, store, TypeOK, Allocating
    <3>2. \A u \in Threads \ {t} : pc[u] \notin Allocating
      BY <2>5 DEF NameRead, ValRead, ReadLast
    <3>3. BelowLast' /\ OneAllocates'
      BY <3>1, <3>2 DEF BelowLast, OneAllocates
    <3>4. NamesApart' /\ TextsKept'
      BY <3>1 DEF NamesApart, TextsKept, TextAt, Allocating
    <3>5. QED
      BY <3>3, <3>4 DEF Unraced
  <2>6. ASSUME NEW t \in Threads, StoreNull(t) PROVE Unraced'
    BY <2>6, <2>a DEF StoreNull, AfterStore, TypeOK, Unraced, BelowLast,
                      OneAllocates, NamesApart, TextsKept, TextAt, Allocating, NULL
  <2>7. ASSUME NEW t \in Threads, Deliver(t) PROVE Unraced'
    BY <2>7, <2>a, <2>b DEF Deliver, TypeOK, Unraced, BelowLast,
                      OneAllocates, NamesApart, TextsKept, TextAt, Allocating, NULL
  <2>8. ASSUME NEW t \in Threads, NameTake(t) PROVE Unraced'
    <3>1. seen[t] = last /\ TakeCell(t, Text)
      BY <2>8 DEF NameTake, OneAllocates, Allocating
    <3>2. \A u \in Threads \ {t} : pc'[u] \notin Allocating
      BY <2>8 DEF NameTake, OneAllocates, Allocating, TypeOK
    <3>3. last' = last + 1 /\ last \in Cells
      BY <3>1 DEF TakeCell
    <3>4. pc'[t] \in {"ask", "tell"} /\ \A u \in Threads \ {t} : pc'[u] = pc[u]
      BY <2>8 DEF NameTake, TypeOK
    <3>5. cell'[t] = last /\ \A u \in Threads \ {t} : cell'[u] = cell[u]
      BY <2>8, <3>1 DEF NameTake, TypeOK
    <3>6. BelowLast'
      BY <2>8, <2>a, <2>b, <3>3, <3>5 DEF BelowLast, NameTake
    <3>7. OneAllocates'
      BY <3>2, <3>4 DEF OneAllocates, Allocating
    <3>8. NamesApart'
      BY <2>8, <2>a, <2>b, <3>4, <3>5 DEF NamesApart, BelowLast, NameTake
    <3>9. TextsKept'
      <4> SUFFICES ASSUME NEW u \in Threads, pc'[u] = "use"
                   PROVE  (IF cell'[u] = NULL THEN Empty ELSE mem'[cell'[u]]) = got'[u]
        BY DEF TextsKept, TextAt
      <4>1. pc[u] = "use" /\ cell'[u] = cell[u] /\ got'[u] = got[u]
        BY <2>8, <3>4, <3>5 DEF NameTake
      <4>2. cell[u] \in Cells \cup {NULL} /\ cell[u] < last
        BY <2>a DEF BelowLast
      <4>3. (IF cell[u] = NULL THEN Empty ELSE mem'[cell[u]]) = TextAt(cell[u])
        BY <3>1, <4>2, FreshTake
      <4>4. QED
        BY <4>1, <4>3 DEF TextsKept
    <3>10. QED
      BY <3>6, <3>7, <3>8, <3>9 DEF Unraced
  <2>9. ASSUME NEW t \in Threads, ValTake(t) PROVE Unraced'
    <3>1. seen[t] = last /\ TakeCell(t, call[t].v)
      BY <2>9 DEF ValTake, OneAllocates, Allocating
    <3>2. \A u \in Threads \ {t} : pc[u] \notin Allocating
      BY <2>9 DEF ValTake, OneAllocates, Allocating
    <3>3. last' = last + 1 /\ last \in Cells
      BY <3>1 DEF TakeCell
    <3>4. pc'[t] \in {"deliver", "saveConf"} /\ \A u \in Threads \ {t} : pc'[u] = pc[u]
      BY <2>9 DEF ValTake, AfterStore, TypeOK
    <3>5. UNCHANGED <<cell, got, seen>>
      BY <2>9 DEF ValTake
    <3>6. \A p \in Params : node'[p] = node[p] \/ node'[p] = last
      BY <2>9, <3>1 DEF ValTake, TypeOK
    <3>7. BelowLast' /\ NamesApart'
      BY <2>a, <2>b, <3>3, <3>4, <3>5, <3>6 DEF BelowLast, NamesApart
    <3>8. OneAllocates'
      BY <3>2, <3>4 DEF OneAllocates, Allocating
    <3>9. TextsKept'
      <4> SUFFICES ASSUME NEW u \in Threads, pc'[u] = "use"
                   PROVE  (IF cell'[u] = NULL THEN Empty ELSE mem'[cell'[u]]) = got'[u]
        BY DEF TextsKept, TextAt
      <4>1. pc[u] = "use" /\ cell'[u] = cell[u] /\ got'[u] = got[u]
        BY <3>4, <3>5
      <4>2. cell[u] \in Cells \cup {NULL} /\ cell[u] < last
        BY <2>a DEF BelowLast
      <4>3. (IF cell[u] = NULL THEN Empty ELSE mem'[cell[u]]) = TextAt(cell[u])
        BY <3>1, <4>2, FreshTake
      <4>4. QED
        BY <4>1, <4>3 DEF TextsKept
    <3>10. QED
      BY <3>7, <3>8, <3>9 DEF Unraced
  <2>10. ASSUME NEW t \in Threads, Ask(t) \/ Tell(t) PROVE Unraced'
    <3>1. /\ pc[t] \in {"ask", "tell"} /\ mem' = [mem EXCEPT ![cell[t]] = Text]
          /\ UNCHANGED <<last, node>>
      BY <2>10 DEF Ask, Tell
    <3>2. /\ pc'[t] \in {"lock", "idle"} /\ cell'[t] = NULL
          /\ \A u \in Threads \ {t} : /\ pc'[u] = pc[u] /\ seen'[u] = seen[u]
                                      /\ cell'[u] = cell[u] /\ got'[u] = got[u]
      BY <2>10 DEF Ask, Tell, Return, TypeOK
    <3>3. \A u \in Threads \ {t} : cell[u] # cell[t]
      BY <3>1 DEF NamesApart
    <3>4. BelowLast' /\ OneAllocates'
      BY <2>a, <3>1, <3>2 DEF BelowLast, OneAllocates, Allocating
    <3>5. NamesApart'
      BY <3>1, <3>2 DEF NamesApart
    <3>6. TextsKept'
      <4> SUFFICES ASSUME NEW u \in Threads, pc'[u] = "use"
                   PROVE  (IF cell'[u] = NULL THEN Empty ELSE mem'[cell'[u]]) = got'[u]
        BY DEF TextsKept, TextAt
      <4>1. u # t /\ pc[u] = "use" /\ cell'[u] = cell[u] /\ got'[u] = got[u]
        BY <3>2
      <4>2. cell[u] \in Cells \cup {NULL} /\ cell[u] # cell[t]
        BY <2>a, <3>3, <4>1
      <4>3. (IF cell[u] = NULL THEN Empty ELSE mem'[cell[u]]) = TextAt(cell[u])
        BY <3>1, <4>2, CutKeeps
      <4>4. QED
        BY <4>1, <4>3 DEF TextsKept
    <3>7. QED
      BY <3>4, <3>5, <3>6 DEF Unraced
  <2>11. CASE DeviceChanges \/ UNCHANGED vars
    BY <2>11 DEF DeviceChanges, vars, thread, store, Unraced, BelowLast, OneAllocates,
                 NamesApart, TextsKept, TextAt
  <2>12. QED
    BY <1>s, <2>1, <2>2, <2>3, <2>4, <2>5, <2>6, <2>7, <2>8, <2>9, <2>10, <2>11
       DEF Next, Step
<1>q. QED
  BY <1>r, <1>s

\* What cwmp_data_get_parameter_value returned is still there when it is used,
\* by any number of threads, unless two of them met inside pool_palloc.
THEOREM ParameterReads == Spec => []ReadIsStored
<1>1. Init => IInv
  BY InitTypes, InitUnraced DEF IInv
<1>2. IInv /\ [Next]_vars => IInv'
  BY NextTypes, NextUnraced DEF IInv
<1>3. IInv => ReadIsStored
  BY DEF IInv, Unraced, TextsKept, ReadIsStored
<1>4. QED
  BY <1>1, <1>2, <1>3, PTL DEF Spec

-----------------------------------------------------------------------------
(* The copies.  What a parameter's pointer leads to changes in two places,  *)
(* both under value_mutex; the invariant follows a set from there, through  *)
(* the copies it has still to write, to the peer.                           *)

ValueOf(p) == TextAt(node[p])
Stored(t) == StoreNull(t) \/ ValTake(t)

\* The holder of value_mutex, and what a thread is about at each counter.
HolderInv ==
  /\ \A t \in Threads : pc[t] \in Inside => mutex = t
  /\ mutex # Nobody => pc[mutex] \in Inside
  /\ \A t \in Threads :
       /\ pc[t] \in {"saveConf", "saveXml", "tell"} => call[t].op = "set"
       /\ pc[t] \in {"ask", "deliver", "use"} => call[t].op = "get"
       /\ pc[t] \in {"valRead", "valTake"} /\ call[t].op = "get" => call[t].p \in Device

\* A set that has stored its value and has copies to write.
Saving(t, p) == pc[t] \in {"saveConf", "saveXml"} /\ call[t].p = p
\* A set whose peer is still to be told, and one that has begun its work.
Telling(t, p) == pc[t] \in Untold /\ call[t].op = "set" /\ call[t].p = p
Working(t, p) == pc[t] \notin {"idle", "lock"} /\ call[t].op = "set" /\ call[t].p = p

\* Each copy is the value, but for the copies a set under way will write.
SavedInv ==
  /\ \A t \in Threads : pc[t] \in {"saveConf", "saveXml"} => ValueOf(call[t].p) = call[t].v
  /\ \A p \in Params \ Device :
       /\ xml[p] # Unset /\ (\A t \in Threads : ~Saving(t, p)) => xml[p] = ValueOf(p)
       /\ Key[p] # NoKey /\ setter[Key[p]] = p
            /\ (\A t \in Threads : ~(Saving(t, p) /\ pc[t] = "saveConf"))
          => sys[Key[p]] = ValueOf(p)

\* The one set whose peer is to be told has the value that will be told.
ToldInv ==
  \A p \in Params \ Device : ~astray[p] =>
    /\ \A t, u \in Threads : Telling(t, p) /\ Telling(u, p) => t = u
    /\ \A t \in Threads :
         Telling(t, p) /\ (\A u \in Threads : ~Saving(u, p)) => ValueOf(p) = call[t].v
    /\ xml[p] # Unset /\ (\A t \in Threads : ~Working(t, p)) => peer[p] = ValueOf(p)

StepInv == HolderInv /\ (~raced => SavedInv /\ ToldInv)

LEMMA NotRaced ==
  ASSUME [Next]_vars, ~raced', ~Restart
  PROVE  ~raced
BY DEF Next, Step, GetBegin, SetBegin, NameRead, NameTake, Ask, LockGet, LockSet,
       StoreNull, ValRead, ValTake, Deliver, Use, SaveConf, SaveXml, Tell, DeviceChanges,
       ReadLast, history, vars

LEMMA HolderKept == TypeOK /\ HolderInv /\ [Next]_vars => HolderInv'
<1> SUFFICES ASSUME TypeOK, HolderInv, [Next]_vars PROVE HolderInv'
  OBVIOUS
<1> USE DEF TypeOK, HolderInv, Inside
<1> Nobody \notin Threads
  BY TokensAreNew
<1>1. ASSUME NEW t \in Threads, GetBegin(t) \/ SetBegin(t) PROVE HolderInv'
  BY <1>1 DEF GetBegin, SetBegin, store
<1>2. ASSUME NEW t \in Threads, NameRead(t) \/ NameTake(t) \/ Ask(t) PROVE HolderInv'
  BY <1>2 DEF NameRead, NameTake, Ask, ReadLast, store
<1>3. ASSUME NEW t \in Threads, LockGet(t) PROVE HolderInv'
  <2>1. /\ mutex = Nobody /\ mutex' = t /\ call[t].op = "get"
        /\ \A u \in Threads \ {t} : pc'[u] = pc[u] /\ call'[u] = call[u] /\ pc[u] \notin Inside
    BY <1>3 DEF LockGet
  <2>2. call'[t].op = "get" /\ call'[t].p = call[t].p
    BY <1>3 DEF LockGet
  <2>3. pc'[t] = "deliver" \/ (pc'[t] = "valRead" /\ call[t].p \in Device)
    BY <1>3 DEF LockGet
  <2> QED BY <2>1, <2>2, <2>3
<1>4. ASSUME NEW t \in Threads, LockSet(t) PROVE HolderInv'
  BY <1>4 DEF LockSet
<1>5. ASSUME NEW t \in Threads, Stored(t) PROVE HolderInv'
  BY <1>5 DEF Stored, StoreNull, ValTake, AfterStore
<1>6. ASSUME NEW t \in Threads, ValRead(t) PROVE HolderInv'
  BY <1>6 DEF ValRead, ReadLast, store
<1>7. ASSUME NEW t \in Threads, Deliver(t) PROVE HolderInv'
  BY <1>7 DEF Deliver
<1>8. ASSUME NEW t \in Threads, Use(t) PROVE HolderInv'
  BY <1>8 DEF Use, Return, store
<1>9. ASSUME NEW t \in Threads, SaveConf(t) \/ SaveXml(t) PROVE HolderInv'
  BY <1>9 DEF SaveConf, SaveXml, store
<1>10. ASSUME NEW t \in Threads, Tell(t) PROVE HolderInv'
  BY <1>10 DEF Tell, Return
<1>11. CASE DeviceChanges \/ UNCHANGED vars
  BY <1>11 DEF DeviceChanges, vars, thread, store
<1>12. CASE Restart
  BY <1>12 DEF Restart
<1> QED BY <1>1, <1>2, <1>3, <1>4, <1>5, <1>6, <1>7, <1>8, <1>9, <1>10, <1>11, <1>12
        DEF Next, Step, Stored

-----------------------------------------------------------------------------
\* Storing a value changes what its parameter's pointer leads to, and no other.
LEMMA StoredText ==
  ASSUME TypeOK, Unraced, ~raced, NEW t \in Threads, Stored(t), NEW p \in Params
  PROVE  ValueOf(p)' = IF call[t].p = p THEN call[t].v ELSE ValueOf(p)
<1>1. node[p] \in Cells \cup {NULL} /\ call[t].p \in Params
  BY DEF TypeOK
<1>2. CASE StoreNull(t)
  BY <1>1, <1>2 DEF StoreNull, ValueOf, TextAt, TypeOK
<1>3. CASE ValTake(t)
  <2>1. seen[t] = last /\ TakeCell(t, call[t].v) /\ node' = [node EXCEPT ![call[t].p] = seen[t]]
    BY <1>3 DEF ValTake, Unraced, OneAllocates, Allocating
  <2>2. CASE call[t].p = p
    <3>1. node'[p] = seen[t] /\ seen[t] \in Cells /\ seen[t] # NULL
      BY <1>1, <2>1, <2>2, CellsFacts DEF TakeCell, NULL, TypeOK
    <3>2. mem'[seen[t]] = call[t].v
      BY <2>1, <3>1 DEF TakeCell, TypeOK
    <3> QED BY <2>2, <3>1, <3>2 DEF ValueOf, TextAt
  <2>3. CASE call[t].p # p
    <3>1. node'[p] = node[p]
      BY <1>1, <2>1, <2>3 DEF TypeOK
    <3>2. node[p] < last
      BY DEF Unraced, BelowLast
    <3>3. (IF node[p] = NULL THEN Empty ELSE mem'[node[p]]) = TextAt(node[p])
      BY <1>1, <2>1, <3>2, FreshTake
    <3> QED BY <2>3, <3>1, <3>3 DEF ValueOf, TextAt
  <2> QED BY <2>2, <2>3
<1> QED BY <1>2, <1>3 DEF Stored

\* Nothing else does: names are written to new cells and cut in their own.
LEMMA TextKept ==
  ASSUME TypeOK, Unraced, ~raced, [Next]_vars, ~Restart,
         \A t \in Threads : ~Stored(t), NEW p \in Params
  PROVE  ValueOf(p)' = ValueOf(p)
<1>1. node[p] \in Cells \cup {NULL} /\ node' = node
  BY DEF TypeOK, Next, Step, Stored, GetBegin, SetBegin, NameRead, NameTake, Ask, LockGet, LockSet,
         ValRead, Deliver, Use, SaveConf, SaveXml, Tell, DeviceChanges, ReadLast, store, vars
<1>2. CASE mem' = mem
  BY <1>1, <1>2 DEF ValueOf, TextAt
<1>3. CASE mem' # mem
  <2>1. PICK t \in Threads : NameTake(t) \/ Ask(t) \/ Tell(t)
    BY <1>3 DEF Next, Step, Stored, GetBegin, SetBegin, NameRead, LockGet, LockSet,
       ValRead, Deliver, Use, SaveConf, SaveXml, DeviceChanges, ReadLast, store, vars
  <2>2. CASE NameTake(t)
    <3>1. seen[t] = last /\ TakeCell(t, Text) /\ node[p] < last
      BY <2>2 DEF NameTake, Unraced, OneAllocates, BelowLast, Allocating
    <3>2. (IF node[p] = NULL THEN Empty ELSE mem'[node[p]]) = TextAt(node[p])
      BY <1>1, <3>1, FreshTake
    <3> QED BY <1>1, <3>2 DEF ValueOf, TextAt
  <2>3. CASE Ask(t) \/ Tell(t)
    <3>1. mem' = [mem EXCEPT ![cell[t]] = Text] /\ node[p] # cell[t]
      BY <2>3 DEF Ask, Tell, Unraced, NamesApart
    <3>2. (IF node[p] = NULL THEN Empty ELSE mem'[node[p]]) = TextAt(node[p])
      BY <1>1, <3>1, CutKeeps
    <3> QED BY <1>1, <3>2 DEF ValueOf, TextAt
  <2> QED BY <2>1, <2>2, <2>3
<1> QED BY <1>2, <1>3

\* A step that writes no copy and stores no value, and takes no set to its end
\* or its next task.
Quiet ==
  /\ UNCHANGED <<sys, xml, peer, astray, setter>>
  /\ \A p \in Params : ValueOf(p)' = ValueOf(p)
  /\ \A u \in Threads :
       /\ pc[u] \in {"saveConf", "saveXml"} \/ pc'[u] \in {"saveConf", "saveXml"} =>
            pc'[u] = pc[u] /\ call'[u] = call[u]
       /\ pc'[u] \in Untold /\ call'[u].op = "set" =>
            pc[u] \in Untold /\ call'[u] = call[u]
       /\ pc[u] \notin {"idle", "lock"} /\ call[u].op = "set" =>
            pc'[u] \notin {"idle", "lock"} /\ call'[u] = call[u]

LEMMA QuietKeeps ==
  ASSUME TypeOK, SavedInv, ToldInv, Quiet
  PROVE  SavedInv' /\ ToldInv'
<1>1. /\ \A t \in Threads, p \in Params : Saving(t, p)' = Saving(t, p)
      /\ \A t \in Threads, p \in Params : Telling(t, p)' => Telling(t, p) /\ call'[t] = call[t]
      /\ \A t \in Threads, p \in Params : Working(t, p) => Working(t, p)'
  BY DEF Quiet, Saving, Telling, Working
<1>2. ASSUME NEW t \in Threads, pc'[t] \in {"saveConf", "saveXml"}
      PROVE  ValueOf(call[t].p)' = call'[t].v
  <2>1. PICK p \in Params : p = call[t].p
    BY DEF TypeOK
  <2>2. pc[t] \in {"saveConf", "saveXml"} /\ call'[t] = call[t] /\ ValueOf(p)' = ValueOf(p)
    BY <1>2 DEF Quiet
  <2> QED BY <2>1, <2>2 DEF SavedInv, ValueOf
<1>3. SavedInv'
  BY <1>1, <1>2 DEF SavedInv, Quiet, Saving
<1>4. ToldInv'
  BY <1>1 DEF ToldInv, Quiet
<1> QED BY <1>3, <1>4

LEMMA StepsAreQuiet ==
  ASSUME TypeOK, Unraced, ~raced, HolderInv, [Next]_vars, ~Restart,
         \A t \in Threads : ~(Stored(t) \/ SaveConf(t) \/ SaveXml(t) \/ Tell(t))
  PROVE  Quiet
<1>1. \A p \in Params : ValueOf(p)' = ValueOf(p)
  BY TextKept
<1> USE DEF TypeOK, Untold, copies, history
<1>2. ASSUME NEW t \in Threads, GetBegin(t) \/ SetBegin(t) PROVE Quiet
  BY <1>1, <1>2 DEF Quiet, GetBegin, SetBegin
<1>3. ASSUME NEW t \in Threads, NameRead(t) \/ NameTake(t) \/ ValRead(t) PROVE Quiet
  BY <1>1, <1>3 DEF Quiet, NameRead, NameTake, ValRead, ReadLast
<1>4. ASSUME NEW t \in Threads, Ask(t) \/ Deliver(t) \/ Use(t) PROVE Quiet
  BY <1>1, <1>4 DEF Quiet, HolderInv, Ask, Deliver, Use, Return, NoCall
<1>5. ASSUME NEW t \in Threads, LockGet(t) PROVE Quiet
  <2>1. call[t].op = "get" /\ call'[t].op = "get" /\ pc[t] = "lock" /\ pc'[t] \in {"deliver", "valRead"}
    BY <1>5 DEF LockGet
  <2>2. /\ \A u \in Threads \ {t} : pc'[u] = pc[u] /\ call'[u] = call[u]
        /\ UNCHANGED <<sys, xml, peer, astray, setter>>
    BY <1>5 DEF LockGet
  <2> QED BY <1>1, <2>1, <2>2 DEF Quiet
<1>6. ASSUME NEW t \in Threads, LockSet(t) PROVE Quiet
  BY <1>1, <1>6 DEF Quiet, LockSet
<1>7. CASE DeviceChanges \/ UNCHANGED vars
  BY <1>1, <1>7 DEF Quiet, DeviceChanges, vars, thread, store
<1> QED BY <1>2, <1>3, <1>4, <1>5, <1>6, <1>7 DEF Next, Step, Stored

\* From the store on the set has its copies to write; a get stores only what
\* the device says.
LEMMA StoredKeeps ==
  ASSUME TypeOK, Unraced, ~raced, HolderInv, SavedInv, ToldInv, NEW t \in Threads, Stored(t)
  PROVE  SavedInv' /\ ToldInv'
<1>1. /\ UNCHANGED <<call, sys, xml, peer, astray, setter>>
      /\ pc[t] \in {"valRead", "valTake"} /\ pc' = [pc EXCEPT ![t] = AfterStore(t)]
  BY DEF Stored, StoreNull, ValTake, copies, history
<1>2. /\ pc'[t] = IF call[t].op = "get" THEN "deliver" ELSE "saveConf"
      /\ \A u \in Threads \ {t} : pc'[u] = pc[u]
  BY <1>1 DEF AfterStore, TypeOK
<1>3. \A p \in Params : ValueOf(p)' = IF call[t].p = p THEN call[t].v ELSE ValueOf(p)
  BY StoredText
<1>4. \A u \in Threads \ {t} : pc[u] \notin Inside
  BY <1>1 DEF HolderInv, Inside
<1>5. ASSUME NEW u \in Threads, pc'[u] \in {"saveConf", "saveXml"} PROVE ValueOf(call[u].p)' = call'[u].v
  <2>1. u = t
    BY <1>2, <1>4, <1>5 DEF Inside
  <2>2. PICK p \in Params : p = call[t].p
    BY DEF TypeOK
  <2> QED BY <1>1, <1>3, <2>1, <2>2 DEF ValueOf
<1>6. ASSUME NEW p \in Params \ Device
      PROVE  /\ ValueOf(p)' # ValueOf(p) => Saving(t, p)' /\ pc'[t] = "saveConf"
             /\ \A u \in Threads : ~Saving(u, p)
             /\ \A u \in Threads : Telling(u, p)' = Telling(u, p)
             /\ Working(t, p)' = Working(t, p)
             /\ \A u \in Threads \ {t} : Working(u, p)' = Working(u, p)
             /\ ValueOf(p)' # ValueOf(p) => Working(t, p)'
  <2>1. ValueOf(p)' # ValueOf(p) => Saving(t, p)' /\ pc'[t] = "saveConf" /\ call[t].op # "get"
    BY <1>1, <1>2, <1>3 DEF HolderInv, Saving
  <2>2. \A u \in Threads : ~Saving(u, p)
    BY <1>1, <1>4 DEF Saving, Inside
  <2>3. \A u \in Threads : Telling(u, p)' = Telling(u, p)
    BY <1>1, <1>2 DEF Telling, Untold
  <2>4. \A u \in Threads : Working(u, p)' = Working(u, p)
    BY <1>1, <1>2 DEF Working
  <2>5. ValueOf(p)' # ValueOf(p) => Working(t, p)'
    BY <1>1, <1>2, <1>3, <2>1 DEF Working, TypeOK
  <2> QED BY <2>1, <2>2, <2>3, <2>4, <2>5
<1>7. SavedInv'
  BY <1>1, <1>5, <1>6 DEF SavedInv, Saving
<1>8. ToldInv'
  <2> SUFFICES ASSUME NEW p \in Params \ Device, ~astray'[p]
               PROVE  /\ \A u, w \in Threads : Telling(u, p)' /\ Telling(w, p)' => u = w
                      /\ \A u \in Threads :
                           Telling(u, p)' /\ (\A w \in Threads : ~Saving(w, p)')
                             => ValueOf(p)' = call'[u].v
                      /\ xml'[p] # Unset /\ (\A u \in Threads : ~Working(u, p)')
                           => peer'[p] = ValueOf(p)'
    BY DEF ToldInv
  <2> QED BY <1>1, <1>6 DEF ToldInv
<1> QED BY <1>7, <1>8

LEMMA SaveConfKeeps ==
  ASSUME TypeOK, Unraced, ~raced, HolderInv, SavedInv, ToldInv, [Next]_vars, ~Restart,
         NEW t \in Threads, SaveConf(t)
  PROVE  SavedInv' /\ ToldInv'
<1>1. /\ pc[t] = "saveConf" /\ pc' = [pc EXCEPT ![t] = "saveXml"]
      /\ UNCHANGED <<call, xml, peer, astray>> /\ call[t].op = "set" /\ call[t].p \in Params
  BY DEF SaveConf, HolderInv, TypeOK
<1>2. \A p \in Params : ValueOf(p)' = ValueOf(p)
  BY DEF SaveConf, store, ValueOf, TextAt
<1>3. \A u \in Threads \ {t} : pc[u] \notin Inside /\ pc'[u] = pc[u]
  BY <1>1 DEF HolderInv, Inside, TypeOK
<1>4. pc'[t] = "saveXml"
  BY <1>1 DEF TypeOK
<1>5. \A u \in Threads, p \in Params : /\ Saving(u, p)' = Saving(u, p)
                                       /\ Telling(u, p)' = Telling(u, p)
                                       /\ Working(u, p)' = Working(u, p)
  BY <1>1, <1>3, <1>4 DEF Saving, Telling, Working, Untold
<1>6. ASSUME NEW u \in Threads, pc'[u] \in {"saveConf", "saveXml"} PROVE ValueOf(call[u].p)' = call'[u].v
  <2>1. u = t
    BY <1>3, <1>6 DEF Inside
  <2>2. PICK p \in Params : p = call[t].p
    BY <1>1
  <2> QED BY <1>1, <1>2, <2>1, <2>2 DEF SavedInv, ValueOf
<1>7. ASSUME NEW p \in Params \ Device, Key[p] # NoKey, setter'[Key[p]] = p
      PROVE  sys'[Key[p]] = ValueOf(p)'
  <2>1. Key[p] \in Keys
    BY <1>7, KeyIsTotal
  <2>2. CASE call[t].p = p
    <3>1. sys'[Key[p]] = call[t].v
      BY <1>7, <2>1, <2>2 DEF SaveConf, TypeOK
    <3> QED BY <1>1, <1>2, <2>2, <3>1 DEF SavedInv
  <2>3. CASE call[t].p # p
    <3>1. Key[call[t].p] # Key[p]
      BY <1>1, <1>7, <2>1, <2>3 DEF SaveConf, TypeOK
    <3>2. sys'[Key[p]] = sys[Key[p]] /\ setter'[Key[p]] = setter[Key[p]]
      BY <1>7, <2>1, <3>1 DEF SaveConf, TypeOK
    <3>3. \A u \in Threads : ~Saving(u, p)
      BY <1>3, <2>3 DEF Saving, Inside
    <3> QED BY <1>2, <1>7, <3>2, <3>3 DEF SavedInv
  <2> QED BY <2>2, <2>3
<1>8. SavedInv'
  BY <1>1, <1>2, <1>5, <1>6, <1>7 DEF SavedInv
<1>9. ToldInv'
  BY <1>1, <1>2, <1>5 DEF ToldInv
<1> QED BY <1>8, <1>9

\* The last copy is written; the set is now the one to tell, if it is alone.
LEMMA SaveXmlKeeps ==
  ASSUME TypeOK, Unraced, ~raced, HolderInv, SavedInv, ToldInv, NEW t \in Threads, SaveXml(t)
  PROVE  SavedInv' /\ ToldInv'
<1>1. /\ pc[t] = "saveXml" /\ pc' = [pc EXCEPT ![t] = "nameRead"]
      /\ xml' = [xml EXCEPT ![call[t].p] = call[t].v]
      /\ astray' = [astray EXCEPT ![call[t].p] = @ \/ OtherUntold(t)]
      /\ UNCHANGED <<call, mem, node, sys, peer, setter>>
      /\ call[t].op = "set" /\ call[t].p \in Params /\ ValueOf(call[t].p) = call[t].v
  BY DEF SaveXml, HolderInv, SavedInv, TypeOK
<1>2. \A p \in Params : ValueOf(p)' = ValueOf(p)
  BY <1>1 DEF ValueOf, TextAt
<1>3. \A u \in Threads \ {t} : pc[u] \notin Inside /\ pc'[u] = pc[u]
  BY <1>1 DEF HolderInv, Inside, TypeOK
<1>4. pc'[t] = "nameRead"
  BY <1>1 DEF TypeOK
<1>5. ASSUME NEW p \in Params
      PROVE  /\ xml'[p] = IF p = call[t].p THEN ValueOf(p) ELSE xml[p]
             /\ \A u \in Threads : ~Saving(u, p)' /\ (p # call[t].p => ~Saving(u, p))
             /\ \A u \in Threads : Saving(u, p) => pc[u] # "saveConf"
             /\ \A u \in Threads : Working(u, p)' = Working(u, p)
             /\ \A u \in Threads \ {t} : Telling(u, p)' = Telling(u, p)
             /\ Telling(t, p)' => p = call[t].p
  <2>1. xml'[p] = IF p = call[t].p THEN ValueOf(p) ELSE xml[p]
    BY <1>1 DEF TypeOK
  <2>2. \A u \in Threads : ~Saving(u, p)' /\ (p # call[t].p => ~Saving(u, p))
                           /\ (Saving(u, p) => pc[u] # "saveConf")
    BY <1>1, <1>3, <1>4 DEF Saving, Inside
  <2>3. \A u \in Threads : Working(u, p)' = Working(u, p)
    BY <1>1, <1>3, <1>4 DEF Working
  <2>4. /\ \A u \in Threads \ {t} : Telling(u, p)' = Telling(u, p)
        /\ Telling(t, p)' => p = call[t].p
    BY <1>1, <1>3 DEF Telling
  <2> QED BY <2>1, <2>2, <2>3, <2>4
<1>6. SavedInv'
  <2>1. \A u \in Threads : pc'[u] \notin {"saveConf", "saveXml"}
    BY <1>3, <1>4 DEF Inside
  <2> QED BY <1>1, <1>2, <1>5, <2>1 DEF SavedInv
<1>7. ASSUME NEW p \in Params \ Device, ~astray'[p]
      PROVE  /\ \A u, w \in Threads : Telling(u, p)' /\ Telling(w, p)' => u = w
             /\ \A u \in Threads : Telling(u, p)' => ValueOf(p)' = call'[u].v
             /\ xml'[p] # Unset /\ (\A u \in Threads : ~Working(u, p)') => peer'[p] = ValueOf(p)'
  <2>1. ~astray[p]
    BY <1>1, <1>7 DEF TypeOK
  <2>2. CASE p = call[t].p
    <3>1. \A u \in Threads \ {t} : ~Telling(u, p)
      BY <1>1, <1>7, <2>2 DEF OtherUntold, Telling, TypeOK
    <3>2. Working(t, p)
      BY <1>1, <2>2 DEF Working
    <3> QED BY <1>1, <1>2, <1>5, <2>2, <3>1, <3>2
  <2>3. CASE p # call[t].p
    <3>1. \A u \in Threads : ~Saving(u, p)
      BY <1>5, <2>3
    <3>2. \A u \in Threads : Telling(u, p)' => Telling(u, p)
      BY <1>5, <2>3
    <3> QED BY <1>1, <1>2, <1>5, <2>1, <2>3, <3>1, <3>2 DEF ToldInv
  <2> QED BY <2>2, <2>3
<1>8. ToldInv'
  BY <1>7 DEF ToldInv
<1> QED BY <1>6, <1>8

\* The peer is told the value the parameter has, or the set went astray.
LEMMA TellKeeps ==
  ASSUME TypeOK, Unraced, ~raced, HolderInv, SavedInv, ToldInv, [Next]_vars, ~Restart,
         NEW t \in Threads, Tell(t), \A p \in Params : ValueOf(p)' = ValueOf(p)
  PROVE  SavedInv' /\ ToldInv'
<1>1. /\ pc[t] = "tell" /\ pc' = [pc EXCEPT ![t] = "idle"] /\ call' = [call EXCEPT ![t] = NoCall]
      /\ UNCHANGED <<sys, xml, setter>> /\ call[t].op = "set" /\ call[t].p \in Params
  BY DEF Tell, Return, HolderInv, TypeOK
<1>2. /\ pc'[t] = "idle" /\ \A u \in Threads \ {t} : pc'[u] = pc[u] /\ call'[u] = call[u]
  BY <1>1 DEF TypeOK
<1>3. \A u \in Threads, p \in Params :
        /\ Saving(u, p)' = Saving(u, p)
        /\ Saving(u, p) => pc'[u] = pc[u]
        /\ Telling(u, p)' => u # t /\ Telling(u, p)
        /\ u # t => Working(u, p)' = Working(u, p)
  BY <1>1, <1>2 DEF Saving, Telling, Working, Untold
<1>4. ASSUME NEW u \in Threads, pc'[u] \in {"saveConf", "saveXml"} PROVE ValueOf(call[u].p)' = call'[u].v
  <2>1. u # t
    BY <1>2, <1>4
  <2>2. PICK p \in Params : p = call[u].p
    BY DEF TypeOK
  <2> QED BY <1>2, <1>4, <2>1, <2>2 DEF SavedInv, ValueOf
<1>5. SavedInv'
  BY <1>1, <1>3, <1>4 DEF SavedInv, Saving
<1>6. ASSUME NEW p \in Params \ Device, ~astray'[p]
      PROVE  /\ \A u, w \in Threads : Telling(u, p)' /\ Telling(w, p)' => u = w
             /\ \A u \in Threads :
                  Telling(u, p)' /\ (\A w \in Threads : ~Saving(w, p)') => ValueOf(p)' = call'[u].v
             /\ xml'[p] # Unset /\ (\A u \in Threads : ~Working(u, p)') => peer'[p] = ValueOf(p)'
  <2>1. ~astray[p] /\ (p = call[t].p => peer'[p] = call[t].v) /\ (p # call[t].p => peer'[p] = peer[p])
    BY <1>1, <1>6 DEF Tell, TypeOK
  <2>2. /\ \A u, w \in Threads : Telling(u, p)' /\ Telling(w, p)' => u = w
        /\ \A u \in Threads :
             Telling(u, p)' /\ (\A w \in Threads : ~Saving(w, p)') => ValueOf(p)' = call'[u].v
    BY <1>2, <1>3, <2>1 DEF ToldInv
  <2>3. ASSUME xml'[p] # Unset, \A u \in Threads : ~Working(u, p)' PROVE peer'[p] = ValueOf(p)'
    <3>1. CASE p = call[t].p
      <4>1. Telling(t, p)
        BY <1>1, <3>1 DEF Telling, Untold
      <4>2. \A u \in Threads : ~Saving(u, p)
        <5> SUFFICES ASSUME NEW u \in Threads, Saving(u, p) PROVE FALSE
          OBVIOUS
        <5>1. u # t /\ call[u].op = "set"
          BY <1>1 DEF Saving, HolderInv
        <5>2. Working(u, p)
          BY <5>1 DEF Saving, Working
        <5> QED BY <1>3, <2>3, <5>1, <5>2
      <4> QED BY <2>1, <3>1, <4>1, <4>2 DEF ToldInv
    <3>2. CASE p # call[t].p
      <4>1. \A u \in Threads : ~Working(u, p)
        BY <1>3, <2>3, <3>2 DEF Working
      <4> QED BY <1>1, <2>1, <2>3, <3>2, <4>1 DEF ToldInv
    <3> QED BY <3>1, <3>2
  <2> QED BY <2>2, <2>3
<1>7. ToldInv'
  BY <1>6 DEF ToldInv
<1> QED BY <1>5, <1>7

\* A process that has loaded its model has written no copy yet.
LEMMA LoadedKeeps ==
  ASSUME Restart \/ Init
  PROVE  (Restart => (SavedInv /\ ToldInv)') /\ (Init => HolderInv /\ SavedInv /\ ToldInv)
<1>1. \A p \in Params : p \notin {Nobody}
  BY TokensAreNew
<1>2. \A p \in Params : Key[p] # NoKey => Key[p] \in Keys
  BY KeyIsTotal
<1>3. ASSUME Restart PROVE (SavedInv /\ ToldInv)'
  BY <1>1, <1>2, <1>3 DEF Restart, SavedInv, ToldInv, Telling, Untold
<1>4. ASSUME Init PROVE HolderInv /\ SavedInv /\ ToldInv
  BY <1>1, <1>2, <1>4 DEF Init, Loaded, HolderInv, SavedInv, ToldInv, Telling, Untold, Inside
<1> QED BY <1>3, <1>4

LEMMA StepKept ==
  ASSUME IInv, StepInv, [Next]_vars
  PROVE  StepInv'
<1>1. TypeOK /\ HolderInv /\ HolderInv'
  BY HolderKept DEF IInv, StepInv
<1> SUFFICES ASSUME ~raced' PROVE SavedInv' /\ ToldInv'
  BY <1>1 DEF StepInv
<1>2. CASE Restart
  BY <1>2, LoadedKeeps
<1>3. CASE ~Restart
  <2>1. ~raced /\ Unraced /\ SavedInv /\ ToldInv
    BY <1>3, NotRaced DEF IInv, StepInv
  <2>2. CASE \A t \in Threads : ~(Stored(t) \/ SaveConf(t) \/ SaveXml(t) \/ Tell(t))
    BY <1>1, <1>3, <2>1, <2>2, StepsAreQuiet, QuietKeeps
  <2>3. ASSUME NEW t \in Threads, Stored(t) \/ SaveConf(t) \/ SaveXml(t) PROVE SavedInv' /\ ToldInv'
    BY <1>1, <1>3, <2>1, <2>3, StoredKeeps, SaveConfKeeps, SaveXmlKeeps
  <2>4. ASSUME NEW t \in Threads, Tell(t) PROVE SavedInv' /\ ToldInv'
    <3>1. \A u \in Threads : ~Stored(u)
      <4> SUFFICES ASSUME NEW u \in Threads, Stored(u) PROVE FALSE
        OBVIOUS
      <4>1. pc[t] = "tell" /\ pc'[t] = "idle"
        BY <1>1, <2>4 DEF Tell, Return, TypeOK
      <4>2. pc[u] \in {"valRead", "valTake"} /\ pc' = [pc EXCEPT ![u] = AfterStore(u)]
        BY DEF Stored, StoreNull, ValTake
      <4> QED BY <1>1, <4>1, <4>2 DEF TypeOK
    <3>2. \A p \in Params : ValueOf(p)' = ValueOf(p)
      BY <1>1, <1>3, <2>1, <3>1, TextKept
    <3> QED BY <1>1, <1>3, <2>1, <2>4, <3>2, TellKeeps
  <2> QED BY <2>2, <2>3, <2>4
<1> QED BY <1>2, <1>3

LEMMA CopiesFollow == StepInv => CopiesInStep
<1> SUFFICES ASSUME StepInv, ~raced PROVE CopiesInStep
  BY DEF CopiesInStep, CopiesAgree, PeerInStep
<1>1. HolderInv /\ SavedInv /\ ToldInv
  BY DEF StepInv
<1>2. CopiesAgree
  <2>1. mutex = Nobody => \A t \in Threads, p \in Params : ~Saving(t, p)
    BY <1>1, TokensAreNew DEF HolderInv, Saving, Inside
  <2> QED BY <1>1, <2>1 DEF CopiesAgree, SavedInv, ValueOf
<1>3. PeerInStep
  BY <1>1 DEF PeerInStep, ToldInv, Working, ValueOf
<1> QED BY <1>2, <1>3 DEF CopiesInStep

\* The value, its settings, its line of dm.xml and what the peer was told agree
\* when no set is under way, for any number of threads and commands.
THEOREM ParameterCopies == Spec => []CopiesInStep
<1>1. Init => IInv /\ StepInv
  BY InitTypes, InitUnraced, LoadedKeeps DEF IInv, StepInv
<1>2. IInv /\ StepInv /\ [Next]_vars => IInv' /\ StepInv'
  BY NextTypes, NextUnraced, StepKept DEF IInv
<1> QED BY <1>1, <1>2, CopiesFollow, PTL DEF Spec

\* A set that was answered is what a fresh process loads, unless a parameter
\* with the same ininame was set after it.
THEOREM ParameterSetsSurvive == Spec => RestartKeepsSets
<1>1. Init => IInv /\ StepInv
  BY InitTypes, InitUnraced, LoadedKeeps DEF IInv, StepInv
<1>2. IInv /\ StepInv /\ [Next]_vars => IInv' /\ StepInv'
  BY NextTypes, NextUnraced, StepKept DEF IInv
<1>3. ASSUME IInv, StepInv, Restart, ~raced, mutex = Nobody,
             NEW p \in Params \ Device, Key[p] # NoKey, setter[Key[p]] = p
      PROVE  TextAt(node[p])' = TextAt(node[p])
  <2>1. sys[Key[p]] = TextAt(node[p])
    BY <1>3, CopiesFollow DEF CopiesInStep, CopiesAgree
  <2>2. p \in Cells /\ p # NULL
    BY CellsFacts DEF NULL
  <2>3. node'[p] = (IF sys[Key[p]] = Empty THEN NULL ELSE p) /\ mem'[p] = sys[Key[p]]
    BY <1>3, <2>2 DEF Restart, LoadedNode, LoadedMem
  <2> QED BY <2>1, <2>2, <2>3 DEF TextAt
<1>4. IInv /\ StepInv /\ [Next]_vars =>
        [(Restart /\ ~raced /\ mutex = Nobody) =>
           \A p \in Params \ Device :
              Key[p] # NoKey /\ setter[Key[p]] = p => TextAt(node[p])' = TextAt(node[p])]_vars
  BY <1>3
<1> QED BY <1>1, <1>2, <1>4, PTL DEF Spec, RestartKeepsSets
=============================================================================
