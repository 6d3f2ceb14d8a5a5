----------------------------- MODULE LinkedList -----------------------------
(***************************************************************************)
(* The intrusive lists of libcwmp/src/list.c: rings of nodes that point at *)
(* the next and the previous one, a head among them.                       *)
(***************************************************************************)
EXTENDS Integers, Sequences, SequencesExt

CONSTANTS ListHeads, ListEntries

ASSUME ListAssumption == ListHeads \cap ListEntries = {}

ListNodes == ListHeads \cup ListEntries

VARIABLES
  lnext, lprev,  \* the pointers
  lists          \* what a caller has put where: a sequence for each head,
                 \* <<>> for a head that was spliced away or replaced

listVars == <<lnext, lprev, lists>>

ListTypeOK ==
  /\ lnext \in [ListNodes -> ListNodes] /\ lprev \in [ListNodes -> ListNodes]
  /\ DOMAIN lists \subseteq ListHeads

\* INIT_LIST_HEAD of every node.
ListInit ==
  /\ lnext = [n \in ListNodes |-> n] /\ lprev = [n \in ListNodes |-> n]
  /\ lists = [h \in ListHeads |-> <<>>]

Held == UNION {Range(lists[h]) : h \in DOMAIN lists}

\* __list_add: the four assignments, in order.
__list_add(e, p, n) ==
  /\ lprev' = [lprev EXCEPT ![n] = e, ![e] = p]
  /\ lnext' = [lnext EXCEPT ![e] = n, ![p] = e]

list_add(e, h) ==
  /\ e \in ListEntries \ Held /\ h \in DOMAIN lists
  /\ __list_add(e, h, lnext[h])
  /\ lists' = [lists EXCEPT ![h] = <<e>> \o @]

list_add_tail(e, h) ==
  /\ e \in ListEntries \ Held /\ h \in DOMAIN lists
  /\ __list_add(e, lprev[h], h)
  /\ lists' = [lists EXCEPT ![h] = Append(@, e)]

\* A slip the properties notice: only the pointers forward are joined.
list_delForward(e, reinit) ==
  \E h \in DOMAIN lists : \E i \in DOMAIN lists[h] :
    /\ lists[h][i] = e
    /\ lprev' = [lprev EXCEPT ![e] = IF reinit THEN e ELSE @]
    /\ lnext' = [[lnext EXCEPT ![lprev[e]] = lnext[e]] EXCEPT ![e] = IF reinit THEN e ELSE @]
    /\ lists' = [lists EXCEPT ![h] = RemoveAt(@, i)]

\* __list_del, and INIT_LIST_HEAD in list_del_init, of an entry in a list.
list_del(e, reinit) ==
  \E h \in DOMAIN lists : \E i \in DOMAIN lists[h] :
    LET p == lprev[e]
        n == lnext[e]
    IN  /\ lists[h][i] = e
        /\ lprev' = [[lprev EXCEPT ![n] = p] EXCEPT ![e] = IF reinit THEN e ELSE @]
        /\ lnext' = [[lnext EXCEPT ![p] = n] EXCEPT ![e] = IF reinit THEN e ELSE @]
        /\ lists' = [lists EXCEPT ![h] = RemoveAt(@, i)]

list_empty(h) == lnext[h] = h

\* list_splice: the entries of l come first in h; l is not set back, so it
\* is no list any more.
list_splice(l, h) ==
  /\ {l, h} \subseteq DOMAIN lists /\ l # h
  /\ IF list_empty(l) THEN UNCHANGED <<lnext, lprev>>
     ELSE LET first == lnext[l]
              last == lprev[l]
              at == lnext[h]
          IN  /\ lprev' = [[lprev EXCEPT ![first] = h] EXCEPT ![at] = last]
              /\ lnext' = [[lnext EXCEPT ![h] = first] EXCEPT ![last] = at]
  /\ lists' = [x \in DOMAIN lists \ {l} |->
                 IF x = h THEN lists[l] \o lists[h] ELSE lists[x]]

\* list_replace_init: n takes the place of the entry o.
list_replace_init(o, n) ==
  \E h \in DOMAIN lists : \E i \in DOMAIN lists[h] :
    LET nx == lnext[o]
        pv == lprev[o]
    IN  /\ lists[h][i] = o /\ n \notin Held
        /\ lnext' = [[lnext EXCEPT ![n] = nx, ![pv] = n] EXCEPT ![o] = o]
        /\ lprev' = [[lprev EXCEPT ![nx] = n, ![n] = pv] EXCEPT ![o] = o]
        /\ lists' = [lists EXCEPT ![h] = ReplaceAt(@, i, n)]

\* INIT_LIST_HEAD of a head that was spliced away.
INIT_LIST_HEAD(h) ==
  /\ h \in ListHeads \ DOMAIN lists
  /\ lnext' = [lnext EXCEPT ![h] = h] /\ lprev' = [lprev EXCEPT ![h] = h]
  /\ lists' = [x \in DOMAIN lists \cup {h} |-> IF x = h THEN <<>> ELSE lists[x]]

ListNext ==
  \/ \E e \in ListEntries, h \in ListHeads : list_add(e, h) \/ list_add_tail(e, h)
  \/ \E e \in ListEntries, r \in BOOLEAN : list_del(e, r)
  \/ \E l, h \in ListHeads : list_splice(l, h)
  \/ \E o, n \in ListEntries : list_replace_init(o, n)
  \/ \E h \in ListHeads : INIT_LIST_HEAD(h)

ListSpec == ListInit /\ [][ListNext]_listVars

\* From a head both pointers lead once around the ring, through the entries
\* the calls have put there, in their order.
ListsAreRings ==
  \A h \in DOMAIN lists :
    LET ring == <<h>> \o lists[h] \o <<h>>
    IN  \A i \in 1..(Len(ring) - 1) :
          lnext[ring[i]] = ring[i+1] /\ lprev[ring[i+1]] = ring[i]
=============================================================================
