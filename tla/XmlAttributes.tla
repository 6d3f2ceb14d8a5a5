---------------------------- MODULE XmlAttributes ----------------------------
(***************************************************************************)
(* The attributes of one element (element.c, with the creation calls of    *)
(* document.c): a list of nodes that starts at firstAttr and is linked by  *)
(* the same sibling pointers as children. An attribute made by name has no *)
(* local name; one made with a namespace has one, and the calls that       *)
(* search by local name compare strings without looking for NULL.          *)
(***************************************************************************)
EXTENDS Naturals, SequencesExt

CONSTANTS
  AttrNodes,   \* attribute nodes a run may create
  AttrName,    \* nodeName of each
  AttrLocal,   \* localName of each, NoName when it has none
  AttrValues   \* values a caller may set

NoAttr == 0
NoName == "none"
NoValue == "null"

ASSUME AttrAssumption ==
  /\ AttrNodes \subseteq Nat \ {NoAttr}
  /\ \A n, m \in AttrNodes : AttrName[n] = AttrName[m] /\ NoName \notin {AttrLocal[n], AttrLocal[m]}
                             => AttrLocal[n] = AttrLocal[m]
  /\ NoValue \notin AttrValues

VARIABLES
  attr,        \* the nodes
  firstAttr,   \* firstAttr of the element
  elemOwned,   \* the element has an ownerDocument (a copy has none)
  attrCrash    \* a call followed or freed a pointer it does not have

attrVars == <<attr, firstAttr, elemOwned, attrCrash>>

AttrPtr == AttrNodes \cup {NoAttr}

AttrTypeOK ==
  /\ attr \in [AttrNodes -> [next : AttrPtr, prev : AttrPtr,
                             owned : BOOLEAN, val : AttrValues \cup {NoValue}]]
  /\ firstAttr \in AttrPtr
  /\ {elemOwned, attrCrash} \subseteq BOOLEAN

\* XmlAttrInit: memset to 0.
XmlAttrInit == [next |-> NoAttr, prev |-> NoAttr, owned |-> FALSE, val |-> NoValue]

AttrInit ==
  /\ attr = [n \in AttrNodes |-> XmlAttrInit]
  /\ firstAttr = NoAttr
  /\ elemOwned \in BOOLEAN
  /\ attrCrash = FALSE

----------------------------------------------------------------------------
\* The nodes a walk from n meets, and those from firstAttr.
AttrsFrom(n) ==
  LET At[m \in AttrPtr] == IF m = NoAttr THEN <<>> ELSE <<m>> \o At[attr[m].next]
  IN  At[n]

AttrList == AttrsFrom(firstAttr)

Listed == Range(AttrList)

\* XmlElementGetAttributeNode: the first node of that name.
XmlElementGetAttributeNode(name) ==
  LET s == AttrList
      i == SelectInSeq(s, LAMBDA m : AttrName[m] = name)
  IN  IF i = 0 THEN NoAttr ELSE s[i]

XmlElementHasAttribute(name) == XmlElementGetAttributeNode(name) # NoAttr

XmlElementGetAttribute(name) ==
  LET m == XmlElementGetAttributeNode(name)
  IN  IF m = NoAttr THEN NoValue ELSE attr[m].val

\* XmlElementGetAttributeNodeNS: the first node of that local name; -1 when
\* the walk first meets a node whose localName is NULL.
XmlElementGetAttributeNodeNS(local) ==
  LET s == AttrList
      i == SelectInSeq(s, LAMBDA m : AttrLocal[m] \in {local, NoName})
  IN  IF i = 0 THEN NoAttr ELSE IF AttrLocal[s[i]] = NoName THEN -1 ELSE s[i]

----------------------------------------------------------------------------
(* The map of attributes (namemap.c). Each entry is added to a chain, but  *)
(* every call that reads a map starts at the node of its first entry and   *)
(* follows the nodes' own nextSibling: a map shows the list as it is now.  *)

\* XmlNamedNodeMapAddToNamedNodeMap of each attribute: the first node.
XmlNamedNodeMapAddToNamedNodeMap(entries, n) ==
  IF entries = <<NoAttr>> THEN <<n>> ELSE Append(entries, n)

XmlNodeGetAttributes ==
  LET s == AttrList
      Map[i \in 0..Len(s)] ==
        IF i = 0 THEN <<NoAttr>> ELSE XmlNamedNodeMapAddToNamedNodeMap(Map[i - 1], s[i])
  IN  Head(Map[Len(s)])

XmlNamedNodeMapGetLength(first) == Len(AttrsFrom(first))

\* The index counts from 0; the length of an empty map less one is the
\* largest number, and the walk ends at once.
XmlNamedNodeMapItem(first, index) ==
  IF index < XmlNamedNodeMapGetLength(first) THEN AttrsFrom(first)[index + 1] ELSE NoAttr

\* -1 for XML_INVALID_ITEM_NUMBER.
XmlNamedNodeMapGetItemNumber(first, name) ==
  SelectInSeq(AttrsFrom(first), LAMBDA m : AttrName[m] = name) - 1

XmlNamedNodeMapGetNamedItem(first, name) ==
  LET index == XmlNamedNodeMapGetItemNumber(first, name)
  IN  IF index = -1 THEN NoAttr ELSE XmlNamedNodeMapItem(first, index)

\* A slip the properties notice: the new node is hung behind the first one.
AppendAttrToFirst(h, n, setPrev) ==
  [x \in AttrNodes |->
     CASE x = n -> [h[x] EXCEPT !.owned = TRUE, !.prev = IF setPrev THEN firstAttr ELSE @]
       [] x = firstAttr -> [h[x] EXCEPT !.next = n]
       [] OTHER -> h[x]]

\* The end of both SetAttributeNode calls for a new name. Only the call
\* without namespace sets prevSibling of the node it appends.
AppendAttr(h, n, setPrev) ==
  LET s == AttrList
      l == IF s = <<>> THEN NoAttr ELSE Last(s)
  IN  [x \in AttrNodes |->
         [h[x] EXCEPT !.owned = IF x = n THEN TRUE ELSE @,
                      !.prev  = IF x = n /\ setPrev THEN l ELSE @,
                      !.next  = IF x = l THEN n ELSE @]]

\* A node that takes the place of m is given m's neighbours, but is not
\* told about them.
ReplaceAttr(h, n, m) ==
  [x \in AttrNodes |->
     [h[x] EXCEPT !.owned = IF x = n THEN TRUE ELSE @,
                  !.next  = IF x = h[m].prev THEN n ELSE @,
                  !.prev  = IF x = h[m].next THEN n ELSE @]]

Crash == attrCrash' = TRUE /\ UNCHANGED <<attr, firstAttr, elemOwned>>

----------------------------------------------------------------------------
\* XmlElementSetAttributeNode: the caller passes a node of the element's
\* document that no element owns.
XmlElementSetAttributeNode(n) ==
  /\ ~attrCrash /\ elemOwned /\ ~attr[n].owned /\ AttrLocal[n] = NoName
  /\ LET m == XmlElementGetAttributeNode(AttrName[n])
     IN  IF m # NoAttr
         THEN /\ attr' = ReplaceAttr(attr, n, m)
              /\ firstAttr' = IF firstAttr = m THEN n ELSE firstAttr
         ELSE /\ attr' = AppendAttr(attr, n, TRUE)
              /\ firstAttr' = IF firstAttr = NoAttr THEN n ELSE firstAttr
  /\ UNCHANGED <<elemOwned, attrCrash>>

\* XmlElementSetAttribute: a new value for the node of that name, or a new
\* node. XmlDocCreateAttributeEx, called without a document, frees the
\* node it has allocated and not initialised.
XmlElementSetAttribute(n, v) ==
  /\ ~attrCrash /\ AttrLocal[n] = NoName
  /\ LET m == XmlElementGetAttributeNode(AttrName[n])
     IN  IF m # NoAttr
         THEN /\ attr' = [attr EXCEPT ![m].val = v]
              /\ UNCHANGED <<firstAttr, elemOwned, attrCrash>>
         ELSE IF ~elemOwned THEN Crash
         ELSE /\ ~attr[n].owned
              /\ attr' = AppendAttr([attr EXCEPT ![n].val = v], n, TRUE)
              /\ firstAttr' = IF firstAttr = NoAttr THEN n ELSE firstAttr
              /\ UNCHANGED <<elemOwned, attrCrash>>

\* XmlElementSetAttributeNS with XmlElementSetAttributeNodeNS.
XmlElementSetAttributeNS(n, v) ==
  /\ ~attrCrash /\ AttrLocal[n] # NoName
  /\ LET m == XmlElementGetAttributeNodeNS(AttrLocal[n])
     IN  IF m = -1 THEN Crash
         ELSE IF m # NoAttr
         THEN /\ attr' = [attr EXCEPT ![m].val = v]
              /\ UNCHANGED <<firstAttr, elemOwned, attrCrash>>
         ELSE \* without a document CreateAttributeNSEx stops at its guard
              /\ elemOwned /\ ~attr[n].owned
              /\ attr' = AppendAttr([attr EXCEPT ![n].val = v], n, FALSE)
              /\ firstAttr' = IF firstAttr = NoAttr THEN n ELSE firstAttr
              /\ UNCHANGED <<elemOwned, attrCrash>>

\* XmlElementRemoveAttribute: the value goes, the node stays.
XmlElementRemoveAttribute(name) ==
  /\ ~attrCrash
  /\ LET m == XmlElementGetAttributeNode(name)
     IN  m # NoAttr /\ attr' = [attr EXCEPT ![m].val = NoValue]
  /\ UNCHANGED <<firstAttr, elemOwned, attrCrash>>

XmlElementRemoveAttributeNS(local) ==
  /\ ~attrCrash /\ local # NoName
  /\ LET m == XmlElementGetAttributeNodeNS(local)
     IN  IF m = -1 THEN Crash
         ELSE /\ m # NoAttr
              /\ attr' = [attr EXCEPT ![m].val = NoValue]
              /\ UNCHANGED <<firstAttr, elemOwned, attrCrash>>

\* XmlElementRemoveAttributeNode of a listed node: its neighbours are
\* joined; the node stays owned.
XmlElementRemoveAttributeNode(m) ==
  /\ ~attrCrash /\ m \in Listed
  /\ attr' = [x \in AttrNodes |->
       [attr[x] EXCEPT
          !.next = IF x = m THEN NoAttr
                   ELSE IF x = attr[m].prev THEN attr[m].next ELSE @,
          !.prev = IF x = m THEN NoAttr
                   ELSE IF x = attr[m].next THEN attr[m].prev ELSE @]]
  /\ firstAttr' = IF firstAttr = m THEN attr[m].next ELSE firstAttr
  /\ UNCHANGED <<elemOwned, attrCrash>>

AttrNext ==
  \/ \E n \in AttrNodes :
        XmlElementSetAttributeNode(n) \/ XmlElementRemoveAttributeNode(n)
  \/ \E n \in AttrNodes, v \in AttrValues :
        XmlElementSetAttribute(n, v) \/ XmlElementSetAttributeNS(n, v)
  \/ \E n \in AttrNodes : \/ XmlElementRemoveAttribute(AttrName[n])
                          \/ XmlElementRemoveAttributeNS(AttrLocal[n])

AttrSpec == AttrInit /\ [][AttrNext]_attrVars

----------------------------------------------------------------------------
\* n stands behind m in the list.
Behind(n, m) ==
  LET s == AttrList IN \E i, j \in DOMAIN s : i < j /\ s[i] = m /\ s[j] = n

\* The ways the code loses attributes that the call does not name: a
\* replacement cuts off everything behind the replaced node; so does the
\* removal of a node that has a predecessor and was not told of it, or was
\* told of a node that did not get into the list.
CutOff(n) ==
  \E m \in Listed :
    /\ Behind(n, m)
    /\ \/ \E x \in AttrNodes : XmlElementSetAttributeNode(x) /\ AttrName[x] = AttrName[m]
       \/ /\ attr[m].prev \notin Listed /\ firstAttr # m
          /\ XmlElementRemoveAttributeNode(m)

\* An attribute leaves the list only when it is removed, replaced by one of
\* its name, or cut off as above; and only a call that names an attribute
\* changes its value. Two attributes of one name are never listed.
AttrsKept ==
  [][/\ \A n \in Listed \ Listed' :
          \/ XmlElementRemoveAttributeNode(n)
          \/ \E x \in AttrNodes : /\ AttrName[x] = AttrName[n]
                                  /\ XmlElementSetAttributeNode(x)
          \/ CutOff(n)
     /\ \A n, m \in Listed' : AttrName[n] = AttrName[m] => n = m
     /\ \A n \in Listed : attr'[n].val # attr[n].val =>
          \A m \in Listed \ {n} : attr'[m].val = attr[m].val]_attrVars

\* A map made now finds by name what the element finds, and by number each
\* attribute once, in the order of the list.
MapShowsList ==
  LET map == XmlNodeGetAttributes
  IN  /\ \A n \in AttrNodes :
           XmlNamedNodeMapGetNamedItem(map, AttrName[n]) = XmlElementGetAttributeNode(AttrName[n])
      /\ XmlNamedNodeMapGetLength(map) = Len(AttrList)
      /\ \A i \in 1..Len(AttrList) : XmlNamedNodeMapItem(map, i - 1) = AttrList[i]

\* A call dies on a pointer only on an element that has no document, or
\* that mixes attributes with and without a namespace.
AttrCrashCause ==
  attrCrash => \/ ~elemOwned
               \/ \E n \in Listed : AttrLocal[n] = NoName
=============================================================================
