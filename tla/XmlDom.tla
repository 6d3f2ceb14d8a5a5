------------------------------- MODULE XmlDom -------------------------------
(***************************************************************************)
(* The document object model of libcwmp/src/xmlet: nodes that hold         *)
(* pointers to parent, first child and both siblings, and the calls of     *)
(* node.c and document.c that create, insert, replace, remove, copy,       *)
(* search and free them. Names and values of nodes do not change here, so  *)
(* they are constants of a node; attributes have a module of their own.    *)
(***************************************************************************)
EXTENDS Naturals, Sequences, FiniteSets

CONSTANTS
  DomNodes,  \* the nodes a run may allocate
  DomKind,   \* nodeType of each: "document", "element", "text" or "cdata"
  DomTag,    \* nodeName of each
  DomMoves   \* TRUE: callers also insert a node that has another parent

NoNode == 0

DomKinds == {"document", "element", "text", "cdata"}

ASSUME DomAssumption ==
  /\ NoNode \notin DomNodes
  /\ DomKind \in [DomNodes -> DomKinds]
  /\ DomMoves \in BOOLEAN

VARIABLES
  dom,      \* the pointers of every node
  domLive   \* the nodes allocated and not freed

domVars == <<dom, domLive>>

DomPtr == DomNodes \cup {NoNode}

XmlNodeType ==
  [parent : DomPtr, first : DomPtr, next : DomPtr, prev : DomPtr, doc : DomPtr]

\* XmlNodeInit, XmlElementInit, XmlDocumentInit: memset to 0.
XmlNodeInit ==
  [parent |-> NoNode, first |-> NoNode, next |-> NoNode, prev |-> NoNode,
   doc |-> NoNode]

DomTypeOK ==
  /\ dom \in [DomNodes -> XmlNodeType]
  /\ domLive \subseteq DomNodes

DomInit ==
  /\ dom = [n \in DomNodes |-> XmlNodeInit]
  /\ domLive = {}

----------------------------------------------------------------------------
(* Reading the tree.                                                       *)

\* The children of n in the order the sibling pointers give: what every
\* traversal of the library walks.
DomKids(n) ==
  LET From[m \in DomPtr] ==
        IF m = NoNode THEN <<>> ELSE <<m>> \o From[dom[m].next]
  IN  From[dom[n].first]

\* XmlNodeIsAncestor: the recursion also enters the later siblings of the
\* node it was asked about.
XmlNodeIsAncestor(anc, n) ==
  LET Found[a \in DomPtr] ==
        /\ a # NoNode
        /\ \/ dom[n].parent = a
           \/ Found[dom[a].first]
           \/ Found[dom[a].next]
  IN  Found[anc]

XmlNodeIsParent(n, c) == dom[c].parent = n

XmlNodeAllowChildren(n, c) ==
  CASE DomKind[n] \in {"text", "cdata"} -> FALSE
    [] DomKind[n] = "element" -> DomKind[c] # "document"
    [] DomKind[n] = "document" -> DomKind[c] = "element"

\* XmlNodeGetLastChild answers the node itself when it has no child.
XmlNodeGetLastChild(n) ==
  LET Last[m \in DomPtr] ==
        IF dom[m].next = NoNode THEN m ELSE Last[dom[m].next]
  IN  IF dom[n].first = NoNode THEN n ELSE Last[dom[n].first]

\* XmlNodeListInit makes a list with one item, which stays empty when
\* nothing is added; a list not yet made is <<>>.
XmlNodeListInit == <<NoNode>>

XmlNodeListAddToNodeList(list, n) ==
  IF list \in {<<>>, XmlNodeListInit} THEN <<n>> ELSE Append(list, n)

XmlNodeListLength(list) == Len(list)

\* The index counts from 0.
XmlNodeListItem(list, index) ==
  IF index < XmlNodeListLength(list) THEN list[index + 1] ELSE NoNode

XmlNodeGetChildNodes(n) ==
  LET s == DomKids(n)
      Added[i \in 0..Len(s)] ==
        IF i = 0 THEN XmlNodeListInit ELSE XmlNodeListAddToNodeList(Added[i - 1], s[i])
  IN  Added[Len(s)]

\* The node itself, if it is an element of that name.
Matching(n, tag) ==
  IF DomKind[n] = "element" /\ tag \in {DomTag[n], "*"} THEN <<n>> ELSE <<>>

XmlNodeGetElementsByTagNameRecursive(n, tag) ==
  LET Below[m \in DomPtr] ==
        IF m = NoNode THEN <<>>
        ELSE Matching(m, tag) \o Below[dom[m].first] \o Below[dom[m].next]
  IN  Below[n]

\* The node, then everything below it.
XmlNodeGetElementsByTagName(n, tag) ==
  Matching(n, tag) \o XmlNodeGetElementsByTagNameRecursive(dom[n].first, tag)

\* The nodes a walk by firstChild and nextSibling meets: those below n, its
\* later siblings and theirs. XmlNodeFree and XmlDocSetOwnerDocument walk so.
Closed(h, S) ==
  \A m \in S : {h[m].first, h[m].next} \subseteq S \cup {NoNode}

Walked(h, n) ==
  {x \in DomNodes : \A S \in SUBSET DomNodes : n \in S /\ Closed(h, S) => x \in S}

----------------------------------------------------------------------------
(* Copying: what a copy holds, as a tree of records.                       *)

\* XmlNodeCloneElement, XmlNodeCloneTextNode, XmlNodeCloneCDATASect and
\* XmlNodeCloneDoc: kind and name are kept, owner and links are not.
XmlNodeCloneElement(n, kids) ==
  [kind |-> "element", tag |-> DomTag[n], kids |-> kids]

XmlNodeCloneTextNode(n) == [kind |-> "text", tag |-> DomTag[n], kids |-> <<>>]

XmlNodeCloneCDATASect(n) ==
  [kind |-> "cdata", tag |-> DomTag[n], kids |-> <<>>]

XmlNodeCloneDoc(kids) ==
  [kind |-> "document", tag |-> "#document", kids |-> kids]

\* The copy of n and of the siblings after it. A text or CDATA node ends
\* the list: its nextSibling is not followed; a document has none.
XmlNodeCloneNodeTreeRecursive(n) ==
  LET Copy[m \in DomPtr] ==
        IF m = NoNode THEN <<>>
        ELSE CASE DomKind[m] = "element" ->
                    <<XmlNodeCloneElement(m, Copy[dom[m].first])>>
                      \o Copy[dom[m].next]
               [] DomKind[m] = "text" -> <<XmlNodeCloneTextNode(m)>>
               [] DomKind[m] = "cdata" -> <<XmlNodeCloneCDATASect(m)>>
               [] DomKind[m] = "document" ->
                    <<XmlNodeCloneDoc(Copy[dom[m].first])>>
  IN  Copy[n]

XmlNodeCloneNodeTree(n, deep) ==
  CASE DomKind[n] = "element" ->
         XmlNodeCloneElement(n, IF deep
                                THEN XmlNodeCloneNodeTreeRecursive(dom[n].first)
                                ELSE <<>>)
    [] DomKind[n] = "document" ->
         XmlNodeCloneDoc(IF deep
                         THEN XmlNodeCloneNodeTreeRecursive(dom[n].first)
                         ELSE <<>>)
    [] OTHER -> Head(XmlNodeCloneNodeTreeRecursive(n))

XmlDocSetOwnerDocument(h, d, n) ==
  [m \in DomNodes |-> IF m \in Walked(h, n) THEN [h[m] EXCEPT !.doc = d] ELSE h[m]]

----------------------------------------------------------------------------
(* The pointer assignments of the calls, on a table of nodes h.            *)

\* A slip the properties notice: the later sibling is not told.
UnlinkOneWay(h, p, c) ==
  [x \in DomNodes |->
     [parent |-> IF x = c THEN NoNode ELSE h[x].parent,
      first  |-> IF x = p /\ h[p].first = c THEN h[c].next ELSE h[x].first,
      next   |-> IF x = c THEN NoNode
                 ELSE IF x = h[c].prev THEN h[c].next ELSE h[x].next,
      prev   |-> IF x = c THEN NoNode ELSE h[x].prev,
      doc    |-> h[x].doc]]

\* XmlNodeRemoveChild, once the parent has been checked.
Unlink(h, p, c) ==
  [x \in DomNodes |->
     [parent |-> IF x = c THEN NoNode ELSE h[x].parent,
      first  |-> IF x = p /\ h[p].first = c THEN h[c].next ELSE h[x].first,
      next   |-> IF x = c THEN NoNode
                 ELSE IF x = h[c].prev THEN h[c].next ELSE h[x].next,
      prev   |-> IF x = c THEN NoNode
                 ELSE IF x = h[c].next THEN h[c].prev ELSE h[x].prev,
      doc    |-> h[x].doc]]

\* XmlNodeInsertBefore: c goes in front of r. A node that comes from
\* another parent keeps its old prevSibling when r is the first child.
LinkBefore(h, p, c, r) ==
  LET back == IF h[r].prev # NoNode THEN h[r].prev ELSE h[c].prev
  IN  [x \in DomNodes |->
         [parent |-> IF x = c THEN p ELSE h[x].parent,
          first  |-> IF x = p /\ back = NoNode THEN c ELSE h[x].first,
          next   |-> IF x = c THEN r
                     ELSE IF x = h[r].prev THEN c ELSE h[x].next,
          prev   |-> IF x = c THEN back ELSE IF x = r THEN c ELSE h[x].prev,
          doc    |-> h[x].doc]]

\* XmlNodeAppendChild: l is the child the walk along nextSibling ends at,
\* NoNode when there is none. The node's own nextSibling is left alone.
LinkLast(h, p, c, l) ==
  [x \in DomNodes |->
     [parent |-> IF x = c THEN p ELSE h[x].parent,
      first  |-> IF x = p /\ l = NoNode THEN c ELSE h[x].first,
      next   |-> IF l # NoNode /\ x = l THEN c ELSE h[x].next,
      prev   |-> IF x = c /\ l # NoNode THEN l ELSE h[x].prev,
      doc    |-> IF x = c THEN h[p].doc ELSE h[x].doc]]

\* A slip the properties notice: the walk stops at the first child.
WalkEndsAtFirst(h, p, l) == l = h[p].first

\* Where that walk can end: on a child of p that has no nextSibling.
WalkEnds(h, p, l) ==
  IF h[p].first = NoNode THEN l = NoNode
  ELSE l \in DomNodes /\ h[l].parent = p /\ h[l].next = NoNode

DetachedFirst(h, p, c) == IF h[c].parent = p THEN Unlink(h, p, c) ELSE h

----------------------------------------------------------------------------
(* Return codes, in the order the code tests for them.                     *)

AppendChildReturns(p, c) ==
  IF dom[c].doc # NoNode /\ dom[p].doc # dom[c].doc THEN "wrong_document"
  ELSE IF XmlNodeIsAncestor(c, p) \/ ~XmlNodeAllowChildren(p, c)
  THEN "hierarchy_request" ELSE "ok"

InsertBeforeReturns(p, c, r) ==
  IF ~XmlNodeAllowChildren(p, c) \/ XmlNodeIsAncestor(c, p)
  THEN "hierarchy_request"
  ELSE IF dom[p].doc # dom[c].doc THEN "wrong_document"
  ELSE IF ~XmlNodeIsParent(p, r) THEN "not_found" ELSE "ok"

\* The uses the callers make: a node is put under p when it has no parent
\* or is a child of p already, and never under or in front of itself.
MayPut(p, c) ==
  /\ c # p
  /\ DomMoves \/ dom[c].parent \in {NoNode, p}

----------------------------------------------------------------------------
(* The calls that change nodes. One that returns an error changes nothing. *)

\* The creation calls: a new node of the kind, which the document d owns. A
\* document owns itself.
XmlDocCreateElementEx(d, n) ==
  DomKind[n] = "element" /\ dom' = [dom EXCEPT ![n] = [XmlNodeInit EXCEPT !.doc = d]]

XmlDocCreateTextNodeEx(d, n) ==
  DomKind[n] = "text" /\ dom' = [dom EXCEPT ![n] = [XmlNodeInit EXCEPT !.doc = d]]

XmlDocCreateCDATASectionEx(d, n) ==
  DomKind[n] = "cdata" /\ dom' = [dom EXCEPT ![n] = [XmlNodeInit EXCEPT !.doc = d]]

XmlDocCreateDocumentEx(n) ==
  DomKind[n] = "document" /\ dom' = [dom EXCEPT ![n] = [XmlNodeInit EXCEPT !.doc = n]]

XmlDocCreateNode(d, n) ==
  /\ n \notin domLive
  /\ \/ /\ d \in domLive /\ DomKind[d] = "document"
        /\ \/ XmlDocCreateElementEx(d, n)
           \/ XmlDocCreateTextNodeEx(d, n)
           \/ XmlDocCreateCDATASectionEx(d, n)
     \/ d = n /\ XmlDocCreateDocumentEx(n)
  /\ domLive' = domLive \cup {n}

\* XmlDocImportNode, not deep: a copy of src that belongs to d. A document
\* is refused.
XmlDocImportNode(d, src, n) ==
  /\ n \notin domLive /\ {d, src} \subseteq domLive
  /\ DomKind[d] = "document" /\ DomKind[src] # "document"
  /\ DomKind[n] = DomKind[src] /\ DomTag[n] = DomTag[src]
  /\ dom' = XmlDocSetOwnerDocument([dom EXCEPT ![n] = XmlNodeInit], d, n)
  /\ domLive' = domLive \cup {n}

\* XmlNodeCloneNode, not deep: the copy belongs to no document.
XmlNodeCloneNode(src, n) ==
  /\ n \notin domLive /\ src \in domLive
  /\ DomKind[n] = DomKind[src] /\ DomTag[n] = DomTag[src]
  /\ dom' = [dom EXCEPT ![n] = XmlNodeInit]
  /\ domLive' = domLive \cup {n}

XmlNodeAppendChild(p, c) ==
  /\ {p, c} \subseteq domLive /\ MayPut(p, c)
  /\ AppendChildReturns(p, c) = "ok"
  /\ LET h == DetachedFirst(dom, p, c)
     IN  \E l \in DomPtr : WalkEnds(h, p, l) /\ dom' = LinkLast(h, p, c, l)
  /\ UNCHANGED domLive

XmlNodeInsertBefore(p, c, r) ==
  /\ {p, c, r} \subseteq domLive /\ MayPut(p, c) /\ c # r
  /\ InsertBeforeReturns(p, c, r) = "ok"
  /\ dom' = LinkBefore(DetachedFirst(dom, p, c), p, c, r)
  /\ UNCHANGED domLive

\* The new child is inserted in front of the old one, which then goes.
XmlNodeReplaceChild(p, c, old) ==
  /\ {p, c, old} \subseteq domLive /\ MayPut(p, c) /\ c # old
  /\ InsertBeforeReturns(p, c, old) = "ok"
  /\ dom' = Unlink(LinkBefore(DetachedFirst(dom, p, c), p, c, old), p, old)
  /\ UNCHANGED domLive

XmlNodeRemoveChild(p, c) ==
  /\ {p, c} \subseteq domLive
  /\ XmlNodeIsParent(p, c)
  /\ dom' = Unlink(dom, p, c)
  /\ UNCHANGED domLive

\* XmlDocumentFree, XmlElementFree, XmlNodeFree of a node without parent.
XmlNodeFree(n) ==
  /\ n \in domLive /\ dom[n].parent = NoNode
  /\ LET gone == Walked(dom, n)
     IN  /\ domLive' = domLive \ gone
         /\ dom' = [x \in DomNodes |-> IF x \in gone THEN XmlNodeInit ELSE dom[x]]

DomNext ==
  \/ \E n, d \in DomNodes : XmlDocCreateNode(d, n)
  \/ \E n, s, d \in DomNodes : XmlDocImportNode(d, s, n)
  \/ \E n, s \in DomNodes : XmlNodeCloneNode(s, n)
  \/ \E p, c \in DomNodes :
        XmlNodeAppendChild(p, c) \/ XmlNodeRemoveChild(p, c)
  \/ \E p, c, r \in DomNodes :
        XmlNodeInsertBefore(p, c, r) \/ XmlNodeReplaceChild(p, c, r)
  \/ \E n \in DomNodes : XmlNodeFree(n)

DomSpec == DomInit /\ [][DomNext]_domVars

----------------------------------------------------------------------------
(* Properties.                                                             *)

\* Sibling lists are doubly linked, start at the parent's firstChild, and
\* hold nodes of one parent; a node without parent has no siblings. Every
\* traversal, and the unlinking in XmlNodeRemoveChild, relies on it.
DomLinks ==
  \A n \in DomNodes :
    /\ dom[n].next # NoNode =>
         dom[dom[n].next].prev = n /\ dom[dom[n].next].parent = dom[n].parent
    /\ dom[n].prev # NoNode =>
         dom[dom[n].prev].next = n /\ dom[dom[n].prev].parent = dom[n].parent
    /\ dom[n].first # NoNode =>
         dom[dom[n].first].parent = n /\ dom[dom[n].first].prev = NoNode
    /\ dom[n].parent # NoNode /\ dom[n].prev = NoNode =>
         dom[dom[n].parent].first = n
    /\ dom[n].parent = NoNode =>
         dom[n].next = NoNode /\ dom[n].prev = NoNode

\* Nothing a live node points at, its owner aside, has been freed: freeing
\* takes whole trees.
DomNoDangling ==
  \A n \in domLive : {dom[n].parent, dom[n].first, dom[n].next, dom[n].prev}
                       \subseteq domLive \cup {NoNode}

\* The pointers show the forest that XmlTree describes, and every call is
\* one of its steps (DomRefinesTree, a temporal property).
DomForest == [n \in domLive |-> DomKids(n)]
Tree == INSTANCE XmlTree WITH TreeNodes <- DomNodes, kids <- DomForest
DomRefinesTree == Tree!TreeSpec

\* A caller that keeps to the uses above is refused for the hierarchy only
\* if the node really has the parent-to-be below it, or if its kind does
\* not belong there: entering the later siblings adds no refusal.
RefusalsExact ==
  \A p, c \in domLive : (MayPut(p, c) /\ ~DomMoves) =>
     (XmlNodeIsAncestor(c, p) <=> p \in Tree!TreeBelow(c) \ {c})

\* The tree under n as records: what a copy of the subtree is.
TreeOf(n) ==
  LET k == DomForest
      Of[m \in DomNodes] ==
        [kind |-> DomKind[m],
         tag  |-> IF DomKind[m] = "document" THEN "#document" ELSE DomTag[m],
         kids |-> [i \in DOMAIN k[m] |-> Of[k[m][i]]]]
  IN  Of[n]

\* Some node of the tree has a child after a text or CDATA child: there
\* XmlNodeCloneNodeTreeRecursive stops, although the comment at node.c:1635
\* says that the subtree is cloned.
CopyStops(n) ==
  \E m \in Tree!TreeBelow(n) :
    \E i \in 1..(Len(DomForest[m]) - 1) : DomKind[DomForest[m][i]] \in {"text", "cdata"}

\* The elements of the tree under n with the name, by position.
ElementsOf(n, tag) ==
  {m \in Tree!TreeBelow(n) : DomKind[m] = "element" /\ tag \in {DomTag[m], "*"}}

\* Copying, searching and listing walk exactly the children the tree has:
\* the deep copy of a node is its tree unless, and only unless, a text or CDATA
\* node in it has later siblings, a search finds each element of the name
\* once, parents first, and the child list is the children, or one empty item
\* when there are none.
TraversalsFaithful ==
  \A n \in domLive :
    /\ XmlNodeCloneNodeTree(n, TRUE) = TreeOf(n) <=> ~CopyStops(n)
    /\ XmlNodeCloneNodeTree(n, FALSE).kids = <<>>
    /\ LET s == XmlNodeGetElementsByTagName(n, "*")
       IN  /\ {s[i] : i \in DOMAIN s} = ElementsOf(n, "*")
           /\ Len(s) = Cardinality(ElementsOf(n, "*"))
           /\ \A i, j \in DOMAIN s : s[j] \in Tree!TreeBelow(s[i]) => i <= j
    /\ LET list == XmlNodeGetChildNodes(n)
       IN  \A i \in 0..XmlNodeListLength(list) :
             XmlNodeListItem(list, i) =
               IF i < Len(DomForest[n]) THEN DomForest[n][i + 1] ELSE NoNode
    /\ XmlNodeGetLastChild(n) = IF DomForest[n] = <<>> THEN n
                                ELSE DomForest[n][Len(DomForest[n])]
=============================================================================
