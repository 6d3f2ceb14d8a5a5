---------------------------- MODULE XmlNamespace ----------------------------
(***************************************************************************)
(* How the parser finds the namespace of an element (parser.c): each open  *)
(* element has a stack entry with its prefix, one URI and a list of other  *)
(* declarations; an element whose prefix is unknown waits, in              *)
(* pNeedPrefixNode, for one of its attributes to declare it. The one URI   *)
(* of an entry belongs to the element's own prefix, and an attribute xmlns *)
(* writes the same field.                                                  *)
(***************************************************************************)
EXTENDS Naturals, Sequences, SequencesExt

CONSTANTS
  NsPrefixes,   \* prefixes a text may use, NoPrefix apart
  NsUris,       \* URIs it may declare
  NsLocals,     \* local names of elements
  MaxNsElements, \* bound: elements of one text
  MaxNsAttrs     \* bound: attributes of one text

NoPrefix == "-"
NoUri == "null"
NsNames == NsPrefixes \cup {NoPrefix}

ASSUME NsAssumption ==
  /\ NoPrefix \notin NsPrefixes /\ "plain" \notin NsNames
  /\ NoUri \notin NsUris

VARIABLES
  nsStack,  \* the open elements, newest first
  nsNodes,  \* every element: its namespaceURI, and what was written
  nsNeed,   \* pNeedPrefixNode: an index into nsNodes, 0 for NULL
  nsTag,    \* the tag of the newest element still takes attributes
  nsEnd     \* "none", or how the parse was broken off

nsVars == <<nsStack, nsNodes, nsNeed, nsTag, nsEnd>>

Decl == [prefix : NsNames, uri : NsUris]
Plain == [prefix |-> "plain", uri |-> NoUri] \* any attribute but xmlns

NsTypeOK ==
  /\ nsStack \in Seq([node : DOMAIN nsNodes, prefix : NsNames,
                      uri : NsUris \cup {NoUri}, decls : Seq(Decl)])
  /\ nsNodes \in Seq([prefix : NsNames, local : NsLocals, parent : 0..Len(nsNodes),
                      uri : NsUris \cup {NoUri}, wrote : Seq(Decl \cup {Plain})])
  /\ nsNeed \in 0..Len(nsNodes)
  /\ nsTag \in BOOLEAN
  /\ nsEnd \in {"none", "failed", "crash"}

NsInit ==
  /\ nsStack = <<>> /\ nsNodes = <<>> /\ nsNeed = 0
  /\ nsTag = FALSE /\ nsEnd = "none"

----------------------------------------------------------------------------
\* The places of a list of declarations, or attributes, that are for a prefix.
PlacesOf(list, prefix) == {i \in DOMAIN list : list[i].prefix = prefix}

\* XMLParserElementPrefixDefined: the first entry from the top that has the
\* prefix itself or lists it. The answer may be an entry without URI.
XMLParserElementPrefixDefined(prefix) ==
  LET knowing == {i \in DOMAIN nsStack : \/ nsStack[i].prefix = prefix
                                         \/ PlacesOf(nsStack[i].decls, prefix) # {}}
      e == nsStack[Min(knowing)]
  IN  IF knowing = {} THEN [found |-> FALSE, uri |-> NoUri]
      ELSE [found |-> TRUE,
            uri |-> IF e.prefix = prefix THEN e.uri
                    ELSE e.decls[Min(PlacesOf(e.decls, prefix))].uri]

\* XMLParserHasDefaultNamespace: the first element without prefix that has
\* a URI.
XMLParserHasDefaultNamespace ==
  LET named == {i \in DOMAIN nsStack : nsStack[i].prefix = NoPrefix /\ nsStack[i].uri # NoUri}
  IN  IF named = {} THEN [found |-> FALSE, uri |-> NoUri]
      ELSE [found |-> TRUE, uri |-> nsStack[Min(named)].uri]

\* ParserProcessElementName and Parser_pushElement: the entry takes prefix
\* and URI from the element. An element waits for its URI if its prefix is
\* unknown, or it has none and attributes follow.
NsStartTag(prefix, local, attributes) ==
  /\ nsEnd = "none" /\ ~nsTag /\ Len(nsNodes) < MaxNsElements
  /\ nsNodes = <<>> \/ nsStack # <<>>
  /\ LET known == IF prefix = NoPrefix THEN XMLParserHasDefaultNamespace
                  ELSE XMLParserElementPrefixDefined(prefix)
         n == Len(nsNodes) + 1
     IN  /\ nsNodes' = Append(nsNodes,
              [prefix |-> prefix, local |-> local, uri |-> known.uri, wrote |-> <<>>,
               parent |-> IF nsStack = <<>> THEN 0 ELSE Head(nsStack).node])
         /\ nsStack' = <<[node |-> n, prefix |-> prefix, uri |-> known.uri,
                          decls |-> <<>>]>> \o nsStack
         /\ nsNeed' = IF ~known.found /\ (prefix # NoPrefix \/ attributes)
                      THEN n ELSE nsNeed
  /\ nsTag' = attributes
  /\ UNCHANGED nsEnd

\* XMLParserXmlNamespace on the entry: xmlns and the element's own prefix
\* set its URI, any other prefix is put in or replaced in the list.
Declared(e, d) ==
  IF d.prefix \in {NoPrefix, e.prefix} THEN [e EXCEPT !.uri = d.uri]
  ELSE LET old == PlacesOf(e.decls, d.prefix)
       IN  [e EXCEPT !.decls = IF old = {} THEN Append(@, d)
                               ELSE [@ EXCEPT ![Min(old)] = d]]

\* ParserAddNamespace, for the waiting element and the entry on top: they
\* are taken for the same element if they agree in name, or in prefix. The
\* names are compared first, then the prefixes, one of which may be NULL.
ParserAddNamespace(nodes, e) ==
  LET w == nodes[nsNeed]
      same == w.prefix = e.prefix /\ w.local = nodes[e.node].local
      stays == [nodes |-> nodes, need |-> nsNeed, end |-> "none"]
      filled == [nodes |-> [nodes EXCEPT ![nsNeed].uri = e.uri], need |-> 0,
                 end |-> "none"]
  IN  IF w.prefix = NoPrefix
      THEN IF ~same THEN [stays EXCEPT !.end = "failed"] ELSE filled
      ELSE IF ~same /\ e.prefix = NoPrefix THEN [stays EXCEPT !.end = "crash"]
      ELSE IF ~same /\ w.prefix # e.prefix THEN [stays EXCEPT !.end = "failed"]
      ELSE IF e.uri # NoUri THEN filled ELSE stays

NsWritten == FoldLeft(LAMBDA n, e : n + Len(e.wrote), 0, nsNodes)

\* An attribute of the newest element.
NsAttribute(d) ==
  /\ nsEnd = "none" /\ nsTag /\ NsWritten < MaxNsAttrs
  /\ LET e == IF d = Plain THEN Head(nsStack) ELSE Declared(Head(nsStack), d)
         wrote == [nsNodes EXCEPT ![e.node].wrote = Append(@, d)]
         r == IF nsNeed = 0 THEN [nodes |-> wrote, need |-> 0, end |-> "none"]
              ELSE ParserAddNamespace(wrote, e)
     IN  /\ \* no attribute is written twice in a tag
            \A i \in DOMAIN nsNodes[e.node].wrote :
               nsNodes[e.node].wrote[i].prefix # d.prefix
         /\ nsStack' = <<e>> \o Tail(nsStack)
         /\ nsNodes' = r.nodes /\ nsNeed' = r.need /\ nsEnd' = r.end
  /\ UNCHANGED nsTag

NsEndOfTag ==
  /\ nsEnd = "none" /\ nsTag
  /\ nsNodes[Head(nsStack).node].wrote # <<>>
  /\ nsTag' = FALSE
  /\ UNCHANGED <<nsStack, nsNodes, nsNeed, nsEnd>>

\* ParserPopElement.
ParserPopElement ==
  /\ nsEnd = "none" /\ ~nsTag /\ nsStack # <<>>
  /\ nsStack' = Tail(nsStack)
  /\ UNCHANGED <<nsNodes, nsNeed, nsTag, nsEnd>>

NsNext ==
  \/ \E p \in NsNames, l \in NsLocals, a \in BOOLEAN : NsStartTag(p, l, a)
  \/ \E d \in Decl \cup {Plain} : NsAttribute(d)
  \/ NsEndOfTag
  \/ ParserPopElement

NsSpec == NsInit /\ [][NsNext]_nsVars

----------------------------------------------------------------------------
\* The element n of the elements ns, and those around it, up to the root.
OnPath(ns, n) ==
  LET up[m \in 0..Len(ns)] == IF m = 0 THEN {} ELSE {m} \cup up[ns[m].parent]
  IN  up[n]

\* What XML gives a prefix in element n: its innermost declaration on the
\* path up from n, n included.
InScope(ns, n, prefix) ==
  LET Own(m) == PlacesOf(ns[m].wrote, prefix)
      uri[m \in 0..Len(ns)] ==
        IF m = 0 THEN NoUri
        ELSE IF Own(m) = {} THEN uri[ns[m].parent]
        ELSE ns[m].wrote[Min(Own(m))].uri
  IN  uri[n]

Meant(ns, n) == InScope(ns, n, ns[n].prefix)

\* Element m wrote xmlns although it has a prefix: one field for two.
TwoInOne(ns, m) ==
  ns[m].prefix # NoPrefix /\ PlacesOf(ns[m].wrote, NoPrefix) # {}

\* m declares its own prefix, or the default it uses, and so does an
\* element above it: the URI found first stays.
DeclaresAgain(ns, m) ==
  /\ PlacesOf(ns[m].wrote, ns[m].prefix) # {}
  /\ InScope(ns, ns[m].parent, ns[m].prefix) # NoUri

\* m has no prefix and writes xmlns behind another attribute: it has
\* stopped waiting by then, and is left without a namespace.
DeclaresLate(ns, m) ==
  ns[m].prefix = NoPrefix /\ \E i \in PlacesOf(ns[m].wrote, NoPrefix) : i > 1

Complete(n) == ~(nsTag /\ n = Head(nsStack).node)

\* Every prefix that is used is declared.
WellNamed ==
  \A n \in DOMAIN nsNodes :
     Complete(n) /\ nsNodes[n].prefix # NoPrefix => Meant(nsNodes, n) # NoUri

\* In a text that declares what it uses, an element whose tag is complete
\* has the namespace XML gives it, and the parse goes on; unless it writes
\* xmlns late, or declares its own prefix a second time, or on the path to
\* it a prefixed element wrote xmlns.
NamespaceAsMeant ==
  WellNamed =>
    /\ nsEnd = "none"
    /\ \A n \in DOMAIN nsNodes :
         Complete(n) => \/ nsNodes[n].uri = Meant(nsNodes, n)
                        \/ DeclaresLate(nsNodes, n)
                        \/ DeclaresAgain(nsNodes, n)
                        \/ \E m \in OnPath(nsNodes, n) : TwoInOne(nsNodes, m)

\* The parse breaks off, or dies comparing a prefix with NULL, only after
\* an element whose prefix nobody declared, which still waits.
WaitingIsUndeclared ==
  nsEnd # "none" => nsNeed # 0 /\ nsNeed # Head(nsStack).node
                    /\ nsNodes[nsNeed].uri = NoUri
=============================================================================
