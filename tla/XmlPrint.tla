------------------------------ MODULE XmlPrint ------------------------------
(***************************************************************************)
(* Printing of a tree (xmlet.c): what XmlPrintDocument writes for the tree *)
(* of XmlDom, as the pieces that XmlParser reads. An answer to the ACS is  *)
(* such a text (cwmp_write_doc_to_chunk).                                  *)
(***************************************************************************)
EXTENDS XmlDom, XmlParser

CONSTANTS
  DomText,   \* nodeValue of each node: "none", "plain", or "markup" (has '<')
  DomAttrs,  \* the names of each node's attributes, in order
  Markups    \* what values with markup may hold: records of the pieces that
             \* one reads as between tags (text) and that the value of an
             \* attribute reads as behind the quote it holds (attr)

ASSUME PrintAssumption ==
  /\ DomText \in [DomNodes -> {"none", "plain", "markup"}]
  /\ DOMAIN DomAttrs = DomNodes

Written(t, name) == [t |-> t, name |-> name]
PlainText == <<Written("text", "-")>>

\* XmlBufferAppendString of a value as it is: what it holds is read as tags.
RawValue(n, mk) ==
  CASE DomText[n] = "none" -> <<>>
    [] DomText[n] = "plain" -> PlainText
    [] DomText[n] = "markup" -> mk.text

\* A slip the properties notice: a text is printed as it is.
XmlCopyWithoutEscape(n, mk) == RawValue(n, mk)

\* XmlCopyWithEscape.
XmlCopyWithEscape(n, mk) == IF DomText[n] = "none" THEN <<>> ELSE PlainText

\* Values of attributes stand between quotes as they are.
OpenTag(n, mk) ==
  <<Written("stag", DomTag[n])>>
    \o FlattenSeq([i \in DOMAIN DomAttrs[n] |->
                     <<Written("attr", DomAttrs[n][i])>> \o mk.attr])
    \o <<Written("gt", "-")>>

CloseTag(n) == <<Written("etag", DomTag[n])>>

IsElement(m) == m # NoNode /\ DomKind[m] = "element"

\* XmlPrintDomTreeRecursive: a node and the siblings after it, but none
\* after a text or a section. An element prints its children if the first
\* of them is an element, else the value it holds itself.
XmlPrintDomTreeRecursive(n, mk) ==
  LET Rec[m \in DomPtr] ==
        IF m = NoNode THEN <<>>
        ELSE CASE DomKind[m] = "text" -> XmlCopyWithEscape(m, mk)
               [] DomKind[m] = "cdata" -> RawValue(m, mk)
               [] DomKind[m] = "document" -> Rec[dom[m].first]
               [] DomKind[m] = "element" ->
                    OpenTag(m, mk)
                      \o (IF IsElement(dom[m].first) THEN Rec[dom[m].first]
                          ELSE RawValue(m, mk))
                      \o CloseTag(m) \o Rec[dom[m].next]
  IN  Rec[n]

\* XmlPrintDomTree, which XmlPrintNode and XmlPrintDocument call: an element
\* is printed without its siblings.
XmlPrintDomTree(n, mk) ==
  IF ~IsElement(n) THEN XmlPrintDomTreeRecursive(n, mk)
  ELSE OpenTag(n, mk)
         \o (IF IsElement(dom[n].first)
             THEN XmlPrintDomTreeRecursive(dom[n].first, mk) ELSE RawValue(n, mk))
         \o CloseTag(n)

\* XmlDomTreetoString (XmlNodeToString): the children whatever they are, and
\* not the value of the element.
XmlDomTreetoString(n, mk) ==
  IF ~IsElement(n) THEN XmlPrintDomTreeRecursive(n, mk)
  ELSE OpenTag(n, mk) \o XmlPrintDomTreeRecursive(dom[n].first, mk) \o CloseTag(n)

\* XmlPrintDomTreeIdent: the same choice at every depth.
XmlPrintDomTreeIdent(n, mk) ==
  LET Rec[m \in DomPtr] ==
        IF m = NoNode THEN <<>>
        ELSE CASE DomKind[m] = "text" -> XmlCopyWithEscape(m, mk)
               [] DomKind[m] = "cdata" -> RawValue(m, mk)
               [] DomKind[m] = "document" -> Rec[dom[m].first]
               [] DomKind[m] = "element" ->
                    OpenTag(m, mk) \o Rec[dom[m].first] \o CloseTag(m)
                      \o Rec[dom[m].next]
  IN  Rec[n]

----------------------------------------------------------------------------
(* Properties.                                                             *)

\* Is m in a text that starts at its ancestor d, if every element prints the
\* children that `opens` lets it print?
Shown(d, m, opens(_)) ==
  LET In[x \in DomPtr] ==
        \/ x = d
        \/ /\ x # NoNode /\ dom[x].parent # NoNode
           /\ In[dom[x].parent] /\ opens(dom[x].parent)
           /\ \A y \in DomNodes :
                (dom[y].parent = dom[x].parent /\ y # x) =>
                  LET k == DomKids(dom[x].parent)
                  IN  \E i, j \in DOMAIN k : /\ k[i] = x /\ k[j] = y
                                             /\ i > j => IsElement(y)
  IN  In[m]

FirstIsElement(p) == DomKind[p] = "document" \/ IsElement(dom[p].first)
Always(p) == TRUE

\* The values shown inside element e: those of its text or section children
\* if it prints children, else its own.
ValuesIn(d, e, opens(_), own) ==
  IF opens(e)
  THEN {m \in DomNodes : /\ dom[m].parent = e /\ DomKind[m] \in {"text", "cdata"}
                         /\ Shown(d, m, opens) /\ DomText[m] # "none"}
  ELSE {m \in {e} : own /\ DomText[m] # "none"}

\* As XML, the text s printed for d is the tree: every piece stands where it
\* may; there is one start tag for each element to be shown, inside that of
\* its parent, with its attributes; the text in it is one value or none; and
\* there is nothing else.
ReadsAsTree(s, d, opens(_), own) ==
  LET els == SelectSeq(XmlNodeGetElementsByTagName(d, "*"),
                       LAMBDA m : Shown(d, m, opens))
      tags == {i \in DOMAIN s : s[i].t = "stag"}
      Nth(m) == CHOOSE i \in tags :
                  Cardinality({j \in tags : j <= i})
                    = CHOOSE k \in DOMAIN els : els[k] = m
      TagAt(i, e) ==
        LET w == Len(DomAttrs[e])
        IN  /\ s[i].name = DomTag[e] /\ s[i + w + 1].t = "gt"
            /\ \A k \in 1..w : s[i + k] = Written("attr", DomAttrs[e][k])
  IN  /\ \A i \in DOMAIN s : s[i].t \in {"stag", "attr", "gt", "etag", "text"}
      /\ Cardinality(tags) = Len(els)
      /\ \A i \in 1..(Len(s) + 1) : XmlAllows(Append(s, Written("eof", "-")), i)
      /\ Cardinality({i \in DOMAIN s : s[i].t = "gt"}) = Len(els)
      /\ \A k \in DOMAIN els :
           LET i == Nth(els[k])
               p == dom[els[k]].parent
               texts == {j \in DOMAIN s : s[j].t = "text" /\ Enclosing(s, j) = i}
           IN  /\ TagAt(i, els[k])
               /\ Enclosing(s, i) = IF els[k] = d \/ ~IsElement(p) THEN 0 ELSE Nth(p)
               /\ Cardinality(texts) = Cardinality(ValuesIn(d, els[k], opens, own))

\* Some value that the text of d shows as it is holds markup.
HasMarkup(d, mk, opens(_), own) ==
  \E m \in Tree!TreeBelow(d) :
    /\ Shown(d, m, opens)
    /\ \/ /\ DomText[m] = "markup" /\ mk.text # PlainText
          /\ DomKind[m] = "cdata" \/ (own /\ IsElement(m) /\ ~opens(m))
       \/ IsElement(m) /\ DomAttrs[m] # <<>> /\ mk.attr # <<>>

\* Read as XML, the text of a document with one root is its tree again, if
\* and only if no value printed as it is (an attribute's, a section's, an
\* element's own) holds markup: a text node's may. What hangs under an element
\* whose first child is no element, or after a text, is not printed.
PrintParsesBack ==
  \A d \in domLive, mk \in Markups :
    (DomKind[d] = "document" /\ Len(DomKids(d)) = 1) =>
      /\ ReadsAsTree(XmlPrintDomTree(d, mk), d, FirstIsElement, TRUE)
           <=> ~HasMarkup(d, mk, FirstIsElement, TRUE)
      /\ ReadsAsTree(XmlPrintDomTreeIdent(d, mk), d, Always, FALSE)
           <=> ~HasMarkup(d, mk, Always, FALSE)
      /\ LET r == dom[d].first
         IN  IsElement(dom[r].first) =>
               XmlDomTreetoString(r, mk) = XmlPrintDomTree(r, mk)
=============================================================================
