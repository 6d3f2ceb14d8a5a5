------------------------------ MODULE XmlParser ------------------------------
(***************************************************************************)
(* The parser of libcwmp/src/xmlet/parser.c. The text is read piece by     *)
(* piece, a piece being what the code recognises with one comparison: the  *)
(* start of a tag with its name, an attribute with its value, the end of a *)
(* tag, an end tag, a run of text, a section, a comment, ... Which pieces  *)
(* come is up to the sender, so each is chosen when the parser first looks *)
(* at it. White space, which every state skips or trims, is left out; the  *)
(* prefixes of names are in XmlNamespace.                                  *)
(***************************************************************************)
EXTENDS Naturals, Sequences, SequencesExt

CONSTANTS
  XmlNames,       \* element names a text may use
  XmlAttrNames,   \* attribute names
  MaxPieces       \* bound: pieces of one text, the end excluded

\* A name does not begin with a hyphen, so that this one can stand for none.
ASSUME XmlAssumption == "-" \notin XmlNames

VARIABLES
  seen,    \* the pieces chosen so far
  look,    \* TRUE: the last of them has been looked at and not consumed
  phase,   \* where XMLParserParseDocument is: the prolog, then the loop
  state,   \* xmlParser->state
  stack,   \* pCurElement and what it links to: open names, newest first
  cur,     \* currentNodePtr: an index into nodes, 0 the document
  nodes,   \* the tree, in creation order
  verdict  \* "none" while running, then how the call ends

xmlVars == <<seen, look, phase, state, stack, cur, nodes, verdict>>

\* The pieces. "cdata0" is a section whose text contains the digit 0.
Bare == {"gt", "empty", "text", "cdata", "cdata0", "comment", "pi", "decl",
         "doctype", "eof"}
Pieces ==
  [t : Bare, name : {"-"}] \cup [t : {"stag", "etag"}, name : XmlNames]
    \cup [t : {"attr"}, name : XmlAttrNames]

MiscPieces == {"comment", "pi"}
TextPieces == {"text", "gt", "empty", "attr"}

Phases == {"start", "misc", "misc2", "loop", "stag", "attr", "text"}

XmlTypeOK ==
  /\ seen \in Seq(Pieces)
  /\ look \in BOOLEAN
  /\ phase \in Phases
  /\ state \in {"E_ELEMENT", "E_ATTRIBUTE", "E_CONTENT"}
  /\ stack \in Seq(XmlNames)
  /\ cur \in 0..Len(nodes)
  /\ \A i \in DOMAIN nodes :
       nodes[i] \in [kind : {"element", "text", "cdata"}, name : XmlNames \cup {"-"},
                     parent : 0..(i-1), attrs : SUBSET XmlAttrNames,
                     at : DOMAIN seen]
  /\ verdict \in {"none", "ok", "error", "crash"}

\* ParserInit: the parser is zeroed, so its state is E_ELEMENT; the current
\* node is the new document.
XmlInit ==
  /\ seen = <<>> /\ look = FALSE
  /\ phase = "start" /\ state = "E_ELEMENT"
  /\ stack = <<>> /\ cur = 0 /\ nodes = <<>>
  /\ verdict = "none"

----------------------------------------------------------------------------
Piece == IF look THEN Last(seen).t ELSE "none"
PieceName == Last(seen).name

Consume == look' = FALSE
Keep == look' = look
Running == verdict = "none"

Stop(v) ==
  /\ verdict' = v
  /\ UNCHANGED <<seen, look, phase, state, stack, cur, nodes>>

\* The parser looks at a piece of the text it has not looked at.
LookAhead ==
  /\ Running /\ ~look
  /\ \E p \in Pieces :
       /\ Len(seen) >= MaxPieces => p.t = "eof"
       /\ seen' = Append(seen, p)
  /\ look' = TRUE
  /\ UNCHANGED <<phase, state, stack, cur, nodes, verdict>>

\* XmlNodeAppendChild to the current node; a document takes elements only.
AppendToCurrent(kind, name) ==
  nodes' = Append(nodes, [kind |-> kind, name |-> name, parent |-> cur,
                          attrs |-> {}, at |-> Len(seen)])

----------------------------------------------------------------------------
(* XMLParserSkipProlog: an XML declaration at the very start, then         *)
(* comments and instructions, one document type, and again the former.     *)
XMLParserSkipProlog ==
  /\ Running /\ look /\ phase \in {"start", "misc", "misc2"}
  /\ CASE Piece = "decl" /\ phase = "start" ->
            Consume /\ phase' = "misc" /\ UNCHANGED verdict
       [] Piece = "decl" /\ phase # "start" ->
            verdict' = "error" /\ UNCHANGED <<look, phase>>
       [] Piece \in MiscPieces ->
            /\ Consume /\ UNCHANGED verdict
            /\ phase' = IF phase = "start" THEN "misc" ELSE phase
       [] Piece = "doctype" /\ phase # "misc2" ->
            Consume /\ phase' = "misc2" /\ UNCHANGED verdict
       [] OTHER -> Keep /\ phase' = "loop" /\ UNCHANGED verdict
  /\ UNCHANGED <<seen, state, stack, cur, nodes>>

\* XMLParserGetNextNode at the end of the text, and what the loop does
\* then: done if no element is open.
EndOfText ==
  /\ Running /\ phase = "loop" /\ Piece = "eof"
  /\ Stop(IF stack = <<>> THEN "ok" ELSE "error")

\* XMLParserSkipMisc in front of every token: comments and instructions,
\* also inside a tag. A declaration is an error.
XMLParserSkipMisc ==
  /\ Running /\ Piece \in MiscPieces
  /\ phase \in {"stag", "attr"} \/ (phase = "loop" /\ state # "E_CONTENT")
  /\ Consume
  /\ UNCHANGED <<seen, phase, state, stack, cur, nodes, verdict>>

\* ParserProcessContent: sections and text become nodes, comments and
\* instructions are skipped, a tag is left to the next call.
ParserProcessContent ==
  /\ Running /\ look /\ phase = "loop" /\ state = "E_CONTENT" /\ Piece # "eof"
  /\ CASE Piece \in MiscPieces ->
            Consume /\ UNCHANGED <<phase, state, nodes, verdict>>
       [] Piece = "cdata" ->
            IF cur = 0 THEN verdict' = "error" /\ UNCHANGED <<look, phase, state, nodes>>
            ELSE /\ Consume /\ AppendToCurrent("cdata", "-")
                 /\ UNCHANGED <<phase, state, verdict>>
       [] Piece \in {"cdata0", "decl"} ->
            verdict' = "error" /\ UNCHANGED <<look, phase, state, nodes>>
       [] Piece \in TextPieces ->
            IF cur = 0 THEN verdict' = "error" /\ UNCHANGED <<look, phase, state, nodes>>
            ELSE /\ Consume /\ AppendToCurrent("text", "-") /\ phase' = "text"
                 /\ UNCHANGED <<state, verdict>>
       [] Piece \in {"stag", "etag", "doctype"} ->
            /\ Keep /\ state' = "E_ELEMENT"
            /\ UNCHANGED <<phase, nodes, verdict>>
  /\ UNCHANGED <<seen, stack, cur>>

\* The text node goes on until the next '<' or the end.
TextRun ==
  /\ Running /\ look /\ phase = "text"
  /\ IF Piece \in TextPieces THEN Consume /\ UNCHANGED phase
     ELSE Keep /\ phase' = "loop"
  /\ UNCHANGED <<seen, state, stack, cur, nodes, verdict>>

----------------------------------------------------------------------------
(* Tags: the states E_ELEMENT and E_ATTRIBUTE.                             *)

InTag == Running /\ look /\ phase = "loop" /\ state # "E_CONTENT"

\* The elements that are open, the newest first.
Parser_pushElement(name) == stack' = <<name>> \o stack
ParserPopped == stack' = Tail(stack)

\* With none of them open an element stands at the top level again.
isTopLevelElement == stack = <<>> /\ \E i \in DOMAIN nodes : nodes[i].kind = "element"
isDuplicateAttribute(name) == name \in nodes[cur].attrs

\* ParserProcessElementName: one element may stand at the top level. The
\* new element goes under the current node and becomes it; its name is
\* pushed.
ParserProcessElementName ==
  IF isTopLevelElement
  THEN verdict' = "error" /\ UNCHANGED <<look, phase, state, stack, cur, nodes>>
  ELSE /\ Consume /\ phase' = "stag"
       /\ AppendToCurrent("element", PieceName)
       /\ cur' = Len(nodes) + 1
       /\ Parser_pushElement(PieceName)
       /\ UNCHANGED <<state, verdict>>

\* '<' also starts an element in the middle of an unfinished tag.
StartTag ==
  /\ InTag /\ Piece = "stag"
  /\ ParserProcessElementName
  /\ UNCHANGED seen

\* ParserProcessSTag, its second token: what follows the name decides the
\* state; it is consumed only if it is '>'.
ParserProcessSTag ==
  /\ Running /\ look /\ phase = "stag" /\ Piece \notin MiscPieces
  /\ CASE Piece = "empty" -> Keep /\ state' = "E_ELEMENT" /\ phase' = "loop" /\ UNCHANGED verdict
       [] Piece = "gt" -> Consume /\ state' = "E_CONTENT" /\ phase' = "loop" /\ UNCHANGED verdict
       [] Piece \in {"stag", "etag", "attr", "text"} ->
            Keep /\ state' = "E_ATTRIBUTE" /\ phase' = "loop" /\ UNCHANGED verdict
       [] OTHER -> verdict' = "error" /\ UNCHANGED <<look, phase, state>>
  /\ UNCHANGED <<seen, stack, cur, nodes>>

\* XMLParserProcessAttribute up to the value, and
\* XMLParserProcessAttributeName with isDuplicateAttribute.
XMLParserProcessAttributeName ==
  /\ InTag /\ Piece = "attr"
  /\ IF state # "E_ATTRIBUTE" \/ isDuplicateAttribute(PieceName)
     THEN Stop("error")
     ELSE /\ Consume /\ phase' = "attr"
          /\ nodes' = [nodes EXCEPT ![cur].attrs = @ \cup {PieceName}]
          /\ UNCHANGED <<seen, state, stack, cur, verdict>>

\* The end of XMLParserProcessAttribute, which reads one token ahead.
XMLParserProcessAttribute ==
  /\ Running /\ look /\ phase = "attr" /\ Piece \notin MiscPieces
  /\ CASE Piece = "gt" -> Consume /\ state' = "E_CONTENT" /\ phase' = "loop" /\ UNCHANGED verdict
       [] Piece \in {"empty", "etag", "attr", "text"} ->
            Keep /\ phase' = "loop" /\ UNCHANGED <<state, verdict>>
       [] OTHER -> verdict' = "error" /\ UNCHANGED <<look, phase, state>>
  /\ UNCHANGED <<seen, stack, cur, nodes>>

\* lastElem: the name of the last start tag.
LastElem ==
  LET tags == {i \in DOMAIN seen : seen[i].t = "stag"}
  IN  IF tags = {} THEN "-" ELSE seen[Max(tags)].name

\* A slip the properties notice: any name ends the innermost element.
ParserETagVerificationAnyName(name) ==
  IF stack = <<>> THEN Stop("crash")
  ELSE /\ Consume /\ state' = "E_CONTENT"
       /\ ParserPopped /\ cur' = nodes[cur].parent
       /\ UNCHANGED <<seen, phase, nodes, verdict>>

\* ParserETagVerification with ParserPopElement: the name must be the one
\* on top of the stack, which is read without asking whether there is one.
ParserETagVerification(name) ==
  IF stack = <<>> THEN Stop("crash")
  ELSE IF Head(stack) # name THEN Stop("error")
  ELSE /\ Consume /\ state' = "E_CONTENT"
       /\ ParserPopped /\ cur' = nodes[cur].parent
       /\ UNCHANGED <<seen, phase, nodes, verdict>>

\* ParserProcessETag.
EndTag == InTag /\ Piece = "etag" /\ ParserETagVerification(PieceName)

EmptyTag ==
  /\ InTag /\ Piece = "empty"
  /\ IF LastElem = "-" THEN Stop("error") ELSE ParserETagVerification(LastElem)

\* A '>' on its own is taken for the end of a tag and skipped.
StrayGreater ==
  /\ InTag /\ Piece = "gt"
  /\ Consume /\ UNCHANGED <<seen, phase, state, stack, cur, nodes, verdict>>

NotInTag ==
  /\ InTag /\ Piece \in {"text", "cdata", "cdata0", "decl", "doctype"}
  /\ Stop("error")

XmlNext ==
  \/ LookAhead \/ XMLParserSkipProlog \/ XMLParserSkipMisc \/ EndOfText
  \/ ParserProcessContent \/ TextRun
  \/ StartTag \/ ParserProcessSTag \/ EndTag \/ EmptyTag \/ StrayGreater
  \/ XMLParserProcessAttributeName \/ XMLParserProcessAttribute \/ NotInTag

XmlSpec == XmlInit /\ [][XmlNext]_xmlVars

----------------------------------------------------------------------------
(* The text by itself: what is inside a tag, how deep a piece lies, which  *)
(* texts are documents. None of this looks at the parser's variables.      *)

\* Piece i follows a tag that is still open for attributes; it is the first
\* one behind the name.
Inside(s, i) ==
  \E k \in 1..(i-1) : s[k].t = "stag" /\ \A m \in (k+1)..(i-1) : s[m].t \in MiscPieces \cup {"attr"}
BehindName(s, i) ==
  \E k \in 1..(i-1) : s[k].t = "stag" /\ \A m \in (k+1)..(i-1) : s[m].t \in MiscPieces

Opens(s, i) == s[i].t = "stag"
Closes(s, i) == s[i].t = "etag" \/ (s[i].t = "empty" /\ Inside(s, i))

\* Elements open in front of piece i.
Depth(s, i) ==
  LET open[k \in 0..Len(s)] ==
        IF k = 0 THEN 0
        ELSE IF Opens(s, k) THEN open[k-1] + 1
        ELSE IF Closes(s, k) THEN open[k-1] - 1 ELSE open[k-1]
  IN  open[i-1]

\* The innermost element open in front of piece i, by its start tag.
Enclosing(s, i) ==
  LET d == Depth(s, i)
      opens == {k \in 1..(i-1) : Opens(s, k) /\ Depth(s, k) = d - 1
                                   /\ \A m \in (k+1)..i : Depth(s, m) >= d}
  IN  IF d = 0 THEN 0 ELSE CHOOSE k \in opens : TRUE

Rooted(s, i) == \E k \in 1..(i-1) : Opens(s, k)
GreaterBefore(s, i) == \E k \in 1..(i-1) : s[k].t = "gt"

\* Does XML let piece i stand there, if it lets the ones before it? A tag,
\* an instruction or a comment comes when the tag before has ended, text and
\* sections lie in an element, there is one root, attributes of one tag
\* differ. A '>', a "/>" or what looks like an attribute is text where no
\* tag is open.
XmlAllows(s, i) ==
  LET t == s[i].t
      deep == Depth(s, i) > 0
  IN  /\ t = "decl" => i = 1
      /\ t = "doctype" => /\ ~Rooted(s, i) /\ ~GreaterBefore(s, i)
                         /\ \A k \in 1..(i-1) : s[k].t # "doctype"
      /\ t \in MiscPieces => ~Inside(s, i)
      /\ t = "stag" => ~Inside(s, i) /\ (deep \/ ~Rooted(s, i))
      /\ t = "etag" => /\ ~Inside(s, i) /\ deep
                      /\ s[Enclosing(s, i)].name = s[i].name
      /\ t \in {"empty", "gt"} => Inside(s, i) \/ deep
      /\ t = "attr" => IF Inside(s, i)
                      THEN \A k \in 1..(i-1) :
                             k > Enclosing(s, i) /\ s[k].t = "attr" => s[k].name # s[i].name
                      ELSE deep
      /\ t \in {"text", "cdata", "cdata0"} => deep /\ ~Inside(s, i)
      /\ t = "eof" => ~deep /\ Rooted(s, i)

\* Where the parser is laxer than XML: a comment or an instruction inside a
\* tag; a tag right behind a name, or an end tag, where '>' is missing; a '>'
\* in front of the root; a text without a root.
Lax(s, i) ==
  \/ s[i].t \in MiscPieces /\ Inside(s, i)
  \/ s[i].t = "stag" /\ BehindName(s, i)
  \/ s[i].t = "etag" /\ Inside(s, i) /\ s[Enclosing(s, i)].name = s[i].name
  \/ s[i].t \in {"gt", "eof"} /\ ~Rooted(s, i)

\* A text is accepted only if every piece of it stands where XML lets it, or
\* is one of those the parser is lax about; it is refused only if some piece
\* stands where XML does not let it, or if it has a section with the digit 0.
\* The parser dies, following pCurElement, exactly on an end tag with no
\* element open.
AcceptsExactly ==
  /\ verdict = "ok" => /\ Last(seen).t = "eof"
                       /\ \A i \in DOMAIN seen : XmlAllows(seen, i) \/ Lax(seen, i)
  /\ verdict = "error" => \E i \in DOMAIN seen : ~XmlAllows(seen, i) \/ seen[i].t = "cdata0"
  /\ verdict = "crash" => Last(seen).t = "etag" /\ Depth(seen, Len(seen)) = 0

\* What the comment over ParserProcessCDSect says (parser.c:2520, sections are
\* processed as the XML specification defines them): no text is refused that
\* is XML. A section with the digit 0 is, as the code compares with '0' where
\* it means the end of the string.
SectionsAsInXml ==
  verdict = "error" => \E i \in DOMAIN seen : ~XmlAllows(seen, i)

\* The tree is the one the text describes: there is a node for every start
\* tag and section, each under the element that encloses it in the text, no
\* attribute is on another element than the one it was written in.
TreeAsWritten ==
  /\ \A i \in DOMAIN nodes :
       LET e == Enclosing(seen, nodes[i].at)
       IN  IF nodes[i].parent = 0 THEN e = 0 ELSE nodes[nodes[i].parent].at = e
  /\ verdict = "ok" =>
       /\ {nodes[i].at : i \in {k \in DOMAIN nodes : nodes[k].kind # "text"}}
            = {k \in DOMAIN seen : seen[k].t \in {"stag", "cdata"}}
       /\ \A i \in DOMAIN nodes : nodes[i].kind = "element" =>
            nodes[i].attrs = {seen[k].name : k \in {m \in DOMAIN seen :
                /\ seen[m].t = "attr" /\ Inside(seen, m)
                /\ Enclosing(seen, m) = nodes[i].at}}

\* The stack of names mirrors the path from the document to the current
\* node, which is what makes one comparison enough for an end tag.
StackIsPath ==
  LET Path[i \in 0..Len(nodes)] ==
        IF i = 0 THEN <<>> ELSE <<nodes[i].name>> \o Path[nodes[i].parent]
  IN  stack = Path[cur]
=============================================================================
