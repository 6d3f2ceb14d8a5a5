------------------------------ MODULE MCServices ------------------------------
(***************************************************************************)
(* One instance of every module under the agent: XML, memory, containers,  *)
(* transfers, the text of HTTP and the RPC methods. They share no state,   *)
(* so a behaviour chooses its part at the start and takes the steps of     *)
(* that one alone: the states of the parts add up instead of multiplying.  *)
(***************************************************************************)
EXTENDS XmlPrint, XmlAttributes, XmlNamespace, MemPool, ChunkBuffer, XmlBuffer,
        RingBuffer, HashTable, LinkedList, IniFile, HttpTransfer, HttpAuth,
        RpcMethods

\* A document, three elements, a text and a CDATA section.
MCDomKind == <<"document", "element", "element", "element", "text", "cdata">>
MCDomTag == <<"d", "a", "b", "a", "-", "-">>
MCDomText == <<"none", "none", "plain", "markup", "markup", "plain">>
MCDomAttrs == <<<<>>, <<"x">>, <<>>, <<"x">>, <<>>, <<>>>>

\* Values with markup: a tag left open, an end tag, an element, a comment, the
\* end of an element and the start of its like; in attributes, another
\* attribute, '<', and an end of the tag with text or with an element after it.
MCMarkups ==
  [text : {PlainText \o <<Written("stag", "a")>>, <<Written("etag", "a")>>,
           <<Written("stag", "b"), Written("gt", "-"), Written("etag", "b")>>,
           <<Written("comment", "-")>>,
           <<Written("etag", "a"), Written("stag", "a"), Written("gt", "-")>>},
   attr : {<<>>}]
  \cup [text : {PlainText},
        attr : {<<>>, <<Written("attr", "y")>>, <<Written("stag", "b")>>,
                <<Written("gt", "-"), Written("text", "-")>>,
                <<Written("gt", "-"), Written("stag", "b"), Written("attr", "x")>>}]

\* Two attributes of one name, one with a namespace and one that only looks so,
\* and two of one prefix.
MCAttrName == <<"a", "a", "b", "p:c", "p:c", "p:d">>
MCAttrLocal == <<"none", "none", "none", "none", "c", "d">>

MCHash == [k \in HashKeys |-> k % 2]

\* Headers with values that fit, that are cut, and that hold the name of a
\* field; urls with and without each of their parts, fitting and cut, and with
\* a document that fits only before its spaces are written out.
MCValues == {<<"x">>, <<"y", "x">>, <<"x", "nonce=", "y", "z">>, <<"x", "y", "z", "uri=", "x">>}
MCOpaques == {<<"o">>, <<"nonce=", "o">>}
MCCpeUser == <<"y", "x">>
MCAcsUser == <<"u", "v", "w", "x", "y">>
MCCpePwd == <<"pwd">>
MCUrlParts ==
  [scheme : {<<>>, <<"http">>, <<"https">>, <<"ftp">>},
   user : {<<>>, <<"u">>, <<"u", "v", "w", "x", "y">>}, password : {<<"p">>, <<"p", "q">>},
   host : {<<"h">>, <<"h", "o", "s", "t">>},
   port : {<<>>, <<"8", "0", "8">>, <<"8", "x">>},
   path : {<<>>, <<"/", "d", "space", "e">>, <<"/", "space", "space", "e">>}]
  \cup [scheme : {<<"http">>}, user : {<<>>}, password : {<<>>}, host : {<<>>},
        port : {<<>>}, path : {<<>>, <<"/", "d">>}]
MCSentUrls == {[scheme |-> <<"http">>, user |-> <<>>, password |-> <<"p">>,
                host |-> <<"h">>, port |-> <<>>, path |-> <<>>]}

\* Three documents of parameters: one nested as model.c expects, one flat as
\* the data.xml shipped with the daemon, one with an element without a name.
Element(n, u, w) == [name |-> n, up |-> u, rw |-> w, obj |-> FALSE]
Obj(e) == [e EXCEPT !.obj = TRUE]
NestedDoc == <<Element(<<>>, 0, 0), Obj(Element(<<"A">>, 1, 0)), Element(<<"B">>, 2, 0),
               Obj(Element(<<"W">>, 2, 1)), Obj(Element(<<"{i}">>, 4, 0)),
               Element(<<"c">>, 5, 0), Element(<<"9">>, 4, 0)>>
FlatDoc == <<Element(<<>>, 0, 0), Element(<<"A", "">>, 1, 0), Element(<<"A", "B">>, 1, 1),
             Element(<<"A", "W", "">>, 1, 1)>>
WrappedDoc == <<Element(<<>>, 0, 0), Element(<<>>, 1, 0), Element(<<"A">>, 2, 0),
                Element(<<"W">>, 3, 1), Element(<<"{i}">>, 4, 0)>>
MCParamDocs == {NestedDoc, FlatDoc, WrappedDoc}
MCSearchPaths == {<<"A", "">>, <<"A", "B">>, <<"A", "W", "">>, <<"A", "W", "1">>,
                  <<"A", "W", "9", "">>, <<"A", "x">>}
\* Lists of names that are there, that are not, and that come twice, up to one
\* that outgrows its array.
AB == <<"A", "B">>
AW == <<"A", "W">>
AX == <<"A", "x">>
MCAskedLists == {<<>>, <<AB, AX>>, <<AW, AB, AB>>}
MCSetLists == {<<<<AB, "v">>, <<AW, "w">>>>, <<<<AX, "v">>>>, <<<<AB, "v">>, <<AB, "w">>>>}
MCInformNames == <<"a", "b", "c">>
MCEventLists == {<<<<"1 BOOT", "k">>, <<"M Reboot", "k">>>>, <<>>}

\* Files without a setting, with a comment and a quoted value, with a key out
\* of a writer's reach, and with two sections.
Entry(k, v, q, p) == [kind |-> "entry", name |-> k, text |-> v, quoted |-> q, padded |-> p]
Note == [SectionLine("k") EXCEPT !.kind = "comment"]
MCIniStarts ==
  {NoIniFile,
   <<Note, SectionLine("S"), Note, Entry("k", "v", TRUE, FALSE), Entry("l", "w", FALSE, FALSE),
     SectionLine("T"), Entry("k", "w", FALSE, TRUE)>>,
   <<SectionLine("T"), Entry("l", "v", FALSE, FALSE), Entry("k", "v", FALSE, FALSE),
     SectionLine("S"), Entry("l", "v", FALSE, FALSE)>>}
MCIniNames == {<<"S", "k">>, <<"S", "l">>, <<"T", "k">>}

VARIABLE part  \* the part whose steps are taken

PartNames == {"dom", "parser", "attr", "ns", "pool", "chunk", "xbuf", "ring", "hash", "list", "ini", "transfer", "auth", "tree", "rpc"}

ServicesInit ==
  /\ part \in PartNames
  /\ DomInit
  /\ XmlInit
  /\ AttrInit
  /\ NsInit
  /\ PoolInit
  /\ ChunkInit
  /\ XmlBufferInit
  /\ RingInit
  /\ HashInit
  /\ ListInit
  /\ IniInit
  /\ TransferInit
  /\ AuthInit
  /\ RpcInit
  /\ part # "attr" => elemOwned
  /\ part # "ini" => iniFile = NoIniFile
  /\ part \notin {"tree", "rpc"} => paramDoc = FlatDoc
  /\ part = "rpc" => paramDoc # WrappedDoc  \* searched in "tree"; the methods see two

\* All the other parts stay as they are.
OthersKept(p) ==
  /\ IF p = "dom" THEN TRUE ELSE UNCHANGED domVars
  /\ IF p = "parser" THEN TRUE ELSE UNCHANGED xmlVars
  /\ IF p = "attr" THEN TRUE ELSE UNCHANGED attrVars
  /\ IF p = "ns" THEN TRUE ELSE UNCHANGED nsVars
  /\ IF p = "pool" THEN TRUE ELSE UNCHANGED poolVars
  /\ IF p = "chunk" THEN TRUE ELSE UNCHANGED chunkVars
  /\ IF p = "xbuf" THEN TRUE ELSE UNCHANGED xbufVars
  /\ IF p = "ring" THEN TRUE ELSE UNCHANGED ringVars
  /\ IF p = "hash" THEN TRUE ELSE UNCHANGED hashVars
  /\ IF p = "list" THEN TRUE ELSE UNCHANGED listVars
  /\ IF p = "ini" THEN TRUE ELSE UNCHANGED iniVars
  /\ IF p = "transfer" THEN TRUE ELSE UNCHANGED transferVars
  /\ IF p = "auth" THEN TRUE ELSE UNCHANGED authVars
  /\ IF p \in {"tree", "rpc"} THEN TRUE ELSE UNCHANGED treeVars
  /\ IF p = "rpc" THEN TRUE ELSE UNCHANGED rpcVars

ServicesNext ==
  /\ part' = part
  /\ \/ part = "dom" /\ DomNext /\ OthersKept("dom")
     \/ part = "parser" /\ XmlNext /\ OthersKept("parser")
     \/ part = "attr" /\ AttrNext /\ OthersKept("attr")
     \/ part = "ns" /\ NsNext /\ OthersKept("ns")
     \/ part = "pool" /\ PoolNext /\ OthersKept("pool")
     \/ part = "chunk" /\ ChunkNext /\ OthersKept("chunk")
     \/ part = "xbuf" /\ XmlBufferNext /\ OthersKept("xbuf")
     \/ part = "ring" /\ RingNext /\ OthersKept("ring")
     \/ part = "hash" /\ HashNext /\ OthersKept("hash")
     \/ part = "list" /\ ListNext /\ OthersKept("list")
     \/ part = "ini" /\ IniNext /\ OthersKept("ini")
     \/ part = "transfer" /\ TransferNext /\ OthersKept("transfer")
     \/ part = "auth" /\ AuthNext /\ OthersKept("auth")
     \/ part = "tree" /\ TreeNext /\ OthersKept("tree")
     \/ part = "rpc" /\ RpcNext /\ OthersKept("rpc")

servicesVars ==
  <<part, domVars, xmlVars, attrVars, nsVars, poolVars, chunkVars, xbufVars, ringVars,
    hashVars, listVars, iniVars, transferVars, authVars, treeVars, rpcVars>>

ServicesSpec == ServicesInit /\ [][ServicesNext]_servicesVars

----------------------------------------------------------------------------
(* What the parts promise, put together by the question they answer.       *)

\* Types of the variables of every part.
ServicesTypeOK ==
  /\ DomTypeOK /\ XmlTypeOK /\ AttrTypeOK /\ NsTypeOK
  /\ PoolTypeOK /\ ChunkTypeOK /\ XmlBufferTypeOK
  /\ RingTypeOK /\ HashTypeOK /\ ListTypeOK /\ IniTypeOK
  /\ TransferTypeOK /\ TreeTypeOK /\ RpcTypeOK

\* The functions that only read the tree say what it is: the walks meet the
\* nodes below in document order, no call is refused or let through wrongly,
\* no pointer leads to a freed node, and the printed text, read back by the
\* parser's rules, is the tree again (node.c, xmlet.c).
DomFaithful ==
  part = "dom" => TraversalsFaithful /\ RefusalsExact /\ DomNoDangling /\ PrintParsesBack

\* The parser accepts exactly the well formed texts, builds the tree the text
\* describes, keeps on its stack the path to where it is, and gives every name
\* the namespace that is in scope where the name stands (parser.c).
ParserFaithful ==
  /\ part = "parser" => AcceptsExactly /\ TreeAsWritten /\ StackIsPath
  /\ part = "ns" => NamespaceAsMeant /\ WaitingIsUndeclared

\* What is asked of the allocators is there: pieces of a pool lie apart and
\* inside their blocks, a chunk holds what was written to it and a copy brings
\* as much as was asked for, a text fits the buffer it is in (pool.c, buffer.c).
MemoryKept == 
  /\ part = "pool" => MemoryApart
  /\ part = "chunk" => ChunkHolds
  /\ part = "xbuf" => TextFits

\* What is put into a container comes out again: the ring buffer in order and
\* within what it can hold, the table under its key, the lists as closed rings
\* in both directions, a map as its element's attributes, and the settings of
\* a file that is rewritten, wherever the writing stops (ring_buffer.c,
\* hashtab.c, list.c, namemap.c, ini.c).
ContainersKeep ==
  /\ part = "ring" => RingKeepsBytes
  /\ part = "hash" => FindsWhatWasPut
  /\ part = "list" => ListsAreRings
  /\ part = "attr" => MapShowsList /\ AttrCrashCause
  /\ part = "ini" => IniKept
=============================================================================
