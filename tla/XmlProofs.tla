----------------------------- MODULE XmlProofs ------------------------------
(***************************************************************************)
(* The XML library. First its parser, for any names and texts of any       *)
(* length: what it has in hand is compared with the part of the text that  *)
(* it has consumed, that is which elements are open, where their nodes     *)
(* were written, and which namespace a prefix stands for there. Then the   *)
(* nodes of the DOM. As long as no caller inserts a node that has another  *)
(* parent (~DomMoves; else it is false, and TLC shows how) their pointers  *)
(* draw a tree, and every call does to the tree what its name says.        *)
(***************************************************************************)
EXTENDS XmlPrint, XmlNamespace, ContainerProofs

----------------------------------------------------------------------------
(* The parser. What it keeps is compared with the part of the text that it *)
(* has consumed: the open elements lie in the text one inside the other,   *)
(* the nodes stand where they were written, and the state it is in says    *)
(* how the text stands.                                                    *)

\* Does the parser let piece i stand there, if it let the ones before it?
MayStand(s, i) ==
  LET t == s[i].t
      deep == Depth(s, i) > 0
  IN  /\ t = "decl" => i = 1
      /\ t = "doctype" => /\ ~Rooted(s, i) /\ ~GreaterBefore(s, i)
                         /\ \A k \in 1..(i-1) : s[k].t # "doctype"
      /\ t = "stag" => IF Inside(s, i) THEN BehindName(s, i) ELSE deep \/ ~Rooted(s, i)
      /\ t = "etag" => deep /\ s[Enclosing(s, i)].name = s[i].name
      /\ t = "empty" => Inside(s, i) \/ deep
      /\ t = "gt" => Inside(s, i) \/ deep \/ ~Rooted(s, i)
      /\ t = "attr" => IF Inside(s, i)
                      THEN \A k \in 1..(i-1) :
                             k > Enclosing(s, i) /\ s[k].t = "attr" => s[k].name # s[i].name
                      ELSE deep
      /\ t \in {"text", "cdata"} => deep /\ ~Inside(s, i)
      /\ t # "cdata0"
      /\ t = "eof" => ~deep

\* As the pieces are looked at one by one, only the last can be at fault.
Acceptable == \A i \in DOMAIN seen : MayStand(seen, i)

\* What it takes is XML but for what it is lax about, and it refuses nothing
\* that is XML but a section with the digit 0.
LEMMA TakenOrXml ==
  ASSUME NEW s, NEW i
  PROVE  /\ MayStand(s, i) => XmlAllows(s, i) \/ Lax(s, i)
         /\ ~MayStand(s, i) => ~XmlAllows(s, i) \/ s[i].t = "cdata0"
<1>1. ASSUME MayStand(s, i), ~Lax(s, i) PROVE XmlAllows(s, i)
  BY <1>1 DEF MayStand, XmlAllows, Lax, MiscPieces
<1>2. ASSUME XmlAllows(s, i), s[i].t # "cdata0" PROVE MayStand(s, i)
  BY <1>2 DEF MayStand, XmlAllows, MiscPieces
<1> QED BY <1>1, <1>2

NodeRec == [kind : {"element", "text", "cdata"}, name : XmlNames \cup {"-"},
            parent : Nat, attrs : SUBSET XmlAttrNames, at : Nat]

\* Node path[k], open when n pieces are consumed: its start tag has the name
\* on the stack, and Len(path) - k others are open around it.
OpenNode(nd, path, st, s, n, k) ==
  LET x == nd[path[k]]
  IN  /\ x.kind = "element" /\ x.name = st[k]
      /\ x.at \in 1..n /\ s[x.at].t = "stag" /\ s[x.at].name = st[k]
      /\ x.parent = IF k = Len(path) THEN 0 ELSE path[k + 1]
      /\ Depth(s, x.at) = Len(path) - k
      /\ \A m \in (x.at + 1)..(n + 1) : Depth(s, m) >= Len(path) - k + 1

Branch(nd, path, c, st, s, n) ==
  /\ path \in Seq(1..Len(nd)) /\ Len(path) = Len(st)
  /\ Depth(s, n + 1) = Len(st)
  /\ c = IF Len(path) = 0 THEN 0 ELSE path[1]
  /\ \A k \in 1..Len(path) : OpenNode(nd, path, st, s, n, k)

KindOf(t) == IF t = "stag" THEN "element" ELSE IF t = "cdata" THEN "cdata" ELSE "text"

AttrsWritten(s, n, e) ==
  {s[k].name : k \in {m \in 1..n : s[m].t = "attr" /\ Inside(s, m) /\ Enclosing(s, m) = e}}

NodeOK(nd, i, s, n) ==
  /\ nd[i].parent \in 0..(i - 1) /\ nd[i].at \in 1..n
  /\ Enclosing(s, nd[i].at) = IF nd[i].parent = 0 THEN 0 ELSE nd[nd[i].parent].at
  /\ nd[i].kind = KindOf(s[nd[i].at].t)
  /\ nd[i].kind = "element" => nd[i].attrs = AttrsWritten(s, n, nd[i].at)

TreeOK(nd, s, n) ==
  /\ nd \in Seq(NodeRec)
  /\ \A i \in 1..Len(nd) : NodeOK(nd, i, s, n)
  /\ \A i, j \in 1..Len(nd) : nd[i].at = nd[j].at => i = j
  /\ \A k \in 1..n : s[k].t \in {"stag", "cdata"} => \E i \in 1..Len(nd) : nd[i].at = k

\* How the text stands, by where the parser is; t is the piece looked at.
InProlog(ph, sta, st, nd, s, n) ==
  /\ ph \in {"start", "misc", "misc2"} /\ sta = "E_ELEMENT" /\ st = <<>> /\ nd = <<>>
  /\ \A k \in 1..n : s[k].t \in MiscPieces \cup {"decl", "doctype"}
  /\ ph = "start" <=> n = 0
  /\ ph = "misc2" <=> \E k \in 1..n : s[k].t = "doctype"

BeforeRoot(ph, sta, st, nd, s, n, t) ==
  /\ ph = "loop" /\ sta = "E_ELEMENT" /\ st = <<>> /\ nd = <<>>
  /\ \/ GreaterBefore(s, n + 1)
     \/ /\ t \notin MiscPieces \cup {"decl", "none"}
        /\ t = "doctype" => \E k \in 1..n : s[k].t = "doctype"

InStartTag(ph, sta, st, s, n) ==
  /\ ph \in {"stag", "attr"} /\ st # <<>> /\ Inside(s, n + 1)
  /\ ph = "attr" => sta = "E_ATTRIBUTE"
  /\ ph = "stag" <=> BehindName(s, n + 1)

AtTagPiece(ph, sta, st, s, n, t) ==
  /\ ph = "loop" /\ st # <<>> /\ Inside(s, n + 1)
  /\ \/ sta = "E_ATTRIBUTE" /\ t \in {"stag", "etag", "attr", "text", "empty"}
     \/ sta = "E_ELEMENT" /\ t = "empty"
  /\ t = "stag" => BehindName(s, n + 1)

InContent(ph, sta, st, s, n) ==
  /\ ph \in {"loop", "text"} /\ sta = "E_CONTENT"
  /\ ~Inside(s, n + 1) /\ Rooted(s, n + 1)
  /\ ph = "text" => st # <<>>

AtMarkup(ph, sta, s, n, t) ==
  /\ ph = "loop" /\ sta = "E_ELEMENT" /\ t \in {"stag", "etag", "doctype"}
  /\ ~Inside(s, n + 1) /\ Rooted(s, n + 1)

Stands(ph, sta, st, nd, s, n, t) ==
  \/ InProlog(ph, sta, st, nd, s, n)
  \/ BeforeRoot(ph, sta, st, nd, s, n, t)
  \/ InStartTag(ph, sta, st, s, n)
  \/ AtTagPiece(ph, sta, st, s, n, t)
  \/ InContent(ph, sta, st, s, n)
  \/ AtMarkup(ph, sta, s, n, t)

\* What is said of the last piece when the parse is over.
Judged(v, s, st) ==
  /\ v = "ok" => s[Len(s)].t = "eof" /\ st = <<>> /\ MayStand(s, Len(s))
  /\ v = "error" => ~MayStand(s, Len(s))
  /\ v = "crash" => s[Len(s)].t = "etag" /\ Depth(s, Len(s)) = 0

\* n pieces of the text are consumed.
Kept(s, n, nd, c, st) ==
  /\ \A i \in 1..n : MayStand(s, i)
  /\ \E path : Branch(nd, path, c, st, s, n)
  /\ TreeOK(nd, s, n)

\* No piece is looked at, or the last one.
Waits(s, nd, c, st, ph, sta) ==
  Kept(s, Len(s), nd, c, st) /\ Stands(ph, sta, st, nd, s, Len(s), "none")
Looks(s, nd, c, st, ph, sta) ==
  /\ Len(s) > 0
  /\ Kept(s, Len(s) - 1, nd, c, st) /\ Stands(ph, sta, st, nd, s, Len(s) - 1, s[Len(s)].t)

ParserInv ==
  /\ seen \in Seq(Pieces) /\ stack \in Seq(XmlNames) /\ look \in BOOLEAN
  /\ look => Looks(seen, nodes, cur, stack, phase, state)
  /\ ~look => Waits(seen, nodes, cur, stack, phase, state) /\ verdict = "none"
  /\ Judged(verdict, seen, stack)
----------------------------------------------------------------------------
(* The text by itself. Depth is what its recursion says, and what is said  *)
(* of a piece depends on the pieces in front of it only.                   *)

Deeper(s, k, x) == IF Opens(s, k) THEN x + 1 ELSE IF Closes(s, k) THEN x - 1 ELSE x

\* Depth as a function of the number of pieces in front.
DepthGoes(s, f) ==
  f \in [0..Len(s) -> Int] /\ f[0] = 0 /\ \A k \in 1..Len(s) : f[k] = Deeper(s, k, f[k-1])

LEMMA DepthExists ==
  ASSUME NEW s \in Seq(Pieces)
  PROVE  \E f : DepthGoes(s, f) /\ \A i \in 1..(Len(s) + 1) : Depth(s, i) = f[i - 1]
<1> DEFINE g == [k \in 1..Len(s) |-> [x \in Int |-> Deeper(s, k, x)]]
           Body(f) == [k \in 0..Len(s) |->
                         IF k = 0 THEN 0
                         ELSE IF Opens(s, k) THEN f[k-1] + 1
                         ELSE IF Closes(s, k) THEN f[k-1] - 1 ELSE f[k-1]]
           F == CHOOSE f : f = Body(f)
<1>1. Len(s) \in Nat
  OBVIOUS
<1>2. g \in [1..Len(s) -> [Int -> Int]]
  BY DEF Deeper
<1>3. PICK f : Recursed(f, Len(s), Int, 0, g)
  <2>1. 0 \in Int
    OBVIOUS
  <2> HIDE DEF g
  <2> QED BY <1>1, <1>2, <2>1, Recursion, Zenon
<1>4. f \in [0..Len(s) -> Int] /\ f[0] = 0 /\ \A k \in 1..Len(s) : f[k] = g[k][f[k-1]]
  <2> HIDE DEF g
  <2> QED BY <1>3 DEF Recursed
<1>5. \A k \in 1..Len(s) : f[k] = Deeper(s, k, f[k-1])
  <2> TAKE k \in 1..Len(s)
  <2>1. k - 1 \in 0..Len(s)
    BY <1>1
  <2>2. f[k-1] \in Int
    BY <2>1, <1>4
  <2> QED BY <2>2, <1>4
<1>6. f = Body(f)
  <2>1. \A k \in 0..Len(s) : f[k] = Body(f)[k]
    <3> TAKE k \in 0..Len(s)
    <3>1. CASE k = 0
      BY <3>1, <1>4
    <3>2. CASE k # 0
      <4>1. k \in 1..Len(s)
        BY <3>2, <1>1
      <4> QED BY <4>1, <3>2, <1>5 DEF Deeper
    <3> QED BY <3>1, <3>2
  <2>2. f = [k \in 0..Len(s) |-> f[k]]
    BY <1>4
  <2>3. Body(f) = [k \in 0..Len(s) |-> Body(f)[k]]
    OBVIOUS
  <2> HIDE DEF Body
  <2> QED BY <2>1, <2>2, <2>3, Zenon
<1>7. F = Body(F)
  <2> HIDE DEF Body
  <2> QED BY <1>6, Zenon
<1>8. \A i \in 1..(Len(s) + 1) : Depth(s, i) = F[i - 1]
  BY DEF Depth
<1>9. \A k \in 0..Len(s) : F[k] = f[k]
  <2> DEFINE Good == {k \in 0..Len(s) : F[k] = f[k]}
  <2>1. \A k \in 0..Len(s) :
          F[k] = IF k = 0 THEN 0
                 ELSE IF Opens(s, k) THEN F[k-1] + 1
                 ELSE IF Closes(s, k) THEN F[k-1] - 1 ELSE F[k-1]
    <3> HIDE DEF F
    <3> QED BY <1>7
  <2> HIDE DEF F, Body
  <2>2. 0 \in Good
    BY <2>1, <1>4, <1>1
  <2>3. \A k \in 1..Len(s) : k - 1 \in Good => k \in Good
    <3> TAKE k \in 1..Len(s)
    <3>1. k \in 0..Len(s) /\ k # 0
      OBVIOUS
    <3>2. k - 1 \in Good => F[k-1] = f[k-1]
      OBVIOUS
    <3> QED BY <3>1, <3>2, <2>1, <1>5 DEF Deeper
  <2>4. \A k \in 0..Len(s) : k \in Good
    <3> HIDE DEF Good
    <3> QED BY <1>1, <2>2, <2>3, UpTo
  <2> QED BY <2>4
<1>10. DepthGoes(s, f)
  BY <1>4, <1>5 DEF DepthGoes
<1>11. \A i \in 1..(Len(s) + 1) : Depth(s, i) = f[i - 1]
  <2> TAKE i \in 1..(Len(s) + 1)
  <2>1. i - 1 \in 0..Len(s)
    BY <1>1
  <2> HIDE DEF F
  <2> QED BY <2>1, <1>8, <1>9
<1> QED BY <1>10, <1>11

LEMMA DepthIs ==
  ASSUME NEW s \in Seq(Pieces)
  PROVE  /\ Depth(s, 1) = 0
         /\ \A i \in 1..(Len(s) + 1) : Depth(s, i) \in Int
         /\ \A i \in 1..Len(s) : Depth(s, i + 1) = Deeper(s, i, Depth(s, i))
<1>1. PICK f : DepthGoes(s, f) /\ \A i \in 1..(Len(s) + 1) : Depth(s, i) = f[i - 1]
  BY DepthExists
<1>2. f \in [0..Len(s) -> Int] /\ f[0] = 0 /\ \A k \in 1..Len(s) : f[k] = Deeper(s, k, f[k-1])
  BY <1>1 DEF DepthGoes
<1>3. PICK l \in Nat : l = Len(s)
  OBVIOUS
<1>4. Depth(s, 1) = 0
  <2>1. 1 \in 1..(l + 1) /\ 1 - 1 = 0
    OBVIOUS
  <2> QED BY <2>1, <1>1, <1>2, <1>3
<1>5. ASSUME NEW i \in 1..(l + 1) PROVE Depth(s, i) \in Int
  <2>1. i - 1 \in 0..l
    OBVIOUS
  <2> QED BY <2>1, <1>1, <1>2, <1>3
<1>6. ASSUME NEW i \in 1..l PROVE Depth(s, i + 1) = Deeper(s, i, Depth(s, i))
  <2>1. i + 1 \in 1..(l + 1) /\ (i + 1) - 1 = i /\ i \in 1..(l + 1)
    OBVIOUS
  <2>2. Depth(s, i + 1) = f[i] /\ Depth(s, i) = f[i - 1]
    BY <2>1, <1>1, <1>3
  <2> QED BY <2>2, <1>2, <1>3
<1> QED BY <1>3, <1>4, <1>5, <1>6

\* Two texts with the same first n pieces.
Same(s, t, n) ==
  /\ s \in Seq(Pieces) /\ t \in Seq(Pieces) /\ n \in Nat /\ n <= Len(s) /\ n <= Len(t)
  /\ \A k \in 1..n : s[k] = t[k]

LEMMA SameTags ==
  ASSUME NEW s, NEW t, NEW n, Same(s, t, n)
  PROVE  /\ \A i \in 1..(n + 1) : /\ Inside(s, i) <=> Inside(t, i)
                                  /\ BehindName(s, i) <=> BehindName(t, i)
                                  /\ Rooted(s, i) <=> Rooted(t, i)
                                  /\ GreaterBefore(s, i) <=> GreaterBefore(t, i)
         /\ \A i \in 1..n : /\ Opens(s, i) <=> Opens(t, i)
                            /\ Closes(s, i) <=> Closes(t, i)
<1>1. n \in Nat /\ \A k \in 1..n : s[k] = t[k]
  BY DEF Same
<1>2. ASSUME NEW i \in 1..(n + 1)
      PROVE  /\ Inside(s, i) <=> Inside(t, i)
             /\ BehindName(s, i) <=> BehindName(t, i)
             /\ Rooted(s, i) <=> Rooted(t, i)
             /\ GreaterBefore(s, i) <=> GreaterBefore(t, i)
  <2>1. \A k \in 1..(i - 1) : s[k] = t[k]
    BY <1>1
  <2>2. \A k \in 1..(i - 1) : \A m \in (k + 1)..(i - 1) : s[m] = t[m]
    BY <1>1
  <2>3. Inside(s, i) <=> Inside(t, i)
    BY <2>1, <2>2 DEF Inside
  <2>4. BehindName(s, i) <=> BehindName(t, i)
    BY <2>1, <2>2 DEF BehindName
  <2>5. Rooted(s, i) <=> Rooted(t, i)
    BY <2>1 DEF Rooted, Opens
  <2>6. GreaterBefore(s, i) <=> GreaterBefore(t, i)
    BY <2>1 DEF GreaterBefore
  <2> QED BY <2>3, <2>4, <2>5, <2>6
<1>3. ASSUME NEW i \in 1..n
      PROVE  (Opens(s, i) <=> Opens(t, i)) /\ (Closes(s, i) <=> Closes(t, i))
  <2>1. i \in 1..(n + 1)
    BY <1>1
  <2> QED BY <2>1, <1>1, <1>2 DEF Opens, Closes
<1> QED BY <1>2, <1>3

LEMMA SameDepth ==
  ASSUME NEW s, NEW t, NEW n, Same(s, t, n)
  PROVE  \A i \in 1..(n + 1) : Depth(s, i) = Depth(t, i)
<1>1. s \in Seq(Pieces) /\ t \in Seq(Pieces) /\ n \in Nat /\ n <= Len(s) /\ n <= Len(t)
  BY DEF Same
<1> DEFINE Good == {k \in 0..n : Depth(s, k + 1) = Depth(t, k + 1)}
<1>2. 0 \in Good
  BY <1>1, DepthIs
<1>3. ASSUME NEW k \in 1..n, k - 1 \in Good
      PROVE  k \in Good
  <2>1. Depth(s, k) = Depth(t, k)
    <3>1. (k - 1) + 1 = k
      OBVIOUS
    <3> QED BY <1>3, <3>1
  <2>2. k \in 1..Len(s) /\ k \in 1..Len(t) /\ k \in 0..n
    BY <1>1
  <2>3. Depth(s, k + 1) = Deeper(s, k, Depth(s, k)) /\ Depth(t, k + 1) = Deeper(t, k, Depth(t, k))
    BY <1>1, <2>2, DepthIs
  <2>4. (Opens(s, k) <=> Opens(t, k)) /\ (Closes(s, k) <=> Closes(t, k))
    BY SameTags
  <2> QED BY <2>1, <2>2, <2>3, <2>4 DEF Deeper
<1>4. \A k \in 0..n : k \in Good
  <2> HIDE DEF Good
  <2> QED BY <1>1, <1>2, <1>3, UpTo
<1> TAKE i \in 1..(n + 1)
<1>5. i - 1 \in 0..n /\ (i - 1) + 1 = i
  BY <1>1
<1>6. i - 1 \in Good
  BY <1>4, <1>5
<1> QED BY <1>5, <1>6

LEMMA SameEnclosing ==
  ASSUME NEW s, NEW t, NEW n, Same(s, t, n)
  PROVE  \A i \in 1..(n + 1) : Enclosing(s, i) = Enclosing(t, i)
<1>1. n \in Nat
  BY DEF Same
<1> TAKE i \in 1..(n + 1)
<1>2. PICK d : d = Depth(s, i)
  OBVIOUS
<1>3. d = Depth(t, i)
  BY <1>2, SameDepth
<1> DEFINE S(r) == {k \in 1..(i-1) : Opens(r, k) /\ Depth(r, k) = d - 1
                                   /\ \A m \in (k+1)..i : Depth(r, m) >= d}
<1>4. S(s) = S(t)
  <2>1. \A k \in 1..(i - 1) : Opens(s, k) <=> Opens(t, k)
    BY <1>1, SameTags
  <2>2. \A k \in 1..(i - 1) : Depth(s, k) = Depth(t, k)
    BY <1>1, SameDepth
  <2>3. \A k \in 1..(i - 1) : \A m \in (k+1)..i : Depth(s, m) = Depth(t, m)
    BY <1>1, SameDepth
  <2> QED BY <2>1, <2>2, <2>3
<1>5. Enclosing(s, i) = IF d = 0 THEN 0 ELSE CHOOSE k \in S(s) : TRUE
  BY <1>2 DEF Enclosing
<1>6. Enclosing(t, i) = IF d = 0 THEN 0 ELSE CHOOSE k \in S(t) : TRUE
  BY <1>3 DEF Enclosing
<1> HIDE DEF S
<1> QED BY <1>4, <1>5, <1>6
----------------------------------------------------------------------------
(* The innermost open element.                                             *)

\* Piece k opens the innermost element that is open in front of piece i.
OpensAround(s, k, i) ==
  /\ k \in 1..(i - 1) /\ Opens(s, k) /\ Depth(s, k) = Depth(s, i) - 1
  /\ \A m \in (k + 1)..i : Depth(s, m) >= Depth(s, i)

LEMMA EnclosingIs ==
  ASSUME NEW s \in Seq(Pieces), NEW i \in 1..(Len(s) + 1), NEW k, OpensAround(s, k, i),
         Depth(s, i) # 0
  PROVE  Enclosing(s, i) = k
<1>1. PICK d \in Int : d = Depth(s, i)
  BY DepthIs
<1> DEFINE S == {j \in 1..(i-1) : Opens(s, j) /\ Depth(s, j) = d - 1
                                   /\ \A m \in (j+1)..i : Depth(s, m) >= d}
<1>2. Enclosing(s, i) = IF d = 0 THEN 0 ELSE CHOOSE j \in S : TRUE
  BY <1>1 DEF Enclosing
<1>3. k \in S
  BY <1>1 DEF OpensAround
<1>4. ASSUME NEW j \in S, NEW r \in S, j < r
      PROVE  FALSE
  <2>1. r \in (j + 1)..i
    BY <1>4
  <2>2. Depth(s, r) >= d /\ Depth(s, r) = d - 1
    BY <2>1
  <2> QED BY <2>2
<1>5. \A j \in S : j = k
  <2> TAKE j \in S
  <2>1. j \in Int /\ k \in Int
    BY <1>3
  <2>2. ~(j < k) /\ ~(k < j)
    BY <1>3, <1>4
  <2> QED BY <2>1, <2>2
<1> HIDE DEF S
<1> QED BY <1>1, <1>2, <1>3, <1>5

LEMMA OpenAround ==
  ASSUME NEW s \in Seq(Pieces), NEW i \in 1..(Len(s) + 1), Depth(s, i) > 0
  PROVE  \E k : OpensAround(s, k, i)
<1>1. PICK l \in Nat : l = Len(s)
  OBVIOUS
<1>2. PICK d \in Int : d = Depth(s, i) /\ d > 0
  BY DepthIs
<1>3. i \in 1..(l + 1) /\ i \in Nat
  BY <1>1
<1> DEFINE T == {k \in 1..i : Depth(s, k) < d}
<1>4. T \subseteq 1..i /\ T # {}
  <2>1. Depth(s, 1) = 0 /\ 1 \in 1..i
    BY <1>3, DepthIs
  <2> QED BY <2>1, <1>2
<1>5. PICK k \in T : \A j \in T : j <= k
  <2> HIDE DEF T
  <2> QED BY <1>3, <1>4, GreatestUpTo
<1>6. k \in 1..(i - 1) /\ Depth(s, k) < d
  BY <1>2, <1>5, <1>3
<1>7. \A m \in (k + 1)..i : Depth(s, m) >= d
  <2> TAKE m \in (k + 1)..i
  <2>1. m \in 1..i /\ ~(m <= k) /\ m \in 1..(l + 1)
    BY <1>6, <1>3
  <2>2. Depth(s, m) \in Int
    BY <2>1, <1>1, DepthIs
  <2>3. ~(Depth(s, m) < d)
    BY <2>1, <1>5
  <2> QED BY <2>2, <2>3
<1>8. Depth(s, k + 1) >= d
  <2>1. k + 1 \in (k + 1)..i
    BY <1>6, <1>3
  <2> QED BY <2>1, <1>7
<1>9. k \in 1..l
  BY <1>6, <1>3
<1>10. Depth(s, k) \in Int /\ Depth(s, k + 1) = Deeper(s, k, Depth(s, k))
  <2>1. k \in 1..Len(s) /\ k \in 1..(Len(s) + 1)
    BY <1>9, <1>1
  <2> QED BY <2>1, DepthIs
<1>11. Opens(s, k) /\ Depth(s, k) = d - 1
  BY <1>8, <1>10, <1>6, <1>2 DEF Deeper
<1> QED BY <1>2, <1>6, <1>7, <1>11 DEF OpensAround

LEMMA EnclosingIn ==
  ASSUME NEW s \in Seq(Pieces), NEW i \in 1..(Len(s) + 1), Depth(s, i) > 0
  PROVE  OpensAround(s, Enclosing(s, i), i) /\ Enclosing(s, i) \in 1..(i - 1)
<1>1. PICK k : OpensAround(s, k, i)
  BY OpenAround
<1>2. Depth(s, i) # 0
  BY DepthIs
<1>3. Enclosing(s, i) = k
  BY <1>1, <1>2, EnclosingIs
<1> QED BY <1>1, <1>3 DEF OpensAround

LEMMA SameMay ==
  ASSUME NEW s, NEW t, NEW n, Same(s, t, n)
  PROVE  \A i \in 1..n : MayStand(s, i) => MayStand(t, i)
<1>1. n \in Nat /\ (\A k \in 1..n : s[k] = t[k]) /\ n <= Len(s) /\ s \in Seq(Pieces)
  BY DEF Same
<1>2. ASSUME NEW i \in 1..n, MayStand(s, i)
      PROVE  MayStand(t, i)
  <2>1. /\ i \in 1..(n + 1) /\ s[i] = t[i] /\ \A k \in 1..(i - 1) : s[k] = t[k]
    BY <1>1
  <2>2. /\ Depth(s, i) = Depth(t, i) /\ Enclosing(s, i) = Enclosing(t, i)
        /\ Inside(s, i) <=> Inside(t, i)
        /\ BehindName(s, i) <=> BehindName(t, i)
        /\ Rooted(s, i) <=> Rooted(t, i)
        /\ GreaterBefore(s, i) <=> GreaterBefore(t, i)
    BY <2>1, SameDepth, SameEnclosing, SameTags
  <2>3. Depth(s, i) > 0 => s[Enclosing(s, i)] = t[Enclosing(s, i)]
    <3>1. i \in 1..(Len(s) + 1)
      BY <1>1
    <3> QED BY <3>1, <2>1, <1>1, EnclosingIn
  <2> QED BY <1>2, <2>1, <2>2, <2>3 DEF MayStand
<1> QED BY <1>2
----------------------------------------------------------------------------
(* One piece further.                                                      *)

LEMMA InsideNext ==
  ASSUME NEW s, NEW i \in Nat \ {0}
  PROVE  /\ Inside(s, i + 1) <=> \/ s[i].t = "stag"
                                 \/ Inside(s, i) /\ s[i].t \in MiscPieces \cup {"attr"}
         /\ BehindName(s, i + 1) <=> \/ s[i].t = "stag"
                                     \/ BehindName(s, i) /\ s[i].t \in MiscPieces
         /\ Rooted(s, i + 1) <=> Rooted(s, i) \/ s[i].t = "stag"
         /\ GreaterBefore(s, i + 1) <=> GreaterBefore(s, i) \/ s[i].t = "gt"
         /\ BehindName(s, i) => Inside(s, i)
         /\ Inside(s, i) => Rooted(s, i)
<1>1. (i + 1) - 1 = i /\ i \in 1..i /\ \A k \in 1..i : k = i \/ k \in 1..(i - 1)
  OBVIOUS
<1>2. \A m \in (i + 1)..i : FALSE
  OBVIOUS
<1>3. ASSUME NEW S
      PROVE  (\E k \in 1..i : s[k].t = "stag" /\ \A m \in (k+1)..i : s[m].t \in S)
             <=> \/ s[i].t = "stag"
                 \/ /\ \E k \in 1..(i-1) : s[k].t = "stag" /\ \A m \in (k+1)..(i-1) : s[m].t \in S
                    /\ s[i].t \in S
  <2>1. ASSUME NEW k \in 1..i, s[k].t = "stag", \A m \in (k+1)..i : s[m].t \in S, s[i].t # "stag"
        PROVE  /\ k \in 1..(i-1) /\ s[i].t \in S
               /\ \A m \in (k+1)..(i-1) : s[m].t \in S
    <3>1. k \in 1..(i - 1)
      BY <2>1, <1>1
    <3>2. i \in (k + 1)..i /\ \A m \in (k+1)..(i-1) : m \in (k+1)..i
      BY <3>1
    <3> QED BY <3>1, <3>2, <2>1
  <2>2. ASSUME NEW k \in 1..(i - 1), \A m \in (k+1)..(i-1) : s[m].t \in S, s[i].t \in S
        PROVE  k \in 1..i /\ \A m \in (k+1)..i : s[m].t \in S
    <3>1. \A m \in (k + 1)..i : m = i \/ m \in (k+1)..(i-1)
      OBVIOUS
    <3> QED BY <3>1, <2>2
  <2>3. s[i].t = "stag" => \E k \in 1..i : s[k].t = "stag" /\ \A m \in (k+1)..i : s[m].t \in S
    BY <1>1, <1>2
  <2> QED BY <2>1, <2>2, <2>3
<1>4. Inside(s, i + 1) <=> \/ s[i].t = "stag"
                           \/ Inside(s, i) /\ s[i].t \in MiscPieces \cup {"attr"}
  BY <1>1, <1>3 DEF Inside
<1>5. BehindName(s, i + 1) <=> \/ s[i].t = "stag"
                               \/ BehindName(s, i) /\ s[i].t \in MiscPieces
  BY <1>1, <1>3 DEF BehindName
<1>6. Rooted(s, i + 1) <=> Rooted(s, i) \/ s[i].t = "stag"
  BY <1>1 DEF Rooted, Opens
<1>7. GreaterBefore(s, i + 1) <=> GreaterBefore(s, i) \/ s[i].t = "gt"
  BY <1>1 DEF GreaterBefore
<1>8. BehindName(s, i) => Inside(s, i)
  BY DEF BehindName, Inside
<1>9. Inside(s, i) => Rooted(s, i)
  BY DEF Inside, Rooted, Opens
<1> QED BY <1>4, <1>5, <1>6, <1>7, <1>8, <1>9

\* Inside a tag the element of the tag is the innermost one.
LEMMA InsideTag ==
  ASSUME NEW s \in Seq(Pieces), NEW i \in 1..(Len(s) + 1), NEW k \in 1..(i - 1), s[k].t = "stag",
         \A m \in (k + 1)..(i - 1) : s[m].t \in MiscPieces \cup {"attr"}
  PROVE  \A m \in (k + 1)..i :
           Inside(s, m) /\ Depth(s, m) = Depth(s, k) + 1 /\ OpensAround(s, k, m)
<1>1. PICK l \in Nat : l = Len(s)
  OBVIOUS
<1>2. i \in Nat /\ k \in Nat /\ i <= l + 1 /\ k < i /\ 1 <= k
  BY <1>1
<1>3. Depth(s, k) \in Int
  BY <1>1, <1>2, DepthIs
<1> DEFINE Good == {j \in 0..(i - k - 1) : Depth(s, k + 1 + j) = Depth(s, k) + 1}
<1>4. 0 \in Good
  <2>1. k \in 1..Len(s)
    BY <1>1, <1>2
  <2>2. Depth(s, k + 1) = Deeper(s, k, Depth(s, k))
    BY <2>1, DepthIs
  <2>3. Depth(s, k + 1) = Depth(s, k) + 1
    BY <2>2 DEF Deeper, Opens
  <2> QED BY <2>3, <1>2
<1>5. ASSUME NEW j \in 1..(i - k - 1), j - 1 \in Good
      PROVE  j \in Good
  <2>1. /\ k + j \in (k + 1)..(i - 1) /\ k + j \in 1..Len(s) /\ k + 1 + (j - 1) = k + j
        /\ (k + j) + 1 = k + 1 + j
    BY <1>1, <1>2
  <2>2. Depth(s, k + j) = Depth(s, k) + 1
    BY <1>5, <2>1
  <2>3. Depth(s, (k + j) + 1) = Deeper(s, k + j, Depth(s, k + j))
    BY <2>1, DepthIs
  <2>4. s[k + j].t \in MiscPieces \cup {"attr"}
    BY <2>1
  <2>5. ~Opens(s, k + j) /\ ~Closes(s, k + j)
    BY <2>4 DEF Opens, Closes, MiscPieces
  <2> QED BY <2>1, <2>2, <2>3, <2>5 DEF Deeper
<1>6. \A j \in 0..(i - k - 1) : j \in Good
  <2>1. i - k - 1 \in Nat
    BY <1>2
  <2> HIDE DEF Good
  <2> QED BY <2>1, <1>4, <1>5, UpTo
<1>7. \A m \in (k + 1)..i : Depth(s, m) = Depth(s, k) + 1
  <2> TAKE m \in (k + 1)..i
  <2>1. m - k - 1 \in 0..(i - k - 1) /\ k + 1 + (m - k - 1) = m
    BY <1>2
  <2>2. m - k - 1 \in Good
    BY <2>1, <1>6
  <2> QED BY <2>1, <2>2
<1> TAKE m \in (k + 1)..i
<1>8. k \in 1..(m - 1) /\ \A j \in (k + 1)..(m - 1) : j \in (k + 1)..(i - 1)
  BY <1>2
<1>9. Inside(s, m)
  BY <1>8 DEF Inside
<1>10. OpensAround(s, k, m)
  <2>1. \A j \in (k + 1)..m : j \in (k + 1)..i
    BY <1>2
  <2>2. Depth(s, m) = Depth(s, k) + 1
    BY <1>7
  <2>3. \A j \in (k + 1)..m : Depth(s, j) >= Depth(s, m)
    BY <2>1, <2>2, <1>7, <1>3
  <2>4. Depth(s, k) = Depth(s, m) - 1
    BY <2>2, <1>3
  <2> QED BY <1>8, <2>3, <2>4 DEF OpensAround, Opens
<1> QED BY <1>7, <1>9, <1>10

\* Inside a tag nothing but attributes and comments lies behind the start of
\* the innermost element, which is the last start tag.
LEMMA InsideIs ==
  ASSUME NEW s \in Seq(Pieces), NEW i \in 1..(Len(s) + 1), Inside(s, i), Depth(s, i) # 0
  PROVE  /\ Enclosing(s, i) \in 1..(i - 1) /\ s[Enclosing(s, i)].t = "stag"
         /\ \A m \in (Enclosing(s, i) + 1)..(i - 1) :
              /\ s[m].t \in MiscPieces \cup {"attr"} /\ Inside(s, m)
              /\ Enclosing(s, m) = Enclosing(s, i)
<1>1. PICK k \in 1..(i - 1) : /\ s[k].t = "stag"
                              /\ \A m \in (k + 1)..(i - 1) : s[m].t \in MiscPieces \cup {"attr"}
  BY DEF Inside
<1>2. \A m \in (k + 1)..i : Inside(s, m) /\ Depth(s, m) = Depth(s, k) + 1 /\ OpensAround(s, k, m)
  BY <1>1, InsideTag
<1>3. PICK l \in Nat : l = Len(s)
  OBVIOUS
<1>4. i \in (k + 1)..i /\ \A m \in (k + 1)..(i - 1) : m \in (k + 1)..i
  BY <1>3
<1>5. Depth(s, k) + 1 # 0
  BY <1>2, <1>4
<1>6. \A m \in (k + 1)..i : Enclosing(s, m) = k
  <2> TAKE m \in (k + 1)..i
  <2>1. m \in 1..(Len(s) + 1)
    BY <1>3
  <2>2. OpensAround(s, k, m) /\ Depth(s, m) # 0
    BY <1>2, <1>5
  <2> QED BY <2>1, <2>2, EnclosingIs
<1>7. Enclosing(s, i) = k
  BY <1>4, <1>6
<1> QED BY <1>1, <1>2, <1>4, <1>6, <1>7

\* An attribute inside a tag lies behind the start of the tag it is in.
LEMMA AttrBehind ==
  ASSUME NEW s \in Seq(Pieces), NEW m \in 1..Len(s), Inside(s, m)
  PROVE  Enclosing(s, m) \in 0..(m - 1)
<1>1. PICK l \in Nat : l = Len(s)
  OBVIOUS
<1>2. m \in 1..(Len(s) + 1) /\ m \in Nat /\ m >= 1
  BY <1>1
<1>3. CASE Depth(s, m) = 0
  <2>1. Enclosing(s, m) = 0
    BY <1>3 DEF Enclosing
  <2> QED BY <2>1, <1>2
<1>4. CASE Depth(s, m) # 0
  <2>1. Enclosing(s, m) \in 1..(m - 1)
    BY <1>2, <1>4, InsideIs
  <2> QED BY <2>1
<1> QED BY <1>3, <1>4
----------------------------------------------------------------------------
(* What the parser keeps, when the text goes on and when a piece of it is  *)
(* consumed.                                                               *)

LEMMA BranchSame ==
  ASSUME NEW s, NEW t, NEW n, Same(s, t, n), NEW nd, NEW path, NEW c, NEW st \in Seq(XmlNames),
         Branch(nd, path, c, st, s, n)
  PROVE  Branch(nd, path, c, st, t, n)
<1>1. n \in Nat /\ \A k \in 1..n : s[k] = t[k]
  BY DEF Same
<1>2. /\ path \in Seq(1..Len(nd)) /\ Len(path) = Len(st) /\ Depth(s, n + 1) = Len(st)
      /\ c = IF Len(path) = 0 THEN 0 ELSE path[1]
      /\ \A k \in 1..Len(path) : OpenNode(nd, path, st, s, n, k)
  BY DEF Branch
<1>3. Depth(t, n + 1) = Len(st)
  <2>1. n + 1 \in 1..(n + 1)
    BY <1>1
  <2> QED BY <2>1, <1>2, SameDepth
<1>4. ASSUME NEW k \in 1..Len(path) PROVE OpenNode(nd, path, st, t, n, k)
  <2>1. OpenNode(nd, path, st, s, n, k)
    BY <1>2
  <2>2. PICK a : a = nd[path[k]].at
    OBVIOUS
  <2>3. a \in 1..n
    BY <2>1, <2>2 DEF OpenNode
  <2>4. Depth(s, a) = Depth(t, a) /\ s[a] = t[a] /\ \A m \in (a + 1)..(n + 1) : Depth(s, m) = Depth(t, m)
    BY <2>3, <1>1, SameDepth
  <2> QED BY <2>1, <2>2, <2>4 DEF OpenNode
<1> QED BY <1>2, <1>3, <1>4 DEF Branch

LEMMA AttrsSame ==
  ASSUME NEW s, NEW t, NEW n, Same(s, t, n), NEW e
  PROVE  AttrsWritten(s, n, e) = AttrsWritten(t, n, e)
<1>1. n \in Nat /\ \A k \in 1..n : s[k] = t[k] /\ k \in 1..(n + 1)
  BY DEF Same
<1>2. \A k \in 1..n : (Inside(s, k) <=> Inside(t, k)) /\ Enclosing(s, k) = Enclosing(t, k)
  BY <1>1, SameTags, SameEnclosing
<1> QED BY <1>1, <1>2 DEF AttrsWritten

LEMMA TreeSame ==
  ASSUME NEW s, NEW t, NEW n, Same(s, t, n), NEW nd, TreeOK(nd, s, n)
  PROVE  TreeOK(nd, t, n)
<1>1. n \in Nat /\ \A k \in 1..n : s[k] = t[k] /\ k \in 1..(n + 1)
  BY DEF Same
<1>2. ASSUME NEW i \in 1..Len(nd) PROVE NodeOK(nd, i, t, n)
  <2>1. NodeOK(nd, i, s, n)
    BY DEF TreeOK
  <2>2. PICK a : a = nd[i].at
    OBVIOUS
  <2>3. a \in 1..n
    BY <2>1, <2>2 DEF NodeOK
  <2>4. Enclosing(s, a) = Enclosing(t, a) /\ s[a] = t[a] /\ AttrsWritten(s, n, a) = AttrsWritten(t, n, a)
    BY <2>3, <1>1, SameEnclosing, AttrsSame
  <2> QED BY <2>1, <2>2, <2>4 DEF NodeOK
<1>3. \A k \in 1..n : t[k].t \in {"stag", "cdata"} => \E i \in 1..Len(nd) : nd[i].at = k
  BY <1>1 DEF TreeOK
<1> QED BY <1>2, <1>3 DEF TreeOK

\* The nodes are as they were but for their attributes, others may have come.
NodesKept(nd, new) ==
  /\ nd \in Seq(NodeRec) /\ new \in Seq(NodeRec) /\ Len(nd) <= Len(new)
  /\ \A i \in 1..Len(nd) : /\ new[i].kind = nd[i].kind /\ new[i].name = nd[i].name
                           /\ new[i].parent = nd[i].parent /\ new[i].at = nd[i].at

\* A piece that neither opens nor closes an element.
LEMMA BranchOver ==
  ASSUME NEW s \in Seq(Pieces), NEW n \in 0..(Len(s) - 1), ~Opens(s, n + 1), ~Closes(s, n + 1),
         NEW nd, NEW new, NodesKept(nd, new),
         NEW path, NEW c, NEW st \in Seq(XmlNames), Branch(nd, path, c, st, s, n)
  PROVE  Branch(new, path, c, st, s, n + 1)
<1>1. PICK l \in Nat : l = Len(s)
  OBVIOUS
<1>2. n \in Nat /\ n + 1 \in 1..Len(s) /\ (n + 1) + 1 = n + 2
  BY <1>1
<1>3. /\ path \in Seq(1..Len(nd)) /\ Len(path) = Len(st) /\ Depth(s, n + 1) = Len(st)
      /\ c = IF Len(path) = 0 THEN 0 ELSE path[1]
      /\ \A k \in 1..Len(path) : OpenNode(nd, path, st, s, n, k)
  BY DEF Branch
<1>4. Depth(s, n + 2) = Depth(s, n + 1)
  <2>1. Depth(s, (n + 1) + 1) = Deeper(s, n + 1, Depth(s, n + 1))
    BY <1>2, DepthIs
  <2> QED BY <2>1, <1>2 DEF Deeper
<1>5. path \in Seq(1..Len(new))
  <2>1. Len(nd) <= Len(new) /\ Len(nd) \in Nat /\ Len(new) \in Nat
    BY DEF NodesKept
  <2>2. 1..Len(nd) \subseteq 1..Len(new)
    BY <2>1
  <2> QED BY <2>2, <1>3, SeqWider, Zenon
<1>6. ASSUME NEW k \in 1..Len(path) PROVE OpenNode(new, path, st, s, n + 1, k)
  <2>1. OpenNode(nd, path, st, s, n, k)
    BY <1>3
  <2>2. path[k] \in 1..Len(nd)
    BY <1>3
  <2>3. PICK a : a = nd[path[k]].at
    OBVIOUS
  <2>4. a \in 1..n /\ \A m \in (a + 1)..(n + 1) : Depth(s, m) >= Len(path) - k + 1
    BY <2>1, <2>3 DEF OpenNode
  <2>5. \A m \in (a + 1)..(n + 2) : Depth(s, m) >= Len(path) - k + 1
    <3>1. n + 1 \in (a + 1)..(n + 1)
      BY <2>4, <1>2
    <3>2. \A m \in (a + 1)..(n + 2) : m = n + 2 \/ m \in (a + 1)..(n + 1)
      BY <2>4, <1>2
    <3> QED BY <3>1, <3>2, <2>4, <1>4
  <2>6. a \in 1..(n + 1)
    BY <2>4, <1>2
  <2>7. /\ new[path[k]].kind = nd[path[k]].kind /\ new[path[k]].name = nd[path[k]].name
        /\ new[path[k]].parent = nd[path[k]].parent /\ new[path[k]].at = a
    BY <2>2, <2>3 DEF NodesKept
  <2> QED BY <2>1, <2>3, <2>5, <2>6, <2>7, <1>2 DEF OpenNode
<1> QED BY <1>2, <1>3, <1>4, <1>5, <1>6 DEF Branch

\* The current node is the innermost open element.
LEMMA BranchTop ==
  ASSUME NEW s \in Seq(Pieces), NEW n \in 0..Len(s), NEW nd \in Seq(NodeRec),
         NEW path, NEW c, NEW st \in Seq(XmlNames), Branch(nd, path, c, st, s, n)
  PROVE  /\ c \in 0..Len(nd) /\ (c = 0 <=> st = <<>>) /\ Depth(s, n + 1) = Len(st)
         /\ Depth(s, n + 1) > 0 <=> st # <<>>
         /\ Enclosing(s, n + 1) = IF c = 0 THEN 0 ELSE nd[c].at
         /\ st # <<>> => /\ nd[c].kind = "element" /\ nd[c].at \in 1..n
                         /\ s[nd[c].at].t = "stag" /\ s[nd[c].at].name = Head(st)
<1>1. PICK l \in Nat : l = Len(s)
  OBVIOUS
<1>2. /\ path \in Seq(1..Len(nd)) /\ Len(path) = Len(st) /\ Depth(s, n + 1) = Len(st)
      /\ c = IF Len(path) = 0 THEN 0 ELSE path[1]
      /\ \A k \in 1..Len(path) : OpenNode(nd, path, st, s, n, k)
  BY DEF Branch
<1>3. Len(st) \in Nat /\ Len(path) \in Nat /\ (Len(st) = 0 <=> st = <<>>) /\ Len(nd) \in Nat
  BY <1>2
<1>4. n \in Nat /\ n + 1 \in 1..(Len(s) + 1)
  BY <1>1
<1>5. CASE st = <<>>
  <2>1. c = 0 /\ Depth(s, n + 1) = 0
    BY <1>2, <1>3, <1>5
  <2>2. Enclosing(s, n + 1) = 0
    BY <2>1 DEF Enclosing
  <2> QED BY <2>1, <2>2, <1>2, <1>3, <1>5
<1>6. CASE st # <<>>
  <2>1. c = path[1] /\ 1 \in 1..Len(path) /\ Len(path) # 0
    BY <1>2, <1>3, <1>6
  <2>2. c \in 1..Len(nd)
    BY <2>1, <1>2
  <2>3. OpenNode(nd, path, st, s, n, 1)
    BY <2>1, <1>2
  <2>4. PICK a : a = nd[c].at
    OBVIOUS
  <2>5. /\ nd[c].kind = "element" /\ a \in 1..n /\ s[a].t = "stag" /\ s[a].name = st[1]
        /\ Depth(s, a) = Len(path) - 1
        /\ \A m \in (a + 1)..(n + 1) : Depth(s, m) >= Len(path) - 1 + 1
    BY <2>1, <2>3, <2>4 DEF OpenNode
  <2>6. OpensAround(s, a, n + 1)
    <3>1. a \in 1..((n + 1) - 1)
      BY <2>5, <1>4
    <3>2. Len(path) - 1 + 1 = Len(path)
      BY <1>3
    <3> QED BY <3>1, <3>2, <2>5, <1>2 DEF OpensAround, Opens
  <2>7. Depth(s, n + 1) # 0
    BY <2>1, <1>2
  <2>8. Enclosing(s, n + 1) = a
    BY <2>6, <2>7, <1>4, EnclosingIs
  <2>9. Head(st) = st[1] /\ c # 0 /\ Len(st) > 0
    BY <1>6, <1>3, <2>2
  <2> QED BY <2>2, <2>4, <2>5, <2>8, <2>9, <1>2, <1>6
<1> QED BY <1>5, <1>6
LEMMA TailIs ==
  ASSUME NEW S, NEW q \in Seq(S), q # <<>>
  PROVE  /\ Tail(q) \in Seq(S) /\ Len(Tail(q)) = Len(q) - 1 /\ Len(q) \in Nat \ {0}
         /\ \A k \in 1..(Len(q) - 1) : Tail(q)[k] = q[k + 1]
OBVIOUS

\* A start tag: its element is the current node.
LEMMA BranchPush ==
  ASSUME NEW s \in Seq(Pieces), NEW n \in 0..(Len(s) - 1), s[n + 1].t = "stag",
         NEW nd, NEW new, NodesKept(nd, new), Len(new) = Len(nd) + 1,
         NEW path, NEW c, NEW st \in Seq(XmlNames), Branch(nd, path, c, st, s, n),
         NEW name \in XmlNames, name = s[n + 1].name,
         new[Len(new)].kind = "element", new[Len(new)].name = name, new[Len(new)].parent = c,
         new[Len(new)].at = n + 1
  PROVE  Branch(new, <<Len(new)>> \o path, Len(new), <<name>> \o st, s, n + 1)
<1>1. PICK l \in Nat : l = Len(s)
  OBVIOUS
<1>2. n \in Nat /\ n + 1 \in 1..Len(s) /\ (n + 1) + 1 = n + 2 /\ n + 1 >= 1
  BY <1>1
<1>3. /\ path \in Seq(1..Len(nd)) /\ Len(path) = Len(st) /\ Depth(s, n + 1) = Len(st)
      /\ c = IF Len(path) = 0 THEN 0 ELSE path[1]
      /\ \A k \in 1..Len(path) : OpenNode(nd, path, st, s, n, k)
  BY DEF Branch
<1>4. PICK N \in Nat \ {0} : N = Len(new) /\ Len(nd) = N - 1
  <2>1. Len(nd) \in Nat
    BY DEF NodesKept
  <2> QED BY <2>1
<1>5. Depth(s, n + 2) = Len(st) + 1
  <2>1. Depth(s, (n + 1) + 1) = Deeper(s, n + 1, Depth(s, n + 1))
    BY <1>2, DepthIs
  <2> QED BY <2>1, <1>2, <1>3 DEF Deeper, Opens
<1>6. path \in Seq(1..N) /\ N \in 1..N
  <2>1. 1..Len(nd) \subseteq 1..N
    BY <1>4
  <2>2. path \in Seq(1..Len(nd))
    BY <1>3
  <2>3. path \in Seq(1..N)
    BY <2>1, <2>2, SeqWider, Zenon
  <2> QED BY <2>3
<1>7. PICK p : p = <<N>> \o path
  OBVIOUS
<1>8. PICK t : t = <<name>> \o st
  OBVIOUS
<1>9. PICK h \in Nat : h = Len(path) /\ h = Len(st)
  BY <1>3
<1>10. p \in Seq(1..N) /\ Len(p) = h + 1 /\ p[1] = N /\ \A k \in 1..h : p[k + 1] = path[k]
  <2>1. <<N>> \o path \in Seq(1..N) /\ Consed(<<N>> \o path, N, path)
    BY <1>6, ConsIs, Zenon
  <2>2. p \in Seq(1..N) /\ Consed(p, N, path)
    BY <2>1, <1>7, Zenon
  <2> QED BY <2>2, <1>9 DEF Consed
<1>11. Len(t) = h + 1 /\ t[1] = name /\ \A k \in 1..h : t[k + 1] = st[k]
  <2>1. Consed(<<name>> \o st, name, st)
    BY ConsIs, Zenon
  <2>2. Consed(t, name, st)
    BY <2>1, <1>8, Zenon
  <2> QED BY <2>2, <1>9 DEF Consed
<1>12. OpenNode(new, p, t, s, n + 1, 1)
  <2>1. new[p[1]].parent = IF 1 = Len(p) THEN 0 ELSE p[1 + 1]
    <3>1. CASE h = 0
      BY <3>1, <1>3, <1>4, <1>9, <1>10
    <3>2. CASE h # 0
      <4>1. 1 \in 1..h /\ 1 # Len(p)
        BY <3>2, <1>10
      <4>2. p[1 + 1] = path[1]
        BY <4>1, <1>10
      <4> QED BY <4>1, <4>2, <3>2, <1>3, <1>4, <1>9, <1>10
    <3> QED BY <3>1, <3>2
  <2>2. Depth(s, n + 1) = Len(p) - 1
    BY <1>3, <1>9, <1>10
  <2>3. \A m \in ((n + 1) + 1)..((n + 1) + 1) : Depth(s, m) >= Len(p) - 1 + 1
    BY <1>2, <1>5, <1>9, <1>10
  <2>4. n + 1 \in 1..(n + 1)
    BY <1>2
  <2> QED BY <2>1, <2>2, <2>3, <2>4, <1>4, <1>10, <1>11 DEF OpenNode
<1>13. ASSUME NEW k \in 1..h PROVE OpenNode(new, p, t, s, n + 1, k + 1)
  <2>1. OpenNode(nd, path, st, s, n, k) /\ path[k] \in 1..Len(nd)
    BY <1>3, <1>9
  <2>2. PICK a : a = nd[path[k]].at
    OBVIOUS
  <2>3. a \in 1..n /\ Depth(s, a) = h - k /\ \A m \in (a + 1)..(n + 1) : Depth(s, m) >= h - k + 1
    BY <2>1, <2>2, <1>9 DEF OpenNode
  <2>4. /\ new[p[k + 1]].kind = nd[path[k]].kind /\ new[p[k + 1]].name = nd[path[k]].name
        /\ new[p[k + 1]].parent = nd[path[k]].parent /\ new[p[k + 1]].at = a
    BY <2>1, <2>2, <1>10 DEF NodesKept
  <2>5. \A m \in (a + 1)..((n + 1) + 1) : Depth(s, m) >= Len(p) - (k + 1) + 1
    <3>1. \A m \in (a + 1)..((n + 1) + 1) : m = n + 2 \/ m \in (a + 1)..(n + 1)
      BY <2>3, <1>2
    <3>2. Len(p) - (k + 1) + 1 = h - k + 1 /\ h + 1 >= h - k + 1
      BY <1>10
    <3> QED BY <3>1, <3>2, <2>3, <1>5, <1>9
  <2>6. a \in 1..(n + 1) /\ Depth(s, a) = Len(p) - (k + 1)
    BY <2>3, <1>2, <1>10
  <2>7. new[p[k + 1]].parent = IF k + 1 = Len(p) THEN 0 ELSE p[(k + 1) + 1]
    <3>1. nd[path[k]].parent = IF k = h THEN 0 ELSE path[k + 1]
      BY <2>1, <1>9 DEF OpenNode
    <3>2. k + 1 = Len(p) <=> k = h
      BY <1>10
    <3>3. k # h => p[(k + 1) + 1] = path[k + 1]
      <4>1. k # h => k + 1 \in 1..h
        OBVIOUS
      <4> QED BY <4>1, <1>10
    <3> QED BY <3>1, <3>2, <3>3, <2>4
  <2>8. t[k + 1] = st[k]
    BY <1>11
  <2>9. /\ nd[path[k]].kind = "element" /\ nd[path[k]].name = st[k]
        /\ s[a].t = "stag" /\ s[a].name = st[k]
    BY <2>1, <2>2 DEF OpenNode
  <2> QED BY <2>4, <2>5, <2>6, <2>7, <2>8, <2>9 DEF OpenNode
<1>14. ASSUME NEW k \in 1..Len(p) PROVE OpenNode(new, p, t, s, n + 1, k)
  <2>1. CASE k = 1
    BY <2>1, <1>12
  <2>2. CASE k # 1
    <3>1. k - 1 \in 1..h /\ (k - 1) + 1 = k
      BY <2>2, <1>10, SMTT(60)
    <3>2. PICK j \in 1..h : j + 1 = k
      BY <3>1
    <3> QED BY <3>2, <1>13
  <2> QED BY <2>1, <2>2
<1>15. Branch(new, p, N, t, s, n + 1)
  <2>1. N = IF Len(p) = 0 THEN 0 ELSE p[1]
    BY <1>10
  <2>2. p \in Seq(1..Len(new)) /\ Len(p) = Len(t) /\ Depth(s, (n + 1) + 1) = Len(t)
    BY <1>2, <1>4, <1>5, <1>9, <1>10, <1>11
  <2> QED BY <2>1, <2>2, <1>14 DEF Branch
<1> QED BY <1>4, <1>7, <1>8, <1>15

\* The end of an element: the one around it is the current node.
LEMMA BranchPop ==
  ASSUME NEW s \in Seq(Pieces), NEW n \in 0..(Len(s) - 1), Closes(s, n + 1),
         NEW nd \in Seq(NodeRec), NEW path, NEW c, NEW st \in Seq(XmlNames), st # <<>>,
         Branch(nd, path, c, st, s, n)
  PROVE  Branch(nd, Tail(path), nd[c].parent, Tail(st), s, n + 1)
<1>1. PICK l \in Nat : l = Len(s)
  OBVIOUS
<1>2. n \in Nat /\ n + 1 \in 1..Len(s) /\ (n + 1) + 1 = n + 2 /\ n + 1 >= 1
  BY <1>1
<1>3. /\ path \in Seq(1..Len(nd)) /\ Len(path) = Len(st) /\ Depth(s, n + 1) = Len(st)
      /\ c = IF Len(path) = 0 THEN 0 ELSE path[1]
      /\ \A k \in 1..Len(path) : OpenNode(nd, path, st, s, n, k)
  BY DEF Branch
<1>4. PICK h \in Nat : h + 1 = Len(st) /\ h + 1 = Len(path)
  <2>1. Len(st) \in Nat \ {0}
    BY TailIs, Zenon
  <2>2. Len(st) - 1 \in Nat /\ (Len(st) - 1) + 1 = Len(st) /\ Len(st) = Len(path)
    BY <2>1, <1>3
  <2> QED BY <2>2
<1>5. path # <<>>
  BY <1>4
<1>6. PICK p \in Seq(1..Len(nd)) : p = Tail(path) /\ Len(p) = h /\ \A k \in 1..h : p[k] = path[k + 1]
  <2>1. /\ Tail(path) \in Seq(1..Len(nd)) /\ Len(Tail(path)) = Len(path) - 1
        /\ \A k \in 1..(Len(path) - 1) : Tail(path)[k] = path[k + 1]
    BY <1>3, <1>5, TailIs, Zenon
  <2>2. Len(path) - 1 = h
    BY <1>4
  <2> QED BY <2>1, <2>2
<1>7. PICK t \in Seq(XmlNames) : t = Tail(st) /\ Len(t) = h /\ \A k \in 1..h : t[k] = st[k + 1]
  <2>1. /\ Tail(st) \in Seq(XmlNames) /\ Len(Tail(st)) = Len(st) - 1
        /\ \A k \in 1..(Len(st) - 1) : Tail(st)[k] = st[k + 1]
    BY TailIs, Zenon
  <2>2. Len(st) - 1 = h
    BY <1>4
  <2> QED BY <2>1, <2>2
<1>8. Depth(s, n + 2) = h
  <2>1. Depth(s, (n + 1) + 1) = Deeper(s, n + 1, Depth(s, n + 1))
    BY <1>2, DepthIs
  <2>2. ~Opens(s, n + 1)
    BY DEF Closes, Opens
  <2> QED BY <2>1, <2>2, <1>2, <1>3, <1>4 DEF Deeper
<1>9. nd[c].parent = IF h = 0 THEN 0 ELSE p[1]
  <2>1. 1 \in 1..Len(path) /\ c = path[1]
    BY <1>3, <1>4
  <2>2. nd[path[1]].parent = IF 1 = Len(path) THEN 0 ELSE path[1 + 1]
    BY <2>1, <1>3 DEF OpenNode
  <2>3. h # 0 => p[1] = path[1 + 1]
    <3>1. h # 0 => 1 \in 1..h
      OBVIOUS
    <3> QED BY <3>1, <1>6
  <2>4. 1 = Len(path) <=> h = 0
    <3>1. 1 = h + 1 <=> h = 0
      OBVIOUS
    <3> QED BY <3>1, <1>4, Zenon
  <2> QED BY <2>1, <2>2, <2>3, <2>4
<1>10. ASSUME NEW k \in 1..h PROVE OpenNode(nd, p, t, s, n + 1, k)
  <2>1. k + 1 \in 1..Len(path)
    BY <1>4
  <2>2. OpenNode(nd, path, st, s, n, k + 1)
    BY <2>1, <1>3
  <2>3. PICK a : a = nd[path[k + 1]].at
    OBVIOUS
  <2>4. p[k] = path[k + 1] /\ t[k] = st[k + 1]
    BY <1>6, <1>7
  <2>5. /\ a \in 1..n /\ Depth(s, a) = Len(path) - (k + 1)
        /\ \A m \in (a + 1)..(n + 1) : Depth(s, m) >= Len(path) - (k + 1) + 1
    BY <2>2, <2>3 DEF OpenNode
  <2>6. a \in 1..(n + 1) /\ Depth(s, a) = h - k
    BY <2>5, <1>2, <1>4
  <2>7. \A m \in (a + 1)..((n + 1) + 1) : Depth(s, m) >= h - k + 1
    <3>1. \A m \in (a + 1)..((n + 1) + 1) : m = n + 2 \/ m \in (a + 1)..(n + 1)
      BY <2>5, <1>2
    <3>2. Len(path) - (k + 1) + 1 = h - k + 1 /\ h >= h - k + 1
      BY <1>4
    <3> QED BY <3>1, <3>2, <2>5, <1>8
  <2>8. nd[path[k + 1]].parent = IF k = h THEN 0 ELSE p[k + 1]
    <3>1. nd[path[k + 1]].parent = IF k + 1 = Len(path) THEN 0 ELSE path[(k + 1) + 1]
      BY <2>2 DEF OpenNode
    <3>2. k + 1 = Len(path) <=> k = h
      BY <1>4
    <3>3. k # h => p[k + 1] = path[(k + 1) + 1]
      <4>1. k # h => k + 1 \in 1..h
        OBVIOUS
      <4> QED BY <4>1, <1>6
    <3> QED BY <3>1, <3>2, <3>3
  <2>9. /\ nd[p[k]].kind = "element" /\ nd[p[k]].name = t[k] /\ s[a].t = "stag" /\ s[a].name = t[k]
    BY <2>2, <2>3, <2>4 DEF OpenNode
  <2> QED BY <2>3, <2>4, <2>6, <2>7, <2>8, <2>9, <1>6 DEF OpenNode
<1>11. Branch(nd, p, nd[c].parent, t, s, n + 1)
  BY <1>2, <1>6, <1>7, <1>8, <1>9, <1>10 DEF Branch
<1> QED BY <1>6, <1>7, <1>11
----------------------------------------------------------------------------
(* The tree, when a piece is consumed.                                     *)

\* Piece i is an attribute of a tag.
TagAttr(s, i) == s[i].t = "attr" /\ Inside(s, i)

LEMMA AttrsOver ==
  ASSUME NEW s, NEW n \in Nat, NEW e
  PROVE  AttrsWritten(s, n + 1, e) =
           IF TagAttr(s, n + 1) /\ Enclosing(s, n + 1) = e
           THEN AttrsWritten(s, n, e) \cup {s[n + 1].name} ELSE AttrsWritten(s, n, e)
<1> DEFINE M(j) == {m \in 1..j : TagAttr(s, m) /\ Enclosing(s, m) = e}
<1>1. 1..(n + 1) = (1..n) \cup {n + 1}
  OBVIOUS
<1>2. \A j : AttrsWritten(s, j, e) = {s[k].name : k \in M(j)}
  BY DEF AttrsWritten, TagAttr
<1>3. M(n + 1) = IF TagAttr(s, n + 1) /\ Enclosing(s, n + 1) = e THEN M(n) \cup {n + 1} ELSE M(n)
  BY <1>1
<1>4. \A A : {s[k].name : k \in A \cup {n + 1}} = {s[k].name : k \in A} \cup {s[n + 1].name}
  OBVIOUS
<1>5. CASE TagAttr(s, n + 1) /\ Enclosing(s, n + 1) = e
  <2>1. M(n + 1) = M(n) \cup {n + 1}
    BY <1>3, <1>5
  <2> HIDE DEF M
  <2>2. AttrsWritten(s, n + 1, e) = {s[k].name : k \in M(n) \cup {n + 1}}
    BY <1>2, <2>1
  <2> QED BY <2>2, <1>2, <1>4, <1>5
<1>6. CASE ~(TagAttr(s, n + 1) /\ Enclosing(s, n + 1) = e)
  <2>1. M(n + 1) = M(n)
    BY <1>3, <1>6
  <2> HIDE DEF M
  <2> QED BY <1>2, <2>1, <1>6
<1> QED BY <1>5, <1>6

\* A piece that makes no node and is not an attribute of a tag.
LEMMA TreeOver ==
  ASSUME NEW s \in Seq(Pieces), NEW n \in 0..(Len(s) - 1), NEW nd, TreeOK(nd, s, n),
         s[n + 1].t \notin {"stag", "cdata"}, ~TagAttr(s, n + 1)
  PROVE  TreeOK(nd, s, n + 1)
<1>1. n \in Nat /\ \A k \in 1..(n + 1) : k = n + 1 \/ k \in 1..n
  OBVIOUS
<1>2. ASSUME NEW i \in 1..Len(nd) PROVE NodeOK(nd, i, s, n + 1)
  <2>1. NodeOK(nd, i, s, n)
    BY DEF TreeOK
  <2>2. nd[i].at \in 1..n /\ nd[i].at \in 1..(n + 1)
    BY <2>1, <1>1 DEF NodeOK
  <2>3. AttrsWritten(s, n + 1, nd[i].at) = AttrsWritten(s, n, nd[i].at)
    BY <1>1, AttrsOver
  <2> QED BY <2>1, <2>2, <2>3 DEF NodeOK
<1>3. \A k \in 1..(n + 1) : s[k].t \in {"stag", "cdata"} => \E i \in 1..Len(nd) : nd[i].at = k
  BY <1>1 DEF TreeOK
<1> QED BY <1>2, <1>3 DEF TreeOK

\* A piece that makes the node x, which new has behind those of nd.
Grown(nd, new, x) ==
  /\ new \in Seq(NodeRec) /\ Len(new) = Len(nd) + 1 /\ new[Len(nd) + 1] = x
  /\ \A i \in 1..Len(nd) : new[i] = nd[i]

LEMMA TreeGrows ==
  ASSUME NEW s \in Seq(Pieces), NEW n \in 0..(Len(s) - 1), NEW nd, TreeOK(nd, s, n),
         ~TagAttr(s, n + 1), NEW new, NEW x \in NodeRec, Grown(nd, new, x),
         x.at = n + 1, x.parent \in 0..Len(nd), x.attrs = {}, x.kind = KindOf(s[n + 1].t),
         Enclosing(s, n + 1) = IF x.parent = 0 THEN 0 ELSE nd[x.parent].at
  PROVE  TreeOK(new, s, n + 1)
<1>1. n \in Nat /\ n + 1 \in 1..(n + 1) /\ \A k \in 1..(n + 1) : k = n + 1 \/ k \in 1..n
  OBVIOUS
<1>2. PICK N \in Nat : N = Len(nd)
  BY DEF TreeOK
<1>3. /\ new \in Seq(NodeRec) /\ Len(new) = N + 1 /\ new[N + 1] = x
      /\ \A i \in 1..N : new[i] = nd[i]
  BY <1>2 DEF Grown
<1>4. \A i \in 1..Len(new) : i = N + 1 \/ i \in 1..N
  BY <1>2, <1>3
<1>5. \A i \in 1..N : NodeOK(nd, i, s, n)
  BY <1>2 DEF TreeOK
<1>6. \A i \in 1..N : nd[i].at \in 1..n /\ nd[i].parent \in 0..(i - 1)
  BY <1>5 DEF NodeOK
<1>7. ASSUME NEW i \in 1..N PROVE NodeOK(new, i, s, n + 1)
  <2>1. NodeOK(nd, i, s, n) /\ new[i] = nd[i]
    BY <1>3, <1>5
  <2>2. nd[i].at \in 1..n /\ nd[i].at \in 1..(n + 1)
    BY <1>1, <1>6
  <2>3. AttrsWritten(s, n + 1, nd[i].at) = AttrsWritten(s, n, nd[i].at)
    BY <1>1, AttrsOver
  <2>4. nd[i].parent # 0 => new[nd[i].parent] = nd[nd[i].parent]
    <3>1. nd[i].parent # 0 => nd[i].parent \in 1..N
      BY <1>6
    <3> QED BY <3>1, <1>3
  <2> QED BY <2>1, <2>2, <2>3, <2>4 DEF NodeOK
<1>8. NodeOK(new, N + 1, s, n + 1)
  <2>1. AttrsWritten(s, n + 1, n + 1) = {}
    <3>1. \A m \in 1..(n + 1) : TagAttr(s, m) => Enclosing(s, m) # n + 1
      <4> SUFFICES ASSUME NEW m \in 1..(n + 1), TagAttr(s, m) PROVE Enclosing(s, m) # n + 1
        OBVIOUS
      <4>1. m \in 1..Len(s) /\ Inside(s, m)
        BY DEF TagAttr
      <4>2. Enclosing(s, m) \in 0..(m - 1)
        BY <4>1, AttrBehind
      <4> QED BY <4>2
    <3> QED BY <3>1 DEF AttrsWritten, TagAttr
  <2>2. x.parent # 0 => new[x.parent] = nd[x.parent]
    <3>1. x.parent # 0 => x.parent \in 1..N
      BY <1>2
    <3> QED BY <3>1, <1>3
  <2>3. x.parent \in 0..((N + 1) - 1)
    BY <1>2
  <2> QED BY <2>1, <2>2, <2>3, <1>1, <1>3 DEF NodeOK
<1>9. \A i \in 1..Len(new) : NodeOK(new, i, s, n + 1)
  BY <1>4, <1>7, <1>8
<1>10. \A i, j \in 1..Len(new) : new[i].at = new[j].at => i = j
  <2>1. \A i, j \in 1..N : nd[i].at = nd[j].at => i = j
    BY <1>2 DEF TreeOK
  <2>2. \A i \in 1..N : nd[i].at # n + 1
    BY <1>6
  <2> QED BY <2>1, <2>2, <1>3, <1>4
<1>11. \A k \in 1..(n + 1) : s[k].t \in {"stag", "cdata"} => \E i \in 1..Len(new) : new[i].at = k
  <2>1. \A k \in 1..n : s[k].t \in {"stag", "cdata"} => \E i \in 1..N : nd[i].at = k
    BY <1>2 DEF TreeOK
  <2>2. N + 1 \in 1..Len(new) /\ \A i \in 1..N : i \in 1..Len(new)
    BY <1>2, <1>3
  <2> QED BY <2>1, <2>2, <1>1, <1>3
<1> QED BY <1>3, <1>9, <1>10, <1>11 DEF TreeOK

\* An attribute of a tag goes to the innermost open element.
Marked(nd, new, c, a) ==
  /\ new \in Seq(NodeRec) /\ Len(new) = Len(nd)
  /\ \A i \in 1..Len(nd) :
       /\ new[i].kind = nd[i].kind /\ new[i].name = nd[i].name
       /\ new[i].parent = nd[i].parent /\ new[i].at = nd[i].at
       /\ new[i].attrs = IF i = c THEN nd[i].attrs \cup {a} ELSE nd[i].attrs

LEMMA TreeMarked ==
  ASSUME NEW s \in Seq(Pieces), NEW n \in 0..(Len(s) - 1), NEW nd, TreeOK(nd, s, n),
         TagAttr(s, n + 1), NEW new, NEW c \in 1..Len(nd), Marked(nd, new, c, s[n + 1].name),
         nd[c].at = Enclosing(s, n + 1)
  PROVE  TreeOK(new, s, n + 1)
<1>1. n \in Nat /\ \A k \in 1..(n + 1) : k = n + 1 \/ k \in 1..n
  OBVIOUS
<1>2. /\ \A i \in 1..Len(nd) : NodeOK(nd, i, s, n)
      /\ \A i, j \in 1..Len(nd) : nd[i].at = nd[j].at => i = j
      /\ \A k \in 1..n : s[k].t \in {"stag", "cdata"} => \E i \in 1..Len(nd) : nd[i].at = k
  BY DEF TreeOK
<1>3. /\ new \in Seq(NodeRec) /\ Len(new) = Len(nd)
      /\ \A i \in 1..Len(nd) :
           /\ new[i].kind = nd[i].kind /\ new[i].name = nd[i].name
           /\ new[i].parent = nd[i].parent /\ new[i].at = nd[i].at
           /\ new[i].attrs = IF i = c THEN nd[i].attrs \cup {s[n + 1].name} ELSE nd[i].attrs
  BY DEF Marked
<1>4. ASSUME NEW i \in 1..Len(new) PROVE NodeOK(new, i, s, n + 1)
  <2>1. NodeOK(nd, i, s, n) /\ i \in 1..Len(nd)
    BY <1>2, <1>3
  <2>2. nd[i].at \in 1..n /\ nd[i].at \in 1..(n + 1)
    BY <2>1, <1>1 DEF NodeOK
  <2>3. AttrsWritten(s, n + 1, nd[i].at) =
          IF Enclosing(s, n + 1) = nd[i].at
          THEN AttrsWritten(s, n, nd[i].at) \cup {s[n + 1].name} ELSE AttrsWritten(s, n, nd[i].at)
    BY <1>1, AttrsOver
  <2>4. Enclosing(s, n + 1) = nd[i].at <=> i = c
    BY <2>1, <1>2
  <2>5. nd[i].parent # 0 => new[nd[i].parent].at = nd[nd[i].parent].at
    <3>1. nd[i].parent # 0 => nd[i].parent \in 1..Len(nd)
      <4>1. nd[i].parent \in 0..(i - 1) /\ Len(nd) \in Nat
        BY <2>1 DEF NodeOK, TreeOK
      <4> QED BY <4>1, <2>1
    <3> QED BY <3>1, <1>3
  <2>6. nd[i].kind = "element" => new[i].attrs = AttrsWritten(s, n + 1, nd[i].at)
    BY <2>1, <2>3, <2>4, <1>3 DEF NodeOK
  <2> QED BY <2>1, <2>2, <2>5, <2>6, <1>3 DEF NodeOK
<1>5. \A i, j \in 1..Len(new) : new[i].at = new[j].at => i = j
  BY <1>2, <1>3
<1>6. \A k \in 1..(n + 1) : s[k].t \in {"stag", "cdata"} => \E i \in 1..Len(new) : new[i].at = k
  <2>1. s[n + 1].t \notin {"stag", "cdata"}
    BY DEF TagAttr
  <2> SUFFICES ASSUME NEW k \in 1..(n + 1), s[k].t \in {"stag", "cdata"}
               PROVE  \E i \in 1..Len(new) : new[i].at = k
    OBVIOUS
  <2>2. k \in 1..n
    BY <2>1, <1>1
  <2>3. PICK i \in 1..Len(nd) : nd[i].at = k
    BY <2>2, <1>2
  <2> QED BY <2>3, <1>3
<1> QED BY <1>3, <1>4, <1>5, <1>6 DEF TreeOK
----------------------------------------------------------------------------
(* The steps of the parser.                                                *)

LEMMA ParserStarts == XmlInit => ParserInv
<1> SUFFICES ASSUME XmlInit PROVE ParserInv
  OBVIOUS
<1>1. seen = <<>> /\ look = FALSE /\ phase = "start" /\ state = "E_ELEMENT" /\ stack = <<>>
      /\ cur = 0 /\ nodes = <<>> /\ verdict = "none"
  BY DEF XmlInit
<1>2. seen \in Seq(Pieces) /\ Len(seen) = 0 /\ stack \in Seq(XmlNames) /\ Len(stack) = 0
      /\ nodes \in Seq(NodeRec) /\ Len(nodes) = 0
  BY <1>1
<1>3. \A x \in 1..0 : FALSE
  OBVIOUS
<1>4. Branch(nodes, <<>>, cur, stack, seen, 0)
  <2>1. <<>> \in Seq(1..Len(nodes)) /\ Len(<<>>) = 0 /\ 0 + 1 = 1
    OBVIOUS
  <2>2. Depth(seen, 1) = 0
    BY <1>2, DepthIs
  <2> QED BY <2>1, <2>2, <1>1, <1>2, <1>3 DEF Branch
<1>5. TreeOK(nodes, seen, 0)
  BY <1>2, <1>3 DEF TreeOK
<1>6. InProlog(phase, state, stack, nodes, seen, 0)
  BY <1>1, <1>3 DEF InProlog
<1>7. Waits(seen, nodes, cur, stack, phase, state)
  BY <1>2, <1>3, <1>4, <1>5, <1>6 DEF Waits, Kept, Stands
<1> QED BY <1>1, <1>2, <1>7 DEF ParserInv, Judged

LEMMA StandsSame ==
  ASSUME NEW s, NEW t, NEW n, Same(s, t, n), NEW ph, NEW sta, NEW st, NEW nd, NEW x,
         Stands(ph, sta, st, nd, s, n, "none")
  PROVE  Stands(ph, sta, st, nd, t, n, x)
<1>1. n \in Nat /\ \A k \in 1..n : s[k] = t[k]
  BY DEF Same
<1>2. n + 1 \in 1..(n + 1)
  BY <1>1
<1>3. /\ Inside(s, n + 1) <=> Inside(t, n + 1)
      /\ BehindName(s, n + 1) <=> BehindName(t, n + 1)
      /\ Rooted(s, n + 1) <=> Rooted(t, n + 1)
      /\ GreaterBefore(s, n + 1) <=> GreaterBefore(t, n + 1)
  BY <1>2, SameTags
<1>4. CASE InProlog(ph, sta, st, nd, s, n)
  BY <1>1, <1>4 DEF InProlog, Stands
<1>5. CASE BeforeRoot(ph, sta, st, nd, s, n, "none")
  BY <1>3, <1>5 DEF BeforeRoot, Stands
<1>6. CASE InStartTag(ph, sta, st, s, n)
  BY <1>3, <1>6 DEF InStartTag, Stands
<1>7. CASE AtTagPiece(ph, sta, st, s, n, "none")
  BY <1>7 DEF AtTagPiece
<1>8. CASE InContent(ph, sta, st, s, n)
  BY <1>3, <1>8 DEF InContent, Stands
<1>9. CASE AtMarkup(ph, sta, s, n, "none")
  BY <1>9 DEF AtMarkup
<1> QED BY <1>4, <1>5, <1>6, <1>7, <1>8, <1>9 DEF Stands

LEMMA ParserLooks ==
  ASSUME ParserInv, LookAhead
  PROVE  ParserInv'
<1>1. PICK p \in Pieces : seen' = Append(seen, p)
  BY DEF LookAhead
<1>2. /\ ~look /\ look' = TRUE /\ verdict = "none" /\ verdict' = verdict /\ phase' = phase
      /\ state' = state /\ stack' = stack /\ cur' = cur /\ nodes' = nodes
  BY DEF LookAhead, Running
<1>3. PICK s \in Seq(Pieces) : s = seen
  BY DEF ParserInv
<1>4. PICK t : t = Append(s, p)
  OBVIOUS
<1>5. t \in Seq(Pieces) /\ Len(t) = Len(s) + 1 /\ Len(s) \in Nat /\ \A k \in 1..Len(s) : t[k] = s[k]
  BY <1>4
<1>6. PICK n \in Nat : n = Len(s) /\ Len(t) = n + 1
  BY <1>5
<1>7. Same(s, t, n)
  BY <1>5, <1>6 DEF Same
<1>8. /\ Kept(s, n, nodes, cur, stack) /\ Stands(phase, state, stack, nodes, s, n, "none")
      /\ stack \in Seq(XmlNames)
  BY <1>2, <1>3, <1>6 DEF ParserInv, Waits
<1>9. \A i \in 1..n : MayStand(t, i)
  BY <1>7, <1>8, SameMay DEF Kept
<1>10. PICK path : Branch(nodes, path, cur, stack, s, n)
  BY <1>8 DEF Kept
<1>11. Branch(nodes, path, cur, stack, t, n)
  BY <1>7, <1>8, <1>10, BranchSame
<1>12. TreeOK(nodes, t, n)
  <2>1. TreeOK(nodes, s, n)
    BY <1>8 DEF Kept
  <2> QED BY <2>1, <1>7, TreeSame
<1>13. Stands(phase, state, stack, nodes, t, n, t[Len(t)].t)
  BY <1>7, <1>8, StandsSame
<1>14. Kept(t, n, nodes, cur, stack)
  BY <1>9, <1>11, <1>12 DEF Kept
<1>15. Looks(t, nodes, cur, stack, phase, state)
  <2>1. Len(t) > 0 /\ Len(t) - 1 = n
    BY <1>6
  <2> QED BY <2>1, <1>13, <1>14 DEF Looks
<1>16. seen' = t
  BY <1>1, <1>3, <1>4
<1> QED BY <1>2, <1>5, <1>8, <1>15, <1>16 DEF ParserInv, Judged
\* What is known in front of piece i, the next one.
Current(s, i, nd, c, st) ==
  /\ c \in 0..Len(nd) /\ (c = 0 <=> st = <<>>)
  /\ Depth(s, i) = Len(st) /\ (Depth(s, i) > 0 <=> st # <<>>)
  /\ Enclosing(s, i) = IF c = 0 THEN 0 ELSE nd[c].at
  /\ st # <<>> => /\ nd[c].kind = "element" /\ nd[c].at \in 1..(i - 1)
                  /\ s[nd[c].at].t = "stag" /\ s[nd[c].at].name = Head(st)
  /\ Rooted(s, i) <=> \E k \in DOMAIN nd : nd[k].kind = "element"
  /\ nd = <<>> => ~Rooted(s, i)
  /\ Inside(s, i) => Rooted(s, i)
  /\ BehindName(s, i) => Inside(s, i)
  /\ Rooted(s, i) => i # 1

LEMMA Here ==
  ASSUME NEW s \in Seq(Pieces), NEW i \in 1..Len(s), NEW nd, NEW c, NEW st \in Seq(XmlNames),
         Kept(s, i - 1, nd, c, st)
  PROVE  Current(s, i, nd, c, st)
<1>1. i - 1 \in 0..Len(s) /\ (i - 1) + 1 = i /\ i \in Nat \ {0}
  OBVIOUS
<1>2. PICK n : n = i - 1
  OBVIOUS
<1>3. PICK path : Branch(nd, path, c, st, s, n)
  BY <1>2 DEF Kept
<1>4. nd \in Seq(NodeRec) /\ TreeOK(nd, s, n)
  BY <1>2 DEF Kept, TreeOK
<1>5. n \in 0..Len(s) /\ n + 1 = i /\ n \in Nat
  BY <1>1, <1>2
<1>6. /\ c \in 0..Len(nd) /\ (c = 0 <=> st = <<>>) /\ Depth(s, n + 1) = Len(st)
      /\ Depth(s, n + 1) > 0 <=> st # <<>>
      /\ Enclosing(s, n + 1) = IF c = 0 THEN 0 ELSE nd[c].at
      /\ st # <<>> => /\ nd[c].kind = "element" /\ nd[c].at \in 1..n
                      /\ s[nd[c].at].t = "stag" /\ s[nd[c].at].name = Head(st)
  BY <1>3, <1>4, <1>5, BranchTop
<1>7. (Inside(s, i) => Rooted(s, i)) /\ (BehindName(s, i) => Inside(s, i))
  BY <1>1, InsideNext
<1>8. Rooted(s, i) <=> \E k \in DOMAIN nd : nd[k].kind = "element"
  <2>1. ASSUME NEW k \in 1..n, s[k].t = "stag" PROVE \E j \in DOMAIN nd : nd[j].kind = "element"
    <3>1. PICK j \in 1..Len(nd) : nd[j].at = k
      BY <1>4, <2>1 DEF TreeOK
    <3>2. NodeOK(nd, j, s, n)
      BY <1>4 DEF TreeOK
    <3>3. nd[j].kind = "element"
      BY <3>1, <3>2, <2>1 DEF NodeOK, KindOf
    <3> QED BY <3>3, <1>4
  <2>2. ASSUME NEW j \in DOMAIN nd, nd[j].kind = "element" PROVE \E k \in 1..n : s[k].t = "stag"
    <3>1. NodeOK(nd, j, s, n)
      BY <1>4 DEF TreeOK
    <3>2. nd[j].at \in 1..n /\ s[nd[j].at].t = "stag"
      BY <3>1, <2>2 DEF NodeOK, KindOf
    <3> QED BY <3>2
  <2> QED BY <2>1, <2>2, <1>2 DEF Rooted, Opens
<1>9. nd = <<>> => ~Rooted(s, i)
  BY <1>8
<1>10. Rooted(s, i) => i # 1
  BY <1>1 DEF Rooted
<1> QED BY <1>2, <1>5, <1>6, <1>7, <1>8, <1>9, <1>10 DEF Current

\* All pieces in front of i may stand there, and i may.
LEMMA MayFurther ==
  ASSUME NEW s, NEW i \in Nat \ {0}, NEW nd, NEW c, NEW st, Kept(s, i - 1, nd, c, st), MayStand(s, i)
  PROVE  \A k \in 1..i : MayStand(s, k)
<1>1. \A k \in 1..i : k = i \/ k \in 1..(i - 1)
  OBVIOUS
<1> QED BY <1>1 DEF Kept

LEMMA KeptOver ==
  ASSUME NEW s \in Seq(Pieces), NEW i \in 1..Len(s), NEW nd, NEW c, NEW st \in Seq(XmlNames),
         Kept(s, i - 1, nd, c, st), MayStand(s, i),
         s[i].t \notin {"stag", "cdata", "etag"}, s[i].t \in {"attr", "empty"} => ~Inside(s, i)
  PROVE  Kept(s, i, nd, c, st)
<1>1. PICK n : n = i - 1
  OBVIOUS
<1>2. n \in 0..(Len(s) - 1) /\ n + 1 = i /\ i \in Nat \ {0}
  BY <1>1
<1>3. \A k \in 1..i : MayStand(s, k)
  BY <1>2, MayFurther
<1>4. PICK path : Branch(nd, path, c, st, s, n)
  BY <1>1 DEF Kept
<1>5. TreeOK(nd, s, n)
  BY <1>1 DEF Kept
<1>6. NodesKept(nd, nd)
  BY <1>5 DEF TreeOK, NodesKept
<1>7. ~Opens(s, n + 1) /\ ~Closes(s, n + 1) /\ ~TagAttr(s, n + 1) /\ s[n + 1].t \notin {"stag", "cdata"}
  BY <1>2 DEF Opens, Closes, TagAttr
<1>8. Branch(nd, path, c, st, s, n + 1)
  BY <1>2, <1>4, <1>6, <1>7, BranchOver
<1>9. TreeOK(nd, s, n + 1)
  BY <1>2, <1>5, <1>7, TreeOver
<1> QED BY <1>2, <1>3, <1>8, <1>9 DEF Kept

\* XmlNodeAppendChild of a new node.
WrittenNode(kind, name, c, i) ==
  [kind |-> kind, name |-> name, parent |-> c, attrs |-> {}, at |-> i]

IsWrittenNode(x, kind, name, c, i) ==
  /\ x \in NodeRec /\ x.kind = kind /\ x.name = name /\ x.parent = c
  /\ x.attrs = {} /\ x.at = i

LEMMA WrittenNodeIs ==
  ASSUME NEW kind \in {"element", "text", "cdata"}, NEW name \in XmlNames \cup {"-"},
         NEW c \in Nat, NEW i \in Nat
  PROVE  IsWrittenNode(WrittenNode(kind, name, c, i), kind, name, c, i)
BY DEF WrittenNode, NodeRec, IsWrittenNode

\* Another attribute on a node.
MarkedNode(x, a) == [x EXCEPT !.attrs = @ \cup {a}]

LEMMA MarkedNodeIs ==
  ASSUME NEW x \in NodeRec, NEW a \in XmlAttrNames
  PROVE  LET y == MarkedNode(x, a)
         IN  /\ y \in NodeRec /\ y.kind = x.kind /\ y.name = x.name /\ y.parent = x.parent
             /\ y.at = x.at /\ y.attrs = x.attrs \cup {a}
BY DEF MarkedNode, NodeRec

LEMMA GrownIs ==
  ASSUME NEW nd \in Seq(NodeRec), NEW x \in NodeRec
  PROVE  Grown(nd, Append(nd, x), x) /\ NodesKept(nd, Append(nd, x))
<1>1. PICK new : new = Append(nd, x)
  OBVIOUS
<1>2. /\ new \in Seq(NodeRec) /\ Len(new) = Len(nd) + 1 /\ new[Len(nd) + 1] = x /\ Len(nd) \in Nat
      /\ \A i \in 1..Len(nd) : new[i] = nd[i]
  BY <1>1
<1>3. Grown(nd, new, x)
  BY <1>2 DEF Grown
<1>4. NodesKept(nd, new)
  BY <1>2 DEF NodesKept
<1> QED BY <1>1, <1>3, <1>4

LEMMA KeptGrows ==
  ASSUME NEW s \in Seq(Pieces), NEW i \in 1..Len(s), NEW nd, NEW c, NEW st \in Seq(XmlNames),
         Kept(s, i - 1, nd, c, st), MayStand(s, i),
         s[i].t \in TextPieces \cup {"cdata"}, ~Inside(s, i), NEW kind, kind = KindOf(s[i].t)
  PROVE  Kept(s, i, Append(nd, WrittenNode(kind, "-", c, i)), c, st)
<1>1. PICK n : n = i - 1
  OBVIOUS
<1>2. n \in 0..(Len(s) - 1) /\ n + 1 = i /\ i \in Nat \ {0} /\ i \in Nat
  BY <1>1
<1>3. \A k \in 1..i : MayStand(s, k)
  BY <1>2, MayFurther
<1>4. PICK path : Branch(nd, path, c, st, s, n)
  BY <1>1 DEF Kept
<1>5. TreeOK(nd, s, n) /\ nd \in Seq(NodeRec)
  BY <1>1 DEF Kept, TreeOK
<1>6. Current(s, i, nd, c, st)
  BY Here
<1>7. ~Opens(s, n + 1) /\ ~Closes(s, n + 1) /\ ~TagAttr(s, n + 1)
  BY <1>2 DEF Opens, Closes, TagAttr, TextPieces
<1>8. PICK x : x = WrittenNode(kind, "-", c, i)
  OBVIOUS
<1>9. PICK new : new = Append(nd, x)
  OBVIOUS
<1>10. kind \in {"element", "text", "cdata"} /\ "-" \in XmlNames \cup {"-"} /\ c \in Nat
  BY <1>6 DEF Current, KindOf
<1>11. /\ x \in NodeRec /\ x.kind = kind /\ x.parent = c /\ x.attrs = {} /\ x.at = n + 1
  <2>1. IsWrittenNode(x, kind, "-", c, i)
    BY <1>2, <1>8, <1>10, WrittenNodeIs, Zenon
  <2> QED BY <2>1, <1>2 DEF IsWrittenNode
<1>12. Grown(nd, new, x) /\ NodesKept(nd, new)
  BY <1>5, <1>9, <1>11, GrownIs
<1>13. Branch(new, path, c, st, s, n + 1)
  BY <1>2, <1>4, <1>7, <1>12, BranchOver
<1>14. TreeOK(new, s, n + 1)
  <2>1. /\ x.parent \in 0..Len(nd) /\ x.kind = KindOf(s[n + 1].t)
        /\ Enclosing(s, n + 1) = IF x.parent = 0 THEN 0 ELSE nd[x.parent].at
    BY <1>2, <1>6, <1>11 DEF Current
  <2> QED BY <2>1, <1>2, <1>5, <1>7, <1>11, <1>12, TreeGrows
<1>15. Kept(s, i, new, c, st)
  BY <1>2, <1>3, <1>13, <1>14 DEF Kept
<1> QED BY <1>8, <1>9, <1>15

LEMMA KeptPush ==
  ASSUME NEW s \in Seq(Pieces), NEW i \in 1..Len(s), NEW nd, NEW c, NEW st \in Seq(XmlNames),
         Kept(s, i - 1, nd, c, st), MayStand(s, i), s[i].t = "stag"
  PROVE  /\ Kept(s, i, Append(nd, WrittenNode("element", s[i].name, c, i)), Len(nd) + 1, <<s[i].name>> \o st)
         /\ <<s[i].name>> \o st \in Seq(XmlNames) /\ <<s[i].name>> \o st # <<>>
<1>1. PICK n : n = i - 1
  OBVIOUS
<1>2. n \in 0..(Len(s) - 1) /\ n + 1 = i /\ i \in Nat \ {0} /\ i \in Nat
  BY <1>1
<1>3. \A k \in 1..i : MayStand(s, k)
  BY <1>2, MayFurther
<1>4. PICK path : Branch(nd, path, c, st, s, n)
  BY <1>1 DEF Kept
<1>5. TreeOK(nd, s, n) /\ nd \in Seq(NodeRec)
  BY <1>1 DEF Kept, TreeOK
<1>6. Current(s, i, nd, c, st)
  BY Here
<1>7. PICK name \in XmlNames : name = s[i].name
  <2>1. s[i] \in Pieces
    OBVIOUS
  <2>2. s[i].name \in XmlNames
    BY <2>1 DEF Pieces, Bare
  <2> QED BY <2>2
<1>8. PICK x : x = WrittenNode("element", name, c, i)
  OBVIOUS
<1>9. PICK new : new = Append(nd, x)
  OBVIOUS
<1>10. "element" \in {"element", "text", "cdata"} /\ name \in XmlNames \cup {"-"} /\ c \in Nat
  BY <1>6 DEF Current
<1>11. x \in NodeRec /\ x.kind = "element" /\ x.name = name /\ x.parent = c /\ x.attrs = {} /\ x.at = n + 1
  <2>1. IsWrittenNode(x, "element", name, c, i)
    BY <1>2, <1>8, <1>10, WrittenNodeIs, Zenon
  <2> QED BY <2>1, <1>2 DEF IsWrittenNode
<1>12. Grown(nd, new, x) /\ NodesKept(nd, new)
  BY <1>5, <1>9, <1>11, GrownIs
<1>13. Len(new) = Len(nd) + 1 /\ new[Len(new)] = x
  BY <1>12 DEF Grown
<1>14. Branch(new, <<Len(new)>> \o path, Len(new), <<name>> \o st, s, n + 1)
  <2>1. /\ s[n + 1].t = "stag" /\ name = s[n + 1].name
        /\ new[Len(new)].kind = "element" /\ new[Len(new)].name = name
        /\ new[Len(new)].parent = c /\ new[Len(new)].at = n + 1
    BY <1>2, <1>7, <1>11, <1>13
  <2> QED BY <2>1, <1>2, <1>4, <1>12, <1>13, BranchPush
<1>15. TreeOK(new, s, n + 1)
  <2>1. /\ x.parent \in 0..Len(nd) /\ x.kind = KindOf(s[n + 1].t) /\ ~TagAttr(s, n + 1)
        /\ Enclosing(s, n + 1) = IF x.parent = 0 THEN 0 ELSE nd[x.parent].at
    BY <1>2, <1>6, <1>11 DEF Current, KindOf, TagAttr
  <2> QED BY <2>1, <1>2, <1>5, <1>11, <1>12, TreeGrows
<1>16. Kept(s, i, new, Len(nd) + 1, <<name>> \o st)
  BY <1>2, <1>3, <1>13, <1>14, <1>15 DEF Kept
<1>17. <<name>> \o st \in Seq(XmlNames) /\ Consed(<<name>> \o st, name, st)
  BY ConsIs, Zenon
<1>18. <<name>> \o st # <<>>
  <2>1. PICK q \in Seq(XmlNames) : q = <<name>> \o st
    BY <1>17
  <2>2. Len(q) = Len(st) + 1 /\ Len(st) \in Nat
    BY <2>1, <1>17 DEF Consed
  <2>3. q # <<>>
    BY <2>2
  <2> QED BY <2>1, <2>3
<1> QED BY <1>7, <1>8, <1>9, <1>16, <1>17, <1>18

LEMMA KeptPop ==
  ASSUME NEW s \in Seq(Pieces), NEW i \in 1..Len(s), NEW nd, NEW c, NEW st \in Seq(XmlNames),
         Kept(s, i - 1, nd, c, st), MayStand(s, i), Closes(s, i), st # <<>>
  PROVE  Kept(s, i, nd, nd[c].parent, Tail(st)) /\ Tail(st) \in Seq(XmlNames)
<1>1. PICK n : n = i - 1
  OBVIOUS
<1>2. n \in 0..(Len(s) - 1) /\ n + 1 = i /\ i \in Nat \ {0} /\ i \in Nat
  BY <1>1
<1>3. \A k \in 1..i : MayStand(s, k)
  BY <1>2, MayFurther
<1>4. PICK path : Branch(nd, path, c, st, s, n)
  BY <1>1 DEF Kept
<1>5. TreeOK(nd, s, n) /\ nd \in Seq(NodeRec)
  BY <1>1 DEF Kept, TreeOK
<1>6. Branch(nd, Tail(path), nd[c].parent, Tail(st), s, n + 1)
  BY <1>2, <1>4, <1>5, BranchPop
<1>7. s[n + 1].t \notin {"stag", "cdata"} /\ ~TagAttr(s, n + 1)
  BY <1>2 DEF Closes, TagAttr
<1>8. TreeOK(nd, s, n + 1)
  BY <1>2, <1>5, <1>7, TreeOver
<1>9. Tail(st) \in Seq(XmlNames)
  BY TailIs, Zenon
<1> QED BY <1>2, <1>3, <1>6, <1>8, <1>9 DEF Kept

LEMMA KeptMarked ==
  ASSUME NEW s \in Seq(Pieces), NEW i \in 1..Len(s), NEW nd, NEW c, NEW st \in Seq(XmlNames),
         Kept(s, i - 1, nd, c, st), MayStand(s, i), s[i].t = "attr", Inside(s, i), st # <<>>,
         NEW new, new = [nd EXCEPT ![c].attrs = @ \cup {s[i].name}]
  PROVE  Kept(s, i, new, c, st)
<1>1. PICK n : n = i - 1
  OBVIOUS
<1>2. n \in 0..(Len(s) - 1) /\ n + 1 = i /\ i \in Nat \ {0} /\ i \in Nat
  BY <1>1
<1>3. \A k \in 1..i : MayStand(s, k)
  BY <1>2, MayFurther
<1>4. PICK path : Branch(nd, path, c, st, s, n)
  BY <1>1 DEF Kept
<1>5. TreeOK(nd, s, n) /\ nd \in Seq(NodeRec)
  BY <1>1 DEF Kept, TreeOK
<1>6. Current(s, i, nd, c, st)
  BY Here
<1>7. c \in 1..Len(nd) /\ nd[c].at = Enclosing(s, n + 1)
  BY <1>2, <1>6 DEF Current
<1>8. PICK a \in XmlAttrNames : a = s[i].name
  <2>1. s[i] \in Pieces
    OBVIOUS
  <2>2. s[i].name \in XmlAttrNames
    BY <2>1 DEF Pieces, Bare
  <2> QED BY <2>2
<1>9. Marked(nd, new, c, a)
  <2>1. \A j \in 1..Len(nd) : nd[j] \in NodeRec
    BY <1>5
  <2>2. Len(new) = Len(nd) /\ \A j \in 1..Len(nd) : j # c => new[j] = nd[j]
    BY <1>5, <1>7
  <2>3. new[c] = MarkedNode(nd[c], a)
    <3>1. c \in DOMAIN nd
      BY <1>5, <1>7
    <3> QED BY <3>1, <1>8, Zenon DEF MarkedNode
  <2>4. /\ new[c] \in NodeRec /\ new[c].kind = nd[c].kind /\ new[c].name = nd[c].name
        /\ new[c].parent = nd[c].parent /\ new[c].at = nd[c].at
        /\ new[c].attrs = nd[c].attrs \cup {a}
    <3>1. nd[c] \in NodeRec
      BY <2>1, <1>7
    <3>2. PICK x \in NodeRec : x = nd[c]
      BY <3>1
    <3>3. PICK y : y = MarkedNode(x, a)
      OBVIOUS
    <3>4. /\ y \in NodeRec /\ y.kind = x.kind /\ y.name = x.name /\ y.parent = x.parent
          /\ y.at = x.at /\ y.attrs = x.attrs \cup {a}
      BY <3>3, MarkedNodeIs
    <3> QED BY <2>3, <3>2, <3>3, <3>4
  <2>5. new \in Seq(NodeRec)
    BY <2>1, <2>2, <2>4, <1>5, <1>7
  <2>6. ASSUME NEW j \in 1..Len(nd)
        PROVE  /\ new[j].kind = nd[j].kind /\ new[j].name = nd[j].name
               /\ new[j].parent = nd[j].parent /\ new[j].at = nd[j].at
               /\ new[j].attrs = IF j = c THEN nd[j].attrs \cup {a} ELSE nd[j].attrs
    <3>1. CASE j = c
      BY <3>1, <2>4
    <3>2. CASE j # c
      BY <3>2, <2>2
    <3> QED BY <3>1, <3>2
  <2>7. Len(new) = Len(nd)
    BY <2>2
  <2> QED BY <2>5, <2>6, <2>7 DEF Marked
<1>10. NodesKept(nd, new)
  BY <1>5, <1>9 DEF Marked, NodesKept
<1>11. ~Opens(s, n + 1) /\ ~Closes(s, n + 1) /\ TagAttr(s, n + 1)
  BY <1>2 DEF Opens, Closes, TagAttr
<1>12. Branch(new, path, c, st, s, n + 1)
  BY <1>2, <1>4, <1>10, <1>11, BranchOver
<1>13. TreeOK(new, s, n + 1)
  <2>1. Marked(nd, new, c, s[n + 1].name)
    BY <1>2, <1>8, <1>9
  <2> QED BY <2>1, <1>2, <1>5, <1>7, <1>11, TreeMarked
<1> QED BY <1>2, <1>3, <1>12, <1>13 DEF Kept
\* The parser looks at piece i of the text, the last one.
AtPiece(i) ==
  /\ i = Len(seen) /\ i \in Nat \ {0} /\ i \in 1..Len(seen) /\ seen \in Seq(Pieces)
  /\ stack \in Seq(XmlNames) /\ look = TRUE
  /\ Kept(seen, i - 1, nodes, cur, stack)
  /\ Stands(phase, state, stack, nodes, seen, i - 1, seen[i].t)
  /\ Current(seen, i, nodes, cur, stack)
  /\ Piece = seen[i].t /\ PieceName = seen[i].name /\ (i - 1) + 1 = i

LEMMA Looking ==
  ASSUME ParserInv, look
  PROVE  \E i : AtPiece(i)
<1>1. look = TRUE /\ seen \in Seq(Pieces) /\ stack \in Seq(XmlNames)
  BY DEF ParserInv
<1>2. Looks(seen, nodes, cur, stack, phase, state)
  BY DEF ParserInv
<1>3. PICK i : i = Len(seen)
  OBVIOUS
<1>4. i \in Nat \ {0} /\ i \in 1..Len(seen) /\ (i - 1) + 1 = i
  BY <1>1, <1>2, <1>3 DEF Looks
<1>5. /\ Kept(seen, i - 1, nodes, cur, stack)
      /\ Stands(phase, state, stack, nodes, seen, i - 1, seen[i].t)
  BY <1>2, <1>3 DEF Looks
<1>6. Current(seen, i, nodes, cur, stack)
  BY <1>1, <1>4, <1>5, Here
<1>7. Piece = seen[i].t /\ PieceName = seen[i].name
  BY <1>1, <1>3 DEF Piece, PieceName, Last
<1> QED BY <1>1, <1>3, <1>4, <1>5, <1>6, <1>7 DEF AtPiece

\* The three ways a step ends: the piece is consumed, it is left, the parse
\* is over.
LEMMA Consumed ==
  ASSUME NEW i, AtPiece(i), seen' = seen, look' = FALSE, verdict = "none", verdict' = verdict,
         stack' \in Seq(XmlNames), Kept(seen, i, nodes', cur', stack'),
         Stands(phase', state', stack', nodes', seen, i, "none")
  PROVE  ParserInv'
<1>1. i = Len(seen) /\ seen \in Seq(Pieces)
  BY DEF AtPiece
<1>2. Waits(seen, nodes', cur', stack', phase', state')
  BY <1>1 DEF Waits
<1>3. Judged(verdict', seen', stack')
  BY DEF Judged
<1> QED BY <1>1, <1>2, <1>3 DEF ParserInv

LEMMA Left ==
  ASSUME NEW i, AtPiece(i), seen' = seen, look' = look, verdict = "none", verdict' = verdict,
         stack' = stack, nodes' = nodes, cur' = cur,
         Stands(phase', state', stack, nodes, seen, i - 1, seen[i].t)
  PROVE  ParserInv'
<1>1. /\ i = Len(seen) /\ seen \in Seq(Pieces) /\ i \in Nat \ {0} /\ look = TRUE
      /\ stack \in Seq(XmlNames) /\ Kept(seen, i - 1, nodes, cur, stack)
  BY DEF AtPiece
<1>2. Looks(seen, nodes, cur, stack, phase', state')
  BY <1>1 DEF Looks
<1>3. Judged(verdict', seen', stack')
  BY DEF Judged
<1> QED BY <1>1, <1>2, <1>3 DEF ParserInv

LEMMA Stopped ==
  ASSUME NEW i, AtPiece(i), seen' = seen, look' = look, phase' = phase, state' = state,
         stack' = stack, nodes' = nodes, cur' = cur, NEW v, verdict' = v,
         v = "ok" => seen[i].t = "eof" /\ stack = <<>> /\ MayStand(seen, i),
         v = "error" => ~MayStand(seen, i),
         v = "crash" => seen[i].t = "etag" /\ Depth(seen, i) = 0
  PROVE  ParserInv'
<1>1. /\ i = Len(seen) /\ seen \in Seq(Pieces) /\ i \in Nat \ {0} /\ look = TRUE
      /\ stack \in Seq(XmlNames) /\ Kept(seen, i - 1, nodes, cur, stack)
      /\ Stands(phase, state, stack, nodes, seen, i - 1, seen[i].t)
  BY DEF AtPiece
<1>2. Looks(seen, nodes, cur, stack, phase', state')
  BY <1>1 DEF Looks
<1>3. Judged(verdict', seen', stack')
  BY <1>1 DEF Judged
<1> QED BY <1>1, <1>2, <1>3 DEF ParserInv

LEMMA ParserSkipsProlog ==
  ASSUME ParserInv, XMLParserSkipProlog
  PROVE  ParserInv'
<1>1. /\ look /\ verdict = "none" /\ phase \in {"start", "misc", "misc2"}
      /\ seen' = seen /\ state' = state /\ stack' = stack /\ cur' = cur /\ nodes' = nodes
  BY DEF XMLParserSkipProlog, Running
<1>2. PICK i : AtPiece(i)
  BY <1>1, Looking
<1>3. PICK t : t = seen[i].t
  OBVIOUS
<1>4. /\ i \in Nat \ {0} /\ i \in 1..Len(seen) /\ seen \in Seq(Pieces) /\ stack \in Seq(XmlNames)
      /\ Kept(seen, i - 1, nodes, cur, stack) /\ Piece = t /\ look = TRUE
  BY <1>2, <1>3 DEF AtPiece
<1>5. InProlog(phase, state, stack, nodes, seen, i - 1)
  BY <1>1, <1>2 DEF AtPiece, Stands, BeforeRoot, InStartTag, AtTagPiece, InContent, AtMarkup
<1>6. /\ state = "E_ELEMENT" /\ stack = <<>> /\ nodes = <<>>
      /\ \A k \in 1..(i - 1) : seen[k].t \in MiscPieces \cup {"decl", "doctype"}
      /\ phase = "start" <=> i - 1 = 0
      /\ phase = "misc2" <=> \E k \in 1..(i - 1) : seen[k].t = "doctype"
  BY <1>5 DEF InProlog
<1>7. Depth(seen, i) = 0 /\ ~Rooted(seen, i) /\ ~Inside(seen, i) /\ cur = 0
  BY <1>2, <1>6 DEF AtPiece, Current
<1>8. ~GreaterBefore(seen, i)
  BY <1>6 DEF GreaterBefore, MiscPieces
<1>9. ASSUME t \in MiscPieces \cup {"decl", "doctype"}, MayStand(seen, i), look' = FALSE,
             verdict' = verdict, phase' \in {"misc", "misc2"},
             phase' = "misc2" <=> (phase = "misc2" \/ t = "doctype")
      PROVE  ParserInv'
  <2>1. Kept(seen, i, nodes, cur, stack)
    BY <1>3, <1>4, <1>9, KeptOver DEF MiscPieces
  <2>2. InProlog(phase', state, stack, nodes, seen, i)
    <3>1. \A k \in 1..i : k = i \/ k \in 1..(i - 1)
      BY <1>4
    <3>2. \A k \in 1..(i - 1) : k \in 1..i
      BY <1>4
    <3>3. i \in 1..i /\ i # 0
      BY <1>4
    <3>4. phase' = "misc2" <=> \E k \in 1..i : seen[k].t = "doctype"
      BY <3>1, <3>2, <3>3, <1>3, <1>6, <1>9
    <3>5. \A k \in 1..i : seen[k].t \in MiscPieces \cup {"decl", "doctype"}
      BY <3>1, <1>3, <1>6, <1>9
    <3> QED BY <3>3, <3>4, <3>5, <1>6, <1>9 DEF InProlog
  <2>3. Stands(phase', state', stack', nodes', seen, i, "none")
    BY <2>2, <1>1 DEF Stands
  <2> QED BY <2>1, <2>3, <1>1, <1>2, <1>4, <1>9, Consumed
<1>10. CASE t = "decl" /\ phase = "start"
  <2>1. look' = FALSE /\ phase' = "misc" /\ verdict' = verdict
    BY <1>4, <1>10 DEF XMLParserSkipProlog, Consume
  <2>2. MayStand(seen, i)
    BY <1>3, <1>4, <1>6, <1>10 DEF MayStand
  <2> QED BY <2>1, <2>2, <1>9, <1>10
<1>11. CASE t = "decl" /\ phase # "start"
  <2>1. verdict' = "error" /\ look' = look /\ phase' = phase
    BY <1>4, <1>11 DEF XMLParserSkipProlog, MiscPieces
  <2>2. ~MayStand(seen, i)
    BY <1>3, <1>4, <1>6, <1>11 DEF MayStand
  <2> QED BY <2>1, <2>2, <1>1, <1>2, Stopped
<1>12. CASE t \in MiscPieces
  <2>1. look' = FALSE /\ verdict' = verdict /\ phase' = IF phase = "start" THEN "misc" ELSE phase
    BY <1>4, <1>12 DEF XMLParserSkipProlog, Consume, MiscPieces
  <2>2. MayStand(seen, i)
    BY <1>3, <1>12 DEF MayStand, MiscPieces
  <2>3. t # "doctype"
    BY <1>12 DEF MiscPieces
  <2> QED BY <2>1, <2>2, <2>3, <1>1, <1>9, <1>12
<1>13. CASE t = "doctype" /\ phase # "misc2"
  <2>1. look' = FALSE /\ phase' = "misc2" /\ verdict' = verdict
    BY <1>4, <1>13 DEF XMLParserSkipProlog, Consume, MiscPieces
  <2>2. MayStand(seen, i)
    BY <1>3, <1>6, <1>7, <1>8, <1>13 DEF MayStand
  <2> QED BY <2>1, <2>2, <1>9, <1>13
<1>14. CASE /\ t \notin MiscPieces \cup {"decl"}
            /\ ~(t = "doctype" /\ phase # "misc2")
  <2>1. look' = look /\ phase' = "loop" /\ verdict' = verdict
    BY <1>4, <1>14 DEF XMLParserSkipProlog, Keep
  <2>2. t # "none"
    <3>1. seen[i] \in Pieces
      BY <1>4
    <3> QED BY <3>1, <1>3 DEF Pieces, Bare
  <2>3. BeforeRoot(phase', state, stack, nodes, seen, i - 1, t)
    BY <2>1, <2>2, <1>6, <1>14 DEF BeforeRoot
  <2>4. Stands(phase', state', stack, nodes, seen, i - 1, seen[i].t)
    BY <2>3, <1>1, <1>3 DEF Stands
  <2> QED BY <2>1, <2>4, <1>1, <1>2, Left
<1> QED BY <1>10, <1>11, <1>12, <1>13, <1>14
LEMMA ParserSkipsMisc ==
  ASSUME ParserInv, XMLParserSkipMisc
  PROVE  ParserInv'
<1>1. /\ verdict = "none" /\ Piece \in MiscPieces /\ look' = FALSE /\ verdict' = verdict
      /\ phase \in {"stag", "attr"} \/ (phase = "loop" /\ state # "E_CONTENT")
      /\ seen' = seen /\ phase' = phase /\ state' = state /\ stack' = stack /\ cur' = cur
      /\ nodes' = nodes
  BY DEF XMLParserSkipMisc, Running, Consume
<1>2. look
  BY <1>1 DEF Piece, MiscPieces, ParserInv
<1>3. PICK i : AtPiece(i)
  BY <1>2, Looking
<1>4. PICK t : t = seen[i].t
  OBVIOUS
<1>5. /\ i \in Nat \ {0} /\ i \in 1..Len(seen) /\ seen \in Seq(Pieces) /\ stack \in Seq(XmlNames)
      /\ Kept(seen, i - 1, nodes, cur, stack) /\ Piece = t /\ look = TRUE /\ (i - 1) + 1 = i
  BY <1>3, <1>4 DEF AtPiece
<1>6. t \in MiscPieces /\ t \notin {"stag", "gt", "attr"}
  BY <1>1, <1>5 DEF MiscPieces
<1>7. Kept(seen, i, nodes, cur, stack)
  <2>1. MayStand(seen, i)
    BY <1>4, <1>6 DEF MayStand, MiscPieces
  <2> QED BY <2>1, <1>4, <1>5, <1>6, KeptOver DEF MiscPieces
<1>8. /\ Inside(seen, i + 1) <=> Inside(seen, i)
      /\ BehindName(seen, i + 1) <=> BehindName(seen, i)
      /\ GreaterBefore(seen, i) => GreaterBefore(seen, i + 1)
  BY <1>4, <1>5, <1>6, InsideNext
<1>9. \/ BeforeRoot(phase, state, stack, nodes, seen, i - 1, t)
      \/ InStartTag(phase, state, stack, seen, i - 1)
  BY <1>1, <1>3, <1>4, <1>6 DEF AtPiece, Stands, InProlog, AtTagPiece, InContent, AtMarkup, MiscPieces
<1>10. Stands(phase, state, stack, nodes, seen, i, "none")
  <2>1. CASE BeforeRoot(phase, state, stack, nodes, seen, i - 1, t)
    <3>1. GreaterBefore(seen, i)
      BY <2>1, <1>5, <1>6 DEF BeforeRoot
    <3>2. BeforeRoot(phase, state, stack, nodes, seen, i, "none")
      BY <2>1, <3>1, <1>8 DEF BeforeRoot
    <3> QED BY <3>2 DEF Stands
  <2>2. CASE InStartTag(phase, state, stack, seen, i - 1)
    <3>1. InStartTag(phase, state, stack, seen, i)
      BY <2>2, <1>5, <1>8 DEF InStartTag
    <3> QED BY <3>1 DEF Stands
  <2> QED BY <2>1, <2>2, <1>9
<1> QED BY <1>1, <1>3, <1>5, <1>7, <1>10, Consumed

LEMMA ParserEnds ==
  ASSUME ParserInv, EndOfText
  PROVE  ParserInv'
<1>1. /\ Piece = "eof" /\ verdict' = IF stack = <<>> THEN "ok" ELSE "error"
      /\ seen' = seen /\ look' = look /\ phase' = phase /\ state' = state /\ stack' = stack
      /\ cur' = cur /\ nodes' = nodes
  BY DEF EndOfText, Stop
<1>2. look
  BY <1>1 DEF Piece, ParserInv
<1>3. PICK i : AtPiece(i)
  BY <1>2, Looking
<1>4. seen[i].t = "eof" /\ (Depth(seen, i) > 0 <=> stack # <<>>)
  BY <1>1, <1>3 DEF AtPiece, Current
<1>5. MayStand(seen, i) <=> stack = <<>>
  BY <1>4 DEF MayStand
<1> QED BY <1>1, <1>3, <1>4, <1>5, Stopped

LEMMA ParserReadsContent ==
  ASSUME ParserInv, ParserProcessContent
  PROVE  ParserInv'
<1>1. /\ look /\ verdict = "none" /\ phase = "loop" /\ state = "E_CONTENT" /\ Piece # "eof"
      /\ seen' = seen /\ stack' = stack /\ cur' = cur
  BY DEF ParserProcessContent, Running
<1>2. PICK i : AtPiece(i)
  BY <1>1, Looking
<1>3. PICK t : t = seen[i].t
  OBVIOUS
<1>4. /\ i = Len(seen) /\ i \in Nat \ {0} /\ i \in 1..Len(seen) /\ seen \in Seq(Pieces)
      /\ stack \in Seq(XmlNames) /\ (i - 1) + 1 = i
      /\ Kept(seen, i - 1, nodes, cur, stack) /\ Piece = t /\ look = TRUE
  BY <1>2, <1>3 DEF AtPiece
<1>5. ~Inside(seen, i) /\ Rooted(seen, i)
  <2>1. InContent(phase, state, stack, seen, i - 1)
    BY <1>1, <1>2 DEF AtPiece, Stands, InProlog, BeforeRoot, InStartTag, AtTagPiece, AtMarkup
  <2> QED BY <2>1, <1>4 DEF InContent
<1>6. (cur = 0 <=> stack = <<>>) /\ (Depth(seen, i) > 0 <=> stack # <<>>) /\ i # 1
  BY <1>2, <1>5 DEF AtPiece, Current
<1>7. t # "stag" => ~Inside(seen, i + 1) /\ Rooted(seen, i + 1)
  BY <1>3, <1>4, <1>5, InsideNext
<1>8. CASE t \in MiscPieces
  <2>1. look' = FALSE /\ phase' = phase /\ state' = state /\ nodes' = nodes /\ verdict' = verdict
    BY <1>4, <1>8 DEF ParserProcessContent, Consume, MiscPieces, TextPieces
  <2>2. MayStand(seen, i) /\ t \notin {"stag", "etag", "cdata", "attr", "empty"}
    BY <1>3, <1>8 DEF MayStand, MiscPieces
  <2>3. Kept(seen, i, nodes, cur, stack)
    BY <2>2, <1>3, <1>4, KeptOver
  <2>4. InContent(phase, state, stack, seen, i)
    BY <2>2, <1>1, <1>7 DEF InContent
  <2>5. Stands(phase, state, stack, nodes, seen, i, "none")
    BY <2>4 DEF Stands
  <2> QED BY <2>1, <2>3, <2>5, <1>1, <1>2, <1>4, Consumed
<1>9. CASE t \in TextPieces \cup {"cdata"}
  <2>1. CASE cur = 0
    <3>1. /\ verdict' = "error" /\ look' = look /\ phase' = phase /\ state' = state
          /\ nodes' = nodes
      BY <2>1, <1>4, <1>9 DEF ParserProcessContent, MiscPieces, TextPieces
    <3>2. ~MayStand(seen, i)
      BY <2>1, <1>3, <1>5, <1>6, <1>9 DEF MayStand, TextPieces
    <3> QED BY <3>1, <3>2, <1>1, <1>2, Stopped
  <2>2. CASE cur # 0
    <3>1. PICK kind : kind = KindOf(t)
      OBVIOUS
    <3>2. kind = IF t = "cdata" THEN "cdata" ELSE "text"
      BY <3>1, <1>9 DEF KindOf, TextPieces
    <3>3. /\ look' = FALSE /\ state' = state /\ verdict' = verdict /\ AppendToCurrent(kind, "-")
          /\ phase' \in {"loop", "text"}
      <4>1. CASE t = "cdata"
        BY <4>1, <2>2, <3>2, <1>1, <1>4 DEF ParserProcessContent, MiscPieces, TextPieces, Consume
      <4>2. CASE t \in TextPieces
        BY <4>2, <2>2, <3>2, <1>1, <1>4 DEF ParserProcessContent, MiscPieces, TextPieces, Consume
      <4> QED BY <4>1, <4>2, <1>9
    <3>4. nodes' = Append(nodes, WrittenNode(kind, "-", cur, i))
      BY <3>3, <1>4 DEF AppendToCurrent, WrittenNode
    <3>5. MayStand(seen, i)
      BY <2>2, <1>3, <1>5, <1>6, <1>9 DEF MayStand, TextPieces
    <3>6. Kept(seen, i, nodes', cur, stack)
      BY <3>1, <3>4, <3>5, <1>3, <1>4, <1>5, <1>9, KeptGrows
    <3>7. InContent(phase', state, stack, seen, i)
      BY <2>2, <3>3, <1>1, <1>6, <1>7, <1>9 DEF InContent, TextPieces
    <3>8. Stands(phase', state, stack, nodes', seen, i, "none")
      BY <3>7 DEF Stands
    <3> QED BY <3>3, <3>6, <3>8, <1>1, <1>2, <1>4, Consumed
  <2> QED BY <2>1, <2>2
<1>10. CASE t \in {"cdata0", "decl"}
  <2>1. /\ verdict' = "error" /\ look' = look /\ phase' = phase /\ state' = state
        /\ nodes' = nodes
    BY <1>4, <1>10 DEF ParserProcessContent, MiscPieces, TextPieces
  <2>2. ~MayStand(seen, i)
    BY <1>3, <1>6, <1>10 DEF MayStand
  <2> QED BY <2>1, <2>2, <1>1, <1>2, Stopped
<1>11. CASE t \in {"stag", "etag", "doctype"}
  <2>1. /\ verdict' = verdict /\ look' = look /\ phase' = phase /\ state' = "E_ELEMENT"
        /\ nodes' = nodes
    BY <1>4, <1>11 DEF ParserProcessContent, MiscPieces, TextPieces, Keep
  <2>2. AtMarkup(phase, "E_ELEMENT", seen, i - 1, t)
    BY <1>1, <1>4, <1>5, <1>11 DEF AtMarkup
  <2>3. Stands(phase, "E_ELEMENT", stack, nodes, seen, i - 1, seen[i].t)
    BY <2>2, <1>3 DEF Stands
  <2> QED BY <2>1, <2>3, <1>1, <1>2, Left
<1>12. t \in MiscPieces \cup TextPieces \cup {"cdata", "cdata0", "decl", "stag", "etag", "doctype"}
  <2>1. seen[i] \in Pieces /\ t # "eof"
    BY <1>1, <1>4
  <2> QED BY <2>1, <1>3 DEF Pieces, Bare, MiscPieces, TextPieces
<1> QED BY <1>8, <1>9, <1>10, <1>11, <1>12

LEMMA ParserReadsText ==
  ASSUME ParserInv, TextRun
  PROVE  ParserInv'
<1>1. /\ look /\ verdict = "none" /\ phase = "text" /\ verdict' = verdict
      /\ seen' = seen /\ state' = state /\ stack' = stack /\ cur' = cur /\ nodes' = nodes
  BY DEF TextRun, Running
<1>2. PICK i : AtPiece(i)
  BY <1>1, Looking
<1>3. PICK t : t = seen[i].t
  OBVIOUS
<1>4. /\ i \in Nat \ {0} /\ i \in 1..Len(seen) /\ seen \in Seq(Pieces)
      /\ stack \in Seq(XmlNames) /\ (i - 1) + 1 = i
      /\ Kept(seen, i - 1, nodes, cur, stack) /\ Piece = t /\ look = TRUE
  BY <1>2, <1>3 DEF AtPiece
<1>5. InContent(phase, state, stack, seen, i - 1)
  BY <1>1, <1>2 DEF AtPiece, Stands, InProlog, BeforeRoot, InStartTag, AtTagPiece, AtMarkup
<1>6. state = "E_CONTENT" /\ ~Inside(seen, i) /\ Rooted(seen, i) /\ stack # <<>>
  BY <1>1, <1>4, <1>5 DEF InContent
<1>7. Depth(seen, i) > 0
  BY <1>2, <1>6 DEF AtPiece, Current
<1>8. CASE t \in TextPieces
  <2>1. look' = FALSE /\ phase' = phase
    BY <1>4, <1>8 DEF TextRun, Consume
  <2>2. MayStand(seen, i) /\ t \notin {"stag", "etag", "cdata"}
    BY <1>3, <1>6, <1>7, <1>8 DEF MayStand, TextPieces
  <2>3. Kept(seen, i, nodes, cur, stack)
    BY <2>2, <1>3, <1>4, <1>6, KeptOver
  <2>4. ~Inside(seen, i + 1) /\ Rooted(seen, i + 1)
    BY <2>2, <1>3, <1>4, <1>6, InsideNext
  <2>5. InContent(phase, state, stack, seen, i)
    BY <2>4, <1>1, <1>6 DEF InContent
  <2>6. Stands(phase, state, stack, nodes, seen, i, "none")
    BY <2>5 DEF Stands
  <2> QED BY <2>1, <2>3, <2>6, <1>1, <1>2, <1>4, Consumed
<1>9. CASE t \notin TextPieces
  <2>1. look' = look /\ phase' = "loop"
    BY <1>4, <1>9 DEF TextRun, Keep
  <2>2. InContent("loop", state, stack, seen, i - 1)
    BY <1>4, <1>6 DEF InContent
  <2>3. Stands("loop", state, stack, nodes, seen, i - 1, seen[i].t)
    BY <2>2 DEF Stands
  <2> QED BY <2>1, <2>3, <1>1, <1>2, Left
<1> QED BY <1>8, <1>9
\* Where the parser is when it reads a tag.
LEMMA AtTag ==
  ASSUME ParserInv, InTag
  PROVE  /\ look /\ verdict = "none" /\ phase = "loop" /\ state # "E_CONTENT"
         /\ \E i : /\ AtPiece(i)
                   /\ \/ BeforeRoot(phase, state, stack, nodes, seen, i - 1, seen[i].t)
                      \/ AtTagPiece(phase, state, stack, seen, i - 1, seen[i].t)
                      \/ AtMarkup(phase, state, seen, i - 1, seen[i].t)
<1>1. look /\ verdict = "none" /\ phase = "loop" /\ state # "E_CONTENT"
  BY DEF InTag, Running
<1>2. PICK i : AtPiece(i)
  BY <1>1, Looking
<1>3. \/ BeforeRoot(phase, state, stack, nodes, seen, i - 1, seen[i].t)
      \/ AtTagPiece(phase, state, stack, seen, i - 1, seen[i].t)
      \/ AtMarkup(phase, state, seen, i - 1, seen[i].t)
  BY <1>1, <1>2 DEF AtPiece, Stands, InProlog, InStartTag, InContent
<1> QED BY <1>1, <1>2, <1>3

LEMMA ParserStartsTag ==
  ASSUME ParserInv, StartTag
  PROVE  ParserInv'
<1>1. InTag /\ Piece = "stag" /\ ParserProcessElementName /\ seen' = seen
  BY DEF StartTag
<1>2. look /\ verdict = "none" /\ phase = "loop" /\ state # "E_CONTENT"
  BY <1>1, AtTag
<1>3. PICK i : /\ AtPiece(i)
               /\ \/ BeforeRoot(phase, state, stack, nodes, seen, i - 1, seen[i].t)
                  \/ AtTagPiece(phase, state, stack, seen, i - 1, seen[i].t)
                  \/ AtMarkup(phase, state, seen, i - 1, seen[i].t)
  BY <1>1, AtTag
<1>4. /\ i = Len(seen) /\ i \in Nat \ {0} /\ i \in 1..Len(seen) /\ seen \in Seq(Pieces)
      /\ stack \in Seq(XmlNames) /\ (i - 1) + 1 = i /\ seen[i].t = "stag"
      /\ Kept(seen, i - 1, nodes, cur, stack) /\ look = TRUE /\ PieceName = seen[i].name
  BY <1>1, <1>3 DEF AtPiece
<1>5. /\ Depth(seen, i) > 0 <=> stack # <<>>
      /\ Rooted(seen, i) <=> \E k \in DOMAIN nodes : nodes[k].kind = "element"
      /\ nodes = <<>> => ~Rooted(seen, i)
      /\ Inside(seen, i) => Rooted(seen, i)
  BY <1>3 DEF AtPiece, Current
<1>6. isTopLevelElement <=> stack = <<>> /\ Rooted(seen, i)
  BY <1>5 DEF isTopLevelElement
<1>7. MayStand(seen, i) <=> ~isTopLevelElement
  <2>1. MayStand(seen, i) <=> IF Inside(seen, i) THEN BehindName(seen, i)
                              ELSE Depth(seen, i) > 0 \/ ~Rooted(seen, i)
    BY <1>4 DEF MayStand, MiscPieces
  <2>2. CASE BeforeRoot(phase, state, stack, nodes, seen, i - 1, seen[i].t)
    BY <2>1, <2>2, <1>5, <1>6 DEF BeforeRoot
  <2>3. CASE AtTagPiece(phase, state, stack, seen, i - 1, seen[i].t)
    BY <2>1, <2>3, <1>4, <1>5, <1>6 DEF AtTagPiece
  <2>4. CASE AtMarkup(phase, state, seen, i - 1, seen[i].t)
    BY <2>1, <2>4, <1>4, <1>5, <1>6 DEF AtMarkup
  <2> QED BY <2>2, <2>3, <2>4, <1>3
<1>8. CASE isTopLevelElement
  <2>1. /\ verdict' = "error" /\ look' = look /\ phase' = phase /\ state' = state
        /\ stack' = stack /\ cur' = cur /\ nodes' = nodes
    BY <1>1, <1>8 DEF ParserProcessElementName
  <2> QED BY <2>1, <1>1, <1>3, <1>7, <1>8, Stopped
<1>9. CASE ~isTopLevelElement
  <2>1. /\ look' = FALSE /\ phase' = "stag" /\ AppendToCurrent("element", PieceName)
        /\ cur' = Len(nodes) + 1 /\ stack' = <<PieceName>> \o stack /\ state' = state
        /\ verdict' = verdict
    BY <1>1, <1>9 DEF ParserProcessElementName, Consume, Parser_pushElement
  <2>2. nodes' = Append(nodes, WrittenNode("element", seen[i].name, cur, i))
    BY <2>1, <1>4 DEF AppendToCurrent, WrittenNode
  <2>3. MayStand(seen, i)
    BY <1>7, <1>9
  <2>4. /\ Kept(seen, i, nodes', cur', stack')
        /\ stack' \in Seq(XmlNames) /\ stack' # <<>>
    BY <2>1, <2>2, <2>3, <1>4, KeptPush
  <2>5. Inside(seen, i + 1) /\ BehindName(seen, i + 1)
    BY <1>4, InsideNext
  <2>6. InStartTag("stag", state', stack', seen, i)
    BY <2>4, <2>5 DEF InStartTag
  <2>7. Stands(phase', state', stack', nodes', seen, i, "none")
    BY <2>1, <2>6 DEF Stands
  <2> QED BY <2>1, <2>4, <2>7, <1>1, <1>2, <1>3, Consumed
<1> QED BY <1>8, <1>9

\* Where the parser is when it has read a name or an attribute.
LEMMA BehindAttr ==
  ASSUME ParserInv, look, phase \in {"stag", "attr"}
  PROVE  \E i : /\ AtPiece(i)
                /\ InStartTag(phase, state, stack, seen, i - 1)
                /\ stack # <<>> /\ Inside(seen, i) /\ Rooted(seen, i) /\ Depth(seen, i) > 0
                /\ (phase = "stag" <=> BehindName(seen, i)) /\ i # 1
                /\ phase = "attr" => state = "E_ATTRIBUTE"
<1>1. PICK i : AtPiece(i)
  BY Looking
<1>2. InStartTag(phase, state, stack, seen, i - 1)
  BY <1>1 DEF AtPiece, Stands, InProlog, BeforeRoot, InContent, AtTagPiece, AtMarkup
<1>3. i \in Nat \ {0} /\ (i - 1) + 1 = i /\ Current(seen, i, nodes, cur, stack)
  BY <1>1 DEF AtPiece
<1>4. /\ stack # <<>> /\ Inside(seen, i) /\ (phase = "stag" <=> BehindName(seen, i))
      /\ phase = "attr" => state = "E_ATTRIBUTE"
  BY <1>2, <1>3 DEF InStartTag
<1>5. Rooted(seen, i) /\ Depth(seen, i) > 0 /\ i # 1
  BY <1>3, <1>4 DEF Current
<1> QED BY <1>1, <1>2, <1>4, <1>5

\* '>' behind a name or an attribute.
LEMMA TagEnds ==
  ASSUME ParserInv, NEW i, AtPiece(i), InStartTag(phase, state, stack, seen, i - 1),
         seen[i].t = "gt", seen' = seen, look' = FALSE, state' = "E_CONTENT", phase' = "loop",
         verdict = "none", verdict' = verdict, stack' = stack, cur' = cur, nodes' = nodes
  PROVE  ParserInv'
<1>1. /\ i \in Nat \ {0} /\ i \in 1..Len(seen) /\ seen \in Seq(Pieces)
      /\ stack \in Seq(XmlNames) /\ (i - 1) + 1 = i /\ Current(seen, i, nodes, cur, stack)
      /\ Kept(seen, i - 1, nodes, cur, stack)
  BY DEF AtPiece
<1>2. Inside(seen, i) /\ Rooted(seen, i)
  BY <1>1 DEF InStartTag, Current
<1>3. MayStand(seen, i)
  BY <1>2 DEF MayStand, MiscPieces
<1>4. Kept(seen, i, nodes, cur, stack)
  BY <1>1, <1>3, KeptOver
<1>5. ~Inside(seen, i + 1) /\ Rooted(seen, i + 1)
  BY <1>1, <1>2, InsideNext DEF MiscPieces
<1>6. InContent("loop", "E_CONTENT", stack, seen, i)
  BY <1>5 DEF InContent
<1>7. Stands(phase', state', stack', nodes', seen, i, "none")
  BY <1>6 DEF Stands
<1> QED BY <1>1, <1>4, <1>7, Consumed

LEMMA ParserReadsSTag ==
  ASSUME ParserInv, ParserProcessSTag
  PROVE  ParserInv'
<1>1. /\ look /\ verdict = "none" /\ phase = "stag" /\ Piece \notin MiscPieces
      /\ seen' = seen /\ stack' = stack /\ cur' = cur /\ nodes' = nodes
  BY DEF ParserProcessSTag, Running
<1>2. PICK i : /\ AtPiece(i)
               /\ InStartTag(phase, state, stack, seen, i - 1)
               /\ stack # <<>> /\ Inside(seen, i) /\ Rooted(seen, i) /\ Depth(seen, i) > 0
               /\ (phase = "stag" <=> BehindName(seen, i)) /\ i # 1
  BY <1>1, BehindAttr
<1>3. PICK t : t = seen[i].t
  OBVIOUS
<1>4. Piece = t /\ (i - 1) + 1 = i /\ seen \in Seq(Pieces) /\ i \in 1..Len(seen)
  BY <1>2, <1>3 DEF AtPiece
<1>5. CASE t = "gt"
  <2>1. look' = FALSE /\ state' = "E_CONTENT" /\ phase' = "loop" /\ verdict' = verdict
    BY <1>4, <1>5 DEF ParserProcessSTag, Consume
  <2> QED BY <2>1, <1>1, <1>2, <1>3, <1>5, TagEnds
<1>6. CASE t \in {"empty", "stag", "etag", "attr", "text"}
  <2>1. /\ look' = look /\ phase' = "loop" /\ verdict' = verdict
        /\ state' = IF t = "empty" THEN "E_ELEMENT" ELSE "E_ATTRIBUTE"
    BY <1>4, <1>6 DEF ParserProcessSTag, Keep
  <2>2. AtTagPiece(phase', state', stack, seen, i - 1, t)
    BY <2>1, <1>1, <1>2, <1>4, <1>6 DEF AtTagPiece
  <2>3. Stands(phase', state', stack, nodes, seen, i - 1, seen[i].t)
    BY <2>2, <1>3 DEF Stands
  <2> QED BY <2>1, <2>3, <1>1, <1>2, Left
<1>7. CASE t \notin {"gt", "empty", "stag", "etag", "attr", "text"}
  <2>1. verdict' = "error" /\ look' = look /\ phase' = phase /\ state' = state
    BY <1>4, <1>7 DEF ParserProcessSTag
  <2>2. t \in {"cdata", "cdata0", "decl", "doctype", "eof"}
    <3>1. seen[i] \in Pieces
      BY <1>4
    <3> QED BY <3>1, <1>1, <1>3, <1>4, <1>7 DEF Pieces, Bare, MiscPieces
  <2>3. ~MayStand(seen, i)
    BY <2>2, <1>2, <1>3 DEF MayStand
  <2> QED BY <2>1, <2>3, <1>1, <1>2, Stopped
<1> QED BY <1>5, <1>6, <1>7

LEMMA ParserReadsAttribute ==
  ASSUME ParserInv, XMLParserProcessAttribute
  PROVE  ParserInv'
<1>1. /\ look /\ verdict = "none" /\ phase = "attr" /\ Piece \notin MiscPieces
      /\ seen' = seen /\ stack' = stack /\ cur' = cur /\ nodes' = nodes
  BY DEF XMLParserProcessAttribute, Running
<1>2. PICK i : /\ AtPiece(i)
               /\ InStartTag(phase, state, stack, seen, i - 1)
               /\ stack # <<>> /\ Inside(seen, i) /\ Rooted(seen, i) /\ Depth(seen, i) > 0
               /\ (phase = "stag" <=> BehindName(seen, i)) /\ i # 1
               /\ phase = "attr" => state = "E_ATTRIBUTE"
  BY <1>1, BehindAttr
<1>3. PICK t : t = seen[i].t
  OBVIOUS
<1>4. Piece = t /\ (i - 1) + 1 = i /\ seen \in Seq(Pieces) /\ i \in 1..Len(seen)
  BY <1>2, <1>3 DEF AtPiece
<1>5. CASE t = "gt"
  <2>1. look' = FALSE /\ state' = "E_CONTENT" /\ phase' = "loop" /\ verdict' = verdict
    BY <1>4, <1>5 DEF XMLParserProcessAttribute, Consume
  <2> QED BY <2>1, <1>1, <1>2, <1>3, <1>5, TagEnds
<1>6. CASE t \in {"empty", "etag", "attr", "text"}
  <2>1. look' = look /\ phase' = "loop" /\ verdict' = verdict /\ state' = "E_ATTRIBUTE"
    BY <1>1, <1>2, <1>4, <1>6 DEF XMLParserProcessAttribute, Keep
  <2>2. AtTagPiece(phase', state', stack, seen, i - 1, t)
    BY <2>1, <1>1, <1>2, <1>4, <1>6 DEF AtTagPiece
  <2>3. Stands(phase', state', stack, nodes, seen, i - 1, seen[i].t)
    BY <2>2, <1>3 DEF Stands
  <2> QED BY <2>1, <2>3, <1>1, <1>2, Left
<1>7. CASE t \notin {"gt", "empty", "etag", "attr", "text"}
  <2>1. verdict' = "error" /\ look' = look /\ phase' = phase /\ state' = state
    BY <1>4, <1>7 DEF XMLParserProcessAttribute
  <2>2. t \in {"stag", "cdata", "cdata0", "decl", "doctype", "eof"}
    <3>1. seen[i] \in Pieces
      BY <1>4
    <3> QED BY <3>1, <1>1, <1>3, <1>4, <1>7 DEF Pieces, Bare, MiscPieces
  <2>3. ~MayStand(seen, i)
    BY <2>2, <1>1, <1>2, <1>3 DEF MayStand
  <2> QED BY <2>1, <2>3, <1>1, <1>2, Stopped
<1> QED BY <1>5, <1>6, <1>7
\* The end of the innermost element.
TagCloses(i, name) ==
  \/ seen[i].t = "etag" /\ name = seen[i].name
  \/ seen[i].t = "empty" /\ Inside(seen, i) /\ name = Head(stack)

LEMMA ElementEnds ==
  ASSUME ParserInv, NEW i, AtPiece(i), NEW name, ParserETagVerification(name), verdict = "none",
         TagCloses(i, name), Rooted(seen, i), stack # <<>>, phase = "loop"
  PROVE  ParserInv'
<1>1. /\ i \in Nat \ {0} /\ i \in 1..Len(seen) /\ seen \in Seq(Pieces)
      /\ stack \in Seq(XmlNames) /\ (i - 1) + 1 = i /\ Current(seen, i, nodes, cur, stack)
      /\ Kept(seen, i - 1, nodes, cur, stack) /\ look = TRUE
  BY DEF AtPiece
<1>2. /\ Depth(seen, i) > 0 /\ seen[Enclosing(seen, i)].name = Head(stack)
  BY <1>1 DEF Current
<1>3. MayStand(seen, i) <=> Head(stack) = name
  BY <1>2 DEF MayStand, MiscPieces, TagCloses
<1>4. CASE Head(stack) # name
  <2>1. /\ seen' = seen /\ look' = look /\ phase' = phase /\ state' = state
        /\ stack' = stack /\ cur' = cur /\ nodes' = nodes /\ verdict' = "error"
    BY <1>4 DEF ParserETagVerification, Stop
  <2> QED BY <2>1, <1>3, <1>4, Stopped
<1>5. CASE Head(stack) = name
  <2>1. /\ seen' = seen /\ look' = FALSE /\ phase' = phase /\ state' = "E_CONTENT"
        /\ stack' = Tail(stack) /\ cur' = nodes[cur].parent /\ nodes' = nodes
        /\ verdict' = verdict
    BY <1>5 DEF ParserETagVerification, Consume, ParserPopped
  <2>2. Closes(seen, i)
    BY DEF Closes, TagCloses
  <2>3. Kept(seen, i, nodes, nodes[cur].parent, Tail(stack)) /\ Tail(stack) \in Seq(XmlNames)
    BY <2>2, <1>1, <1>3, <1>5, KeptPop
  <2>4. ~Inside(seen, i + 1) /\ Rooted(seen, i + 1)
    BY <1>1, InsideNext DEF MiscPieces, TagCloses
  <2>5. InContent("loop", "E_CONTENT", Tail(stack), seen, i)
    BY <2>4 DEF InContent
  <2>6. Stands(phase', state', stack', nodes', seen, i, "none")
    BY <2>1, <2>5 DEF Stands
  <2> QED BY <2>1, <2>3, <2>6, Consumed
<1> QED BY <1>4, <1>5

LEMMA ParserEndsTag ==
  ASSUME ParserInv, EndTag
  PROVE  ParserInv'
<1>1. InTag /\ Piece = "etag" /\ ParserETagVerification(PieceName)
  BY DEF EndTag
<1>2. verdict = "none" /\ phase = "loop"
  BY <1>1, AtTag
<1>3. PICK i : /\ AtPiece(i)
               /\ \/ BeforeRoot(phase, state, stack, nodes, seen, i - 1, seen[i].t)
                  \/ AtTagPiece(phase, state, stack, seen, i - 1, seen[i].t)
                  \/ AtMarkup(phase, state, seen, i - 1, seen[i].t)
  BY <1>1, AtTag
<1>4. /\ seen[i].t = "etag" /\ PieceName = seen[i].name /\ Current(seen, i, nodes, cur, stack)
      /\ (i - 1) + 1 = i
  BY <1>1, <1>3 DEF AtPiece
<1>5. CASE stack = <<>>
  <2>1. /\ seen' = seen /\ look' = look /\ phase' = phase /\ state' = state
        /\ stack' = stack /\ cur' = cur /\ nodes' = nodes /\ verdict' = "crash"
    BY <1>1, <1>5 DEF ParserETagVerification, Stop
  <2>2. Depth(seen, i) = 0
    BY <1>4, <1>5 DEF Current
  <2> QED BY <2>1, <2>2, <1>3, <1>4, Stopped
<1>6. CASE stack # <<>>
  <2>1. Rooted(seen, i)
    BY <1>3, <1>4, <1>6 DEF BeforeRoot, AtTagPiece, AtMarkup, Current
  <2>2. PICK name : name = PieceName
    OBVIOUS
  <2>3. TagCloses(i, name) /\ ParserETagVerification(name)
    BY <2>2, <1>1, <1>4 DEF TagCloses
  <2> QED BY <2>1, <2>3, <1>2, <1>3, <1>6, ElementEnds
<1> QED BY <1>5, <1>6

\* lastElem is the start of the tag that the parser is in.
LEMMA LastElemIs ==
  ASSUME NEW i, AtPiece(i)
  PROVE  /\ ~Rooted(seen, i) /\ seen[i].t # "stag" => LastElem = "-"
         /\ Inside(seen, i) /\ seen[i].t # "stag" /\ stack # <<>> =>
              LastElem = Head(stack) /\ LastElem # "-"
<1>1. /\ i = Len(seen) /\ i \in Nat \ {0} /\ seen \in Seq(Pieces) /\ i \in 1..Len(seen)
      /\ stack \in Seq(XmlNames) /\ Current(seen, i, nodes, cur, stack)
  BY DEF AtPiece
<1> DEFINE T == {k \in DOMAIN seen : seen[k].t = "stag"}
<1>2. LastElem = IF T = {} THEN "-" ELSE seen[Max(T)].name
  BY DEF LastElem
<1>3. DOMAIN seen = 1..i /\ \A k \in 1..i : k = i \/ k \in 1..(i - 1)
  BY <1>1
<1>4. ASSUME ~Rooted(seen, i), seen[i].t # "stag" PROVE LastElem = "-"
  <2>1. \A k \in 1..i : seen[k].t # "stag"
    BY <1>3, <1>4 DEF Rooted, Opens
  <2>2. T = {}
    BY <2>1, <1>3
  <2> QED BY <2>2, <1>2
<1>5. ASSUME Inside(seen, i), seen[i].t # "stag", stack # <<>>
      PROVE  LastElem = Head(stack) /\ LastElem # "-"
  <2>1. PICK e : e = Enclosing(seen, i)
    OBVIOUS
  <2>2. i \in 1..(Len(seen) + 1) /\ Depth(seen, i) # 0
    BY <1>1, <1>5 DEF Current
  <2>3. /\ e \in 1..(i - 1) /\ seen[e].t = "stag"
        /\ \A m \in (e + 1)..(i - 1) : seen[m].t \in MiscPieces \cup {"attr"}
    BY <2>1, <2>2, <1>1, <1>5, InsideIs
  <2>4. e \in T /\ \A k \in T : k <= e
    <3>1. e \in T
      BY <2>3, <1>1, <1>3
    <3>2. \A k \in T : k \in 1..i /\ seen[k].t = "stag" /\ k # i
      BY <1>3, <1>5
    <3>3. \A m \in (e + 1)..(i - 1) : seen[m].t # "stag"
      BY <2>3 DEF MiscPieces
    <3>4. ASSUME NEW k \in T PROVE k <= e
      <4>1. k \in 1..(i - 1) /\ seen[k].t = "stag"
        BY <3>2, <1>1
      <4>2. ~(k \in (e + 1)..(i - 1))
        BY <4>1, <3>3
      <4> QED BY <4>1, <4>2, <2>3, <1>1
    <3> HIDE DEF T
    <3> QED BY <3>1, <3>4
  <2>5. \A k \in T : k \in Int
    BY <1>3
  <2>6. Max(T) = e
    <3> HIDE DEF T
    <3>1. Max(T) \in T /\ \A y \in T : Max(T) >= y
      BY <2>4 DEF Max
    <3> QED BY <3>1, <2>4, <2>5
  <2>7. LastElem = seen[e].name
    BY <2>4, <2>6, <1>2
  <2>8. seen[e].name = Head(stack)
    BY <2>1, <1>1, <1>5 DEF Current
  <2>9. Head(stack) \in XmlNames
    BY <1>1, <1>5
  <2> QED BY <2>7, <2>8, <2>9, XmlAssumption
<1> QED BY <1>4, <1>5

LEMMA ParserEndsEmpty ==
  ASSUME ParserInv, EmptyTag
  PROVE  ParserInv'
<1>1. /\ InTag /\ Piece = "empty"
      /\ IF LastElem = "-" THEN Stop("error") ELSE ParserETagVerification(LastElem)
  BY DEF EmptyTag
<1>2. verdict = "none" /\ phase = "loop"
  BY <1>1, AtTag
<1>3. PICK i : /\ AtPiece(i)
               /\ \/ BeforeRoot(phase, state, stack, nodes, seen, i - 1, seen[i].t)
                  \/ AtTagPiece(phase, state, stack, seen, i - 1, seen[i].t)
                  \/ AtMarkup(phase, state, seen, i - 1, seen[i].t)
  BY <1>1, AtTag
<1>4. seen[i].t = "empty" /\ Current(seen, i, nodes, cur, stack) /\ (i - 1) + 1 = i
  BY <1>1, <1>3 DEF AtPiece
<1>5. CASE BeforeRoot(phase, state, stack, nodes, seen, i - 1, seen[i].t)
  <2>1. ~Rooted(seen, i) /\ ~Inside(seen, i) /\ ~(Depth(seen, i) > 0)
    BY <1>4, <1>5 DEF BeforeRoot, Current
  <2>2. LastElem = "-"
    BY <2>1, <1>3, <1>4, LastElemIs
  <2>3. /\ seen' = seen /\ look' = look /\ phase' = phase /\ state' = state
        /\ stack' = stack /\ cur' = cur /\ nodes' = nodes /\ verdict' = "error"
    BY <2>2, <1>1 DEF Stop
  <2>4. ~MayStand(seen, i)
    BY <2>1, <1>4 DEF MayStand
  <2> QED BY <2>3, <2>4, <1>3, Stopped
<1>6. CASE AtTagPiece(phase, state, stack, seen, i - 1, seen[i].t)
  <2>1. stack # <<>> /\ Inside(seen, i)
    BY <1>4, <1>6 DEF AtTagPiece
  <2>2. LastElem = Head(stack) /\ LastElem # "-"
    BY <2>1, <1>3, <1>4, LastElemIs
  <2>3. Rooted(seen, i)
    BY <2>1, <1>4 DEF Current
  <2>4. ParserETagVerification(LastElem)
    BY <2>2, <1>1
  <2>5. PICK name : name = LastElem
    OBVIOUS
  <2>6. TagCloses(i, name) /\ ParserETagVerification(name)
    BY <2>1, <2>2, <2>4, <2>5, <1>4 DEF TagCloses
  <2> QED BY <2>1, <2>3, <2>6, <1>2, <1>3, ElementEnds
<1>7. CASE AtMarkup(phase, state, seen, i - 1, seen[i].t)
  BY <1>4, <1>7 DEF AtMarkup
<1> QED BY <1>3, <1>5, <1>6, <1>7

LEMMA ParserSkipsGreater ==
  ASSUME ParserInv, StrayGreater
  PROVE  ParserInv'
<1>1. /\ InTag /\ Piece = "gt" /\ look' = FALSE /\ seen' = seen /\ phase' = phase /\ state' = state
      /\ stack' = stack /\ cur' = cur /\ nodes' = nodes /\ verdict' = verdict
  BY DEF StrayGreater, Consume
<1>2. verdict = "none"
  BY <1>1, AtTag
<1>3. PICK i : /\ AtPiece(i)
               /\ \/ BeforeRoot(phase, state, stack, nodes, seen, i - 1, seen[i].t)
                  \/ AtTagPiece(phase, state, stack, seen, i - 1, seen[i].t)
                  \/ AtMarkup(phase, state, seen, i - 1, seen[i].t)
  BY <1>1, AtTag
<1>4. /\ seen[i].t = "gt" /\ Current(seen, i, nodes, cur, stack) /\ i \in Nat \ {0}
      /\ i \in 1..Len(seen) /\ seen \in Seq(Pieces) /\ stack \in Seq(XmlNames)
      /\ Kept(seen, i - 1, nodes, cur, stack)
  BY <1>1, <1>3 DEF AtPiece
<1>5. BeforeRoot(phase, state, stack, nodes, seen, i - 1, seen[i].t)
  BY <1>3, <1>4 DEF AtTagPiece, AtMarkup
<1>6. ~Rooted(seen, i)
  BY <1>4, <1>5 DEF BeforeRoot, Current
<1>7. MayStand(seen, i)
  BY <1>4, <1>6 DEF MayStand, MiscPieces
<1>8. Kept(seen, i, nodes, cur, stack)
  BY <1>4, <1>7, KeptOver
<1>9. GreaterBefore(seen, i + 1)
  BY <1>4, InsideNext
<1>10. BeforeRoot(phase, state, stack, nodes, seen, i, "none")
  BY <1>5, <1>9 DEF BeforeRoot
<1>11. Stands(phase, state, stack, nodes, seen, i, "none")
  BY <1>10 DEF Stands
<1> QED BY <1>1, <1>2, <1>3, <1>4, <1>8, <1>11, Consumed

LEMMA ParserStopsInTag ==
  ASSUME ParserInv, NotInTag
  PROVE  ParserInv'
<1>1. /\ InTag /\ Piece \in {"text", "cdata", "cdata0", "decl", "doctype"}
      /\ look' = look /\ seen' = seen /\ phase' = phase /\ state' = state
      /\ stack' = stack /\ cur' = cur /\ nodes' = nodes /\ verdict' = "error"
  BY DEF NotInTag, Stop
<1>2. PICK i : /\ AtPiece(i)
               /\ \/ BeforeRoot(phase, state, stack, nodes, seen, i - 1, seen[i].t)
                  \/ AtTagPiece(phase, state, stack, seen, i - 1, seen[i].t)
                  \/ AtMarkup(phase, state, seen, i - 1, seen[i].t)
  BY <1>1, AtTag
<1>3. /\ seen[i].t \in {"text", "cdata", "cdata0", "decl", "doctype"}
      /\ Current(seen, i, nodes, cur, stack) /\ (i - 1) + 1 = i /\ i \in Nat \ {0}
  BY <1>1, <1>2 DEF AtPiece
<1>4. ~MayStand(seen, i)
  <2>1. CASE BeforeRoot(phase, state, stack, nodes, seen, i - 1, seen[i].t)
    <3>1. GreaterBefore(seen, i) => i # 1
      BY <1>3 DEF GreaterBefore
    <3>2. ~(Depth(seen, i) > 0)
      BY <2>1, <1>3 DEF BeforeRoot, Current
    <3> QED BY <2>1, <3>1, <3>2, <1>3 DEF BeforeRoot, MayStand
  <2>2. CASE AtTagPiece(phase, state, stack, seen, i - 1, seen[i].t)
    BY <2>2, <1>3 DEF AtTagPiece, MayStand
  <2>3. CASE AtMarkup(phase, state, seen, i - 1, seen[i].t)
    BY <2>3, <1>3 DEF AtMarkup, MayStand
  <2> QED BY <2>1, <2>2, <2>3, <1>2
<1> QED BY <1>1, <1>2, <1>4, Stopped

LEMMA ParserReadsAttributeName ==
  ASSUME ParserInv, XMLParserProcessAttributeName
  PROVE  ParserInv'
<1>1. /\ InTag /\ Piece = "attr"
      /\ IF state # "E_ATTRIBUTE" \/ isDuplicateAttribute(PieceName)
         THEN Stop("error")
         ELSE /\ Consume /\ phase' = "attr"
              /\ nodes' = [nodes EXCEPT ![cur].attrs = @ \cup {PieceName}]
              /\ seen' = seen /\ state' = state /\ stack' = stack /\ cur' = cur /\ verdict' = verdict
  BY DEF XMLParserProcessAttributeName
<1>2. verdict = "none"
  BY <1>1, AtTag
<1>3. PICK i : /\ AtPiece(i)
               /\ \/ BeforeRoot(phase, state, stack, nodes, seen, i - 1, seen[i].t)
                  \/ AtTagPiece(phase, state, stack, seen, i - 1, seen[i].t)
                  \/ AtMarkup(phase, state, seen, i - 1, seen[i].t)
  BY <1>1, AtTag
<1>4. /\ seen[i].t = "attr" /\ Current(seen, i, nodes, cur, stack) /\ i \in Nat \ {0}
      /\ i \in 1..Len(seen) /\ seen \in Seq(Pieces) /\ stack \in Seq(XmlNames)
      /\ Kept(seen, i - 1, nodes, cur, stack) /\ (i - 1) + 1 = i /\ PieceName = seen[i].name
  BY <1>1, <1>3 DEF AtPiece
<1>5. CASE BeforeRoot(phase, state, stack, nodes, seen, i - 1, seen[i].t)
  <2>1. /\ seen' = seen /\ look' = look /\ phase' = phase /\ state' = state
        /\ stack' = stack /\ cur' = cur /\ nodes' = nodes /\ verdict' = "error"
    BY <1>1, <1>5 DEF BeforeRoot, Stop
  <2>2. ~(Depth(seen, i) > 0) /\ ~Inside(seen, i)
    BY <1>4, <1>5 DEF BeforeRoot, Current
  <2>3. ~MayStand(seen, i)
    BY <2>2, <1>4 DEF MayStand
  <2> QED BY <2>1, <2>3, <1>3, Stopped
<1>6. CASE AtTagPiece(phase, state, stack, seen, i - 1, seen[i].t)
  <2>1. stack # <<>> /\ Inside(seen, i) /\ state = "E_ATTRIBUTE" /\ phase = "loop"
    BY <1>4, <1>6 DEF AtTagPiece
  <2>2. PICK e : e = Enclosing(seen, i)
    OBVIOUS
  <2>3. cur \in 1..Len(nodes) /\ nodes[cur].at = e /\ nodes[cur].kind = "element"
        /\ Depth(seen, i) # 0
    BY <2>1, <2>2, <1>4 DEF Current
  <2>4. nodes[cur].attrs = AttrsWritten(seen, i - 1, e)
    <3>1. NodeOK(nodes, cur, seen, i - 1)
      BY <2>3, <1>4 DEF Kept, TreeOK
    <3> QED BY <3>1, <2>3 DEF NodeOK
  <2>5. i \in 1..(Len(seen) + 1)
    BY <1>4
  <2>6. /\ e \in 1..(i - 1)
        /\ \A m \in (e + 1)..(i - 1) : Inside(seen, m) /\ Enclosing(seen, m) = e
    BY <2>1, <2>2, <2>3, <2>5, <1>4, InsideIs
  <2>7. MayStand(seen, i) <=> \A k \in 1..(i - 1) :
          k > e /\ seen[k].t = "attr" => seen[k].name # seen[i].name
    BY <2>1, <2>2, <1>4 DEF MayStand, MiscPieces
  <2>8. ASSUME NEW k \in 1..(i - 1), seen[k].t = "attr"
        PROVE  k > e <=> Inside(seen, k) /\ Enclosing(seen, k) = e
    <3>1. ASSUME k > e PROVE Inside(seen, k) /\ Enclosing(seen, k) = e
      <4>1. k \in (e + 1)..(i - 1)
        BY <2>6, <3>1, <1>4
      <4> QED BY <4>1, <2>6
    <3>2. ASSUME Inside(seen, k), Enclosing(seen, k) = e PROVE k > e
      <4>1. k \in 1..Len(seen) /\ k \in Nat
        BY <1>4
      <4>2. e \in 0..(k - 1)
        BY <4>1, <3>2, <1>4, AttrBehind
      <4> QED BY <4>1, <4>2
    <3> QED BY <3>1, <3>2
  <2>9. isDuplicateAttribute(PieceName) <=>
          \E k \in 1..(i - 1) : /\ seen[k].t = "attr" /\ Inside(seen, k) /\ Enclosing(seen, k) = e
                                /\ seen[k].name = seen[i].name
    BY <2>4, <1>4 DEF isDuplicateAttribute, AttrsWritten
  <2>10. MayStand(seen, i) <=> ~isDuplicateAttribute(PieceName)
    BY <2>7, <2>8, <2>9
  <2>11. CASE isDuplicateAttribute(PieceName)
    <3>1. /\ seen' = seen /\ look' = look /\ phase' = phase /\ state' = state
          /\ stack' = stack /\ cur' = cur /\ nodes' = nodes /\ verdict' = "error"
      BY <2>11, <1>1 DEF Stop
    <3> QED BY <3>1, <2>10, <2>11, <1>3, Stopped
  <2>12. CASE ~isDuplicateAttribute(PieceName)
    <3>1. /\ look' = FALSE /\ phase' = "attr" /\ seen' = seen /\ state' = state
          /\ stack' = stack /\ cur' = cur /\ verdict' = verdict
          /\ nodes' = [nodes EXCEPT ![cur].attrs = @ \cup {PieceName}]
      BY <2>1, <2>12, <1>1 DEF Consume
    <3>2. nodes' = [nodes EXCEPT ![cur].attrs = @ \cup {seen[i].name}]
      BY <3>1, <1>4
    <3>3. MayStand(seen, i)
      BY <2>10, <2>12
    <3>4. Kept(seen, i, nodes', cur, stack)
      BY <3>2, <3>3, <2>1, <1>4, KeptMarked
    <3>5. Inside(seen, i + 1) /\ ~BehindName(seen, i + 1)
      BY <2>1, <1>4, InsideNext DEF MiscPieces
    <3>6. InStartTag("attr", state, stack, seen, i)
      BY <3>5, <2>1 DEF InStartTag
    <3>7. Stands(phase', state', stack', nodes', seen, i, "none")
      BY <3>1, <3>6 DEF Stands
    <3> QED BY <3>1, <3>4, <3>7, <1>2, <1>3, <1>4, Consumed
  <2> QED BY <2>11, <2>12
<1>7. CASE AtMarkup(phase, state, seen, i - 1, seen[i].t)
  BY <1>4, <1>7 DEF AtMarkup
<1> QED BY <1>3, <1>5, <1>6, <1>7
LEMMA ParserSteps == ParserInv /\ (XmlNext \/ UNCHANGED xmlVars) => ParserInv'
<1> SUFFICES ASSUME ParserInv, XmlNext \/ UNCHANGED xmlVars PROVE ParserInv'
  OBVIOUS
<1>1. CASE LookAhead
  BY <1>1, ParserLooks
<1>2. CASE XMLParserSkipProlog
  BY <1>2, ParserSkipsProlog
<1>3. CASE XMLParserSkipMisc
  BY <1>3, ParserSkipsMisc
<1>4. CASE EndOfText
  BY <1>4, ParserEnds
<1>5. CASE ParserProcessContent
  BY <1>5, ParserReadsContent
<1>6. CASE TextRun
  BY <1>6, ParserReadsText
<1>7. CASE StartTag
  BY <1>7, ParserStartsTag
<1>8. CASE ParserProcessSTag
  BY <1>8, ParserReadsSTag
<1>9. CASE EndTag
  BY <1>9, ParserEndsTag
<1>10. CASE EmptyTag
  BY <1>10, ParserEndsEmpty
<1>11. CASE StrayGreater
  BY <1>11, ParserSkipsGreater
<1>12. CASE XMLParserProcessAttributeName
  BY <1>12, ParserReadsAttributeName
<1>13. CASE XMLParserProcessAttribute
  BY <1>13, ParserReadsAttribute
<1>14. CASE NotInTag
  BY <1>14, ParserStopsInTag
<1>15. CASE UNCHANGED xmlVars
  <2>1. /\ seen' = seen /\ look' = look /\ phase' = phase /\ state' = state
        /\ stack' = stack /\ cur' = cur /\ nodes' = nodes /\ verdict' = verdict
    BY <1>15 DEF xmlVars
  <2> QED BY <2>1 DEF ParserInv
<1> QED BY <1>1, <1>2, <1>3, <1>4, <1>5, <1>6, <1>7, <1>8, <1>9, <1>10, <1>11, <1>12, <1>13,
           <1>14, <1>15 DEF XmlNext

----------------------------------------------------------------------------
(* What the invariant says of the parse.                                   *)

LEMMA ParserAccepts == ParserInv => AcceptsExactly
<1> SUFFICES ASSUME ParserInv, verdict # "none" PROVE AcceptsExactly
  BY DEF AcceptsExactly
<1>1. look
  BY DEF ParserInv
<1>2. PICK i : AtPiece(i)
  BY <1>1, Looking
<1>3. i = Len(seen) /\ i \in Nat \ {0} /\ DOMAIN seen = 1..i /\ Last(seen) = seen[i]
  BY <1>2 DEF AtPiece, Last
<1>4. /\ verdict = "ok" => seen[i].t = "eof" /\ MayStand(seen, i)
      /\ verdict = "error" => ~MayStand(seen, i)
      /\ verdict = "crash" => seen[i].t = "etag" /\ Depth(seen, i) = 0
  BY <1>3 DEF ParserInv, Judged
<1>5. MayStand(seen, i) <=> Acceptable
  <2>1. ASSUME MayStand(seen, i) PROVE Acceptable
    <3>1. \A k \in 1..i : MayStand(seen, k)
      BY <2>1, <1>2, MayFurther DEF AtPiece
    <3> QED BY <3>1, <1>3 DEF Acceptable
  <2>2. ASSUME Acceptable PROVE MayStand(seen, i)
    BY <2>2, <1>3 DEF Acceptable
  <2> QED BY <2>1, <2>2
<1>6. ASSUME verdict = "ok"
      PROVE  \A k \in DOMAIN seen : XmlAllows(seen, k) \/ Lax(seen, k)
  <2>1. \A k \in DOMAIN seen : MayStand(seen, k)
    BY <1>4, <1>5, <1>6 DEF Acceptable
  <2> QED BY <2>1, TakenOrXml
<1>7. ASSUME verdict = "error"
      PROVE  \E k \in DOMAIN seen : ~XmlAllows(seen, k) \/ seen[k].t = "cdata0"
  <2>1. PICK k \in DOMAIN seen : ~MayStand(seen, k)
    BY <1>4, <1>5, <1>7 DEF Acceptable
  <2> QED BY <2>1, TakenOrXml
<1> QED BY <1>3, <1>4, <1>6, <1>7 DEF AcceptsExactly

\* The parser keeps its tree: n pieces of the text are consumed.
LEMMA ParserKeeps ==
  ASSUME ParserInv
  PROVE  \E n \in 0..Len(seen) : /\ Kept(seen, n, nodes, cur, stack)
                                 /\ verdict = "ok" => n + 1 = Len(seen) /\ seen[n + 1].t = "eof"
<1>1. seen \in Seq(Pieces)
  BY DEF ParserInv
<1>2. CASE look
  <2>1. PICK i : AtPiece(i)
    BY <1>2, Looking
  <2>2. i - 1 \in 0..Len(seen) /\ (i - 1) + 1 = i /\ i = Len(seen) /\ Kept(seen, i - 1, nodes, cur, stack)
    BY <2>1 DEF AtPiece
  <2>3. verdict = "ok" => seen[i].t = "eof"
    BY <2>2 DEF ParserInv, Judged
  <2> QED BY <2>2, <2>3
<1>3. CASE ~look
  <2>1. Kept(seen, Len(seen), nodes, cur, stack) /\ verdict = "none"
    BY <1>3 DEF ParserInv, Waits
  <2>2. Len(seen) \in 0..Len(seen)
    BY <1>1
  <2> QED BY <2>1, <2>2
<1> QED BY <1>2, <1>3

LEMMA ParserBuilds == ParserInv => TreeAsWritten
<1> SUFFICES ASSUME ParserInv PROVE TreeAsWritten
  OBVIOUS
<1>1. seen \in Seq(Pieces)
  BY DEF ParserInv
<1>2. PICK n \in 0..Len(seen) : /\ Kept(seen, n, nodes, cur, stack)
                                /\ verdict = "ok" => n + 1 = Len(seen) /\ seen[n + 1].t = "eof"
  BY ParserKeeps
<1>3. /\ nodes \in Seq(NodeRec)
      /\ \A i \in 1..Len(nodes) : NodeOK(nodes, i, seen, n)
      /\ \A k \in 1..n : seen[k].t \in {"stag", "cdata"} => \E i \in 1..Len(nodes) : nodes[i].at = k
  BY <1>2 DEF Kept, TreeOK
<1>4. DOMAIN nodes = 1..Len(nodes) /\ n \in Nat /\ Len(seen) \in Nat /\ DOMAIN seen = 1..Len(seen)
  BY <1>1, <1>3
<1>5. \A i \in DOMAIN nodes :
        /\ nodes[i].parent = 0 => Enclosing(seen, nodes[i].at) = 0
        /\ nodes[i].parent # 0 => nodes[nodes[i].parent].at = Enclosing(seen, nodes[i].at)
  BY <1>3, <1>4 DEF NodeOK
<1>6. ASSUME verdict = "ok"
      PROVE  /\ {nodes[i].at : i \in {k \in DOMAIN nodes : nodes[k].kind # "text"}}
                  = {k \in DOMAIN seen : seen[k].t \in {"stag", "cdata"}}
             /\ \A i \in DOMAIN nodes : nodes[i].kind = "element" =>
                  nodes[i].attrs = {seen[k].name : k \in {m \in DOMAIN seen :
                      /\ seen[m].t = "attr" /\ Inside(seen, m)
                      /\ Enclosing(seen, m) = nodes[i].at}}
  <2>1. \A k \in 1..Len(seen) : k \in 1..n \/ seen[k].t = "eof"
    BY <1>2, <1>4, <1>6
  <2>2. \A k \in 1..n : k \in 1..Len(seen)
    BY <1>4
  <2>3. \A i \in 1..Len(nodes) : nodes[i].kind # "text" =>
          nodes[i].at \in 1..n /\ seen[nodes[i].at].t \in {"stag", "cdata"}
    BY <1>3 DEF NodeOK, KindOf
  <2>4. \A k \in 1..Len(seen) : seen[k].t \in {"stag", "cdata"} =>
          \E i \in 1..Len(nodes) : nodes[i].at = k /\ nodes[i].kind # "text"
    <3> SUFFICES ASSUME NEW k \in 1..Len(seen), seen[k].t \in {"stag", "cdata"}
                 PROVE  \E i \in 1..Len(nodes) : nodes[i].at = k /\ nodes[i].kind # "text"
      OBVIOUS
    <3>1. k \in 1..n
      BY <2>1
    <3>2. PICK i \in 1..Len(nodes) : nodes[i].at = k
      BY <3>1, <1>3
    <3>3. NodeOK(nodes, i, seen, n)
      BY <1>3
    <3>4. nodes[i].kind # "text"
      BY <3>2, <3>3 DEF NodeOK, KindOf
    <3> QED BY <3>2, <3>4
  <2>5. {nodes[i].at : i \in {k \in DOMAIN nodes : nodes[k].kind # "text"}}
          = {k \in DOMAIN seen : seen[k].t \in {"stag", "cdata"}}
    BY <2>2, <2>3, <2>4, <1>4
  <2>6. ASSUME NEW i \in DOMAIN nodes, nodes[i].kind = "element"
        PROVE  nodes[i].attrs = {seen[k].name : k \in {m \in DOMAIN seen :
                      /\ seen[m].t = "attr" /\ Inside(seen, m)
                      /\ Enclosing(seen, m) = nodes[i].at}}
    <3>1. nodes[i].attrs = AttrsWritten(seen, n, nodes[i].at)
      BY <2>6, <1>3, <1>4 DEF NodeOK
    <3>2. {m \in DOMAIN seen : /\ seen[m].t = "attr" /\ Inside(seen, m)
                               /\ Enclosing(seen, m) = nodes[i].at}
            = {m \in 1..n : /\ seen[m].t = "attr" /\ Inside(seen, m)
                            /\ Enclosing(seen, m) = nodes[i].at}
      BY <2>1, <2>2, <1>4
    <3> QED BY <3>1, <3>2 DEF AttrsWritten
  <2> QED BY <2>5, <2>6
<1>7. \A i \in DOMAIN nodes :
        LET e == Enclosing(seen, nodes[i].at)
        IN  IF nodes[i].parent = 0 THEN e = 0 ELSE nodes[nodes[i].parent].at = e
  BY <1>5
<1> QED BY <1>6, <1>7 DEF TreeAsWritten
\* The names from a node up to the document, for the nodes up to n.
NamesUp(f, nd, n) ==
  /\ f \in [0..n -> Seq(XmlNames \cup {"-"})] /\ f[0] = <<>>
  /\ \A i \in 1..n : f[i] = <<nd[i].name>> \o f[nd[i].parent]

LEMMA NamesUpExist ==
  ASSUME NEW nd \in Seq(NodeRec), \A i \in 1..Len(nd) : nd[i].parent \in 0..(i - 1)
  PROVE  \E f : NamesUp(f, nd, Len(nd))
<1> DEFINE Good == {n \in 0..Len(nd) : \E f : NamesUp(f, nd, n)}
<1>1. Len(nd) \in Nat
  OBVIOUS
<1>2. 0 \in Good
  <2> DEFINE f == [i \in 0..0 |-> <<>>]
  <2>1. f \in [0..0 -> Seq(XmlNames \cup {"-"})] /\ f[0] = <<>>
    OBVIOUS
  <2>2. \A i \in 1..0 : FALSE
    OBVIOUS
  <2>3. NamesUp(f, nd, 0)
    <3> HIDE DEF f
    <3> QED BY <2>1, <2>2 DEF NamesUp
  <2> QED BY <2>3, <1>1
<1>3. ASSUME NEW n \in 1..Len(nd), n - 1 \in Good
      PROVE  n \in Good
  <2>1. PICK f : NamesUp(f, nd, n - 1)
    BY <1>3
  <2>2. n \in Nat /\ n >= 1 /\ \A i \in 0..n : i = n \/ i \in 0..(n - 1)
    BY <1>1
  <2>3. /\ f \in [0..(n - 1) -> Seq(XmlNames \cup {"-"})] /\ f[0] = <<>>
        /\ \A i \in 1..(n - 1) : f[i] = <<nd[i].name>> \o f[nd[i].parent]
    BY <2>1 DEF NamesUp
  <2>4. PICK p \in 0..(n - 1) : p = nd[n].parent
    OBVIOUS
  <2>5. PICK x : x = <<nd[n].name>> \o f[p]
    OBVIOUS
  <2>6. x \in Seq(XmlNames \cup {"-"})
    <3>1. nd[n] \in NodeRec
      OBVIOUS
    <3>2. nd[n].name \in XmlNames \cup {"-"}
      BY <3>1 DEF NodeRec
    <3>3. f[p] \in Seq(XmlNames \cup {"-"})
      BY <2>3
    <3> QED BY <3>2, <3>3, <2>5, ConsIs, Zenon
  <2> DEFINE g == [i \in 0..n |-> IF i = n THEN x ELSE f[i]]
  <2>7. g \in [0..n -> Seq(XmlNames \cup {"-"})]
    BY <2>2, <2>3, <2>6
  <2>8. g[n] = x /\ \A i \in 0..(n - 1) : g[i] = f[i]
    BY <2>2
  <2>9. g[0] = <<>>
    BY <2>2, <2>3
  <2>10. ASSUME NEW i \in 1..n PROVE g[i] = <<nd[i].name>> \o g[nd[i].parent]
    <3> HIDE DEF g
    <3>1. CASE i = n
      BY <3>1, <2>4, <2>5, <2>8
    <3>2. CASE i # n
      <4>1. i \in 1..(n - 1) /\ i \in 0..(n - 1) /\ i \in 1..Len(nd)
        BY <3>2, <2>2, <1>1
      <4>2. nd[i].parent \in 0..(i - 1)
        BY <4>1
      <4>3. nd[i].parent \in 0..(n - 1)
        BY <4>1, <4>2
      <4> QED BY <4>1, <4>3, <2>3, <2>8
    <3> QED BY <3>1, <3>2
  <2>11. NamesUp(g, nd, n)
    <3> HIDE DEF g
    <3> QED BY <2>7, <2>9, <2>10 DEF NamesUp
  <2>12. n \in 0..Len(nd)
    OBVIOUS
  <2> QED BY <2>11, <2>12
<1>4. \A n \in 0..Len(nd) : n \in Good
  <2> HIDE DEF Good
  <2> QED BY <1>1, <1>2, <1>3, UpTo
<1>5. Len(nd) \in Good
  BY <1>1, <1>4
<1> QED BY <1>5

\* The names of the path to the current node are the stack.
LEMMA NamesOfPath ==
  ASSUME NEW nd \in Seq(NodeRec), NEW f, f[0] = <<>>,
         \A i \in 1..Len(nd) : f[i] = <<nd[i].name>> \o f[nd[i].parent],
         NEW s, NEW n, NEW path, NEW c, NEW st \in Seq(XmlNames), Branch(nd, path, c, st, s, n)
  PROVE  f[c] = st
<1>1. /\ path \in Seq(1..Len(nd)) /\ Len(path) = Len(st)
      /\ c = IF Len(path) = 0 THEN 0 ELSE path[1]
      /\ \A k \in 1..Len(path) : OpenNode(nd, path, st, s, n, k)
  BY DEF Branch
<1>2. PICK L \in Nat : L = Len(path) /\ L = Len(st)
  BY <1>1
<1>3. \A k \in 1..L : /\ path[k] \in 1..Len(nd) /\ nd[path[k]].name = st[k]
                      /\ nd[path[k]].parent = IF k = L THEN 0 ELSE path[k + 1]
  BY <1>1, <1>2 DEF OpenNode
<1> DEFINE At(k) == IF k = L + 1 THEN 0 ELSE path[k]
           Good == {j \in 0..L : f[At(L + 1 - j)] = SubSeq(st, L + 1 - j, L)}
<1>4. 0 \in Good
  <2>1. L + 1 - 0 = L + 1
    OBVIOUS
  <2>2. SubSeq(st, L + 1, L) = <<>>
    <3>1. /\ L + 1 \in 1..(Len(st) + 1) /\ L \in ((L + 1) - 1)..Len(st) /\ L - (L + 1) + 1 = 0
      BY <1>2
    <3>2. SubSeq(st, L + 1, L) \in Seq(XmlNames) /\ Len(SubSeq(st, L + 1, L)) = L - (L + 1) + 1
      BY <3>1, PartIs
    <3> QED BY <3>1, <3>2
  <2>3. At(L + 1) = 0 /\ 0 \in 0..L
    OBVIOUS
  <2>4. f[At(L + 1)] = SubSeq(st, L + 1, L)
    <3> HIDE DEF At
    <3> QED BY <2>2, <2>3
  <2> HIDE DEF At
  <2> QED BY <2>1, <2>3, <2>4
<1>5. ASSUME NEW j \in 1..L, j - 1 \in Good
      PROVE  j \in Good
  <2>1. PICK k : k = L + 1 - j
    OBVIOUS
  <2>2. k \in 1..L /\ L + 1 - (j - 1) = k + 1 /\ k # L + 1 /\ j \in 0..L
    BY <2>1
  <2>3. f[At(k + 1)] = SubSeq(st, k + 1, L)
    BY <1>5, <2>2
  <2>4. nd[path[k]].parent = At(k + 1) /\ At(k) = path[k]
    <3>1. k = L <=> k + 1 = L + 1
      BY <2>2
    <3> QED BY <3>1, <2>2, <1>3
  <2>5. f[At(k)] = <<st[k]>> \o SubSeq(st, k + 1, L)
    <3> HIDE DEF At
    <3>1. PICK i \in 1..Len(nd) : i = path[k] /\ nd[i].name = st[k] /\ nd[i].parent = At(k + 1)
      BY <2>2, <2>4, <1>3
    <3>2. f[i] = <<nd[i].name>> \o f[nd[i].parent]
      OBVIOUS
    <3> QED BY <3>1, <3>2, <2>3, <2>4
  <2>6. SubSeq(st, k, L) = <<st[k]>> \o SubSeq(st, k + 1, L)
    BY <2>2, <1>2, SuffixIs
  <2>7. f[At(k)] = SubSeq(st, k, L)
    BY <2>5, <2>6
  <2> QED BY <2>1, <2>2, <2>7
<1>6. \A j \in 0..L : j \in Good
  <2> HIDE DEF Good
  <2> QED BY <1>4, <1>5, UpTo
<1>7. f[At(1)] = SubSeq(st, 1, L)
  <2>1. L \in 0..L /\ L + 1 - L = 1
    OBVIOUS
  <2>2. L \in Good
    BY <2>1, <1>6
  <2> QED BY <2>1, <2>2
<1>8. SubSeq(st, 1, L) = st
  <2>1. /\ SubSeq(st, 1, L) \in Seq(XmlNames) /\ Len(SubSeq(st, 1, L)) = L - 1 + 1
        /\ \A i \in 1..(L - 1 + 1) : SubSeq(st, 1, L)[i] = st[1 + i - 1]
    <3>1. 1 \in 1..(Len(st) + 1) /\ L \in (1 - 1)..Len(st)
      BY <1>2
    <3> QED BY <3>1, PartIs
  <2>2. L - 1 + 1 = L /\ \A i \in 1..L : 1 + i - 1 = i
    OBVIOUS
  <2> QED BY <2>1, <2>2, <1>2
<1>9. At(1) = c
  <2>1. L = 0 <=> 1 = L + 1
    OBVIOUS
  <2> QED BY <2>1, <1>1, <1>2
<1> QED BY <1>7, <1>8, <1>9

LEMMA ParserOnPath == ParserInv => StackIsPath
<1> SUFFICES ASSUME ParserInv PROVE StackIsPath
  OBVIOUS
<1>1. PICK n \in 0..Len(seen) : Kept(seen, n, nodes, cur, stack)
  BY ParserKeeps
<1>2. stack \in Seq(XmlNames)
  BY DEF ParserInv
<1>3. nodes \in Seq(NodeRec) /\ \A i \in 1..Len(nodes) : nodes[i].parent \in 0..(i - 1)
  BY <1>1 DEF Kept, TreeOK, NodeOK
<1>4. PICK path : Branch(nodes, path, cur, stack, seen, n)
  BY <1>1 DEF Kept
<1>5. PICK f : NamesUp(f, nodes, Len(nodes))
  BY <1>3, NamesUpExist
<1> DEFINE Body(g) == [i \in 0..Len(nodes) |->
                         IF i = 0 THEN <<>> ELSE <<nodes[i].name>> \o g[nodes[i].parent]]
           P == CHOOSE g : g = Body(g)
<1>6. f = Body(f)
  <2>1. /\ f \in [0..Len(nodes) -> Seq(XmlNames \cup {"-"})] /\ f[0] = <<>>
        /\ \A i \in 1..Len(nodes) : f[i] = <<nodes[i].name>> \o f[nodes[i].parent]
    BY <1>5 DEF NamesUp
  <2>2. \A i \in 0..Len(nodes) : f[i] = Body(f)[i]
    <3> TAKE i \in 0..Len(nodes)
    <3>1. CASE i = 0
      BY <3>1, <2>1
    <3>2. CASE i # 0
      <4>1. i \in 1..Len(nodes)
        BY <3>2, <1>3
      <4> QED BY <4>1, <3>2, <2>1
    <3> QED BY <3>1, <3>2
  <2>3. f = [i \in 0..Len(nodes) |-> f[i]]
    BY <2>1
  <2>4. Body(f) = [i \in 0..Len(nodes) |-> Body(f)[i]]
    OBVIOUS
  <2> HIDE DEF Body
  <2> QED BY <2>2, <2>3, <2>4, Zenon
<1>7. P = Body(P)
  <2> HIDE DEF Body
  <2> QED BY <1>6, Zenon
<1>8. \A i \in 0..Len(nodes) : P[i] = IF i = 0 THEN <<>> ELSE <<nodes[i].name>> \o P[nodes[i].parent]
  <2> HIDE DEF P
  <2> QED BY <1>7
<1>9. P[0] = <<>> /\ \A i \in 1..Len(nodes) : P[i] = <<nodes[i].name>> \o P[nodes[i].parent]
  <2>1. Len(nodes) \in Nat /\ 0 \in 0..Len(nodes) /\ \A i \in 1..Len(nodes) : i \in 0..Len(nodes) /\ i # 0
    BY <1>3
  <2> HIDE DEF P
  <2> QED BY <2>1, <1>8
<1>10. P[cur] = stack
  <2> HIDE DEF P
  <2> QED BY <1>2, <1>3, <1>4, <1>9, NamesOfPath
<1> QED BY <1>10 DEF StackIsPath

----------------------------------------------------------------------------
(* Functions that go from a number to the one above it in a tree.          *)

LEMMA LeastIs ==
  ASSUME NEW T, T \subseteq Nat, T # {}
  PROVE  Min(T) \in T /\ \A m \in T : Min(T) <= m
<1>1. PICK n \in T : \A m \in T : n <= m
  BY LeastNatural
<1> QED BY <1>1 DEF Min

\* f starts with x, and goes on from par[m] to m by g.
Descended(f, N, S, x, g, par) ==
  f \in [0..N -> S] /\ f[0] = x /\ \A m \in 1..N : f[m] = g[m][f[par[m]]]

LEMMA Descent ==
  ASSUME NEW N \in Nat, NEW S, NEW x \in S, NEW g \in [1..N -> [S -> S]],
         NEW par, \A m \in 1..N : par[m] \in 0..(m - 1)
  PROVE  \E f : Descended(f, N, S, x, g, par)
<1> DEFINE Good == {n \in 0..N : \E f : Descended(f, n, S, x, g, par)}
<1>1. 0 \in Good
  <2> DEFINE f == [i \in 0..0 |-> x]
  <2>1. f \in [0..0 -> S] /\ f[0] = x
    OBVIOUS
  <2>2. \A i \in 1..0 : FALSE
    OBVIOUS
  <2>3. Descended(f, 0, S, x, g, par)
    <3> HIDE DEF f
    <3> QED BY <2>1, <2>2 DEF Descended
  <2> QED BY <2>3
<1>2. ASSUME NEW n \in 1..N, n - 1 \in Good
      PROVE  n \in Good
  <2>1. PICK f : Descended(f, n - 1, S, x, g, par)
    BY <1>2
  <2>2. f \in [0..(n - 1) -> S] /\ f[0] = x /\ \A i \in 1..(n - 1) : f[i] = g[i][f[par[i]]]
    BY <2>1 DEF Descended
  <2>3. PICK y \in S : y = g[n][f[par[n]]]
    <3>1. par[n] \in 0..(n - 1) /\ g[n] \in [S -> S]
      OBVIOUS
    <3> QED BY <2>2, <3>1
  <2> DEFINE h == [i \in 0..n |-> IF i = n THEN y ELSE f[i]]
  <2>4. h[n] = y /\ \A i \in 0..(n - 1) : h[i] = f[i]
    <3>1. n \in 0..n /\ \A i \in 0..(n - 1) : i \in 0..n /\ i # n
      OBVIOUS
    <3> QED BY <3>1
  <2>5. h \in [0..n -> S]
    <3>1. \A i \in 0..n : i # n => i \in 0..(n - 1)
      OBVIOUS
    <3> QED BY <2>2, <3>1
  <2> HIDE DEF h
  <2>6. h[0] = x
    <3>1. 0 \in 0..(n - 1)
      OBVIOUS
    <3> QED BY <2>2, <2>4, <3>1
  <2>7. ASSUME NEW i \in 1..n
        PROVE  h[i] = g[i][h[par[i]]]
    <3>1. i \in 1..N /\ par[i] \in 0..(i - 1)
      OBVIOUS
    <3>2. par[i] \in 0..(n - 1)
      BY <3>1
    <3>3. h[par[i]] = f[par[i]]
      BY <2>4, <3>2
    <3>4. CASE i = n
      BY <2>3, <2>4, <3>3, <3>4
    <3>5. CASE i # n
      <4>1. i \in 1..(n - 1) /\ i \in 0..(n - 1)
        BY <3>5
      <4> QED BY <2>2, <2>4, <3>3, <4>1
    <3> QED BY <3>4, <3>5
  <2>8. Descended(h, n, S, x, g, par)
    BY <2>5, <2>6, <2>7 DEF Descended
  <2>9. n \in 0..N
    OBVIOUS
  <2> QED BY <2>8, <2>9
<1>3. N \in Good
  <2>1. N \in 0..N
    OBVIOUS
  <2> HIDE DEF Good
  <2>2. \A i \in 0..N : i \in Good
    BY <1>1, <1>2, UpTo
  <2> QED BY <2>1, <2>2
<1> QED BY <1>3

----------------------------------------------------------------------------
(* The elements of a text, and what a prefix means in them.                *)

NsElement == [prefix : NsNames, local : NsLocals, parent : Nat,
              uri : NsUris \cup {NoUri}, wrote : Seq(Decl \cup {Plain})]

\* Every element is behind the one it is in.
NsNested(ns) == ns \in Seq(NsElement) /\ \A m \in 1..Len(ns) : ns[m].parent \in 0..(m - 1)

WrittenIn(ns, m, q) == PlacesOf(ns[m].wrote, q)

\* The declaration of q in element m.
WrittenUri(ns, m, q) == ns[m].wrote[Min(WrittenIn(ns, m, q))].uri

LEMMA ElementIs ==
  ASSUME NEW ns, NsNested(ns), NEW m \in 1..Len(ns)
  PROVE  /\ ns[m] \in NsElement /\ ns[m].prefix \in NsNames /\ ns[m].uri \in NsUris \cup {NoUri}
         /\ ns[m].wrote \in Seq(Decl \cup {Plain})
         /\ ns[m].parent \in 0..(m - 1) /\ ns[m].parent \in 0..Len(ns)
         /\ Len(ns) \in Nat /\ m \in Nat /\ m # 0 /\ m \in 0..Len(ns)
<1>1. ns \in Seq(NsElement) /\ ns[m].parent \in 0..(m - 1)
  BY DEF NsNested
<1>2. ns[m] \in NsElement /\ Len(ns) \in Nat
  BY <1>1
<1>3. m \in Nat /\ m # 0 /\ m \in 0..Len(ns) /\ ns[m].parent \in 0..Len(ns)
  BY <1>1, <1>2
<1> QED BY <1>1, <1>2, <1>3 DEF NsElement

LEMMA PlacesAre ==
  ASSUME NEW list \in Seq(Decl \cup {Plain}), NEW q
  PROVE  /\ PlacesOf(list, q) \subseteq 1..Len(list) /\ PlacesOf(list, q) \subseteq Nat
         /\ PlacesOf(list, q) = {i \in 1..Len(list) : list[i].prefix = q}
<1>1. DOMAIN list = 1..Len(list) /\ Len(list) \in Nat
  OBVIOUS
<1> QED BY <1>1 DEF PlacesOf

LEMMA WrittenIs ==
  ASSUME NEW ns, NsNested(ns), NEW m \in 1..Len(ns), NEW q \in NsNames, WrittenIn(ns, m, q) # {}
  PROVE  WrittenUri(ns, m, q) \in NsUris /\ WrittenUri(ns, m, q) # NoUri
<1>1. PICK w : w = ns[m].wrote
  OBVIOUS
<1>2. w \in Seq(Decl \cup {Plain})
  BY <1>1, ElementIs
<1>3. PICK i : i = Min(PlacesOf(w, q))
  OBVIOUS
<1>4. i \in PlacesOf(w, q)
  <2>1. PlacesOf(w, q) \subseteq Nat /\ PlacesOf(w, q) # {}
    BY <1>1, <1>2, PlacesAre DEF WrittenIn
  <2> QED BY <2>1, <1>3, LeastIs
<1>5. i \in 1..Len(w) /\ w[i].prefix = q
  BY <1>2, <1>4, PlacesAre
<1>6. w[i] \in Decl \cup {Plain}
  BY <1>2, <1>5
<1>7. w[i] # Plain
  BY <1>5, NsAssumption DEF Plain
<1>8. w[i].uri \in NsUris
  BY <1>6, <1>7 DEF Decl
<1> QED BY <1>1, <1>3, <1>8, NsAssumption DEF WrittenUri, WrittenIn

LEMMA ScopeIs ==
  ASSUME NEW ns, NsNested(ns), NEW q \in NsNames
  PROVE  /\ InScope(ns, 0, q) = NoUri
         /\ \A m \in 1..Len(ns) :
              InScope(ns, m, q) = IF WrittenIn(ns, m, q) = {} THEN InScope(ns, ns[m].parent, q)
                                  ELSE WrittenUri(ns, m, q)
<1>1. PICK N \in Nat : N = Len(ns)
  BY DEF NsNested
<1> DEFINE S == NsUris \cup {NoUri}
           par == [m \in 1..N |-> ns[m].parent]
           g == [m \in 1..N |-> [v \in S |-> IF WrittenIn(ns, m, q) = {} THEN v
                                              ELSE WrittenUri(ns, m, q)]]
           Body(f) == [m \in 0..N |-> IF m = 0 THEN NoUri
                                      ELSE IF WrittenIn(ns, m, q) = {} THEN f[ns[m].parent]
                                      ELSE WrittenUri(ns, m, q)]
           F == CHOOSE f : f = Body(f)
<1>2. \A m \in 1..N : par[m] = ns[m].parent /\ par[m] \in 0..(m - 1)
  BY <1>1 DEF NsNested
<1>3. g \in [1..N -> [S -> S]]
  BY <1>1, WrittenIs
<1>4. PICK f : Descended(f, N, S, NoUri, g, par)
  <2>1. NoUri \in S
    OBVIOUS
  <2> HIDE DEF S, par, g
  <2> QED BY <1>2, <1>3, <2>1, Descent
<1>5. f = Body(f)
  <2>1. f \in [0..N -> S] /\ f[0] = NoUri /\ \A m \in 1..N : f[m] = g[m][f[par[m]]]
    BY <1>4 DEF Descended
  <2>2. ASSUME NEW m \in 1..N
        PROVE  f[m] = IF WrittenIn(ns, m, q) = {} THEN f[ns[m].parent] ELSE WrittenUri(ns, m, q)
    <3>1. PICK v \in S : v = f[ns[m].parent]
      <4>1. ns[m].parent \in 0..N
        BY <1>2
      <4> QED BY <2>1, <4>1
    <3>2. f[m] = g[m][v]
      BY <1>2, <2>1, <3>1
    <3> QED BY <3>1, <3>2
  <2>3. \A m \in 0..N : m = 0 \/ m \in 1..N
    OBVIOUS
  <2>4. f = [m \in 0..N |-> f[m]]
    BY <2>1
  <2> HIDE DEF g
  <2> QED BY <2>1, <2>2, <2>3, <2>4
<1>6. F = Body(F)
  <2> HIDE DEF Body
  <2> QED BY <1>5, Zenon
<1>7. \A m \in 0..N : F[m] = IF m = 0 THEN NoUri
                             ELSE IF WrittenIn(ns, m, q) = {} THEN F[ns[m].parent]
                             ELSE WrittenUri(ns, m, q)
  <2> HIDE DEF F
  <2> QED BY <1>6
<1>8. \A n : InScope(ns, n, q) = F[n]
  BY <1>1 DEF InScope, WrittenIn, WrittenUri
<1>9. 0 \in 0..N /\ \A m \in 1..N : m \in 0..N /\ m # 0
  OBVIOUS
<1> HIDE DEF F
<1> QED BY <1>1, <1>7, <1>8, <1>9

LEMMA PathIs ==
  ASSUME NEW ns, NsNested(ns)
  PROVE  /\ OnPath(ns, 0) = {}
         /\ \A m \in 1..Len(ns) : OnPath(ns, m) = {m} \cup OnPath(ns, ns[m].parent)
<1>1. PICK N \in Nat : N = Len(ns)
  BY DEF NsNested
<1> DEFINE S == SUBSET (1..N)
           par == [m \in 1..N |-> ns[m].parent]
           g == [m \in 1..N |-> [v \in S |-> {m} \cup v]]
           Body(f) == [m \in 0..N |-> IF m = 0 THEN {} ELSE {m} \cup f[ns[m].parent]]
           F == CHOOSE f : f = Body(f)
<1>2. \A m \in 1..N : par[m] = ns[m].parent /\ par[m] \in 0..(m - 1)
  BY <1>1 DEF NsNested
<1>3. g \in [1..N -> [S -> S]]
  OBVIOUS
<1>4. PICK f : Descended(f, N, S, {}, g, par)
  <2>1. {} \in S
    OBVIOUS
  <2> HIDE DEF S, par, g
  <2> QED BY <1>2, <1>3, <2>1, Descent
<1>5. f = Body(f)
  <2>1. f \in [0..N -> S] /\ f[0] = {} /\ \A m \in 1..N : f[m] = g[m][f[par[m]]]
    BY <1>4 DEF Descended
  <2>2. ASSUME NEW m \in 1..N
        PROVE  f[m] = {m} \cup f[ns[m].parent]
    <3>1. PICK v \in S : v = f[ns[m].parent]
      <4>1. ns[m].parent \in 0..N
        BY <1>2
      <4> HIDE DEF S
      <4> QED BY <2>1, <4>1
    <3>2. f[m] = g[m][v]
      BY <1>2, <2>1, <3>1
    <3> QED BY <3>1, <3>2
  <2>3. \A m \in 0..N : m = 0 \/ m \in 1..N
    OBVIOUS
  <2>4. f = [m \in 0..N |-> f[m]]
    BY <2>1
  <2> HIDE DEF g
  <2> QED BY <2>1, <2>2, <2>3, <2>4
<1>6. F = Body(F)
  <2> HIDE DEF Body
  <2> QED BY <1>5, Zenon
<1>7. \A m \in 0..N : F[m] = IF m = 0 THEN {} ELSE {m} \cup F[ns[m].parent]
  <2> HIDE DEF F
  <2> QED BY <1>6
<1>8. \A n : OnPath(ns, n) = F[n]
  BY <1>1 DEF OnPath
<1>9. 0 \in 0..N /\ \A m \in 1..N : m \in 0..N /\ m # 0
  OBVIOUS
<1> HIDE DEF F
<1>10. F[0] = {}
  BY <1>7, <1>9
<1>11. \A m \in 1..N : F[m] = {m} \cup F[ns[m].parent]
  BY <1>7, <1>9
<1> QED BY <1>1, <1>8, <1>10, <1>11, Zenon

\* No element on the path wrote xmlns although it has a prefix.
PathClear(ns, n) == \A m \in OnPath(ns, n) : ~TwoInOne(ns, m)

LEMMA ClearIs ==
  ASSUME NEW ns, NsNested(ns)
  PROVE  /\ PathClear(ns, 0)
         /\ \A m \in 1..Len(ns) :
              PathClear(ns, m) <=> ~TwoInOne(ns, m) /\ PathClear(ns, ns[m].parent)
<1>1. PathClear(ns, 0)
  BY PathIs DEF PathClear
<1>2. ASSUME NEW m \in 1..Len(ns)
      PROVE  PathClear(ns, m) <=> ~TwoInOne(ns, m) /\ PathClear(ns, ns[m].parent)
  <2>1. OnPath(ns, m) = {m} \cup OnPath(ns, ns[m].parent)
    BY PathIs
  <2> QED BY <2>1 DEF PathClear
<1> QED BY <1>1, <1>2

\* The first k elements of two texts are the same but for their URIs.
SameElements(ns, nt, k) ==
  /\ NsNested(ns) /\ NsNested(nt) /\ k \in 0..Len(ns) /\ k \in 0..Len(nt)
  /\ \A m \in 1..k : /\ nt[m].prefix = ns[m].prefix /\ nt[m].parent = ns[m].parent
                     /\ nt[m].wrote = ns[m].wrote

\* What is said of element m of a text without its URI.
SameSaid(ns, nt, m) ==
  /\ \A q \in NsNames : InScope(nt, m, q) = InScope(ns, m, q)
  /\ PathClear(nt, m) <=> PathClear(ns, m)

LEMMA ScopesStay ==
  ASSUME NEW ns, NEW nt, NEW k, SameElements(ns, nt, k)
  PROVE  \A m \in 0..k : SameSaid(ns, nt, m)
<1>1. /\ NsNested(ns) /\ NsNested(nt) /\ k \in Nat /\ k <= Len(ns) /\ k <= Len(nt)
      /\ Len(ns) \in Nat /\ Len(nt) \in Nat
  BY DEF SameElements, NsNested
<1> DEFINE Good == {m \in 0..k : \A j \in 0..m : SameSaid(ns, nt, j)}
<1>2. SameSaid(ns, nt, 0)
  BY <1>1, ScopeIs, ClearIs DEF SameSaid
<1>3. 0 \in Good
  <2>1. 0 \in 0..k /\ \A j \in 0..0 : j = 0
    BY <1>1
  <2> QED BY <2>1, <1>2
<1>4. ASSUME NEW m \in 1..k, m - 1 \in Good
      PROVE  m \in Good
  <2>1. \A j \in 0..(m - 1) : SameSaid(ns, nt, j)
    BY <1>4
  <2>2. /\ m \in 1..Len(ns) /\ m \in 1..Len(nt) /\ m \in 0..k
        /\ \A j \in 0..m : j = m \/ j \in 0..(m - 1)
    BY <1>1
  <2>3. PICK p : p = ns[m].parent
    OBVIOUS
  <2>4. /\ nt[m].prefix = ns[m].prefix /\ nt[m].parent = p /\ nt[m].wrote = ns[m].wrote
    BY <2>3 DEF SameElements
  <2>5. p \in 0..(m - 1)
    BY <1>1, <2>2, <2>3, ElementIs
  <2>6. SameSaid(ns, nt, p)
    BY <2>1, <2>5
  <2>7. ASSUME NEW q \in NsNames
        PROVE  InScope(nt, m, q) = InScope(ns, m, q)
    <3>1. WrittenIn(nt, m, q) = WrittenIn(ns, m, q) /\ WrittenUri(nt, m, q) = WrittenUri(ns, m, q)
      BY <2>4 DEF WrittenIn, WrittenUri
    <3>2. InScope(nt, p, q) = InScope(ns, p, q)
      BY <2>6 DEF SameSaid
    <3>3. InScope(ns, m, q) = IF WrittenIn(ns, m, q) = {} THEN InScope(ns, p, q)
                              ELSE WrittenUri(ns, m, q)
      BY <1>1, <2>2, <2>3, ScopeIs
    <3>4. InScope(nt, m, q) = IF WrittenIn(nt, m, q) = {} THEN InScope(nt, p, q)
                              ELSE WrittenUri(nt, m, q)
      BY <1>1, <2>2, <2>4, ScopeIs
    <3> QED BY <3>1, <3>2, <3>3, <3>4
  <2>8. PathClear(nt, m) <=> PathClear(ns, m)
    <3>1. TwoInOne(nt, m) <=> TwoInOne(ns, m)
      BY <2>4 DEF TwoInOne
    <3>2. PathClear(nt, p) <=> PathClear(ns, p)
      BY <2>6 DEF SameSaid
    <3>3. PathClear(ns, m) <=> ~TwoInOne(ns, m) /\ PathClear(ns, p)
      BY <1>1, <2>2, <2>3, ClearIs
    <3>4. PathClear(nt, m) <=> ~TwoInOne(nt, m) /\ PathClear(nt, p)
      BY <1>1, <2>2, <2>4, ClearIs
    <3> QED BY <3>1, <3>2, <3>3, <3>4
  <2>9. SameSaid(ns, nt, m)
    BY <2>7, <2>8 DEF SameSaid
  <2> QED BY <2>1, <2>2, <2>9
<1>5. \A m \in 0..k : m \in Good
  <2> HIDE DEF Good
  <2> QED BY <1>1, <1>3, <1>4, UpTo
<1>6. ASSUME NEW m \in 0..k
      PROVE  SameSaid(ns, nt, m)
  <2>1. m \in Good /\ m \in 0..m
    BY <1>5
  <2> QED BY <2>1
<1> QED BY <1>6

----------------------------------------------------------------------------
(* The entries of the stack.                                               *)

NsEntry == [node : Nat, prefix : NsNames, uri : NsUris \cup {NoUri}, decls : Seq(Decl)]

\* The element of entry j, 0 behind the last.
NodeAt(st, j) == IF j \in 1..Len(st) THEN st[j].node ELSE 0

\* The stack is a path up to the root.
OpenPath(ns, st) ==
  /\ st \in Seq(NsEntry)
  /\ \A j \in 1..Len(st) : /\ st[j].node \in 1..Len(ns)
                           /\ st[j].prefix = ns[st[j].node].prefix
                           /\ ns[st[j].node].parent = NodeAt(st, j + 1)

\* An entry lists what its element declared, for other prefixes than its own.
ListsWritten(ns, e) ==
  \A q \in NsPrefixes : q # e.prefix =>
     /\ PlacesOf(e.decls, q) = {} <=> WrittenIn(ns, e.node, q) = {}
     /\ \A i \in PlacesOf(e.decls, q) : e.decls[i].uri = WrittenUri(ns, e.node, q)

\* Its URI is what its prefix means.
KnowsOwn(ns, e) == PathClear(ns, e.node) => e.uri = InScope(ns, e.node, e.prefix)

EntriesTrue(ns, st) == \A j \in 1..Len(st) : ListsWritten(ns, st[j]) /\ KnowsOwn(ns, st[j])

LEMMA NsEntryIs ==
  ASSUME NEW ns, NEW st, NsNested(ns), OpenPath(ns, st), NEW j \in 1..Len(st)
  PROVE  /\ st[j] \in NsEntry /\ Len(st) \in Nat /\ st[j].prefix \in NsNames
         /\ st[j].uri \in NsUris \cup {NoUri} /\ st[j].decls \in Seq(Decl)
         /\ NodeAt(st, j) = st[j].node /\ NodeAt(st, j) \in 1..Len(ns)
         /\ ns[st[j].node].parent = NodeAt(st, j + 1)
         /\ ns[st[j].node].prefix = st[j].prefix
<1>1. st \in Seq(NsEntry)
  BY DEF OpenPath
<1>2. st[j] \in NsEntry /\ Len(st) \in Nat
  BY <1>1
<1>3. st[j].prefix \in NsNames /\ st[j].uri \in NsUris \cup {NoUri} /\ st[j].decls \in Seq(Decl)
  BY <1>2 DEF NsEntry
<1> QED BY <1>2, <1>3 DEF OpenPath, NodeAt

\* Where the entries from the top say nothing, the one below does.
LEMMA WalkDown ==
  ASSUME NEW ns, NEW st, NsNested(ns), OpenPath(ns, st), NEW i \in 1..(Len(st) + 1), NEW q,
         \A k \in 1..(i - 1) : InScope(ns, NodeAt(st, k), q) = InScope(ns, NodeAt(st, k + 1), q)
  PROVE  InScope(ns, NodeAt(st, 1), q) = InScope(ns, NodeAt(st, i), q)
<1>1. Len(st) \in Nat /\ i \in Nat /\ i >= 1 /\ i - 1 \in Nat
  BY DEF OpenPath
<1> DEFINE Good == {m \in 0..(i - 1) : InScope(ns, NodeAt(st, 1), q) = InScope(ns, NodeAt(st, m + 1), q)}
<1>2. 0 \in Good
  BY <1>1
<1>3. ASSUME NEW m \in 1..(i - 1), m - 1 \in Good
      PROVE  m \in Good
  <2>1. InScope(ns, NodeAt(st, 1), q) = InScope(ns, NodeAt(st, (m - 1) + 1), q)
    BY <1>3
  <2>2. (m - 1) + 1 = m /\ m \in 0..(i - 1)
    BY <1>1
  <2>3. InScope(ns, NodeAt(st, m), q) = InScope(ns, NodeAt(st, m + 1), q)
    OBVIOUS
  <2> QED BY <2>1, <2>2, <2>3
<1>4. \A m \in 0..(i - 1) : m \in Good
  <2> HIDE DEF Good
  <2> QED BY <1>1, <1>2, <1>3, UpTo
<1>5. i - 1 \in 0..(i - 1) /\ (i - 1) + 1 = i
  BY <1>1
<1>6. i - 1 \in Good
  BY <1>4, <1>5
<1> QED BY <1>5, <1>6

LEMMA ClearDown ==
  ASSUME NEW ns, NEW st, NsNested(ns), OpenPath(ns, st), PathClear(ns, NodeAt(st, 1))
  PROVE  \A j \in 1..Len(st) : PathClear(ns, st[j].node)
<1>1. PICK N \in Nat : N = Len(st)
  BY DEF OpenPath
<1> DEFINE Good == {m \in 0..N : PathClear(ns, NodeAt(st, m + 1))}
<1>2. 0 \in Good
  BY <1>1
<1>3. ASSUME NEW m \in 1..N, m - 1 \in Good
      PROVE  m \in Good
  <2>1. (m - 1) + 1 = m /\ m \in 0..N
    OBVIOUS
  <2>2. PathClear(ns, NodeAt(st, m))
    BY <1>3, <2>1
  <2>3. NodeAt(st, m) \in 1..Len(ns) /\ ns[NodeAt(st, m)].parent = NodeAt(st, m + 1)
    BY <1>1, NsEntryIs
  <2>4. PathClear(ns, NodeAt(st, m + 1))
    BY <2>2, <2>3, ClearIs
  <2> QED BY <2>1, <2>4
<1>4. \A m \in 0..N : m \in Good
  <2> HIDE DEF Good
  <2> QED BY <1>2, <1>3, UpTo
<1>5. ASSUME NEW j \in 1..Len(st)
      PROVE  PathClear(ns, st[j].node)
  <2>1. j - 1 \in 0..N /\ (j - 1) + 1 = j
    BY <1>1
  <2>2. j - 1 \in Good
    BY <1>4, <2>1
  <2>3. PathClear(ns, NodeAt(st, j))
    BY <2>1, <2>2
  <2> QED BY <2>3 DEF NodeAt
<1> QED BY <1>5

\* An entry that neither has nor lists a prefix says nothing of it.
LEMMA SilentEntry ==
  ASSUME NEW ns, NEW st, NsNested(ns), OpenPath(ns, st), EntriesTrue(ns, st),
         NEW q \in NsPrefixes, NEW j \in 1..Len(st),
         st[j].prefix # q, PlacesOf(st[j].decls, q) = {}
  PROVE  InScope(ns, NodeAt(st, j), q) = InScope(ns, NodeAt(st, j + 1), q)
<1>1. ListsWritten(ns, st[j])
  BY DEF EntriesTrue
<1>2. WrittenIn(ns, st[j].node, q) = {}
  BY <1>1 DEF ListsWritten
<1>3. /\ NodeAt(st, j) = st[j].node /\ st[j].node \in 1..Len(ns)
      /\ ns[st[j].node].parent = NodeAt(st, j + 1)
  BY NsEntryIs
<1>4. q \in NsNames
  BY DEF NsNames
<1>5. InScope(ns, st[j].node, q) = InScope(ns, ns[st[j].node].parent, q)
  BY <1>2, <1>3, <1>4, ScopeIs
<1> QED BY <1>3, <1>5

\* The answer k for a prefix q, read at element t.
PrefixAnswer(ns, k, q, t) ==
  /\ k.found = TRUE \/ (k.found = FALSE /\ k.uri = NoUri /\ InScope(ns, t, q) = NoUri)
  /\ k.uri \in NsUris \cup {NoUri}
  /\ PathClear(ns, t) => k.uri = InScope(ns, t, q)
  /\ k.found = TRUE /\ PathClear(ns, t) /\ k.uri = NoUri =>
       \E n \in 1..Len(ns) : ns[n].prefix = q /\ InScope(ns, n, q) = NoUri

LEMMA PrefixAnswered ==
  ASSUME NsNested(nsNodes), OpenPath(nsNodes, nsStack), EntriesTrue(nsNodes, nsStack),
         NEW q \in NsPrefixes
  PROVE  PrefixAnswer(nsNodes, XMLParserElementPrefixDefined(q), q, NodeAt(nsStack, 1))
<1> PICK k : k = XMLParserElementPrefixDefined(q)
  OBVIOUS
<1> PICK t : t = NodeAt(nsStack, 1)
  OBVIOUS
<1>0. SUFFICES PrefixAnswer(nsNodes, k, q, t)
  OBVIOUS
<1>1. nsStack \in Seq(NsEntry) /\ Len(nsStack) \in Nat /\ DOMAIN nsStack = 1..Len(nsStack)
  BY DEF OpenPath
<1>2. q \in NsNames /\ q # NoPrefix
  BY NsAssumption DEF NsNames
<1>3. PICK K : K = {i \in DOMAIN nsStack : \/ nsStack[i].prefix = q
                                          \/ PlacesOf(nsStack[i].decls, q) # {}}
  OBVIOUS
<1>4. \A j \in 1..Len(nsStack) : j \notin K =>
         InScope(nsNodes, NodeAt(nsStack, j), q) = InScope(nsNodes, NodeAt(nsStack, j + 1), q)
  BY <1>1, <1>3, SilentEntry
<1>5. CASE K = {}
  <2>1. k = [found |-> FALSE, uri |-> NoUri]
    BY <1>3, <1>5 DEF XMLParserElementPrefixDefined
  <2>2. PICK l : l = Len(nsStack) + 1
    OBVIOUS
  <2>3. l \in 1..(Len(nsStack) + 1) /\ \A j \in 1..(l - 1) : j \in 1..Len(nsStack)
    BY <1>1, <2>2
  <2>4. InScope(nsNodes, t, q) = InScope(nsNodes, NodeAt(nsStack, l), q)
    BY <1>4, <1>5, <2>3, WalkDown
  <2>5. NodeAt(nsStack, l) = 0
    BY <1>1, <2>2 DEF NodeAt
  <2>6. InScope(nsNodes, t, q) = NoUri
    BY <1>2, <2>4, <2>5, ScopeIs
  <2>7. k.found = FALSE /\ k.uri = NoUri
    BY <2>1
  <2> QED BY <2>6, <2>7 DEF PrefixAnswer
<1>6. CASE K # {}
  <2>1. K \subseteq Nat /\ K \subseteq 1..Len(nsStack)
    BY <1>1, <1>3
  <2>2. PICK i : i = Min(K)
    OBVIOUS
  <2>3. i \in K /\ i \in 1..Len(nsStack) /\ \A j \in K : i <= j
    BY <1>6, <2>1, <2>2, LeastIs
  <2>4. PICK e : e = nsStack[i]
    OBVIOUS
  <2>5. k.found = TRUE /\ k.uri = IF e.prefix = q THEN e.uri ELSE e.decls[Min(PlacesOf(e.decls, q))].uri
    BY <1>3, <1>6, <2>2, <2>4 DEF XMLParserElementPrefixDefined
  <2>6. InScope(nsNodes, t, q) = InScope(nsNodes, NodeAt(nsStack, i), q)
    <3>1. i \in 1..(Len(nsStack) + 1)
      BY <1>1, <2>3
    <3>2. \A j \in 1..(i - 1) : j \in 1..Len(nsStack) /\ j \notin K
      BY <1>1, <2>1, <2>3
    <3> QED BY <1>4, <3>1, <3>2, WalkDown
  <2>7. /\ e \in NsEntry /\ e.prefix \in NsNames /\ e.uri \in NsUris \cup {NoUri} /\ e.decls \in Seq(Decl)
        /\ NodeAt(nsStack, i) = e.node /\ e.node \in 1..Len(nsNodes) /\ nsNodes[e.node].prefix = e.prefix
    BY <2>3, <2>4, NsEntryIs
  <2>8. ListsWritten(nsNodes, e) /\ KnowsOwn(nsNodes, e)
    BY <2>3, <2>4 DEF EntriesTrue
  <2>9. PathClear(nsNodes, t) => PathClear(nsNodes, e.node)
    BY <2>3, <2>4, ClearDown
  <2>10. CASE e.prefix = q
    <3>1. k.uri = e.uri
      BY <2>5, <2>10
    <3>2. PathClear(nsNodes, t) => k.uri = InScope(nsNodes, e.node, q)
      BY <3>1, <2>8, <2>9, <2>10 DEF KnowsOwn
    <3>3. k.uri \in NsUris \cup {NoUri}
      BY <3>1, <2>7
    <3>4. PathClear(nsNodes, t) => k.uri = InScope(nsNodes, t, q)
      BY <3>2, <2>6, <2>7
    <3>5. k.found = TRUE /\ nsNodes[e.node].prefix = q /\ e.node \in 1..Len(nsNodes)
      BY <2>5, <2>7, <2>10
    <3> QED BY <3>2, <3>3, <3>4, <3>5 DEF PrefixAnswer
  <2>11. CASE e.prefix # q
    <3>1. PICK p : p = Min(PlacesOf(e.decls, q))
      OBVIOUS
    <3>2. PlacesOf(e.decls, q) # {} /\ PlacesOf(e.decls, q) \subseteq Nat
      <4>1. PlacesOf(e.decls, q) # {}
        BY <1>3, <2>3, <2>4, <2>11
      <4>2. e.decls \in Seq(Decl) /\ DOMAIN e.decls = 1..Len(e.decls) /\ Len(e.decls) \in Nat
        BY <2>7
      <4>3. PlacesOf(e.decls, q) \subseteq Nat
        BY <4>2 DEF PlacesOf
      <4> QED BY <4>1, <4>3
    <3>3. p \in PlacesOf(e.decls, q)
      BY <3>1, <3>2, LeastIs
    <3>4. WrittenIn(nsNodes, e.node, q) # {} /\ e.decls[p].uri = WrittenUri(nsNodes, e.node, q)
      BY <2>8, <2>11, <3>2, <3>3 DEF ListsWritten
    <3>5. k.uri = WrittenUri(nsNodes, e.node, q)
      BY <2>5, <2>11, <3>1, <3>4
    <3>6. InScope(nsNodes, e.node, q) = WrittenUri(nsNodes, e.node, q)
      BY <1>2, <2>7, <3>4, ScopeIs
    <3>7. k.uri \in NsUris /\ k.uri # NoUri
      BY <1>2, <2>7, <3>4, <3>5, WrittenIs
    <3>8. k.uri = InScope(nsNodes, t, q)
      BY <2>6, <2>7, <3>5, <3>6
    <3>9. k.found = TRUE
      BY <2>5
    <3> QED BY <3>7, <3>8, <3>9 DEF PrefixAnswer
  <2> QED BY <2>10, <2>11
<1> QED BY <1>5, <1>6

\* The answer for elements without prefix.
DefaultAnswer(ns, k, t) ==
  /\ \/ k.found = TRUE /\ k.uri \in NsUris /\ k.uri # NoUri
     \/ k.found = FALSE /\ k.uri = NoUri
  /\ k.uri \in NsUris \cup {NoUri}
  /\ PathClear(ns, t) => k.uri = InScope(ns, t, NoPrefix)

LEMMA DefaultAnswered ==
  ASSUME NsNested(nsNodes), OpenPath(nsNodes, nsStack), EntriesTrue(nsNodes, nsStack)
  PROVE  DefaultAnswer(nsNodes, XMLParserHasDefaultNamespace, NodeAt(nsStack, 1))
<1> PICK k : k = XMLParserHasDefaultNamespace
  OBVIOUS
<1> PICK t : t = NodeAt(nsStack, 1)
  OBVIOUS
<1>0. SUFFICES DefaultAnswer(nsNodes, k, t)
  OBVIOUS
<1>1. nsStack \in Seq(NsEntry) /\ Len(nsStack) \in Nat /\ DOMAIN nsStack = 1..Len(nsStack)
  BY DEF OpenPath
<1>2. NoPrefix \in NsNames
  BY DEF NsNames
<1>3. PICK K : K = {i \in DOMAIN nsStack : nsStack[i].prefix = NoPrefix /\ nsStack[i].uri # NoUri}
  OBVIOUS
<1>4. ASSUME NEW j \in 1..Len(nsStack), j \notin K, PathClear(nsNodes, t)
      PROVE  InScope(nsNodes, NodeAt(nsStack, j), NoPrefix) = InScope(nsNodes, NodeAt(nsStack, j + 1), NoPrefix)
  <2>1. PICK e : e = nsStack[j]
    OBVIOUS
  <2>2. PICK n : n = e.node
    OBVIOUS
  <2>3. /\ e.prefix \in NsNames /\ NodeAt(nsStack, j) = n /\ n \in 1..Len(nsNodes)
        /\ nsNodes[n].parent = NodeAt(nsStack, j + 1) /\ nsNodes[n].prefix = e.prefix
    BY <2>1, <2>2, NsEntryIs
  <2>4. PathClear(nsNodes, n)
    BY <1>4, <2>1, <2>2, ClearDown
  <2>5. WrittenIn(nsNodes, n, NoPrefix) = {}
    <3>1. CASE e.prefix = NoPrefix
      <4>1. e.uri = NoUri
        BY <1>1, <1>3, <1>4, <2>1, <3>1
      <4>2. e.uri = InScope(nsNodes, n, NoPrefix)
        BY <2>1, <2>2, <2>4, <3>1 DEF EntriesTrue, KnowsOwn
      <4>3. SUFFICES ASSUME WrittenIn(nsNodes, n, NoPrefix) # {}
                     PROVE  FALSE
        OBVIOUS
      <4>4. InScope(nsNodes, n, NoPrefix) = WrittenUri(nsNodes, n, NoPrefix)
        BY <1>2, <2>3, <4>3, ScopeIs
      <4>5. WrittenUri(nsNodes, n, NoPrefix) # NoUri
        BY <1>2, <2>3, <4>3, WrittenIs
      <4> QED BY <4>1, <4>2, <4>4, <4>5
    <3>2. CASE e.prefix # NoPrefix
      <4>1. ~TwoInOne(nsNodes, n)
        BY <2>3, <2>4, ClearIs
      <4> QED BY <4>1, <3>2, <2>3 DEF TwoInOne, WrittenIn
    <3> QED BY <3>1, <3>2
  <2>6. InScope(nsNodes, n, NoPrefix) = InScope(nsNodes, nsNodes[n].parent, NoPrefix)
    BY <1>2, <2>3, <2>5, ScopeIs
  <2> QED BY <2>3, <2>6
<1>5. CASE K = {}
  <2>1. k = [found |-> FALSE, uri |-> NoUri]
    BY <1>3, <1>5 DEF XMLParserHasDefaultNamespace
  <2>2. ASSUME PathClear(nsNodes, t)
        PROVE  InScope(nsNodes, t, NoPrefix) = NoUri
    <3>1. PICK l : l = Len(nsStack) + 1
      OBVIOUS
    <3>2. l \in 1..(Len(nsStack) + 1) /\ \A j \in 1..(l - 1) : j \in 1..Len(nsStack)
      BY <1>1, <3>1
    <3>3. \A j \in 1..(l - 1) : InScope(nsNodes, NodeAt(nsStack, j), NoPrefix) = InScope(nsNodes, NodeAt(nsStack, j + 1), NoPrefix)
      BY <1>4, <1>5, <2>2, <3>2
    <3>4. InScope(nsNodes, t, NoPrefix) = InScope(nsNodes, NodeAt(nsStack, l), NoPrefix)
      BY <3>2, <3>3, WalkDown
    <3>5. NodeAt(nsStack, l) = 0
      BY <1>1, <3>1 DEF NodeAt
    <3> QED BY <1>2, <3>4, <3>5, ScopeIs
  <2>3. k.found = FALSE /\ k.uri = NoUri
    BY <2>1
  <2> QED BY <2>2, <2>3 DEF DefaultAnswer
<1>6. CASE K # {}
  <2>1. K \subseteq Nat /\ K \subseteq 1..Len(nsStack)
    BY <1>1, <1>3
  <2>2. PICK i : i = Min(K)
    OBVIOUS
  <2>3. i \in K /\ i \in 1..Len(nsStack) /\ \A j \in K : i <= j
    BY <1>6, <2>1, <2>2, LeastIs
  <2>4. PICK e : e = nsStack[i]
    OBVIOUS
  <2>5. k.found = TRUE /\ k.uri = e.uri
    BY <1>3, <1>6, <2>2, <2>4 DEF XMLParserHasDefaultNamespace
  <2>6. e.prefix = NoPrefix /\ e.uri # NoUri
    BY <1>3, <2>3, <2>4
  <2>7. e.uri \in NsUris \cup {NoUri} /\ NodeAt(nsStack, i) = e.node
    BY <2>3, <2>4, NsEntryIs
  <2>8. ASSUME PathClear(nsNodes, t)
        PROVE  e.uri = InScope(nsNodes, t, NoPrefix)
    <3>1. i \in 1..(Len(nsStack) + 1)
      BY <1>1, <2>3
    <3>2. \A j \in 1..(i - 1) : j \in 1..Len(nsStack) /\ j \notin K
      BY <1>1, <2>1, <2>3
    <3>3. \A j \in 1..(i - 1) : InScope(nsNodes, NodeAt(nsStack, j), NoPrefix) = InScope(nsNodes, NodeAt(nsStack, j + 1), NoPrefix)
      BY <1>4, <2>8, <3>2
    <3>4. InScope(nsNodes, t, NoPrefix) = InScope(nsNodes, NodeAt(nsStack, i), NoPrefix)
      BY <3>1, <3>3, WalkDown
    <3>5. PathClear(nsNodes, e.node)
      BY <2>3, <2>4, <2>8, ClearDown
    <3>6. e.uri = InScope(nsNodes, e.node, NoPrefix)
      BY <2>3, <2>4, <2>6, <3>5 DEF EntriesTrue, KnowsOwn
    <3> QED BY <2>7, <3>4, <3>6
  <2> QED BY <2>5, <2>6, <2>7, <2>8 DEF DefaultAnswer
<1> QED BY <1>5, <1>6

----------------------------------------------------------------------------
(* The invariant of the elements and their namespaces.                     *)

\* The first c elements, whose tags are complete, have their prefixes declared.
NamedUpTo(ns, c) ==
  \A n \in 1..c : ns[n].prefix # NoPrefix => InScope(ns, n, ns[n].prefix) # NoUri

\* The element that waits has no URI, and nobody declared its prefix; if it
\* has none it takes its first attribute.
Waiting(ns, need, c) ==
  need # 0 =>
    /\ ns[need].uri = NoUri
    /\ ns[need].prefix # NoPrefix => InScope(ns, need, ns[need].prefix) = NoUri
    /\ ns[need].prefix = NoPrefix => need > c /\ ns[need].wrote = <<>>

\* Element n has the URI its prefix means, or is one of the exceptions.
UriMeant(ns, n) ==
  PathClear(ns, n) => \/ ns[n].uri = InScope(ns, n, ns[n].prefix)
                      \/ DeclaresAgain(ns, n)
                      \/ DeclaresLate(ns, n)

\* An element in its tag that does not wait has a URI already.
NewHasUri(ns, need, c) ==
  LET n == Len(ns)
  IN  /\ c < n /\ need # n /\ PathClear(ns, n)
      /\ ns[n].prefix # NoPrefix \/ ns[n].wrote = <<>>
      => ns[n].uri # NoUri

UrisMeant(ns, need, c) ==
  NamedUpTo(ns, c) => (\A n \in 1..Len(ns) : UriMeant(ns, n)) /\ NewHasUri(ns, need, c)

\* The number of elements whose tags are complete.
CompleteOnes == IF nsTag THEN Len(nsNodes) - 1 ELSE Len(nsNodes)

NsInv ==
  /\ NsNested(nsNodes) /\ OpenPath(nsNodes, nsStack) /\ EntriesTrue(nsNodes, nsStack)
  /\ nsNeed \in 0..Len(nsNodes)
  /\ nsTag => nsStack # <<>> /\ NodeAt(nsStack, 1) = Len(nsNodes)
  /\ Waiting(nsNodes, nsNeed, CompleteOnes)
  /\ UrisMeant(nsNodes, nsNeed, CompleteOnes)
  /\ nsEnd # "none" => nsTag /\ nsNeed # 0 /\ nsNeed # NodeAt(nsStack, 1)

LEMMA NsStarts ==
  ASSUME NsInit
  PROVE  NsInv
<1>1. nsStack = <<>> /\ nsNodes = <<>> /\ nsNeed = 0 /\ nsTag = FALSE /\ nsEnd = "none"
  BY DEF NsInit
<1>2. NsNested(nsNodes) /\ Len(nsNodes) = 0
  BY <1>1 DEF NsNested
<1>3. OpenPath(nsNodes, nsStack) /\ EntriesTrue(nsNodes, nsStack)
  BY <1>1 DEF OpenPath, EntriesTrue
<1>4. CompleteOnes = 0
  BY <1>1, <1>2 DEF CompleteOnes
<1>5. Waiting(nsNodes, nsNeed, CompleteOnes)
  BY <1>1 DEF Waiting
<1>6. UrisMeant(nsNodes, nsNeed, CompleteOnes)
  BY <1>2, <1>4 DEF UrisMeant, NewHasUri
<1> QED BY <1>1, <1>2, <1>3, <1>5, <1>6 DEF NsInv

\* The number of complete elements, and what the top of the stack is.
LEMMA CompleteIs ==
  ASSUME NsInv
  PROVE  /\ Len(nsNodes) \in Nat /\ CompleteOnes \in Int /\ CompleteOnes <= Len(nsNodes)
         /\ nsTag => CompleteOnes = Len(nsNodes) - 1 /\ nsStack # <<>> /\ Len(nsNodes) \in 1..Len(nsNodes)
                     /\ Head(nsStack) = nsStack[1] /\ 1 \in 1..Len(nsStack)
                     /\ nsStack[1].node = Len(nsNodes)
         /\ ~nsTag => CompleteOnes = Len(nsNodes)
<1>1. NsNested(nsNodes) /\ OpenPath(nsNodes, nsStack)
  BY DEF NsInv
<1>2. Len(nsNodes) \in Nat /\ nsStack \in Seq(NsEntry)
  BY <1>1 DEF NsNested, OpenPath
<1>3. ASSUME nsTag
      PROVE  /\ nsStack # <<>> /\ Len(nsNodes) \in 1..Len(nsNodes)
             /\ Head(nsStack) = nsStack[1] /\ 1 \in 1..Len(nsStack)
             /\ nsStack[1].node = Len(nsNodes)
  <2>1. nsStack # <<>> /\ NodeAt(nsStack, 1) = Len(nsNodes)
    BY <1>3 DEF NsInv
  <2>2. 1 \in 1..Len(nsStack) /\ Head(nsStack) = nsStack[1]
    BY <1>2, <2>1
  <2>3. nsStack[1].node = Len(nsNodes) /\ nsStack[1].node \in 1..Len(nsNodes)
    BY <1>1, <2>1, <2>2, NsEntryIs
  <2> QED BY <2>1, <2>2, <2>3
<1> QED BY <1>2, <1>3 DEF CompleteOnes

\* With all prefixes declared none of the complete elements waits.
LEMMA NobodyWaits ==
  ASSUME NEW ns, NEW need, NEW c, Waiting(ns, need, c), NamedUpTo(ns, c),
         need # 0, need \in Nat, c \in Int
  PROVE  need > c
<1>1. SUFFICES ASSUME need \in 1..c
               PROVE  FALSE
  OBVIOUS
<1>2. ns[need].prefix # NoPrefix
  BY <1>1 DEF Waiting
<1> QED BY <1>1, <1>2 DEF Waiting, NamedUpTo

LEMMA NsHolds ==
  ASSUME NsInv
  PROVE  NamespaceAsMeant /\ WaitingIsUndeclared
<1>1. /\ NsNested(nsNodes) /\ nsNeed \in 0..Len(nsNodes)
      /\ Waiting(nsNodes, nsNeed, CompleteOnes) /\ UrisMeant(nsNodes, nsNeed, CompleteOnes)
      /\ nsEnd # "none" => nsTag /\ nsNeed # 0 /\ nsNeed # NodeAt(nsStack, 1)
  BY DEF NsInv
<1>2. DOMAIN nsNodes = 1..Len(nsNodes)
  BY <1>1 DEF NsNested
<1>3. nsTag => Head(nsStack).node = Len(nsNodes) /\ NodeAt(nsStack, 1) = Len(nsNodes)
  BY CompleteIs DEF NodeAt
<1>4. WaitingIsUndeclared
  BY <1>1, <1>3 DEF WaitingIsUndeclared, Waiting
<1>5. ASSUME WellNamed
      PROVE  NamedUpTo(nsNodes, CompleteOnes)
  <2>1. ASSUME NEW n \in 1..CompleteOnes, nsNodes[n].prefix # NoPrefix
        PROVE  InScope(nsNodes, n, nsNodes[n].prefix) # NoUri
    <3>1. n \in 1..Len(nsNodes) /\ (nsTag => n # Len(nsNodes))
      BY CompleteIs
    <3>2. Complete(n)
      BY <1>3, <3>1 DEF Complete
    <3> QED BY <1>2, <1>5, <2>1, <3>1, <3>2 DEF WellNamed, Meant
  <2> QED BY <2>1 DEF NamedUpTo
<1>6. ASSUME WellNamed
      PROVE  nsEnd = "none"
  <2>1. SUFFICES ASSUME nsEnd # "none"
                 PROVE  FALSE
    OBVIOUS
  <2>2. /\ nsNeed # 0 /\ nsNeed # Len(nsNodes) /\ nsNeed \in Nat /\ nsNeed <= Len(nsNodes)
        /\ CompleteOnes = Len(nsNodes) - 1 /\ Len(nsNodes) \in Nat /\ CompleteOnes \in Int
    BY <1>1, <1>3, <2>1, CompleteIs
  <2>3. nsNeed > CompleteOnes
    BY <1>1, <1>5, <1>6, <2>2, NobodyWaits
  <2> QED BY <2>2, <2>3
<1>7. ASSUME WellNamed, NEW n \in 1..Len(nsNodes)
      PROVE  \/ nsNodes[n].uri = Meant(nsNodes, n)
             \/ DeclaresLate(nsNodes, n)
             \/ DeclaresAgain(nsNodes, n)
             \/ \E m \in OnPath(nsNodes, n) : TwoInOne(nsNodes, m)
  <2>1. UriMeant(nsNodes, n)
    BY <1>1, <1>5, <1>7 DEF UrisMeant
  <2> QED BY <2>1 DEF UriMeant, PathClear, Meant
<1>8. NamespaceAsMeant
  BY <1>2, <1>6, <1>7 DEF NamespaceAsMeant
<1> QED BY <1>4, <1>8

\* Where the first k elements stay, so does what is said of their entries.
LEMMA EntryStays ==
  ASSUME NEW ns, NEW nt, NEW k, SameElements(ns, nt, k), NEW e \in NsEntry, e.node \in 1..k,
         ListsWritten(ns, e), KnowsOwn(ns, e)
  PROVE  ListsWritten(nt, e) /\ KnowsOwn(nt, e)
<1>1. PICK n : n = e.node
  OBVIOUS
<1>2. n \in 1..k /\ n \in 0..k /\ e.prefix \in NsNames
  BY <1>1 DEF NsEntry
<1>3. nt[n].wrote = ns[n].wrote
  BY <1>2 DEF SameElements
<1>4. \A q : WrittenIn(nt, n, q) = WrittenIn(ns, n, q) /\ WrittenUri(nt, n, q) = WrittenUri(ns, n, q)
  BY <1>3 DEF WrittenIn, WrittenUri
<1>5. ListsWritten(nt, e)
  BY <1>1, <1>4 DEF ListsWritten
<1>6. SameSaid(ns, nt, n)
  BY <1>2, ScopesStay
<1>7. InScope(nt, n, e.prefix) = InScope(ns, n, e.prefix) /\ (PathClear(nt, n) <=> PathClear(ns, n))
  BY <1>2, <1>6 DEF SameSaid
<1>8. KnowsOwn(nt, e)
  BY <1>1, <1>7 DEF KnowsOwn
<1> QED BY <1>5, <1>8

LEMMA UriStays ==
  ASSUME NEW ns, NEW nt, NEW k, SameElements(ns, nt, k), NEW n \in 1..k,
         nt[n].uri = ns[n].uri, UriMeant(ns, n)
  PROVE  UriMeant(nt, n)
<1>1. PICK p : p = ns[n].parent
  OBVIOUS
<1>2. PICK q : q = ns[n].prefix
  OBVIOUS
<1>3. NsNested(ns) /\ n \in 1..Len(ns) /\ n \in 0..k /\ k \in Nat
  BY DEF SameElements, NsNested
<1>4. q \in NsNames /\ p \in 0..(n - 1)
  BY <1>1, <1>2, <1>3, ElementIs
<1>5. p \in 0..k
  BY <1>3, <1>4
<1>6. nt[n].prefix = q /\ nt[n].parent = p /\ nt[n].wrote = ns[n].wrote
  BY <1>1, <1>2 DEF SameElements
<1>7. SameSaid(ns, nt, n) /\ SameSaid(ns, nt, p)
  BY <1>3, <1>5, ScopesStay
<1>8. /\ InScope(nt, n, q) = InScope(ns, n, q) /\ InScope(nt, p, q) = InScope(ns, p, q)
      /\ PathClear(nt, n) <=> PathClear(ns, n)
  BY <1>4, <1>7 DEF SameSaid
<1>9. DeclaresAgain(nt, n) <=> DeclaresAgain(ns, n)
  BY <1>1, <1>2, <1>6, <1>8 DEF DeclaresAgain
<1>10. DeclaresLate(nt, n) <=> DeclaresLate(ns, n)
  BY <1>2, <1>6 DEF DeclaresLate
<1> QED BY <1>2, <1>6, <1>8, <1>9, <1>10 DEF UriMeant

LEMMA NamedBefore ==
  ASSUME NEW ns, NEW nt, NEW k, SameElements(ns, nt, k), NEW c \in Int, NEW d \in Int,
         c <= k, c <= d, NamedUpTo(nt, d)
  PROVE  NamedUpTo(ns, c)
<1>1. ASSUME NEW n \in 1..c, ns[n].prefix # NoPrefix
      PROVE  InScope(ns, n, ns[n].prefix) # NoUri
  <2>1. PICK q : q = ns[n].prefix
    OBVIOUS
  <2>2. NsNested(ns) /\ n \in 1..k /\ n \in 0..k /\ n \in 1..d /\ n \in 1..Len(ns)
    BY DEF SameElements, NsNested
  <2>3. q \in NsNames
    BY <2>1, <2>2, ElementIs
  <2>4. nt[n].prefix = q
    BY <2>1, <2>2 DEF SameElements
  <2>5. SameSaid(ns, nt, n)
    BY <2>2, ScopesStay
  <2>6. InScope(nt, n, q) = InScope(ns, n, q)
    BY <2>3, <2>5 DEF SameSaid
  <2> QED BY <1>1, <2>1, <2>2, <2>4, <2>6 DEF NamedUpTo
<1> QED BY <1>1 DEF NamedUpTo

\* An element is put behind the others, and its entry on top.
LEMMA StackGrows ==
  ASSUME NEW ns, NEW nt, NEW k, SameElements(ns, nt, k), NEW st, NEW e \in NsEntry, NEW su,
         su = <<e>> \o st, k = Len(ns), Len(nt) = k + 1,
         OpenPath(ns, st), EntriesTrue(ns, st),
         e.node = k + 1, e.prefix = nt[k + 1].prefix, nt[k + 1].parent = NodeAt(st, 1),
         ListsWritten(nt, e), KnowsOwn(nt, e)
  PROVE  OpenPath(nt, su) /\ EntriesTrue(nt, su) /\ NodeAt(su, 1) = k + 1 /\ su # <<>>
<1>1. st \in Seq(NsEntry) /\ k \in Nat /\ NsNested(ns)
  BY DEF OpenPath, SameElements, NsNested
<1>2. su \in Seq(NsEntry) /\ Consed(su, e, st)
  BY <1>1, ConsIs, Zenon
<1>3. PICK l : l = Len(st)
  OBVIOUS
<1>4. l \in Nat /\ Len(su) = l + 1 /\ su[1] = e /\ \A j \in 1..l : su[j + 1] = st[j]
  BY <1>1, <1>2, <1>3 DEF Consed
<1>5. NodeAt(su, 1) = k + 1 /\ \A j \in 1..(l + 1) : NodeAt(su, j + 1) = NodeAt(st, j)
  <2>1. 1 \in 1..Len(su)
    BY <1>4
  <2>2. NodeAt(su, 1) = k + 1
    BY <1>4, <2>1 DEF NodeAt
  <2>3. ASSUME NEW j \in 1..(l + 1)
        PROVE  NodeAt(su, j + 1) = NodeAt(st, j)
    <3>1. CASE j = l + 1
      <4>1. j + 1 \notin 1..Len(su) /\ j \notin 1..Len(st)
        BY <1>3, <1>4, <3>1
      <4> QED BY <4>1 DEF NodeAt
    <3>2. CASE j # l + 1
      <4>1. j + 1 \in 1..Len(su) /\ j \in 1..Len(st) /\ j \in 1..l
        BY <1>3, <1>4, <3>2
      <4> QED BY <1>4, <4>1 DEF NodeAt
    <3> QED BY <3>1, <3>2
  <2> QED BY <2>2, <2>3
<1>6. ASSUME NEW j \in 1..Len(su)
      PROVE  /\ su[j].node \in 1..Len(nt) /\ su[j].prefix = nt[su[j].node].prefix
             /\ nt[su[j].node].parent = NodeAt(su, j + 1)
             /\ ListsWritten(nt, su[j]) /\ KnowsOwn(nt, su[j])
  <2>1. CASE j = 1
    <3>1. NodeAt(su, j + 1) = NodeAt(st, 1)
      BY <1>4, <1>5, <2>1
    <3>2. k + 1 \in 1..Len(nt)
      BY <1>1
    <3> QED BY <1>4, <2>1, <3>1, <3>2
  <2>2. CASE j # 1
    <3>1. PICK i \in 1..l : i + 1 = j
      <4>1. j - 1 \in 1..l /\ (j - 1) + 1 = j
        BY <1>4, <2>2
      <4> QED BY <4>1
    <3>2. PICK f : f = st[i]
      OBVIOUS
    <3>3. su[j] = f /\ NodeAt(su, j + 1) = NodeAt(st, j) /\ i \in 1..Len(st)
      <4>1. j \in 1..(l + 1)
        BY <1>4
      <4> QED BY <1>3, <1>4, <1>5, <3>1, <3>2, <4>1
    <3>4. /\ f \in NsEntry /\ f.node \in 1..Len(ns) /\ ns[f.node].parent = NodeAt(st, j)
          /\ ns[f.node].prefix = f.prefix
      BY <1>1, <3>1, <3>2, <3>3, NsEntryIs
    <3>5. ListsWritten(ns, f) /\ KnowsOwn(ns, f)
      BY <3>2, <3>3 DEF EntriesTrue
    <3>6. ListsWritten(nt, f) /\ KnowsOwn(nt, f)
      BY <3>4, <3>5, EntryStays
    <3>7. f.node \in 1..k /\ f.node \in 1..Len(nt)
      BY <1>1, <3>4
    <3>8. nt[f.node].prefix = f.prefix /\ nt[f.node].parent = NodeAt(st, j)
      BY <3>4, <3>7 DEF SameElements
    <3> QED BY <3>3, <3>6, <3>7, <3>8
  <2> QED BY <2>1, <2>2
<1>7. su # <<>>
  BY <1>2, <1>4
<1> QED BY <1>2, <1>5, <1>6, <1>7 DEF OpenPath, EntriesTrue

\* A new element is put behind the others.
IsPutBehind(nt, ns, r) ==
  Len(nt) = Len(ns) + 1 /\ nt[Len(ns) + 1] = r /\ \A m \in 1..Len(ns) : nt[m] = ns[m]

LEMMA ElementsGrow ==
  ASSUME NEW ns, NsNested(ns), NEW r \in NsElement, NEW t \in 0..Len(ns), r.parent = t,
         NEW nt, nt = Append(ns, r)
  PROVE  IsPutBehind(nt, ns, r) /\ SameElements(ns, nt, Len(ns))
<1>1. ns \in Seq(NsElement) /\ Len(ns) \in Nat /\ \A m \in 1..Len(ns) : ns[m].parent \in 0..(m - 1)
  BY DEF NsNested
<1>2. nt \in Seq(NsElement) /\ IsPutBehind(nt, ns, r)
  BY <1>1 DEF IsPutBehind
<1>3. NsNested(nt)
  <2>1. ASSUME NEW m \in 1..Len(nt)
        PROVE  nt[m].parent \in 0..(m - 1)
    <3>1. m \in 1..Len(ns) \/ m = Len(ns) + 1
      BY <1>1, <1>2 DEF IsPutBehind
    <3>2. CASE m \in 1..Len(ns)
      BY <1>1, <1>2, <3>2 DEF IsPutBehind
    <3>3. CASE m = Len(ns) + 1
      BY <1>1, <1>2, <3>3 DEF IsPutBehind
    <3> QED BY <3>1, <3>2, <3>3
  <2> QED BY <1>2, <2>1 DEF NsNested
<1>4. Len(ns) \in 0..Len(ns) /\ Len(ns) \in 0..Len(nt)
  BY <1>1, <1>2 DEF IsPutBehind
<1> QED BY <1>2, <1>3, <1>4 DEF SameElements, IsPutBehind

\* What an element says that has no attribute yet.
LEMMA NewSays ==
  ASSUME NEW ns, NsNested(ns), NEW n \in 1..Len(ns), ns[n].wrote = <<>>, NEW t, t = ns[n].parent
  PROVE  /\ \A q : WrittenIn(ns, n, q) = {}
         /\ \A q \in NsNames : InScope(ns, n, q) = InScope(ns, t, q)
         /\ PathClear(ns, n) => PathClear(ns, t)
<1>1. \A q : WrittenIn(ns, n, q) = {}
  BY DEF WrittenIn, PlacesOf
<1>2. \A q \in NsNames : InScope(ns, n, q) = InScope(ns, t, q)
  BY <1>1, ScopeIs
<1> QED BY <1>1, <1>2, ClearIs

\* What the parser knows of the prefix of a new element n in element t.
StartAnswer(ns, k, q, t) ==
  /\ q # NoPrefix => PrefixAnswer(ns, k, q, t)
  /\ q = NoPrefix => DefaultAnswer(ns, k, t)

LEMMA NsStartsElement ==
  ASSUME NsInv, NEW prefix \in NsNames, NEW local \in NsLocals, NEW attributes \in BOOLEAN,
         NsStartTag(prefix, local, attributes)
  PROVE  NsInv'
<1>1. /\ NsNested(nsNodes) /\ OpenPath(nsNodes, nsStack) /\ EntriesTrue(nsNodes, nsStack)
      /\ nsNeed \in 0..Len(nsNodes)
      /\ Waiting(nsNodes, nsNeed, CompleteOnes) /\ UrisMeant(nsNodes, nsNeed, CompleteOnes)
  BY DEF NsInv
<1>2. PICK ns : ns = nsNodes
  OBVIOUS
<1>3. PICK nt : nt = nsNodes'
  OBVIOUS
<1>4. PICK l \in Nat : l = Len(ns)
  BY <1>1, <1>2 DEF NsNested
<1>5. PICK n \in Nat : n = l + 1
  OBVIOUS
<1>6. PICK k : k = IF prefix = NoPrefix THEN XMLParserHasDefaultNamespace
                   ELSE XMLParserElementPrefixDefined(prefix)
  OBVIOUS
<1>7. PICK t : t = NodeAt(nsStack, 1)
  OBVIOUS
<1>8. t \in 0..l /\ t = IF nsStack = <<>> THEN 0 ELSE Head(nsStack).node
  <2>1. nsStack \in Seq(NsEntry)
    BY <1>1 DEF OpenPath
  <2>2. CASE nsStack = <<>>
    BY <1>4, <1>7, <2>2 DEF NodeAt
  <2>3. CASE nsStack # <<>>
    <3>1. 1 \in 1..Len(nsStack) /\ Head(nsStack) = nsStack[1]
      BY <2>1, <2>3
    <3>2. NodeAt(nsStack, 1) = nsStack[1].node /\ NodeAt(nsStack, 1) \in 1..l
      BY <1>1, <1>2, <1>4, <3>1, NsEntryIs
    <3> QED BY <1>7, <2>3, <3>1, <3>2
  <2> QED BY <2>2, <2>3
<1>9. StartAnswer(ns, k, prefix, t)
  <2>1. prefix # NoPrefix => prefix \in NsPrefixes
    BY DEF NsNames
  <2> QED BY <1>1, <1>2, <1>6, <1>7, <2>1, PrefixAnswered, DefaultAnswered DEF StartAnswer
<1>10. k.uri \in NsUris \cup {NoUri}
  BY <1>9 DEF StartAnswer, PrefixAnswer, DefaultAnswer
<1>11. PICK r : r = [prefix |-> prefix, local |-> local, uri |-> k.uri, wrote |-> <<>>, parent |-> t]
  OBVIOUS
<1>12. /\ r \in NsElement /\ r.prefix = prefix /\ r.uri = k.uri /\ r.wrote = <<>> /\ r.parent = t
  <2>1. <<>> \in Seq(Decl \cup {Plain})
    OBVIOUS
  <2>2. t \in Nat
    BY <1>8
  <2> QED BY <1>10, <1>11, <2>1, <2>2 DEF NsElement
<1>13. PICK e : e = [node |-> n, prefix |-> prefix, uri |-> k.uri, decls |-> <<>>]
  OBVIOUS
<1>14. e \in NsEntry /\ e.node = n /\ e.prefix = prefix /\ e.uri = k.uri /\ e.decls = <<>>
  <2>1. <<>> \in Seq(Decl)
    OBVIOUS
  <2> QED BY <1>10, <1>13, <2>1 DEF NsEntry
<1>15. /\ nt = Append(ns, r) /\ nsStack' = <<e>> \o nsStack
       /\ nsNeed' = IF ~k.found /\ (prefix # NoPrefix \/ attributes) THEN n ELSE nsNeed
       /\ nsTag' = attributes /\ nsEnd' = nsEnd /\ nsEnd = "none" /\ ~nsTag
  BY <1>2, <1>3, <1>4, <1>5, <1>6, <1>8, <1>11, <1>13 DEF NsStartTag
<1>16. IsPutBehind(nt, ns, r) /\ SameElements(ns, nt, l)
  BY <1>1, <1>2, <1>4, <1>8, <1>12, <1>15, ElementsGrow
<1>17. NsNested(nt) /\ Len(nt) = n /\ n \in 1..Len(nt) /\ nt[n] = r /\ \A m \in 1..l : nt[m] = ns[m]
  BY <1>4, <1>5, <1>16 DEF SameElements, IsPutBehind
<1>18. /\ \A q : WrittenIn(nt, n, q) = {}
       /\ \A q \in NsNames : InScope(nt, n, q) = InScope(nt, t, q)
       /\ PathClear(nt, n) => PathClear(nt, t)
  BY <1>12, <1>17, NewSays
<1>19. SameSaid(ns, nt, t)
  BY <1>8, <1>16, ScopesStay
<1>20. /\ \A q \in NsNames : InScope(nt, n, q) = InScope(ns, t, q)
       /\ PathClear(nt, n) => PathClear(ns, t)
  BY <1>18, <1>19 DEF SameSaid
<1>21. PathClear(nt, n) => k.uri = InScope(nt, n, prefix)
  BY <1>9, <1>20 DEF StartAnswer, PrefixAnswer, DefaultAnswer
<1>22. ListsWritten(nt, e) /\ KnowsOwn(nt, e)
  <2>1. \A q : PlacesOf(e.decls, q) = {}
    BY <1>14 DEF PlacesOf
  <2>2. ListsWritten(nt, e)
    BY <1>14, <1>18, <2>1 DEF ListsWritten
  <2>3. KnowsOwn(nt, e)
    BY <1>14, <1>21 DEF KnowsOwn
  <2> QED BY <2>2, <2>3
<1>23. PICK su : su = nsStack'
  OBVIOUS
<1>24. OpenPath(nt, su) /\ EntriesTrue(nt, su) /\ NodeAt(su, 1) = n /\ su # <<>>
  <2>1. e.prefix = nt[l + 1].prefix /\ nt[l + 1].parent = NodeAt(nsStack, 1) /\ e.node = l + 1 /\ Len(nt) = l + 1
    BY <1>5, <1>7, <1>12, <1>14, <1>17
  <2>2. su = <<e>> \o nsStack
    BY <1>15, <1>23
  <2> QED BY <1>1, <1>2, <1>4, <1>5, <1>14, <1>16, <1>22, <2>1, <2>2, StackGrows
<1>25. PICK c : c = CompleteOnes'
  OBVIOUS
<1>26. c \in Int /\ l <= c /\ c <= n /\ c = IF attributes THEN l ELSE n
  <2>1. c = IF nsTag' THEN n - 1 ELSE n
    BY <1>3, <1>17, <1>25 DEF CompleteOnes
  <2>2. n - 1 = l /\ n \in Int /\ l \in Int
    BY <1>5
  <2>3. CASE attributes
    <3>1. nsTag'
      BY <1>15, <2>3
    <3> QED BY <2>1, <2>2, <2>3, <3>1
  <2>4. CASE ~attributes
    <3>1. ~nsTag'
      BY <1>15, <2>4
    <3> QED BY <1>5, <2>1, <2>2, <2>4, <3>1
  <2> QED BY <2>3, <2>4
<1>27. CompleteOnes = l
  BY <1>2, <1>4, <1>15, CompleteIs
<1>28. PICK need : need = nsNeed'
  OBVIOUS
<1>29. \/ need = n /\ k.found # TRUE /\ (prefix = NoPrefix => attributes)
       \/ need = nsNeed /\ (k.found = TRUE \/ (prefix = NoPrefix /\ ~attributes))
  <2>1. k.found = TRUE \/ k.found = FALSE
    BY <1>9 DEF StartAnswer, PrefixAnswer, DefaultAnswer
  <2> QED BY <1>15, <1>28, <2>1
<1>30. need \in 0..Len(nt)
  <2>1. nsNeed \in 0..l /\ Len(nt) = n /\ n \in Nat /\ l <= n
    BY <1>1, <1>2, <1>4, <1>5, <1>17
  <2>2. need = n \/ need = nsNeed
    BY <1>29
  <2> QED BY <2>1, <2>2
<1>31. Waiting(nt, need, c)
  <2>1. CASE need = n /\ k.found # TRUE /\ (prefix = NoPrefix => attributes)
    <3>1. k.uri = NoUri /\ (prefix # NoPrefix => InScope(ns, t, prefix) = NoUri)
      BY <1>9, <2>1 DEF StartAnswer, PrefixAnswer, DefaultAnswer
    <3>2. prefix # NoPrefix => InScope(nt, n, prefix) = NoUri
      BY <1>20, <3>1
    <3>3. prefix = NoPrefix => n > c
      BY <1>5, <1>26, <2>1
    <3> QED BY <1>12, <1>17, <2>1, <3>1, <3>2, <3>3 DEF Waiting
  <2>2. CASE need = nsNeed
    <3>1. SUFFICES ASSUME need # 0
                   PROVE  Waiting(nt, need, c)
      BY DEF Waiting
    <3>2. need \in 1..l /\ need \in 0..l /\ ~(need > l)
      BY <1>1, <1>2, <1>4, <2>2, <3>1
    <3>3. nt[need] = ns[need] /\ ns[need].prefix \in NsNames
      BY <1>1, <1>2, <1>4, <1>17, <3>2, ElementIs
    <3>4. Waiting(ns, need, l)
      BY <1>1, <1>2, <1>27, <2>2
    <3>5. ns[need].uri = NoUri /\ ns[need].prefix # NoPrefix /\ InScope(ns, need, ns[need].prefix) = NoUri
      BY <3>1, <3>2, <3>4 DEF Waiting
    <3>6. SameSaid(ns, nt, need)
      BY <1>16, <3>2, ScopesStay
    <3>7. InScope(nt, need, ns[need].prefix) = NoUri
      BY <3>3, <3>5, <3>6 DEF SameSaid
    <3> QED BY <3>3, <3>5, <3>7 DEF Waiting
  <2> QED BY <1>29, <2>1, <2>2
<1>32. UrisMeant(nt, need, c)
  <2>1. SUFFICES ASSUME NamedUpTo(nt, c)
                 PROVE  (\A m \in 1..Len(nt) : UriMeant(nt, m)) /\ NewHasUri(nt, need, c)
    BY DEF UrisMeant
  <2>2. NamedUpTo(ns, l)
    BY <1>16, <1>26, <2>1, NamedBefore
  <2>3. \A m \in 1..l : UriMeant(ns, m)
    BY <1>1, <1>2, <1>4, <1>27, <2>2 DEF UrisMeant
  <2>4. ASSUME NEW m \in 1..Len(nt)
        PROVE  UriMeant(nt, m)
    <3>1. CASE m = n
      BY <1>12, <1>17, <1>21, <3>1 DEF UriMeant
    <3>2. CASE m # n
      <4>1. m \in 1..l
        BY <1>5, <1>17, <3>2
      <4>2. nt[m].uri = ns[m].uri /\ UriMeant(ns, m)
        BY <1>17, <2>3, <4>1
      <4> QED BY <1>16, <4>1, <4>2, UriStays
    <3> QED BY <3>1, <3>2
  <2>5. NewHasUri(nt, need, c)
    <3>1. SUFFICES ASSUME c < n, need # n, PathClear(nt, n), k.uri = NoUri
                   PROVE  FALSE
      BY <1>12, <1>17 DEF NewHasUri
    <3>2. attributes
      BY <1>26, <3>1
    <3>3. k.found = TRUE
      BY <1>29, <3>1, <3>2
    <3>4. PathClear(ns, t)
      BY <1>20, <3>1
    <3>5. prefix # NoPrefix
      BY <1>9, <3>1, <3>3 DEF StartAnswer, DefaultAnswer
    <3>6. PICK m \in 1..l : ns[m].prefix = prefix /\ InScope(ns, m, prefix) = NoUri
      BY <1>4, <1>9, <3>1, <3>3, <3>4, <3>5 DEF StartAnswer, PrefixAnswer
    <3> QED BY <2>2, <3>5, <3>6 DEF NamedUpTo
  <2> QED BY <2>4, <2>5
<1>33. nsTag' => su # <<>> /\ NodeAt(su, 1) = Len(nt)
  BY <1>17, <1>24
<1>34. nsEnd' = "none"
  BY <1>15
<1> QED BY <1>3, <1>17, <1>23, <1>24, <1>25, <1>28, <1>30, <1>31, <1>32, <1>33, <1>34 DEF NsInv

----------------------------------------------------------------------------
(* The newest element takes an attribute.                                  *)

\* nt is ns with the attribute d behind the others of element n, the last one;
\* URIs may differ.
Attributed(ns, nt, n, d) ==
  /\ NsNested(ns) /\ NsNested(nt) /\ n = Len(ns) /\ n = Len(nt) /\ n \in 1..n
  /\ d \in Decl \cup {Plain}
  /\ \A m \in 1..n : nt[m].prefix = ns[m].prefix /\ nt[m].parent = ns[m].parent
  /\ \A m \in 1..(n - 1) : nt[m].wrote = ns[m].wrote
  /\ nt[n].wrote = Append(ns[n].wrote, d)
  /\ WrittenIn(ns, n, d.prefix) = {}

\* What an attribute says.
AttributeSays(ns, nt, n, d) ==
  /\ \A q : q # d.prefix => WrittenIn(nt, n, q) = WrittenIn(ns, n, q)
  /\ \A q \in NsNames : q # d.prefix =>
        /\ WrittenIn(ns, n, q) # {} => WrittenUri(nt, n, q) = WrittenUri(ns, n, q)
        /\ InScope(nt, n, q) = InScope(ns, n, q)
  /\ WrittenIn(nt, n, d.prefix) = {Len(ns[n].wrote) + 1}
  /\ d.prefix \in NsNames => /\ WrittenUri(nt, n, d.prefix) = d.uri
                             /\ InScope(nt, n, d.prefix) = d.uri
                             /\ d.uri \in NsUris /\ d.uri # NoUri
  /\ PathClear(nt, n) => PathClear(ns, n) /\ (d.prefix = NoPrefix => ns[n].prefix = NoPrefix)

LEMMA AppendedIs ==
  ASSUME NEW S, NEW s \in Seq(S), NEW x \in S
  PROVE  /\ Append(s, x) \in Seq(S) /\ Len(Append(s, x)) = Len(s) + 1
         /\ Append(s, x)[Len(s) + 1] = x /\ \A i \in 1..Len(s) : Append(s, x)[i] = s[i]
OBVIOUS

LEMMA AttributedIs ==
  ASSUME NEW ns, NEW nt, NEW n, NEW d, Attributed(ns, nt, n, d)
  PROVE  SameElements(ns, nt, n - 1) /\ AttributeSays(ns, nt, n, d)
<1>1. /\ NsNested(ns) /\ NsNested(nt) /\ n = Len(ns) /\ n = Len(nt) /\ n \in 1..Len(ns) /\ n \in 1..Len(nt)
      /\ n \in Nat /\ n # 0 /\ d \in Decl \cup {Plain}
      /\ \A m \in 1..n : nt[m].prefix = ns[m].prefix /\ nt[m].parent = ns[m].parent
      /\ \A m \in 1..(n - 1) : nt[m].wrote = ns[m].wrote
  <2>1. /\ NsNested(ns) /\ NsNested(nt) /\ n = Len(ns) /\ n = Len(nt) /\ n \in 1..n
        /\ d \in Decl \cup {Plain}
        /\ \A m \in 1..n : nt[m].prefix = ns[m].prefix /\ nt[m].parent = ns[m].parent
        /\ \A m \in 1..(n - 1) : nt[m].wrote = ns[m].wrote
    BY Zenon DEF Attributed
  <2>2. ns \in Seq(NsElement)
    BY <2>1, Zenon DEF NsNested
  <2>3. n \in Nat /\ n # 0
    BY <2>1, <2>2
  <2> QED BY <2>1, <2>3, Zenon
<1>2. SameElements(ns, nt, n - 1)
  <2>1. n - 1 \in 0..Len(ns) /\ n - 1 \in 0..Len(nt) /\ \A m \in 1..(n - 1) : m \in 1..n
    BY <1>1
  <2> QED BY <1>1, <2>1 DEF SameElements
<1>3. PICK w : w = ns[n].wrote
  OBVIOUS
<1>4. w \in Seq(Decl \cup {Plain}) /\ nt[n].wrote = Append(w, d)
  BY <1>1, <1>3, ElementIs DEF Attributed
<1>5. PICK l \in Nat : l = Len(w)
  BY <1>4
<1>6. PICK v : v = Append(w, d)
  OBVIOUS
<1>7. v \in Seq(Decl \cup {Plain}) /\ Len(v) = l + 1 /\ v[l + 1] = d /\ \A i \in 1..l : v[i] = w[i]
  <2>1. d \in Decl \cup {Plain} /\ w \in Seq(Decl \cup {Plain})
    BY <1>1, <1>4
  <2>2. /\ Append(w, d) \in Seq(Decl \cup {Plain}) /\ Len(Append(w, d)) = Len(w) + 1
        /\ Append(w, d)[Len(w) + 1] = d /\ \A i \in 1..Len(w) : Append(w, d)[i] = w[i]
    BY <2>1, AppendedIs
  <2> QED BY <2>2, <1>5, <1>6, Zenon
<1>8. \A q : /\ PlacesOf(w, q) = {i \in 1..l : w[i].prefix = q} /\ PlacesOf(w, q) \subseteq Nat
             /\ PlacesOf(v, q) = {i \in 1..(l + 1) : v[i].prefix = q} /\ PlacesOf(v, q) \subseteq Nat
  <2>1. \A q : PlacesOf(w, q) = {i \in 1..l : w[i].prefix = q} /\ PlacesOf(w, q) \subseteq Nat
    BY <1>4, <1>5, PlacesAre
  <2>2. \A q : PlacesOf(v, q) = {i \in 1..(l + 1) : v[i].prefix = q} /\ PlacesOf(v, q) \subseteq Nat
    BY <1>7, PlacesAre
  <2> QED BY <2>1, <2>2
<1>9. \A q : WrittenIn(ns, n, q) = PlacesOf(w, q) /\ WrittenIn(nt, n, q) = PlacesOf(v, q)
  BY <1>3, <1>4, <1>6 DEF WrittenIn
<1>10. \A q : WrittenUri(ns, n, q) = w[Min(PlacesOf(w, q))].uri /\ WrittenUri(nt, n, q) = v[Min(PlacesOf(v, q))].uri
  BY <1>3, <1>4, <1>6, <1>9 DEF WrittenUri
<1>11. ASSUME NEW q, q # d.prefix
       PROVE  PlacesOf(v, q) = PlacesOf(w, q)
  <2>1. \A i \in 1..(l + 1) : v[i].prefix = q => i # l + 1
    BY <1>7, <1>11
  <2>2. \A i \in 1..(l + 1) : i # l + 1 => i \in 1..l
    OBVIOUS
  <2>3. \A i \in 1..l : i \in 1..(l + 1)
    OBVIOUS
  <2>4. \A i : i \in PlacesOf(v, q) <=> i \in 1..(l + 1) /\ v[i].prefix = q
    BY <1>8
  <2>5. \A i : i \in PlacesOf(w, q) <=> i \in 1..l /\ w[i].prefix = q
    BY <1>8
  <2>6. \A i : i \in PlacesOf(v, q) <=> i \in PlacesOf(w, q)
    BY <1>7, <2>1, <2>2, <2>3, <2>4, <2>5
  <2> QED BY <2>6
<1>12. ASSUME NEW q \in NsNames, q # d.prefix, PlacesOf(w, q) # {}
       PROVE  WrittenUri(nt, n, q) = WrittenUri(ns, n, q)
  <2>1. PICK i : i = Min(PlacesOf(w, q))
    OBVIOUS
  <2>2. i \in PlacesOf(w, q)
    BY <1>8, <1>12, <2>1, LeastIs
  <2>3. i \in 1..l
    BY <1>8, <2>2
  <2> QED BY <1>7, <1>10, <1>11, <1>12, <2>1, <2>3
<1>13. PICK p : p = ns[n].parent
  OBVIOUS
<1>14. nt[n].parent = p /\ p \in 0..(n - 1) /\ nt[n].prefix = ns[n].prefix
  <2>1. n \in 1..n
    BY <1>1
  <2> QED BY <1>1, <1>13, <2>1, ElementIs
<1>15. SameSaid(ns, nt, p)
  BY <1>2, <1>14, ScopesStay
<1>16. ASSUME NEW q \in NsNames
       PROVE  /\ InScope(ns, n, q) = IF WrittenIn(ns, n, q) = {} THEN InScope(ns, p, q) ELSE WrittenUri(ns, n, q)
              /\ InScope(nt, n, q) = IF WrittenIn(nt, n, q) = {} THEN InScope(ns, p, q) ELSE WrittenUri(nt, n, q)
  <2>1. InScope(nt, p, q) = InScope(ns, p, q)
    BY <1>15 DEF SameSaid
  <2> QED BY <1>1, <1>13, <1>14, <2>1, ScopeIs
<1>17. ASSUME NEW q \in NsNames, q # d.prefix
       PROVE  InScope(nt, n, q) = InScope(ns, n, q)
  BY <1>9, <1>11, <1>12, <1>16, <1>17
<1>18. PlacesOf(v, d.prefix) = {l + 1}
  <2>1. \A i \in 1..l : w[i].prefix # d.prefix
    <3>1. PlacesOf(w, d.prefix) = {}
      BY <1>9 DEF Attributed
    <3> QED BY <1>8, <3>1
  <2>2. \A i \in 1..(l + 1) : i = l + 1 \/ i \in 1..l
    OBVIOUS
  <2>3. l + 1 \in 1..(l + 1)
    OBVIOUS
  <2> QED BY <1>7, <1>8, <2>1, <2>2, <2>3
<1>19. ASSUME d.prefix \in NsNames
       PROVE  /\ WrittenUri(nt, n, d.prefix) = d.uri /\ InScope(nt, n, d.prefix) = d.uri
              /\ d.uri \in NsUris /\ d.uri # NoUri
  <2>1. Min({l + 1}) = l + 1
    <3>1. {l + 1} \subseteq Nat /\ {l + 1} # {}
      OBVIOUS
    <3> QED BY <3>1, LeastIs
  <2>2. WrittenUri(nt, n, d.prefix) = d.uri
    BY <1>7, <1>10, <1>18, <2>1
  <2>3. d # Plain
    BY <1>19, NsAssumption DEF Plain
  <2>4. d.uri \in NsUris
    BY <1>1, <2>3 DEF Decl
  <2> QED BY <1>9, <1>16, <1>18, <1>19, <2>2, <2>4, NsAssumption
<1>20. PathClear(nt, n) => PathClear(ns, n) /\ (d.prefix = NoPrefix => ns[n].prefix = NoPrefix)
  <2>1. SUFFICES ASSUME PathClear(nt, n)
                 PROVE  PathClear(ns, n) /\ (d.prefix = NoPrefix => ns[n].prefix = NoPrefix)
    OBVIOUS
  <2>2. ~TwoInOne(nt, n) /\ PathClear(nt, p)
    BY <1>1, <1>14, <2>1, ClearIs
  <2>3. PathClear(ns, p)
    BY <1>15, <2>2 DEF SameSaid
  <2>4. ns[n].prefix = NoPrefix \/ WrittenIn(nt, n, NoPrefix) = {}
    BY <1>14, <2>2 DEF TwoInOne, WrittenIn
  <2>5. ns[n].prefix = NoPrefix \/ (d.prefix # NoPrefix /\ WrittenIn(ns, n, NoPrefix) = {})
    BY <1>9, <1>11, <1>18, <2>4
  <2>6. ~TwoInOne(ns, n)
    BY <2>5 DEF TwoInOne, WrittenIn
  <2> QED BY <1>1, <1>13, <2>3, <2>5, <2>6, ClearIs
<1>21. AttributeSays(ns, nt, n, d)
  BY <1>3, <1>5, <1>9, <1>11, <1>12, <1>17, <1>18, <1>19, <1>20 DEF AttributeSays
<1> QED BY <1>2, <1>21

\* What XMLParserXmlNamespace leaves of an entry.
LEMMA DeclaredIs ==
  ASSUME NEW e \in NsEntry, NEW d \in Decl, NEW f, f = Declared(e, d)
  PROVE  /\ f \in NsEntry /\ f.node = e.node /\ f.prefix = e.prefix
         /\ d.prefix \in {NoPrefix, e.prefix} => f.uri = d.uri /\ f.decls = e.decls
         /\ d.prefix \notin {NoPrefix, e.prefix} => f.uri = e.uri
         /\ d.prefix \notin {NoPrefix, e.prefix} /\ PlacesOf(e.decls, d.prefix) = {} =>
              f.decls = Append(e.decls, d)
<1>1. /\ e.node \in Nat /\ e.prefix \in NsNames /\ e.uri \in NsUris \cup {NoUri} /\ e.decls \in Seq(Decl)
      /\ e = [node |-> e.node, prefix |-> e.prefix, uri |-> e.uri, decls |-> e.decls]
  BY DEF NsEntry
<1>2. d.uri \in NsUris \cup {NoUri}
  BY DEF Decl
<1>3. CASE d.prefix \in {NoPrefix, e.prefix}
  <2>1. f = [e EXCEPT !.uri = d.uri]
    BY <1>3 DEF Declared
  <2>2. f = [node |-> e.node, prefix |-> e.prefix, uri |-> d.uri, decls |-> e.decls]
    BY <1>1, <2>1
  <2> QED BY <1>1, <1>2, <1>3, <2>2 DEF NsEntry
<1>4. CASE d.prefix \notin {NoPrefix, e.prefix}
  <2>1. PICK o : o = PlacesOf(e.decls, d.prefix)
    OBVIOUS
  <2>2. PICK x : x = IF o = {} THEN Append(e.decls, d) ELSE [e.decls EXCEPT ![Min(o)] = d]
    OBVIOUS
  <2>3. f = [e EXCEPT !.decls = x]
    BY <1>4, <2>1, <2>2 DEF Declared
  <2>4. x \in Seq(Decl)
    <3>1. CASE o = {}
      BY <1>1, <2>2, <3>1
    <3>2. CASE o # {}
      <4>1. PICK i : i = Min(o)
        OBVIOUS
      <4>2. PICK s \in Seq(Decl) : s = e.decls
        BY <1>1
      <4>3. x = [s EXCEPT ![i] = d]
        BY <2>2, <3>2, <4>1, <4>2
      <4>4. [s EXCEPT ![i] = d] \in Seq(Decl)
        <5>1. PICK l \in Nat : l = Len(s)
          OBVIOUS
        <5>2. s \in [1..l -> Decl]
          BY <5>1
        <5>3. [s EXCEPT ![i] = d] \in [1..l -> Decl]
          BY <5>2
        <5> QED BY <5>3
      <4> QED BY <4>3, <4>4
    <3> QED BY <3>1, <3>2
  <2>5. f = [node |-> e.node, prefix |-> e.prefix, uri |-> e.uri, decls |-> x]
    BY <1>1, <2>3
  <2>6. f \in NsEntry /\ f.node = e.node /\ f.prefix = e.prefix /\ f.uri = e.uri /\ f.decls = x
    BY <1>1, <2>4, <2>5 DEF NsEntry
  <2> QED BY <1>4, <2>1, <2>2, <2>6
<1> QED BY <1>3, <1>4

LEMMA EntryDeclares ==
  ASSUME NEW ns, NEW nt, NEW n, NEW d, Attributed(ns, nt, n, d), NEW e \in NsEntry,
         e.node = n, e.prefix = ns[n].prefix, ListsWritten(ns, e), KnowsOwn(ns, e),
         NEW f, f = IF d = Plain THEN e ELSE Declared(e, d)
  PROVE  /\ f \in NsEntry /\ f.node = n /\ f.prefix = e.prefix
         /\ ListsWritten(nt, f) /\ KnowsOwn(nt, f)
         /\ d.prefix = e.prefix => f.uri = d.uri
<1>1. AttributeSays(ns, nt, n, d) /\ d \in Decl \cup {Plain} /\ WrittenIn(ns, n, d.prefix) = {}
  BY AttributedIs DEF Attributed
<1>2. e.prefix \in NsNames /\ e.decls \in Seq(Decl)
  BY DEF NsEntry
<1>3. /\ \A q : q # d.prefix => WrittenIn(nt, n, q) = WrittenIn(ns, n, q)
      /\ \A q \in NsNames : q # d.prefix =>
           /\ WrittenIn(ns, n, q) # {} => WrittenUri(nt, n, q) = WrittenUri(ns, n, q)
           /\ InScope(nt, n, q) = InScope(ns, n, q)
      /\ WrittenIn(nt, n, d.prefix) # {}
      /\ d.prefix \in NsNames => WrittenUri(nt, n, d.prefix) = d.uri /\ InScope(nt, n, d.prefix) = d.uri
      /\ PathClear(nt, n) => PathClear(ns, n) /\ (d.prefix = NoPrefix => ns[n].prefix = NoPrefix)
  BY <1>1 DEF AttributeSays
<1>4. \A q \in NsPrefixes : q \in NsNames /\ q # NoPrefix
  BY NsAssumption DEF NsNames
<1>5. ASSUME NEW q \in NsPrefixes, q # e.prefix, q # d.prefix
      PROVE  /\ PlacesOf(e.decls, q) = {} <=> WrittenIn(nt, n, q) = {}
             /\ \A i \in PlacesOf(e.decls, q) : e.decls[i].uri = WrittenUri(nt, n, q)
  <2>1. /\ PlacesOf(e.decls, q) = {} <=> WrittenIn(ns, n, q) = {}
        /\ \A i \in PlacesOf(e.decls, q) : e.decls[i].uri = WrittenUri(ns, n, q)
    BY <1>5 DEF ListsWritten
  <2>2. WrittenIn(nt, n, q) = WrittenIn(ns, n, q)
    BY <1>3, <1>5
  <2>3. ASSUME NEW i \in PlacesOf(e.decls, q)
        PROVE  e.decls[i].uri = WrittenUri(nt, n, q)
    <3>1. WrittenIn(ns, n, q) # {}
      BY <2>1
    <3>2. WrittenUri(nt, n, q) = WrittenUri(ns, n, q)
      BY <1>3, <1>4, <1>5, <3>1
    <3> QED BY <2>1, <3>2
  <2> QED BY <2>1, <2>2, <2>3
<1>6. CASE d = Plain
  <2>1. f = e /\ \A q \in NsNames : q # d.prefix
    BY <1>6, NsAssumption DEF Plain
  <2>2. ListsWritten(nt, e)
    BY <1>4, <1>5, <2>1 DEF ListsWritten
  <2>3. InScope(nt, n, e.prefix) = InScope(ns, n, e.prefix)
    BY <1>2, <1>3, <2>1
  <2>4. KnowsOwn(nt, e)
    BY <1>3, <2>3 DEF KnowsOwn
  <2> QED BY <1>2, <2>1, <2>2, <2>4
<1>7. CASE d # Plain
  <2>1. d \in Decl /\ d.prefix \in NsNames /\ f = Declared(e, d)
    BY <1>1, <1>7 DEF Decl
  <2>2. /\ f \in NsEntry /\ f.node = n /\ f.prefix = e.prefix
        /\ d.prefix \in {NoPrefix, e.prefix} => f.uri = d.uri /\ f.decls = e.decls
        /\ d.prefix \notin {NoPrefix, e.prefix} => f.uri = e.uri
        /\ d.prefix \notin {NoPrefix, e.prefix} /\ PlacesOf(e.decls, d.prefix) = {} =>
             f.decls = Append(e.decls, d)
    BY <2>1, DeclaredIs
  <2>3. CASE d.prefix \in {NoPrefix, e.prefix}
    <3>1. ListsWritten(nt, f)
      <4>1. \A q \in NsPrefixes : q # e.prefix => q # d.prefix
        BY <1>4, <2>3
      <4>2. f.decls = e.decls /\ f.prefix = e.prefix /\ f.node = n
        BY <2>2, <2>3
      <4> QED BY <1>5, <4>1, <4>2 DEF ListsWritten
    <3>2. KnowsOwn(nt, f)
      <4>1. SUFFICES ASSUME PathClear(nt, n)
                     PROVE  f.uri = InScope(nt, n, e.prefix)
        BY <2>2 DEF KnowsOwn
      <4>2. d.prefix = e.prefix
        BY <1>3, <2>3, <4>1
      <4> QED BY <1>3, <2>1, <2>2, <2>3, <4>2
    <3> QED BY <2>2, <2>3, <3>1, <3>2
  <2>4. CASE d.prefix \notin {NoPrefix, e.prefix}
    <3>1. d.prefix \in NsPrefixes /\ d.prefix # e.prefix
      BY <2>1, <2>4 DEF NsNames
    <3>2. PlacesOf(e.decls, d.prefix) = {}
      BY <1>1, <3>1 DEF ListsWritten
    <3>3. f.decls = Append(e.decls, d) /\ f.uri = e.uri
      BY <2>2, <2>4, <3>2
    <3>4. PICK l \in Nat : l = Len(e.decls)
      BY <1>2
    <3>5. /\ DOMAIN f.decls = 1..(l + 1) /\ f.decls[l + 1] = d /\ \A i \in 1..l : f.decls[i] = e.decls[i]
          /\ DOMAIN e.decls = 1..l
      BY <1>2, <2>1, <3>3, <3>4
    <3>6. \A q : /\ PlacesOf(f.decls, q) = {i \in 1..(l + 1) : f.decls[i].prefix = q}
                 /\ PlacesOf(e.decls, q) = {i \in 1..l : e.decls[i].prefix = q}
      BY <3>5 DEF PlacesOf
    <3>7. /\ \A i \in 1..(l + 1) : i = l + 1 \/ i \in 1..l
          /\ \A i \in 1..l : i \in 1..(l + 1)
          /\ l + 1 \in 1..(l + 1)
      OBVIOUS
    <3>8. PlacesOf(f.decls, d.prefix) = {l + 1}
      <4>1. \A i \in 1..l : e.decls[i].prefix # d.prefix
        BY <3>2, <3>6, ZenonT(60)
      <4>2. \A i : i \in PlacesOf(f.decls, d.prefix) <=> i \in 1..(l + 1) /\ f.decls[i].prefix = d.prefix
        BY <3>6
      <4>3. \A i : i \in PlacesOf(f.decls, d.prefix) <=> i = l + 1
        BY <3>5, <3>7, <4>1, <4>2
      <4> QED BY <4>3
    <3>9. ASSUME NEW q, q # d.prefix
          PROVE  PlacesOf(f.decls, q) = PlacesOf(e.decls, q)
      <4>1. \A i : i \in PlacesOf(f.decls, q) <=> i \in 1..(l + 1) /\ f.decls[i].prefix = q
        BY <3>6
      <4>2. \A i : i \in PlacesOf(e.decls, q) <=> i \in 1..l /\ e.decls[i].prefix = q
        BY <3>6
      <4>3. \A i : i \in PlacesOf(f.decls, q) <=> i \in PlacesOf(e.decls, q)
        BY <3>5, <3>7, <3>9, <4>1, <4>2
      <4> QED BY <4>3
    <3>10. ASSUME NEW q \in NsPrefixes, q # e.prefix
           PROVE  /\ PlacesOf(f.decls, q) = {} <=> WrittenIn(nt, n, q) = {}
                  /\ \A i \in PlacesOf(f.decls, q) : f.decls[i].uri = WrittenUri(nt, n, q)
      <4>1. CASE q = d.prefix
        <5>1. \A i \in PlacesOf(f.decls, q) : f.decls[i] = d
          BY <3>5, <3>8, <4>1
        <5>2. WrittenUri(nt, n, q) = d.uri /\ WrittenIn(nt, n, q) # {}
          BY <1>3, <2>1, <4>1
        <5> QED BY <3>8, <4>1, <5>1, <5>2
      <4>2. CASE q # d.prefix
        <5>1. PlacesOf(f.decls, q) = PlacesOf(e.decls, q)
          BY <3>9, <4>2
        <5>2. \A i \in PlacesOf(e.decls, q) : f.decls[i] = e.decls[i]
          BY <3>5, <3>6
        <5>3. /\ PlacesOf(e.decls, q) = {} <=> WrittenIn(nt, n, q) = {}
              /\ \A i \in PlacesOf(e.decls, q) : e.decls[i].uri = WrittenUri(nt, n, q)
          BY <1>5, <3>10, <4>2
        <5> QED BY <5>1, <5>2, <5>3
      <4> QED BY <4>1, <4>2
    <3>11. ListsWritten(nt, f)
      BY <2>2, <3>10 DEF ListsWritten
    <3>12. KnowsOwn(nt, f)
      <4>1. InScope(nt, n, e.prefix) = InScope(ns, n, e.prefix)
        BY <1>2, <1>3, <3>1
      <4> QED BY <1>3, <2>2, <3>3, <4>1 DEF KnowsOwn
    <3> QED BY <2>2, <3>1, <3>11, <3>12
  <2> QED BY <2>3, <2>4
<1> QED BY <1>6, <1>7

\* The elements below the top are older than it.
LEMMA OlderBelow ==
  ASSUME NEW ns, NEW st, NsNested(ns), OpenPath(ns, st)
  PROVE  \A j \in 2..Len(st) : st[j].node \in 1..(NodeAt(st, 1) - 1)
<1>1. PICK N \in Nat : N = Len(st)
  BY DEF OpenPath
<1>2. SUFFICES ASSUME N >= 1
               PROVE  \A j \in 2..N : st[j].node \in 1..(NodeAt(st, 1) - 1)
  BY <1>1
<1>3. PICK top \in Nat : top = NodeAt(st, 1) /\ top >= 1
  <2>1. 1 \in 1..Len(st)
    BY <1>1, <1>2
  <2>2. NodeAt(st, 1) \in 1..Len(ns)
    BY <2>1, NsEntryIs
  <2> QED BY <2>2 DEF NsNested
<1> DEFINE Good == {m \in 0..N : NodeAt(st, m + 1) \in 0..top /\ (m # 0 => NodeAt(st, m + 1) # top)}
<1>4. 0 \in Good
  BY <1>3
<1>5. ASSUME NEW m \in 1..N, m - 1 \in Good
      PROVE  m \in Good
  <2>1. (m - 1) + 1 = m /\ m \in 0..N /\ m # 0
    OBVIOUS
  <2>2. PICK p : p = NodeAt(st, m)
    OBVIOUS
  <2>3. p \in 0..top
    BY <1>5, <2>1, <2>2
  <2>4. PICK r : r = NodeAt(st, m + 1)
    OBVIOUS
  <2>5. p \in 1..Len(ns) /\ ns[p].parent = r
    BY <1>1, <2>2, <2>4, NsEntryIs
  <2>6. r \in 0..(p - 1)
    BY <2>5, ElementIs
  <2>7. r \in 0..top /\ r # top
    BY <2>3, <2>6
  <2> QED BY <2>1, <2>4, <2>7
<1>6. \A m \in 0..N : m \in Good
  <2> HIDE DEF Good
  <2> QED BY <1>4, <1>5, UpTo
<1>7. ASSUME NEW j \in 2..N
      PROVE  st[j].node \in 1..(top - 1)
  <2>1. j - 1 \in 0..N /\ (j - 1) + 1 = j /\ j - 1 # 0 /\ j \in 1..N
    OBVIOUS
  <2>2. j - 1 \in Good
    BY <1>6, <2>1
  <2>3. NodeAt(st, j) \in 0..top /\ NodeAt(st, j) # top
    BY <2>1, <2>2
  <2>4. NodeAt(st, j) = st[j].node /\ NodeAt(st, j) \in 1..Len(ns)
    BY <1>1, <2>1, NsEntryIs
  <2> QED BY <2>3, <2>4
<1> QED BY <1>3, <1>7

\* A stack with the entry of element n on top.
OpenTop(ns, st, n) ==
  OpenPath(ns, st) /\ EntriesTrue(ns, st) /\ st # <<>> /\ NodeAt(st, 1) = n

\* An entry for element n of nt, which was in ns before.
NewTop(ns, nt, n, f) ==
  /\ f \in NsEntry /\ f.node = n /\ f.prefix = ns[n].prefix
  /\ ListsWritten(nt, f) /\ KnowsOwn(nt, f)

\* The entry on top is exchanged, when its element has a new attribute.
LEMMA TopChanges ==
  ASSUME NEW ns, NEW nt, NEW n, NEW d, Attributed(ns, nt, n, d), NEW st, OpenTop(ns, st, n),
         NEW f, NewTop(ns, nt, n, f), NEW su, su = <<f>> \o Tail(st)
  PROVE  OpenTop(nt, su, n)
<1>0. /\ OpenPath(ns, st) /\ EntriesTrue(ns, st) /\ st # <<>> /\ NodeAt(st, 1) = n
      /\ f \in NsEntry /\ f.node = n /\ f.prefix = ns[n].prefix
      /\ ListsWritten(nt, f) /\ KnowsOwn(nt, f)
  BY DEF OpenTop, NewTop
<1>1. st \in Seq(NsEntry)
  BY <1>0 DEF OpenPath
<1>2. PICK r : r = Tail(st)
  OBVIOUS
<1>3. PICK l \in Nat \ {0} : l = Len(st)
  BY <1>0, <1>1, TailIs
<1>4. r \in Seq(NsEntry) /\ Len(r) = l - 1 /\ \A k \in 1..(l - 1) : r[k] = st[k + 1]
  BY <1>0, <1>1, <1>2, <1>3, TailIs
<1>5. su \in Seq(NsEntry) /\ Consed(su, f, r)
  BY <1>0, <1>2, <1>4, ConsIs, Zenon
<1>6. Len(su) = l /\ su[1] = f /\ \A j \in 2..l : su[j] = st[j]
  <2>1. Len(su) = (l - 1) + 1 /\ su[1] = f /\ \A k \in 1..(l - 1) : su[k + 1] = r[k]
    BY <1>4, <1>5 DEF Consed
  <2>2. ASSUME NEW j \in 2..l
        PROVE  su[j] = st[j]
    <3>1. j - 1 \in 1..(l - 1) /\ (j - 1) + 1 = j
      OBVIOUS
    <3> QED BY <1>4, <2>1, <3>1
  <2> QED BY <2>1, <2>2
<1>7. /\ NsNested(ns) /\ n = Len(ns) /\ n = Len(nt) /\ n \in 1..n /\ n \in Nat
      /\ \A m \in 1..n : nt[m].prefix = ns[m].prefix /\ nt[m].parent = ns[m].parent
  BY DEF Attributed, NsNested
<1>8. \A j \in 1..(l + 1) : NodeAt(su, j) = NodeAt(st, j)
  <2>1. ASSUME NEW j \in 1..(l + 1)
        PROVE  NodeAt(su, j) = NodeAt(st, j)
    <3>1. CASE j = 1
      <4>1. 1 \in 1..Len(su)
        BY <1>6
      <4> QED BY <1>0, <1>6, <3>1, <4>1 DEF NodeAt
    <3>2. CASE j = l + 1
      <4>1. j \notin 1..Len(su) /\ j \notin 1..Len(st)
        BY <1>3, <1>6, <3>2
      <4> QED BY <4>1 DEF NodeAt
    <3>3. CASE j # 1 /\ j # l + 1
      <4>1. j \in 2..l /\ j \in 1..Len(su) /\ j \in 1..Len(st)
        BY <1>3, <1>6, <3>3
      <4> QED BY <1>6, <4>1 DEF NodeAt
    <3> QED BY <3>1, <3>2, <3>3
  <2> QED BY <2>1
<1>9. SameElements(ns, nt, n - 1)
  BY AttributedIs
<1>10. ASSUME NEW j \in 1..Len(su)
       PROVE  /\ su[j].node \in 1..Len(nt) /\ su[j].prefix = nt[su[j].node].prefix
              /\ nt[su[j].node].parent = NodeAt(su, j + 1)
              /\ ListsWritten(nt, su[j]) /\ KnowsOwn(nt, su[j])
  <2>1. j \in 1..Len(st) /\ j + 1 \in 1..(l + 1) /\ NodeAt(su, j + 1) = NodeAt(st, j + 1)
    BY <1>3, <1>6, <1>8
  <2>2. CASE j = 1
    <3>1. ns[n].parent = NodeAt(st, j + 1)
      <4>1. ns[st[j].node].parent = NodeAt(st, j + 1) /\ st[j].node = NodeAt(st, j)
        BY <1>0, <1>7, <2>1, NsEntryIs
      <4> QED BY <1>0, <2>2, <4>1
    <3>2. nt[n].parent = ns[n].parent /\ nt[n].prefix = ns[n].prefix
      BY <1>7
    <3> QED BY <1>0, <1>6, <1>7, <2>1, <2>2, <3>1, <3>2
  <2>3. CASE j # 1
    <3>1. PICK g : g = st[j]
      OBVIOUS
    <3>2. j \in 2..l /\ su[j] = g
      BY <1>3, <1>6, <2>1, <2>3, <3>1
    <3>3. g \in NsEntry /\ ns[g.node].parent = NodeAt(st, j + 1) /\ ns[g.node].prefix = g.prefix
      BY <1>0, <1>7, <2>1, <3>1, NsEntryIs
    <3>4. ListsWritten(ns, g) /\ KnowsOwn(ns, g)
      BY <1>0, <2>1, <3>1 DEF EntriesTrue
    <3>5. g.node \in 1..(n - 1)
      BY <1>0, <1>3, <1>7, <3>1, <3>2, OlderBelow
    <3>6. ListsWritten(nt, g) /\ KnowsOwn(nt, g)
      BY <1>9, <3>3, <3>4, <3>5, EntryStays
    <3>7. g.node \in 1..n
      BY <1>7, <3>5
    <3>8. nt[g.node].parent = ns[g.node].parent /\ nt[g.node].prefix = ns[g.node].prefix
      BY <1>7, <3>7
    <3> QED BY <1>7, <2>1, <3>2, <3>3, <3>6, <3>7, <3>8
  <2> QED BY <2>2, <2>3
<1>11. NodeAt(su, 1) = n /\ su # <<>>
  <2>1. 1 \in 1..(l + 1) /\ Len(su) # 0
    BY <1>6
  <2> QED BY <1>0, <1>5, <1>8, <2>1
<1> QED BY <1>5, <1>10, <1>11 DEF OpenPath, EntriesTrue, OpenTop

\* Element n of ns has a further attribute, and nothing else changes.
TakesAttribute(nt, ns, n, d) ==
  /\ nt \in Seq(NsElement) /\ Len(nt) = Len(ns)
  /\ \A m \in 1..Len(ns) : /\ m # n => nt[m] = ns[m]
                           /\ nt[m].prefix = ns[m].prefix /\ nt[m].parent = ns[m].parent
                           /\ nt[m].local = ns[m].local /\ nt[m].uri = ns[m].uri
  /\ nt[n].wrote = Append(ns[n].wrote, d)

LEMMA PutAtIs ==
  ASSUME NEW S, NEW s \in Seq(S), NEW i \in 1..Len(s), NEW x \in S, NEW t, t = [s EXCEPT ![i] = x]
  PROVE  t \in Seq(S) /\ Len(t) = Len(s) /\ t[i] = x /\ \A m \in 1..Len(s) : m # i => t[m] = s[m]
<1>1. PICK l \in Nat : l = Len(s)
  OBVIOUS
<1>2. s \in [1..l -> S] /\ i \in 1..l
  BY <1>1
<1>3. t \in [1..l -> S] /\ t[i] = x /\ \A m \in 1..l : m # i => t[m] = s[m]
  BY <1>2
<1>4. t \in Seq(S) /\ Len(t) = l
  BY <1>3
<1> QED BY <1>1, <1>3, <1>4

LEMMA AttributeTaken ==
  ASSUME NEW ns, NsNested(ns), NEW n \in 1..Len(ns), NEW d \in Decl \cup {Plain},
         NEW nt, nt = [ns EXCEPT ![n].wrote = Append(@, d)]
  PROVE  TakesAttribute(nt, ns, n, d)
<1>1. ns \in Seq(NsElement) /\ Len(ns) \in Nat
  BY DEF NsNested
<1>2. PICK r \in NsElement : r = ns[n]
  BY <1>1
<1>3. r.wrote \in Seq(Decl \cup {Plain})
  BY DEF NsElement
<1>4. PICK v \in Seq(Decl \cup {Plain}) : v = Append(r.wrote, d)
  BY <1>3, AppendedIs
<1>5. PICK x : x = [r EXCEPT !.wrote = v]
  OBVIOUS
<1>6. /\ x \in NsElement /\ x.prefix = r.prefix /\ x.local = r.local /\ x.parent = r.parent
      /\ x.uri = r.uri /\ x.wrote = v
  BY <1>5 DEF NsElement
<1>7. PICK y : y = [ns EXCEPT ![n] = x]
  OBVIOUS
<1>8. y \in Seq(NsElement) /\ Len(y) = Len(ns) /\ y[n] = x /\ \A m \in 1..Len(ns) : m # n => y[m] = ns[m]
  <2>1. ns \in Seq(NsElement) /\ x \in NsElement
    BY <1>1, <1>6
  <2> QED BY <2>1, <1>7, PutAtIs
<1>9. nt = y
  BY <1>2, <1>4, <1>5, <1>7
<1>10. TakesAttribute(y, ns, n, d)
  BY <1>2, <1>4, <1>6, <1>8 DEF TakesAttribute
<1> QED BY <1>9, <1>10

\* Element k of ns gets the URI u, and nothing else changes.
TakesUri(nt, ns, k, u) ==
  /\ nt \in Seq(NsElement) /\ Len(nt) = Len(ns)
  /\ \A m \in 1..Len(ns) : /\ m # k => nt[m] = ns[m]
                           /\ nt[m].prefix = ns[m].prefix /\ nt[m].parent = ns[m].parent
                           /\ nt[m].local = ns[m].local /\ nt[m].wrote = ns[m].wrote
  /\ nt[k].uri = u

LEMMA UriTaken ==
  ASSUME NEW ns \in Seq(NsElement), NEW k \in 1..Len(ns), NEW u \in NsUris \cup {NoUri},
         NEW nt, nt = [ns EXCEPT ![k].uri = u]
  PROVE  TakesUri(nt, ns, k, u)
<1>1. PICK r \in NsElement : r = ns[k]
  OBVIOUS
<1>2. PICK x : x = [r EXCEPT !.uri = u]
  OBVIOUS
<1>3. /\ x \in NsElement /\ x.prefix = r.prefix /\ x.local = r.local /\ x.parent = r.parent
      /\ x.uri = u /\ x.wrote = r.wrote
  BY <1>2 DEF NsElement
<1>4. nt = [ns EXCEPT ![k] = x]
  BY <1>1, <1>2
<1>5. nt \in Seq(NsElement) /\ Len(nt) = Len(ns) /\ nt[k] = x /\ \A m \in 1..Len(ns) : m # k => nt[m] = ns[m]
  BY <1>3, <1>4, PutAtIs
<1> QED BY <1>1, <1>3, <1>5 DEF TakesUri

\* What becomes of the waiting element: it takes the URI of the entry on top,
\* or waits on.
Fills(r, ns, need, e) ==
  /\ r.nodes = [ns EXCEPT ![need].uri = e.uri] /\ r.need = 0 /\ r.end = "none"
  /\ ns[need].prefix # NoPrefix => e.uri # NoUri

WaitsOn(r, ns, need, e) ==
  /\ r.nodes = ns /\ r.need = need
  /\ ns[need].prefix = e.prefix /\ ns[need].local = ns[e.node].local =>
       r.end = "none" /\ ns[need].prefix # NoPrefix /\ e.uri = NoUri

LEMMA AddedIs ==
  ASSUME NEW ns, NEW e, NEW r, r = ParserAddNamespace(ns, e)
  PROVE  Fills(r, ns, nsNeed, e) \/ WaitsOn(r, ns, nsNeed, e)
<1>1. PICK w : w = ns[nsNeed]
  OBVIOUS
<1>2. PICK f : f = [ns EXCEPT ![nsNeed].uri = e.uri]
  OBVIOUS
<1>3. PICK l : l = ns[e.node].local
  OBVIOUS
<1> DEFINE same == w.prefix = e.prefix /\ w.local = l
<1>4. r = IF w.prefix = NoPrefix
          THEN IF ~same THEN [nodes |-> ns, need |-> nsNeed, end |-> "failed"]
               ELSE [nodes |-> f, need |-> 0, end |-> "none"]
          ELSE IF ~same /\ e.prefix = NoPrefix THEN [nodes |-> ns, need |-> nsNeed, end |-> "crash"]
          ELSE IF ~same /\ w.prefix # e.prefix THEN [nodes |-> ns, need |-> nsNeed, end |-> "failed"]
          ELSE IF e.uri # NoUri THEN [nodes |-> f, need |-> 0, end |-> "none"]
          ELSE [nodes |-> ns, need |-> nsNeed, end |-> "none"]
  BY <1>1, <1>2, <1>3 DEF ParserAddNamespace
<1>5. \/ /\ r.nodes = f /\ r.need = 0 /\ r.end = "none" /\ (w.prefix # NoPrefix => e.uri # NoUri)
      \/ /\ r.nodes = ns /\ r.need = nsNeed
         /\ same => r.end = "none" /\ w.prefix # NoPrefix /\ e.uri = NoUri
  BY <1>4
<1> QED BY <1>1, <1>2, <1>3, <1>5 DEF Fills, WaitsOn

\* What a step leaves: the elements nt, of which n has the attribute d, and
\* the entry f on top; the waiting one was filled, waits on, or there was none.
NsTaken(ns, nt, n, d, f, need, needed) ==
  \/ need = 0 /\ needed = 0 /\ TakesAttribute(nt, ns, n, d)
  \/ /\ need # 0 /\ needed = need /\ TakesAttribute(nt, ns, n, d)
     /\ need = n => ns[n].prefix # NoPrefix /\ f.uri = NoUri
  \/ /\ need # 0 /\ needed = 0
     /\ \E w : TakesAttribute(w, ns, n, d) /\ TakesUri(nt, w, need, f.uri)
     /\ ns[need].prefix # NoPrefix => f.uri # NoUri

\* n is the newest element, and d an attribute it does not have.
NsFree(ns, n, d, need) ==
  /\ NsNested(ns) /\ n = Len(ns) /\ n \in 1..n /\ d \in Decl \cup {Plain} /\ need \in 0..n
  /\ WrittenIn(ns, n, d.prefix) = {}

\* The URIs that a step leaves, and the one it writes.
NsUrisAfter(ns, nt, n, f, need, needed) ==
  /\ \A m \in 1..n : m # need => nt[m].uri = ns[m].uri
  /\ needed # 0 => nt[need].uri = ns[need].uri
  /\ need # 0 /\ needed = 0 => nt[need].uri = f.uri

LEMMA TakenIsAttributed ==
  ASSUME NEW ns, NEW nt, NEW n, NEW d, NEW f, NEW need, NEW needed,
         NsFree(ns, n, d, need), NsTaken(ns, nt, n, d, f, need, needed)
  PROVE  Attributed(ns, nt, n, d) /\ NsUrisAfter(ns, nt, n, f, need, needed)
<1>0. /\ NsNested(ns) /\ n = Len(ns) /\ n \in 1..n /\ d \in Decl \cup {Plain} /\ need \in 0..n
      /\ WrittenIn(ns, n, d.prefix) = {}
  BY DEF NsFree
<1>1. PICK w : /\ TakesAttribute(w, ns, n, d)
               /\ \/ nt = w /\ (need = 0 => needed = 0) /\ (need # 0 => needed = need)
                  \/ need # 0 /\ needed = 0 /\ TakesUri(nt, w, need, f.uri)
  <2>1. CASE TakesAttribute(nt, ns, n, d) /\ (need = 0 => needed = 0) /\ (need # 0 => needed = need)
    BY <2>1
  <2>2. CASE ~(TakesAttribute(nt, ns, n, d) /\ (need = 0 => needed = 0) /\ (need # 0 => needed = need))
    BY <2>2 DEF NsTaken
  <2> QED BY <2>1, <2>2
<1>2. /\ w \in Seq(NsElement) /\ Len(w) = n /\ w[n].wrote = Append(ns[n].wrote, d)
      /\ \A m \in 1..n : /\ m # n => w[m] = ns[m]
                         /\ w[m].prefix = ns[m].prefix /\ w[m].parent = ns[m].parent
                         /\ w[m].uri = ns[m].uri
  BY <1>0, <1>1 DEF TakesAttribute
<1>3. /\ nt \in Seq(NsElement) /\ Len(nt) = n
      /\ \A m \in 1..n : nt[m].prefix = w[m].prefix /\ nt[m].parent = w[m].parent /\ nt[m].wrote = w[m].wrote
      /\ \A m \in 1..n : m # need => nt[m].uri = w[m].uri
      /\ needed # 0 => nt = w
      /\ need # 0 /\ needed = 0 => nt[need].uri = f.uri
  <2>1. CASE nt = w /\ (need = 0 => needed = 0) /\ (need # 0 => needed = need)
    BY <1>2, <2>1
  <2>2. CASE need # 0 /\ needed = 0 /\ TakesUri(nt, w, need, f.uri)
    <3>1. /\ nt \in Seq(NsElement) /\ Len(nt) = Len(w) /\ nt[need].uri = f.uri
          /\ \A m \in 1..Len(w) : /\ m # need => nt[m] = w[m]
                                  /\ nt[m].prefix = w[m].prefix /\ nt[m].parent = w[m].parent
                                  /\ nt[m].wrote = w[m].wrote
      BY <2>2 DEF TakesUri
    <3> QED BY <1>2, <2>2, <3>1
  <2> QED BY <1>1, <2>1, <2>2
<1>4. \A m \in 1..n : nt[m].prefix = ns[m].prefix /\ nt[m].parent = ns[m].parent
  BY <1>0, <1>2, <1>3
<1>5. \A m \in 1..(n - 1) : nt[m].wrote = ns[m].wrote
  <2>1. \A m \in 1..(n - 1) : m \in 1..n /\ m # n
    BY <1>0 DEF NsNested
  <2> QED BY <1>2, <1>3, <2>1
<1>6. nt[n].wrote = Append(ns[n].wrote, d)
  BY <1>0, <1>2, <1>3
<1>7. NsNested(nt)
  BY <1>0, <1>3, <1>4 DEF NsNested
<1>8. Attributed(ns, nt, n, d)
  BY <1>0, <1>3, <1>4, <1>5, <1>6, <1>7 DEF Attributed
<1>9. \A m \in 1..n : m # need => nt[m].uri = ns[m].uri
  BY <1>0, <1>2, <1>3
<1>10. needed # 0 => nt[need].uri = ns[need].uri
  <2>1. SUFFICES ASSUME needed # 0
                 PROVE  nt[need].uri = ns[need].uri
    OBVIOUS
  <2>2. nt = w /\ need # 0
    BY <1>1, <2>1
  <2>3. need \in 1..n
    BY <1>0, <2>2
  <2> QED BY <1>2, <2>2, <2>3
<1> QED BY <1>3, <1>8, <1>9, <1>10 DEF NsUrisAfter

\* The waiting element after the step.
LEMMA StillWaiting ==
  ASSUME NEW ns, NEW nt, NEW n, n \in 1..n, NEW d, Attributed(ns, nt, n, d), NEW f,
         NEW need \in 0..n, NEW needed, NsTaken(ns, nt, n, d, f, need, needed),
         needed # 0 => nt[need].uri = ns[need].uri,
         d.prefix = ns[n].prefix => f.uri = d.uri, Waiting(ns, need, n - 1)
  PROVE  Waiting(nt, needed, n - 1)
<1>1. SUFFICES ASSUME needed # 0
               PROVE  Waiting(nt, needed, n - 1)
  BY DEF Waiting
<1>2. needed = need /\ need # 0 /\ (need = n => ns[n].prefix # NoPrefix /\ f.uri = NoUri)
  BY <1>1 DEF NsTaken
<1>3. need \in 1..n
  BY <1>2
<1>4. /\ NsNested(ns) /\ n = Len(ns) /\ n \in Nat
      /\ \A m \in 1..n : nt[m].prefix = ns[m].prefix
  BY DEF Attributed, NsNested
<1>5. ns[need].uri = NoUri /\ (ns[need].prefix = NoPrefix => need > n - 1)
  BY <1>2 DEF Waiting
<1>6. ns[need].prefix # NoPrefix
  BY <1>2, <1>3, <1>4, <1>5
<1>7. PICK q \in NsNames : q = ns[need].prefix
  BY <1>3, <1>4, ElementIs
<1>8. InScope(ns, need, q) = NoUri
  BY <1>2, <1>6, <1>7 DEF Waiting
<1>9. SameElements(ns, nt, n - 1) /\ AttributeSays(ns, nt, n, d)
  BY AttributedIs
<1>10. InScope(nt, need, q) = NoUri
  <2>1. CASE need = n
    <3>1. q # d.prefix
      <4>1. SUFFICES ASSUME q = d.prefix
                     PROVE  FALSE
        OBVIOUS
      <4>2. f.uri = d.uri /\ f.uri = NoUri
        BY <1>2, <1>7, <2>1, <4>1
      <4>3. d.uri # NoUri
        BY <1>9, <4>1 DEF AttributeSays
      <4> QED BY <4>2, <4>3
    <3>2. InScope(nt, n, q) = InScope(ns, n, q)
      BY <1>9, <3>1 DEF AttributeSays
    <3> QED BY <1>8, <2>1, <3>2
  <2>2. CASE need # n
    <3>1. need \in 0..(n - 1)
      BY <1>3, <1>4, <2>2
    <3>2. SameSaid(ns, nt, need)
      BY <1>9, <3>1, ScopesStay
    <3> QED BY <1>8, <3>2 DEF SameSaid
  <2> QED BY <2>1, <2>2
<1>11. nt[need].prefix = q
  BY <1>3, <1>4, <1>7
<1> QED BY <1>1, <1>2, <1>5, <1>6, <1>7, <1>10, <1>11 DEF Waiting

\* The URIs after the step: those of the others stay, and the newest has what
\* its prefix means, or declares it late or again.
LEMMA UrisStayMeant ==
  ASSUME NEW ns, NEW nt, NEW n, n \in 1..n, NEW d, Attributed(ns, nt, n, d), NEW f,
         NEW need \in 0..n, NEW needed, NsTaken(ns, nt, n, d, f, need, needed),
         f.node = n, f.prefix = ns[n].prefix, KnowsOwn(nt, f),
         \A m \in 1..n : m # need => nt[m].uri = ns[m].uri,
         needed # 0 => nt[need].uri = ns[need].uri,
         need # 0 /\ needed = 0 => nt[need].uri = f.uri,
         Waiting(ns, need, n - 1), Waiting(nt, needed, n - 1),
         UrisMeant(ns, need, n - 1)
  PROVE  UrisMeant(nt, needed, n - 1)
<1>1. SUFFICES ASSUME NamedUpTo(nt, n - 1)
               PROVE  (\A m \in 1..Len(nt) : UriMeant(nt, m)) /\ NewHasUri(nt, needed, n - 1)
  BY DEF UrisMeant
<1>2. /\ NsNested(ns) /\ NsNested(nt) /\ n = Len(ns) /\ n = Len(nt) /\ n \in Nat /\ n - 1 \in Int
      /\ n \in 1..Len(ns) /\ n \in 1..Len(nt) /\ n - 1 < n
      /\ nt[n].prefix = ns[n].prefix /\ nt[n].parent = ns[n].parent
      /\ nt[n].wrote = Append(ns[n].wrote, d) /\ WrittenIn(ns, n, d.prefix) = {}
  BY DEF Attributed, NsNested
<1>3. SameElements(ns, nt, n - 1) /\ AttributeSays(ns, nt, n, d)
  BY AttributedIs
<1>4. NamedUpTo(ns, n - 1)
  BY <1>1, <1>2, <1>3, NamedBefore
<1>5. (\A m \in 1..n : UriMeant(ns, m)) /\ NewHasUri(ns, need, n - 1)
  BY <1>2, <1>4 DEF UrisMeant
<1>6. need = 0 \/ need = n
  <2>1. need # 0 => need > n - 1
    <3>1. need \in Nat
      OBVIOUS
    <3> QED BY <1>2, <1>4, <3>1, NobodyWaits
  <2> QED BY <1>2, <2>1
<1>7. PICK q \in NsNames : q = ns[n].prefix
  BY <1>2, ElementIs
<1>8. PICK p : p = ns[n].parent
  OBVIOUS
<1>9. p \in 0..(n - 1)
  BY <1>2, <1>8, ElementIs
<1>10. PICK w \in Seq(Decl \cup {Plain}) : w = ns[n].wrote
  BY <1>2, ElementIs
<1>11. nt[n].prefix = q /\ nt[n].parent = p /\ nt[n].wrote = Append(w, d)
  BY <1>2, <1>7, <1>8, <1>10
<1>12. /\ q # d.prefix => WrittenIn(nt, n, q) = WrittenIn(ns, n, q) /\ InScope(nt, n, q) = InScope(ns, n, q)
       /\ WrittenIn(nt, n, d.prefix) = {Len(w) + 1}
       /\ PathClear(nt, n) => PathClear(ns, n)
  BY <1>3, <1>10 DEF AttributeSays
<1>13. InScope(nt, p, q) = InScope(ns, p, q)
  <2>1. SameSaid(ns, nt, p)
    BY <1>3, <1>9, ScopesStay
  <2> QED BY <2>1 DEF SameSaid
<1>14. needed # 0 => needed = need /\ need = n
  BY <1>6 DEF NsTaken
<1>15. ASSUME need = 0, PathClear(nt, n)
       PROVE  \/ nt[n].uri = InScope(nt, n, q) \/ DeclaresAgain(nt, n) \/ DeclaresLate(nt, n)
  <2>1. nt[n].uri = ns[n].uri
    BY <1>2, <1>15
  <2>2. PathClear(ns, n)
    BY <1>12, <1>15
  <2>3. ns[n].uri = InScope(ns, n, q) \/ DeclaresAgain(ns, n) \/ DeclaresLate(ns, n)
    BY <1>2, <1>5, <1>7, <2>2 DEF UriMeant
  <2>4. CASE q # d.prefix
    <3>1. WrittenIn(nt, n, q) = WrittenIn(ns, n, q) /\ InScope(nt, n, q) = InScope(ns, n, q)
      BY <1>12, <2>4
    <3>2. DeclaresAgain(ns, n) => DeclaresAgain(nt, n)
      BY <1>7, <1>8, <1>11, <1>13, <3>1 DEF DeclaresAgain, WrittenIn
    <3>3. DeclaresLate(ns, n) => DeclaresLate(nt, n)
      BY <1>7, <1>11, <3>1 DEF DeclaresLate, WrittenIn
    <3> QED BY <2>1, <2>3, <3>1, <3>2, <3>3
  <2>5. CASE q = d.prefix
    <3>1. WrittenIn(ns, n, q) = {} /\ WrittenIn(nt, n, q) = {Len(w) + 1}
      BY <1>2, <1>12, <2>5
    <3>2. ~DeclaresAgain(ns, n) /\ ~DeclaresLate(ns, n)
      BY <1>7, <3>1 DEF DeclaresAgain, DeclaresLate, WrittenIn
    <3>3. ns[n].uri = InScope(ns, p, q)
      BY <1>2, <1>8, <2>3, <3>1, <3>2, ScopeIs
    <3>4. CASE q = NoPrefix /\ w # <<>>
      <4>1. Len(w) + 1 > 1
        <5>1. Len(w) \in Nat /\ Len(w) # 0
          BY <3>4
        <5> QED BY <5>1
      <4>2. \E i \in PlacesOf(nt[n].wrote, NoPrefix) : i > 1
        BY <3>1, <3>4, <4>1 DEF WrittenIn
      <4>3. DeclaresLate(nt, n)
        BY <1>11, <3>4, <4>2 DEF DeclaresLate
      <4> QED BY <4>3
    <3>5. CASE q # NoPrefix \/ w = <<>>
      <4>1. ns[n].uri # NoUri
        BY <1>2, <1>5, <1>7, <1>10, <1>15, <2>2, <3>5 DEF NewHasUri
      <4>2. DeclaresAgain(nt, n)
        BY <1>11, <1>13, <3>1, <3>3, <4>1 DEF DeclaresAgain, WrittenIn
      <4> QED BY <4>2
    <3> QED BY <3>4, <3>5
  <2> QED BY <2>4, <2>5
<1>16. ASSUME need = n, PathClear(nt, n)
       PROVE  nt[n].uri = InScope(nt, n, q)
  <2>1. CASE needed = 0
    <3>1. nt[n].uri = f.uri
      BY <1>2, <1>16, <2>1
    <3>2. f.uri = InScope(nt, n, q)
      BY <1>7, <1>16 DEF KnowsOwn
    <3> QED BY <3>1, <3>2
  <2>2. CASE needed # 0
    <3>1. needed = n /\ need # 0 /\ ns[n].prefix # NoPrefix
      BY <1>14, <1>16, <2>2 DEF NsTaken
    <3>2. nt[n].uri = NoUri /\ InScope(nt, n, q) = NoUri
      BY <1>2, <1>7, <1>11, <2>2, <3>1 DEF Waiting
    <3> QED BY <3>2
  <2> QED BY <2>1, <2>2
<1>17. ASSUME NEW m \in 1..Len(nt)
       PROVE  UriMeant(nt, m)
  <2>1. CASE m = n
    BY <1>6, <1>11, <1>15, <1>16, <2>1 DEF UriMeant
  <2>2. CASE m # n
    <3>1. m \in 1..(n - 1) /\ m \in 1..n /\ m # need
      BY <1>2, <1>6, <2>2
    <3>2. nt[m].uri = ns[m].uri /\ UriMeant(ns, m)
      BY <1>5, <3>1
    <3> QED BY <1>3, <3>1, <3>2, UriStays
  <2> QED BY <2>1, <2>2
<1>18. NewHasUri(nt, needed, n - 1)
  <2>1. SUFFICES ASSUME needed # n, PathClear(nt, n), nt[n].prefix # NoPrefix \/ nt[n].wrote = <<>>
                 PROVE  nt[n].uri # NoUri
    BY <1>2 DEF NewHasUri
  <2>2. nt[n].wrote # <<>>
    <3>1. Len(Append(w, d)) = Len(w) + 1 /\ Len(w) \in Nat
      OBVIOUS
    <3> QED BY <1>11, <3>1
  <2>3. q # NoPrefix /\ needed = 0
    BY <1>11, <1>14, <2>1, <2>2
  <2>4. CASE need = 0
    <3>1. ns[n].uri # NoUri
      BY <1>2, <1>5, <1>7, <1>12, <2>1, <2>3, <2>4 DEF NewHasUri
    <3> QED BY <1>2, <2>4, <3>1
  <2>5. CASE need = n
    <3>1. f.uri # NoUri
      BY <1>2, <1>7, <2>3, <2>5 DEF NsTaken
    <3> QED BY <1>2, <2>3, <2>5, <3>1
  <2> QED BY <1>6, <2>4, <2>5
<1> QED BY <1>17, <1>18

LEMMA NsTakesAttribute ==
  ASSUME NsInv, NEW d \in Decl \cup {Plain}, NsAttribute(d)
  PROVE  NsInv'
<1>1. /\ NsNested(nsNodes) /\ OpenPath(nsNodes, nsStack) /\ EntriesTrue(nsNodes, nsStack)
      /\ nsNeed \in 0..Len(nsNodes)
      /\ Waiting(nsNodes, nsNeed, CompleteOnes) /\ UrisMeant(nsNodes, nsNeed, CompleteOnes)
  BY DEF NsInv
<1>2. PICK ns : ns = nsNodes
  OBVIOUS
<1>3. PICK nt : nt = nsNodes'
  OBVIOUS
<1>4. PICK st : st = nsStack
  OBVIOUS
<1>5. PICK su : su = nsStack'
  OBVIOUS
<1>6. PICK need : need = nsNeed
  OBVIOUS
<1>7. PICK needed : needed = nsNeed'
  OBVIOUS
<1>8. PICK n : n = Len(ns)
  OBVIOUS
<1>9. nsTag /\ nsTag' /\ nsEnd = "none"
  BY DEF NsAttribute
<1>10. /\ n \in Nat /\ n \in 1..n /\ n \in 1..Len(ns) /\ CompleteOnes = n - 1
       /\ st # <<>> /\ Head(st) = st[1] /\ 1 \in 1..Len(st) /\ st[1].node = n
  BY <1>2, <1>4, <1>8, <1>9, CompleteIs
<1>11. PICK e \in NsEntry : e = Head(st)
  BY <1>1, <1>4, <1>10, NsEntryIs
<1>12. /\ e.node = n /\ e.prefix = ns[n].prefix /\ ListsWritten(ns, e) /\ KnowsOwn(ns, e)
       /\ NodeAt(st, 1) = n
  <2>1. ns[st[1].node].prefix = st[1].prefix /\ NodeAt(st, 1) = st[1].node
    BY <1>1, <1>2, <1>4, <1>10, NsEntryIs
  <2>2. ListsWritten(ns, st[1]) /\ KnowsOwn(ns, st[1])
    BY <1>1, <1>2, <1>4, <1>10 DEF EntriesTrue
  <2> QED BY <1>10, <1>11, <2>1, <2>2
<1>13. PICK f : f = IF d = Plain THEN e ELSE Declared(e, d)
  OBVIOUS
<1>14. f \in NsEntry /\ f.node = n
  <2>1. d # Plain => d \in Decl
    OBVIOUS
  <2>2. d # Plain => f \in NsEntry /\ f.node = e.node
    BY <1>13, <2>1, DeclaredIs
  <2> QED BY <1>12, <1>13, <2>2
<1>15. PICK w : w = [ns EXCEPT ![n].wrote = Append(@, d)]
  OBVIOUS
<1>16. PICK r : r = IF need = 0 THEN [nodes |-> w, need |-> 0, end |-> "none"]
                    ELSE ParserAddNamespace(w, f)
  OBVIOUS
<1>17. /\ \A i \in DOMAIN ns[n].wrote : ns[n].wrote[i].prefix # d.prefix
       /\ su = <<f>> \o Tail(st) /\ nt = r.nodes /\ needed = r.need /\ nsEnd' = r.end
  BY <1>2, <1>3, <1>4, <1>5, <1>6, <1>7, <1>11, <1>13, <1>14, <1>15, <1>16 DEF NsAttribute
<1>18. WrittenIn(ns, n, d.prefix) = {}
  BY <1>17 DEF WrittenIn, PlacesOf
<1>19. TakesAttribute(w, ns, n, d)
  BY <1>1, <1>2, <1>10, <1>15, AttributeTaken
<1>20. /\ need \in 0..n /\ w \in Seq(NsElement) /\ Len(w) = n
       /\ w[n].prefix = ns[n].prefix
       /\ \A m \in 1..n : w[m].prefix = ns[m].prefix
  BY <1>1, <1>2, <1>6, <1>8, <1>10, <1>19 DEF TakesAttribute
<1>21. f.prefix = e.prefix /\ f.uri \in NsUris \cup {NoUri}
  <2>1. d # Plain => d \in Decl
    OBVIOUS
  <2>2. d # Plain => f.prefix = e.prefix
    BY <1>13, <2>1, DeclaredIs
  <2>3. f.uri \in NsUris \cup {NoUri}
    BY <1>14 DEF NsEntry
  <2> QED BY <1>13, <2>2, <2>3
<1>22. /\ NsTaken(ns, nt, n, d, f, need, needed)
       /\ nsEnd' # "none" => need # 0 /\ needed = need /\ need # n
  <2>1. CASE need = 0
    <3>1. nt = w /\ needed = 0 /\ nsEnd' = "none"
      BY <1>16, <1>17, <2>1
    <3> QED BY <1>19, <2>1, <3>1 DEF NsTaken
  <2>2. CASE need # 0
    <3>1. Fills(r, w, need, f) \/ WaitsOn(r, w, need, f)
      BY <1>6, <1>16, <2>2, AddedIs
    <3>2. need \in 1..n /\ need \in 1..Len(w) /\ w[need].prefix = ns[need].prefix
      BY <1>20, <2>2
    <3>3. CASE Fills(r, w, need, f)
      <4>1. nt = [w EXCEPT ![need].uri = f.uri] /\ needed = 0 /\ nsEnd' = "none"
            /\ (w[need].prefix # NoPrefix => f.uri # NoUri)
        BY <1>17, <3>3 DEF Fills
      <4>2. TakesUri(nt, w, need, f.uri)
        BY <1>20, <1>21, <3>2, <4>1, UriTaken
      <4> QED BY <1>19, <2>2, <3>2, <4>1, <4>2 DEF NsTaken
    <3>4. CASE WaitsOn(r, w, need, f)
      <4>1. nt = w /\ needed = need
        BY <1>17, <3>4 DEF WaitsOn
      <4>2. need = n => nsEnd' = "none" /\ ns[n].prefix # NoPrefix /\ f.uri = NoUri
        <5>1. SUFFICES ASSUME need = n
                       PROVE  nsEnd' = "none" /\ ns[n].prefix # NoPrefix /\ f.uri = NoUri
          OBVIOUS
        <5>2. w[need].prefix = f.prefix /\ w[need].local = w[f.node].local
          BY <1>12, <1>14, <1>20, <1>21, <5>1
        <5> QED BY <1>17, <3>2, <3>4, <5>1, <5>2 DEF WaitsOn
      <4> QED BY <1>19, <2>2, <4>1, <4>2 DEF NsTaken
    <3> QED BY <3>1, <3>3, <3>4
  <2> QED BY <2>1, <2>2
<1>23. Attributed(ns, nt, n, d) /\ NsUrisAfter(ns, nt, n, f, need, needed)
  <2>1. NsFree(ns, n, d, need)
    BY <1>1, <1>2, <1>8, <1>10, <1>18, <1>20 DEF NsFree
  <2> QED BY <2>1, <1>22, TakenIsAttributed
<1>24. ListsWritten(nt, f) /\ KnowsOwn(nt, f) /\ (d.prefix = ns[n].prefix => f.uri = d.uri)
  BY <1>12, <1>13, <1>23, EntryDeclares
<1>25. OpenPath(nt, su) /\ EntriesTrue(nt, su) /\ NodeAt(su, 1) = n /\ su # <<>>
  <2>1. OpenPath(ns, st) /\ EntriesTrue(ns, st) /\ f.prefix = ns[n].prefix
    BY <1>1, <1>2, <1>4, <1>12, <1>21
  <2>2. OpenTop(ns, st, n)
    BY <2>1, <1>10, <1>12 DEF OpenTop
  <2>3. NewTop(ns, nt, n, f)
    BY <2>1, <1>14, <1>24 DEF NewTop
  <2>4. su = <<f>> \o Tail(st)
    BY <1>17
  <2>5. OpenTop(nt, su, n)
    BY <2>2, <2>3, <2>4, <1>23, TopChanges
  <2> QED BY <2>5 DEF OpenTop
<1>26. Waiting(ns, need, n - 1) /\ UrisMeant(ns, need, n - 1)
  BY <1>1, <1>2, <1>6, <1>10
<1>27. Waiting(nt, needed, n - 1)
  <2>1. needed # 0 => nt[need].uri = ns[need].uri
    BY <1>23 DEF NsUrisAfter
  <2> QED BY <2>1, <1>10, <1>20, <1>22, <1>23, <1>24, <1>26, StillWaiting
<1>28. UrisMeant(nt, needed, n - 1)
  <2>1. f.node = n /\ f.prefix = ns[n].prefix
    BY <1>12, <1>14, <1>21
  <2>2. /\ \A m \in 1..n : m # need => nt[m].uri = ns[m].uri
        /\ needed # 0 => nt[need].uri = ns[need].uri
        /\ need # 0 /\ needed = 0 => nt[need].uri = f.uri
    BY <1>23 DEF NsUrisAfter
  <2> QED BY <2>1, <2>2, <1>10, <1>20, <1>22, <1>23, <1>24, <1>26, <1>27, UrisStayMeant
<1>29. NsNested(nt) /\ n = Len(nt)
  BY <1>23 DEF Attributed
<1>30. CompleteOnes' = n - 1
  BY <1>3, <1>9, <1>29 DEF CompleteOnes
<1>31. needed \in 0..Len(nt)
  BY <1>20, <1>22, <1>29 DEF NsTaken
<1>32. nsEnd' # "none" => needed # 0 /\ needed # NodeAt(su, 1)
  BY <1>22, <1>25
<1>33. /\ Waiting(nt, needed, CompleteOnes') /\ UrisMeant(nt, needed, CompleteOnes')
  BY <1>27, <1>28, <1>30
<1> QED BY <1>3, <1>5, <1>7, <1>9, <1>25, <1>29, <1>31, <1>32, <1>33 DEF NsInv

LEMMA NsEndsTag ==
  ASSUME NsInv, NsEndOfTag
  PROVE  NsInv'
<1>1. /\ NsNested(nsNodes) /\ OpenPath(nsNodes, nsStack) /\ EntriesTrue(nsNodes, nsStack)
      /\ nsNeed \in 0..Len(nsNodes)
      /\ Waiting(nsNodes, nsNeed, CompleteOnes) /\ UrisMeant(nsNodes, nsNeed, CompleteOnes)
  BY DEF NsInv
<1>2. /\ nsTag /\ ~nsTag' /\ nsEnd' = "none" /\ nsStack' = nsStack /\ nsNodes' = nsNodes /\ nsNeed' = nsNeed
      /\ nsNodes[Head(nsStack).node].wrote # <<>>
  BY DEF NsEndOfTag
<1>3. PICK n \in Nat : n = Len(nsNodes)
  BY CompleteIs
<1>4. CompleteOnes = n - 1 /\ Head(nsStack).node = n /\ CompleteOnes' = n
  BY <1>2, <1>3, CompleteIs DEF CompleteOnes
<1>5. Waiting(nsNodes, nsNeed, n)
  <2>1. nsNeed \in Nat /\ nsNeed <= n
    BY <1>1, <1>3
  <2>2. SUFFICES ASSUME nsNeed # 0, nsNodes[nsNeed].prefix = NoPrefix
                 PROVE  FALSE
    BY <1>1, <1>4 DEF Waiting
  <2>3. nsNeed > n - 1 /\ nsNodes[nsNeed].wrote = <<>>
    BY <1>1, <1>4, <2>2 DEF Waiting
  <2>4. nsNeed = n
    BY <1>3, <2>1, <2>3
  <2> QED BY <1>2, <1>4, <2>3, <2>4
<1>6. UrisMeant(nsNodes, nsNeed, n)
  <2>1. SUFFICES ASSUME NamedUpTo(nsNodes, n)
                 PROVE  (\A m \in 1..Len(nsNodes) : UriMeant(nsNodes, m)) /\ NewHasUri(nsNodes, nsNeed, n)
    BY DEF UrisMeant
  <2>2. NamedUpTo(nsNodes, n - 1)
    <3>1. \A m \in 1..(n - 1) : m \in 1..n
      BY <1>3
    <3> QED BY <2>1, <3>1 DEF NamedUpTo
  <2>3. \A m \in 1..Len(nsNodes) : UriMeant(nsNodes, m)
    BY <1>1, <1>4, <2>2 DEF UrisMeant
  <2>4. NewHasUri(nsNodes, nsNeed, n)
    BY <1>3 DEF NewHasUri
  <2> QED BY <2>3, <2>4
<1>7. /\ Waiting(nsNodes', nsNeed', CompleteOnes') /\ UrisMeant(nsNodes', nsNeed', CompleteOnes')
  BY <1>2, <1>4, <1>5, <1>6
<1>8. /\ NsNested(nsNodes') /\ OpenPath(nsNodes', nsStack') /\ EntriesTrue(nsNodes', nsStack')
      /\ nsNeed' \in 0..Len(nsNodes')
  BY <1>1, <1>2
<1> QED BY <1>2, <1>7, <1>8 DEF NsInv

LEMMA NsPops ==
  ASSUME NsInv, ParserPopElement
  PROVE  NsInv'
<1>1. /\ NsNested(nsNodes) /\ OpenPath(nsNodes, nsStack) /\ EntriesTrue(nsNodes, nsStack)
      /\ nsNeed \in 0..Len(nsNodes)
      /\ Waiting(nsNodes, nsNeed, CompleteOnes) /\ UrisMeant(nsNodes, nsNeed, CompleteOnes)
  BY DEF NsInv
<1>2. /\ ~nsTag /\ nsTag' = nsTag /\ nsEnd' = "none" /\ nsStack' = Tail(nsStack) /\ nsNodes' = nsNodes
      /\ nsNeed' = nsNeed /\ nsStack # <<>>
  BY DEF ParserPopElement
<1>3. PICK st \in Seq(NsEntry) : st = nsStack
  BY <1>1 DEF OpenPath
<1>4. PICK su : su = Tail(st)
  OBVIOUS
<1>5. PICK l \in Nat : l = Len(st) /\ l >= 1
  BY <1>2, <1>3, TailIs
<1>6. su \in Seq(NsEntry) /\ Len(su) = l - 1 /\ \A k \in 1..(l - 1) : su[k] = st[k + 1]
  BY <1>2, <1>3, <1>4, <1>5, TailIs
<1>7. \A j \in 1..l : NodeAt(su, j) = NodeAt(st, j + 1)
  <2>1. ASSUME NEW j \in 1..l
        PROVE  NodeAt(su, j) = NodeAt(st, j + 1)
    <3>1. CASE j = l
      <4>1. j \notin 1..Len(su) /\ j + 1 \notin 1..Len(st)
        BY <1>5, <1>6, <3>1
      <4> QED BY <4>1 DEF NodeAt
    <3>2. CASE j # l
      <4>1. j \in 1..(l - 1) /\ j \in 1..Len(su) /\ j + 1 \in 1..Len(st)
        BY <1>5, <1>6, <3>2
      <4> QED BY <1>6, <4>1 DEF NodeAt
    <3> QED BY <3>1, <3>2
  <2> QED BY <2>1
<1>8. ASSUME NEW j \in 1..Len(su)
      PROVE  /\ su[j].node \in 1..Len(nsNodes) /\ su[j].prefix = nsNodes[su[j].node].prefix
             /\ nsNodes[su[j].node].parent = NodeAt(su, j + 1)
             /\ ListsWritten(nsNodes, su[j]) /\ KnowsOwn(nsNodes, su[j])
  <2>1. j \in 1..(l - 1) /\ j + 1 \in 1..l /\ j + 1 \in 1..Len(st)
    BY <1>5, <1>6
  <2>2. PICK i : i = j + 1
    OBVIOUS
  <2>3. su[j] = st[i] /\ NodeAt(su, i) = NodeAt(st, i + 1) /\ i \in 1..Len(st)
    BY <1>6, <1>7, <2>1, <2>2
  <2>4. /\ st[i].node \in 1..Len(nsNodes) /\ st[i].prefix = nsNodes[st[i].node].prefix
        /\ nsNodes[st[i].node].parent = NodeAt(st, i + 1)
    BY <1>1, <1>3, <2>3 DEF OpenPath
  <2>5. ListsWritten(nsNodes, st[i]) /\ KnowsOwn(nsNodes, st[i])
    BY <1>1, <1>3, <2>3 DEF EntriesTrue
  <2> QED BY <2>2, <2>3, <2>4, <2>5
<1>9. OpenPath(nsNodes, su) /\ EntriesTrue(nsNodes, su)
  BY <1>6, <1>8 DEF OpenPath, EntriesTrue
<1>10. CompleteOnes' = CompleteOnes
  BY <1>2 DEF CompleteOnes
<1>11. /\ Waiting(nsNodes', nsNeed', CompleteOnes') /\ UrisMeant(nsNodes', nsNeed', CompleteOnes')
  BY <1>1, <1>2, <1>10
<1>12. /\ NsNested(nsNodes') /\ OpenPath(nsNodes', nsStack') /\ EntriesTrue(nsNodes', nsStack')
       /\ nsNeed' \in 0..Len(nsNodes')
  BY <1>1, <1>2, <1>3, <1>4, <1>9
<1>13. ~nsTag'
  BY <1>2
<1> QED BY <1>2, <1>11, <1>12, <1>13 DEF NsInv

LEMMA NsSteps ==
  ASSUME NsInv, NsNext \/ UNCHANGED nsVars
  PROVE  NsInv'
<1>1. ASSUME NEW p \in NsNames, NEW l \in NsLocals, NEW a \in BOOLEAN, NsStartTag(p, l, a)
      PROVE  NsInv'
  BY <1>1, NsStartsElement
<1>2. ASSUME NEW d \in Decl \cup {Plain}, NsAttribute(d)
      PROVE  NsInv'
  BY <1>2, NsTakesAttribute
<1>3. CASE NsEndOfTag
  BY <1>3, NsEndsTag
<1>4. CASE ParserPopElement
  BY <1>4, NsPops
<1>5. CASE UNCHANGED nsVars
  <2>1. /\ nsStack' = nsStack /\ nsNodes' = nsNodes /\ nsNeed' = nsNeed /\ nsTag' = nsTag /\ nsEnd' = nsEnd
    BY <1>5 DEF nsVars
  <2>2. CompleteOnes' = CompleteOnes
    BY <2>1 DEF CompleteOnes
  <2> QED BY <2>1, <2>2 DEF NsInv
<1> QED BY <1>1, <1>2, <1>3, <1>4, <1>5 DEF NsNext

----------------------------------------------------------------------------
(* DomLinks, for any table of nodes and one conjunct at a time.            *)

Nodes(h) == h \in [DomNodes -> XmlNodeType]

NextLinked(h) == \A n \in DomNodes : h[n].next # NoNode =>
                   h[h[n].next].prev = n /\ h[h[n].next].parent = h[n].parent
PrevLinked(h) == \A n \in DomNodes : h[n].prev # NoNode =>
                   h[h[n].prev].next = n /\ h[h[n].prev].parent = h[n].parent
FirstLinked(h) == \A n \in DomNodes : h[n].first # NoNode =>
                    h[h[n].first].parent = n /\ h[h[n].first].prev = NoNode
HeadLinked(h) == \A n \in DomNodes : h[n].parent # NoNode /\ h[n].prev = NoNode =>
                   h[h[n].parent].first = n
RootsAlone(h) == \A n \in DomNodes : h[n].parent = NoNode =>
                   h[n].next = NoNode /\ h[n].prev = NoNode

Linked(h) ==
  NextLinked(h) /\ PrevLinked(h) /\ FirstLinked(h) /\ HeadLinked(h) /\ RootsAlone(h)

LEMMA LinkedIsDomLinks == Linked(dom) <=> DomLinks
  BY DEF Linked, NextLinked, PrevLinked, FirstLinked, HeadLinked, RootsAlone, DomLinks

\* What the five say of the fields of one node, for use below.
LEMMA Fields ==
  ASSUME NEW h, Nodes(h), NEW n \in DomNodes
  PROVE  /\ h[n].parent \in DomPtr /\ h[n].first \in DomPtr
         /\ h[n].next \in DomPtr /\ h[n].prev \in DomPtr
         /\ h[n].parent # NoNode => h[n].parent \in DomNodes
         /\ h[n].first # NoNode => h[n].first \in DomNodes
         /\ h[n].next # NoNode => h[n].next \in DomNodes
         /\ h[n].prev # NoNode => h[n].prev \in DomNodes
  BY DEF Nodes, XmlNodeType, DomPtr

----------------------------------------------------------------------------
LEMMA UnlinkKeepsNodes ==
  ASSUME NEW h, Nodes(h), NEW p \in DomNodes, NEW c \in DomNodes
  PROVE  Nodes(Unlink(h, p, c))
<1>1. \A x \in DomNodes : h[x] \in XmlNodeType
  BY DEF Nodes
<1>2. \A x \in DomNodes : Unlink(h, p, c)[x] \in XmlNodeType
  BY <1>1 DEF Unlink, XmlNodeType, DomPtr
<1> QED
  BY <1>2 DEF Nodes, Unlink

\* The fields after XmlNodeRemoveChild, one by one.
LEMMA UnlinkFields ==
  ASSUME NEW h, NEW p, NEW c, NEW x \in DomNodes
  PROVE  LET u == Unlink(h, p, c) IN
         /\ u[x].parent = IF x = c THEN NoNode ELSE h[x].parent
         /\ u[x].first = IF x = p /\ h[p].first = c THEN h[c].next ELSE h[x].first
         /\ u[x].next = IF x = c THEN NoNode
                        ELSE IF x = h[c].prev THEN h[c].next ELSE h[x].next
         /\ u[x].prev = IF x = c THEN NoNode
                        ELSE IF x = h[c].next THEN h[c].prev ELSE h[x].prev
  BY DEF Unlink

\* Taking a child out of the list it is in leaves linked lists, and the child
\* alone.
LEMMA UnlinkKeepsLinked ==
  ASSUME NEW h, Nodes(h), Linked(h), NEW p \in DomNodes, NEW c \in DomNodes,
         h[c].parent = p
  PROVE  Linked(Unlink(h, p, c))
<1> DEFINE u == Unlink(h, p, c)
<1> NoNode \notin DomNodes
  BY DomAssumption
<1> USE DEF Linked
<1>f. \A x \in DomNodes :
         /\ u[x].parent = IF x = c THEN NoNode ELSE h[x].parent
         /\ u[x].first = IF x = p /\ h[p].first = c THEN h[c].next ELSE h[x].first
         /\ u[x].next = IF x = c THEN NoNode
                        ELSE IF x = h[c].prev THEN h[c].next ELSE h[x].next
         /\ u[x].prev = IF x = c THEN NoNode
                        ELSE IF x = h[c].next THEN h[c].prev ELSE h[x].prev
  BY UnlinkFields
<1>g. \A n \in DomNodes :
         /\ h[n].parent # NoNode => h[n].parent \in DomNodes
         /\ h[n].first # NoNode => h[n].first \in DomNodes
         /\ h[n].next # NoNode => h[n].next \in DomNodes
         /\ h[n].prev # NoNode => h[n].prev \in DomNodes
  BY Fields
<1> HIDE DEF u
<1>1. NextLinked(u)
  BY <1>f, <1>g DEF NextLinked, PrevLinked
<1>2. PrevLinked(u)
  BY <1>f, <1>g DEF NextLinked, PrevLinked
<1>3. FirstLinked(u)
  BY <1>f, <1>g DEF NextLinked, PrevLinked, FirstLinked
<1>4. HeadLinked(u)
  BY <1>f, <1>g DEF NextLinked, PrevLinked, FirstLinked, HeadLinked
<1>5. RootsAlone(u)
  BY <1>f, <1>g DEF NextLinked, PrevLinked, RootsAlone
<1> QED
  BY <1>1, <1>2, <1>3, <1>4, <1>5 DEF u

\* The child taken out is alone, and the parents of the others are kept.
LEMMA UnlinkFrees ==
  ASSUME NEW h, NEW p, NEW c \in DomNodes
  PROVE  /\ Unlink(h, p, c)[c].parent = NoNode
         /\ \A x \in DomNodes \ {c} : Unlink(h, p, c)[x].parent = h[x].parent
  BY DEF Unlink

----------------------------------------------------------------------------
LEMMA LinkBeforeKeepsNodes ==
  ASSUME NEW h, Nodes(h), NEW p \in DomNodes, NEW c \in DomNodes, NEW r \in DomNodes
  PROVE  Nodes(LinkBefore(h, p, c, r))
<1>1. \A x \in DomNodes : h[x] \in XmlNodeType
  BY DEF Nodes
<1>2. \A x \in DomNodes : LinkBefore(h, p, c, r)[x] \in XmlNodeType
  BY <1>1 DEF LinkBefore, XmlNodeType, DomPtr
<1> QED
  BY <1>2 DEF Nodes, LinkBefore

\* Nothing points at a node without parent.
LEMMA NothingPointsAt ==
  ASSUME NEW h, Nodes(h), Linked(h), NEW c \in DomNodes, h[c].parent = NoNode
  PROVE  /\ h[c].next = NoNode /\ h[c].prev = NoNode
         /\ \A x \in DomNodes : h[x].next # c /\ h[x].prev # c /\ h[x].first # c
<1> USE DEF Linked
<1> NoNode \notin DomNodes
  BY DomAssumption
<1>1. h[c].next = NoNode /\ h[c].prev = NoNode
  BY DEF RootsAlone
<1>2. \A x \in DomNodes : h[x].next # c
  BY <1>1 DEF NextLinked
<1>3. \A x \in DomNodes : h[x].prev # c
  BY <1>1 DEF PrevLinked
<1>4. \A x \in DomNodes : h[x].first # c
  BY <1>1 DEF FirstLinked
<1> QED
  BY <1>1, <1>2, <1>3, <1>4

\* A node without parent goes in front of a child of p.
LEMMA LinkBeforeKeepsLinked ==
  ASSUME NEW h, Nodes(h), Linked(h),
         NEW p \in DomNodes, NEW c \in DomNodes, NEW r \in DomNodes,
         h[c].parent = NoNode, h[r].parent = p
  PROVE  Linked(LinkBefore(h, p, c, r))
<1> DEFINE u == LinkBefore(h, p, c, r)
<1> NoNode \notin DomNodes
  BY DomAssumption
<1> USE DEF Linked
<1>a. /\ h[c].next = NoNode /\ h[c].prev = NoNode
      /\ \A x \in DomNodes : h[x].next # c /\ h[x].prev # c /\ h[x].first # c
  BY NothingPointsAt
<1>f. \A x \in DomNodes :
        /\ u[x].parent = IF x = c THEN p ELSE h[x].parent
        /\ u[x].first = IF x = p /\ h[r].prev = NoNode THEN c ELSE h[x].first
        /\ u[x].next = IF x = c THEN r ELSE IF x = h[r].prev THEN c ELSE h[x].next
        /\ u[x].prev = IF x = c THEN h[r].prev ELSE IF x = r THEN c ELSE h[x].prev
  BY <1>a DEF LinkBefore
<1>g. \A n \in DomNodes :
         /\ h[n].parent # NoNode => h[n].parent \in DomNodes
         /\ h[n].first # NoNode => h[n].first \in DomNodes
         /\ h[n].next # NoNode => h[n].next \in DomNodes
         /\ h[n].prev # NoNode => h[n].prev \in DomNodes
  BY Fields
<1> HIDE DEF u
<1>1. NextLinked(u)
  BY <1>a, <1>f, <1>g DEF NextLinked, PrevLinked
<1>2. PrevLinked(u)
  BY <1>a, <1>f, <1>g DEF NextLinked, PrevLinked
<1>3. FirstLinked(u)
  BY <1>a, <1>f, <1>g DEF PrevLinked, FirstLinked, HeadLinked
<1>4. HeadLinked(u)
  BY <1>a, <1>f, <1>g DEF PrevLinked, FirstLinked, HeadLinked
<1>5. RootsAlone(u)
  BY <1>a, <1>f, <1>g DEF PrevLinked, RootsAlone
<1> QED
  BY <1>1, <1>2, <1>3, <1>4, <1>5 DEF u

----------------------------------------------------------------------------
LEMMA LinkLastKeepsNodes ==
  ASSUME NEW h, Nodes(h), NEW p \in DomNodes, NEW c \in DomNodes, NEW l \in DomPtr
  PROVE  Nodes(LinkLast(h, p, c, l))
<1>1. \A x \in DomNodes : h[x] \in XmlNodeType
  BY DEF Nodes
<1>2. \A x \in DomNodes : LinkLast(h, p, c, l)[x] \in XmlNodeType
  BY <1>1 DEF LinkLast, XmlNodeType, DomPtr
<1> QED
  BY <1>2 DEF Nodes, LinkLast

\* A node without parent becomes the last child of p.
LEMMA LinkLastKeepsLinked ==
  ASSUME NEW h, Nodes(h), Linked(h),
         NEW p \in DomNodes, NEW c \in DomNodes, NEW l \in DomPtr,
         h[c].parent = NoNode, WalkEnds(h, p, l)
  PROVE  Linked(LinkLast(h, p, c, l))
<1> DEFINE u == LinkLast(h, p, c, l)
<1> NoNode \notin DomNodes
  BY DomAssumption
<1> USE DEF Linked
<1>a. /\ h[c].next = NoNode /\ h[c].prev = NoNode
      /\ \A x \in DomNodes : h[x].next # c /\ h[x].prev # c /\ h[x].first # c
  BY NothingPointsAt
<1>b. \/ l = NoNode /\ h[p].first = NoNode
      \/ l \in DomNodes /\ h[l].parent = p /\ h[l].next = NoNode
  BY DEF WalkEnds
<1>f. \A x \in DomNodes :
        /\ u[x].parent = IF x = c THEN p ELSE h[x].parent
        /\ u[x].first = IF x = p /\ l = NoNode THEN c ELSE h[x].first
        /\ u[x].next = IF l # NoNode /\ x = l THEN c ELSE h[x].next
        /\ u[x].prev = IF x = c /\ l # NoNode THEN l ELSE h[x].prev
  BY DEF LinkLast
<1>g. \A n \in DomNodes :
         /\ h[n].parent # NoNode => h[n].parent \in DomNodes
         /\ h[n].first # NoNode => h[n].first \in DomNodes
         /\ h[n].next # NoNode => h[n].next \in DomNodes
         /\ h[n].prev # NoNode => h[n].prev \in DomNodes
  BY Fields
<1> HIDE DEF u
<1>1. NextLinked(u)
  BY <1>a, <1>b, <1>f, <1>g DEF NextLinked
<1>2. PrevLinked(u)
  BY <1>a, <1>b, <1>f, <1>g DEF PrevLinked
<1>3. FirstLinked(u)
  BY <1>a, <1>b, <1>f, <1>g DEF FirstLinked
<1>4. HeadLinked(u)
  BY <1>a, <1>b, <1>f, <1>g DEF HeadLinked
<1>5. RootsAlone(u)
  BY <1>a, <1>b, <1>f, <1>g DEF RootsAlone
<1> QED
  BY <1>1, <1>2, <1>3, <1>4, <1>5 DEF u

----------------------------------------------------------------------------
\* Two tables that differ in owner documents only are linked alike.
SameLinks(h, g) == \A x \in DomNodes : /\ g[x].parent = h[x].parent
                                       /\ g[x].first = h[x].first
                                       /\ g[x].next = h[x].next
                                       /\ g[x].prev = h[x].prev

LEMMA SameLinksLinked ==
  ASSUME NEW h, Nodes(h), NEW g, SameLinks(h, g), Linked(h)
  PROVE  Linked(g)
<1> NoNode \notin DomNodes
  BY DomAssumption
<1> USE DEF Linked, SameLinks
<1>g. \A n \in DomNodes :
         /\ h[n].parent # NoNode => h[n].parent \in DomNodes
         /\ h[n].first # NoNode => h[n].first \in DomNodes
         /\ h[n].next # NoNode => h[n].next \in DomNodes
         /\ h[n].prev # NoNode => h[n].prev \in DomNodes
  BY Fields
<1>1. NextLinked(g) /\ PrevLinked(g)
  BY <1>g DEF NextLinked, PrevLinked
<1>2. FirstLinked(g) /\ HeadLinked(g) /\ RootsAlone(g)
  BY <1>g DEF FirstLinked, HeadLinked, RootsAlone
<1> QED
  BY <1>1, <1>2

----------------------------------------------------------------------------
(* XmlNodeFree: every list goes as a whole.                                *)

LEMMA WalkedIsClosed ==
  ASSUME NEW h, Nodes(h), NEW n \in DomNodes
  PROVE  n \in Walked(h, n) /\ Closed(h, Walked(h, n))
<1> NoNode \notin DomNodes
  BY DomAssumption
<1>1. n \in Walked(h, n)
  BY DEF Walked
<1>2. ASSUME NEW m \in Walked(h, n), NEW k \in {h[m].first, h[m].next}, k # NoNode
      PROVE  k \in Walked(h, n)
  <2>1. m \in DomNodes /\ k \in DomNodes
    BY <1>2, Fields DEF Walked
  <2>2. ASSUME NEW S \in SUBSET DomNodes, n \in S, Closed(h, S)
        PROVE  k \in S
    <3>1. m \in S
      BY <2>2 DEF Walked
    <3> QED
      BY <3>1, <2>2, <1>2 DEF Closed
  <2> QED
    BY <2>1, <2>2 DEF Walked
<1> QED
  BY <1>1, <1>2 DEF Closed

\* A node that is met and is not the start is met from one that is.
LEMMA WalkedFrom ==
  ASSUME NEW h, Nodes(h), NEW n \in DomNodes, NEW v \in Walked(h, n), v # n
  PROVE  \E m \in Walked(h, n) \ {v} : h[m].first = v \/ h[m].next = v
<1> SUFFICES ASSUME \A m \in Walked(h, n) \ {v} : h[m].first # v /\ h[m].next # v
             PROVE  FALSE
  OBVIOUS
<1> DEFINE S == Walked(h, n) \ {v}
<1>1. S \in SUBSET DomNodes /\ n \in S
  BY WalkedIsClosed DEF Walked
<1>2. Closed(h, S)
  BY WalkedIsClosed DEF Closed
<1>3. v \in S
  BY <1>1, <1>2 DEF Walked
<1> QED
  BY <1>3

\* Nothing outside the walk from a node without parent points into it by
\* firstChild or a sibling pointer.
LEMMA NothingPointsIntoWalk ==
  ASSUME NEW h, Nodes(h), Linked(h), NEW n \in DomNodes, h[n].parent = NoNode,
         NEW y \in DomNodes, y \notin Walked(h, n)
  PROVE  /\ h[y].next \notin Walked(h, n) /\ h[y].prev \notin Walked(h, n)
         /\ h[y].first \notin Walked(h, n)
<1> NoNode \notin DomNodes /\ Walked(h, n) \subseteq DomNodes
  BY DomAssumption DEF Walked
<1> USE DEF Linked
<1>a. /\ h[n].next = NoNode /\ h[n].prev = NoNode
      /\ \A x \in DomNodes : h[x].next # n /\ h[x].prev # n /\ h[x].first # n
  BY NothingPointsAt
<1>1. h[y].prev \notin Walked(h, n)
  <2> SUFFICES ASSUME h[y].prev \in Walked(h, n) PROVE FALSE
    OBVIOUS
  <2>1. h[h[y].prev].next = y
    BY DEF PrevLinked
  <2> QED
    BY <2>1, WalkedIsClosed DEF Closed
<1>2. h[y].next \notin Walked(h, n)
  <2> SUFFICES ASSUME NEW v \in Walked(h, n), v = h[y].next PROVE FALSE
    OBVIOUS
  <2>1. v # n /\ h[v].prev = y
    BY <1>a DEF NextLinked
  <2>2. PICK m \in Walked(h, n) \ {v} : h[m].first = v \/ h[m].next = v
    BY <2>1, WalkedFrom
  <2>3. h[m].first # v
    BY <2>1, <2>2 DEF FirstLinked
  <2>4. h[m].next # v
    BY <2>1, <2>2 DEF NextLinked
  <2> QED
    BY <2>2, <2>3, <2>4
<1>3. h[y].first \notin Walked(h, n)
  <2> SUFFICES ASSUME NEW v \in Walked(h, n), v = h[y].first PROVE FALSE
    OBVIOUS
  <2>1. v # n /\ h[v].parent = y /\ h[v].prev = NoNode
    BY <1>a DEF FirstLinked
  <2>2. PICK m \in Walked(h, n) \ {v} : h[m].first = v \/ h[m].next = v
    BY <2>1, WalkedFrom
  <2>3. h[m].first # v
    BY <2>1, <2>2 DEF FirstLinked
  <2>4. h[m].next # v
    BY <2>1, <2>2 DEF NextLinked
  <2> QED
    BY <2>2, <2>3, <2>4
<1> QED
  BY <1>1, <1>2, <1>3

\* The table after a free.
Freed(h, n) == [x \in DomNodes |-> IF x \in Walked(h, n) THEN XmlNodeInit ELSE h[x]]

LEMMA FreedKeepsLinked ==
  ASSUME NEW h, Nodes(h), Linked(h), NEW n \in DomNodes, h[n].parent = NoNode
  PROVE  Nodes(Freed(h, n)) /\ Linked(Freed(h, n))
<1> DEFINE u == Freed(h, n)
           W == Walked(h, n)
<1> NoNode \notin DomNodes
  BY DomAssumption
<1>0. XmlNodeInit \in XmlNodeType
  BY DEF XmlNodeInit, XmlNodeType, DomPtr
<1>t. Nodes(u)
  BY <1>0 DEF Nodes, Freed
<1> USE DEF Linked
<1>c. \A x \in DomNodes \ W : /\ h[x].next \notin W /\ h[x].prev \notin W
                              /\ h[x].first \notin W
  BY NothingPointsIntoWalk
<1>d. \A x \in W : h[x].first = NoNode \/ h[x].first \in W
  BY WalkedIsClosed DEF Closed
<1>f. /\ \A x \in W : /\ u[x].parent = NoNode /\ u[x].first = NoNode
                      /\ u[x].next = NoNode /\ u[x].prev = NoNode
      /\ \A x \in DomNodes \ W : u[x] = h[x]
  BY DEF Freed, XmlNodeInit, Walked
<1>g. \A x \in DomNodes :
         /\ h[x].parent # NoNode => h[x].parent \in DomNodes
         /\ h[x].first # NoNode => h[x].first \in DomNodes
         /\ h[x].next # NoNode => h[x].next \in DomNodes
         /\ h[x].prev # NoNode => h[x].prev \in DomNodes
  BY Fields
<1> HIDE DEF u, W
<1>1. NextLinked(u)
  BY <1>c, <1>f, <1>g DEF NextLinked
<1>2. PrevLinked(u)
  BY <1>c, <1>f, <1>g DEF PrevLinked
<1>3. FirstLinked(u)
  BY <1>c, <1>f, <1>g DEF FirstLinked
<1>4. HeadLinked(u)
  BY <1>c, <1>d, <1>f, <1>g DEF HeadLinked
<1>5. RootsAlone(u)
  BY <1>c, <1>f, <1>g DEF RootsAlone
<1> QED
  BY <1>t, <1>1, <1>2, <1>3, <1>4, <1>5 DEF u

----------------------------------------------------------------------------
(* The calls.                                                              *)

\* A node that is not allocated has no pointers.
Unborn == \A n \in DomNodes \ domLive : dom[n] = XmlNodeInit

DomInv == DomTypeOK /\ Linked(dom) /\ Unborn

LEMMA InitDomInv == DomInit => DomInv
<1> SUFFICES ASSUME DomInit PROVE DomInv
  OBVIOUS
<1>1. XmlNodeInit \in XmlNodeType
  BY DEF XmlNodeInit, XmlNodeType, DomPtr
<1>2. DomTypeOK /\ Unborn
  BY <1>1 DEF DomInit, DomTypeOK, Unborn
<1>3. Linked(dom)
  BY DEF DomInit, XmlNodeInit, Linked, NextLinked, PrevLinked, FirstLinked,
         HeadLinked, RootsAlone
<1> QED
  BY <1>2, <1>3 DEF DomInv

\* XmlDocCreateElementEx, XmlDocImportNode, XmlNodeCloneNode: one node more,
\* which only may have an owner.
LEMMA CreateKeepsInv ==
  ASSUME DomInv, NEW d \in DomPtr, NEW n \in DomNodes \ domLive,
         domLive' = domLive \cup {n},
         dom' = [dom EXCEPT ![n] = [XmlNodeInit EXCEPT !.doc = d]]
  PROVE  DomInv'
<1> USE DEF DomInv
<1>1. [XmlNodeInit EXCEPT !.doc = d] \in XmlNodeType
  BY DEF XmlNodeInit, XmlNodeType, DomPtr
<1>2. DomTypeOK'
  BY <1>1 DEF DomTypeOK
<1>3. SameLinks(dom, dom')
  BY DEF DomTypeOK, Unborn, SameLinks, XmlNodeInit
<1>4. Linked(dom')
  BY <1>3, SameLinksLinked DEF DomTypeOK, Nodes
<1>5. Unborn'
  BY DEF Unborn, DomTypeOK
<1> QED
  BY <1>2, <1>4, <1>5

\* A call that rearranges the pointers of allocated nodes.
LEMMA MoveKeepsInv ==
  ASSUME DomInv, UNCHANGED domLive, Nodes(dom'), Linked(dom'),
         \A x \in DomNodes \ domLive : dom'[x] = XmlNodeInit
  PROVE  DomInv'
  BY DEF DomInv, DomTypeOK, Nodes, Unborn

\* What one of the three assignments leaves of a node that has no pointers and
\* is none of its arguments.
LEMMA UnlinkLeaves ==
  ASSUME NEW h, Nodes(h), Linked(h), NEW p \in DomNodes, NEW c \in DomNodes,
         NEW x \in DomNodes, h[x] = XmlNodeInit, x # p, x # c
  PROVE  Unlink(h, p, c)[x] = XmlNodeInit
<1>1. h[c].prev # x /\ h[c].next # x
  BY NothingPointsAt DEF XmlNodeInit
<1> QED
  BY <1>1 DEF Unlink, XmlNodeInit

LEMMA LinkBeforeLeaves ==
  ASSUME NEW h, Nodes(h), Linked(h), NEW p \in DomNodes, NEW c \in DomNodes,
         NEW r \in DomNodes, NEW x \in DomNodes, h[x] = XmlNodeInit,
         x # p, x # c, x # r
  PROVE  LinkBefore(h, p, c, r)[x] = XmlNodeInit
<1>1. h[r].prev # x
  BY NothingPointsAt DEF XmlNodeInit
<1> QED
  BY <1>1 DEF LinkBefore, XmlNodeInit

LEMMA LinkLastLeaves ==
  ASSUME NEW h, NEW p \in DomNodes, NEW c \in DomNodes, NEW l \in DomPtr,
         WalkEnds(h, p, l),
         NEW x \in DomNodes, h[x] = XmlNodeInit, x # p, x # c
  PROVE  LinkLast(h, p, c, l)[x] = XmlNodeInit
<1>1. l = NoNode \/ h[l].parent = p
  BY DEF WalkEnds
<1>2. NoNode \notin DomNodes
  BY DomAssumption
<1> QED
  BY <1>1, <1>2 DEF LinkLast, XmlNodeInit

\* Before it is put anywhere a node is taken out of where it is: what the
\* three calls that put one start from.
LEMMA DetachedKeeps ==
  ASSUME DomInv, NEW p \in domLive, NEW c \in domLive,
         dom[c].parent \in {NoNode, p}
  PROVE  LET h == DetachedFirst(dom, p, c) IN
         /\ Nodes(h) /\ Linked(h) /\ h[c].parent = NoNode
         /\ \A x \in DomNodes \ {c} : h[x].parent = dom[x].parent
         /\ \A x \in DomNodes \ domLive : h[x] = XmlNodeInit
<1> DEFINE h == DetachedFirst(dom, p, c)
<1>1. p \in DomNodes /\ c \in DomNodes /\ Nodes(dom) /\ Linked(dom)
  BY DEF DomInv, DomTypeOK, Nodes
<1>2. CASE dom[c].parent = p
  <2>1. h = Unlink(dom, p, c)
    BY <1>2 DEF DetachedFirst
  <2>2. Nodes(h) /\ Linked(h)
    BY <1>1, <1>2, <2>1, UnlinkKeepsNodes, UnlinkKeepsLinked
  <2>3. h[c].parent = NoNode /\ \A x \in DomNodes \ {c} : h[x].parent = dom[x].parent
    BY <1>1, <2>1, UnlinkFrees
  <2>4. \A x \in DomNodes \ domLive : h[x] = XmlNodeInit
    BY <1>1, <2>1, UnlinkLeaves DEF DomInv, Unborn
  <2> QED
    BY <2>2, <2>3, <2>4
<1>3. CASE dom[c].parent # p
  <2>1. h = dom /\ dom[c].parent = NoNode
    BY <1>3 DEF DetachedFirst
  <2> QED
    BY <1>1, <2>1 DEF DomInv, Unborn
<1> QED
  BY <1>2, <1>3

LEMMA AppendKeepsInv ==
  ASSUME DomInv, DomMoves = FALSE, NEW p, NEW c, XmlNodeAppendChild(p, c)
  PROVE  DomInv'
<1> DEFINE h == DetachedFirst(dom, p, c)
<1>1. p \in domLive /\ c \in domLive /\ dom[c].parent \in {NoNode, p} /\ UNCHANGED domLive
  BY DEF XmlNodeAppendChild, MayPut
<1>2. PICK l \in DomPtr : WalkEnds(h, p, l) /\ dom' = LinkLast(h, p, c, l)
  BY DEF XmlNodeAppendChild
<1>3. /\ Nodes(h) /\ Linked(h) /\ h[c].parent = NoNode
      /\ \A x \in DomNodes \ domLive : h[x] = XmlNodeInit
  BY <1>1, DetachedKeeps
<1>4. p \in DomNodes /\ c \in DomNodes
  BY <1>1 DEF DomInv, DomTypeOK
<1> HIDE DEF h
<1>5. Nodes(LinkLast(h, p, c, l)) /\ Linked(LinkLast(h, p, c, l))
  BY <1>2, <1>3, <1>4, LinkLastKeepsNodes, LinkLastKeepsLinked
<1>6. \A x \in DomNodes \ domLive : LinkLast(h, p, c, l)[x] = XmlNodeInit
  BY <1>1, <1>2, <1>3, <1>4, LinkLastLeaves
<1> QED
  BY <1>1, <1>2, <1>5, <1>6, MoveKeepsInv

LEMMA InsertBeforeKeepsInv ==
  ASSUME DomInv, DomMoves = FALSE, NEW p, NEW c, NEW r, XmlNodeInsertBefore(p, c, r)
  PROVE  DomInv'
<1> DEFINE h == DetachedFirst(dom, p, c)
<1>1. /\ p \in domLive /\ c \in domLive /\ r \in domLive /\ c # r
      /\ dom[c].parent \in {NoNode, p} /\ dom[r].parent = p
      /\ dom' = LinkBefore(h, p, c, r) /\ UNCHANGED domLive
  BY DEF XmlNodeInsertBefore, MayPut, InsertBeforeReturns, XmlNodeIsParent
<1>2. p \in DomNodes /\ c \in DomNodes /\ r \in DomNodes
  BY <1>1 DEF DomInv, DomTypeOK
<1>3. /\ Nodes(h) /\ Linked(h) /\ h[c].parent = NoNode /\ h[r].parent = p
      /\ \A x \in DomNodes \ domLive : h[x] = XmlNodeInit
  BY <1>1, <1>2, DetachedKeeps
<1> HIDE DEF h
<1>4. Nodes(LinkBefore(h, p, c, r)) /\ Linked(LinkBefore(h, p, c, r))
  BY <1>2, <1>3, LinkBeforeKeepsNodes, LinkBeforeKeepsLinked
<1>5. \A x \in DomNodes \ domLive : LinkBefore(h, p, c, r)[x] = XmlNodeInit
  BY <1>1, <1>2, <1>3, LinkBeforeLeaves
<1> QED
  BY <1>1, <1>4, <1>5, MoveKeepsInv

LEMMA ReplaceKeepsInv ==
  ASSUME DomInv, DomMoves = FALSE, NEW p, NEW c, NEW r, XmlNodeReplaceChild(p, c, r)
  PROVE  DomInv'
<1> DEFINE h == DetachedFirst(dom, p, c)
           g == LinkBefore(h, p, c, r)
<1>1. /\ p \in domLive /\ c \in domLive /\ r \in domLive /\ c # r
      /\ dom[c].parent \in {NoNode, p} /\ dom[r].parent = p
      /\ dom' = Unlink(g, p, r) /\ UNCHANGED domLive
  BY DEF XmlNodeReplaceChild, MayPut, InsertBeforeReturns, XmlNodeIsParent
<1>2. p \in DomNodes /\ c \in DomNodes /\ r \in DomNodes
  BY <1>1 DEF DomInv, DomTypeOK
<1>3. /\ Nodes(h) /\ Linked(h) /\ h[c].parent = NoNode /\ h[r].parent = p
      /\ \A x \in DomNodes \ domLive : h[x] = XmlNodeInit
  BY <1>1, <1>2, DetachedKeeps
<1> HIDE DEF h
<1>4. Nodes(g) /\ Linked(g)
  BY <1>2, <1>3, LinkBeforeKeepsNodes, LinkBeforeKeepsLinked
<1>5. g[r].parent = p
  BY <1>1, <1>2, <1>3 DEF LinkBefore
<1>6. \A x \in DomNodes \ domLive : g[x] = XmlNodeInit
  BY <1>1, <1>2, <1>3, LinkBeforeLeaves
<1> HIDE DEF g
<1>7. Nodes(Unlink(g, p, r)) /\ Linked(Unlink(g, p, r))
  BY <1>2, <1>4, <1>5, UnlinkKeepsNodes, UnlinkKeepsLinked
<1>8. \A x \in DomNodes \ domLive : Unlink(g, p, r)[x] = XmlNodeInit
  BY <1>1, <1>2, <1>4, <1>6, UnlinkLeaves
<1> QED
  BY <1>1, <1>7, <1>8, MoveKeepsInv

LEMMA RemoveKeepsInv ==
  ASSUME DomInv, NEW p, NEW c, XmlNodeRemoveChild(p, c)
  PROVE  DomInv'
<1>1. /\ p \in domLive /\ c \in domLive /\ dom[c].parent = p
      /\ dom' = Unlink(dom, p, c) /\ UNCHANGED domLive
  BY DEF XmlNodeRemoveChild, XmlNodeIsParent
<1>2. /\ p \in DomNodes /\ c \in DomNodes /\ Nodes(dom) /\ Linked(dom)
      /\ \A x \in DomNodes \ domLive : dom[x] = XmlNodeInit
  BY <1>1 DEF DomInv, DomTypeOK, Nodes, Unborn
<1>3. Nodes(Unlink(dom, p, c)) /\ Linked(Unlink(dom, p, c))
  BY <1>1, <1>2, UnlinkKeepsNodes, UnlinkKeepsLinked
<1>4. \A x \in DomNodes \ domLive : Unlink(dom, p, c)[x] = XmlNodeInit
  BY <1>1, <1>2, UnlinkLeaves
<1> QED
  BY <1>1, <1>3, <1>4, MoveKeepsInv

LEMMA FreeKeepsInv ==
  ASSUME DomInv, NEW n, XmlNodeFree(n)
  PROVE  DomInv'
<1>1. /\ n \in DomNodes /\ dom[n].parent = NoNode /\ Nodes(dom) /\ Linked(dom)
      /\ dom' = Freed(dom, n) /\ domLive' = domLive \ Walked(dom, n)
  BY DEF XmlNodeFree, DomInv, DomTypeOK, Nodes, Freed
<1>2. Nodes(dom') /\ Linked(dom')
  BY <1>1, FreedKeepsLinked
<1>3. DomTypeOK'
  BY <1>1, <1>2 DEF DomInv, DomTypeOK, Nodes
<1>4. Unborn'
  BY <1>1 DEF DomInv, Unborn, Freed
<1> QED
  BY <1>2, <1>3, <1>4 DEF DomInv

LEMMA StepKeepsInv ==
  ASSUME DomInv, DomMoves = FALSE, [DomNext]_domVars
  PROVE  DomInv'
<1>1. ASSUME NEW n \in DomNodes, NEW d \in DomNodes, XmlDocCreateNode(d, n)
      PROVE  DomInv'
  BY <1>1, CreateKeepsInv DEF XmlDocCreateNode, XmlDocCreateElementEx,
     XmlDocCreateTextNodeEx, XmlDocCreateCDATASectionEx, XmlDocCreateDocumentEx, DomPtr
<1>2. ASSUME NEW n \in DomNodes, NEW s \in DomNodes, NEW d \in DomNodes,
             XmlDocImportNode(d, s, n)
      PROVE  DomInv'
  <2> DEFINE h == [dom EXCEPT ![n] = XmlNodeInit]
  <2>1. n \in DomNodes \ domLive /\ domLive' = domLive \cup {n}
        /\ dom' = XmlDocSetOwnerDocument(h, d, n)
    BY <1>2 DEF XmlDocImportNode
  <2>2. h \in [DomNodes -> XmlNodeType] /\ h[n] = XmlNodeInit /\ h = dom
    BY <2>1 DEF DomInv, DomTypeOK, Unborn
  <2>3. Walked(h, n) = {n}
    <3>1. n \in Walked(h, n)
      BY DEF Walked
    <3>2. Closed(h, {n})
      BY <2>2 DEF Closed, XmlNodeInit
    <3> QED
      BY <3>1, <3>2 DEF Walked
  <2>4. dom' = [dom EXCEPT ![n] = [XmlNodeInit EXCEPT !.doc = d]]
    BY <2>1, <2>2, <2>3 DEF XmlDocSetOwnerDocument
  <2> QED
    BY <2>1, <2>4, CreateKeepsInv DEF DomPtr
<1>3. ASSUME NEW n \in DomNodes, NEW s \in DomNodes, XmlNodeCloneNode(s, n)
      PROVE  DomInv'
  <2>1. n \in DomNodes \ domLive /\ domLive' = domLive \cup {n}
        /\ dom' = [dom EXCEPT ![n] = XmlNodeInit]
    BY <1>3 DEF XmlNodeCloneNode
  <2>2. XmlNodeInit = [XmlNodeInit EXCEPT !.doc = NoNode]
    BY DEF XmlNodeInit
  <2> QED
    BY <2>1, <2>2, CreateKeepsInv DEF DomPtr
<1>4. ASSUME NEW n \in DomNodes, XmlNodeFree(n) PROVE DomInv'
  BY <1>4, FreeKeepsInv
<1>5. CASE UNCHANGED domVars
  BY <1>5 DEF domVars, DomInv, DomTypeOK, Unborn, Linked, NextLinked, PrevLinked,
              FirstLinked, HeadLinked, RootsAlone
<1> QED
  BY <1>1, <1>2, <1>3, <1>4, <1>5, AppendKeepsInv, RemoveKeepsInv,
     InsertBeforeKeepsInv, ReplaceKeepsInv DEF DomNext

----------------------------------------------------------------------------
(* The theorems.                                                           *)

LEMMA DomInvariant ==
  ASSUME DomMoves = FALSE
  PROVE  DomSpec => []DomInv
<1>1. DomInit => DomInv
  BY InitDomInv
<1>2. DomInv /\ [DomNext]_domVars => DomInv'
  BY StepKeepsInv
<1> QED
  BY <1>1, <1>2, PTL DEF DomSpec

\* The pointers of the DOM are always pointers to nodes or NULL, for any set
\* of nodes of any kinds and names.
THEOREM DomTypes ==
  ASSUME DomMoves = FALSE
  PROVE  DomSpec => []DomTypeOK
<1>1. DomInv => DomTypeOK
  BY DEF DomInv
<1> QED
  BY <1>1, DomInvariant, PTL

\* Sibling lists are doubly linked and start at the parent's firstChild,
\* after any number of creations, imports, insertions, replacements, removals
\* and frees: no traversal and no unlinking meets a pointer that lies.
THEOREM DomAlwaysLinked ==
  ASSUME DomMoves = FALSE
  PROVE  DomSpec => []DomLinks
<1>1. DomInv => DomLinks
  BY LinkedIsDomLinks DEF DomInv
<1> QED
  BY <1>1, DomInvariant, PTL

----------------------------------------------------------------------------
(* The children of a node as a sequence: what XmlTree keeps.               *)

IsList(h, p, s) ==
  /\ s \in Seq(DomNodes)
  /\ Len(s) = 0 => h[p].first = NoNode
  /\ Len(s) > 0 => h[p].first = s[1] /\ h[s[Len(s)]].next = NoNode
  /\ \A i \in 1..Len(s) : h[s[i]].parent = p
  /\ \A i \in 1..(Len(s) - 1) : h[s[i]].next = s[i + 1]
  /\ \A i, j \in 1..Len(s) : s[i] = s[j] => i = j
  /\ \A c \in DomNodes : h[c].parent = p => \E i \in 1..Len(s) : s[i] = c

AllListed(h) == \A p \in DomNodes : \E s : IsList(h, p, s)

LEMMA ListPrev ==
  ASSUME NEW h, Nodes(h), Linked(h), NEW p \in DomNodes, NEW s, IsList(h, p, s)
  PROVE  /\ Len(s) > 0 => h[s[1]].prev = NoNode
         /\ \A i \in 1..Len(s) : i > 1 => h[s[i]].prev = s[i - 1]
<1>1. PICK n \in Nat : n = Len(s)
  BY DEF IsList
<1>2. /\ \A i \in 1..n : s[i] \in DomNodes /\ s[i] # NoNode
      /\ n > 0 => h[p].first = s[1]
      /\ \A i \in 1..(n - 1) : h[s[i]].next = s[i + 1]
  BY <1>1, DomAssumption DEF IsList
<1>3. n > 0 => h[s[1]].prev = NoNode
  BY <1>2 DEF Linked, FirstLinked
<1>4. ASSUME NEW i \in 1..n, i > 1
      PROVE  h[s[i]].prev = s[i - 1]
  <2>1. PICK k \in 1..(n - 1) : k = i - 1
    BY <1>4
  <2>2. k \in 1..n /\ k + 1 = i /\ i - 1 = k
    BY <2>1, <1>4
  <2>3. s[k] \in DomNodes /\ h[s[k]].next = s[i] /\ h[s[k]].next # NoNode
    BY <1>2, <2>2
  <2> QED BY <2>2, <2>3 DEF Linked, NextLinked
<1> QED BY <1>1, <1>3, <1>4

\* The list of another parent, when nothing of it is touched.
LEMMA OtherList ==
  ASSUME NEW h, NEW u, NEW q \in DomNodes, NEW s, IsList(h, q, s), u[q].first = h[q].first,
         \A x \in DomNodes : h[x].parent = q => u[x].parent = q /\ u[x].next = h[x].next,
         \A x \in DomNodes : u[x].parent = q => h[x].parent = q
  PROVE  IsList(u, q, s)
<1>1. PICK n \in Nat : n = Len(s)
  BY DEF IsList
<1>2. \A i \in 1..n : s[i] \in DomNodes /\ h[s[i]].parent = q
  BY <1>1 DEF IsList
<1>3. \A i \in 1..n : u[s[i]].parent = q /\ u[s[i]].next = h[s[i]].next
  BY <1>2
<1>4. \A i \in 1..(n - 1) : i \in 1..n
  OBVIOUS
<1>5. n > 0 => n \in 1..n
  OBVIOUS
<1>6. s \in Seq(DomNodes) /\ (n = 0 => u[q].first = NoNode)
  BY <1>1 DEF IsList
<1>7. n > 0 => u[q].first = s[1] /\ u[s[n]].next = NoNode
  BY <1>1, <1>3, <1>5 DEF IsList
<1>8. \A i \in 1..(n - 1) : u[s[i]].next = s[i + 1]
  BY <1>1, <1>3, <1>4 DEF IsList
<1>9. /\ \A i, j \in 1..n : s[i] = s[j] => i = j
      /\ \A c \in DomNodes : u[c].parent = q => \E i \in 1..n : s[i] = c
  BY <1>1 DEF IsList
<1> QED BY <1>1, <1>3, <1>6, <1>7, <1>8, <1>9 DEF IsList

\* XmlNodeRemoveChild takes the place of the child out of the list.
LEMMA UnlinkList ==
  ASSUME NEW h, Nodes(h), Linked(h), NEW p \in DomNodes, NEW c \in DomNodes,
         NEW s, IsList(h, p, s), NEW i \in 1..Len(s), s[i] = c
  PROVE  IsList(Unlink(h, p, c), p, RemoveAt(s, i))
<1>1. PICK n \in Nat : n = Len(s)
  BY DEF IsList
<1>2. PICK t : t = RemoveAt(s, i)
  OBVIOUS
<1>3. PICK u : u = Unlink(h, p, c)
  OBVIOUS
<1>4. /\ s \in Seq(DomNodes)
      /\ n = 0 => h[p].first = NoNode
      /\ n > 0 => h[p].first = s[1] /\ h[s[n]].next = NoNode
      /\ \A k \in 1..n : h[s[k]].parent = p /\ s[k] \in DomNodes /\ s[k] # NoNode
      /\ \A k \in 1..(n - 1) : h[s[k]].next = s[k + 1]
      /\ \A k, j \in 1..n : s[k] = s[j] => k = j
      /\ \A x \in DomNodes : h[x].parent = p => \E k \in 1..n : s[k] = x
  BY <1>1, DomAssumption DEF IsList
<1>5. i \in 1..n /\ n - 1 \in Nat
  BY <1>1
<1>6. t \in Seq(DomNodes) /\ Removed(t, s, i)
  BY <1>2, <1>4, RemoveAtIs
<1>7. /\ Len(t) = n - 1
      /\ \A j \in 1..(i - 1) : t[j] = s[j]
      /\ \A j \in i..(n - 1) : t[j] = s[j + 1]
  BY <1>1, <1>6 DEF Removed
<1>8. /\ i = 1 => h[c].prev = NoNode
      /\ i > 1 => h[c].prev = s[i - 1]
  BY <1>1, <1>5, ListPrev
<1>9. /\ u[p].first = IF h[p].first = c THEN h[c].next ELSE h[p].first
      /\ \A x \in DomNodes : u[x].parent = IF x = c THEN NoNode ELSE h[x].parent
      /\ \A x \in DomNodes : u[x].next = IF x = c THEN NoNode
                             ELSE IF x = h[c].prev THEN h[c].next ELSE h[x].next
  BY <1>3, UnlinkFields
<1>10. /\ i < n => h[c].next = s[i + 1]
       /\ i = n => h[c].next = NoNode
  <2>1. i < n => i \in 1..(n - 1)
    BY <1>5
  <2> QED BY <1>4, <1>5, <2>1
<1>11. \A j \in 1..(n - 1) : /\ j < i => t[j] = s[j] /\ j \in 1..n /\ j # i /\ j \in 1..(i - 1)
                             /\ ~(j < i) => t[j] = s[j + 1] /\ j + 1 \in 1..n /\ j + 1 # i
  BY <1>5, <1>7
<1>12. ASSUME NEW j \in 1..(n - 1)
       PROVE  t[j] \in DomNodes /\ t[j] # c /\ h[t[j]].parent = p
  <2>1. PICK m \in 1..n : t[j] = s[m] /\ m # i
    BY <1>11
  <2> QED BY <1>4, <1>5, <2>1
<1>13. \A j \in 1..(n - 1) : u[t[j]].parent = p
  BY <1>9, <1>12
<1>14. n - 1 = 0 => u[p].first = NoNode
  <2>1. n - 1 = 0 => n = 1 /\ i = 1
    BY <1>5
  <2> QED BY <1>4, <1>9, <1>10, <2>1
<1>15. n - 1 > 0 => u[p].first = t[1]
  <2>1. SUFFICES ASSUME n - 1 > 0 PROVE u[p].first = t[1]
    OBVIOUS
  <2>2. 1 \in 1..n /\ 1 \in 1..(n - 1) /\ n > 0
    BY <2>1
  <2>3. CASE i = 1
    <3>1. i < n /\ 1 \in i..(n - 1)
      BY <2>1, <2>3
    <3>2. h[p].first = c /\ t[1] = s[1 + 1] /\ h[c].next = s[i + 1]
      BY <1>4, <1>7, <1>10, <2>2, <2>3, <3>1
    <3> QED BY <1>9, <2>3, <3>2
  <2>4. CASE i # 1
    <3>1. s[1] # c
      BY <1>4, <1>5, <2>2, <2>4
    <3>2. 1 \in 1..(i - 1)
      BY <1>5, <2>4
    <3> QED BY <1>4, <1>7, <1>9, <2>2, <3>1, <3>2
  <2> QED BY <2>3, <2>4
<1>16. n - 1 > 0 => u[t[n - 1]].next = NoNode
  <2>1. SUFFICES ASSUME n - 1 > 0 PROVE u[t[n - 1]].next = NoNode
    OBVIOUS
  <2>2. PICK m \in 1..(n - 1) : m = n - 1
    BY <2>1
  <2>3. CASE i = n
    <3>1. m < i /\ i > 1 /\ i - 1 = m
      BY <2>1, <2>2, <2>3
    <3>2. t[m] = s[m] /\ h[c].prev = s[m] /\ h[c].next = NoNode
      BY <1>8, <1>10, <1>11, <2>3, <3>1
    <3>3. t[m] \in DomNodes /\ t[m] # c
      BY <1>12
    <3> QED BY <1>9, <2>2, <3>2, <3>3
  <2>4. CASE i # n
    <3>1. ~(m < i) /\ m + 1 = n
      BY <1>5, <2>2, <2>4
    <3>2. t[m] = s[n] /\ h[s[n]].next = NoNode
      BY <1>4, <1>11, <3>1
    <3>3. t[m] # h[c].prev
      <4>1. i > 1 => i - 1 \in 1..n /\ i - 1 # n /\ n \in 1..n
        BY <1>5
      <4>2. n \in 1..n /\ s[n] # NoNode
        BY <1>4, <1>5
      <4>3. i > 1 => s[i - 1] # s[n]
        BY <1>4, <4>1
      <4>4. i = 1 \/ i > 1
        BY <1>5
      <4> QED BY <1>8, <3>2, <4>2, <4>3, <4>4
    <3>4. t[m] \in DomNodes /\ t[m] # c
      BY <1>12
    <3> QED BY <1>9, <2>2, <3>2, <3>3, <3>4
  <2> QED BY <2>3, <2>4
<1>17. ASSUME NEW j \in 1..((n - 1) - 1)
       PROVE  u[t[j]].next = t[j + 1]
  <2>1. j \in 1..(n - 1) /\ j + 1 \in 1..(n - 1) /\ j \in 1..n
    BY <1>5
  <2>2. t[j] \in DomNodes /\ t[j] # c
    BY <1>12, <2>1
  <2>3. u[t[j]].next = IF t[j] = h[c].prev THEN h[c].next ELSE h[t[j]].next
    BY <1>9, <2>2
  <2>4. CASE j < i /\ j + 1 = i
    <3>1. i > 1 /\ i - 1 = j /\ i < n /\ ~(j + 1 < i) /\ j + 1 + 1 = i + 1
      BY <1>5, <2>1, <2>4
    <3>2. t[j] = s[j] /\ h[c].prev = s[j] /\ h[c].next = s[i + 1] /\ t[j + 1] = s[i + 1]
      BY <1>8, <1>10, <1>11, <2>1, <2>4, <3>1
    <3> QED BY <2>3, <3>2
  <2>5. CASE ~(j + 1 = i)
    <3>1. PICK m \in 1..(n - 1) : t[j] = s[m] /\ t[j + 1] = s[m + 1] /\ m # i - 1
      <4>1. CASE j < i
        <5>1. j + 1 < i /\ j # i - 1
          BY <2>5, <4>1, <1>5
        <5> QED BY <1>11, <2>1, <4>1, <5>1
      <4>2. CASE ~(j < i)
        <5>1. j + 1 \in 1..(n - 1) /\ j + 1 # i - 1 /\ ~(j + 1 < i)
          BY <4>2, <1>5
        <5>2. t[j] = s[j + 1] /\ t[j + 1] = s[(j + 1) + 1]
          BY <1>11, <2>1, <4>2, <5>1
        <5> QED BY <5>1, <5>2
      <4> QED BY <4>1, <4>2
    <3>2. m \in 1..n /\ (i > 1 => i - 1 \in 1..n) /\ (i = 1 \/ i > 1)
      BY <1>5
    <3>3. s[m] # h[c].prev
      <4>1. i > 1 => s[i - 1] # s[m]
        BY <1>4, <3>1, <3>2
      <4>2. s[m] # NoNode
        BY <1>4, <3>2
      <4> QED BY <1>8, <3>2, <4>1, <4>2
    <3>4. h[s[m]].next = s[m + 1]
      BY <1>4
    <3> QED BY <2>3, <3>1, <3>3, <3>4
  <2>6. j + 1 = i => j < i
    BY <1>5
  <2> QED BY <2>4, <2>5, <2>6
<1>18. ASSUME NEW j \in 1..(n - 1), NEW k \in 1..(n - 1), t[j] = t[k]
       PROVE  j = k
  <2>1. PICK a \in 1..n, b \in 1..n : /\ t[j] = s[a] /\ t[k] = s[b]
                                      /\ a = IF j < i THEN j ELSE j + 1
                                      /\ b = IF k < i THEN k ELSE k + 1
    <3>1. PICK a \in 1..n : t[j] = s[a] /\ a = IF j < i THEN j ELSE j + 1
      BY <1>11
    <3>2. PICK b \in 1..n : t[k] = s[b] /\ b = IF k < i THEN k ELSE k + 1
      BY <1>11
    <3> QED BY <3>1, <3>2
  <2>2. s[a] = s[b]
    BY <1>18, <2>1
  <2>3. a = b
    BY <1>4, <2>2
  <2> QED BY <1>5, <2>1, <2>3
<1>19. ASSUME NEW x \in DomNodes, u[x].parent = p
       PROVE  \E j \in 1..(n - 1) : t[j] = x
  <2>1. x # c /\ h[x].parent = p
    <3>1. p # NoNode
      BY DomAssumption
    <3> QED BY <1>9, <1>19, <3>1
  <2>2. PICK k \in 1..n : s[k] = x
    BY <1>4, <2>1
  <2>3. k # i
    BY <2>1, <2>2
  <2>4. CASE k < i
    <3>1. k \in 1..(n - 1)
      BY <1>5, <2>4
    <3> QED BY <1>11, <2>2, <2>4, <3>1
  <2>5. CASE ~(k < i)
    <3>1. k - 1 \in 1..(n - 1) /\ ~(k - 1 < i) /\ (k - 1) + 1 = k
      BY <1>5, <2>3, <2>5
    <3> QED BY <1>11, <2>2, <3>1
  <2> QED BY <2>4, <2>5
<1>20. IsList(u, p, t)
  BY <1>6, <1>7, <1>13, <1>14, <1>15, <1>16, <1>17, <1>18, <1>19 DEF IsList
<1> QED BY <1>2, <1>3, <1>20

\* What an insertion of c at place j has to assign.
SeqPutAt(h, u, p, c, s, j) ==
  /\ \A x \in DomNodes \ {c} : u[x].parent = h[x].parent
  /\ u[c].parent = p
  /\ j = 1 => u[p].first = c
  /\ j # 1 => u[p].first = h[p].first
  /\ j <= Len(s) => u[c].next = s[j]
  /\ j > Len(s) => u[c].next = NoNode
  /\ \A k \in 1..Len(s) : u[s[k]].next = IF k + 1 = j THEN c ELSE h[s[k]].next

LEMMA PutList ==
  ASSUME NEW h, NEW u, NEW p \in DomNodes, NEW c \in DomNodes, h[c].parent = NoNode,
         NEW s, IsList(h, p, s), NEW j \in 1..(Len(s) + 1), SeqPutAt(h, u, p, c, s, j)
  PROVE  IsList(u, p, InsertAt(s, j, c))
<1>1. PICK n \in Nat : n = Len(s)
  BY DEF IsList
<1>2. PICK t : t = InsertAt(s, j, c)
  OBVIOUS
<1>3. /\ s \in Seq(DomNodes)
      /\ n = 0 => h[p].first = NoNode
      /\ n > 0 => h[p].first = s[1] /\ h[s[n]].next = NoNode
      /\ \A k \in 1..n : h[s[k]].parent = p /\ s[k] \in DomNodes
      /\ \A k \in 1..(n - 1) : h[s[k]].next = s[k + 1]
      /\ \A k, m \in 1..n : s[k] = s[m] => k = m
      /\ \A x \in DomNodes : h[x].parent = p => \E k \in 1..n : s[k] = x
  BY <1>1 DEF IsList
<1>4. j \in 1..(n + 1) /\ n + 1 \in Nat
  BY <1>1
<1>5. t \in Seq(DomNodes) /\ Inserted(t, s, j, c)
  BY <1>2, <1>3, InsertAtIs
<1>6. /\ Len(t) = n + 1 /\ t[j] = c
      /\ \A k \in 1..(j - 1) : t[k] = s[k]
      /\ \A k \in j..n : t[k + 1] = s[k]
  BY <1>1, <1>5 DEF Inserted
<1>7. /\ \A x \in DomNodes \ {c} : u[x].parent = h[x].parent
      /\ u[c].parent = p
      /\ j = 1 => u[p].first = c
      /\ j # 1 => u[p].first = h[p].first
      /\ j <= n => u[c].next = s[j]
      /\ j > n => u[c].next = NoNode
      /\ \A k \in 1..n : u[s[k]].next = IF k + 1 = j THEN c ELSE h[s[k]].next
  BY <1>1 DEF SeqPutAt
<1>8. \A k \in 1..n : s[k] # c
  <2>1. p # NoNode
    BY DomAssumption
  <2> QED BY <1>3, <2>1
<1>9. \A k \in 1..(n + 1) : /\ k < j => t[k] = s[k] /\ k \in 1..n
                            /\ k > j => t[k] = s[k - 1] /\ k - 1 \in 1..n
                            /\ k = j => t[k] = c
  <2>1. \A k \in 1..(n + 1) : /\ k < j => k \in 1..(j - 1) /\ k \in 1..n
                              /\ k > j => k - 1 \in j..n /\ (k - 1) + 1 = k /\ k - 1 \in 1..n
    BY <1>4
  <2> QED BY <1>6, <2>1
<1>10. \A k \in 1..(n + 1) : k < j \/ k > j \/ k = j
  BY <1>4
<1>11. ASSUME NEW k \in 1..(n + 1)
       PROVE  u[t[k]].parent = p
  <2>1. CASE t[k] = c
    BY <1>7, <2>1
  <2>2. CASE t[k] # c
    <3>1. PICK m \in 1..n : t[k] = s[m]
      BY <1>9, <1>10, <2>2
    <3>2. s[m] \in DomNodes \ {c} /\ h[s[m]].parent = p
      BY <1>3, <2>2, <3>1
    <3>3. u[s[m]].parent = h[s[m]].parent
      BY <1>7, <3>2
    <3> QED BY <3>1, <3>2, <3>3
  <2> QED BY <2>1, <2>2
<1>12. u[p].first = t[1]
  <2>1. CASE j = 1
    BY <1>6, <1>7, <2>1
  <2>2. CASE j # 1
    <3>1. 1 < j /\ 1 \in 1..(n + 1) /\ n > 0
      BY <1>4, <2>2
    <3> QED BY <1>3, <1>7, <1>9, <2>2, <3>1
  <2> QED BY <2>1, <2>2
<1>13. ASSUME NEW k \in 1..((n + 1) - 1)
       PROVE  u[t[k]].next = t[k + 1]
  <2>1. k \in 1..n /\ k \in 1..(n + 1) /\ k + 1 \in 1..(n + 1)
    BY <1>4
  <2>2. CASE k = j
    <3>1. j <= n /\ k + 1 > j /\ (k + 1) - 1 = j
      BY <2>1, <2>2, <1>4
    <3>2. t[k] = c /\ u[c].next = s[j]
      BY <1>6, <1>7, <2>2, <3>1
    <3>3. t[k + 1] = s[j]
      BY <1>9, <2>1, <3>1
    <3> QED BY <3>2, <3>3
  <2>3. CASE k + 1 = j
    <3>1. k < j
      BY <2>3, <1>4
    <3>2. t[k] = s[k] /\ t[k + 1] = c
      BY <1>6, <1>9, <2>1, <2>3, <3>1
    <3> QED BY <1>7, <2>1, <2>3, <3>2
  <2>4. CASE k + 1 < j
    <3>1. k < j /\ k \in 1..(n - 1) /\ k + 1 # j
      BY <1>4, <2>1, <2>4
    <3>2. t[k] = s[k] /\ t[k + 1] = s[k + 1]
      BY <1>9, <2>1, <2>4, <3>1
    <3>3. u[s[k]].next = h[s[k]].next
      BY <1>7, <2>1, <3>1
    <3>4. h[s[k]].next = s[k + 1]
      BY <1>3, <3>1
    <3> QED BY <3>2, <3>3, <3>4
  <2>5. CASE k > j
    <3>1. PICK m \in 1..(n - 1) : m = k - 1
      BY <1>4, <2>1, <2>5
    <3>2. k + 1 > j /\ (k + 1) - 1 = m + 1 /\ m + 1 # j /\ m \in 1..n
      BY <1>4, <2>1, <2>5, <3>1
    <3>3. t[k] = s[m] /\ t[k + 1] = s[m + 1]
      BY <1>9, <2>1, <2>5, <3>1, <3>2
    <3>4. u[s[m]].next = h[s[m]].next
      BY <1>7, <3>2
    <3>5. h[s[m]].next = s[m + 1]
      BY <1>3, <3>1
    <3> QED BY <3>3, <3>4, <3>5
  <2>6. k = j \/ k + 1 = j \/ k + 1 < j \/ k > j
    BY <1>4, <2>1
  <2> QED BY <2>2, <2>3, <2>4, <2>5, <2>6
<1>14. u[t[n + 1]].next = NoNode
  <2>1. n + 1 \in 1..(n + 1)
    BY <1>4
  <2>2. CASE j = n + 1
    <3>1. j > n
      BY <1>4, <2>2
    <3> QED BY <1>6, <1>7, <2>2, <3>1
  <2>3. CASE j # n + 1
    <3>1. n + 1 > j /\ (n + 1) - 1 = n /\ n \in 1..n /\ n > 0 /\ n + 1 # j
      BY <1>4, <2>3
    <3>2. t[n + 1] = s[n]
      BY <1>9, <2>1, <3>1
    <3> QED BY <1>3, <1>7, <3>1, <3>2
  <2> QED BY <2>2, <2>3
<1>15. ASSUME NEW k \in 1..(n + 1), NEW m \in 1..(n + 1), t[k] = t[m]
       PROVE  k = m
  <2>1. CASE k = j
    <3>1. t[m] = c
      BY <1>6, <1>15, <2>1
    <3> QED BY <1>8, <1>9, <1>10, <2>1, <3>1
  <2>2. CASE m = j
    <3>1. t[k] = c
      BY <1>6, <1>15, <2>2
    <3> QED BY <1>8, <1>9, <1>10, <2>2, <3>1
  <2>3. CASE k # j /\ m # j
    <3>1. PICK a \in 1..n : t[k] = s[a] /\ a = IF k < j THEN k ELSE k - 1
      BY <1>9, <1>10, <2>3
    <3>2. PICK b \in 1..n : t[m] = s[b] /\ b = IF m < j THEN m ELSE m - 1
      BY <1>9, <1>10, <2>3
    <3>3. s[a] = s[b]
      BY <1>15, <3>1, <3>2
    <3>4. a = b
      BY <1>3, <3>3
    <3> QED BY <1>4, <2>3, <3>1, <3>2, <3>4
  <2> QED BY <2>1, <2>2, <2>3
<1>16. ASSUME NEW x \in DomNodes, u[x].parent = p
       PROVE  \E k \in 1..(n + 1) : t[k] = x
  <2>1. CASE x = c
    BY <1>4, <1>6, <2>1
  <2>2. CASE x # c
    <3>1. PICK k \in 1..n : s[k] = x
      BY <1>3, <1>7, <1>16, <2>2
    <3>2. CASE k < j
      <4>1. k \in 1..(n + 1)
        BY <1>4
      <4> QED BY <1>9, <3>1, <3>2, <4>1
    <3>3. CASE ~(k < j)
      <4>1. k \in j..n /\ k + 1 \in 1..(n + 1)
        BY <1>4, <3>3
      <4> QED BY <1>6, <3>1, <4>1
    <3> QED BY <3>2, <3>3
  <2> QED BY <2>1, <2>2
<1>17. n + 1 > 0 /\ n + 1 # 0
  BY <1>4
<1>18. IsList(u, p, t)
  BY <1>5, <1>6, <1>11, <1>12, <1>13, <1>14, <1>15, <1>16, <1>17 DEF IsList
<1> QED BY <1>2, <1>18

\* XmlNodeInsertBefore puts the child where the one it names stands.
LEMMA LinkBeforeList ==
  ASSUME NEW h, Nodes(h), Linked(h), NEW p \in DomNodes, NEW c \in DomNodes,
         h[c].parent = NoNode, NEW s, IsList(h, p, s), NEW j \in 1..Len(s), p # c
  PROVE  IsList(LinkBefore(h, p, c, s[j]), p, InsertAt(s, j, c))
<1>1. PICK n \in Nat : n = Len(s)
  BY DEF IsList
<1>2. PICK r \in DomNodes : r = s[j] /\ h[r].parent = p
  BY DEF IsList
<1>3. PICK u : u = LinkBefore(h, p, c, r)
  OBVIOUS
<1>4. NoNode \notin DomNodes /\ j \in 1..n
  BY <1>1, DomAssumption
<1>5. h[c].prev = NoNode /\ h[c].next = NoNode
  BY DEF Linked, RootsAlone
<1>6. \A k \in 1..n : s[k] \in DomNodes /\ s[k] # NoNode /\ s[k] # c
  BY <1>1, <1>4 DEF IsList
<1>7. /\ j = 1 => h[r].prev = NoNode
      /\ j > 1 => h[r].prev = s[j - 1]
  BY <1>1, <1>2, <1>4, ListPrev
<1>8. /\ \A x \in DomNodes : u[x].parent = IF x = c THEN p ELSE h[x].parent
      /\ u[p].first = IF h[r].prev = NoNode THEN c ELSE h[p].first
      /\ u[c].next = r
      /\ \A x \in DomNodes \ {c} : u[x].next = IF x = h[r].prev THEN c ELSE h[x].next
  BY <1>3, <1>5 DEF LinkBefore
<1>9. j > 1 => j - 1 \in 1..n
  BY <1>4
<1>10. j = 1 => u[p].first = c
  BY <1>7, <1>8
<1>11. j # 1 => u[p].first = h[p].first
  <2>1. j # 1 => j > 1
    BY <1>4
  <2> QED BY <1>6, <1>7, <1>8, <1>9, <2>1
<1>12. ASSUME NEW k \in 1..n
       PROVE  u[s[k]].next = IF k + 1 = j THEN c ELSE h[s[k]].next
  <2>1. s[k] = h[r].prev <=> k + 1 = j
    <3>1. CASE k + 1 = j
      <4>1. j > 1 /\ j - 1 = k
        BY <3>1, <1>4
      <4> QED BY <1>7, <3>1, <4>1
    <3>2. CASE k + 1 # j
      <4>1. CASE j = 1
        BY <1>6, <1>7, <3>2, <4>1
      <4>2. CASE j > 1
        <5>1. j - 1 \in 1..n /\ j - 1 # k
          BY <1>4, <3>2, <4>2
        <5>2. s[k] # s[j - 1]
          BY <1>1, <5>1 DEF IsList
        <5> QED BY <1>7, <3>2, <4>2, <5>2
      <4>3. j = 1 \/ j > 1
        BY <1>4
      <4> QED BY <4>1, <4>2, <4>3
    <3> QED BY <3>1, <3>2
  <2>2. s[k] \in DomNodes \ {c}
    BY <1>6
  <2>3. u[s[k]].next = IF s[k] = h[r].prev THEN c ELSE h[s[k]].next
    BY <1>8, <2>2
  <2> QED BY <2>1, <2>3
<1>13. j <= n /\ ~(j > n) /\ j \in 1..(n + 1)
  BY <1>4
<1>14. SeqPutAt(h, u, p, c, s, j)
  BY <1>1, <1>2, <1>8, <1>10, <1>11, <1>12, <1>13 DEF SeqPutAt
<1>15. IsList(u, p, InsertAt(s, j, c))
  BY <1>1, <1>13, <1>14, PutList
<1> QED BY <1>2, <1>3, <1>15

\* XmlNodeAppendChild puts the child behind the others.
LEMMA LinkLastList ==
  ASSUME NEW h, Nodes(h), Linked(h), NEW p \in DomNodes, NEW c \in DomNodes,
         h[c].parent = NoNode, NEW s, IsList(h, p, s), p # c,
         NEW l \in DomPtr, WalkEnds(h, p, l)
  PROVE  IsList(LinkLast(h, p, c, l), p, InsertAt(s, Len(s) + 1, c))
<1>1. PICK n \in Nat : n = Len(s)
  BY DEF IsList
<1>2. PICK u : u = LinkLast(h, p, c, l)
  OBVIOUS
<1>3. /\ NoNode \notin DomNodes
      /\ n = 0 => h[p].first = NoNode
      /\ n > 0 => h[p].first = s[1] /\ h[s[n]].next = NoNode
      /\ \A k \in 1..n : h[s[k]].parent = p /\ s[k] \in DomNodes /\ s[k] # c
      /\ \A k \in 1..(n - 1) : h[s[k]].next = s[k + 1]
      /\ \A k, m \in 1..n : s[k] = s[m] => k = m
      /\ \A x \in DomNodes : h[x].parent = p => \E k \in 1..n : s[k] = x
  BY <1>1, DomAssumption DEF IsList
<1>4. h[c].next = NoNode
  BY DEF Linked, RootsAlone
<1>5. n = 0 => l = NoNode
  BY <1>3 DEF WalkEnds
<1>6. n > 0 => l = s[n]
  <2>1. SUFFICES ASSUME n > 0 PROVE l = s[n]
    OBVIOUS
  <2>2. 1 \in 1..n
    BY <2>1
  <2>3. l \in DomNodes /\ h[l].parent = p /\ h[l].next = NoNode
    BY <1>3, <2>1, <2>2 DEF WalkEnds
  <2>4. PICK k \in 1..n : s[k] = l
    BY <1>3, <2>3
  <2>5. k \notin 1..(n - 1)
    <3>1. SUFFICES ASSUME k \in 1..(n - 1) PROVE FALSE
      OBVIOUS
    <3>2. k + 1 \in 1..n
      BY <3>1
    <3>3. h[l].next \in DomNodes
      BY <1>3, <2>4, <3>1, <3>2
    <3> QED BY <1>3, <2>3, <3>3
  <2>6. k = n
    BY <2>5
  <2> QED BY <2>4, <2>6
<1>7. /\ \A x \in DomNodes : u[x].parent = IF x = c THEN p ELSE h[x].parent
      /\ u[p].first = IF l = NoNode THEN c ELSE h[p].first
      /\ \A x \in DomNodes : u[x].next = IF l # NoNode /\ x = l THEN c ELSE h[x].next
  BY <1>2 DEF LinkLast
<1>8. n > 0 => n \in 1..n
  OBVIOUS
<1>9. n + 1 = 1 => u[p].first = c
  <2>1. n + 1 = 1 => n = 0
    OBVIOUS
  <2> QED BY <1>5, <1>7, <2>1
<1>10. n + 1 # 1 => u[p].first = h[p].first
  <2>1. n + 1 # 1 => n > 0
    OBVIOUS
  <2> QED BY <1>3, <1>6, <1>7, <1>8, <2>1
<1>11. u[c].next = NoNode
  <2>1. l # c
    BY <1>3, <1>5, <1>6, <1>8
  <2> QED BY <1>4, <1>7, <2>1
<1>12. ASSUME NEW k \in 1..n
       PROVE  u[s[k]].next = IF k + 1 = n + 1 THEN c ELSE h[s[k]].next
  <2>1. n > 0 /\ (k + 1 = n + 1 <=> k = n) /\ n \in 1..n
    OBVIOUS
  <2>2. l = s[n] /\ l # NoNode
    BY <1>3, <1>6, <2>1
  <2>3. s[k] = s[n] <=> k = n
    BY <1>3, <2>1
  <2> QED BY <1>3, <1>7, <2>1, <2>2, <2>3
<1>13. ~(n + 1 <= n) /\ n + 1 \in 1..(n + 1)
  OBVIOUS
<1>14. SeqPutAt(h, u, p, c, s, n + 1)
  BY <1>1, <1>7, <1>9, <1>10, <1>11, <1>12, <1>13 DEF SeqPutAt
<1>15. IsList(u, p, InsertAt(s, n + 1, c))
  BY <1>1, <1>13, <1>14, PutList
<1> QED BY <1>1, <1>2, <1>15

\* The lists of all other parents stay.
LEMMA UnlinkOther ==
  ASSUME NEW h, Nodes(h), Linked(h), NEW p \in DomNodes, NEW c \in DomNodes, h[c].parent = p,
         NEW q \in DomNodes, q # p, NEW s, IsList(h, q, s)
  PROVE  IsList(Unlink(h, p, c), q, s)
<1>1. PICK u : u = Unlink(h, p, c)
  OBVIOUS
<1>2. NoNode \notin DomNodes
  BY DomAssumption
<1>3. h[c].prev \in DomNodes => h[h[c].prev].parent = p
  BY <1>2 DEF Linked, PrevLinked
<1>4. /\ u[q].first = h[q].first
      /\ \A x \in DomNodes : u[x].parent = IF x = c THEN NoNode ELSE h[x].parent
      /\ \A x \in DomNodes : u[x].next = IF x = c THEN NoNode
                             ELSE IF x = h[c].prev THEN h[c].next ELSE h[x].next
  BY <1>1, UnlinkFields
<1>5. IsList(u, q, s)
  BY <1>2, <1>3, <1>4, OtherList
<1> QED BY <1>1, <1>5

LEMMA LinkBeforeOther ==
  ASSUME NEW h, Nodes(h), Linked(h), NEW p \in DomNodes, NEW c \in DomNodes,
         h[c].parent = NoNode, NEW r \in DomNodes, h[r].parent = p,
         NEW q \in DomNodes, q # p, NEW s, IsList(h, q, s)
  PROVE  IsList(LinkBefore(h, p, c, r), q, s)
<1>1. PICK u : u = LinkBefore(h, p, c, r)
  OBVIOUS
<1>2. NoNode \notin DomNodes
  BY DomAssumption
<1>3. h[r].prev \in DomNodes => h[h[r].prev].parent = p
  BY <1>2 DEF Linked, PrevLinked
<1>4. /\ u[q].first = h[q].first
      /\ \A x \in DomNodes : u[x].parent = IF x = c THEN p ELSE h[x].parent
      /\ \A x \in DomNodes : u[x].next = IF x = c THEN r
                             ELSE IF x = h[r].prev THEN c ELSE h[x].next
  BY <1>1 DEF LinkBefore
<1>5. IsList(u, q, s)
  BY <1>2, <1>3, <1>4, OtherList
<1> QED BY <1>1, <1>5

LEMMA LinkLastOther ==
  ASSUME NEW h, Nodes(h), Linked(h), NEW p \in DomNodes, NEW c \in DomNodes,
         h[c].parent = NoNode, NEW l \in DomPtr, WalkEnds(h, p, l),
         NEW q \in DomNodes, q # p, NEW s, IsList(h, q, s)
  PROVE  IsList(LinkLast(h, p, c, l), q, s)
<1>1. PICK u : u = LinkLast(h, p, c, l)
  OBVIOUS
<1>2. NoNode \notin DomNodes
  BY DomAssumption
<1>3. l = NoNode \/ h[l].parent = p
  BY DEF WalkEnds
<1>4. /\ u[q].first = h[q].first
      /\ \A x \in DomNodes : u[x].parent = IF x = c THEN p ELSE h[x].parent
      /\ \A x \in DomNodes : u[x].next = IF l # NoNode /\ x = l THEN c ELSE h[x].next
  BY <1>1 DEF LinkLast
<1>5. IsList(u, q, s)
  BY <1>2, <1>3, <1>4, OtherList
<1> QED BY <1>1, <1>5

LEMMA SameLists ==
  ASSUME NEW h, NEW u, SameLinks(h, u), NEW q \in DomNodes, NEW s, IsList(h, q, s)
  PROVE  IsList(u, q, s)
  BY OtherList DEF SameLinks

\* A node has one list of children.
LEMMA OneList ==
  ASSUME NEW h, NEW p \in DomNodes, NEW s, NEW t, IsList(h, p, s), IsList(h, p, t)
  PROVE  s = t
<1>1. PICK n \in Nat : n = Len(s)
  BY DEF IsList
<1>2. PICK m \in Nat : m = Len(t)
  BY DEF IsList
<1>3. NoNode \notin DomNodes
  BY DomAssumption
<1>4. /\ s \in Seq(DomNodes) /\ \A i \in 1..n : s[i] \in DomNodes
      /\ n = 0 => h[p].first = NoNode
      /\ n > 0 => h[p].first = s[1] /\ h[s[n]].next = NoNode
      /\ \A i \in 1..(n - 1) : h[s[i]].next = s[i + 1]
  BY <1>1 DEF IsList
<1>5. /\ t \in Seq(DomNodes) /\ \A i \in 1..m : t[i] \in DomNodes
      /\ m = 0 => h[p].first = NoNode
      /\ m > 0 => h[p].first = t[1] /\ h[t[m]].next = NoNode
      /\ \A i \in 1..(m - 1) : h[t[i]].next = t[i + 1]
  BY <1>2 DEF IsList
<1> DEFINE Good == {i \in Nat : i <= n => i <= m /\ (i > 0 => s[i] = t[i])}
<1>6. 0 \in Good
  OBVIOUS
<1>7. ASSUME NEW i \in 1..n, i - 1 \in Good
      PROVE  i \in Good
  <2>1. i - 1 <= n /\ i \in Nat /\ i > 0
    OBVIOUS
  <2>2. i - 1 <= m /\ (i - 1 > 0 => s[i - 1] = t[i - 1])
    BY <1>7, <2>1
  <2>3. CASE i = 1
    <3>1. n > 0 /\ h[p].first = s[1] /\ s[1] \in DomNodes
      BY <1>4, <2>3
    <3>2. m > 0 /\ s[1] = t[1]
      BY <1>3, <1>5, <3>1
    <3> QED BY <2>3, <3>2
  <2>4. CASE i > 1
    <3>1. PICK k \in 1..(n - 1) : k = i - 1
      BY <2>4
    <3>2. k + 1 = i /\ k > 0 /\ k \in 1..m
      BY <2>1, <2>2, <3>1
    <3>3. s[k] = t[k] /\ h[s[k]].next = s[i] /\ s[i] \in DomNodes
      BY <1>4, <2>2, <3>1, <3>2
    <3>4. k # m
      BY <1>3, <1>5, <3>2, <3>3
    <3>5. k \in 1..(m - 1)
      BY <3>2, <3>4
    <3>6. t[i] = s[i]
      BY <1>5, <3>2, <3>3, <3>5
    <3>7. i <= m
      BY <3>2, <3>5
    <3> QED BY <2>1, <3>6, <3>7
  <2> QED BY <2>1, <2>3, <2>4
<1>8. \A i \in 0..n : i \in Good
  <2> HIDE DEF Good
  <2> QED BY <1>6, <1>7, UpTo
<1>9. n <= m /\ \A i \in 1..n : s[i] = t[i]
  <2>1. n \in 0..n /\ \A i \in 1..n : i \in 0..n /\ i > 0 /\ i <= n
    OBVIOUS
  <2> QED BY <1>8, <2>1
<1>10. n = m
  <2>1. SUFFICES ASSUME n < m PROVE FALSE
    BY <1>9
  <2>2. CASE n = 0
    <3>1. m > 0 /\ 1 \in 1..m
      BY <2>1
    <3> QED BY <1>3, <1>4, <1>5, <2>2, <3>1
  <2>3. CASE n > 0
    <3>1. n \in 1..(m - 1) /\ n + 1 \in 1..m /\ n \in 1..n
      BY <2>1, <2>3
    <3>2. h[s[n]].next = NoNode /\ s[n] = t[n] /\ h[t[n]].next = t[n + 1] /\ t[n + 1] \in DomNodes
      BY <1>4, <1>5, <1>9, <2>3, <3>1
    <3> QED BY <1>3, <3>2
  <2> QED BY <2>2, <2>3
<1> QED BY <1>1, <1>2, <1>4, <1>5, <1>9, <1>10, SeqEqual

----------------------------------------------------------------------------
(* What XmlTree calls the children of a node without one of them.          *)

LEMMA WithoutIs ==
  ASSUME NEW s \in Seq(DomNodes), NEW i \in 1..Len(s),
         \A j, k \in 1..Len(s) : s[j] = s[k] => j = k
  PROVE  Tree!Without(s, s[i]) = RemoveAt(s, i)
<1>1. DOMAIN s = 1..Len(s)
  OBVIOUS
<1>2. s[i] \in Range(s)
  BY <1>1 DEF Range
<1>3. (CHOOSE j \in DOMAIN s : s[j] = s[i]) = i
  BY <1>1
<1> QED BY <1>2, <1>3 DEF Tree!Without, Tree!Range, Range, Tree!RemoveAt, RemoveAt

LEMMA WithoutNone ==
  ASSUME NEW s \in Seq(DomNodes), NEW c, \A i \in 1..Len(s) : s[i] # c
  PROVE  Tree!Without(s, c) = s
<1>1. DOMAIN s = 1..Len(s)
  OBVIOUS
<1>2. c \notin Range(s)
  BY <1>1 DEF Range
<1> QED BY <1>2 DEF Tree!Without, Tree!Range, Range

\* Taking the node out of where it is, before it is put somewhere.
LEMMA DetachedList ==
  ASSUME NEW h, Nodes(h), Linked(h), NEW p \in DomNodes, NEW c \in DomNodes,
         h[c].parent \in {NoNode, p}, NEW s, IsList(h, p, s)
  PROVE  IsList(DetachedFirst(h, p, c), p, Tree!Without(s, c))
<1>1. /\ s \in Seq(DomNodes) /\ \A j, k \in 1..Len(s) : s[j] = s[k] => j = k
      /\ \A j \in 1..Len(s) : h[s[j]].parent = p
      /\ h[c].parent = p => \E i \in 1..Len(s) : s[i] = c
  BY DEF IsList
<1>2. CASE h[c].parent = p
  <2>1. PICK i \in 1..Len(s) : s[i] = c
    BY <1>1, <1>2
  <2>2. Tree!Without(s, c) = RemoveAt(s, i)
    BY <1>1, <2>1, WithoutIs
  <2> QED BY <1>2, <2>1, <2>2, UnlinkList DEF DetachedFirst
<1>3. CASE h[c].parent # p
  <2>1. Tree!Without(s, c) = s
    BY <1>1, <1>3, WithoutNone
  <2> QED BY <1>3, <2>1 DEF DetachedFirst
<1> QED BY <1>2, <1>3

LEMMA DetachedOther ==
  ASSUME NEW h, Nodes(h), Linked(h), NEW p \in DomNodes, NEW c \in DomNodes,
         NEW q \in DomNodes, q # p, NEW s, IsList(h, q, s)
  PROVE  IsList(DetachedFirst(h, p, c), q, s)
  BY UnlinkOther DEF DetachedFirst

----------------------------------------------------------------------------
(* DomKids, for any table of nodes.                                        *)

\* The end of a list, from a place on.
LEMMA RestIs ==
  ASSUME NEW S, NEW s \in Seq(S)
  PROVE  /\ SubSeq(s, 1, Len(s)) = s
         /\ SubSeq(s, Len(s) + 1, Len(s)) = <<>>
         /\ \A i \in 1..Len(s) : SubSeq(s, i, Len(s)) = <<s[i]>> \o SubSeq(s, i + 1, Len(s))
<1>1. PICK n \in Nat : n = Len(s)
  OBVIOUS
<1>2. SubSeq(s, 1, n) = s
  <2>1. 1 \in 1..(Len(s) + 1) /\ n \in (1 - 1)..Len(s) /\ n - 1 + 1 = n
        /\ \A i \in 1..n : 1 + i - 1 = i
    BY <1>1
  <2>2. /\ SubSeq(s, 1, n) \in Seq(S) /\ Len(SubSeq(s, 1, n)) = n
        /\ \A i \in 1..n : SubSeq(s, 1, n)[i] = s[i]
    BY <2>1, PartIs
  <2> QED BY <1>1, <2>2, SeqEqual
<1>3. SubSeq(s, n + 1, n) = <<>>
  <2>1. n + 1 \in 1..(Len(s) + 1) /\ n \in ((n + 1) - 1)..Len(s) /\ n - (n + 1) + 1 = 0
    BY <1>1
  <2>2. SubSeq(s, n + 1, n) \in Seq(S) /\ Len(SubSeq(s, n + 1, n)) = 0
    BY <2>1, PartIs
  <2> QED BY <2>2
<1> QED BY <1>1, <1>2, <1>3, SuffixIs

IsFrom(h, f) ==
  f = [m \in DomPtr |-> IF m = NoNode THEN <<>> ELSE <<m>> \o f[h[m].next]]

\* The node m and the siblings after it.
Chain(h, m, t) ==
  \/ m = NoNode /\ t = <<>>
  \/ m # NoNode /\ h[m].parent = NoNode /\ t = <<m>>
  \/ m # NoNode /\ h[m].parent # NoNode
     /\ \E s, i : /\ IsList(h, h[m].parent, s) /\ i \in 1..Len(s) /\ s[i] = m
                  /\ t = SubSeq(s, i, Len(s))

LEMMA ChainIs ==
  ASSUME NEW h, Nodes(h), Linked(h), AllListed(h), NEW m \in DomPtr
  PROVE  \E t : Chain(h, m, t)
<1>1. CASE m = NoNode \/ h[m].parent = NoNode
  BY <1>1 DEF Chain
<1>2. CASE m # NoNode /\ h[m].parent # NoNode
  <2>1. m \in DomNodes /\ h[m].parent \in DomNodes
    BY <1>2, Fields DEF DomPtr
  <2>2. PICK s : IsList(h, h[m].parent, s)
    BY <2>1 DEF AllListed
  <2>3. PICK i \in 1..Len(s) : s[i] = m
    BY <2>1, <2>2 DEF IsList
  <2>4. PICK t : t = SubSeq(s, i, Len(s))
    OBVIOUS
  <2> QED BY <1>2, <2>2, <2>3, <2>4 DEF Chain
<1> QED BY <1>1, <1>2

LEMMA ChainGoesOn ==
  ASSUME NEW h, Nodes(h), Linked(h), NEW m \in DomNodes,
         NEW t, Chain(h, m, t), NEW r, Chain(h, h[m].next, r)
  PROVE  t = <<m>> \o r
<1>1. m # NoNode /\ NoNode \notin DomNodes
  BY DomAssumption
<1>2. CASE h[m].parent = NoNode
  <2>1. h[m].next = NoNode
    BY <1>2 DEF Linked, RootsAlone
  <2>2. t = <<m>> /\ r = <<>>
    BY <1>1, <1>2, <2>1 DEF Chain
  <2>3. <<m>> \in Seq(DomNodes)
    OBVIOUS
  <2> QED BY <2>2, <2>3
<1>3. CASE h[m].parent # NoNode
  <2>1. PICK s, i : /\ IsList(h, h[m].parent, s) /\ i \in 1..Len(s) /\ s[i] = m
                    /\ t = SubSeq(s, i, Len(s))
    BY <1>1, <1>3 DEF Chain
  <2>2. s \in Seq(DomNodes)
    BY <2>1 DEF IsList
  <2>3. t = <<m>> \o SubSeq(s, i + 1, Len(s))
    BY <2>1, <2>2, RestIs
  <2>4. r = SubSeq(s, i + 1, Len(s))
    <3>1. CASE i = Len(s)
      <4>1. h[m].next = NoNode
        <5>1. Len(s) > 0
          BY <2>1, <2>2, <3>1
        <5> QED BY <2>1, <3>1, <5>1 DEF IsList
      <4>2. r = <<>>
        BY <4>1 DEF Chain
      <4> QED BY <2>2, <3>1, <4>2, RestIs
    <3>2. CASE i # Len(s)
      <4>1. i \in 1..(Len(s) - 1) /\ i + 1 \in 1..Len(s)
        BY <2>1, <2>2, <3>2
      <4>2. PICK k : k = h[m].next
        OBVIOUS
      <4>3. k = s[i + 1] /\ k \in DomNodes /\ h[k].parent = h[m].parent
        BY <2>1, <4>1, <4>2 DEF IsList
      <4>4. PICK z, j : /\ IsList(h, h[m].parent, z) /\ j \in 1..Len(z) /\ z[j] = k
                        /\ r = SubSeq(z, j, Len(z))
        BY <1>1, <1>3, <4>2, <4>3 DEF Chain
      <4>5. z = s
        <5>1. h[m].parent \in DomNodes
          BY <1>3, Fields
        <5> QED BY <2>1, <4>4, <5>1, OneList
      <4>6. j = i + 1
        BY <2>1, <4>1, <4>3, <4>4, <4>5 DEF IsList
      <4> QED BY <4>4, <4>5, <4>6
    <3> QED BY <3>1, <3>2
  <2> QED BY <2>3, <2>4
<1> QED BY <1>2, <1>3

LEMMA FromExists ==
  ASSUME NEW h, Nodes(h), Linked(h), AllListed(h)
  PROVE  \E f : IsFrom(h, f)
<1>1. PICK g : g = [m \in DomPtr |-> CHOOSE t : Chain(h, m, t)]
  OBVIOUS
<1>2. \A m \in DomPtr : Chain(h, m, g[m])
  BY <1>1, ChainIs
<1>3. ASSUME NEW m \in DomPtr
      PROVE  g[m] = IF m = NoNode THEN <<>> ELSE <<m>> \o g[h[m].next]
  <2>1. CASE m = NoNode
    BY <1>2, <2>1 DEF Chain
  <2>2. CASE m # NoNode
    <3>1. m \in DomNodes /\ h[m].next \in DomPtr
      BY <2>2, Fields DEF DomPtr
    <3>2. Chain(h, m, g[m]) /\ Chain(h, h[m].next, g[h[m].next])
      BY <1>2, <3>1
    <3> QED BY <2>2, <3>1, <3>2, ChainGoesOn
  <2> QED BY <2>1, <2>2
<1>4. g = [m \in DomPtr |-> g[m]]
  BY <1>1
<1>5. IsFrom(h, g)
  BY <1>3, <1>4, Zenon DEF IsFrom
<1> QED BY <1>5

KidsOf(h, n) ==
  LET From[m \in DomPtr] == IF m = NoNode THEN <<>> ELSE <<m>> \o From[h[m].next]
  IN  From[h[n].first]

LEMMA KidsAre ==
  ASSUME NEW h, Nodes(h), Linked(h), AllListed(h), NEW p \in DomNodes, NEW s, IsList(h, p, s)
  PROVE  KidsOf(h, p) = s
<1>1. PICK f : f = (CHOOSE g : g = [m \in DomPtr |-> IF m = NoNode THEN <<>> ELSE <<m>> \o g[h[m].next]])
  OBVIOUS
<1>2. KidsOf(h, p) = f[h[p].first]
  BY <1>1 DEF KidsOf
<1>3. f = [m \in DomPtr |-> IF m = NoNode THEN <<>> ELSE <<m>> \o f[h[m].next]]
  BY <1>1, FromExists, Zenon DEF IsFrom
<1>4. \A m \in DomPtr : f[m] = IF m = NoNode THEN <<>> ELSE <<m>> \o f[h[m].next]
  BY <1>3
<1>5. PICK n \in Nat : n = Len(s)
  BY DEF IsList
<1>6. /\ s \in Seq(DomNodes) /\ NoNode \in DomPtr /\ NoNode \notin DomNodes
      /\ \A i \in 1..n : s[i] \in DomPtr /\ s[i] # NoNode
      /\ n = 0 => h[p].first = NoNode
      /\ n > 0 => h[p].first = s[1] /\ h[s[n]].next = NoNode
      /\ \A i \in 1..(n - 1) : h[s[i]].next = s[i + 1]
  BY <1>5, DomAssumption DEF IsList, DomPtr
<1>7. f[NoNode] = <<>>
  BY <1>4, <1>6
<1>8. /\ SubSeq(s, 1, n) = s
      /\ SubSeq(s, n + 1, n) = <<>>
      /\ \A i \in 1..n : SubSeq(s, i, n) = <<s[i]>> \o SubSeq(s, i + 1, n)
  BY <1>5, <1>6, RestIs
<1>9. CASE n = 0
  <2>1. s = <<>>
    <3>1. s \in Seq(DomNodes) /\ Len(s) = 0
      BY <1>5, <1>6, <1>9
    <3> QED BY <3>1
  <2> QED BY <1>2, <1>6, <1>7, <1>9, <2>1
<1>10. CASE n > 0
  <2> DEFINE Good == {k \in 0..(n - 1) : f[s[n - k]] = SubSeq(s, n - k, n)}
  <2>1. 0 \in Good
    <3>1. n \in 1..n /\ n - 0 = n /\ 0 \in 0..(n - 1)
      BY <1>10
    <3>2. f[s[n]] = <<s[n]>> \o <<>> /\ SubSeq(s, n, n) = <<s[n]>> \o <<>>
      BY <1>4, <1>6, <1>7, <1>8, <1>10, <3>1
    <3> QED BY <3>1, <3>2
  <2>2. ASSUME NEW k \in 1..(n - 1), k - 1 \in Good
        PROVE  k \in Good
    <3>1. PICK i \in 1..(n - 1) : i = n - k
      OBVIOUS
    <3>2. i \in 1..n /\ n - (k - 1) = i + 1 /\ k \in 0..(n - 1)
      BY <3>1
    <3>3. f[s[i + 1]] = SubSeq(s, i + 1, n)
      BY <2>2, <3>2
    <3>4. f[s[i]] = <<s[i]>> \o f[s[i + 1]]
      BY <1>4, <1>6, <3>1, <3>2
    <3>5. f[s[i]] = SubSeq(s, i, n)
      BY <1>8, <3>2, <3>3, <3>4
    <3> QED BY <3>1, <3>2, <3>5
  <2>3. \A k \in 0..(n - 1) : k \in Good
    <3>1. n - 1 \in Nat
      BY <1>10
    <3> HIDE DEF Good
    <3> QED BY <2>1, <2>2, <3>1, UpTo
  <2>4. n - 1 \in 0..(n - 1) /\ n - (n - 1) = 1
    BY <1>10
  <2>5. f[s[1]] = SubSeq(s, 1, n)
    <3>1. n - 1 \in Good
      BY <2>3, <2>4
    <3> QED BY <2>4, <3>1
  <2> QED BY <1>2, <1>6, <1>8, <1>10, <2>5
<1>11. n = 0 \/ n > 0
  OBVIOUS
<1> QED BY <1>9, <1>10, <1>11

LEMMA KidsNow == \A n : DomKids(n) = KidsOf(dom, n)
  BY DEF DomKids, KidsOf

LEMMA KidsThen == \A n : DomKids(n)' = KidsOf(dom', n)
  BY DEF DomKids, KidsOf

----------------------------------------------------------------------------
(* The nodes below a node, by their parents.                               *)

Down(h, S) == \A m \in DomNodes : h[m].parent \in S => m \in S

Under(h, n) ==
  {x \in DomNodes : \A S \in SUBSET DomNodes : n \in S /\ Down(h, S) => x \in S}

\* The height of a node is more than that of its children.
HasHeights(h, H) ==
  /\ H \in [DomNodes -> Nat]
  /\ \A n \in DomNodes : h[n].parent # NoNode => H[n] < H[h[n].parent]

LEMMA UnderIs ==
  ASSUME NEW h, NEW n \in DomNodes
  PROVE  /\ n \in Under(h, n) /\ Under(h, n) \subseteq DomNodes /\ Down(h, Under(h, n))
         /\ \A S \in SUBSET DomNodes : n \in S /\ Down(h, S) => Under(h, n) \subseteq S
<1>1. n \in Under(h, n) /\ Under(h, n) \subseteq DomNodes
  BY DEF Under
<1>2. \A S \in SUBSET DomNodes : n \in S /\ Down(h, S) => Under(h, n) \subseteq S
  BY DEF Under
<1>3. ASSUME NEW m \in DomNodes, h[m].parent \in Under(h, n)
      PROVE  m \in Under(h, n)
  <2>1. ASSUME NEW S \in SUBSET DomNodes, n \in S, Down(h, S)
        PROVE  m \in S
    <3>1. h[m].parent \in S
      BY <1>2, <1>3, <2>1
    <3> QED BY <2>1, <3>1 DEF Down
  <2> QED BY <2>1 DEF Under
<1>4. Down(h, Under(h, n))
  BY <1>3 DEF Down
<1> QED BY <1>1, <1>2, <1>4

LEMMA UnderUp ==
  ASSUME NEW h, NEW n \in DomNodes, NEW x \in Under(h, n), x # n
  PROVE  h[x].parent \in Under(h, n)
<1> DEFINE S == {y \in Under(h, n) : y = n \/ h[y].parent \in Under(h, n)}
<1>1. n \in S /\ S \in SUBSET DomNodes
  BY UnderIs
<1>2. Down(h, S)
  <2>1. Down(h, Under(h, n))
    BY UnderIs
  <2> QED BY <2>1 DEF Down
<1>3. Under(h, n) \subseteq S
  <2> HIDE DEF S
  <2> QED BY <1>1, <1>2, UnderIs
<1> QED BY <1>3

LEMMA UnderChild ==
  ASSUME NEW h, NEW n \in DomNodes, NEW c \in Under(h, n)
  PROVE  Under(h, c) \subseteq Under(h, n)
<1>1. c \in DomNodes /\ Under(h, n) \in SUBSET DomNodes /\ Down(h, Under(h, n))
  BY UnderIs
<1> QED BY <1>1, UnderIs

LEMMA UnderSplits ==
  ASSUME NEW h, NEW n \in DomNodes
  PROVE  Under(h, n) = {n} \cup UNION {Under(h, c) : c \in {x \in DomNodes : h[x].parent = n}}
<1> DEFINE C == {x \in DomNodes : h[x].parent = n}
           S == {n} \cup UNION {Under(h, c) : c \in C}
<1>1. C \subseteq Under(h, n)
  BY UnderIs DEF Down
<1>2. S \subseteq Under(h, n)
  <2>1. \A c \in C : Under(h, c) \subseteq Under(h, n)
    BY <1>1, UnderChild
  <2>2. n \in Under(h, n)
    BY UnderIs
  <2> QED BY <2>1, <2>2
<1>3. ASSUME NEW m \in DomNodes, h[m].parent \in S
      PROVE  m \in S
  <2>1. CASE h[m].parent = n
    <3>1. m \in C /\ m \in Under(h, m)
      BY <2>1, UnderIs
    <3> QED BY <3>1
  <2>2. CASE h[m].parent # n
    <3>1. PICK c \in C : h[m].parent \in Under(h, c)
      BY <1>3, <2>2
    <3>2. m \in Under(h, c)
      BY <3>1, UnderIs DEF Down
    <3> QED BY <3>2
  <2> QED BY <2>1, <2>2
<1>4. S \in SUBSET DomNodes /\ n \in S
  <2>1. Under(h, n) \subseteq DomNodes
    BY UnderIs
  <2> QED BY <1>2, <2>1
<1>5. Under(h, n) \subseteq S
  <2>1. Down(h, S)
    BY <1>3 DEF Down
  <2> HIDE DEF S
  <2> QED BY <1>4, <2>1, UnderIs
<1> QED BY <1>2, <1>5

\* What is below a node is not as high.
LEMMA UnderLower ==
  ASSUME NEW h, Nodes(h), NEW H, HasHeights(h, H), NEW n \in DomNodes, NEW x \in Under(h, n), x # n
  PROVE  H[x] < H[n]
<1> DEFINE S == {y \in DomNodes : y = n \/ H[y] < H[n]}
<1>1. NoNode \notin DomNodes /\ \A m \in DomNodes : H[m] \in Nat
  BY DomAssumption DEF HasHeights
<1>2. ASSUME NEW m \in DomNodes, h[m].parent \in S
      PROVE  m \in S
  <2>1. PICK q \in DomNodes : q = h[m].parent /\ (q = n \/ H[q] < H[n])
    BY <1>2
  <2>2. H[m] < H[q]
    BY <1>1, <2>1 DEF HasHeights
  <2>3. H[m] \in Nat /\ H[q] \in Nat /\ H[n] \in Nat
    BY <1>1
  <2>4. H[m] < H[n]
    BY <2>1, <2>2, <2>3
  <2> QED BY <2>4
<1>3. Down(h, S)
  BY <1>2 DEF Down
<1>4. S \in SUBSET DomNodes /\ n \in S
  OBVIOUS
<1>5. Under(h, n) \subseteq S
  <2> HIDE DEF S
  <2> QED BY <1>3, <1>4, UnderIs
<1> QED BY <1>5

----------------------------------------------------------------------------
(* The walks by firstChild and nextSibling.                                *)

LEMMA WalkedLeast ==
  ASSUME NEW h, NEW n, NEW S \in SUBSET DomNodes, n \in S, Closed(h, S)
  PROVE  Walked(h, n) \subseteq S
  BY DEF Walked

LEMMA WalkedSplits ==
  ASSUME NEW h, Nodes(h), NEW n \in DomNodes
  PROVE  \A x : x \in Walked(h, n) <=> \/ x = n
                                       \/ h[n].first # NoNode /\ x \in Walked(h, h[n].first)
                                       \/ h[n].next # NoNode /\ x \in Walked(h, h[n].next)
<1>1. /\ h[n].first # NoNode => h[n].first \in DomNodes
      /\ h[n].next # NoNode => h[n].next \in DomNodes
      /\ NoNode \notin DomNodes
  BY Fields, DomAssumption
<1>2. n \in Walked(h, n) /\ Closed(h, Walked(h, n)) /\ Walked(h, n) \in SUBSET DomNodes
  BY WalkedIsClosed DEF Walked
<1>3. /\ h[n].first # NoNode => Walked(h, h[n].first) \subseteq Walked(h, n)
      /\ h[n].next # NoNode => Walked(h, h[n].next) \subseteq Walked(h, n)
  <2>1. /\ h[n].first # NoNode => h[n].first \in Walked(h, n)
        /\ h[n].next # NoNode => h[n].next \in Walked(h, n)
    BY <1>2 DEF Closed
  <2> QED BY <1>2, <2>1, WalkedLeast
<1> DEFINE S == {x \in DomNodes : \/ x = n
                                  \/ h[n].first # NoNode /\ x \in Walked(h, h[n].first)
                                  \/ h[n].next # NoNode /\ x \in Walked(h, h[n].next)}
<1>4. Closed(h, S)
  <2>1. ASSUME NEW m \in S, NEW k \in {h[m].first, h[m].next}, k # NoNode
        PROVE  k \in S
    <3>1. m \in DomNodes
      OBVIOUS
    <3>2. k \in DomNodes
      BY <2>1, <3>1, Fields
    <3>3. CASE m = n
      <4>1. k \in Walked(h, k)
        BY <3>2, WalkedIsClosed
      <4> QED BY <2>1, <3>2, <3>3, <4>1
    <3>4. CASE m # n
      <4>1. PICK q \in {h[n].first, h[n].next} : q # NoNode /\ m \in Walked(h, q)
        BY <3>4
      <4>2. q \in DomNodes
        BY <1>1, <4>1
      <4>3. Closed(h, Walked(h, q))
        BY <4>2, WalkedIsClosed
      <4>4. k \in Walked(h, q)
        BY <2>1, <4>1, <4>3 DEF Closed
      <4> QED BY <3>2, <4>1, <4>4
    <3> QED BY <3>3, <3>4
  <2> HIDE DEF S
  <2> QED BY <2>1 DEF Closed
<1>5. Walked(h, n) \subseteq S
  <2>1. S \in SUBSET DomNodes /\ n \in S
    OBVIOUS
  <2> HIDE DEF S
  <2> QED BY <1>4, <2>1, WalkedLeast
<1> QED BY <1>2, <1>3, <1>5

\* The walk meets everything below the node.
LEMMA UnderWalked ==
  ASSUME NEW h, Nodes(h), Linked(h), AllListed(h), NEW n \in DomNodes
  PROVE  Under(h, n) \subseteq Walked(h, n)
<1>1. n \in Walked(h, n) /\ Closed(h, Walked(h, n)) /\ Walked(h, n) \in SUBSET DomNodes
  BY WalkedIsClosed DEF Walked
<1>2. ASSUME NEW m \in DomNodes, h[m].parent \in Walked(h, n)
      PROVE  m \in Walked(h, n)
  <2>1. PICK p \in Walked(h, n) : p = h[m].parent
    BY <1>2
  <2>2. p \in DomNodes /\ NoNode \notin DomNodes
    BY <1>1, DomAssumption
  <2>3. PICK s : IsList(h, p, s)
    BY <2>2 DEF AllListed
  <2>4. PICK l \in Nat : l = Len(s)
    BY <2>3 DEF IsList
  <2>5. /\ \A i \in 1..l : s[i] \in DomNodes
        /\ l > 0 => h[p].first = s[1]
        /\ \A i \in 1..(l - 1) : h[s[i]].next = s[i + 1]
        /\ \E i \in 1..l : s[i] = m
    BY <2>1, <2>3, <2>4 DEF IsList
  <2> DEFINE Good == {i \in Nat : i \in 1..l => s[i] \in Walked(h, n)}
  <2>6. 0 \in Good
    OBVIOUS
  <2>7. ASSUME NEW i \in 1..l, i - 1 \in Good
        PROVE  i \in Good
    <3>1. CASE i = 1
      <4>1. h[p].first = s[1] /\ s[1] \in DomNodes
        BY <2>5, <3>1
      <4> QED BY <1>1, <2>1, <2>2, <3>1, <4>1 DEF Closed
    <3>2. CASE i # 1
      <4>1. PICK k \in 1..(l - 1) : k = i - 1
        BY <3>2
      <4>2. k + 1 = i /\ k \in 1..l
        BY <4>1
      <4>3. s[k] \in Walked(h, n) /\ h[s[k]].next = s[i] /\ s[i] \in DomNodes
        BY <2>5, <2>7, <4>1, <4>2
      <4> QED BY <1>1, <2>2, <4>3 DEF Closed
    <3> QED BY <3>1, <3>2
  <2>8. \A i \in 0..l : i \in Good
    <3> HIDE DEF Good
    <3> QED BY <2>6, <2>7, UpTo
  <2>9. \A i \in 1..l : i \in 0..l
    OBVIOUS
  <2> QED BY <2>5, <2>8, <2>9
<1>3. Down(h, Walked(h, n))
  BY <1>2 DEF Down
<1> QED BY <1>1, <1>3, UnderIs

\* From a node without parent the walk meets nothing else.
LEMMA WalkedUnder ==
  ASSUME NEW h, Nodes(h), Linked(h), NEW n \in DomNodes, h[n].parent = NoNode
  PROVE  Walked(h, n) \subseteq Under(h, n)
<1>1. n \in Under(h, n) /\ Under(h, n) \in SUBSET DomNodes /\ Down(h, Under(h, n))
  BY UnderIs
<1>2. ASSUME NEW m \in Under(h, n), NEW k \in {h[m].first, h[m].next}, k # NoNode
      PROVE  k \in Under(h, n)
  <2>1. m \in DomNodes /\ k \in DomNodes
    BY <1>1, <1>2, Fields
  <2>2. CASE h[m].first = k
    <3>1. h[k].parent = m
      BY <1>2, <2>1, <2>2 DEF Linked, FirstLinked
    <3> QED BY <1>1, <2>1, <3>1 DEF Down
  <2>3. CASE h[m].next = k
    <3>1. m # n
      BY  <1>2, <2>3 DEF Linked, RootsAlone
    <3>2. h[m].parent \in Under(h, n)
      BY <3>1, UnderUp
    <3>3. h[k].parent = h[m].parent
      BY <1>2, <2>1, <2>3 DEF Linked, NextLinked
    <3> QED BY <1>1, <2>1, <3>2, <3>3 DEF Down
  <2> QED BY <1>2, <2>2, <2>3
<1>3. Closed(h, Under(h, n))
  BY <1>2 DEF Closed
<1> QED BY <1>1, <1>3, WalkedLeast

\* From a child it stays below the parent.
LEMMA WalkedBelow ==
  ASSUME NEW h, Nodes(h), Linked(h), NEW H, HasHeights(h, H), NEW p \in DomNodes,
         NEW n \in DomNodes, h[n].parent = p
  PROVE  Walked(h, n) \subseteq Under(h, p) \ {p}
<1>1. p \in Under(h, p) /\ Under(h, p) \in SUBSET DomNodes /\ Down(h, Under(h, p))
  BY UnderIs
<1> DEFINE S == Under(h, p) \ {p}
<1>2. /\ \A x \in DomNodes : H[x] \in Nat
      /\ \A x \in DomNodes : h[x].parent # NoNode => H[x] < H[h[x].parent]
      /\ NoNode \notin DomNodes
  BY DomAssumption DEF HasHeights
<1>3. ASSUME NEW k \in DomNodes, h[k].parent \in Under(h, p)
      PROVE  k \in S
  <2>1. PICK q \in DomNodes : q = h[k].parent /\ q \in Under(h, p)
    BY <1>1, <1>3
  <2>2. H[k] < H[q] /\ (q = p \/ H[q] < H[p])
    BY <1>2, <2>1, UnderLower
  <2>3. H[k] \in Nat /\ H[q] \in Nat /\ H[p] \in Nat
    BY <1>2
  <2>4. k # p
    BY <2>2, <2>3
  <2> QED BY <1>1, <1>3, <2>4 DEF Down
<1>4. n \in S /\ S \in SUBSET DomNodes
  BY <1>1, <1>3
<1>5. ASSUME NEW m \in S, NEW k \in {h[m].first, h[m].next}, k # NoNode
      PROVE  k \in S
  <2>1. m \in DomNodes /\ k \in DomNodes /\ m \in Under(h, p) /\ m # p
    BY <1>1, <1>5, Fields
  <2>2. CASE h[m].first = k
    <3>1. h[k].parent = m
      BY <1>5, <2>1, <2>2 DEF Linked, FirstLinked
    <3> QED BY <1>3, <2>1, <3>1
  <2>3. CASE h[m].next = k
    <3>1. h[m].parent \in Under(h, p)
      BY <2>1, UnderUp
    <3>2. h[k].parent = h[m].parent
      BY <1>5, <2>1, <2>3 DEF Linked, NextLinked
    <3> QED BY <1>3, <2>1, <3>1, <3>2
  <2> QED BY <1>5, <2>2, <2>3
<1> HIDE DEF S
<1>6. Closed(h, S)
  BY <1>5 DEF Closed
<1>7. Walked(h, n) \subseteq S
  BY <1>4, <1>6, WalkedLeast
<1> QED BY <1>7 DEF S

\* No walk goes on for ever.
LEMMA WalksEnd ==
  ASSUME NEW h, Nodes(h), Linked(h), AllListed(h), NEW H, HasHeights(h, H), NEW T \in SUBSET DomNodes,
         \A b \in T : h[b].first \in T \/ h[b].next \in T
  PROVE  T = {}
<1>1. SUFFICES ASSUME T # {} PROVE FALSE
  OBVIOUS
<1>2. NoNode \notin DomNodes /\ \A x \in DomNodes : H[x] \in Nat
  BY DomAssumption DEF HasHeights
<1> DEFINE P == {x \in DomNodes : \E b \in T : h[b].parent = x}
           N == {H[x] : x \in P}
<1>3. P # {}
  <2>1. PICK b \in T : TRUE
    BY <1>1
  <2>2. CASE h[b].parent # NoNode
    <3>1. h[b].parent \in P
      BY <2>2, Fields
    <3> QED BY <3>1
  <2>3. CASE h[b].parent = NoNode
    <3>1. h[b].first \in T
      BY <1>2, <2>3 DEF Linked, RootsAlone
    <3>2. h[h[b].first].parent = b
      BY <1>2, <3>1 DEF Linked, FirstLinked
    <3> QED BY <3>1, <3>2
  <2> QED BY <2>2, <2>3
<1>4. PICK p \in P : \A x \in P : H[p] <= H[x]
  <2>1. N \subseteq Nat /\ N # {}
    BY <1>2, <1>3
  <2>2. PICK k \in N : \A m \in N : k <= m
    <3> HIDE DEF N
    <3> QED BY <2>1, LeastNatural
  <2> QED BY <2>2
<1>5. p \in DomNodes /\ \E b \in T : h[b].parent = p
  OBVIOUS
<1>6. PICK s : IsList(h, p, s)
  BY <1>5 DEF AllListed
<1>7. PICK l \in Nat : l = Len(s)
  BY <1>6 DEF IsList
<1>8. /\ l > 0 => h[s[l]].next = NoNode
      /\ \A i \in 1..l : s[i] \in DomNodes /\ h[s[i]].parent = p
      /\ \A i \in 1..(l - 1) : h[s[i]].next = s[i + 1]
      /\ \A c \in DomNodes : h[c].parent = p => \E i \in 1..l : s[i] = c
  BY <1>6, <1>7 DEF IsList
<1> DEFINE I == {i \in 1..l : s[i] \in T}
<1>9. I # {} /\ I \subseteq 1..l
  BY <1>5, <1>8
<1>10. PICK i \in I : \A j \in I : j <= i
  <2> HIDE DEF I
  <2> QED BY <1>7, <1>9, GreatestUpTo
<1>11. i \in 1..l /\ s[i] \in T
  OBVIOUS
<1>12. h[s[i]].next \notin T
  <2>1. CASE i = l
    <3>1. l > 0
      BY <1>11
    <3> QED BY <1>2, <1>8, <2>1, <3>1
  <2>2. CASE i # l
    <3>1. i \in 1..(l - 1) /\ i + 1 \in 1..l /\ ~(i + 1 <= i)
      BY <1>11, <2>2
    <3>2. i + 1 \notin I
      <4> HIDE DEF I
      <4> QED BY <1>10, <3>1
    <3>3. s[i + 1] \notin T
      BY <3>1, <3>2
    <3> QED BY <1>8, <3>1, <3>3
  <2> QED BY <2>1, <2>2
<1>13. h[s[i]].first \in T
  BY <1>11, <1>12
<1>14. s[i] \in DomNodes /\ h[s[i]].parent = p /\ h[h[s[i]].first].parent = s[i]
  BY <1>2, <1>8, <1>11, <1>13 DEF Linked, FirstLinked
<1>15. s[i] \in P
  BY <1>13, <1>14
<1>16. H[p] <= H[s[i]]
  <2> HIDE DEF P
  <2> QED BY <1>4, <1>15
<1>17. H[s[i]] < H[p]
  BY <1>2, <1>5, <1>14 DEF HasHeights
<1>18. H[s[i]] \in Nat /\ H[p] \in Nat
  BY <1>2, <1>5, <1>14
<1> QED BY <1>16, <1>17, <1>18

\* XmlNodeIsAncestor says whether the walk meets the parent.
Meets(f, h, n) ==
  f = [a \in DomPtr |-> /\ a # NoNode
                        /\ \/ h[n].parent = a
                           \/ f[h[a].first]
                           \/ f[h[a].next]]

LEMMA MeetsExists ==
  ASSUME NEW h, Nodes(h), NEW n \in DomNodes
  PROVE  \E f : Meets(f, h, n)
<1>1. PICK A : A = {a \in DomNodes : h[n].parent \in Walked(h, a)}
  OBVIOUS
<1>2. NoNode \notin A /\ A \subseteq DomNodes
  BY <1>1, DomAssumption
<1>3. ASSUME NEW a \in DomNodes
      PROVE  a \in A <=> h[n].parent = a \/ h[a].first \in A \/ h[a].next \in A
  <2>1. /\ h[a].first # NoNode => h[a].first \in DomNodes
        /\ h[a].next # NoNode => h[a].next \in DomNodes
    BY Fields
  <2>2. h[n].parent \in Walked(h, a) <=>
          \/ h[n].parent = a
          \/ h[a].first # NoNode /\ h[n].parent \in Walked(h, h[a].first)
          \/ h[a].next # NoNode /\ h[n].parent \in Walked(h, h[a].next)
    BY WalkedSplits
  <2>3. h[a].first \in A <=> h[a].first # NoNode /\ h[n].parent \in Walked(h, h[a].first)
    BY <1>1, <1>2, <2>1
  <2>4. h[a].next \in A <=> h[a].next # NoNode /\ h[n].parent \in Walked(h, h[a].next)
    BY <1>1, <1>2, <2>1
  <2> QED BY <1>1, <2>2, <2>3, <2>4
<1>4. PICK g : g = [a \in DomPtr |-> a \in A]
  OBVIOUS
<1>5. \A a \in DomPtr : g[a] <=> a \in A
  BY <1>4
<1>6. \A a \in DomNodes : h[a].first \in DomPtr /\ h[a].next \in DomPtr
  BY Fields
<1>7. ASSUME NEW a \in DomPtr
      PROVE  (a \in A) = (/\ a # NoNode
                          /\ \/ h[n].parent = a
                             \/ g[h[a].first]
                             \/ g[h[a].next])
  <2>1. CASE a = NoNode
    <3>1. a \notin A
      BY <1>2, <2>1
    <3>2. /\ (a \in A) = FALSE
          /\ (/\ a # NoNode
              /\ \/ h[n].parent = a
                 \/ g[h[a].first]
                 \/ g[h[a].next]) = FALSE
      BY <2>1, <3>1
    <3> QED BY <3>2
  <2>2. CASE a # NoNode
    <3>1. a \in DomNodes
      BY <2>2 DEF DomPtr
    <3>2. PICK x, y, q : x = h[a].first /\ y = h[a].next /\ q = h[n].parent
      OBVIOUS
    <3>3. (g[x] <=> x \in A) /\ (g[y] <=> y \in A)
      BY <1>5, <1>6, <3>1, <3>2
    <3>4. a \in A <=> q = a \/ x \in A \/ y \in A
      BY <1>3, <3>1, <3>2
    <3>5. (a \in A) = (/\ a # NoNode
                       /\ \/ q = a
                          \/ g[x]
                          \/ g[y])
      <4>1. CASE a \in A
        <5>1. /\ (a \in A) = TRUE
              /\ (/\ a # NoNode
                  /\ \/ q = a
                     \/ g[x]
                     \/ g[y]) = TRUE
          BY <2>2, <3>3, <3>4, <4>1
        <5> QED BY <5>1
      <4>2. CASE a \notin A
        <5>0. ~g[x] /\ ~g[y] /\ q # a
          BY <3>3, <3>4, <4>2
        <5>1. /\ (a \in A) = FALSE
              /\ (/\ a # NoNode
                  /\ \/ q = a
                     \/ g[x]
                     \/ g[y]) = FALSE
          BY <4>2, <5>0
        <5> QED BY <5>1
      <4> QED BY <4>1, <4>2
    <3> QED BY <3>2, <3>5
  <2> QED BY <2>1, <2>2
<1>8. g = [a \in DomPtr |-> /\ a # NoNode
                            /\ \/ h[n].parent = a
                               \/ g[h[a].first]
                               \/ g[h[a].next]]
  BY <1>4, <1>7, Zenon
<1> QED BY <1>8, Zenon DEF Meets

LEMMA MeetsIs ==
  ASSUME NEW h, Nodes(h), Linked(h), AllListed(h), NEW H, HasHeights(h, H), NEW n \in DomNodes,
         NEW f, Meets(f, h, n), NEW a \in DomNodes
  PROVE  f[a] <=> h[n].parent \in Walked(h, a)
<1>1. \A b \in DomPtr : f[b] <=> /\ b # NoNode
                                 /\ \/ h[n].parent = b
                                    \/ f[h[b].first]
                                    \/ f[h[b].next]
  BY Zenon DEF Meets
<1>2. NoNode \notin DomNodes /\ NoNode \in DomPtr /\ \A b \in DomNodes : b \in DomPtr /\ b # NoNode
  BY DomAssumption DEF DomPtr
<1>3. \A b \in DomNodes : h[b].first \in DomNodes \cup {NoNode} /\ h[b].next \in DomNodes \cup {NoNode}
  BY Fields
<1>4. ~f[NoNode]
  BY <1>1, <1>2
<1>5. ASSUME h[n].parent \in Walked(h, a), ~f[a]
      PROVE  FALSE
  <2> DEFINE S == {b \in DomNodes : ~f[b]}
  <2>1. Closed(h, S)
    <3>1. \A m \in DomNodes : ~f[m] => ~f[h[m].first] /\ ~f[h[m].next]
      BY <1>1, <1>2
    <3>2. \A m \in S : {h[m].first, h[m].next} \subseteq S \cup {NoNode}
      BY <1>3, <3>1
    <3> HIDE DEF S
    <3> QED BY <3>2 DEF Closed
  <2>2. a \in S /\ S \in SUBSET DomNodes
    BY <1>5
  <2>3. h[n].parent \in S
    <3> HIDE DEF S
    <3> QED BY <1>5, <2>1, <2>2, WalkedLeast
  <2>4. h[n].parent \in DomNodes /\ ~f[h[n].parent]
    BY <2>3
  <2> QED BY <1>1, <1>2, <2>4
<1>6. ASSUME f[a]
      PROVE  h[n].parent \in Walked(h, a)
  <2> DEFINE T == {b \in DomNodes : f[b] /\ h[n].parent \notin Walked(h, b)}
  <2>1. ASSUME NEW b \in T
        PROVE  h[b].first \in T \/ h[b].next \in T
    <3>1. b \in DomNodes /\ f[b] /\ h[n].parent \notin Walked(h, b)
      OBVIOUS
    <3>2. h[n].parent # b
      BY <3>1, WalkedIsClosed
    <3>3. f[h[b].first] \/ f[h[b].next]
      BY <1>1, <1>2, <3>1, <3>2
    <3>4. /\ h[b].first # NoNode => h[n].parent \notin Walked(h, h[b].first)
          /\ h[b].next # NoNode => h[n].parent \notin Walked(h, h[b].next)
      BY <3>1, WalkedSplits
    <3>5. CASE f[h[b].first]
      <4>1. h[b].first # NoNode
        BY <1>4, <3>5
      <4>2. h[b].first \in DomNodes
        BY <1>3, <3>1, <4>1
      <4> QED BY <3>4, <3>5, <4>1, <4>2
    <3>6. CASE f[h[b].next]
      <4>1. h[b].next # NoNode
        BY <1>4, <3>6
      <4>2. h[b].next \in DomNodes
        BY <1>3, <3>1, <4>1
      <4> QED BY <3>4, <3>6, <4>1, <4>2
    <3> QED BY <3>3, <3>5, <3>6
  <2>2. T = {}
    <3>1. T \in SUBSET DomNodes
      OBVIOUS
    <3> HIDE DEF T
    <3> QED BY <2>1, <3>1, WalksEnd
  <2> QED BY <1>6, <2>2
<1> QED BY <1>5, <1>6

----------------------------------------------------------------------------
(* The forest.                                                             *)

ForestInv == DomInv /\ AllListed(dom) /\ \E H : HasHeights(dom, H)

LEMMA ForestHas ==
  ASSUME ForestInv
  PROVE  /\ Nodes(dom) /\ Linked(dom) /\ AllListed(dom) /\ \E H : HasHeights(dom, H)
         /\ domLive \subseteq DomNodes
         /\ \A n \in DomNodes \ domLive : dom[n] = XmlNodeInit
  BY DEF ForestInv, DomInv, DomTypeOK, Nodes, Unborn

\* XmlNodeIsAncestor answers whether the walk from anc meets the parent.
LEMMA AncestorIs ==
  ASSUME ForestInv, NEW a \in DomNodes, NEW n \in DomNodes
  PROVE  XmlNodeIsAncestor(a, n) <=> dom[n].parent \in Walked(dom, a)
<1>1. PICK H : HasHeights(dom, H)
  BY ForestHas
<1>2. PICK f : f = (CHOOSE g : g = [b \in DomPtr |-> /\ b # NoNode
                                                    /\ \/ dom[n].parent = b
                                                       \/ g[dom[b].first]
                                                       \/ g[dom[b].next]])
  OBVIOUS
<1>3. XmlNodeIsAncestor(a, n) <=> f[a]
  BY <1>2, Zenon DEF XmlNodeIsAncestor
<1>4. \E g : Meets(g, dom, n)
  BY ForestHas, MeetsExists
<1>5. Meets(f, dom, n)
  BY <1>2, <1>4, Zenon DEF Meets
<1>6. f[a] <=> dom[n].parent \in Walked(dom, a)
  BY <1>1, <1>5, ForestHas, MeetsIs
<1> QED BY <1>3, <1>6, Zenon

\* What is allocated points at what is allocated.
LEMMA Together ==
  ASSUME ForestInv, NEW n \in domLive
  PROVE  /\ {dom[n].parent, dom[n].first, dom[n].next, dom[n].prev}
              \subseteq domLive \cup {NoNode}
         /\ \A c \in DomNodes : dom[c].parent = n => c \in domLive
<1>1. /\ n \in DomNodes /\ NoNode \notin DomNodes
      /\ dom[n].parent # NoNode => dom[n].parent \in DomNodes
      /\ dom[n].first # NoNode => dom[n].first \in DomNodes
      /\ dom[n].next # NoNode => dom[n].next \in DomNodes
      /\ dom[n].prev # NoNode => dom[n].prev \in DomNodes
  BY ForestHas, Fields, DomAssumption
<1>2. \A x \in DomNodes \ domLive : /\ dom[x].parent = NoNode /\ dom[x].first = NoNode
                                    /\ dom[x].next = NoNode /\ dom[x].prev = NoNode
  BY ForestHas DEF XmlNodeInit
<1>3. \A c \in DomNodes : dom[c].parent = n => c \in domLive
  BY <1>1, <1>2
<1>4. dom[n].parent # NoNode => dom[n].parent \in domLive
  <2>1. SUFFICES ASSUME dom[n].parent # NoNode, dom[n].parent \notin domLive PROVE FALSE
    OBVIOUS
  <2>2. PICK p \in DomNodes \ domLive : p = dom[n].parent
    BY <1>1, <2>1
  <2>3. PICK s : IsList(dom, p, s)
    BY <2>2, ForestHas DEF AllListed
  <2>4. PICK i \in 1..Len(s) : s[i] = n
    BY <1>1, <2>2, <2>3 DEF IsList
  <2>5. Len(s) \in Nat /\ 1 \in 1..Len(s) /\ Len(s) > 0
    BY <2>3, <2>4 DEF IsList
  <2>6. s[1] \in DomNodes /\ dom[p].first = s[1]
    BY <2>3, <2>5 DEF IsList
  <2> QED BY <1>1, <1>2, <2>2, <2>6
<1>5. dom[n].first # NoNode => dom[n].first \in domLive
  BY <1>1, <1>2, ForestHas DEF Linked, FirstLinked
<1>6. dom[n].next # NoNode => dom[n].next \in domLive
  BY <1>1, <1>2, ForestHas DEF Linked, NextLinked
<1>7. dom[n].prev # NoNode => dom[n].prev \in domLive
  BY <1>1, <1>2, ForestHas DEF Linked, PrevLinked
<1> QED BY <1>3, <1>4, <1>5, <1>6, <1>7

\* The children of the forest are the lists of the nodes.
LEMMA ForestIs ==
  ASSUME ForestInv
  PROVE  /\ DOMAIN DomForest = domLive
         /\ \A n \in domLive : IsList(dom, n, DomForest[n])
         /\ \A n \in domLive : Range(DomForest[n]) = {c \in DomNodes : dom[c].parent = n}
         /\ \A n \in domLive : Range(DomForest[n]) \subseteq domLive
<1>1. DOMAIN DomForest = domLive /\ \A n \in domLive : DomForest[n] = KidsOf(dom, n)
  BY KidsNow DEF DomForest
<1>2. ASSUME NEW n \in domLive
      PROVE  IsList(dom, n, DomForest[n])
  <2>1. n \in DomNodes
    BY ForestHas
  <2>2. PICK s : IsList(dom, n, s)
    BY <2>1, ForestHas DEF AllListed
  <2>3. KidsOf(dom, n) = s
    BY <2>1, <2>2, ForestHas, KidsAre
  <2> QED BY <1>1, <2>2, <2>3
<1>3. ASSUME NEW n \in domLive
      PROVE  Range(DomForest[n]) = {c \in DomNodes : dom[c].parent = n}
  <2>1. PICK s : s = DomForest[n]
    OBVIOUS
  <2>2. /\ s \in Seq(DomNodes) /\ \A i \in 1..Len(s) : dom[s[i]].parent = n
        /\ \A c \in DomNodes : dom[c].parent = n => \E i \in 1..Len(s) : s[i] = c
    BY <1>2, <2>1 DEF IsList
  <2>3. Range(s) = {s[i] : i \in 1..Len(s)} /\ \A i \in 1..Len(s) : s[i] \in DomNodes
    BY <2>2 DEF Range
  <2> QED BY <2>1, <2>2, <2>3
<1>4. \A n \in domLive : Range(DomForest[n]) \subseteq domLive
  BY <1>3, Together
<1> QED BY <1>1, <1>2, <1>3, <1>4

\* What XmlTree says is below a node is what is below it by the parents.
LEMMA BelowIs ==
  ASSUME ForestInv, NEW n \in domLive
  PROVE  Tree!TreeBelow(n) = Under(dom, n)
<1>1. PICK H : HasHeights(dom, H)
  BY ForestHas
<1>2. PICK k : k = DomForest
  OBVIOUS
<1>3. PICK f : f = (CHOOSE g : g = [m \in DOMAIN k |-> {m} \cup UNION {g[c] : c \in Range(k[m])}])
  OBVIOUS
<1>4. Tree!TreeBelow(n) = f[n]
  <2>1. Tree!TreeBelow(n) =
          (CHOOSE g : g = [m \in DOMAIN DomForest |->
                             {m} \cup UNION {g[c] : c \in Tree!Range(DomForest[m])}])[n]
    BY DEF Tree!TreeBelow
  <2>2. \A s : Tree!Range(s) = Range(s)
    BY DEF Tree!Range, Range
  <2> QED BY <1>2, <1>3, <2>1, <2>2
<1>5. /\ DOMAIN k = domLive
      /\ \A m \in domLive : Range(k[m]) = {c \in DomNodes : dom[c].parent = m}
      /\ \A m \in domLive : Range(k[m]) \subseteq domLive
  BY <1>2, ForestIs
<1>6. \E g : g = [m \in DOMAIN k |-> {m} \cup UNION {g[c] : c \in Range(k[m])}]
  <2>1. PICK g : g = [m \in domLive |-> Under(dom, m)]
    OBVIOUS
  <2>2. ASSUME NEW m \in domLive
        PROVE  Under(dom, m) = {m} \cup UNION {g[c] : c \in Range(k[m])}
    <3>1. Under(dom, m) = {m} \cup UNION {Under(dom, c) : c \in Range(k[m])}
      BY <1>5, UnderSplits, ForestHas
    <3>2. \A c \in Range(k[m]) : g[c] = Under(dom, c)
      BY <1>5, <2>1
    <3> QED BY <3>1, <3>2
  <2>3. g = [m \in domLive |-> {m} \cup UNION {g[c] : c \in Range(k[m])}]
    BY <2>1, <2>2, Zenon
  <2> QED BY <1>5, <2>3
<1>7. f = [m \in DOMAIN k |-> {m} \cup UNION {f[c] : c \in Range(k[m])}]
  BY <1>3, <1>6, ZenonT(60)
<1>8. \A m \in domLive : f[m] = {m} \cup UNION {f[c] : c \in Range(k[m])}
  BY <1>5, <1>7
<1>9. ASSUME NEW m0 \in domLive, f[m0] # Under(dom, m0)
      PROVE  FALSE
  <2> DEFINE Bad == {x \in Nat : \E m \in domLive : H[m] = x /\ f[m] # Under(dom, m)}
  <2>1. \A m \in domLive : m \in DomNodes /\ H[m] \in Nat
    BY <1>1, ForestHas DEF HasHeights
  <2>2. Bad # {} /\ Bad \subseteq Nat
    BY <1>9, <2>1
  <2>3. PICK x \in Bad : \A y \in Bad : x <= y
    <3> HIDE DEF Bad
    <3> QED BY <2>2, LeastNatural
  <2>4. PICK m \in domLive : H[m] = x /\ f[m] # Under(dom, m)
    OBVIOUS
  <2>5. ASSUME NEW c \in Range(k[m])
        PROVE  f[c] = Under(dom, c)
    <3>1. c \in domLive /\ dom[c].parent = m
      BY <1>5
    <3>2. H[c] < H[m]
      <4>1. m # NoNode /\ c \in DomNodes
        BY <2>1, <3>1, DomAssumption
      <4> QED BY <1>1, <3>1, <4>1 DEF HasHeights
    <3>3. H[c] \in Nat /\ H[m] \in Nat /\ ~(x <= H[c])
      BY <2>1, <2>4, <3>1, <3>2
    <3>4. H[c] \notin Bad
      <4> HIDE DEF Bad
      <4> QED BY <2>3, <3>3
    <3> QED BY <3>1, <3>3, <3>4
  <2>6. Under(dom, m) = {m} \cup UNION {Under(dom, c) : c \in Range(k[m])}
    BY <1>5, <2>1, UnderSplits
  <2>7. f[m] = {m} \cup UNION {f[c] : c \in Range(k[m])}
    BY <1>8
  <2>8. f[m] = Under(dom, m)
    <3> HIDE DEF Bad
    <3> QED BY <2>5, <2>6, <2>7
  <2> QED BY <2>4, <2>8
<1> QED BY <1>4, <1>9

\* XmlNodeIsAncestor refuses exactly what XmlTree forbids, to a caller that
\* does not take the child from another parent.
LEMMA RefusedIs ==
  ASSUME ForestInv, NEW p \in domLive, NEW c \in domLive, c # p,
         dom[c].parent \in {NoNode, p}
  PROVE  XmlNodeIsAncestor(c, p) <=> p \in Tree!TreeBelow(c) \ {c}
<1>1. PICK H : HasHeights(dom, H)
  BY ForestHas
<1>2. /\ p \in DomNodes /\ c \in DomNodes /\ NoNode \notin DomNodes
      /\ Nodes(dom) /\ Linked(dom) /\ AllListed(dom)
  BY ForestHas, DomAssumption
<1>3. XmlNodeIsAncestor(c, p) <=> dom[p].parent \in Walked(dom, c)
  BY <1>2, AncestorIs
<1>4. ASSUME p \in Under(dom, c)
      PROVE  dom[p].parent \in Walked(dom, c)
  BY <1>2, <1>4, UnderUp, UnderWalked
<1>5. ASSUME dom[p].parent \in Walked(dom, c)
      PROVE  p \in Under(dom, c)
  <2>1. CASE dom[c].parent = NoNode
    <3>1. dom[p].parent \in Under(dom, c)
      BY <1>2, <1>5, <2>1, WalkedUnder
    <3> QED BY <1>2, <3>1, UnderIs DEF Down
  <2>2. CASE dom[c].parent = p
    <3>1. PICK q : q = dom[p].parent
      OBVIOUS
    <3>2. q \in Under(dom, p) \ {p}
      BY <1>1, <1>2, <1>5, <2>2, <3>1, WalkedBelow
    <3>3. q \in DomNodes /\ H[q] < H[p]
      BY <1>1, <1>2, <3>2, UnderLower, UnderIs
    <3>4. H[p] < H[q]
      BY <1>1, <1>2, <3>1, <3>3 DEF HasHeights
    <3>5. H[p] \in Nat /\ H[q] \in Nat
      BY <1>1, <1>2, <3>3 DEF HasHeights
    <3> QED BY <3>3, <3>4, <3>5
  <2> QED BY <2>1, <2>2
<1>6. Tree!TreeBelow(c) = Under(dom, c)
  BY BelowIs
<1> QED BY <1>3, <1>4, <1>5, <1>6

----------------------------------------------------------------------------
(* Heights after a call.                                                   *)

\* Losing a parent keeps the heights.
LEMMA RootedLess ==
  ASSUME NEW h, NEW u, NEW H, HasHeights(h, H),
         \A x \in DomNodes : u[x].parent \in {NoNode, h[x].parent}
  PROVE  HasHeights(u, H)
  BY DEF HasHeights

\* When a tree is put under a node outside of it, everything else is lifted
\* above its root.
LEMMA RootedPut ==
  ASSUME NEW h, NEW u, Nodes(h), NEW H, HasHeights(h, H), NEW p \in DomNodes, NEW c \in DomNodes,
         p \notin Under(h, c), u[c].parent = p,
         \A x \in DomNodes \ {c} : u[x].parent = h[x].parent
  PROVE  \E G : HasHeights(u, G)
<1> DEFINE G == [x \in DomNodes |-> IF x \in Under(h, c) THEN H[x] ELSE H[x] + H[c] + 1]
<1>1. \A x \in DomNodes : H[x] \in Nat
  BY DEF HasHeights
<1>2. G \in [DomNodes -> Nat]
  <2>1. \A x \in DomNodes : H[x] + H[c] + 1 \in Nat
    BY <1>1
  <2> QED BY <1>1, <2>1
<1>3. ASSUME NEW n \in DomNodes, u[n].parent # NoNode
      PROVE  G[n] < G[u[n].parent]
  <2>1. CASE n = c
    <3>1. G[n] = H[c] /\ G[p] = H[p] + H[c] + 1
      BY <2>1, UnderIs
    <3>2. H[c] < H[p] + H[c] + 1
      BY <1>1
    <3> QED BY <2>1, <3>1, <3>2
  <2>2. CASE n # c
    <3>1. PICK q \in DomNodes : q = h[n].parent /\ u[n].parent = q
      BY <1>3, <2>2, Fields
    <3>2. H[n] < H[q]
      BY <1>3, <3>1 DEF HasHeights
    <3>3. n \in Under(h, c) <=> q \in Under(h, c)
      BY <2>2, <3>1, UnderUp, UnderIs DEF Down
    <3>4. H[n] + H[c] + 1 < H[q] + H[c] + 1
      <4>1. H[n] \in Nat /\ H[q] \in Nat /\ H[c] \in Nat
        BY <1>1
      <4> QED BY <3>2, <4>1
    <3> QED BY <3>1, <3>2, <3>3, <3>4
  <2> QED BY <2>1, <2>2
<1> HIDE DEF G
<1>4. HasHeights(u, G)
  BY <1>2, <1>3 DEF HasHeights
<1> QED BY <1>4

----------------------------------------------------------------------------
(* The forest after a call.                                                *)

LEMMA ForestThen ==
  ASSUME Nodes(dom'), Linked(dom'), AllListed(dom'), domLive' \subseteq DomNodes
  PROVE  /\ DomForest' = [n \in domLive' |-> KidsOf(dom', n)]
         /\ \A n \in domLive' : \A s : IsList(dom', n, s) => KidsOf(dom', n) = s
<1>1. DomForest' = [n \in domLive' |-> KidsOf(dom', n)]
  BY KidsThen DEF DomForest
<1>2. \A n \in domLive' : \A s : IsList(dom', n, s) => KidsOf(dom', n) = s
  BY KidsAre
<1> QED BY <1>1, <1>2

\* A call that gives one node other children.
LEMMA ForestChanges ==
  ASSUME ForestInv, DomInv', domLive' = domLive, NEW p \in domLive, NEW t, IsList(dom', p, t),
         \A q \in DomNodes \ {p} : \A s : IsList(dom, q, s) => IsList(dom', q, s)
  PROVE  AllListed(dom') /\ DomForest' = [DomForest EXCEPT ![p] = t]
<1>1. /\ Nodes(dom') /\ Linked(dom') /\ domLive' \subseteq DomNodes /\ domLive \subseteq DomNodes
      /\ DOMAIN DomForest = domLive /\ \A n \in domLive : IsList(dom, n, DomForest[n])
      /\ AllListed(dom)
  BY ForestHas, ForestIs DEF DomInv, DomTypeOK, Nodes
<1>2. AllListed(dom')
  BY <1>1 DEF AllListed
<1>3. /\ DomForest' = [n \in domLive |-> KidsOf(dom', n)]
      /\ \A n \in domLive : \A s : IsList(dom', n, s) => KidsOf(dom', n) = s
  BY <1>1, <1>2, ForestThen
<1>4. PICK k, k2 : k = DomForest /\ k2 = DomForest'
  OBVIOUS
<1>5. \A n \in domLive : k2[n] = IF n = p THEN t ELSE k[n]
  BY <1>1, <1>3, <1>4
<1>6. k2 = [n \in domLive |-> k2[n]]
  BY <1>3, <1>4
<1>7. k \in [domLive -> {k[n] : n \in domLive}]
  <2>1. k = [n \in domLive |-> k[n]] /\ DOMAIN k = domLive
    BY <1>1, <1>4 DEF DomForest
  <2> QED BY <2>1
<1>8. k2 = [k EXCEPT ![p] = t]
  BY <1>5, <1>6, <1>7
<1> QED BY <1>2, <1>4, <1>8

LEMMA MayPutIs ==
  ASSUME ForestInv, NEW p \in domLive, NEW c \in domLive, c # p,
         dom[c].parent \in {NoNode, p}, ~XmlNodeIsAncestor(c, p)
  PROVE  Tree!TreeMayPut(p, c) /\ p \notin Under(dom, c)
<1>1. p \notin Tree!TreeBelow(c)
  BY RefusedIs
<1>2. /\ DOMAIN DomForest = domLive
      /\ \A n \in domLive : Range(DomForest[n]) = {x \in DomNodes : dom[x].parent = n}
  BY ForestIs
<1>3. \A s : Tree!Range(s) = Range(s)
  BY DEF Tree!Range, Range
<1>4. c \in Tree!TreeRoots \cup Tree!Range(DomForest[p])
  <2>1. c \in DomNodes /\ NoNode \notin DomNodes /\ domLive \subseteq DomNodes
    BY ForestHas, DomAssumption
  <2>2. CASE dom[c].parent = p
    <3>1. c \in Range(DomForest[p])
      BY <1>2, <2>1, <2>2
    <3> QED BY <1>3, <3>1
  <2>3. CASE dom[c].parent = NoNode
    <3>1. \A m \in DOMAIN DomForest : c \notin Tree!Range(DomForest[m])
      BY <1>2, <1>3, <2>1, <2>3
    <3> QED BY <1>2, <3>1 DEF Tree!TreeRoots
  <2> QED BY <2>2, <2>3
<1>5. Tree!TreeMayPut(p, c)
  BY <1>1, <1>4 DEF Tree!TreeMayPut
<1> QED BY <1>1, <1>5, BelowIs

----------------------------------------------------------------------------
(* The calls, as steps of XmlTree.                                         *)

LEMMA AppendStep ==
  ASSUME ForestInv, DomMoves = FALSE, NEW p, NEW c, XmlNodeAppendChild(p, c)
  PROVE  /\ p \in domLive /\ c \in domLive /\ Tree!TreePut(p, c)
         /\ ForestInv'
<1>1. /\ p \in domLive /\ c \in domLive /\ c # p /\ dom[c].parent \in {NoNode, p}
      /\ UNCHANGED domLive /\ ~XmlNodeIsAncestor(c, p)
  BY DEF XmlNodeAppendChild, MayPut, AppendChildReturns
<1>2. PICK h : h = DetachedFirst(dom, p, c)
  OBVIOUS
<1>3. PICK l \in DomPtr : WalkEnds(h, p, l) /\ dom' = LinkLast(h, p, c, l)
  BY <1>2 DEF XmlNodeAppendChild
<1>4. DomInv'
  BY AppendKeepsInv DEF ForestInv
<1>5. /\ Nodes(h) /\ Linked(h) /\ h[c].parent = NoNode
      /\ \A x \in DomNodes \ {c} : h[x].parent = dom[x].parent
  BY <1>1, <1>2, DetachedKeeps DEF ForestInv
<1>6. p \in DomNodes /\ c \in DomNodes /\ Nodes(dom) /\ Linked(dom)
  BY <1>1, ForestHas
<1>7. PICK s : s = Tree!Without(DomForest[p], c)
  OBVIOUS
<1>8. IsList(h, p, s)
  BY <1>1, <1>2, <1>6, <1>7, ForestIs, DetachedList
<1>9. IsList(dom', p, InsertAt(s, Len(s) + 1, c))
  BY <1>1, <1>3, <1>5, <1>6, <1>8, LinkLastList
<1>10. \A q \in DomNodes \ {p} : \A t : IsList(dom, q, t) => IsList(dom', q, t)
  <2>1. \A q \in DomNodes \ {p} : \A t : IsList(dom, q, t) => IsList(h, q, t)
    BY <1>2, <1>6, DetachedOther
  <2>2. \A q \in DomNodes \ {p} : \A t : IsList(h, q, t) => IsList(LinkLast(h, p, c, l), q, t)
    BY <1>3, <1>5, <1>6, LinkLastOther
  <2> QED BY <1>3, <2>1, <2>2
<1>11. AllListed(dom') /\ DomForest' = [DomForest EXCEPT ![p] = InsertAt(s, Len(s) + 1, c)]
  BY <1>1, <1>4, <1>9, <1>10, ForestChanges
<1>12. Tree!TreeMayPut(p, c) /\ p \notin Under(dom, c)
  BY <1>1, MayPutIs
<1>13. Len(s) + 1 \in 1..(Len(s) + 1)
  BY <1>8 DEF IsList
<1>14. Tree!TreePut(p, c)
  BY <1>7, <1>11, <1>12, <1>13 DEF Tree!TreePut, Tree!InsertAt, InsertAt
<1>15. \E G : HasHeights(dom', G)
  <2>1. dom'[c].parent = p /\ \A x \in DomNodes \ {c} : dom'[x].parent = dom[x].parent
    BY <1>3, <1>5, <1>6 DEF LinkLast
  <2>2. PICK H : HasHeights(dom, H)
    BY ForestHas
  <2> QED BY <1>6, <1>12, <2>1, <2>2, RootedPut
<1> QED BY <1>1, <1>4, <1>11, <1>14, <1>15 DEF ForestInv

LEMMA InsertStep ==
  ASSUME ForestInv, DomMoves = FALSE, NEW p, NEW c, NEW r, XmlNodeInsertBefore(p, c, r)
  PROVE  /\ p \in domLive /\ c \in domLive /\ Tree!TreePut(p, c)
         /\ ForestInv'
<1>1. /\ p \in domLive /\ c \in domLive /\ r \in domLive /\ c # p /\ c # r
      /\ dom[c].parent \in {NoNode, p} /\ dom[r].parent = p
      /\ UNCHANGED domLive /\ ~XmlNodeIsAncestor(c, p)
  BY DEF XmlNodeInsertBefore, MayPut, InsertBeforeReturns, XmlNodeIsParent
<1>2. PICK h : h = DetachedFirst(dom, p, c)
  OBVIOUS
<1>3. dom' = LinkBefore(h, p, c, r)
  BY <1>2 DEF XmlNodeInsertBefore
<1>4. DomInv'
  BY InsertBeforeKeepsInv DEF ForestInv
<1>5. /\ Nodes(h) /\ Linked(h) /\ h[c].parent = NoNode
      /\ \A x \in DomNodes \ {c} : h[x].parent = dom[x].parent
  BY <1>1, <1>2, DetachedKeeps DEF ForestInv
<1>6. p \in DomNodes /\ c \in DomNodes /\ r \in DomNodes /\ Nodes(dom) /\ Linked(dom)
  BY <1>1, ForestHas
<1>7. PICK s : s = Tree!Without(DomForest[p], c)
  OBVIOUS
<1>8. IsList(h, p, s)
  BY <1>1, <1>2, <1>6, <1>7, ForestIs, DetachedList
<1>9. PICK j \in 1..Len(s) : s[j] = r
  <2>1. h[r].parent = p
    BY <1>1, <1>5, <1>6
  <2> QED BY <1>6, <1>8, <2>1 DEF IsList
<1>10. IsList(dom', p, InsertAt(s, j, c))
  BY <1>1, <1>3, <1>5, <1>6, <1>8, <1>9, LinkBeforeList
<1>11. \A q \in DomNodes \ {p} : \A t : IsList(dom, q, t) => IsList(dom', q, t)
  <2>1. \A q \in DomNodes \ {p} : \A t : IsList(dom, q, t) => IsList(h, q, t)
    BY <1>2, <1>6, DetachedOther
  <2>2. \A q \in DomNodes \ {p} : \A t : IsList(h, q, t) => IsList(LinkBefore(h, p, c, r), q, t)
    BY <1>1, <1>5, <1>6, LinkBeforeOther
  <2> QED BY <1>3, <2>1, <2>2
<1>12. AllListed(dom') /\ DomForest' = [DomForest EXCEPT ![p] = InsertAt(s, j, c)]
  BY <1>1, <1>4, <1>10, <1>11, ForestChanges
<1>13. Tree!TreeMayPut(p, c) /\ p \notin Under(dom, c)
  BY <1>1, MayPutIs
<1>14. j \in 1..(Len(s) + 1)
  BY <1>8 DEF IsList
<1>15. Tree!TreePut(p, c)
  BY <1>7, <1>12, <1>13, <1>14 DEF Tree!TreePut, Tree!InsertAt, InsertAt
<1>16. \E G : HasHeights(dom', G)
  <2>1. dom'[c].parent = p /\ \A x \in DomNodes \ {c} : dom'[x].parent = dom[x].parent
    BY <1>3, <1>5, <1>6 DEF LinkBefore
  <2>2. PICK H : HasHeights(dom, H)
    BY ForestHas
  <2> QED BY <1>6, <1>13, <2>1, <2>2, RootedPut
<1> QED BY <1>1, <1>4, <1>12, <1>15, <1>16 DEF ForestInv

\* Inserting in front of a child and taking that child out is exchanging it.
LEMMA ExchangedIs ==
  ASSUME NEW S, NEW s \in Seq(S), NEW j \in 1..Len(s), NEW c \in S,
         \A i, k \in 1..Len(s) : s[i] = s[k] => i = k
  PROVE  /\ j + 1 \in 1..Len(InsertAt(s, j, c)) /\ InsertAt(s, j, c)[j + 1] = s[j]
         /\ RemoveAt(InsertAt(s, j, c), j + 1)
              = [i \in DOMAIN s |-> IF s[i] = s[j] THEN c ELSE s[i]]
<1>1. PICK n \in Nat : n = Len(s)
  OBVIOUS
<1>2. PICK t : t = InsertAt(s, j, c)
  OBVIOUS
<1>3. j \in 1..n /\ j \in 1..(n + 1) /\ DOMAIN s = 1..n /\ \A i \in 1..n : s[i] \in S
  BY <1>1
<1>4. t \in Seq(S) /\ Inserted(t, s, j, c)
  BY <1>1, <1>2, <1>3, InsertAtIs
<1>5. /\ Len(t) = n + 1 /\ t[j] = c
      /\ \A i \in 1..(j - 1) : t[i] = s[i]
      /\ \A i \in j..n : t[i + 1] = s[i]
  BY <1>1, <1>4 DEF Inserted
<1>6. j + 1 \in 1..Len(t) /\ t[j + 1] = s[j]
  BY <1>3, <1>5
<1>7. PICK r : r = RemoveAt(t, j + 1)
  OBVIOUS
<1>8. r \in Seq(S) /\ Removed(r, t, j + 1)
  BY <1>4, <1>6, <1>7, RemoveAtIs
<1>9. /\ Len(r) = (n + 1) - 1
      /\ \A i \in 1..((j + 1) - 1) : r[i] = t[i]
      /\ \A i \in (j + 1)..((n + 1) - 1) : r[i] = t[i + 1]
  BY <1>5, <1>8 DEF Removed
<1>10. (n + 1) - 1 = n /\ (j + 1) - 1 = j
  BY <1>3
<1>11. Len(r) = n
  BY <1>9, <1>10
<1>12. ASSUME NEW i \in 1..n
       PROVE  r[i] = IF s[i] = s[j] THEN c ELSE s[i]
  <2>1. s[i] = s[j] <=> i = j
    BY <1>1, <1>3
  <2>2. CASE i = j
    <3>1. i \in 1..((j + 1) - 1)
      BY <1>3, <2>2
    <3> QED BY <1>5, <1>9, <2>2, <3>1
  <2>3. CASE i < j
    <3>1. i \in 1..((j + 1) - 1) /\ i \in 1..(j - 1)
      BY <1>3, <2>3
    <3>2. r[i] = t[i] /\ t[i] = s[i]
      BY <1>5, <1>9, <3>1
    <3>3. i # j
      BY <2>3
    <3> QED BY <2>1, <3>2, <3>3
  <2>4. CASE i > j
    <3>1. i \in (j + 1)..((n + 1) - 1) /\ i \in j..n
      BY <1>3, <2>4
    <3>2. r[i] = t[i + 1] /\ t[i + 1] = s[i]
      BY <1>5, <1>9, <3>1
    <3>3. i # j
      BY <2>4
    <3> QED BY <2>1, <3>2, <3>3
  <2>5. i = j \/ i < j \/ i > j
    BY <1>3
  <2> QED BY <2>2, <2>3, <2>4, <2>5
<1>13. PICK z : z = [i \in DOMAIN s |-> IF s[i] = s[j] THEN c ELSE s[i]]
  OBVIOUS
<1>14. z \in Seq(S) /\ Len(z) = n /\ \A i \in 1..n : z[i] = IF s[i] = s[j] THEN c ELSE s[i]
  BY <1>3, <1>13
<1>15. r = z
  BY <1>8, <1>11, <1>12, <1>14, SeqEqual
<1> QED BY <1>2, <1>6, <1>7, <1>13, <1>15

LEMMA ReplaceStep ==
  ASSUME ForestInv, DomMoves = FALSE, NEW p, NEW c, NEW r, XmlNodeReplaceChild(p, c, r)
  PROVE  /\ p \in domLive /\ c \in domLive /\ r \in Tree!Range(DomForest[p])
         /\ Tree!TreeSwap(p, c, r) /\ ForestInv'
<1>1. /\ p \in domLive /\ c \in domLive /\ r \in domLive /\ c # p /\ c # r
      /\ dom[c].parent \in {NoNode, p} /\ dom[r].parent = p
      /\ UNCHANGED domLive /\ ~XmlNodeIsAncestor(c, p)
  BY DEF XmlNodeReplaceChild, MayPut, InsertBeforeReturns, XmlNodeIsParent
<1>2. PICK h : h = DetachedFirst(dom, p, c)
  OBVIOUS
<1>3. PICK g : g = LinkBefore(h, p, c, r)
  OBVIOUS
<1>4. dom' = Unlink(g, p, r)
  BY <1>2, <1>3 DEF XmlNodeReplaceChild
<1>5. DomInv'
  BY ReplaceKeepsInv DEF ForestInv
<1>6. /\ Nodes(h) /\ Linked(h) /\ h[c].parent = NoNode
      /\ \A x \in DomNodes \ {c} : h[x].parent = dom[x].parent
  BY <1>1, <1>2, DetachedKeeps DEF ForestInv
<1>7. p \in DomNodes /\ c \in DomNodes /\ r \in DomNodes /\ Nodes(dom) /\ Linked(dom)
  BY <1>1, ForestHas
<1>8. h[r].parent = p
  BY <1>1, <1>6, <1>7
<1>9. /\ Nodes(g) /\ Linked(g) /\ g[r].parent = p /\ g[c].parent = p
      /\ \A x \in DomNodes \ {c} : g[x].parent = dom[x].parent
  <2>1. Nodes(g) /\ Linked(g)
    BY <1>1, <1>3, <1>6, <1>7, <1>8, LinkBeforeKeepsNodes, LinkBeforeKeepsLinked
  <2>2. \A x \in DomNodes : g[x].parent = IF x = c THEN p ELSE h[x].parent
    BY <1>3 DEF LinkBefore
  <2> QED BY <1>1, <1>6, <1>7, <2>1, <2>2
<1>10. PICK s : s = Tree!Without(DomForest[p], c)
  OBVIOUS
<1>11. IsList(h, p, s)
  BY <1>1, <1>2, <1>7, <1>10, ForestIs, DetachedList
<1>12. PICK j \in 1..Len(s) : s[j] = r
  BY <1>7, <1>8, <1>11 DEF IsList
<1>13. PICK t : t = InsertAt(s, j, c)
  OBVIOUS
<1>14. IsList(g, p, t)
  BY <1>1, <1>3, <1>6, <1>7, <1>11, <1>12, <1>13, LinkBeforeList
<1>15. PICK z : z = [i \in DOMAIN s |-> IF s[i] = r THEN c ELSE s[i]]
  OBVIOUS
<1>16. j + 1 \in 1..Len(t) /\ t[j + 1] = r /\ RemoveAt(t, j + 1) = z
  <2>1. s \in Seq(DomNodes) /\ \A i, k \in 1..Len(s) : s[i] = s[k] => i = k
    BY <1>11 DEF IsList
  <2> QED BY <1>7, <1>12, <1>13, <1>15, <2>1, ExchangedIs, SMTT(60)
<1>17. IsList(dom', p, z)
  BY <1>4, <1>7, <1>9, <1>14, <1>16, UnlinkList
<1>18. \A q \in DomNodes \ {p} : \A y : IsList(dom, q, y) => IsList(dom', q, y)
  <2>1. \A q \in DomNodes \ {p} : \A y : IsList(dom, q, y) => IsList(h, q, y)
    BY <1>2, <1>7, DetachedOther
  <2>2. \A q \in DomNodes \ {p} : \A y : IsList(h, q, y) => IsList(g, q, y)
    BY <1>3, <1>6, <1>7, <1>8, LinkBeforeOther
  <2>3. \A q \in DomNodes \ {p} : \A y : IsList(g, q, y) => IsList(dom', q, y)
    BY <1>4, <1>7, <1>9, UnlinkOther
  <2> QED BY <2>1, <2>2, <2>3
<1>19. AllListed(dom') /\ DomForest' = [DomForest EXCEPT ![p] = z]
  BY <1>1, <1>5, <1>17, <1>18, ForestChanges
<1>20. Tree!TreeMayPut(p, c) /\ p \notin Under(dom, c)
  BY <1>1, MayPutIs
<1>21. \A y : Tree!Range(y) = Range(y)
  BY DEF Tree!Range, Range
<1>22. r \in Tree!Range(s)
  <2>1. DOMAIN s = 1..Len(s)
    BY <1>11 DEF IsList
  <2>2. r \in Range(s)
    BY <1>12, <2>1 DEF Range
  <2> QED BY <1>21, <2>2
<1>23. r \in Tree!Range(DomForest[p])
  BY <1>1, <1>7, <1>21, ForestIs
<1>24. Tree!TreeSwap(p, c, r)
  BY <1>1, <1>10, <1>15, <1>19, <1>20, <1>22 DEF Tree!TreeSwap
<1>25. \E G : HasHeights(dom', G)
  <2>1. PICK H : HasHeights(dom, H)
    BY ForestHas
  <2>2. PICK G : HasHeights(g, G)
    BY <1>7, <1>9, <1>20, <2>1, RootedPut
  <2>3. \A x \in DomNodes : dom'[x].parent \in {NoNode, g[x].parent}
    BY <1>4, UnlinkFields
  <2> QED BY <2>2, <2>3, RootedLess
<1> QED BY <1>1, <1>5, <1>19, <1>23, <1>24, <1>25 DEF ForestInv

LEMMA TakeStep ==
  ASSUME ForestInv, NEW p, NEW c, XmlNodeRemoveChild(p, c)
  PROVE  /\ p \in domLive /\ c \in domLive /\ Tree!TreeTake(p, c)
         /\ ForestInv'
<1>1. /\ p \in domLive /\ c \in domLive /\ dom[c].parent = p
      /\ dom' = Unlink(dom, p, c) /\ domLive' = domLive
  BY DEF XmlNodeRemoveChild, XmlNodeIsParent
<1>2. DomInv'
  BY RemoveKeepsInv DEF ForestInv
<1>3. p \in DomNodes /\ c \in DomNodes /\ Nodes(dom) /\ Linked(dom)
  BY <1>1, ForestHas
<1>4. PICK s : s = Tree!Without(DomForest[p], c)
  OBVIOUS
<1>5. IsList(dom', p, s)
  <2>1. DetachedFirst(dom, p, c) = dom'
    BY <1>1 DEF DetachedFirst
  <2>2. dom[c].parent \in {NoNode, p} /\ IsList(dom, p, DomForest[p])
    BY <1>1, ForestIs
  <2>3. IsList(DetachedFirst(dom, p, c), p, s)
    BY <1>3, <1>4, <2>2, DetachedList
  <2> QED BY <2>1, <2>3
<1>6. \A q \in DomNodes \ {p} : \A y : IsList(dom, q, y) => IsList(dom', q, y)
  BY <1>1, <1>3, UnlinkOther
<1>7. AllListed(dom') /\ DomForest' = [DomForest EXCEPT ![p] = s]
  BY <1>1, <1>2, <1>5, <1>6, ForestChanges
<1>8. c \in Tree!Range(DomForest[p])
  <2>1. c \in Range(DomForest[p])
    BY <1>1, <1>3, ForestIs
  <2> QED BY <2>1 DEF Tree!Range, Range
<1>9. Tree!TreeTake(p, c)
  BY <1>4, <1>7, <1>8 DEF Tree!TreeTake
<1>10. \E G : HasHeights(dom', G)
  <2>1. PICK H : HasHeights(dom, H)
    BY ForestHas
  <2>2. \A x \in DomNodes : dom'[x].parent \in {NoNode, dom[x].parent}
    BY <1>1, UnlinkFields
  <2> QED BY <2>1, <2>2, RootedLess
<1> QED BY <1>1, <1>2, <1>7, <1>9, <1>10 DEF ForestInv

\* A free takes the whole tree and leaves the others.
LEMMA DropStep ==
  ASSUME ForestInv, NEW n, XmlNodeFree(n)
  PROVE  /\ n \in domLive /\ Tree!TreeDrop(n)
         /\ ForestInv'
<1>1. /\ n \in domLive /\ dom[n].parent = NoNode
      /\ domLive' = domLive \ Walked(dom, n)
      /\ dom' = Freed(dom, n)
  BY DEF XmlNodeFree, Freed
<1>2. DomInv'
  BY FreeKeepsInv DEF ForestInv
<1>3. /\ n \in DomNodes /\ Nodes(dom) /\ Linked(dom) /\ AllListed(dom) /\ NoNode \notin DomNodes
      /\ domLive \subseteq DomNodes
  BY <1>1, ForestHas, DomAssumption
<1>4. PICK W : W = Walked(dom, n)
  OBVIOUS
<1>5. W = Under(dom, n) /\ W = Tree!TreeBelow(n)
  BY <1>1, <1>3, <1>4, UnderWalked, WalkedUnder, BelowIs
<1>6. \A x \in DomNodes : dom'[x] = IF x \in W THEN XmlNodeInit ELSE dom[x]
  BY <1>1, <1>4 DEF Freed
<1>7. \A x \in DomNodes : dom[x].parent \in W <=> x \in W /\ x # n
  <2>1. \A x \in DomNodes : dom[x].parent \in W => x \in W
    BY <1>3, <1>5, UnderIs DEF Down
  <2>2. n \in DomNodes /\ W \subseteq DomNodes
    BY <1>3, <1>5, UnderIs
  <2>3. \A x \in W : x # n => dom[x].parent \in W
    BY <1>3, <1>5, UnderUp
  <2> QED BY <1>1, <1>3, <2>1, <2>2, <2>3
<1>8. ASSUME NEW q \in DomNodes \ W, NEW s, IsList(dom, q, s)
      PROVE  IsList(dom', q, s)
  <2>1. dom'[q].first = dom[q].first
    BY <1>6
  <2>2. \A x \in DomNodes : dom[x].parent = q => x \notin W
    <3>1. \A x \in DomNodes : x \in W => dom[x].parent = NoNode \/ dom[x].parent \in W
      BY <1>1, <1>7
    <3> QED BY <1>3, <3>1
  <2>3. \A x \in DomNodes : dom[x].parent = q => dom'[x].parent = q /\ dom'[x].next = dom[x].next
    BY <1>6, <2>2
  <2>4. \A x \in DomNodes : dom'[x].parent = q => dom[x].parent = q
    BY <1>3, <1>6 DEF XmlNodeInit
  <2> QED BY <1>8, <2>1, <2>3, <2>4, OtherList
<1>9. ASSUME NEW q \in DomNodes, q \in W
      PROVE  IsList(dom', q, <<>>)
  <2>1. dom'[q].first = NoNode
    BY <1>6, <1>9 DEF XmlNodeInit
  <2>2. \A x \in DomNodes : dom'[x].parent # q
    <3>1. \A x \in DomNodes : x \in W => dom'[x].parent = NoNode
      BY <1>6 DEF XmlNodeInit
    <3>2. \A x \in DomNodes : x \notin W => dom'[x].parent = dom[x].parent
      BY <1>6
    <3> QED BY <1>3, <1>7, <1>9, <3>1, <3>2
  <2>3. <<>> \in Seq(DomNodes) /\ Len(<<>>) = 0 /\ 1..0 = {} /\ ~(0 > 0) /\ 1..(0 - 1) = {}
    OBVIOUS
  <2> QED BY <2>1, <2>2, <2>3 DEF IsList
<1>10. AllListed(dom')
  <2>1. ASSUME NEW q \in DomNodes
        PROVE  \E s : IsList(dom', q, s)
    BY <1>3, <1>8, <1>9 DEF AllListed
  <2> QED BY <2>1 DEF AllListed
<1>11. /\ DomForest' = [m \in domLive' |-> KidsOf(dom', m)]
       /\ \A m \in domLive' : \A s : IsList(dom', m, s) => KidsOf(dom', m) = s
  <2>1. Nodes(dom') /\ Linked(dom') /\ domLive' \subseteq DomNodes
    BY <1>2 DEF DomInv, DomTypeOK, Nodes
  <2> QED BY <1>10, <2>1, ForestThen
<1>12. \A m \in domLive' : m \in domLive /\ m \in DomNodes \ W
  BY <1>1, <1>3, <1>4
<1>13. \A m \in domLive' : KidsOf(dom', m) = DomForest[m]
  BY <1>8, <1>11, <1>12, ForestIs
<1>14. DomForest' = [m \in DOMAIN DomForest \ Tree!TreeBelow(n) |-> DomForest[m]]
  <2>1. domLive' = DOMAIN DomForest \ Tree!TreeBelow(n)
    BY <1>1, <1>4, <1>5, ForestIs
  <2> QED BY <1>11, <1>13, <2>1
<1>15. n \in Tree!TreeRoots
  <2>1. DOMAIN DomForest = domLive
        /\ \A m \in domLive : Range(DomForest[m]) = {x \in DomNodes : dom[x].parent = m}
    BY ForestIs
  <2>2. \A s : Tree!Range(s) = Range(s)
    BY DEF Tree!Range, Range
  <2>3. \A m \in DOMAIN DomForest : n \notin Tree!Range(DomForest[m])
    BY <1>1, <1>3, <2>1, <2>2
  <2> QED BY <1>1, <2>1, <2>3 DEF Tree!TreeRoots
<1>16. Tree!TreeDrop(n)
  BY <1>14, <1>15 DEF Tree!TreeDrop
<1>17. \E G : HasHeights(dom', G)
  <2>1. PICK H : HasHeights(dom, H)
    BY ForestHas
  <2>2. \A x \in DomNodes : dom'[x].parent \in {NoNode, dom[x].parent}
    BY <1>6 DEF XmlNodeInit
  <2> QED BY <2>1, <2>2, RootedLess
<1> QED BY <1>1, <1>2, <1>10, <1>16, <1>17 DEF ForestInv

\* A new node is a tree of its own.
LEMMA BirthStep ==
  ASSUME ForestInv, DomInv', NEW n \in DomNodes \ domLive, domLive' = domLive \cup {n},
         SameLinks(dom, dom')
  PROVE  Tree!TreeCreate(n) /\ ForestInv'
<1>1. /\ Nodes(dom) /\ Linked(dom) /\ AllListed(dom) /\ domLive \subseteq DomNodes
      /\ dom[n] = XmlNodeInit /\ NoNode \notin DomNodes
  BY ForestHas, DomAssumption
<1>2. /\ \A q \in DomNodes : \A s : IsList(dom, q, s) => IsList(dom', q, s)
      /\ AllListed(dom')
  BY <1>1, SameLists DEF AllListed
<1>3. /\ DomForest' = [m \in domLive' |-> KidsOf(dom', m)]
      /\ \A m \in domLive' : \A s : IsList(dom', m, s) => KidsOf(dom', m) = s
  <2>1. Nodes(dom') /\ Linked(dom') /\ domLive' \subseteq DomNodes
    BY DEF DomInv, DomTypeOK, Nodes
  <2> QED BY <1>2, <2>1, ForestThen
<1>4. \A m \in domLive : KidsOf(dom', m) = DomForest[m]
  BY <1>1, <1>2, <1>3, ForestIs
<1>5. KidsOf(dom', n) = <<>>
  <2>1. PICK s : IsList(dom, n, s)
    BY <1>1 DEF AllListed
  <2>2. dom[n].first = NoNode
    BY <1>1 DEF XmlNodeInit
  <2>3. s \in Seq(DomNodes) /\ ~(Len(s) > 0)
    <3>1. Len(s) > 0 => 1 \in 1..Len(s)
      BY <2>1 DEF IsList
    <3>2. Len(s) > 0 => s[1] \in DomNodes /\ dom[n].first = s[1]
      BY <2>1, <3>1 DEF IsList
    <3> QED BY <1>1, <2>1, <2>2, <3>2 DEF IsList
  <2>4. s = <<>>
    <3>1. Len(s) = 0
      BY <2>3
    <3> QED BY <2>3, <3>1
  <2>5. IsList(dom', n, s)
    BY <1>2, <2>1
  <2> QED BY <1>3, <2>4, <2>5
<1>6. DOMAIN DomForest = domLive
  BY ForestIs
<1>7. DomForest' = [m \in domLive \cup {n} |-> IF m = n THEN <<>> ELSE DomForest[m]]
  BY <1>3, <1>4, <1>5
<1>8. Tree!TreeCreate(n)
  BY <1>6, <1>7 DEF Tree!TreeCreate, Tree!TreeLive
<1>9. \E G : HasHeights(dom', G)
  <2>1. PICK H : HasHeights(dom, H)
    BY ForestHas
  <2>2. \A x \in DomNodes : dom'[x].parent \in {NoNode, dom[x].parent}
    BY DEF SameLinks
  <2> QED BY <2>1, <2>2, RootedLess
<1> QED BY <1>2, <1>8, <1>9 DEF ForestInv

LEMMA NewNode ==
  ASSUME DomInv, NEW d \in DomPtr, NEW n \in DomNodes \ domLive,
         dom' = [dom EXCEPT ![n] = [XmlNodeInit EXCEPT !.doc = d]]
  PROVE  SameLinks(dom, dom')
  BY DEF DomInv, DomTypeOK, Unborn, SameLinks, XmlNodeInit

LEMMA CreateStep ==
  ASSUME ForestInv, DomInv', NEW n, NEW d \in DomNodes,
         \/ XmlDocCreateNode(d, n)
         \/ \E s \in DomNodes : XmlDocImportNode(d, s, n)
         \/ \E s \in DomNodes : XmlNodeCloneNode(s, n),
         n \in DomNodes
  PROVE  Tree!TreeCreate(n) /\ ForestInv'
<1>1. DomInv
  BY DEF ForestInv
<1>2. CASE XmlDocCreateNode(d, n)
  <2>1. n \in DomNodes \ domLive /\ domLive' = domLive \cup {n}
        /\ dom' = [dom EXCEPT ![n] = [XmlNodeInit EXCEPT !.doc = d]]
    BY <1>2 DEF XmlDocCreateNode, XmlDocCreateElementEx, XmlDocCreateTextNodeEx,
                XmlDocCreateCDATASectionEx, XmlDocCreateDocumentEx
  <2> QED BY <1>1, <2>1, NewNode, BirthStep DEF DomPtr
<1>3. ASSUME NEW s \in DomNodes, XmlDocImportNode(d, s, n)
      PROVE  Tree!TreeCreate(n) /\ ForestInv'
  <2>1. n \in DomNodes \ domLive /\ domLive' = domLive \cup {n}
        /\ dom' = XmlDocSetOwnerDocument([dom EXCEPT ![n] = XmlNodeInit], d, n)
    BY <1>3 DEF XmlDocImportNode
  <2>2. [dom EXCEPT ![n] = XmlNodeInit] = dom
    BY <1>1, <2>1 DEF DomInv, DomTypeOK, Unborn
  <2>3. SameLinks(dom, dom')
    BY <2>1, <2>2 DEF XmlDocSetOwnerDocument, SameLinks
  <2> QED BY <2>1, <2>3, BirthStep
<1>4. ASSUME NEW s \in DomNodes, XmlNodeCloneNode(s, n)
      PROVE  Tree!TreeCreate(n) /\ ForestInv'
  <2>1. n \in DomNodes \ domLive /\ domLive' = domLive \cup {n}
        /\ dom' = [dom EXCEPT ![n] = XmlNodeInit]
    BY <1>4 DEF XmlNodeCloneNode
  <2>2. SameLinks(dom, dom')
    BY <1>1, <2>1 DEF DomInv, DomTypeOK, Unborn, SameLinks
  <2> QED BY <2>1, <2>2, BirthStep
<1> QED BY <1>2, <1>3, <1>4

LEMMA ForestStep ==
  ASSUME ForestInv, DomMoves = FALSE, [DomNext]_domVars
  PROVE  ForestInv' /\ [Tree!TreeNext]_DomForest
<1>1. DomInv'
  BY StepKeepsInv DEF ForestInv
<1>2. domLive \subseteq DomNodes /\ DOMAIN DomForest = domLive
  BY ForestHas, ForestIs
<1>3. ASSUME NEW n \in DomNodes, NEW d \in DomNodes,
             \/ XmlDocCreateNode(d, n)
             \/ \E s \in DomNodes : XmlDocImportNode(d, s, n)
             \/ \E s \in DomNodes : XmlNodeCloneNode(s, n)
      PROVE  ForestInv' /\ Tree!TreeNext
  <2>1. Tree!TreeCreate(n) /\ ForestInv'
    BY <1>1, <1>3, CreateStep
  <2> QED BY <2>1 DEF Tree!TreeNext
<1>4. ASSUME NEW p \in DomNodes, NEW c \in DomNodes, XmlNodeAppendChild(p, c)
      PROVE  ForestInv' /\ Tree!TreeNext
  BY <1>2, <1>4, AppendStep DEF Tree!TreeNext, Tree!TreeLive
<1>5. ASSUME NEW p \in DomNodes, NEW c \in DomNodes, XmlNodeRemoveChild(p, c)
      PROVE  ForestInv' /\ Tree!TreeNext
  BY <1>2, <1>5, TakeStep DEF Tree!TreeNext, Tree!TreeLive
<1>6. ASSUME NEW p \in DomNodes, NEW c \in DomNodes, NEW r \in DomNodes,
             XmlNodeInsertBefore(p, c, r)
      PROVE  ForestInv' /\ Tree!TreeNext
  BY <1>2, <1>6, InsertStep DEF Tree!TreeNext, Tree!TreeLive
<1>7. ASSUME NEW p \in DomNodes, NEW c \in DomNodes, NEW r \in DomNodes,
             XmlNodeReplaceChild(p, c, r)
      PROVE  ForestInv' /\ Tree!TreeNext
  BY <1>2, <1>7, ReplaceStep DEF Tree!TreeNext, Tree!TreeLive
<1>8. ASSUME NEW n \in DomNodes, XmlNodeFree(n)
      PROVE  ForestInv' /\ Tree!TreeNext
  BY <1>2, <1>8, DropStep DEF Tree!TreeNext, Tree!TreeLive
<1>9. CASE UNCHANGED domVars
  <2>1. dom' = dom /\ domLive' = domLive
    BY <1>9 DEF domVars
  <2>2. DomForest' = DomForest
    BY <2>1, KidsNow, KidsThen DEF DomForest
  <2>3. ForestInv'
    BY <1>1, <2>1 DEF ForestInv
  <2> QED BY <2>2, <2>3
<1> QED BY <1>3, <1>4, <1>5, <1>6, <1>7, <1>8, <1>9 DEF DomNext

LEMMA ForestStarts == DomInit => ForestInv /\ Tree!TreeInit
<1> SUFFICES ASSUME DomInit PROVE ForestInv /\ Tree!TreeInit
  OBVIOUS
<1>1. DomInv
  BY InitDomInv
<1>2. dom = [n \in DomNodes |-> XmlNodeInit] /\ domLive = {} /\ NoNode \notin DomNodes
  BY DomAssumption DEF DomInit
<1>3. \A n \in DomNodes : dom[n].parent = NoNode /\ dom[n].first = NoNode
  BY <1>2 DEF XmlNodeInit
<1>4. \A p \in DomNodes : IsList(dom, p, <<>>)
  <2>1. <<>> \in Seq(DomNodes) /\ Len(<<>>) = 0 /\ 1..0 = {} /\ ~(0 > 0) /\ 1..(0 - 1) = {}
    OBVIOUS
  <2> QED BY <1>2, <1>3, <2>1 DEF IsList
<1>5. AllListed(dom)
  BY <1>4 DEF AllListed
<1>6. HasHeights(dom, [n \in DomNodes |-> 0])
  BY <1>3 DEF HasHeights
<1>7. Tree!TreeInit
  BY <1>2 DEF Tree!TreeInit, DomForest
<1> QED BY <1>1, <1>5, <1>6, <1>7 DEF ForestInv

LEMMA ForestAlways ==
  ASSUME DomMoves = FALSE
  PROVE  DomSpec => []ForestInv
<1>1. DomInit => ForestInv
  BY ForestStarts
<1>2. ForestInv /\ [DomNext]_domVars => ForestInv'
  BY ForestStep
<1> QED BY <1>1, <1>2, PTL DEF DomSpec

\* node.c, document.c: nothing a live node points at has been freed, and a
\* caller that takes no child from another parent is refused for the hierarchy
\* only if the node really has the parent-to-be below it; for any number of
\* nodes and after any number of calls.
THEOREM DomKeepsForest ==
  ASSUME DomMoves = FALSE
  PROVE  DomSpec => [](DomNoDangling /\ RefusalsExact)
<1>1. ForestInv => DomNoDangling /\ RefusalsExact
  <2> SUFFICES ASSUME ForestInv PROVE DomNoDangling /\ RefusalsExact
    OBVIOUS
  <2>1. DomNoDangling
    BY Together DEF DomNoDangling
  <2>2. RefusalsExact
    <3>1. ASSUME NEW p \in domLive, NEW c \in domLive, MayPut(p, c), ~DomMoves
          PROVE  XmlNodeIsAncestor(c, p) <=> p \in Tree!TreeBelow(c) \ {c}
      BY <3>1, RefusedIs DEF MayPut
    <3> QED BY <3>1 DEF RefusalsExact
  <2> QED BY <2>1, <2>2
<1> QED BY <1>1, ForestAlways, PTL

\* node.c, document.c: the pointers show a forest of lists, and every creation,
\* insertion, replacement, removal, copy and free is one step of XmlTree on it:
\* one node comes to one place, leaves it, takes the place of another, or goes
\* with its whole tree. For any number of nodes of any kinds.
THEOREM DomIsTree ==
  ASSUME DomMoves = FALSE
  PROVE  DomSpec => DomRefinesTree
<1>1. DomInit => Tree!TreeInit
  BY ForestStarts
<1>2. ForestInv /\ [DomNext]_domVars => [Tree!TreeNext]_DomForest
  BY ForestStep
<1> QED BY <1>1, <1>2, ForestAlways, PTL DEF DomSpec, DomRefinesTree, Tree!TreeSpec
=============================================================================
