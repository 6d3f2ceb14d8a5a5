---------------------------- MODULE ParameterTree ----------------------------
(***************************************************************************)
(* The parameter tree (libcwmp/src/model.c) and the search of a path in it *)
(* (cwmp_get_parameter_path_node of cwmp.c). The tree comes out of a       *)
(* document; instances of an object are copies of its "{i}" child, made    *)
(* and deleted while the program runs. A node is known by a number, NoParam*)
(* is NULL. A name is a sequence of what lies between its dots, so that a  *)
(* dot at its end leaves an empty last part. The pool keeps what is small: *)
(* a deleted node can still be read, and is still there for the search     *)
(* when it was not unlinked.                                               *)
(***************************************************************************)
EXTENDS Naturals, Sequences, FiniteSets, SequencesExt

CONSTANTS
  ParamDocs,      \* documents: elements in document order, [name, up, rw,
                  \* obj], up the element around it, 0 for the first one, obj
                  \* whether its type is "obj"
  InstanceNames,  \* numbers an instance may get
  SearchPaths,    \* paths that are asked for
  MaxParams,      \* bound: nodes ever made
  MaxEdits        \* bound: instances made and deleted

ASSUME TreeAssumption ==
  /\ MaxParams \in Nat /\ MaxEdits \in Nat
  /\ InstanceNames \subseteq STRING /\ SearchPaths \subseteq Seq(STRING)
  /\ \A doc \in ParamDocs :
       /\ doc \in Seq([name : Seq(STRING), up : Nat, rw : {0, 1}, obj : BOOLEAN])
       /\ Len(doc) \in 1..MaxParams
       /\ \A i \in DOMAIN doc : doc[i].up < i

NoParam == 0
EmptyPart == ""           \* what is behind a dot at the end
Nameless == <<>>          \* an element without the attribute name
Template == <<"{i}">>
Params == 1..MaxParams

VARIABLES
  params,    \* the nodes: name, object, rw, parent, child, next
  paramDoc,  \* the document loaded
  present,   \* history: the paths the edits so far should have left
  edits,     \* instances made and deleted
  astray     \* history: a node was deleted that is not unlinked, or an
             \* instance made under a number in use

treeVars == <<params, paramDoc, present, edits, astray>>

Numbers == {<<k>> : k \in InstanceNames}

----------------------------------------------------------------------------
(* Walking.                                                                *)

\* Node n and its later siblings.
Siblings(ps, n) ==
  LET from[m \in 0..Len(ps)] == IF m = NoParam THEN <<>> ELSE <<m>> \o from[ps[m].next]
  IN  from[n]

ChildrenOf(ps, n) == Siblings(ps, ps[n].child)

\* Node n and all below it, each before its children.
Below(ps, n) ==
  LET sub[m \in DOMAIN ps] ==
        <<m>> \o FlattenSeq([i \in DOMAIN ChildrenOf(ps, m) |-> sub[ChildrenOf(ps, m)[i]]])
  IN  sub[n]

\* The ways down from n, and the paths of all nodes below it, as one reads
\* them off the tree.
RoutesBelow(ps, n) ==
  LET sub[m \in DOMAIN ps] ==
        UNION {{<<c>>} \cup {<<c>> \o s : s \in sub[c]} : c \in ToSet(ChildrenOf(ps, m))}
  IN  sub[n]

NameOf(ps, s) == FlattenSeq([i \in DOMAIN s |-> ps[s[i]].name])
PathsBelow(ps, n) == {NameOf(ps, s) : s \in RoutesBelow(ps, n)}

RootParam == 1                       \* root_param; cwmp->root is its first child
Root(ps) == ps[RootParam].child

----------------------------------------------------------------------------
(* Loading.                                                                *)

\* cwmp_model_create_parameter with cwmp_model_init_parameter: the node of
\* element i. A name that ends with a dot makes it an object, as having no
\* name or the type "obj" does. Of siblings the first is the parent of the others
\* (cwmp_model_create_child_parameter).
Loaded(doc, i) ==
  LET kids == {j \in DOMAIN doc : doc[j].up = i}
      peers == {j \in DOMAIN doc : doc[j].up = doc[i].up}
      later == {j \in peers : j > i}
      least(S) == IF S = {} THEN NoParam ELSE CHOOSE j \in S : \A k \in S : j <= k
  IN  [name   |-> doc[i].name,
       object |-> doc[i].name = Nameless \/ Last(doc[i].name) = EmptyPart \/ doc[i].obj,
       rw     |-> doc[i].rw,
       parent |-> IF i = least(peers) THEN doc[i].up ELSE least(peers),
       child  |-> least(kids),
       next   |-> least(later)]

\* cwmp_model_load_xml and cwmp_model_load_parameter.
LoadParams(doc) ==
  /\ paramDoc = doc
  /\ params = [i \in DOMAIN doc |-> Loaded(doc, i)]
  /\ present = PathsBelow([i \in DOMAIN doc |-> Loaded(doc, i)], RootParam)

TreeInit ==
  /\ \E doc \in ParamDocs : LoadParams(doc)
  /\ edits = 0 /\ astray = FALSE

----------------------------------------------------------------------------
(* The search.                                                             *)

\* cwmp_get_parameter_nodename cuts a path at its dots; the one at its end
\* does not start another part.
Parts(path) == IF path # <<>> /\ Last(path) = EmptyPart THEN Front(path) ELSE path

\* cwmp_get_parameter_path_node: at each level the first sibling of that
\* name, or without one, "{i}" left out. When the last part is not found the
\* answer is the parent field of the last sibling; when the tree ends before
\* the path does it is the node reached.
cwmp_get_parameter_path_node(ps, path) ==
  LET parts == Parts(path)
      at[k \in 1..Len(parts)] == [n \in 0..Len(ps) |->
        LET row == Siblings(ps, n)
            hits == {i \in DOMAIN row : /\ ps[row[i]].name # Template
                                        /\ ps[row[i]].name \in {Nameless, <<parts[k]>>}}
            hit == row[CHOOSE i \in hits : \A j \in hits : i <= j]
        IN  IF hits # {}
            THEN IF k = Len(parts) \/ ps[hit].child = NoParam THEN hit
                 ELSE at[k + 1][ps[hit].child]
            ELSE IF row = <<>> \/ ps[Last(row)].name = Template \/ k < Len(parts)
                 THEN NoParam ELSE ps[Last(row)].parent]
  IN  IF parts = <<>> THEN Root(ps) ELSE at[1][Root(ps)]

----------------------------------------------------------------------------
(* Instances.                                                              *)

\* cwmp_model_copy_parameter: a copy of the first child of n under the name
\* k goes to the end of its siblings. cwmp_model_copy_parameter_object gives
\* the copies of what is below it name and value only: type 0 is an object.
Copied(ps, n, k) ==
  LET source == ps[n].child
      old == Below(ps, source)
      new(m) == IF m = NoParam THEN NoParam
                ELSE Len(ps) + (CHOOSE i \in DOMAIN old : old[i] = m)
      above(m) == CHOOSE u \in ToSet(old) : m \in ToSet(ChildrenOf(ps, u))
      copy(m) == IF m = source
                 THEN [ps[m] EXCEPT !.name = k, !.child = new(ps[m].child), !.next = NoParam]
                 ELSE [name |-> ps[m].name, object |-> TRUE, rw |-> 0,
                       parent |-> new(above(m)),
                       child |-> new(ps[m].child), next |-> new(ps[m].next)]
  IN  [ps EXCEPT ![Last(Siblings(ps, source))].next = Len(ps) + 1]
        \o [i \in DOMAIN old |-> copy(old[i])]

cwmp_model_copy_parameter(path, k) ==
  LET n == cwmp_get_parameter_path_node(params, path)
  IN  /\ edits < MaxEdits /\ n # NoParam /\ params[n].child # NoParam
      /\ params[params[n].child].name = Template /\ Parts(path) \in present
      /\ Len(params) + Len(Below(params, params[n].child)) <= MaxParams
      /\ params' = Copied(params, n, k)
      /\ present' = LET from == Parts(path) \o Template
                        into == Parts(path) \o k
                    IN  present \cup {into \o SubSeq(p, Len(from) + 1, Len(p)) :
                                         p \in {q \in present : IsPrefix(from, q)}}
      /\ edits' = edits + 1
      /\ astray' = (astray \/ Parts(path) \o k \in present)
      /\ UNCHANGED paramDoc

\* A slip the properties notice: the siblings behind p go with it.
UnlinkedWithRest(ps, p) ==
  LET row == IF ps[p].parent = NoParam THEN <<>> ELSE ChildrenOf(ps, ps[p].parent)
  IN  [m \in DOMAIN ps |-> IF m \in ToSet(row) /\ ps[m].next = p
                           THEN [ps[m] EXCEPT !.next = NoParam] ELSE ps[m]]

\* The first loop of cwmp_model_delete_parameter: whoever comes before p
\* among the children of its parent field lets go of it.
Unlinked(ps, p) ==
  LET row == IF ps[p].parent = NoParam THEN <<>> ELSE ChildrenOf(ps, ps[p].parent)
  IN  [m \in DOMAIN ps |-> IF m \in ToSet(row) /\ ps[m].next = p
                           THEN [ps[m] EXCEPT !.next = ps[p].next] ELSE ps[m]]

\* cwmp_model_delete_parameter and cwmp_model_free_parameter: the node and
\* then each node below it.
Deleted(ps, p) ==
  LET gone == Below(ps, p)
      after[k \in 0..Len(gone)] == IF k = 0 THEN ps ELSE Unlinked(after[k - 1], gone[k])
  IN  after[Len(gone)]

cwmp_model_delete_parameter(path) ==
  LET p == cwmp_get_parameter_path_node(params, path)
  IN  /\ edits < MaxEdits /\ p # NoParam /\ params[p].name \in Numbers
      /\ Parts(path) \in present
      /\ params' = Deleted(params, p)
      /\ present' = {q \in present : ~IsPrefix(Parts(path), q)}
      /\ astray' = (astray \/ p \notin ToSet(Tail(ChildrenOf(params, params[p].parent))))
      /\ edits' = edits + 1
      /\ UNCHANGED paramDoc

TreeNext ==
  \E path \in SearchPaths :
     \/ \E k \in Numbers : cwmp_model_copy_parameter(path, k)
     \/ cwmp_model_delete_parameter(path)

TreeSpec == TreeInit /\ [][TreeNext]_treeVars

----------------------------------------------------------------------------
(* Properties.                                                             *)

ParamRecord == [name : Seq(STRING), object : BOOLEAN, rw : {0, 1},
                parent : 0..MaxParams, child : 0..MaxParams, next : 0..MaxParams]

TreeTypeOK ==
  /\ params \in Seq(ParamRecord) /\ Len(params) <= MaxParams
  /\ paramDoc \in ParamDocs /\ edits \in 0..MaxEdits /\ astray \in BOOLEAN
  /\ \A p \in present : p \in Seq(STRING)

\* The document is of the kind the search is written for: one part a name.
Nested == \A i \in 2..Len(paramDoc) : Len(paramDoc[i].name) = 1

\* Making and deleting instances leaves the paths it should, every one of
\* them is found by its path when no part of it is "{i}", and a path that was
\* deleted is not -- unless a node was deleted that its siblings never let go
\* of (the first child, or one whose parent field is its first sibling), or a
\* number was given twice.
TreeAsEdited ==
  Nested /\ ~astray =>
    /\ PathsBelow(params, RootParam) = present
    /\ \A p \in present : "{i}" \notin ToSet(p) =>
         LET n == cwmp_get_parameter_path_node(params, p)
         IN  n # NoParam /\ params[n].name = <<Last(p)>>
=============================================================================
