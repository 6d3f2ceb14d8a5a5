----------------------------- MODULE HashTable -----------------------------
(***************************************************************************)
(* The hash table of libcwmp/src/hashtab.c and paratab.c: chains of nodes  *)
(* in the order of strcmp. The program keeps the getters, the setters and  *)
(* the parameters in three of them, by name. Names are numbers here, in    *)
(* the order of strcmp.                                                    *)
(***************************************************************************)
EXTENDS Integers, Sequences, FiniteSets, SequencesExt

CONSTANTS
  HashKeys,    \* the names
  HashData,    \* what is kept under a name
  parahash,    \* the bucket of each name
  HashSize,    \* h->size, the number of buckets
  MaxNodes     \* HASHTAB_MAX_NODES

ASSUME HashAssumption ==
  /\ HashKeys \subseteq Nat /\ MaxNodes \in Nat /\ HashSize \in Nat
  /\ parahash \in [HashKeys -> 0..HashSize - 1]

VARIABLES
  htable,   \* the chain of each bucket
  nel,      \* h->nel
  firstSet  \* for each name inserted with success, what with

hashVars == <<htable, nel, firstSet>>

HashBuckets == 0..HashSize - 1

HashTypeOK ==
  /\ htable \in [HashBuckets -> Seq([key : HashKeys, datum : HashData])]
  /\ nel \in 0..MaxNodes
  /\ DOMAIN firstSet \subseteq HashKeys

\* hashtab_create through paratab_init.
HashInit ==
  htable = [b \in HashBuckets |-> <<>>] /\ nel = 0 /\ firstSet = <<>>

\* The place the walks of insert and search stop at: the first node whose
\* key is not before k, one behind the end if there is none.
WalkTo(chain, k) ==
  LET stop == {i \in DOMAIN chain : chain[i].key >= k}
  IN  IF stop = {} THEN Len(chain) + 1 ELSE CHOOSE i \in stop : \A j \in stop : i <= j

\* hashtab_insert: -3 when full, -2 when the key is there, else a new node
\* in front of the one the walk stopped at.
hashtab_insert(k, d) ==
  LET b == parahash[k]
      i == WalkTo(htable[b], k)
      there == i <= Len(htable[b]) /\ htable[b][i].key = k
  IN  IF nel = MaxNodes \/ there THEN UNCHANGED hashVars
      ELSE /\ htable' = [htable EXCEPT ![b] = InsertAt(@, i, [key |-> k, datum |-> d])]
           /\ nel' = nel + 1
           /\ firstSet' = [x \in DOMAIN firstSet \cup {k} |->
                             IF x = k THEN d ELSE firstSet[x]]

\* hashtab_search: the datum, as a set that is empty for NULL.
hashtab_search(k) ==
  LET c == htable[parahash[k]]
      i == WalkTo(c, k)
  IN  IF i <= Len(c) /\ c[i].key = k THEN {c[i].datum} ELSE {}

\* hashtab_map: every node, bucket by bucket, while apply answers 0.
hashtab_map ==
  LET All[i \in 0..HashSize] == IF i = 0 THEN <<>> ELSE All[i - 1] \o htable[i - 1]
  IN  All[HashSize]

\* hashtab_stat: the buckets in use, and the length of the longest chain.
hashtab_stat ==
  LET Longest[i \in 0..HashSize] ==
        IF i = 0 THEN 0
        ELSE IF Len(htable[i - 1]) > Longest[i - 1] THEN Len(htable[i - 1]) ELSE Longest[i - 1]
  IN  [slots_used |-> Cardinality({b \in HashBuckets : htable[b] # <<>>}),
       max_chain_len |-> Longest[HashSize]]

\* hashtab_destroy, and a new table.
hashtab_destroy ==
  /\ htable' = [b \in HashBuckets |-> <<>>] /\ nel' = 0 /\ firstSet' = <<>>

HashNext ==
  \/ \E k \in HashKeys, d \in HashData : hashtab_insert(k, d)
  \/ hashtab_destroy

HashSpec == HashInit /\ [][HashNext]_hashVars

\* A search finds what a name was first inserted with and nothing else:
\* not what was refused as a second value or because the table was full.
\* A walk over all nodes meets each name once.
FindsWhatWasPut ==
  /\ \A k \in HashKeys :
       hashtab_search(k) = IF k \in DOMAIN firstSet THEN {firstSet[k]} ELSE {}
  /\ nel = Cardinality(DOMAIN firstSet)
  /\ Len(hashtab_map) = nel
  /\ {hashtab_map[i].key : i \in DOMAIN hashtab_map} = DOMAIN firstSet
  /\ hashtab_stat.max_chain_len <= nel
=============================================================================
