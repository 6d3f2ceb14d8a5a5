-------------------------- MODULE ContainerProofs ---------------------------
(***************************************************************************)
(* What is asked of the allocators, buffers and containers is there, for   *)
(* every size of a block, a buffer or a ring and any set of keys: pieces   *)
(* of a pool lie apart and inside their blocks, a chunk holds what was     *)
(* written to it, a text fits the buffer it is in, a ring buffer gives     *)
(* back what was put into it, lists stay lists of the nodes put into them, *)
(* and a hash table and a configuration file answer as a map would. First  *)
(* come the facts about numbers and sequences that all parts share, last   *)
(* the attributes of an element, which are no doubly linked list: their    *)
(* walks end, an attribute leaves only in the ways the code has, and a map *)
(* shows the element's attributes.                                         *)
(***************************************************************************)
EXTENDS MemPool, ChunkBuffer, XmlBuffer, RingBuffer, LinkedList, HashTable, IniFile,
        XmlAttributes, SequenceTheorems, FiniteSetTheorems,
        FunctionTheorems, WellFoundedInduction, NaturalsInduction, TLAPS

----------------------------------------------------------------------------
(* Least elements, induction up to a number, and functions that are        *)
(* defined along the numbers.                                              *)

\* A set of naturals that is not empty has a least element.
LEMMA LeastNatural ==
  ASSUME NEW T, T \subseteq Nat, T # {}
  PROVE  \E n \in T : \A m \in T : n <= m
<1> DEFINE R == OpToRel(<, Nat)
<1>1. IsWellFoundedOn(R, Nat)
  BY NatLessThanWellFounded
<1>2. \A x, y \in Nat : <<x, y>> \in R <=> x < y
  BY DEF OpToRel
<1>3. PICK n \in T : \A y \in T : ~(<<y, n>> \in R)
  <2> HIDE DEF R
  <2> QED BY <1>1, WFMin
<1>4. \A y \in T : ~(y < n)
  <2> HIDE DEF R
  <2> QED BY <1>2, <1>3, Zenon
<1>5. \A y \in T : y \in Nat
  OBVIOUS
<1> QED BY <1>4, <1>5

\* A set of numbers up to N that is not empty has a greatest.
LEMMA GreatestUpTo ==
  ASSUME NEW N \in Nat, NEW T, T \subseteq 1..N, T # {}
  PROVE  \E i \in T : \A j \in T : j <= i
<1> DEFINE U == {k \in Nat : N - k \in T}
<1>1. U # {}
  <2>1. PICK i \in T : TRUE
    OBVIOUS
  <2>2. N - i \in Nat /\ N - (N - i) = i
    BY <2>1
  <2>3. N - i \in U
    BY <2>1, <2>2
  <2> QED BY <2>3
<1>2. PICK k \in U : \A m \in U : k <= m
  <2>1. U \subseteq Nat
    OBVIOUS
  <2> HIDE DEF U
  <2> QED BY <1>1, <2>1, LeastNatural
<1>3. N - k \in T /\ k \in Nat
  BY <1>2
<1>4. ASSUME NEW j \in T
      PROVE  j <= N - k
  <2>1. N - j \in Nat /\ N - (N - j) = j
    OBVIOUS
  <2>2. N - j \in U
    BY <2>1
  <2>3. k <= N - j
    BY <1>2, <2>2
  <2> QED BY <1>3, <2>3
<1> QED BY <1>3, <1>4

\* What holds at 0 and goes on from each number to the next holds up to N.
LEMMA UpTo ==
  ASSUME NEW N \in Nat, NEW Good, 0 \in Good, \A i \in 1..N : i - 1 \in Good => i \in Good
  PROVE  \A i \in 0..N : i \in Good
<1> DEFINE T == {i \in 0..N : i \notin Good}
<1>1. SUFFICES ASSUME T # {}
               PROVE  FALSE
  OBVIOUS
<1>2. PICK n \in T : \A m \in T : n <= m
  <2>1. T \subseteq Nat
    OBVIOUS
  <2> HIDE DEF T
  <2> QED BY <1>1, <2>1, LeastNatural
<1>3. n \in 1..N /\ n \notin Good
  BY <1>2
<1>4. n - 1 \notin T
  <2>1. n - 1 \in Nat /\ ~(n <= n - 1)
    BY <1>3
  <2> HIDE DEF T
  <2> QED BY <1>2, <2>1
<1>5. n - 1 \in 0..N
  BY <1>3
<1> QED BY <1>3, <1>4, <1>5

\* f starts with x and goes on from one number to the next by g.
Recursed(f, N, S, x, g) ==
  f \in [0..N -> S] /\ f[0] = x /\ \A i \in 1..N : f[i] = g[i][f[i - 1]]

LEMMA Recursion ==
  ASSUME NEW N \in Nat, NEW S, NEW x \in S, NEW g \in [1..N -> [S -> S]]
  PROVE  \E f : Recursed(f, N, S, x, g)
<1> DEFINE Good == {n \in 0..N : \E f : Recursed(f, n, S, x, g)}
<1>1. 0 \in Good
  <2> DEFINE f == [i \in 0..0 |-> x]
  <2>1. f \in [0..0 -> S] /\ f[0] = x
    OBVIOUS
  <2>2. \A i \in 1..0 : FALSE
    OBVIOUS
  <2>3. Recursed(f, 0, S, x, g)
    <3> HIDE DEF f
    <3> QED BY <2>1, <2>2 DEF Recursed
  <2> QED BY <2>3
<1>2. ASSUME NEW n \in 1..N, n - 1 \in Good
      PROVE  n \in Good
  <2>1. PICK f : Recursed(f, n - 1, S, x, g)
    BY <1>2
  <2>2. f \in [0..(n - 1) -> S] /\ f[0] = x /\ \A i \in 1..(n - 1) : f[i] = g[i][f[i - 1]]
    BY <2>1 DEF Recursed
  <2>3. PICK y \in S : y = g[n][f[n - 1]]
    <3>1. n - 1 \in 0..(n - 1) /\ g[n] \in [S -> S]
      OBVIOUS
    <3> QED BY <2>2, <3>1
  <2> DEFINE h == [i \in 0..n |-> IF i = n THEN y ELSE f[i]]
  <2>4. h[n] = y /\ \A i \in 0..(n - 1) : h[i] = f[i]
    <3>1. n \in 0..n /\ \A i \in 0..(n - 1) : i \in 0..n /\ i # n
      OBVIOUS
    <3> QED BY <3>1
  <2>5. h \in [0..n -> S]
    <3>1. \A i \in 0..n : i # n => i \in 0..(n - 1)
      OBVIOUS
    <3> QED BY <2>2, <3>1
  <2> HIDE DEF h
  <2>6. h[0] = x
    <3>1. 0 \in 0..(n - 1)
      OBVIOUS
    <3> QED BY <2>2, <2>4, <3>1
  <2>7. ASSUME NEW i \in 1..n
        PROVE  h[i] = g[i][h[i - 1]]
    <3>1. i - 1 \in 0..(n - 1)
      OBVIOUS
    <3>2. h[i - 1] = f[i - 1]
      BY <2>4, <3>1
    <3>3. CASE i = n
      BY <2>3, <2>4, <3>2, <3>3
    <3>4. CASE i # n
      <4>1. i \in 1..(n - 1) /\ i \in 0..(n - 1)
        BY <3>4
      <4> QED BY <2>2, <2>4, <3>2, <4>1
    <3> QED BY <3>3, <3>4
  <2>8. Recursed(h, n, S, x, g)
    BY <2>5, <2>6, <2>7 DEF Recursed
  <2>9. n \in 0..N
    OBVIOUS
  <2> QED BY <2>8, <2>9
<1>3. N \in Good
  <2>1. N \in 0..N
    OBVIOUS
  <2> HIDE DEF Good
  <2>2. \A i \in 0..N : i \in Good
    BY <1>1, <1>2, UpTo
  <2> QED BY <2>1, <2>2
<1> QED BY <1>3

\* The entries of two sequences put together.
LEMMA ConcatIs ==
  ASSUME NEW S, NEW a \in Seq(S), NEW b \in Seq(S)
  PROVE  /\ a \o b \in Seq(S) /\ Len(a \o b) = Len(a) + Len(b)
         /\ Len(a) \in Nat /\ Len(b) \in Nat
         /\ \A j \in 1..Len(a) : (a \o b)[j] = a[j]
         /\ \A k \in 1..Len(b) : (a \o b)[Len(a) + k] = b[k]
<1>1. Len(a) \in Nat /\ Len(b) \in Nat
  OBVIOUS
<1>2. ASSUME NEW k \in 1..Len(b)
      PROVE  (a \o b)[Len(a) + k] = b[k]
  <2>1. Len(a) + k \in 1..(Len(a) + Len(b)) /\ ~(Len(a) + k <= Len(a)) /\ (Len(a) + k) - Len(a) = k
    BY <1>1
  <2> QED BY <2>1, ConcatProperties
<1>3. ASSUME NEW j \in 1..Len(a)
      PROVE  (a \o b)[j] = a[j]
  <2>1. j \in 1..(Len(a) + Len(b)) /\ j <= Len(a)
    BY <1>1
  <2> QED BY <2>1, ConcatProperties
<1> QED BY <1>1, <1>2, <1>3, ConcatProperties

\* A piece out of a sequence, and the next piece behind it.
LEMMA SubSeqGoesOn ==
  ASSUME NEW S, NEW s \in Seq(S), NEW w \in 0..Len(s), NEW n \in 0..(Len(s) - w)
  PROVE  /\ SubSeq(s, 1, w) \in Seq(S) /\ Len(SubSeq(s, 1, w)) = w
         /\ SubSeq(s, w + 1, w + n) \in Seq(S) /\ Len(SubSeq(s, w + 1, w + n)) = n
         /\ SubSeq(s, 1, w + n) = SubSeq(s, 1, w) \o SubSeq(s, w + 1, w + n)
<1> PICK l \in Nat : l = Len(s)
  OBVIOUS
<1>1. w \in Nat /\ n \in Nat /\ w + n <= l /\ w + n \in Nat
  OBVIOUS
<1>2. SubSeq(s, 1, w) \in Seq(S) /\ Len(SubSeq(s, 1, w)) = w /\ \A i \in 1..w : SubSeq(s, 1, w)[i] = s[i]
  <2>1. \A i \in 1..w : s[i] \in S
    BY <1>1
  <2>2. /\ SubSeq(s, 1, w) \in Seq(S)
        /\ Len(SubSeq(s, 1, w)) = IF 1 <= w THEN w - 1 + 1 ELSE 0
        /\ \A i \in 1..(w - 1 + 1) : SubSeq(s, 1, w)[i] = s[1 + i - 1]
    BY <1>1, <2>1, SubSeqProperties
  <2> QED BY <1>1, <2>2
<1>3. /\ SubSeq(s, 1, w + n) \in Seq(S) /\ Len(SubSeq(s, 1, w + n)) = w + n
      /\ \A i \in 1..(w + n) : SubSeq(s, 1, w + n)[i] = s[i]
  <2>1. \A i \in 1..(w + n) : s[i] \in S
    BY <1>1
  <2>2. /\ SubSeq(s, 1, w + n) \in Seq(S)
        /\ Len(SubSeq(s, 1, w + n)) = IF 1 <= w + n THEN (w + n) - 1 + 1 ELSE 0
        /\ \A i \in 1..((w + n) - 1 + 1) : SubSeq(s, 1, w + n)[i] = s[1 + i - 1]
    BY <1>1, <2>1, SubSeqProperties
  <2> QED BY <1>1, <2>2
<1>4. /\ SubSeq(s, w + 1, w + n) \in Seq(S) /\ Len(SubSeq(s, w + 1, w + n)) = n
      /\ \A i \in 1..n : SubSeq(s, w + 1, w + n)[i] = s[w + i]
  <2>1. \A i \in (w + 1)..(w + n) : s[i] \in S
    BY <1>1
  <2>2. /\ SubSeq(s, w + 1, w + n) \in Seq(S)
        /\ Len(SubSeq(s, w + 1, w + n)) = IF w + 1 <= w + n THEN (w + n) - (w + 1) + 1 ELSE 0
        /\ \A i \in 1..((w + n) - (w + 1) + 1) : SubSeq(s, w + 1, w + n)[i] = s[(w + 1) + i - 1]
    BY <1>1, <2>1, SubSeqProperties
  <2>3. (w + n) - (w + 1) + 1 = n /\ \A i \in 1..n : (w + 1) + i - 1 = w + i
    BY <1>1
  <2> QED BY <1>1, <2>2, <2>3
<1> PICK a, b, c : a = SubSeq(s, 1, w) /\ b = SubSeq(s, w + 1, w + n) /\ c = SubSeq(s, 1, w + n)
  OBVIOUS
<1>5. a \o b \in Seq(S) /\ Len(a \o b) = w + n
  BY <1>2, <1>4, ConcatIs
<1>6. ASSUME NEW i \in 1..(w + n)
      PROVE  (a \o b)[i] = c[i]
  <2>1. CASE i \in 1..w
    BY <1>1, <1>2, <1>3, <1>4, <2>1, ConcatIs
  <2>2. CASE i \notin 1..w
    <3>1. PICK k \in 1..n : i = w + k
      <4>1. i - w \in 1..n /\ i = w + (i - w)
        BY <1>1, <2>2
      <4> QED BY <4>1
    <3>2. (a \o b)[w + k] = b[k]
      <4>1. a \in Seq(S) /\ b \in Seq(S) /\ Len(a) = w /\ Len(b) = n
        BY <1>2, <1>4
      <4>2. \A x \in 1..Len(b) : (a \o b)[Len(a) + x] = b[x]
        BY <4>1, ConcatIs
      <4> QED BY <4>1, <4>2
    <3>3. b[k] = s[w + k] /\ c[w + k] = s[w + k]
      BY <1>3, <1>4, <3>1
    <3> QED BY <3>1, <3>2, <3>3
  <2> QED BY <2>1, <2>2
<1>7. a \o b = c
  <2>1. c \in Seq(S) /\ Len(c) = w + n
    BY <1>3
  <2> QED BY <1>1, <1>5, <1>6, <2>1, SeqEqual
<1> QED BY <1>2, <1>4, <1>7

----------------------------------------------------------------------------
(* Sequences that lose an element, get one, or have one exchanged.         *)

LEMMA PartIs ==
  ASSUME NEW S, NEW s \in Seq(S), NEW m \in 1..(Len(s) + 1), NEW n \in (m - 1)..Len(s)
  PROVE  /\ SubSeq(s, m, n) \in Seq(S) /\ Len(SubSeq(s, m, n)) = n - m + 1
         /\ \A i \in 1..(n - m + 1) : SubSeq(s, m, n)[i] = s[m + i - 1]
<1>1. PICK l \in Nat : l = Len(s)
  OBVIOUS
<1>2. m \in Int /\ n \in Int /\ m >= 1 /\ n <= l /\ m - 1 <= n
  BY <1>1
<1>3. \A i \in m..n : s[i] \in S
  BY <1>1, <1>2
<1>4. /\ SubSeq(s, m, n) \in Seq(S)
      /\ Len(SubSeq(s, m, n)) = IF m <= n THEN n - m + 1 ELSE 0
      /\ \A i \in 1..(n - m + 1) : SubSeq(s, m, n)[i] = s[m + i - 1]
  BY <1>2, <1>3, SubSeqProperties
<1>5. ~(m <= n) => n - m + 1 = 0
  BY <1>2
<1> QED BY <1>4, <1>5

\* What is left of a sequence, and what has been put into it.
Removed(t, s, i) ==
  /\ Len(t) = Len(s) - 1
  /\ \A j \in 1..(i - 1) : t[j] = s[j]
  /\ \A j \in i..(Len(s) - 1) : t[j] = s[j + 1]

Inserted(t, s, i, e) ==
  /\ Len(t) = Len(s) + 1 /\ t[i] = e
  /\ \A j \in 1..(i - 1) : t[j] = s[j]
  /\ \A j \in i..Len(s) : t[j + 1] = s[j]

LEMMA RemoveAtIs ==
  ASSUME NEW S, NEW s \in Seq(S), NEW i \in 1..Len(s)
  PROVE  RemoveAt(s, i) \in Seq(S) /\ Removed(RemoveAt(s, i), s, i)
<1>1. PICK n \in Nat : n = Len(s)
  OBVIOUS
<1>2. PICK a : a = SubSeq(s, 1, i - 1)
  OBVIOUS
<1>3. PICK b : b = SubSeq(s, i + 1, n)
  OBVIOUS
<1>4. i \in 1..n /\ i - 1 \in Nat /\ n - i \in Nat
  BY <1>1
<1>5. a \in Seq(S) /\ Len(a) = i - 1 /\ \A j \in 1..(i - 1) : a[j] = s[j]
  <2>1. 1 \in 1..(Len(s) + 1) /\ i - 1 \in (1 - 1)..Len(s)
    BY <1>1, <1>4
  <2>2. /\ a \in Seq(S) /\ Len(a) = (i - 1) - 1 + 1
        /\ \A j \in 1..((i - 1) - 1 + 1) : a[j] = s[1 + j - 1]
    BY <1>2, <2>1, PartIs
  <2>3. (i - 1) - 1 + 1 = i - 1 /\ \A j \in 1..(i - 1) : 1 + j - 1 = j
    BY <1>4
  <2> QED BY <2>2, <2>3
<1>6. b \in Seq(S) /\ Len(b) = n - i /\ \A j \in 1..(n - i) : b[j] = s[i + j]
  <2>1. i + 1 \in 1..(Len(s) + 1) /\ n \in ((i + 1) - 1)..Len(s)
    BY <1>1, <1>4
  <2>2. /\ b \in Seq(S) /\ Len(b) = n - (i + 1) + 1
        /\ \A j \in 1..(n - (i + 1) + 1) : b[j] = s[(i + 1) + j - 1]
    BY <1>3, <2>1, PartIs
  <2>3. n - (i + 1) + 1 = n - i /\ \A j \in 1..(n - i) : (i + 1) + j - 1 = i + j
    BY <1>4
  <2> QED BY <2>2, <2>3
<1>7. PICK t : t = RemoveAt(s, i)
  OBVIOUS
<1>8. t = a \o b
  BY <1>1, <1>2, <1>3, <1>7 DEF RemoveAt
<1>9. /\ t \in Seq(S) /\ Len(t) = (i - 1) + (n - i)
      /\ \A j \in 1..(i - 1) : t[j] = a[j]
      /\ \A k \in 1..(n - i) : t[(i - 1) + k] = b[k]
  <2>1. /\ a \o b \in Seq(S) /\ Len(a \o b) = Len(a) + Len(b)
        /\ \A j \in 1..Len(a) : (a \o b)[j] = a[j]
        /\ \A k \in 1..Len(b) : (a \o b)[Len(a) + k] = b[k]
    <3>1. a \in Seq(S) /\ b \in Seq(S)
      BY <1>5, <1>6
    <3> QED BY <3>1, ConcatIs
  <2> QED BY <1>5, <1>6, <1>8, <2>1
<1>10. (i - 1) + (n - i) = n - 1
  BY <1>4
<1>11. ASSUME NEW j \in i..(n - 1)
       PROVE  t[j] = s[j + 1]
  <2>1. PICK k \in 1..(n - i) : k = j - (i - 1)
    BY <1>4
  <2>2. j = (i - 1) + k /\ i + k = j + 1
    BY <1>4, <2>1
  <2>3. t[(i - 1) + k] = b[k] /\ b[k] = s[i + k]
    BY <1>6, <1>9
  <2> QED BY <2>2, <2>3
<1>12. Removed(t, s, i)
  BY <1>1, <1>5, <1>9, <1>10, <1>11 DEF Removed
<1> QED BY <1>7, <1>9, <1>12

LEMMA InsertAtIs ==
  ASSUME NEW S, NEW s \in Seq(S), NEW i \in 1..(Len(s) + 1), NEW e \in S
  PROVE  InsertAt(s, i, e) \in Seq(S) /\ Inserted(InsertAt(s, i, e), s, i, e)
<1>1. PICK n \in Nat : n = Len(s)
  OBVIOUS
<1>2. PICK a : a = SubSeq(s, 1, i - 1)
  OBVIOUS
<1>3. PICK b : b = SubSeq(s, i, n)
  OBVIOUS
<1>4. i \in 1..(n + 1) /\ i - 1 \in Nat /\ n - i + 1 \in Nat
  BY <1>1
<1>5. a \in Seq(S) /\ Len(a) = i - 1 /\ \A j \in 1..(i - 1) : a[j] = s[j]
  <2>1. 1 \in 1..(Len(s) + 1) /\ i - 1 \in (1 - 1)..Len(s)
    BY <1>1, <1>4
  <2>2. /\ a \in Seq(S) /\ Len(a) = (i - 1) - 1 + 1
        /\ \A j \in 1..((i - 1) - 1 + 1) : a[j] = s[1 + j - 1]
    BY <1>2, <2>1, PartIs
  <2>3. (i - 1) - 1 + 1 = i - 1 /\ \A j \in 1..(i - 1) : 1 + j - 1 = j
    BY <1>4
  <2> QED BY <2>2, <2>3
<1>6. b \in Seq(S) /\ Len(b) = n - i + 1 /\ \A j \in 1..(n - i + 1) : b[j] = s[i + j - 1]
  <2>1. i \in 1..(Len(s) + 1) /\ n \in (i - 1)..Len(s)
    BY <1>1, <1>4
  <2> QED BY <1>3, <2>1, PartIs
<1>7. PICK t : t = InsertAt(s, i, e)
  OBVIOUS
<1>8. PICK c : c = a \o <<e>>
  OBVIOUS
<1>9. t = c \o b
  BY <1>1, <1>2, <1>3, <1>7, <1>8 DEF InsertAt
<1>10. /\ c \in Seq(S) /\ Len(c) = i /\ c[i] = e /\ \A j \in 1..(i - 1) : c[j] = a[j]
  <2>1. c = Append(a, e)
    BY <1>5, <1>8
  <2>2. (i - 1) + 1 = i
    BY <1>4
  <2> QED BY <1>5, <2>1, <2>2, AppendProperties
<1>11. /\ t \in Seq(S) /\ Len(t) = i + (n - i + 1)
       /\ \A j \in 1..i : t[j] = c[j]
       /\ \A k \in 1..(n - i + 1) : t[i + k] = b[k]
  <2>1. /\ c \o b \in Seq(S) /\ Len(c \o b) = Len(c) + Len(b)
        /\ \A j \in 1..Len(c) : (c \o b)[j] = c[j]
        /\ \A k \in 1..Len(b) : (c \o b)[Len(c) + k] = b[k]
    <3>1. c \in Seq(S) /\ b \in Seq(S)
      BY <1>6, <1>10
    <3> QED BY <3>1, ConcatIs
  <2> QED BY <1>6, <1>9, <1>10, <2>1
<1>12. i + (n - i + 1) = n + 1 /\ i \in 1..i /\ \A j \in 1..(i - 1) : j \in 1..i
  BY <1>4
<1>13. ASSUME NEW j \in i..n
       PROVE  t[j + 1] = s[j]
  <2>1. PICK k \in 1..(n - i + 1) : k = j - i + 1
    BY <1>4
  <2>2. j + 1 = i + k /\ i + k - 1 = j
    BY <1>4, <2>1
  <2>3. t[i + k] = b[k] /\ b[k] = s[i + k - 1]
    BY <1>6, <1>11
  <2> QED BY <2>2, <2>3
<1>14. \A j \in 1..(i - 1) : t[j] = s[j]
  BY <1>5, <1>10, <1>11, <1>12
<1>15. t[i] = e
  BY <1>10, <1>11, <1>12
<1>16. Inserted(t, s, i, e)
  BY <1>1, <1>11, <1>12, <1>13, <1>14, <1>15 DEF Inserted
<1> QED BY <1>7, <1>11, <1>16

\* r is q with a in front.
Consed(r, a, q) ==
  Len(r) = Len(q) + 1 /\ r[1] = a /\ \A k \in 1..Len(q) : r[k + 1] = q[k]

LEMMA ConsIs ==
  ASSUME NEW S, NEW a \in S, NEW q \in Seq(S)
  PROVE  <<a>> \o q \in Seq(S) /\ Consed(<<a>> \o q, a, q)
<1>1. <<a>> \in Seq(S) /\ Len(<<a>>) = 1 /\ <<a>>[1] = a /\ 1 \in 1..1
  OBVIOUS
<1>2. PICK p \in Seq(S) : p = <<a>>
  BY <1>1
<1>3. /\ p \o q \in Seq(S) /\ Len(p \o q) = Len(p) + Len(q) /\ Len(q) \in Nat
      /\ \A j \in 1..Len(p) : (p \o q)[j] = p[j]
      /\ \A k \in 1..Len(q) : (p \o q)[Len(p) + k] = q[k]
  BY ConcatIs
<1>4. \A k \in 1..Len(q) : 1 + k = k + 1
  OBVIOUS
<1>5. p \o q \in Seq(S) /\ Consed(p \o q, a, q)
  BY <1>1, <1>2, <1>3, <1>4 DEF Consed
<1> QED BY <1>2, <1>5

LEMMA SeqWider ==
  ASSUME NEW S, NEW T, S \subseteq T, NEW q \in Seq(S)
  PROVE  q \in Seq(T)
OBVIOUS

\* A sequence from its k-th element on begins with that element.
LEMMA SuffixIs ==
  ASSUME NEW S, NEW q \in Seq(S), NEW k \in 1..Len(q)
  PROVE  SubSeq(q, k, Len(q)) = <<q[k]>> \o SubSeq(q, k + 1, Len(q))
<1>1. PICK l \in Nat : l = Len(q)
  OBVIOUS
<1>2. k \in 1..l /\ k + 1 \in 1..(l + 1) /\ l \in (k - 1)..l /\ l \in ((k + 1) - 1)..l /\ k \in 1..(l + 1)
  BY <1>1
<1>3. PICK a : a = SubSeq(q, k, l)
  OBVIOUS
<1>4. PICK b : b = SubSeq(q, k + 1, l)
  OBVIOUS
<1>5. a \in Seq(S) /\ Len(a) = l - k + 1 /\ \A i \in 1..(l - k + 1) : a[i] = q[k + i - 1]
  BY <1>1, <1>2, <1>3, PartIs
<1>6. b \in Seq(S) /\ Len(b) = l - (k + 1) + 1 /\ \A i \in 1..(l - (k + 1) + 1) : b[i] = q[(k + 1) + i - 1]
  BY <1>1, <1>2, <1>4, PartIs
<1>7. PICK x \in S : x = q[k]
  OBVIOUS
<1>8. PICK c : c = <<x>> \o b
  OBVIOUS
<1>9. c \in Seq(S) /\ Consed(c, x, b)
  BY <1>6, <1>8, ConsIs, Zenon
<1>10. Len(c) = l - k + 1 /\ c[1] = x /\ \A i \in 1..(l - k) : c[i + 1] = b[i]
  <2>1. l - (k + 1) + 1 = l - k /\ Len(b) = l - k
    BY <1>2, <1>6
  <2> QED BY <2>1, <1>9 DEF Consed
<1>11. \A i \in 1..(l - k + 1) : c[i] = a[i]
  <2> TAKE i \in 1..(l - k + 1)
  <2>1. CASE i = 1
    <3>1. a[1] = q[k + 1 - 1] /\ k + 1 - 1 = k
      BY <2>1, <1>2, <1>5
    <3> QED BY <2>1, <3>1, <1>7, <1>10
  <2>2. CASE i # 1
    <3>1. PICK j : j = i - 1
      OBVIOUS
    <3>2. j \in 1..(l - k) /\ j + 1 = i /\ (k + 1) + j - 1 = k + i - 1 /\ l - (k + 1) + 1 = l - k
      BY <2>2, <3>1, <1>2
    <3>3. c[i] = b[j] /\ b[j] = q[(k + 1) + j - 1]
      BY <3>2, <1>6, <1>10
    <3> QED BY <3>2, <3>3, <1>5
  <2> QED BY <2>1, <2>2
<1>12. c = a
  BY <1>5, <1>9, <1>10, <1>11
<1> QED BY <1>1, <1>3, <1>4, <1>7, <1>8, <1>12

----------------------------------------------------------------------------
(* The ring buffer.                                                        *)

RingInv == RingTypeOK /\ RingKeepsBytes

LEMMA WrappedIs ==
  ASSUME NEW k \in 0..(2 * RingSize - 1)
  PROVE  Wrapped(k) = (IF k < RingSize THEN k ELSE k - RingSize) /\ Wrapped(k) \in Offsets
<1>1. RingSize \in Nat \ {0}
  BY RingAssumption
<1>2. k % RingSize = (IF k < RingSize THEN k ELSE k - RingSize)
  <2>1. CASE k < RingSize
    BY <1>1, <2>1
  <2>2. CASE ~(k < RingSize)
    <3>1. k = RingSize * 1 + (k - RingSize) /\ k - RingSize \in 0..(RingSize - 1)
      BY <1>1, <2>2
    <3> QED BY <1>1, <2>2, <3>1
  <2> QED BY <2>1, <2>2
<1> QED BY <1>1, <1>2 DEF Wrapped, Offsets

\* x is where y is, once around the ring at most.
Around(y, x) == x = IF y < RingSize THEN y ELSE y - RingSize

LEMMA WrappedAround ==
  ASSUME NEW k \in 0..(2 * RingSize - 1)
  PROVE  Around(k, Wrapped(k)) /\ Wrapped(k) \in Offsets
BY WrappedIs DEF Around

\* What there is and what there is room for make up the ring.
LEMMA RoomIs ==
  ASSUME in \in Offsets, out \in Offsets
  PROVE  /\ __ring_buffer_len \in Offsets /\ Room = RingSize - __ring_buffer_len
         /\ Around(out + __ring_buffer_len, in)
BY RingAssumption DEF Offsets, __ring_buffer_len, Room, Around

\* The place of a byte that was there, and of one that is put.
LEMMA OldPlace ==
  ASSUME NEW o \in Offsets, NEW i \in Offsets, NEW len \in Offsets, Around(o + len, i),
         NEW n \in 1..RingSize, len + n <= RingSize, NEW k \in 1..len,
         NEW q \in Offsets, Around(o + k - 1, q), NEW a \in Offsets, Around(q - i + RingSize, a)
  PROVE  ~(a < n)
BY RingAssumption DEF Offsets, Around

LEMMA NewPlace ==
  ASSUME NEW o \in Offsets, NEW i \in Offsets, NEW len \in Offsets, Around(o + len, i),
         NEW n \in 1..RingSize, len + n < RingSize, NEW j \in 1..n,
         NEW q \in Offsets, Around(o + (len + j) - 1, q), NEW a \in Offsets, Around(q - i + RingSize, a)
  PROVE  a = j - 1 /\ a < n
BY RingAssumption DEF Offsets, Around

\* The lengths after n bytes more, or n less.
LEMMA LenMore ==
  ASSUME NEW o \in Offsets, NEW i \in Offsets, NEW len \in Offsets, Around(o + len, i),
         NEW n \in 1..RingSize, len + n <= RingSize, NEW x \in Offsets, Around(i + n, x)
  PROVE  (IF x >= o THEN x - o ELSE RingSize + x - o) = IF len + n = RingSize THEN 0 ELSE len + n
BY RingAssumption DEF Offsets, Around

LEMMA LenLess ==
  ASSUME NEW o \in Offsets, NEW i \in Offsets, NEW len \in Offsets, Around(o + len, i),
         NEW n \in 1..len, NEW x \in Offsets, Around(o + n, x)
  PROVE  /\ (IF i >= x THEN i - x ELSE RingSize + i - x) = len - n
         /\ i = x <=> len = n
BY RingAssumption DEF Offsets, Around

LEMMA SamePlace ==
  ASSUME NEW o \in Offsets, NEW len \in Offsets, NEW n \in 1..len, NEW x \in Offsets, Around(o + n, x),
         NEW k \in 1..(len - n), NEW p \in Offsets, Around(x + k - 1, p),
         NEW q \in Offsets, Around(o + (n + k) - 1, q)
  PROVE  p = q
BY RingAssumption DEF Offsets, Around

LEMMA Turned ==
  ASSUME NEW x \in Nat
  PROVE  x % 3 \in RingByte
BY DEF RingByte

LEMMA RingStarts == RingInit => RingInv
<1> SUFFICES ASSUME RingInit
             PROVE  RingInv
  OBVIOUS
<1>1. ring = [k \in Offsets |-> 0] /\ in = 0 /\ out = 0 /\ pending = <<>> /\ turn = 0
  BY DEF RingInit
<1>2. 0 \in Offsets /\ 0 \in RingByte
  BY RingAssumption DEF Offsets, RingByte
<1>3. ring \in [Offsets -> RingByte] /\ pending \in Seq(RingByte) /\ Len(pending) = 0
  BY <1>1, <1>2
<1>4. __ring_buffer_len = 0
  BY <1>1 DEF __ring_buffer_len
<1>5. DOMAIN pending = {}
  BY <1>1
<1> QED BY <1>1, <1>2, <1>3, <1>4, <1>5 DEF RingInv, RingTypeOK, RingKeepsBytes

LEMMA PutKeeps ==
  ASSUME RingInv, NEW n \in 1..RingSize, ring_buffer_put(n)
  PROVE  RingInv'
<1> DEFINE at(k) == Wrapped(k - in + RingSize)
<1>1. /\ ring \in [Offsets -> RingByte] /\ in \in Offsets /\ out \in Offsets
      /\ pending \in Seq(RingByte) /\ turn \in RingByte
      /\ __ring_buffer_len = Len(pending)
      /\ \A k \in DOMAIN pending : ring[Wrapped(out + k - 1)] = pending[k]
  BY DEF RingInv, RingTypeOK, RingKeepsBytes
<1>2. PICK len \in Offsets : len = Len(pending) /\ Room = RingSize - len /\ Around(out + len, in)
  BY <1>1, RoomIs
<1>3. RingSize \in Nat \ {0} /\ len + n <= RingSize
  <2>1. RingSize \in Nat \ {0} /\ Room >= n
    BY RingAssumption DEF ring_buffer_put
  <2> QED BY <1>2, <2>1 DEF Offsets
<1>4. /\ ring' = [k \in Offsets |-> IF at(k) < n THEN (turn + at(k)) % 3 ELSE ring[k]]
      /\ in' = Wrapped(in + n) /\ turn' = (turn + n) % 3 /\ out' = out
      /\ pending' = IF Len(pending) + n = RingSize THEN <<>>
                    ELSE pending \o [k \in 1..n |-> (turn + k - 1) % 3]
  BY DEF ring_buffer_put
<1>5. \A k \in Offsets : at(k) \in Offsets /\ Around(k - in + RingSize, at(k))
  <2> SUFFICES ASSUME NEW k \in Offsets
               PROVE  at(k) \in Offsets /\ Around(k - in + RingSize, at(k))
    OBVIOUS
  <2>1. k - in + RingSize \in 0..(2 * RingSize - 1)
    BY <1>1, <1>3 DEF Offsets
  <2> QED BY <2>1, WrappedAround
<1>6. in' \in Offsets /\ Around(in + n, in')
  <2>1. in + n \in 0..(2 * RingSize - 1)
    BY <1>1, <1>3 DEF Offsets
  <2> QED BY <1>4, <2>1, WrappedAround
<1> HIDE DEF at
<1>7. turn' \in RingByte /\ turn \in Nat
  <2>1. turn \in Nat
    BY <1>1 DEF RingByte
  <2>2. turn + n \in Nat
    BY <2>1
  <2> QED BY <1>4, <2>1, <2>2, Turned
<1>8. ring' \in [Offsets -> RingByte]
  <2>1. ASSUME NEW k \in Offsets
        PROVE  (IF at(k) < n THEN (turn + at(k)) % 3 ELSE ring[k]) \in RingByte
    <3>1. turn + at(k) \in Nat
      BY <1>5, <1>7 DEF Offsets
    <3>2. (turn + at(k)) % 3 \in RingByte /\ ring[k] \in RingByte
      BY <1>1, <3>1, Turned
    <3> QED BY <3>2
  <2> QED BY <1>4, <2>1
<1>9. __ring_buffer_len' = IF len + n = RingSize THEN 0 ELSE len + n
  <2>1. PICK i1 \in Offsets, i2 \in Offsets : i1 = in /\ i2 = in'
    BY <1>1, <1>6
  <2>2. PICK o \in Offsets : o = out
    BY <1>1
  <2>3. (IF i2 >= o THEN i2 - o ELSE RingSize + i2 - o) = IF len + n = RingSize THEN 0 ELSE len + n
    BY <1>2, <1>3, <1>6, <2>1, <2>2, LenMore
  <2>4. __ring_buffer_len' = IF in' >= out' THEN in' - out' ELSE RingSize + in' - out'
    BY DEF __ring_buffer_len
  <2> QED BY <1>4, <2>1, <2>2, <2>3, <2>4
<1>10. CASE len + n = RingSize
  <2>1. pending' = <<>> /\ DOMAIN pending' = {} /\ Len(pending') = 0 /\ pending' \in Seq(RingByte)
    BY <1>2, <1>4, <1>10
  <2> QED BY <1>1, <1>4, <1>6, <1>7, <1>8, <1>9, <1>10, <2>1 DEF RingInv, RingTypeOK, RingKeepsBytes
<1>11. CASE len + n # RingSize
  <2>1. PICK new : new = [k \in 1..n |-> (turn + k - 1) % 3]
    OBVIOUS
  <2>2. new \in Seq(RingByte) /\ Len(new) = n /\ \A j \in 1..n : new[j] = (turn + j - 1) % 3
    <3>1. ASSUME NEW j \in 1..n
          PROVE  (turn + j - 1) % 3 \in RingByte
      <4>1. turn + j - 1 \in Nat
        BY <1>7
      <4> QED BY <4>1, Turned
    <3> QED BY <2>1, <3>1
  <2>3. PICK all : all = pending \o new
    OBVIOUS
  <2>4. /\ all \in Seq(RingByte) /\ Len(all) = len + n
        /\ \A k \in 1..len : all[k] = pending[k]
        /\ \A j \in 1..n : all[len + j] = new[j]
    <3>1. /\ pending \o new \in Seq(RingByte) /\ Len(pending \o new) = Len(pending) + Len(new)
          /\ \A k \in 1..Len(pending) : (pending \o new)[k] = pending[k]
          /\ \A j \in 1..Len(new) : (pending \o new)[Len(pending) + j] = new[j]
      <4>1. pending \in Seq(RingByte) /\ new \in Seq(RingByte)
        BY <1>1, <2>2
      <4> QED BY <4>1, ConcatIs
    <3>2. Len(pending) = len /\ Len(new) = n
      BY <1>2, <2>2
    <3> QED BY <2>3, <3>1, <3>2
  <2>5. pending' = all
    BY <1>2, <1>4, <1>11, <2>1, <2>3
  <2>6. ASSUME NEW k \in 1..(len + n)
        PROVE  ring'[Wrapped(out + k - 1)] = all[k]
    <3>1. out + k - 1 \in 0..(2 * RingSize - 1)
      BY <1>1, <1>3 DEF Offsets
    <3>2. PICK q \in Offsets : q = Wrapped(out + k - 1) /\ Around(out + k - 1, q)
      BY <3>1, WrappedAround
    <3>3. ring'[q] = IF at(q) < n THEN (turn + at(q)) % 3 ELSE ring[q]
      BY <1>4
    <3>4. PICK a \in Offsets : a = at(q) /\ Around(q - in + RingSize, a)
      BY <1>5
    <3>5. CASE k \in 1..len
      <4>1. ~(a < n)
        BY <1>1, <1>2, <1>3, <3>2, <3>4, <3>5, OldPlace
      <4>2. ring[q] = pending[k]
        <5>1. k \in DOMAIN pending
          BY <1>1, <1>2, <3>5
        <5> QED BY <1>1, <3>2, <5>1
      <4> QED BY <2>4, <3>2, <3>3, <3>4, <3>5, <4>1, <4>2
    <3>6. CASE k \notin 1..len
      <4>1. PICK j \in 1..n : k = len + j
        <5>1. k - len \in 1..n /\ k = len + (k - len)
          BY <1>2, <3>6 DEF Offsets
        <5> QED BY <5>1
      <4>2. len + n < RingSize
        BY <1>2, <1>3, <1>11 DEF Offsets
      <4>3. a = j - 1 /\ a < n
        <5>1. PICK i \in Offsets, o \in Offsets : i = in /\ o = out
          BY <1>1
        <5>2. Around(o + len, i) /\ Around(o + (len + j) - 1, q) /\ Around(q - i + RingSize, a)
          BY <1>2, <3>2, <3>4, <4>1, <5>1
        <5> QED BY <4>2, <5>2, NewPlace
      <4>4. ring'[q] = (turn + a) % 3
        BY <3>3, <3>4, <4>3
      <4>5. turn + a = turn + j - 1
        BY <1>7, <4>3
      <4> QED BY <2>2, <2>4, <3>2, <4>1, <4>4, <4>5
    <3> QED BY <3>5, <3>6
  <2>7. DOMAIN pending' = 1..(len + n) /\ Len(pending') = len + n
    BY <2>4, <2>5
  <2>8. \A k \in DOMAIN pending' : ring'[Wrapped(out' + k - 1)] = pending'[k]
    BY <1>4, <2>5, <2>6, <2>7
  <2>9. pending' \in Seq(RingByte) /\ out' \in Offsets /\ __ring_buffer_len' = Len(pending')
    BY <1>1, <1>4, <1>9, <1>11, <2>4, <2>5
  <2>10. (\A k \in DOMAIN pending : ring[Wrapped(out + k - 1)] = pending[k])'
    BY <2>8 DEF Wrapped
  <2> QED BY <1>6, <1>7, <1>8, <2>9, <2>10 DEF RingInv, RingTypeOK, RingKeepsBytes
<1> QED BY <1>10, <1>11

LEMMA GetKeeps ==
  ASSUME RingInv, NEW n \in 1..RingSize, ring_buffer_get(n)
  PROVE  RingInv'
<1>1. /\ ring \in [Offsets -> RingByte] /\ in \in Offsets /\ out \in Offsets
      /\ pending \in Seq(RingByte) /\ turn \in RingByte
      /\ __ring_buffer_len = Len(pending)
      /\ \A k \in DOMAIN pending : ring[Wrapped(out + k - 1)] = pending[k]
  BY DEF RingInv, RingTypeOK, RingKeepsBytes
<1>2. PICK len \in Offsets : len = Len(pending) /\ len = __ring_buffer_len /\ Around(out + len, in)
  BY <1>1, RoomIs
<1>3. RingSize \in Nat \ {0} /\ 0 \in Offsets
  BY RingAssumption DEF Offsets
<1>4. ring' = ring /\ turn' = turn
  BY DEF ring_buffer_get
<1>5. CASE ~(len >= n)
  <2>1. pending' = pending /\ out' = (IF in = out THEN 0 ELSE out) /\ in' = (IF in = out THEN 0 ELSE in)
    BY <1>2, <1>5 DEF ring_buffer_get
  <2>2. CASE in # out
    <3>1. UNCHANGED ringVars
      BY <1>4, <2>1, <2>2 DEF ringVars
    <3> QED BY <3>1 DEF ringVars, RingInv, RingTypeOK, RingKeepsBytes, __ring_buffer_len, Wrapped
  <2>3. CASE in = out
    <3>1. len = 0
      <4>1. __ring_buffer_len = in - out
        BY <1>1, <2>3 DEF __ring_buffer_len, Offsets
      <4> QED BY <1>1, <1>2, <2>3, <4>1 DEF Offsets
    <3>2. out' = 0 /\ in' = 0
      BY <2>1, <2>3
    <3>3. __ring_buffer_len' = 0
      BY <3>2 DEF __ring_buffer_len
    <3>4. pending' = <<>>
      <4>1. pending \in Seq(RingByte) /\ Len(pending) = 0
        BY <1>1, <1>2, <3>1
      <4> QED BY <2>1, <4>1
    <3>5. DOMAIN pending' = {} /\ Len(pending') = 0
      BY <3>4
    <3> QED BY <1>1, <1>3, <1>4, <2>1, <3>2, <3>3, <3>5 DEF RingInv, RingTypeOK, RingKeepsBytes
  <2> QED BY <2>2, <2>3
<1>6. CASE len >= n
  <2>1. PICK o : o = Wrapped(out + n)
    OBVIOUS
  <2>2. /\ out' = (IF in = o THEN 0 ELSE o) /\ in' = (IF in = o THEN 0 ELSE in)
        /\ pending' = SubSeq(pending, n + 1, Len(pending))
    BY <1>2, <1>6, <2>1 DEF ring_buffer_get
  <2>3. n \in 1..len
    BY <1>6 DEF Offsets
  <2>4. o \in Offsets /\ Around(out + n, o)
    <3>1. out + n \in 0..(2 * RingSize - 1)
      BY <1>1, <1>3 DEF Offsets
    <3> QED BY <2>1, <3>1, WrappedAround
  <2>5. (IF in >= o THEN in - o ELSE RingSize + in - o) = len - n /\ (in = o <=> len = n)
    BY <1>1, <1>2, <2>3, <2>4, LenLess
  <2>6. /\ SubSeq(pending, n + 1, len) \in Seq(RingByte) /\ Len(SubSeq(pending, n + 1, len)) = len - n
        /\ \A k \in 1..(len - n) : SubSeq(pending, n + 1, len)[k] = pending[n + k]
    <3>1. len \in Nat /\ n \in Nat /\ n <= len
      BY <2>3 DEF Offsets
    <3>2. \A k \in (n + 1)..len : pending[k] \in RingByte
      BY <1>1, <1>2, <3>1
    <3>3. /\ SubSeq(pending, n + 1, len) \in Seq(RingByte)
          /\ Len(SubSeq(pending, n + 1, len)) = IF n + 1 <= len THEN len - (n + 1) + 1 ELSE 0
          /\ \A k \in 1..(len - (n + 1) + 1) : SubSeq(pending, n + 1, len)[k] = pending[(n + 1) + k - 1]
      BY <3>1, <3>2, SubSeqProperties
    <3>4. len - (n + 1) + 1 = len - n /\ (n + 1 <= len \/ len - n = 0)
      BY <3>1
    <3>5. \A k \in 1..(len - n) : (n + 1) + k - 1 = n + k
      BY <3>1
    <3> QED BY <3>3, <3>4, <3>5
  <2>7. pending' = SubSeq(pending, n + 1, len)
    BY <1>2, <2>2
  <2>8. pending' \in Seq(RingByte) /\ Len(pending') = len - n /\ DOMAIN pending' = 1..(len - n)
        /\ \A k \in 1..(len - n) : pending'[k] = pending[n + k]
    <3>1. PICK p : p = SubSeq(pending, n + 1, len)
      OBVIOUS
    <3>2. /\ p \in Seq(RingByte) /\ Len(p) = len - n
          /\ \A k \in 1..(len - n) : p[k] = pending[n + k]
      BY <2>6, <3>1, Zenon
    <3>3. DOMAIN p = 1..(len - n)
      BY <3>2
    <3> QED BY <2>7, <3>1, <3>2, <3>3, Zenon
  <2>9. CASE in = o
    <3>1. out' = 0 /\ in' = 0 /\ len - n = 0
      BY <2>2, <2>3, <2>5, <2>9 DEF Offsets
    <3>2. __ring_buffer_len' = 0
      BY <3>1 DEF __ring_buffer_len
    <3>3. DOMAIN pending' = {}
      BY <2>8, <3>1
    <3> QED BY <1>1, <1>3, <1>4, <2>8, <3>1, <3>2, <3>3 DEF RingInv, RingTypeOK, RingKeepsBytes
  <2>10. CASE in # o
    <3>1. out' = o /\ in' = in
      BY <2>2, <2>10
    <3>2. __ring_buffer_len' = len - n
      BY <2>5, <3>1 DEF __ring_buffer_len
    <3>3. ASSUME NEW k \in 1..(len - n)
          PROVE  ring[Wrapped(o + k - 1)] = pending[n + k]
      <4>1. o + k - 1 \in 0..(2 * RingSize - 1) /\ out + (n + k) - 1 \in 0..(2 * RingSize - 1)
        BY <1>1, <1>3, <2>3, <2>4 DEF Offsets
      <4>2. PICK p \in Offsets : p = Wrapped(o + k - 1) /\ Around(o + k - 1, p)
        BY <4>1, WrappedAround
      <4>3. PICK q \in Offsets : q = Wrapped(out + (n + k) - 1) /\ Around(out + (n + k) - 1, q)
        BY <4>1, WrappedAround
      <4>4. p = q
        BY <1>1, <2>3, <2>4, <4>2, <4>3, SamePlace
      <4>5. n + k \in DOMAIN pending
        <5>1. n + k \in 1..len
          BY <2>3 DEF Offsets
        <5> QED BY <1>1, <1>2, <5>1
      <4> QED BY <1>1, <4>2, <4>3, <4>4, <4>5
    <3>4. \A k \in DOMAIN pending' : ring'[Wrapped(out' + k - 1)] = pending'[k]
      BY <1>4, <2>8, <3>1, <3>3
    <3>5. (\A k \in DOMAIN pending : ring[Wrapped(out + k - 1)] = pending[k])'
      BY <3>4 DEF Wrapped
    <3> QED BY <1>1, <1>4, <2>4, <2>8, <3>1, <3>2, <3>5 DEF RingInv, RingTypeOK, RingKeepsBytes
  <2> QED BY <2>9, <2>10
<1> QED BY <1>5, <1>6

LEMMA RingSteps == RingInv /\ (RingNext \/ UNCHANGED ringVars) => RingInv'
<1> SUFFICES ASSUME RingInv, RingNext \/ UNCHANGED ringVars
             PROVE  RingInv'
  OBVIOUS
<1>1. CASE UNCHANGED ringVars
  BY <1>1 DEF ringVars, RingInv, RingTypeOK, RingKeepsBytes, __ring_buffer_len, Wrapped
<1>2. CASE RingNext
  BY <1>2, PutKeeps, GetKeeps DEF RingNext
<1> QED BY <1>1, <1>2

----------------------------------------------------------------------------
(* The growing text buffer.                                                *)

XmlBufferInv == XmlBufferTypeOK /\ TextFits

LEMMA XmlBufferStarts == XmlBufferInit => XmlBufferInv
<1> SUFFICES ASSUME XmlBufferInit
             PROVE  XmlBufferInv
  OBVIOUS
<1>1. xlength = 0 /\ xcapacity = 0 /\ xalloc = 0 /\ xvalid = 0 /\ xfault = FALSE
  BY DEF XmlBufferInit
<1>2. {xlength, xcapacity, xalloc, xvalid} \subseteq Nat
  BY <1>1
<1>3. xcapacity <= xalloc /\ (xlength > 0 => xlength < xcapacity /\ xvalid >= xlength)
  BY <1>1
<1>4. xfault \in BOOLEAN /\ ~xfault
  BY <1>1, Zenon
<1> QED BY <1>2, <1>3, <1>4, Zenon DEF XmlBufferInv, XmlBufferTypeOK, TextFits

\* What a call finds and leaves, by the buffer it has got.
Sized(n, r) ==
  /\ r.ok \in BOOLEAN /\ r.cap \in Nat /\ r.alloc \in Nat /\ r.kept \in Nat
  /\ r.ok => /\ r.cap <= r.alloc /\ (n > 0 => n < r.cap)
             /\ xlength > 0 => r.kept >= xlength

LEMMA SetSizes ==
  ASSUME XmlBufferInv, NEW n \in Nat, NEW bigger \in BOOLEAN, NEW smaller \in BOOLEAN
  PROVE  Sized(n, XmlBufferSetSize(n, bigger, smaller))
<1> PICK r : r = XmlBufferSetSize(n, bigger, smaller)
  OBVIOUS
<1> SUFFICES Sized(n, r)
  OBVIOUS
<1> DEFINE inc == n - xlength + 1
           want == (IF SizeInc > inc THEN SizeInc ELSE inc) + xcapacity
           kept == IF xvalid < xlength THEN xvalid ELSE xlength
<1>1. /\ xlength \in Nat /\ xcapacity \in Nat /\ xalloc \in Nat /\ xvalid \in Nat
      /\ xcapacity <= xalloc
      /\ xlength > 0 => xlength < xcapacity /\ xvalid >= xlength
      /\ SizeInc \in Nat \ {0}
  BY XmlBufferAssumption DEF XmlBufferInv, XmlBufferTypeOK, TextFits
<1>2. CASE n <= xlength \/ n < xcapacity
  <2>1. r = [ok |-> TRUE, cap |-> xcapacity, alloc |-> xalloc, kept |-> xvalid]
    BY <1>2 DEF XmlBufferSetSize
  <2>2. r.ok = TRUE /\ r.cap = xcapacity /\ r.alloc = xalloc /\ r.kept = xvalid
    BY <2>1
  <2>3. r.ok \in BOOLEAN
    BY <2>2, Zenon
  <2>4. r.cap \in Nat /\ r.alloc \in Nat /\ r.kept \in Nat
    BY <1>1, <2>2
  <2>5. r.cap <= r.alloc /\ (n > 0 => n < r.cap) /\ (xlength > 0 => r.kept >= xlength)
    BY <1>1, <1>2, <2>2
  <2> QED BY <2>3, <2>4, <2>5, Zenon DEF Sized
<1>3. CASE ~(n <= xlength \/ n < xcapacity)
  <2>1. /\ want \in Nat /\ n < want /\ kept \in Nat /\ n + 1 \in Nat
        /\ xlength > 0 => kept >= xlength
    BY <1>1, <1>3
  <2>2. \/ r = [ok |-> TRUE, cap |-> n + 1, alloc |-> n + 1, kept |-> kept]
        \/ r = [ok |-> TRUE, cap |-> want, alloc |-> want, kept |-> kept]
        \/ r = [ok |-> FALSE, cap |-> xcapacity, alloc |-> xalloc, kept |-> xvalid]
    BY <1>3 DEF XmlBufferSetSize
  <2> HIDE DEF want, kept
  <2>3. CASE r = [ok |-> FALSE, cap |-> xcapacity, alloc |-> xalloc, kept |-> xvalid]
    <3>1. r.ok = FALSE /\ r.cap = xcapacity /\ r.alloc = xalloc /\ r.kept = xvalid
      BY <2>3
    <3>2. r.ok \in BOOLEAN /\ ~r.ok
      BY <3>1, Zenon
    <3>3. r.cap \in Nat /\ r.alloc \in Nat /\ r.kept \in Nat
      BY <1>1, <3>1
    <3> QED BY <3>2, <3>3, Zenon DEF Sized
  <2>4. ASSUME NEW c \in Nat, n < c, r = [ok |-> TRUE, cap |-> c, alloc |-> c, kept |-> kept]
        PROVE  Sized(n, r)
    <3>1. r.ok = TRUE /\ r.cap = c /\ r.alloc = c /\ r.kept = kept
      BY <2>4
    <3>2. r.ok \in BOOLEAN
      BY <3>1, Zenon
    <3>3. /\ r.cap \in Nat /\ r.alloc \in Nat /\ r.kept \in Nat
          /\ r.cap <= r.alloc /\ (n > 0 => n < r.cap) /\ (xlength > 0 => r.kept >= xlength)
      BY <2>1, <2>4, <3>1
    <3> QED BY <3>2, <3>3, Zenon DEF Sized
  <2>5. n < n + 1
    OBVIOUS
  <2> QED BY <2>1, <2>2, <2>3, <2>4, <2>5
<1> QED BY <1>2, <1>3

LEMMA XmlBufferSteps == XmlBufferInv /\ (XmlBufferNext \/ UNCHANGED xbufVars) => XmlBufferInv'
<1> SUFFICES ASSUME XmlBufferInv, XmlBufferNext \/ UNCHANGED xbufVars
             PROVE  XmlBufferInv'
  OBVIOUS
<1>1. /\ xlength \in Nat /\ xcapacity \in Nat /\ xalloc \in Nat /\ xvalid \in Nat /\ ~xfault
      /\ xcapacity <= xalloc
      /\ xlength > 0 => xlength < xcapacity /\ xvalid >= xlength
  BY DEF XmlBufferInv, XmlBufferTypeOK, TextFits
<1>2. CASE UNCHANGED xbufVars
  BY <1>2 DEF xbufVars, XmlBufferInv, XmlBufferTypeOK, TextFits
<1>3. CASE XmlBufferDestroy
  BY <1>1, <1>3 DEF XmlBufferDestroy, XmlBufferInv, XmlBufferTypeOK, TextFits
<1>4. CASE XmlBufferInsert
  <2>1. PICK len \in AppendSizes, bigger \in BOOLEAN, smaller \in BOOLEAN :
          LET n == xlength + len
              r == XmlBufferSetSize(n, bigger, smaller)
          IN  IF len = 0 \/ ~r.ok THEN UNCHANGED xbufVars
              ELSE /\ xlength' = n /\ xcapacity' = r.cap /\ xalloc' = r.alloc
                   /\ xvalid' = IF r.kept >= xlength THEN n ELSE r.kept
                   /\ xfault' = (xfault \/ n + 1 > r.alloc)
    BY <1>4 DEF XmlBufferInsert
  <2>2. PICK r : r = XmlBufferSetSize(xlength + len, bigger, smaller)
    OBVIOUS
  <2>3. len \in Nat /\ xlength + len \in Nat
    BY <1>1, XmlBufferAssumption
  <2>4. Sized(xlength + len, r)
    BY <2>2, <2>3, SetSizes
  <2>5. CASE len = 0 \/ ~r.ok
    BY <1>2, <2>1, <2>2, <2>5
  <2>6. CASE ~(len = 0 \/ ~r.ok)
    <3>1. /\ xlength' = xlength + len /\ xcapacity' = r.cap /\ xalloc' = r.alloc
          /\ xvalid' = IF r.kept >= xlength THEN xlength + len ELSE r.kept
          /\ xfault' = (xfault \/ xlength + len + 1 > r.alloc)
      BY <2>1, <2>2, <2>6
    <3>2. /\ r.cap \in Nat /\ r.alloc \in Nat /\ r.kept \in Nat /\ r.kept >= xlength
          /\ r.cap <= r.alloc /\ xlength + len < r.cap
      BY <1>1, <2>3, <2>4, <2>6 DEF Sized
    <3>3. xlength' \in Nat /\ xvalid' = xlength' /\ xlength' < xcapacity' /\ xcapacity' <= xalloc'
          /\ xcapacity' \in Nat /\ xalloc' \in Nat /\ ~(xlength + len + 1 > r.alloc)
      BY <2>3, <3>1, <3>2
    <3>4. xfault' = FALSE
      BY <1>1, <3>1, <3>3
    <3>5. {xlength', xcapacity', xalloc', xvalid'} \subseteq Nat
      BY <3>3
    <3>6. xcapacity' <= xalloc' /\ (xlength' > 0 => xlength' < xcapacity' /\ xvalid' >= xlength')
      BY <3>3
    <3>7. xfault' \in BOOLEAN /\ ~xfault'
      BY <3>4, Zenon
    <3> QED BY <3>5, <3>6, <3>7, Zenon DEF XmlBufferInv, XmlBufferTypeOK, TextFits
  <2> QED BY <2>5, <2>6
<1>5. CASE XmlBufferAssign
  <2>1. PICK len \in AppendSizes \ {0}, bigger \in BOOLEAN, smaller \in BOOLEAN :
          LET r == XmlBufferSetSize(len, bigger, smaller)
          IN  IF ~r.ok THEN UNCHANGED xbufVars
              ELSE /\ xlength' = len /\ xcapacity' = r.cap /\ xalloc' = r.alloc
                   /\ xvalid' = len
                   /\ xfault' = (xfault \/ len + 1 > r.alloc)
    BY <1>5 DEF XmlBufferAssign
  <2>2. PICK r : r = XmlBufferSetSize(len, bigger, smaller)
    OBVIOUS
  <2>3. len \in Nat /\ len > 0
    BY XmlBufferAssumption
  <2>4. Sized(len, r)
    BY <2>2, <2>3, SetSizes
  <2>5. CASE ~r.ok
    BY <1>2, <2>1, <2>2, <2>5
  <2>6. CASE r.ok
    <3>1. /\ xlength' = len /\ xcapacity' = r.cap /\ xalloc' = r.alloc /\ xvalid' = len
          /\ xfault' = (xfault \/ len + 1 > r.alloc)
      BY <2>1, <2>2, <2>6
    <3>2. r.cap \in Nat /\ r.alloc \in Nat /\ r.cap <= r.alloc /\ len < r.cap
      BY <2>3, <2>4, <2>6 DEF Sized
    <3>3. ~(len + 1 > r.alloc)
      BY <2>3, <3>2
    <3>4. xfault' = FALSE
      BY <1>1, <3>1, <3>3
    <3> QED BY <2>3, <3>1, <3>2, <3>4 DEF XmlBufferInv, XmlBufferTypeOK, TextFits
  <2> QED BY <2>5, <2>6
<1> QED BY <1>2, <1>3, <1>4, <1>5 DEF XmlBufferNext

----------------------------------------------------------------------------
(* The memory pool.                                                        *)

\* A multiple of the alignment.
Even(d) == d \in Nat /\ d % PoolAlign = 0

LEMMA PoolSizes ==
  /\ PoolSize \in Nat /\ PoolAlign \in Nat /\ PoolAlign > 0
  /\ PoolHead \in Nat /\ DataHead \in Nat /\ LargeSize \in Nat /\ CleanupSize \in Nat
  /\ Even(PoolHead) /\ Even(DataHead) /\ Even(LargeSize) /\ Even(CleanupSize)
  /\ DataHead <= PoolHead /\ PoolHead + LargeSize <= PoolSize
  /\ PoolHead + CleanupSize <= PoolSize /\ MaxClears \in Nat /\ AllocSizes \subseteq Nat
  /\ MaxFromPool \in Nat
BY PoolAssumption DEF Even

LEMMA EvenIs ==
  ASSUME NEW d, Even(d)
  PROVE  \E k \in Nat : d = k * PoolAlign
<1>1. d \in Nat /\ d % PoolAlign = 0 /\ PoolAlign \in Nat /\ PoolAlign > 0
  BY PoolSizes DEF Even
<1>2. d = PoolAlign * (d \div PoolAlign) /\ d \div PoolAlign \in Nat
  BY <1>1
<1>3. PICK k \in Nat : k = d \div PoolAlign
  BY <1>2
<1>4. d = PoolAlign * k
  BY <1>2, <1>3
<1>5. PoolAlign * k = k * PoolAlign
  BY <1>1
<1> QED BY <1>4, <1>5

LEMMA MultipleEven ==
  ASSUME NEW k \in Nat
  PROVE  Even(k * PoolAlign)
<1>1. PoolAlign \in Nat /\ PoolAlign > 0
  BY PoolSizes
<1>2. k * PoolAlign \in Nat /\ (k * PoolAlign) % PoolAlign = 0
  BY <1>1
<1> QED BY <1>2 DEF Even

LEMMA EvenSum ==
  ASSUME NEW d, NEW e, Even(d), Even(e)
  PROVE  Even(d + e)
<1>1. PICK k \in Nat, l \in Nat : d = k * PoolAlign /\ e = l * PoolAlign
  BY EvenIs
<1>2. d + e = (k + l) * PoolAlign
  BY <1>1, PoolSizes
<1>3. k + l \in Nat
  OBVIOUS
<1> QED BY <1>2, <1>3, MultipleEven

LEMMA AlignedEven ==
  ASSUME NEW d \in Nat
  PROVE  Even(Aligned(d))
<1>1. PoolAlign \in Nat /\ PoolAlign > 0
  BY PoolSizes
<1>2. (d + PoolAlign - 1) \div PoolAlign \in Nat
  <2>1. d + PoolAlign - 1 \in Nat
    BY <1>1
  <2> QED BY <1>1, <2>1
<1> QED BY <1>2, MultipleEven DEF Aligned

LEMMA EvenAligned ==
  ASSUME NEW d, Even(d)
  PROVE  Aligned(d) = d
<1>1. PICK k \in Nat : d = k * PoolAlign
  BY EvenIs
<1>2. (k * PoolAlign + PoolAlign - 1) \div PoolAlign = k
  BY PoolSizes
<1> QED BY <1>1, <1>2 DEF Aligned

----------------------------------------------------------------------------
(* Blocks, and what a call takes out of them.                              *)

HeadOf(b) == IF b = 1 THEN PoolHead ELSE DataHead

\* A fill mark.
MarkOK(b, m) == Even(m) /\ m >= HeadOf(b) /\ m <= PoolSize

BlocksOK(bs) == bs \in Seq(Nat) /\ Len(bs) > 0 /\ \A b \in 1..Len(bs) : MarkOK(b, bs[b])

\* What a call leaves and gives.
Taken(r, size) ==
  /\ BlocksOK(r.blocks) /\ Len(r.blocks) >= Len(blocks) /\ r.current \in 1..Len(r.blocks)
  /\ \A b \in 1..Len(blocks) : r.blocks[b] >= blocks[b]
  /\ r.block \in 0..Len(r.blocks) /\ r.from \in Nat
  /\ r.block # 0 =>
       /\ Even(r.from) /\ r.from >= HeadOf(r.block) /\ r.from + size <= r.blocks[r.block]
       /\ r.block \in 1..Len(blocks) => r.from >= blocks[r.block]

LEMMA Heads == \A b : HeadOf(b) \in Nat /\ Even(HeadOf(b)) /\ HeadOf(b) <= PoolHead /\ HeadOf(b) <= PoolSize
<1>1. PoolHead <= PoolSize /\ DataHead <= PoolHead /\ DataHead <= PoolSize
  BY PoolSizes
<1> QED BY <1>1, PoolSizes DEF HeadOf

LEMMA TakesOld ==
  ASSUME BlocksOK(blocks), current \in 1..Len(blocks), NEW size, Even(size),
         NEW b \in 1..Len(blocks), FitsIn(b, size),
         NEW r, r = [blocks |-> [blocks EXCEPT ![b] = Aligned(blocks[b]) + size], current |-> current,
                     block |-> b, from |-> Aligned(blocks[b])]
  PROVE  Taken(r, size)
<1>1. PICK m \in Nat : m = blocks[b] /\ Even(m) /\ m >= HeadOf(b) /\ m <= PoolSize /\ m + size <= PoolSize
  <2>1. blocks[b] \in Nat /\ Even(blocks[b]) /\ blocks[b] >= HeadOf(b) /\ blocks[b] <= PoolSize
    BY DEF BlocksOK, MarkOK
  <2>2. blocks[b] + size <= PoolSize
    BY <2>1, PoolSizes DEF FitsIn, Even
  <2> QED BY <2>1, <2>2
<1>2. Aligned(blocks[b]) = m /\ size \in Nat
  BY <1>1, EvenAligned DEF Even
<1>3. PICK bs : bs = [blocks EXCEPT ![b] = m + size]
  OBVIOUS
<1>4. r.blocks = bs /\ r.current = current /\ r.block = b /\ r.from = m
  BY <1>2, <1>3
<1>5. /\ bs \in Seq(Nat) /\ Len(bs) = Len(blocks) /\ bs[b] = m + size
      /\ \A c \in 1..Len(blocks) : c # b => bs[c] = blocks[c]
  BY <1>2, <1>3 DEF BlocksOK
<1>6. MarkOK(b, m + size)
  <2>1. Even(m + size)
    BY <1>1, EvenSum
  <2>2. m + size >= HeadOf(b) /\ m + size <= PoolSize
    BY <1>1, <1>2, Heads
  <2> QED BY <2>1, <2>2 DEF MarkOK
<1>7. \A c \in 1..Len(blocks) : MarkOK(c, bs[c])
  BY <1>5, <1>6 DEF BlocksOK
<1>8. \A c \in 1..Len(blocks) : bs[c] >= blocks[c]
  <2>1. \A c \in 1..Len(blocks) : blocks[c] \in Nat
    BY DEF BlocksOK
  <2>2. m + size >= m
    BY <1>2
  <2>3. ASSUME NEW c \in 1..Len(blocks)
        PROVE  bs[c] >= blocks[c]
    BY <1>1, <1>5, <2>1, <2>2
  <2> QED BY <2>3
<1>9. Len(blocks) \in Nat /\ Len(blocks) > 0 /\ b \in 0..Len(blocks)
  BY DEF BlocksOK
<1>10. BlocksOK(bs)
  BY <1>5, <1>7, <1>9 DEF BlocksOK
<1>11. m >= m /\ Len(blocks) >= Len(blocks) /\ m + size <= bs[b]
  BY <1>2, <1>5, <1>9
<1> QED BY <1>1, <1>4, <1>5, <1>8, <1>9, <1>10, <1>11, Zenon DEF Taken

LEMMA TakesNone ==
  ASSUME BlocksOK(blocks), current \in 1..Len(blocks), NEW size,
         NEW r, r = [blocks |-> blocks, current |-> current, block |-> 0, from |-> 0]
  PROVE  Taken(r, size)
<1>1. r.blocks = blocks /\ r.current = current /\ r.block = 0 /\ r.from = 0
  OBVIOUS
<1>2. Len(blocks) \in Nat /\ 0 \in 0..Len(blocks) /\ Len(blocks) >= Len(blocks)
  BY DEF BlocksOK
<1>3. \A b \in 1..Len(blocks) : blocks[b] >= blocks[b]
  BY DEF BlocksOK
<1> QED BY <1>1, <1>2, <1>3 DEF Taken

LEMMA CurrentIs ==
  ASSUME BlocksOK(blocks), current \in 1..Len(blocks)
  PROVE  CurrentAfter \in 1..Len(blocks)
<1> DEFINE full == {b \in current..(Len(blocks) - 1) : PoolSize - blocks[b] < PoolAlign}
<1>1. CurrentAfter = IF full = {} THEN current
                     ELSE (CHOOSE b \in full : \A c \in full : c <= b) + 1
  BY DEF CurrentAfter
<1>2. PICK n \in Nat : n = Len(blocks)
  BY DEF BlocksOK
<1>3. full \subseteq 1..n /\ \A b \in full : b + 1 \in 1..n
  BY <1>2
<1> HIDE DEF full
<1>4. CASE full # {}
  <2>1. \E b \in full : \A c \in full : c <= b
    BY <1>3, <1>4, GreatestUpTo
  <2>2. PICK b : b = CHOOSE c \in full : \A d \in full : d <= c
    OBVIOUS
  <2>3. b \in full
    BY <2>1, <2>2
  <2> QED BY <1>1, <1>2, <1>3, <1>4, <2>2, <2>3
<1>5. CASE full = {}
  BY <1>1, <1>5
<1> QED BY <1>4, <1>5

LEMMA TakesNew ==
  ASSUME BlocksOK(blocks), current \in 1..Len(blocks), NEW size, Even(size), size <= PoolSize - PoolHead,
         NEW r, r = [blocks |-> Append(blocks, DataHead + size), current |-> CurrentAfter,
                     block |-> Len(blocks) + 1, from |-> DataHead]
  PROVE  Taken(r, size)
<1>1. PICK n \in Nat : n = Len(blocks) /\ n > 0
  BY DEF BlocksOK
<1>2. PICK bs : bs = Append(blocks, DataHead + size)
  OBVIOUS
<1>3. r.blocks = bs /\ r.current = CurrentAfter /\ r.block = n + 1 /\ r.from = DataHead
  BY <1>1, <1>2
<1>4. size \in Nat /\ DataHead + size \in Nat /\ DataHead + size <= PoolSize /\ DataHead + size >= DataHead
  BY PoolSizes DEF Even
<1>5. /\ bs \in Seq(Nat) /\ Len(bs) = n + 1 /\ bs[n + 1] = DataHead + size
      /\ \A b \in 1..n : bs[b] = blocks[b]
  BY <1>1, <1>2, <1>4, AppendProperties DEF BlocksOK
<1>6. HeadOf(n + 1) = DataHead
  BY <1>1 DEF HeadOf
<1>7. MarkOK(n + 1, DataHead + size)
  BY <1>4, <1>6, EvenSum, PoolSizes DEF MarkOK
<1>8. \A b \in 1..(n + 1) : b \in 1..n \/ b = n + 1
  OBVIOUS
<1>9. \A b \in 1..(n + 1) : MarkOK(b, bs[b])
  BY <1>1, <1>5, <1>7, <1>8 DEF BlocksOK
<1>10. BlocksOK(bs)
  <2>1. n + 1 > 0
    OBVIOUS
  <2> QED BY <1>5, <1>9, <2>1 DEF BlocksOK
<1>11. \A b \in 1..n : bs[b] >= blocks[b]
  BY <1>1, <1>5 DEF BlocksOK
<1>12. n + 1 >= n /\ n + 1 \in 0..(n + 1) /\ n + 1 \notin 1..n /\ DataHead >= DataHead
       /\ DataHead + size <= DataHead + size
  BY <1>4, PoolSizes
<1>13. CurrentAfter \in 1..(n + 1)
  <2>1. CurrentAfter \in 1..n
    BY <1>1, CurrentIs
  <2> QED BY <2>1
<1> QED BY <1>1, <1>3, <1>5, <1>6, <1>10, <1>11, <1>12, <1>13, PoolSizes, Zenon DEF Taken

LEMMA Takes ==
  ASSUME BlocksOK(blocks), current \in 1..Len(blocks), NEW size, Even(size), size <= PoolSize - PoolHead,
         NEW malloced
  PROVE  Taken(pool_palloc(size, malloced), size)
<1>1. PICK r : r = pool_palloc(size, malloced)
  OBVIOUS
<1> DEFINE fits == {b \in current..Len(blocks) : FitsIn(b, size)}
           b == CHOOSE c \in fits : \A d \in fits : c <= d
<1>2. CASE fits = {}
  <2>1. r = pool_palloc_block(size, malloced)
    BY <1>1, <1>2 DEF pool_palloc
  <2>2. \/ r = [blocks |-> blocks, current |-> current, block |-> 0, from |-> 0]
        \/ r = [blocks |-> Append(blocks, DataHead + size), current |-> CurrentAfter,
                block |-> Len(blocks) + 1, from |-> DataHead]
    BY <2>1 DEF pool_palloc_block
  <2>3. Taken(r, size)
    BY <2>2, TakesNone, TakesNew
  <2> QED BY <1>1, <2>3
<1>3. CASE fits # {}
  <2>1. r = [blocks |-> [blocks EXCEPT ![b] = Aligned(blocks[b]) + size], current |-> current,
             block |-> b, from |-> Aligned(blocks[b])]
    BY <1>1, <1>3 DEF pool_palloc
  <2>2. fits \subseteq 1..Len(blocks) /\ fits \subseteq Nat /\ \A c \in fits : FitsIn(c, size)
    BY DEF BlocksOK
  <2> HIDE DEF fits
  <2>3. \E c \in fits : \A d \in fits : c <= d
    BY <1>3, <2>2, LeastNatural
  <2>4. b \in fits
    BY <2>3
  <2> HIDE DEF b
  <2>5. b \in 1..Len(blocks) /\ FitsIn(b, size)
    BY <2>2, <2>4
  <2>6. Taken(r, size)
    BY <2>1, <2>5, TakesOld
  <2> QED BY <1>1, <2>6
<1> QED BY <1>2, <1>3

----------------------------------------------------------------------------
(* The pieces, and the list of the large ones.                             *)

Live(p) == p.live

PieceIn(p, bs) ==
  /\ p \in Piece0 /\ p.block \in 0..Len(bs)
  /\ p.block # 0 => p.from >= HeadOf(p.block) /\ p.to <= bs[p.block] /\ Even(p.from)

Aside(p, q) == p.block = 0 \/ ~Overlap(p, q)

InPlace(bs, ps) ==
  /\ ps \in Seq(Piece0)
  /\ \A i \in 1..Len(ps) : PieceIn(ps[i], bs)
  /\ \A i, j \in 1..Len(ps) : i # j => Aside(ps[i], ps[j])

LargesOK(ls, ps) ==
  /\ ls \in Seq(0..Len(ps))
  /\ \A i \in 1..Len(ps) : Live(ps[i]) /\ ps[i].block = 0 => \E k \in 1..Len(ls) : ls[k] = i
  /\ \A k \in 1..Len(ls) : ls[k] # 0 => Live(ps[ls[k]]) /\ ps[ls[k]].block = 0
  /\ \A j, k \in 1..Len(ls) : j # k /\ ls[j] # 0 => ls[j] # ls[k]

\* The marks go up, so that nothing loses its place.
LEMMA StayInPlace ==
  ASSUME NEW ps, InPlace(blocks, ps), NEW r, NEW size, BlocksOK(blocks), Taken(r, size)
  PROVE  InPlace(r.blocks, ps)
<1>1. ASSUME NEW i \in 1..Len(ps)
      PROVE  PieceIn(ps[i], r.blocks)
  <2>1. PICK p : p = ps[i] /\ PieceIn(p, blocks)
    BY DEF InPlace
  <2>2. p \in Piece0 /\ p.block \in 0..Len(blocks) /\ p.block \in Nat /\ p.to \in Nat
    BY <2>1 DEF PieceIn, Piece0
  <2>3. Len(r.blocks) \in Nat /\ Len(blocks) \in Nat /\ Len(blocks) <= Len(r.blocks)
    BY DEF BlocksOK, Taken
  <2>4. p.block \in 0..Len(r.blocks)
    BY <2>2, <2>3
  <2>5. CASE p.block # 0
    <3>1. PICK b \in 1..Len(blocks) : b = p.block
      BY <2>2, <2>5
    <3>2. r.blocks[b] >= blocks[b] /\ p.to <= blocks[b] /\ p.from >= HeadOf(b) /\ Even(p.from)
      BY <2>1, <3>1 DEF PieceIn, Taken
    <3>3. b \in 1..Len(r.blocks)
      BY <2>3
    <3>4. r.blocks[b] \in Nat /\ blocks[b] \in Nat
      <4>1. r.blocks \in Seq(Nat) /\ blocks \in Seq(Nat)
        BY DEF BlocksOK, Taken
      <4> QED BY <3>3, <4>1
    <3>5. p.to <= r.blocks[b]
      BY <2>2, <3>2, <3>4
    <3> QED BY <2>1, <2>2, <2>4, <3>1, <3>2, <3>5 DEF PieceIn
  <2>6. CASE p.block = 0
    BY <2>1, <2>2, <2>4, <2>6 DEF PieceIn
  <2> QED BY <2>5, <2>6
<1> QED BY <1>1 DEF InPlace

LEMMA HandedIs ==
  ASSUME NEW r, NEW size \in Nat, NEW use \in {"caller", "large", "cleanup"}, r.block \in Nat, r.from \in Nat
  PROVE  /\ Handed(r, size, use) \in Piece0 /\ Live(Handed(r, size, use))
         /\ Handed(r, size, use).block = r.block /\ Handed(r, size, use).from = r.from
         /\ Handed(r, size, use).to = r.from + size /\ Handed(r, size, use).use = use
<1>1. r.from + size \in Nat
  OBVIOUS
<1>2. TRUE \in BOOLEAN
  OBVIOUS
<1>3. Handed(r, size, use) = [block |-> r.block, from |-> r.from, to |-> r.from + size, use |-> use, live |-> TRUE]
  BY DEF Handed
<1> QED BY <1>1, <1>2, <1>3 DEF Piece0, Live

\* A new piece behind all that were taken from its block.
LEMMA PlaceNew ==
  ASSUME NEW ps, InPlace(blocks, ps), NEW r, NEW size \in Nat, BlocksOK(blocks), Taken(r, size),
         r.block # 0, NEW use \in {"caller", "large", "cleanup"}
  PROVE  InPlace(r.blocks, Append(ps, Handed(r, size, use)))
<1>1. PICK p : p = Handed(r, size, use)
  OBVIOUS
<1>2. Len(r.blocks) \in Nat /\ r.block \in 1..Len(r.blocks) /\ r.from \in Nat /\ r.block \in Nat
  BY DEF Taken, BlocksOK
<1>3. p \in Piece0 /\ p.block = r.block /\ p.from = r.from /\ p.to = r.from + size
  BY <1>1, <1>2, HandedIs
<1>4. PieceIn(p, r.blocks)
  <2>1. p.from >= HeadOf(p.block) /\ p.to <= r.blocks[p.block] /\ Even(p.from) /\ p.block \in 0..Len(r.blocks)
    BY <1>2, <1>3 DEF Taken
  <2> QED BY <1>3, <2>1 DEF PieceIn
<1>5. ASSUME NEW i \in 1..Len(ps)
      PROVE  Aside(ps[i], p) /\ Aside(p, ps[i])
  <2>1. PICK q : q = ps[i] /\ PieceIn(q, blocks) /\ q \in Piece0
    BY DEF InPlace, PieceIn
  <2>2. q.block \in Nat /\ q.from \in Nat /\ q.to \in Nat /\ q.block \in 0..Len(blocks)
    BY <2>1 DEF Piece0, PieceIn
  <2>3. CASE q.block = p.block
    <3>1. Len(blocks) \in Nat /\ q.block \in 1..Len(blocks)
      BY <1>2, <1>3, <2>2, <2>3 DEF BlocksOK
    <3>2. PICK b \in 1..Len(blocks) : b = q.block
      BY <3>1
    <3>4. q.to <= blocks[b]
      BY <1>2, <1>3, <2>1, <2>3, <3>2 DEF PieceIn
    <3>5. p.from >= blocks[b]
      BY <1>3, <2>3, <3>2 DEF Taken
    <3>6. blocks[b] \in Nat
      BY DEF BlocksOK
    <3>3. q.to <= p.from /\ p.from \in Nat
      BY <1>2, <1>3, <2>2, <3>4, <3>5, <3>6
    <3>7. ~(p.from < q.to)
      BY <2>2, <3>3
    <3> QED BY <2>1, <3>7, Zenon DEF Aside, Overlap
  <2>4. CASE q.block # p.block
    BY <2>1, <2>4, Zenon DEF Aside, Overlap
  <2> QED BY <2>3, <2>4
<1>6. InPlace(r.blocks, ps)
  BY StayInPlace
<1>7. Append(ps, p) = Append(ps, p) /\ Len(ps) \in Nat
  BY DEF InPlace
<1>13. PICK n \in Nat : n = Len(ps)
  BY <1>7
<1>14. PICK all : all = Append(ps, p)
  OBVIOUS
<1>8. /\ all \in Seq(Piece0) /\ Len(all) = n + 1 /\ all[n + 1] = p
      /\ \A i \in 1..n : all[i] = ps[i]
  BY <1>3, <1>13, <1>14, AppendProperties DEF InPlace
<1>9. \A i \in 1..(n + 1) : i \in 1..n \/ i = n + 1
  OBVIOUS
<1>10. \A i \in 1..(n + 1) : PieceIn(all[i], r.blocks)
  BY <1>4, <1>6, <1>13, <1>14, <1>8, <1>9 DEF InPlace
<1>11. ASSUME NEW i \in 1..(n + 1), NEW j \in 1..(n + 1), i # j
       PROVE  Aside(all[i], all[j])
  <2>1. CASE i \in 1..n /\ j \in 1..n
    BY <1>6, <1>13, <1>14, <1>8, <1>11, <2>1 DEF InPlace
  <2>2. CASE i \in 1..n /\ j = n + 1
    BY <1>5, <1>13, <1>14, <1>8, <2>2
  <2>3. CASE i = n + 1 /\ j \in 1..n
    BY <1>5, <1>13, <1>14, <1>8, <2>3
  <2> QED BY <1>9, <1>11, <2>1, <2>2, <2>3
<1>12. InPlace(r.blocks, all)
  BY <1>8, <1>10, <1>11 DEF InPlace
<1> QED BY <1>1, <1>13, <1>14, <1>12

\* A piece from malloc needs no place in a block.
LEMMA PlaceLarge ==
  ASSUME NEW bs, BlocksOK(bs), NEW ps, InPlace(bs, ps), NEW p, p \in Piece0, p.block = 0
  PROVE  InPlace(bs, Append(ps, p))
<1>1. PICK n \in Nat : n = Len(ps)
  BY DEF InPlace
<1>2. PICK all : all = Append(ps, p)
  OBVIOUS
<1>3. /\ all \in Seq(Piece0) /\ Len(all) = n + 1 /\ all[n + 1] = p
      /\ \A i \in 1..n : all[i] = ps[i]
  BY <1>1, <1>2, AppendProperties DEF InPlace
<1>4. \A i \in 1..(n + 1) : i \in 1..n \/ i = n + 1
  OBVIOUS
<1>5. PieceIn(p, bs)
  BY DEF PieceIn, BlocksOK
<1>6. \A i \in 1..n : Aside(p, ps[i]) /\ Aside(ps[i], p)
  BY Zenon DEF Aside, Overlap
<1>7. \A i \in 1..(n + 1) : PieceIn(all[i], bs)
  BY <1>1, <1>3, <1>4, <1>5 DEF InPlace
<1>8. ASSUME NEW i \in 1..(n + 1), NEW j \in 1..(n + 1), i # j
       PROVE  Aside(all[i], all[j])
  <2>1. CASE i \in 1..n /\ j \in 1..n
    BY <1>1, <1>3, <1>8, <2>1 DEF InPlace
  <2>2. CASE i \in 1..n /\ j = n + 1
    BY <1>3, <1>6, <2>2
  <2>3. CASE i = n + 1 /\ j \in 1..n
    BY <1>3, <1>6, <2>3
  <2> QED BY <1>4, <1>8, <2>1, <2>2, <2>3
<1>9. InPlace(bs, all)
  BY <1>3, <1>7, <1>8 DEF InPlace
<1> QED BY <1>2, <1>9

\* The list of the large pieces after a piece out of a block.
LEMMA LargesStay ==
  ASSUME NEW ls, NEW ps \in Seq(Piece0), LargesOK(ls, ps), NEW p \in Piece0, p.block # 0
  PROVE  LargesOK(ls, Append(ps, p))
<1>1. PICK n \in Nat : n = Len(ps)
  OBVIOUS
<1>2. PICK all : all = Append(ps, p)
  OBVIOUS
<1>3. /\ all \in Seq(Piece0) /\ Len(all) = n + 1 /\ all[n + 1] = p
      /\ \A i \in 1..n : all[i] = ps[i]
  BY <1>1, <1>2, AppendProperties
<1>4. \A i \in 1..(n + 1) : i \in 1..n \/ i = n + 1
  OBVIOUS
<1>5. ls \in Seq(0..n)
  BY <1>1 DEF LargesOK
<1>6. ls \in Seq(0..(n + 1)) /\ Len(ls) \in Nat
  BY <1>5
<1>7. \A k \in 1..Len(ls) : ls[k] # 0 => ls[k] \in 1..n
  BY <1>5
<1>8. \A k \in 1..Len(ls) : ls[k] # 0 => Live(all[ls[k]]) /\ all[ls[k]].block = 0
  BY <1>3, <1>7 DEF LargesOK
<1>9. ASSUME NEW i \in 1..(n + 1), Live(all[i]) /\ all[i].block = 0
      PROVE  \E k \in 1..Len(ls) : ls[k] = i
  <2>1. i \in 1..n
    BY <1>3, <1>4, <1>9
  <2>2. Live(ps[i]) /\ ps[i].block = 0
    BY <1>3, <1>9, <2>1
  <2> QED BY <1>1, <2>1, <2>2 DEF LargesOK
<1>10. \A j, k \in 1..Len(ls) : j # k /\ ls[j] # 0 => ls[j] # ls[k]
  BY DEF LargesOK
<1>11. LargesOK(ls, all)
  <2>1. Len(all) = n + 1
    BY <1>3
  <2> QED BY <1>6, <1>8, <1>9, <1>10, <2>1 DEF LargesOK
<1> QED BY <1>2, <1>11

\* And after a large one, which is put in front.
LEMMA LargesMore ==
  ASSUME NEW ls, NEW ps \in Seq(Piece0), LargesOK(ls, ps), NEW p \in Piece0, p.block = 0, Live(p)
  PROVE  LargesOK(<<Len(ps) + 1>> \o ls, Append(ps, p))
<1>1. PICK n \in Nat : n = Len(ps)
  OBVIOUS
<1>2. PICK all : all = Append(ps, p)
  OBVIOUS
<1>3. /\ all \in Seq(Piece0) /\ Len(all) = n + 1 /\ all[n + 1] = p
      /\ \A i \in 1..n : all[i] = ps[i]
  BY <1>1, <1>2, AppendProperties
<1>4. \A i \in 1..(n + 1) : i \in 1..n \/ i = n + 1
  OBVIOUS
<1>5. ls \in Seq(0..n)
  BY <1>1 DEF LargesOK
<1>6. PICK m \in Nat : m = Len(ls)
  BY <1>5
<1>7. PICK now : now = <<n + 1>> \o ls
  OBVIOUS
<1>8. /\ now \in Seq(0..(n + 1)) /\ Len(now) = m + 1 /\ now[1] = n + 1
      /\ \A k \in 1..m : now[1 + k] = ls[k]
  <2>1. <<n + 1>> \in Seq(0..(n + 1)) /\ Len(<<n + 1>>) = 1 /\ <<n + 1>>[1] = n + 1
    <3>1. n + 1 \in 0..(n + 1)
      OBVIOUS
    <3> QED BY <3>1
  <2>2. ls \in Seq(0..(n + 1))
    BY <1>5
  <2>3. /\ <<n + 1>> \o ls \in Seq(0..(n + 1)) /\ Len(<<n + 1>> \o ls) = Len(<<n + 1>>) + Len(ls)
        /\ \A j \in 1..Len(<<n + 1>>) : (<<n + 1>> \o ls)[j] = <<n + 1>>[j]
        /\ \A k \in 1..Len(ls) : (<<n + 1>> \o ls)[Len(<<n + 1>>) + k] = ls[k]
    BY <2>1, <2>2, ConcatIs
  <2> QED BY <1>6, <1>7, <2>1, <2>3
<1>9. \A k \in 1..m : ls[k] \in 0..n
  BY <1>5, <1>6
<1>10. ASSUME NEW k \in 1..(m + 1)
       PROVE  k = 1 \/ \E j \in 1..m : k = 1 + j
  <2>1. CASE k # 1
    <3>1. k - 1 \in 1..m /\ k = 1 + (k - 1)
      BY <2>1
    <3> QED BY <3>1
  <2> QED BY <2>1
<1>11. ASSUME NEW k \in 1..(m + 1), now[k] # 0
       PROVE  Live(all[now[k]]) /\ all[now[k]].block = 0
  <2>1. CASE k = 1
    BY <1>3, <1>8, <2>1
  <2>2. ASSUME NEW j \in 1..m, k = 1 + j
        PROVE  Live(all[now[k]]) /\ all[now[k]].block = 0
    <3>1. now[k] = ls[j] /\ ls[j] \in 1..n
      BY <1>8, <1>9, <1>11, <2>2
    <3>2. Live(ps[ls[j]]) /\ ps[ls[j]].block = 0
      BY <1>6, <3>1 DEF LargesOK
    <3> QED BY <1>3, <3>1, <3>2
  <2> QED BY <1>10, <2>1, <2>2
<1>12. ASSUME NEW i \in 1..(n + 1), Live(all[i]) /\ all[i].block = 0
       PROVE  \E k \in 1..(m + 1) : now[k] = i
  <2>1. CASE i = n + 1
    <3>1. 1 \in 1..(m + 1)
      OBVIOUS
    <3> QED BY <1>8, <2>1, <3>1
  <2>2. CASE i \in 1..n
    <3>1. Live(ps[i]) /\ ps[i].block = 0
      BY <1>3, <1>12, <2>2
    <3>2. PICK k \in 1..m : ls[k] = i
      BY <1>1, <1>6, <2>2, <3>1 DEF LargesOK
    <3>3. 1 + k \in 1..(m + 1)
      OBVIOUS
    <3> QED BY <1>8, <3>2, <3>3
  <2> QED BY <1>4, <2>1, <2>2
<1>13. ASSUME NEW j \in 1..(m + 1), NEW k \in 1..(m + 1), j # k, now[j] # 0
       PROVE  now[j] # now[k]
  <2>1. ASSUME NEW x \in 1..m, NEW y \in 1..m, j = 1 + x, k = 1 + y
        PROVE  now[j] # now[k]
    <3>1. x # y
      BY <1>13, <2>1
    <3> QED BY <1>6, <1>8, <1>13, <2>1, <3>1 DEF LargesOK
  <2>2. ASSUME NEW x \in 1..m
        PROVE  now[1 + x] # now[1]
    <3>1. now[1 + x] \in 0..n /\ now[1] = n + 1
      BY <1>8, <1>9
    <3> QED BY <3>1
  <2>3. CASE j = 1
    <3>1. PICK y \in 1..m : k = 1 + y
      BY <1>10, <1>13, <2>3
    <3>2. now[1 + y] # now[1]
      BY <2>2
    <3> QED BY <2>3, <3>1, <3>2
  <2>4. CASE j # 1
    <3>1. PICK x \in 1..m : j = 1 + x
      BY <1>10, <2>4
    <3>2. CASE k = 1
      <4>1. now[1 + x] # now[1]
        BY <2>2
      <4> QED BY <3>1, <3>2, <4>1
    <3>3. CASE k # 1
      <4>1. PICK y \in 1..m : k = 1 + y
        BY <1>10, <3>3
      <4> QED BY <2>1, <3>1, <4>1
    <3> QED BY <3>2, <3>3
  <2> QED BY <2>3, <2>4
<1>14. LargesOK(now, all)
  <2>1. Len(all) = n + 1 /\ Len(now) = m + 1
    BY <1>3, <1>8
  <2> QED BY <1>8, <1>11, <1>12, <1>13, <2>1 DEF LargesOK
<1> QED BY <1>1, <1>2, <1>7, <1>14

\* A piece that is given up stays where it is.
LEMMA PlaceFreed ==
  ASSUME NEW bs, NEW ps, InPlace(bs, ps), NEW i \in 1..Len(ps)
  PROVE  InPlace(bs, [ps EXCEPT ![i].live = FALSE])
<1>1. PICK n \in Nat : n = Len(ps)
  BY DEF InPlace
<1>2. PICK now : now = [ps EXCEPT ![i].live = FALSE]
  OBVIOUS
<1>3. ps \in Seq(Piece0) /\ ps[i] \in Piece0
  BY DEF InPlace
<1>4. PICK q : q = [ps[i] EXCEPT !.live = FALSE]
  OBVIOUS
<1>5. q \in Piece0 /\ q.block = ps[i].block /\ q.from = ps[i].from /\ q.to = ps[i].to
  BY <1>3, <1>4 DEF Piece0
<1>6. now = [ps EXCEPT ![i] = q]
  BY <1>2, <1>4
<1>7. now \in Seq(Piece0) /\ Len(now) = n /\ now[i] = q /\ \A j \in 1..n : j # i => now[j] = ps[j]
  BY <1>1, <1>3, <1>5, <1>6
<1>8. ASSUME NEW j \in 1..n
      PROVE  PieceIn(now[j], bs) /\ now[j].block = ps[j].block /\ now[j].from = ps[j].from /\ now[j].to = ps[j].to
  <2>1. PieceIn(ps[j], bs)
    BY <1>1 DEF InPlace
  <2>2. CASE j # i
    BY <1>7, <2>1, <2>2
  <2>3. CASE j = i
    <3>1. PieceIn(q, bs)
      BY <1>5, <2>1, <2>3 DEF PieceIn
    <3> QED BY <1>5, <1>7, <2>3, <3>1
  <2> QED BY <2>2, <2>3
<1>9. ASSUME NEW j \in 1..n, NEW k \in 1..n, j # k
      PROVE  Aside(now[j], now[k])
  <2>1. Aside(ps[j], ps[k])
    BY <1>1, <1>9 DEF InPlace
  <2> QED BY <1>8, <2>1, Zenon DEF Aside, Overlap
<1>10. InPlace(bs, now)
  BY <1>7, <1>8, <1>9 DEF InPlace
<1> QED BY <1>2, <1>10

\* And its entry among the large ones is emptied.
LEMMA LargesFreed ==
  ASSUME NEW ls, NEW ps \in Seq(Piece0), LargesOK(ls, ps), NEW i \in 1..Len(ps)
  PROVE  LargesOK([k \in DOMAIN ls |-> IF ls[k] = i THEN 0 ELSE ls[k]], [ps EXCEPT ![i].live = FALSE])
<1>1. PICK n \in Nat : n = Len(ps)
  OBVIOUS
<1>2. PICK now : now = [ps EXCEPT ![i].live = FALSE]
  OBVIOUS
<1>3. PICK q : q = [ps[i] EXCEPT !.live = FALSE]
  OBVIOUS
<1>4. q \in Piece0 /\ q.block = ps[i].block /\ q.live = FALSE
  <2>1. ps[i] \in Piece0
    OBVIOUS
  <2> QED BY <1>3, <2>1 DEF Piece0
<1>5. now = [ps EXCEPT ![i] = q]
  BY <1>2, <1>3
<1>6. now \in Seq(Piece0) /\ Len(now) = n /\ now[i] = q /\ \A j \in 1..n : j # i => now[j] = ps[j]
  BY <1>1, <1>4, <1>5
<1>7. PICK m \in Nat : m = Len(ls)
  BY DEF LargesOK
<1>8. PICK to : to = [k \in DOMAIN ls |-> IF ls[k] = i THEN 0 ELSE ls[k]]
  OBVIOUS
<1>9. ls \in Seq(0..n) /\ DOMAIN ls = 1..m
  BY <1>1, <1>7 DEF LargesOK
<1>10. \A k \in 1..m : ls[k] \in 0..n /\ to[k] = IF ls[k] = i THEN 0 ELSE ls[k]
  BY <1>8, <1>9
<1>11. to \in [1..m -> 0..n]
  BY <1>8, <1>9, <1>10
<1>12. to \in Seq(0..n) /\ Len(to) = m
  BY <1>11
<1>13. ASSUME NEW k \in 1..m, to[k] # 0
       PROVE  to[k] = ls[k] /\ ls[k] \in 1..n /\ ls[k] # i /\ Live(now[to[k]]) /\ now[to[k]].block = 0
  <2>1. to[k] = ls[k] /\ ls[k] \in 1..n /\ ls[k] # i
    BY <1>10, <1>13
  <2>2. Live(ps[ls[k]]) /\ ps[ls[k]].block = 0
    BY <1>7, <2>1 DEF LargesOK
  <2> QED BY <1>6, <2>1, <2>2
<1>14. ASSUME NEW j \in 1..n, Live(now[j]) /\ now[j].block = 0
       PROVE  \E k \in 1..m : to[k] = j
  <2>1. j # i
    BY <1>4, <1>6, <1>14 DEF Live
  <2>2. Live(ps[j]) /\ ps[j].block = 0
    BY <1>6, <1>14, <2>1
  <2>3. PICK k \in 1..m : ls[k] = j
    BY <1>1, <1>7, <2>2 DEF LargesOK
  <2> QED BY <1>10, <2>1, <2>3
<1>15. ASSUME NEW j \in 1..m, NEW k \in 1..m, j # k, to[j] # 0
       PROVE  to[j] # to[k]
  <2>1. to[j] = ls[j] /\ ls[j] # 0 /\ ls[j] # i
    BY <1>13, <1>15
  <2>2. ls[j] # ls[k]
    BY <1>7, <1>15, <2>1 DEF LargesOK
  <2> QED BY <1>10, <1>15, <2>1, <2>2
<1>16. LargesOK(to, now)
  BY <1>6, <1>12, <1>13, <1>14, <1>15 DEF LargesOK
<1> QED BY <1>2, <1>8, <1>16

----------------------------------------------------------------------------
(* The pool from its creation on.                                          *)

NeverTwice == doubleFree = FALSE

PoolInv ==
  /\ BlocksOK(blocks) /\ current \in 1..Len(blocks)
  /\ InPlace(blocks, pieces) /\ LargesOK(larges, pieces)
  /\ cleanups \in Seq(1..Len(pieces)) /\ cleared \in 0..MaxClears
  /\ NeverTwice

LEMMA EmptyPool ==
  /\ BlocksOK(<<PoolHead>>) /\ 1 \in 1..Len(<<PoolHead>>)
  /\ InPlace(<<PoolHead>>, <<>>) /\ LargesOK(<<>>, <<>>) /\ <<>> \in Seq(1..Len(<<>>))
<1>1. MarkOK(1, PoolHead)
  <2>1. HeadOf(1) = PoolHead /\ PoolHead \in Nat /\ PoolHead <= PoolSize
    BY Heads, PoolSizes DEF HeadOf
  <2> QED BY <2>1, PoolSizes DEF MarkOK
<1>2. BlocksOK(<<PoolHead>>)
  <2>1. <<PoolHead>> \in Seq(Nat) /\ Len(<<PoolHead>>) = 1 /\ <<PoolHead>>[1] = PoolHead
    BY PoolSizes
  <2> QED BY <1>1, <2>1 DEF BlocksOK
<1>3. InPlace(<<PoolHead>>, <<>>)
  BY DEF InPlace
<1>4. LargesOK(<<>>, <<>>)
  BY DEF LargesOK
<1> QED BY <1>2, <1>3, <1>4

LEMMA PoolStarts == PoolInit => PoolInv
<1> SUFFICES ASSUME PoolInit PROVE PoolInv
  OBVIOUS
<1>1. Aligned(PoolHead) = PoolHead
  BY EvenAligned, PoolSizes
<1>2. blocks = <<PoolHead>> /\ current = 1 /\ larges = <<>> /\ cleanups = <<>> /\ pieces = <<>>
  BY <1>1 DEF PoolInit
<1>3. cleared \in 0..MaxClears /\ NeverTwice
  BY PoolSizes DEF PoolInit, NeverTwice
<1> QED BY <1>2, <1>3, EmptyPool DEF PoolInv

\* What a step needs of a call: the blocks, and the pieces in their places.
LEMMA CallKeeps ==
  ASSUME PoolInv, NEW size, Even(size), size <= PoolSize - PoolHead, NEW malloced,
         NEW r, r = pool_palloc(size, malloced)
  PROVE  /\ BlocksOK(r.blocks) /\ r.current \in 1..Len(r.blocks) /\ InPlace(r.blocks, pieces)
         /\ r.block # 0 => \A use \in {"caller", "large", "cleanup"} :
              /\ InPlace(r.blocks, Append(pieces, Handed(r, size, use)))
              /\ LargesOK(larges, Append(pieces, Handed(r, size, use)))
<1>1. Taken(r, size) /\ BlocksOK(blocks) /\ InPlace(blocks, pieces) /\ LargesOK(larges, pieces)
  BY Takes DEF PoolInv
<1>2. BlocksOK(r.blocks) /\ r.current \in 1..Len(r.blocks) /\ r.block \in Nat /\ r.from \in Nat
  <2>1. BlocksOK(r.blocks) /\ r.current \in 1..Len(r.blocks) /\ r.block \in 0..Len(r.blocks) /\ r.from \in Nat
    BY <1>1 DEF Taken
  <2>2. Len(r.blocks) \in Nat
    BY <2>1 DEF BlocksOK
  <2> QED BY <2>1, <2>2
<1>3. InPlace(r.blocks, pieces)
  BY <1>1, StayInPlace
<1>4. size \in Nat /\ pieces \in Seq(Piece0)
  BY <1>1 DEF Even, InPlace
<1>5. ASSUME r.block # 0, NEW use \in {"caller", "large", "cleanup"}
      PROVE  /\ InPlace(r.blocks, Append(pieces, Handed(r, size, use)))
             /\ LargesOK(larges, Append(pieces, Handed(r, size, use)))
  <2>1. InPlace(r.blocks, Append(pieces, Handed(r, size, use)))
    BY <1>1, <1>4, <1>5, PlaceNew
  <2>2. PICK p : p = Handed(r, size, use)
    OBVIOUS
  <2>3. p \in Piece0 /\ p.block # 0
    BY <1>2, <1>4, <1>5, <2>2, HandedIs
  <2>4. LargesOK(larges, Append(pieces, p))
    BY <1>1, <1>4, <2>3, LargesStay
  <2> QED BY <2>1, <2>2, <2>4
<1> QED BY <1>2, <1>3, <1>5

LEMMA LonePieces == \A n, ps : ps \in Seq(1..n) /\ n \in Nat => ps \in Seq(1..(n + 1)) /\ ps \in Seq(1..(n + 2))
<1> SUFFICES ASSUME NEW n \in Nat, NEW ps \in Seq(1..n)
             PROVE  ps \in Seq(1..(n + 1)) /\ ps \in Seq(1..(n + 2))
  OBVIOUS
<1>1. \A i \in 1..Len(ps) : ps[i] \in 1..(n + 1) /\ ps[i] \in 1..(n + 2)
  OBVIOUS
<1> QED BY <1>1

LEMMA CallerStep == PoolInv /\ pool_pcalloc => PoolInv'
<1> SUFFICES ASSUME PoolInv, pool_pcalloc PROVE PoolInv'
  OBVIOUS
<1>1. PICK want \in AllocSizes, ok \in BOOLEAN :
        /\ Aligned(want) <= PoolMax
        /\ blocks' = pool_palloc(Aligned(want), ok).blocks /\ current' = pool_palloc(Aligned(want), ok).current
        /\ pieces' = IF pool_palloc(Aligned(want), ok).block = 0 THEN pieces
                     ELSE Append(pieces, Handed(pool_palloc(Aligned(want), ok), Aligned(want), "caller"))
        /\ UNCHANGED <<larges, cleanups, cleared, doubleFree>>
  BY DEF pool_pcalloc
<1>2. PICK n : n = Aligned(want) /\ Even(n)
  <2>1. want \in Nat
    BY PoolSizes
  <2> QED BY <2>1, AlignedEven
<1>3. PICK r : r = pool_palloc(n, ok)
  OBVIOUS
<1>4. /\ n <= PoolMax /\ blocks' = r.blocks /\ current' = r.current
      /\ pieces' = IF r.block = 0 THEN pieces ELSE Append(pieces, Handed(r, n, "caller"))
      /\ larges' = larges /\ cleanups' = cleanups /\ cleared' = cleared /\ doubleFree' = doubleFree
  BY <1>1, <1>2, <1>3
<1>5. n <= PoolSize - PoolHead
  BY <1>2, <1>4, PoolSizes DEF PoolMax, Even
<1>6. /\ BlocksOK(r.blocks) /\ r.current \in 1..Len(r.blocks) /\ InPlace(r.blocks, pieces)
      /\ r.block # 0 => /\ InPlace(r.blocks, Append(pieces, Handed(r, n, "caller")))
                        /\ LargesOK(larges, Append(pieces, Handed(r, n, "caller")))
  BY <1>2, <1>3, <1>5, CallKeeps
<1>7. BlocksOK(blocks') /\ current' \in 1..Len(blocks') /\ InPlace(blocks', pieces') /\ LargesOK(larges', pieces')
  BY <1>4, <1>6 DEF PoolInv
<1>8. cleanups' \in Seq(1..Len(pieces'))
  <2>1. Len(pieces) \in Nat /\ (pieces' = pieces \/ Len(pieces') = Len(pieces) + 1)
    BY <1>4 DEF PoolInv, InPlace
  <2>2. cleanups \in Seq(1..Len(pieces))
    BY DEF PoolInv
  <2> QED BY <1>4, <2>1, <2>2, LonePieces
<1> QED BY <1>4, <1>7, <1>8 DEF PoolInv, NeverTwice

LEMMA LargeStep == PoolInv /\ pool_palloc_large => PoolInv'
<1> SUFFICES ASSUME PoolInv, pool_palloc_large PROVE PoolInv'
  OBVIOUS
<1>1. PICK want, ok, r :
        /\ want \in AllocSizes
        /\ r = pool_palloc(LargeSize, ok)
        /\ blocks' = r.blocks /\ current' = r.current
        /\ IF r.block = 0 THEN UNCHANGED <<pieces, larges>>
           ELSE /\ pieces' = pieces \o
                     <<Handed(r, LargeSize, "large"),
                       Handed([block |-> 0, from |-> 0], Aligned(want), "caller")>>
                /\ larges' = <<Len(pieces) + 2>> \o larges
        /\ UNCHANGED <<cleanups, cleared, doubleFree>>
  BY DEF pool_palloc_large
<1>2. /\ BlocksOK(r.blocks) /\ r.current \in 1..Len(r.blocks) /\ InPlace(r.blocks, pieces)
      /\ r.block # 0 => /\ InPlace(r.blocks, Append(pieces, Handed(r, LargeSize, "large")))
                        /\ LargesOK(larges, Append(pieces, Handed(r, LargeSize, "large")))
  <2>1. Even(LargeSize) /\ LargeSize <= PoolSize - PoolHead
    BY PoolSizes
  <2> QED BY <1>1, <2>1, CallKeeps
<1>3. PICK n \in Nat : n = Len(pieces)
  BY DEF PoolInv, InPlace
<1>4. cleanups' = cleanups /\ cleanups \in Seq(1..n) /\ cleared' \in 0..MaxClears /\ NeverTwice'
      /\ blocks' = r.blocks /\ current' = r.current
  BY <1>1, <1>3 DEF PoolInv, NeverTwice
<1>5. CASE r.block = 0
  BY <1>1, <1>2, <1>3, <1>4, <1>5 DEF PoolInv
<1>6. CASE r.block # 0
  <2>1. PICK p : p = Handed(r, LargeSize, "large")
    OBVIOUS
  <2>2. PICK q : q = Handed([block |-> 0, from |-> 0], Aligned(want), "caller")
    OBVIOUS
  <2>3. p \in Piece0
    <3>1. r.block \in Nat /\ r.from \in Nat
      <4>3. Even(LargeSize) /\ LargeSize <= PoolSize - PoolHead
        BY PoolSizes
      <4>1. Taken(r, LargeSize)
        BY <1>1, <4>3, Takes DEF PoolInv
      <4>2. Len(r.blocks) \in Nat
        BY <1>2 DEF BlocksOK
      <4> QED BY <4>1, <4>2 DEF Taken
    <3> QED BY <2>1, <3>1, HandedIs, PoolSizes
  <2>4. q \in Piece0 /\ q.block = 0 /\ Live(q)
    <3>1. PICK s : s = [block |-> 0, from |-> 0]
      OBVIOUS
    <3>2. s.block = 0 /\ s.from = 0 /\ 0 \in Nat
      BY <3>1
    <3>3. Aligned(want) \in Nat
      <4>1. want \in Nat
        BY <1>1, PoolSizes
      <4> QED BY <4>1, AlignedEven DEF Even
    <3> QED BY <2>2, <3>1, <3>2, <3>3, HandedIs
  <2>5. pieces \in Seq(Piece0)
    BY DEF PoolInv, InPlace
  <2>6. PICK ps : ps = Append(pieces, p)
    OBVIOUS
  <2>7. ps \in Seq(Piece0) /\ Len(ps) = n + 1
    BY <1>3, <2>3, <2>5, <2>6
  <2>8. pieces' = Append(ps, q)
    <3>1. pieces' = pieces \o <<p, q>>
      BY <1>1, <1>6, <2>1, <2>2
    <3>2. pieces \o <<p, q>> = Append(Append(pieces, p), q)
      BY <2>3, <2>4, <2>5
    <3> QED BY <2>6, <3>1, <3>2
  <2>9. larges' = <<Len(ps) + 1>> \o larges
    <3>1. larges' = <<n + 2>> \o larges
      BY <1>1, <1>3, <1>6
    <3>2. Len(ps) + 1 = n + 2
      BY <2>7
    <3> QED BY <3>1, <3>2
  <2>10. InPlace(blocks', ps) /\ LargesOK(larges, ps) /\ BlocksOK(blocks')
    BY <1>2, <1>4, <1>6, <2>1, <2>6
  <2>11. InPlace(blocks', pieces')
    BY <2>4, <2>8, <2>10, PlaceLarge
  <2>12. LargesOK(larges', pieces')
    BY <2>4, <2>7, <2>8, <2>9, <2>10, LargesMore
  <2>13. Len(pieces') = n + 2
    BY <2>4, <2>7, <2>8
  <2>14. cleanups' \in Seq(1..Len(pieces'))
    BY <1>4, <2>13, LonePieces
  <2> QED BY <1>2, <1>4, <2>10, <2>11, <2>12, <2>14 DEF PoolInv
<1> QED BY <1>5, <1>6

LEMMA CleanupStep ==
  ASSUME PoolInv, NEW i \in LivePieces, pool_cleanup_add(i)
  PROVE  PoolInv'
<1>1. PICK ok, r :
        /\ r = pool_palloc(CleanupSize, ok)
        /\ blocks' = r.blocks /\ current' = r.current
        /\ IF r.block = 0 THEN UNCHANGED <<pieces, cleanups>>
           ELSE /\ pieces' = Append(pieces, Handed(r, CleanupSize, "cleanup"))
                /\ cleanups' = <<i>> \o cleanups
        /\ UNCHANGED <<larges, cleared, doubleFree>>
  BY DEF pool_cleanup_add
<1>2. /\ BlocksOK(r.blocks) /\ r.current \in 1..Len(r.blocks) /\ InPlace(r.blocks, pieces)
      /\ r.block # 0 => /\ InPlace(r.blocks, Append(pieces, Handed(r, CleanupSize, "cleanup")))
                        /\ LargesOK(larges, Append(pieces, Handed(r, CleanupSize, "cleanup")))
  <2>1. Even(CleanupSize) /\ CleanupSize <= PoolSize - PoolHead
    BY PoolSizes
  <2> QED BY <1>1, <2>1, CallKeeps
<1>3. PICK n \in Nat : n = Len(pieces)
  BY DEF PoolInv, InPlace
<1>4. /\ larges' = larges /\ cleanups \in Seq(1..n) /\ cleared' \in 0..MaxClears /\ NeverTwice'
      /\ blocks' = r.blocks /\ current' = r.current /\ LargesOK(larges, pieces)
  BY <1>1, <1>3 DEF PoolInv, NeverTwice
<1>5. CASE r.block = 0
  BY <1>1, <1>2, <1>3, <1>4, <1>5 DEF PoolInv
<1>6. CASE r.block # 0
  <2>1. i \in 1..n
    BY <1>3 DEF LivePieces, PoolInv, InPlace
  <2>2. cleanups \in Seq(1..(n + 1)) /\ <<i>> \in Seq(1..(n + 1))
    <3>1. i \in 1..(n + 1)
      BY <2>1
    <3> QED BY <1>4, <3>1, LonePieces
  <2>3. <<i>> \o cleanups \in Seq(1..(n + 1))
    BY <2>2
  <2>4. Len(pieces') = n + 1
    BY <1>1, <1>3, <1>6 DEF PoolInv, InPlace
  <2>5. cleanups' \in Seq(1..Len(pieces'))
    BY <1>1, <1>6, <2>3, <2>4
  <2>6. InPlace(blocks', pieces') /\ LargesOK(larges', pieces')
    BY <1>1, <1>2, <1>4, <1>6
  <2> QED BY <1>2, <1>4, <2>5, <2>6 DEF PoolInv
<1> QED BY <1>5, <1>6

LEMMA FreeStep ==
  ASSUME PoolInv, NEW i \in LivePieces, pool_pfree(i)
  PROVE  PoolInv'
<1>1. i \in 1..Len(pieces) /\ pieces \in Seq(Piece0)
  BY DEF LivePieces, PoolInv, InPlace
<1>2. /\ larges' = [k \in DOMAIN larges |-> IF larges[k] = i THEN 0 ELSE larges[k]]
      /\ pieces' = [pieces EXCEPT ![i].live = FALSE]
      /\ blocks' = blocks /\ current' = current /\ cleanups' = cleanups /\ cleared' = cleared
      /\ doubleFree' = doubleFree
  BY DEF pool_pfree
<1>3. InPlace(blocks', pieces')
  BY <1>1, <1>2, PlaceFreed DEF PoolInv
<1>4. LargesOK(larges', pieces')
  BY <1>1, <1>2, LargesFreed DEF PoolInv
<1>5. Len(pieces') = Len(pieces)
  <2>1. pieces' \in Seq(Piece0) /\ DOMAIN pieces' = DOMAIN pieces
    BY <1>2, <1>3 DEF InPlace
  <2> QED BY <1>1, <2>1
<1> QED BY <1>2, <1>3, <1>4, <1>5 DEF PoolInv, NeverTwice

LEMMA ClearStep == PoolInv /\ pool_clear => PoolInv'
<1> SUFFICES ASSUME PoolInv, pool_clear PROVE PoolInv'
  OBVIOUS
<1>1. /\ blocks' = <<PoolHead>> /\ current' = 1 /\ larges' = <<>> /\ cleanups' = <<>> /\ pieces' = <<>>
      /\ cleared' = cleared + 1 /\ cleared < MaxClears
  BY DEF pool_clear
<1>2. cleared' \in 0..MaxClears
  <2>1. cleared \in 0..MaxClears /\ MaxClears \in Nat
    BY PoolSizes DEF PoolInv
  <2> QED BY <1>1, <2>1
<1>3. ~ \E k \in DOMAIN larges : larges[k] # 0 /\ ~pieces[larges[k]].live
  <2> SUFFICES ASSUME NEW k \in DOMAIN larges, larges[k] # 0
               PROVE  pieces[larges[k]].live
    OBVIOUS
  <2>1. k \in 1..Len(larges)
    BY DEF PoolInv, LargesOK
  <2>2. Live(pieces[larges[k]])
    BY <2>1 DEF PoolInv, LargesOK
  <2> QED BY <2>2 DEF Live
<1>4. NeverTwice'
  <2>1. doubleFree' = (doubleFree \/ \E k \in DOMAIN larges : larges[k] # 0 /\ ~pieces[larges[k]].live)
    BY DEF pool_clear
  <2>2. doubleFree = FALSE
    BY DEF PoolInv, NeverTwice
  <2> QED BY <1>3, <2>1, <2>2, Zenon DEF NeverTwice
<1> QED BY <1>1, <1>2, <1>4, EmptyPool DEF PoolInv

LEMMA PoolSteps == PoolInv /\ (PoolNext \/ UNCHANGED poolVars) => PoolInv'
<1> SUFFICES ASSUME PoolInv, PoolNext \/ UNCHANGED poolVars PROVE PoolInv'
  OBVIOUS
<1>1. CASE UNCHANGED poolVars
  BY <1>1 DEF poolVars, PoolInv, NeverTwice
<1>2. CASE PoolNext
  <2>1. \/ pool_pcalloc \/ pool_palloc_large \/ pool_clear
        \/ \E i \in LivePieces : pool_pfree(i) \/ pool_cleanup_add(i)
    BY <1>2, Zenon DEF PoolNext
  <2> QED BY <2>1, CallerStep, LargeStep, ClearStep, FreeStep, CleanupStep
<1> QED BY <1>1, <1>2

\* What the pieces are to the invariant's reader.
LEMMA PoolKeeps == PoolInv => MemoryApart /\ PoolTypeOK
<1> SUFFICES ASSUME PoolInv PROVE MemoryApart /\ PoolTypeOK
  OBVIOUS
<1>1. /\ blocks \in Seq(Nat) /\ pieces \in Seq(Piece0) /\ larges \in Seq(0..Len(pieces))
      /\ DOMAIN blocks = 1..Len(blocks) /\ DOMAIN pieces = 1..Len(pieces) /\ DOMAIN larges = 1..Len(larges)
      /\ Len(blocks) > 0
  BY DEF PoolInv, BlocksOK, InPlace, LargesOK
<1>2. ASSUME NEW i \in DOMAIN pieces, NEW j \in DOMAIN pieces, i # j
      PROVE  pieces[i].block = 0 \/ ~Overlap(pieces[i], pieces[j])
  BY <1>1, <1>2, Zenon DEF PoolInv, InPlace, Aside
<1>3. ASSUME NEW i \in DOMAIN pieces, pieces[i].block # 0
      PROVE  /\ pieces[i].from >= (IF pieces[i].block = 1 THEN PoolHead ELSE DataHead)
             /\ pieces[i].to <= blocks[pieces[i].block] /\ blocks[pieces[i].block] <= PoolSize
             /\ pieces[i].from % PoolAlign = 0
  <2>1. PICK p : p = pieces[i] /\ PieceIn(p, blocks)
    BY <1>1 DEF PoolInv, InPlace
  <2>2. p.from >= HeadOf(p.block) /\ p.to <= blocks[p.block] /\ Even(p.from) /\ p.block \in 0..Len(blocks)
    BY <1>3, <2>1 DEF PieceIn
  <2>3. p.block \in 1..Len(blocks)
    BY <1>1, <1>3, <2>1, <2>2
  <2>4. blocks[p.block] <= PoolSize
    BY <2>3 DEF PoolInv, BlocksOK, MarkOK
  <2> QED BY <2>1, <2>2, <2>4 DEF HeadOf, Even
<1>4. PiecesApart
  BY <1>2, <1>3 DEF PiecesApart
<1>5. ~doubleFree
  BY Zenon DEF PoolInv, NeverTwice
<1>6. ASSUME NEW i \in LivePieces
      PROVE  (pieces[i].block = 0) <=> (\E k \in DOMAIN larges : larges[k] = i)
  <2>1. i \in 1..Len(pieces) /\ i # 0 /\ Live(pieces[i])
    BY <1>1 DEF LivePieces, Live
  <2>2. pieces[i].block = 0 => \E k \in DOMAIN larges : larges[k] = i
    BY <1>1, <2>1 DEF PoolInv, LargesOK
  <2>3. ASSUME NEW k \in DOMAIN larges, larges[k] = i
        PROVE  pieces[i].block = 0
    BY <1>1, <2>1, <2>3 DEF PoolInv, LargesOK
  <2> QED BY <2>2, <2>3
<1>7. \A j, k \in DOMAIN larges : (j # k /\ larges[j] # 0) => larges[j] # larges[k]
  BY <1>1 DEF PoolInv, LargesOK
<1>8. LargeFreedOnce
  BY <1>5, <1>6, <1>7, Zenon DEF LargeFreedOnce
<1>9. doubleFree \in BOOLEAN
  BY Zenon DEF PoolInv, NeverTwice
<1>10. blocks # <<>> /\ current \in DOMAIN blocks /\ cleanups \in Seq(DOMAIN pieces) /\ cleared \in 0..MaxClears
  BY <1>1 DEF PoolInv
<1> QED BY <1>1, <1>4, <1>8, <1>9, <1>10, Zenon DEF MemoryApart, PoolTypeOK

----------------------------------------------------------------------------
(* Chunks: buffers of one size, all but the last of them full.             *)

\* Where the bytes of buffer i begin among all bytes.
Start(i) == (i - 1) * BufferSize

\* The buffer b has, and no more than it can hold, the bytes of all behind
\* the first x.
HasBytes(b, x, all) ==
  /\ Len(b) \in 1..BufferSize /\ x + Len(b) <= Len(all)
  /\ \A k \in 1..Len(b) : b[k] = all[x + k]

HoldBytes(bs, all) ==
  /\ bs \in Seq(Seq(Nat)) /\ all \in Seq(Nat)
  /\ \A i \in 1..Len(bs) : HasBytes(bs[i], Start(i), all)
  /\ \A i \in 1..Len(bs) : i # Len(bs) => Len(bs[i]) = BufferSize
  /\ Len(bs) = 0 => Len(all) = 0
  /\ Len(bs) # 0 => Len(all) = Start(Len(bs)) + Len(bs[Len(bs)])

LEMMA Starts ==
  ASSUME NEW i \in Nat \ {0}
  PROVE  /\ Start(i) \in Nat /\ Start(1) = 0
         /\ Start(i + 1) = Start(i) + BufferSize
<1>1. BufferSize \in Nat
  BY ChunkAssumption
<1>2. PICK j \in Nat : j = i - 1
  OBVIOUS
<1>3. j * BufferSize \in Nat
  BY <1>1
<1>4. (j + 1) * BufferSize = j * BufferSize + BufferSize
  BY <1>1
<1>5. 0 * BufferSize = 0
  BY <1>1
<1>6. Start(i) = j * BufferSize /\ Start(i + 1) = (j + 1) * BufferSize /\ Start(1) = 0 * BufferSize
  <2>1. i - 1 = j /\ (i + 1) - 1 = j + 1 /\ 1 - 1 = 0
    BY <1>2
  <2> QED BY <2>1, Zenon DEF Start
<1> QED BY <1>3, <1>4, <1>5, <1>6

\* More bytes behind: what a buffer has it goes on having.
LEMMA HasMore ==
  ASSUME NEW b \in Seq(Nat), NEW x \in Nat, NEW all \in Seq(Nat), NEW t \in Seq(Nat),
         HasBytes(b, x, all)
  PROVE  HasBytes(b, x, all \o t)
<1>1. Len(all \o t) = Len(all) + Len(t) /\ \A j \in 1..Len(all) : (all \o t)[j] = all[j]
  BY ConcatIs
<1>2. ASSUME NEW k \in 1..Len(b)
      PROVE  b[k] = (all \o t)[x + k]
  <2>1. x + k \in 1..Len(all)
    BY DEF HasBytes
  <2> QED BY <1>1, <2>1 DEF HasBytes
<1>3. x + Len(b) <= Len(all \o t)
  BY <1>1 DEF HasBytes
<1> QED BY <1>2, <1>3 DEF HasBytes

\* The last bytes in a buffer of their own.
LEMMA HasNew ==
  ASSUME NEW all \in Seq(Nat), NEW t \in Seq(Nat), Len(t) \in 1..BufferSize
  PROVE  HasBytes(t, Len(all), all \o t)
<1>1. Len(all \o t) = Len(all) + Len(t) /\ \A k \in 1..Len(t) : (all \o t)[Len(all) + k] = t[k]
  BY ConcatIs
<1> QED BY <1>1 DEF HasBytes

\* And more of them in a buffer that has the last ones already.
LEMMA HasAdded ==
  ASSUME NEW b \in Seq(Nat), NEW x \in Nat, NEW all \in Seq(Nat), NEW t \in Seq(Nat),
         HasBytes(b, x, all), Len(all) = x + Len(b), Len(b) + Len(t) <= BufferSize
  PROVE  HasBytes(b \o t, x, all \o t)
<1>0. ASSUME NEW a \in Seq(Nat)
      PROVE  /\ Len(a \o t) = Len(a) + Len(t)
             /\ \A j \in 1..Len(a) : (a \o t)[j] = a[j]
             /\ \A k \in 1..Len(t) : (a \o t)[Len(a) + k] = t[k]
  BY ConcatIs
<1>1. /\ Len(all \o t) = Len(all) + Len(t)
      /\ \A j \in 1..Len(all) : (all \o t)[j] = all[j]
      /\ \A k \in 1..Len(t) : (all \o t)[Len(all) + k] = t[k]
  BY <1>0, Zenon
<1>2. /\ Len(b \o t) = Len(b) + Len(t)
      /\ \A j \in 1..Len(b) : (b \o t)[j] = b[j]
      /\ \A k \in 1..Len(t) : (b \o t)[Len(b) + k] = t[k]
  BY <1>0, Zenon
<1>3. Len(b \o t) \in 1..BufferSize /\ x + Len(b \o t) <= Len(all \o t)
  BY <1>1, <1>2, ChunkAssumption DEF HasBytes
<1>4. ASSUME NEW k \in 1..Len(b \o t)
      PROVE  (b \o t)[k] = (all \o t)[x + k]
  <2>1. CASE k \in 1..Len(b)
    <3>1. x + k \in 1..Len(all)
      BY <2>1
    <3> QED BY <1>1, <1>2, <2>1, <3>1 DEF HasBytes
  <2>2. CASE k \notin 1..Len(b)
    <3>1. PICK j \in 1..Len(t) : k = Len(b) + j
      <4>1. k - Len(b) \in 1..Len(t) /\ k = Len(b) + (k - Len(b))
        <5>1. Len(b) \in Nat /\ Len(t) \in Nat
          OBVIOUS
        <5> QED BY <1>2, <2>2, <5>1
      <4> QED BY <4>1
    <3>2. x + k = Len(all) + j
      BY <3>1
    <3> QED BY <1>1, <1>2, <3>1, <3>2
  <2> QED BY <2>1, <2>2
<1> QED BY <1>3, <1>4 DEF HasBytes

\* What HoldBytes asks for, with the number of buffers named.
LEMMA HoldIs ==
  ASSUME NEW bs \in Seq(Seq(Nat)), NEW all \in Seq(Nat), NEW n \in Nat, Len(bs) = n, n # 0,
         \A i \in 1..n : HasBytes(bs[i], Start(i), all),
         \A i \in 1..n : i # n => Len(bs[i]) = BufferSize,
         Len(all) = Start(n) + Len(bs[n])
  PROVE  HoldBytes(bs, all)
BY DEF HoldBytes

LEMMA HoldMore ==
  ASSUME NEW bs, NEW all, HoldBytes(bs, all), NEW t \in Seq(Nat), Len(bs) # 0,
         Len(bs[Len(bs)]) + Len(t) <= BufferSize
  PROVE  HoldBytes([bs EXCEPT ![Len(bs)] = @ \o t], all \o t)
<1> DEFINE n == Len(bs)
           now == [bs EXCEPT ![n] = @ \o t]
<1>1. bs \in Seq(Seq(Nat)) /\ all \in Seq(Nat) /\ n \in 1..n /\ bs[n] \in Seq(Nat) /\ n \in Nat \ {0}
  BY DEF HoldBytes
<1>2. now \in Seq(Seq(Nat)) /\ Len(now) = n
  <2>1. bs[n] \o t \in Seq(Nat)
    BY <1>1, ConcatIs
  <2> QED BY <1>1, <2>1
<1>3. now[n] = bs[n] \o t /\ \A i \in 1..n : i # n => now[i] = bs[i]
  BY <1>1
<1>4. Start(n) \in Nat
  BY <1>1, Starts
<1>5. HasBytes(now[n], Start(n), all \o t)
  <2>1. HasBytes(bs[n], Start(n), all) /\ Len(all) = Start(n) + Len(bs[n])
    BY <1>1 DEF HoldBytes
  <2> HIDE DEF now
  <2> QED BY <1>1, <1>3, <1>4, <2>1, HasAdded
<1>6. ASSUME NEW i \in 1..n
      PROVE  HasBytes(now[i], Start(i), all \o t)
  <2>1. CASE i = n
    BY <1>5, <2>1
  <2>2. CASE i # n
    <3>1. i \in Nat \ {0} /\ bs[i] \in Seq(Nat)
      BY <1>1
    <3>2. Start(i) \in Nat
      BY <3>1, Starts
    <3>3. HasBytes(bs[i], Start(i), all)
      BY DEF HoldBytes
    <3>4. HasBytes(bs[i], Start(i), all \o t)
      BY <1>1, <3>1, <3>2, <3>3, HasMore
    <3> HIDE DEF now
    <3> QED BY <1>3, <2>2, <3>4
  <2> QED BY <2>1, <2>2
<1>7. ASSUME NEW i \in 1..n, i # n
      PROVE  Len(now[i]) = BufferSize
  BY <1>3, <1>7 DEF HoldBytes
<1>8. Len(all \o t) = Start(n) + Len(now[n])
  <2>1. Len(all) = Start(n) + Len(bs[n]) /\ Len(all \o t) = Len(all) + Len(t)
    BY <1>1, ConcatIs DEF HoldBytes
  <2>2. Len(now[n]) = Len(bs[n]) + Len(t)
    BY <1>1, <1>3, ConcatIs
  <2> QED BY <1>1, <1>4, <2>1, <2>2
<1>9. all \o t \in Seq(Nat)
  BY <1>1, ConcatIs
<1> QED
  <2> HIDE DEF now
  <2>1. \A i \in 1..n : i # n => Len(now[i]) = BufferSize
    BY <1>7
  <2> HIDE DEF n
  <2>2. HoldBytes(now, all \o t)
    BY <1>1, <1>2, <1>6, <1>8, <1>9, <2>1, HoldIs
  <2> QED BY <2>2 DEF now, n

LEMMA HoldAnother ==
  ASSUME NEW bs, NEW all, HoldBytes(bs, all), NEW t \in Seq(Nat), Len(t) \in 1..BufferSize,
         Len(bs) # 0 => Len(bs[Len(bs)]) = BufferSize
  PROVE  HoldBytes(Append(bs, t), all \o t)
<1> SUFFICES ASSUME NEW now, now = Append(bs, t)
             PROVE  HoldBytes(now, all \o t)
  OBVIOUS
<1> DEFINE n == Len(bs)
<1>1. bs \in Seq(Seq(Nat)) /\ all \in Seq(Nat) /\ n \in Nat
  BY DEF HoldBytes
<1>2. /\ now \in Seq(Seq(Nat)) /\ Len(now) = n + 1 /\ now[n + 1] = t
      /\ \A i \in 1..n : now[i] = bs[i]
  BY <1>1, AppendProperties
<1>3. Start(n + 1) = Len(all)
  <2>1. CASE n = 0
    BY <1>1, <2>1, Starts DEF HoldBytes
  <2>2. CASE n # 0
    <3>1. n \in Nat \ {0} /\ Len(all) = Start(n) + Len(bs[n])
      BY <1>1, <2>2 DEF HoldBytes
    <3>2. Start(n + 1) = Start(n) + BufferSize
      BY <3>1, Starts
    <3> QED BY <2>2, <3>1, <3>2
  <2> QED BY <2>1, <2>2
<1>4. HasBytes(now[n + 1], Start(n + 1), all \o t)
  BY <1>1, <1>2, <1>3, HasNew
<1>5. ASSUME NEW i \in 1..n
      PROVE  HasBytes(now[i], Start(i), all \o t)
  <2>1. i \in Nat \ {0} /\ bs[i] \in Seq(Nat)
    BY <1>1
  <2>2. Start(i) \in Nat
    BY <2>1, Starts
  <2>3. HasBytes(bs[i], Start(i), all)
    BY DEF HoldBytes
  <2>4. HasBytes(bs[i], Start(i), all \o t)
    BY <1>1, <2>1, <2>2, <2>3, HasMore
  <2> QED BY <1>2, <2>4
<1>6. ASSUME NEW i \in 1..n
      PROVE  Len(now[i]) = BufferSize
  <2>1. CASE i = n
    BY <1>1, <1>2, <2>1
  <2>2. CASE i # n
    BY <1>2, <2>2 DEF HoldBytes
  <2> QED BY <2>1, <2>2
<1>7. Len(all \o t) = Start(n + 1) + Len(now[n + 1]) /\ all \o t \in Seq(Nat)
  <2>1. all \o t \in Seq(Nat) /\ Len(all \o t) = Len(all) + Len(t)
    BY <1>1, ConcatIs
  <2>2. Len(t) = Len(now[n + 1])
    BY <1>2
  <2> QED BY <1>3, <2>1, <2>2
<1>8. \A i \in 1..(n + 1) : i \in 1..n \/ i = n + 1
  BY <1>1
<1>9. n + 1 # 0 /\ n + 1 \in Nat
  BY <1>1
<1>10. \A i \in 1..(n + 1) : HasBytes(now[i], Start(i), all \o t)
  BY <1>4, <1>5, <1>8
<1>11. \A i \in 1..(n + 1) : i # n + 1 => Len(now[i]) = BufferSize
  BY <1>6, <1>8
<1> HIDE DEF n
<1> QED BY <1>2, <1>7, <1>9, <1>10, <1>11, HoldIs

----------------------------------------------------------------------------
(* Writing.                                                                *)

\* The state of the loop: what is counted as written is in the buffers.
WrittenSoFar(c, g, s) ==
  /\ c.writed \in 0..Len(s)
  /\ HoldBytes(c.bs, g \o SubSeq(s, 1, c.writed))

LEMMA BytesGoOn ==
  ASSUME NEW s \in Seq(Nat), NEW w \in 0..Len(s), NEW n \in 0..(Len(s) - w)
  PROVE  /\ SubSeq(s, 1, w) \in Seq(Nat) /\ Len(SubSeq(s, 1, w)) = w
         /\ SubSeq(s, w + 1, w + n) \in Seq(Nat) /\ Len(SubSeq(s, w + 1, w + n)) = n
         /\ SubSeq(s, 1, w + n) = SubSeq(s, 1, w) \o SubSeq(s, w + 1, w + n)
BY SubSeqGoesOn, SMT

LEMMA BytesTogether ==
  ASSUME NEW s \in Seq(Nat), NEW t \in Seq(Nat), NEW u \in Seq(Nat)
  PROVE  (s \o t) \o u = s \o (t \o u)
BY ConcatAssociative

\* A step of the loop that adds the next n bytes.
LEMMA MoreWritten ==
  ASSUME NEW g \in Seq(Nat), NEW s \in Seq(Nat), NEW w \in 0..Len(s), NEW n \in 0..(Len(s) - w), NEW bs,
         HoldBytes(bs, (g \o SubSeq(s, 1, w)) \o SubSeq(s, w + 1, w + n))
  PROVE  WrittenSoFar([bs |-> bs, writed |-> w + n], g, s)
<1>1. /\ SubSeq(s, 1, w) \in Seq(Nat) /\ SubSeq(s, w + 1, w + n) \in Seq(Nat)
      /\ SubSeq(s, 1, w + n) = SubSeq(s, 1, w) \o SubSeq(s, w + 1, w + n)
  BY BytesGoOn
<1>2. (g \o SubSeq(s, 1, w)) \o SubSeq(s, w + 1, w + n) = g \o (SubSeq(s, 1, w) \o SubSeq(s, w + 1, w + n))
  BY <1>1, BytesTogether, Zenon
<1>3. HoldBytes(bs, g \o SubSeq(s, 1, w + n))
  BY <1>1, <1>2
<1>4. w + n \in 0..Len(s)
  <2> PICK l \in Nat : l = Len(s)
    OBVIOUS
  <2> QED OBVIOUS
<1>5. PICK c : c = [bs |-> bs, writed |-> w + n]
  OBVIOUS
<1>6. c.bs = bs /\ c.writed = w + n
  BY <1>5
<1>7. HoldBytes(c.bs, g \o SubSeq(s, 1, c.writed)) /\ c.writed \in 0..Len(s)
  BY <1>3, <1>4, <1>6
<1> QED BY <1>5, <1>7 DEF WrittenSoFar

LEMMA RoundWrites ==
  ASSUME NEW g \in Seq(Nat), NEW s \in Seq(Nat), NEW last, NEW c, WrittenSoFar(c, g, s),
         c = [bs |-> c.bs, writed |-> c.writed]
  PROVE  WrittenSoFar(Round(c, s, last), g, s)
<1>10. PICK w, bs, r : w = c.writed /\ bs = c.bs /\ r = Round(c, s, last)
  OBVIOUS
<1>11. c = [bs |-> bs, writed |-> w] /\ r = Round(c, s, last)
  BY <1>10
<1> SUFFICES WrittenSoFar(r, g, s)
  BY <1>10
<1>1. /\ w \in 0..Len(s) /\ HoldBytes(bs, g \o SubSeq(s, 1, w)) /\ bs \in Seq(Seq(Nat))
      /\ BufferSize \in Nat \ {0} /\ Len(s) \in Nat /\ Len(bs) \in Nat
  BY <1>10, ChunkAssumption DEF WrittenSoFar, HoldBytes
<1>12. PICK l \in Nat, left \in Nat : l = Len(s) /\ left = l - w
  <2>1. Len(s) - w \in Nat /\ Len(s) \in Nat
    BY <1>1
  <2> QED BY <2>1
<1>13. PICK room : room = cwmp_buffer_remain(bs)
  OBVIOUS
<1>0. w \in 0..l /\ BufferSize \in Nat \ {0} /\ left = l - w
  BY <1>1, <1>12
<1>2. CASE r = c
  BY <1>2, <1>10
<1>3. CASE left # 0 /\ room # 0 /\ r # c
  <2>1. bs # <<>> /\ Len(bs) \in 1..Len(bs) /\ room = BufferSize - Len(bs[Len(bs)])
    <3>1. bs # <<>>
      BY <1>3, <1>13 DEF cwmp_buffer_remain
    <3>2. Len(bs) \in 1..Len(bs)
      BY <1>1, <3>1
    <3> QED BY <1>13, <3>1, <3>2 DEF cwmp_buffer_remain, Last
  <2>0. PICK m : m = Len(bs[Len(bs)])
    OBVIOUS
  <2>2. m \in 1..BufferSize
    BY <1>1, <2>0, <2>1 DEF HoldBytes, HasBytes
  <2>3. room \in Nat /\ room = BufferSize - m
    BY <1>0, <2>0, <2>1, <2>2
  <2>4. PICK n \in 1..left : n = (IF left > room THEN room ELSE left) /\ n <= room
    <3>1. CASE left > room
      BY <1>3, <2>3, <3>1
    <3>2. CASE ~(left > room)
      BY <1>3, <2>3, <3>2
    <3> QED BY <3>1, <3>2
  <2>5. n \in 0..(Len(s) - w)
    BY <1>0, <1>12, <2>4
  <2> DEFINE t0 == SubSeq(s, w + 1, w + n)
  <2>61. t0 \in Seq(Nat) /\ Len(t0) = n /\ SubSeq(s, 1, w) \in Seq(Nat)
    BY <1>1, <2>5, BytesGoOn, ZenonT(60)
  <2>62. PICK t : t = t0
    OBVIOUS
  <2>6. t \in Seq(Nat) /\ Len(t) = n /\ SubSeq(s, 1, w) \in Seq(Nat)
    BY <2>61, <2>62, Zenon
  <2>7. ~(Len(t) > room) /\ m + Len(t) <= BufferSize
    <3>1. ~(n > room) /\ m + n <= BufferSize
      <4>1. n <= room /\ n \in Nat
        BY <2>4
      <4> QED BY <1>0, <2>2, <2>3, <4>1
    <3> QED BY <2>6, <3>1
  <2>8. r = [bs |-> cwmp_buffer_write_bytes(bs, t), writed |-> w + n]
    BY <1>3, <1>11, <1>12, <1>13, <2>4, <2>62 DEF Round
  <2>9. r = [bs |-> [bs EXCEPT ![Len(bs)] = @ \o t], writed |-> w + n]
    <3>1. cwmp_buffer_write_bytes(bs, t) = [bs EXCEPT ![Len(bs)] = @ \o t]
      <4>1. ~(Len(t) > cwmp_buffer_remain(bs))
        BY <1>13, <2>7
      <4> QED BY <4>1, Zenon DEF cwmp_buffer_write_bytes
    <3> QED BY <2>8, <3>1
  <2>10. HoldBytes([bs EXCEPT ![Len(bs)] = @ \o t], (g \o SubSeq(s, 1, w)) \o t)
    <3>1. Len(bs) # 0
      BY <1>1, <2>1
    <3> QED BY <1>1, <2>0, <2>6, <2>7, <3>1, HoldMore
  <2>11. HoldBytes([bs EXCEPT ![Len(bs)] = @ \o t], (g \o SubSeq(s, 1, w)) \o SubSeq(s, w + 1, w + n))
    BY <2>10, <2>62, Zenon
  <2>12. WrittenSoFar([bs |-> [bs EXCEPT ![Len(bs)] = @ \o t], writed |-> w + n], g, s)
    BY <1>1, <2>5, <2>11, MoreWritten
  <2> QED BY <2>9, <2>12
<1>4. CASE left # 0 /\ room = 0 /\ r # c
  <2>0. PICK at : at = Append(bs, <<>>)
    OBVIOUS
  <2>1. Len(at) = Len(bs) + 1 /\ at[Len(bs) + 1] = <<>> /\ at # <<>> /\ at \in Seq(Seq(Nat))
    <3>1. <<>> \in Seq(Nat)
      OBVIOUS
    <3> QED BY <1>1, <2>0, <3>1, AppendProperties
  <2>2. cwmp_buffer_remain(at) = BufferSize
    <3>1. cwmp_buffer_remain(at) = BufferSize - Len(<<>>)
      BY <2>1 DEF cwmp_buffer_remain, Last
    <3> QED BY <1>0, <3>1
  <2>3. PICK n \in 1..left : n = (IF left > BufferSize THEN BufferSize ELSE left) /\ n \in 1..BufferSize
    <3>1. CASE left > BufferSize
      BY <1>0, <1>4, <3>1
    <3>2. CASE ~(left > BufferSize)
      BY <1>0, <1>4, <3>2
    <3> QED BY <3>1, <3>2
  <2>4. n \in 0..(Len(s) - w)
    BY <1>0, <1>12, <2>3
  <2> DEFINE t0 == SubSeq(s, w + 1, w + n)
  <2>51. t0 \in Seq(Nat) /\ Len(t0) = n /\ SubSeq(s, 1, w) \in Seq(Nat)
    BY <1>1, <2>4, BytesGoOn, ZenonT(60)
  <2>52. PICK t : t = t0
    OBVIOUS
  <2>5. t \in Seq(Nat) /\ Len(t) = n /\ SubSeq(s, 1, w) \in Seq(Nat)
    BY <2>51, <2>52, Zenon
  <2>6. Len(t) \in 1..BufferSize /\ ~(Len(t) > BufferSize)
    BY <1>0, <2>3, <2>5
  <2>7. r = [bs |-> cwmp_buffer_write_bytes(at, t), writed |-> w + n]
    <3>1. cwmp_buffer_create(bs) = at
      BY <2>0 DEF cwmp_buffer_create
    <3> QED BY <1>4, <1>11, <1>12, <1>13, <2>2, <2>3, <2>52, <3>1 DEF Round
  <2>8. cwmp_buffer_write_bytes(at, t) = Append(bs, t)
    <3>1. cwmp_buffer_write_bytes(at, t) = [at EXCEPT ![Len(bs) + 1] = <<>> \o t]
      BY <2>1, <2>2, <2>6 DEF cwmp_buffer_write_bytes
    <3>2. <<>> \o t = t
      BY <2>5, ConcatEmptySeq
    <3>3. [at EXCEPT ![Len(bs) + 1] = t] = Append(bs, t)
      <4>10. PICK k \in Nat : k = Len(bs)
        BY <1>1
      <4>11. PICK a, b : a = [at EXCEPT ![Len(bs) + 1] = t] /\ b = Append(bs, t)
        OBVIOUS
      <4>1. b \in Seq(Seq(Nat)) /\ Len(b) = k + 1 /\ b[k + 1] = t /\ \A i \in 1..k : b[i] = bs[i]
        <5>1. t \in Seq(Nat)
          BY <2>5
        <5> QED BY <1>1, <2>0, <4>10, <4>11, <5>1, AppendProperties
      <4>2. \A i \in 1..k : at[i] = bs[i]
        <5>1. <<>> \in Seq(Nat)
          OBVIOUS
        <5> QED BY <1>1, <2>0, <4>10, <4>11, <5>1, AppendProperties
      <4>3. Len(at) = k + 1 /\ at \in Seq(Seq(Nat)) /\ k + 1 \in 1..(k + 1)
        BY <2>1, <4>10
      <4>4. a \in Seq(Seq(Nat)) /\ Len(a) = k + 1 /\ a[k + 1] = t
        <5>1. t \in Seq(Nat) /\ a = [at EXCEPT ![k + 1] = t]
          BY <2>5, <4>10, <4>11
        <5> QED BY <4>3, <5>1
      <4>5. \A i \in 1..(k + 1) : i # k + 1 => a[i] = at[i]
        <5>1. a = [at EXCEPT ![k + 1] = t]
          BY <4>10, <4>11
        <5> QED BY <4>3, <5>1
      <4>6. \A i \in 1..(k + 1) : i # k + 1 => i \in 1..k
        OBVIOUS
      <4>7. \A i \in 1..(k + 1) : a[i] = b[i]
        BY <4>1, <4>2, <4>4, <4>5, <4>6
      <4>8. a = b
        BY <4>1, <4>4, <4>7, SeqEqual
      <4> QED BY <4>8, <4>11
    <3> QED BY <3>1, <3>2, <3>3
  <2>9. Len(bs) # 0 => Len(bs[Len(bs)]) = BufferSize
    <3>1. ASSUME Len(bs) # 0
          PROVE  Len(bs[Len(bs)]) = BufferSize
      <4>1. bs # <<>> /\ Len(bs) \in 1..Len(bs)
        <5>1. Len(bs) \in Nat
          BY <1>1
        <5>2. bs # <<>>
          BY <3>1
        <5> QED BY <3>1, <5>1, <5>2
      <4>2. Len(bs[Len(bs)]) \in Nat
        <5>1. bs[Len(bs)] \in Seq(Nat)
          BY <1>1, <4>1
        <5> QED BY <5>1
      <4>3. 0 = BufferSize - Len(bs[Len(bs)])
        BY <1>4, <1>13, <4>1 DEF cwmp_buffer_remain, Last
      <4>5. PICK y \in Nat : y = Len(bs[Len(bs)])
        BY <4>2
      <4>4. y = BufferSize
        BY <1>0, <4>3, <4>5
      <4> QED BY <4>4, <4>5
    <3> QED BY <3>1
  <2>10. HoldBytes(Append(bs, t), (g \o SubSeq(s, 1, w)) \o t)
    BY <1>1, <2>5, <2>6, <2>9, HoldAnother
  <2> QED BY <1>1, <2>4, <2>52, <2>7, <2>8, <2>10, MoreWritten
<1>5. CASE left = 0
  <2>1. r = c
    BY <1>5, <1>11, <1>12 DEF Round
  <2> QED BY <2>1, <1>10
<1> QED BY <1>2, <1>3, <1>4, <1>5

ChunkState(g, s) ==
  {c \in [bs : Seq(Seq(Nat)), writed : Nat] : WrittenSoFar(c, g, s)}

LEMMA LoopWrites ==
  ASSUME NEW bs, NEW g \in Seq(Nat), HoldBytes(bs, g), NEW s \in Seq(Nat), NEW last
  PROVE  WriteLoop(bs, s, last) \in ChunkState(g, s)
<1> DEFINE N == Len(s)
           S == ChunkState(g, s)
           c0 == [bs |-> bs, writed |-> 0]
           step == [k \in 1..N |-> [c \in S |-> Round(c, s, last)]]
           Eq(f) == f = [k \in 0..N |-> IF k = 0 THEN c0 ELSE Round(f[k - 1], s, last)]
           F == CHOOSE f : Eq(f)
<1>1. N \in Nat /\ N \in 0..N /\ 0 \in 0..N
  OBVIOUS
<1>2. c0 \in S
  <2>1. SubSeq(s, 1, 0) = <<>>
    BY SubSeqEmpty
  <2>2. g \o <<>> = g
    BY ConcatEmptySeq
  <2>3. HoldBytes(bs, g \o SubSeq(s, 1, 0)) /\ bs \in Seq(Seq(Nat))
    BY <2>1, <2>2 DEF HoldBytes
  <2>4. c0.bs = bs /\ c0.writed = 0 /\ c0 \in [bs : Seq(Seq(Nat)), writed : Nat]
    BY <2>3
  <2> HIDE DEF c0, N
  <2>5. c0.writed \in 0..Len(s) /\ HoldBytes(c0.bs, g \o SubSeq(s, 1, c0.writed))
    BY <1>1, <2>3, <2>4 DEF N
  <2> QED BY <2>4, <2>5 DEF ChunkState, WrittenSoFar
<1>3. \A c \in S : Round(c, s, last) \in S
  <2> SUFFICES ASSUME NEW c \in S
               PROVE  Round(c, s, last) \in S
    OBVIOUS
  <2>1. c \in [bs : Seq(Seq(Nat)), writed : Nat] /\ WrittenSoFar(c, g, s)
    BY DEF ChunkState
  <2>2. c = [bs |-> c.bs, writed |-> c.writed]
    BY <2>1
  <2>3. PICK r : r = Round(c, s, last)
    OBVIOUS
  <2>4. WrittenSoFar(r, g, s)
    BY <2>1, <2>2, <2>3, RoundWrites
  <2>5. r = [bs |-> r.bs, writed |-> r.writed]
    <3>1. CASE r = c
      BY <2>2, <3>1
    <3>2. CASE r # c
      <4>1. \E x, y : r = [bs |-> x, writed |-> y]
        BY <2>3, <3>2 DEF Round
      <4> QED BY <4>1
    <3> QED BY <3>1, <3>2
  <2>6. r.bs \in Seq(Seq(Nat)) /\ r.writed \in Nat
    BY <2>4 DEF WrittenSoFar, HoldBytes
  <2>7. r \in [bs : Seq(Seq(Nat)), writed : Nat]
    BY <2>5, <2>6
  <2> QED BY <2>3, <2>4, <2>7 DEF ChunkState
<1> HIDE DEF N, S, c0
<1>4. step \in [1..N -> [S -> S]]
  BY <1>3
<1>5. \A k \in 1..N : \A c \in S : step[k][c] = Round(c, s, last)
  BY <1>3
<1> HIDE DEF step
<1>6. PICK f : Recursed(f, N, S, c0, step)
  BY <1>1, <1>2, <1>4, Recursion
<1>7. f \in [0..N -> S] /\ f[0] = c0 /\ \A i \in 1..N : f[i] = Round(f[i - 1], s, last)
  <2>1. f \in [0..N -> S] /\ f[0] = c0 /\ \A i \in 1..N : f[i] = step[i][f[i - 1]]
    BY <1>6 DEF Recursed
  <2>2. \A i \in 1..N : i - 1 \in 0..N
    BY <1>1
  <2> QED BY <1>5, <2>1, <2>2
<1>8. Eq(f)
  <2>1. \A k \in 0..N : k = 0 \/ k \in 1..N
    BY <1>1
  <2> QED BY <1>7, <2>1
<1>9. Eq(F)
  <2> HIDE DEF Eq
  <2> QED BY <1>8
<1>10. WriteLoop(bs, s, last) = F[N]
  BY DEF WriteLoop, N, c0
<1> HIDE DEF F
<1>11. \A i \in 0..N : F[i] \in S
  <2> DEFINE Good == {i \in 0..N : F[i] \in S}
  <2>1. F[0] = c0 /\ \A i \in 1..N : F[i] = Round(F[i - 1], s, last)
    <3>1. \A k \in 0..N : F[k] = IF k = 0 THEN c0 ELSE Round(F[k - 1], s, last)
      BY <1>9
    <3>2. \A k \in 1..N : k # 0 /\ k \in 0..N
      BY <1>1
    <3> QED BY <1>1, <3>1, <3>2
  <2>2. 0 \in Good
    BY <1>1, <1>2, <2>1
  <2>3. \A i \in 1..N : i - 1 \in Good => i \in Good
    <3>1. \A i \in 1..N : i \in 0..N
      BY <1>1
    <3> QED BY <1>3, <2>1, <3>1
  <2>4. \A i \in 0..N : i \in Good
    <3> HIDE DEF Good
    <3> QED BY <1>1, <2>2, <2>3, UpTo
  <2> QED BY <2>4
<1> QED BY <1>1, <1>10, <1>11 DEF S

----------------------------------------------------------------------------
(* Copying.                                                                *)

Least(a, b) == IF a < b THEN a ELSE b

\* How many bytes of a buffer of room bytes are copied, have being copied.
CopyPart(total, have, room, max) ==
  LET left == total - have
      b == IF left > room THEN room ELSE left
      d == max - have
  IN  IF d > b THEN b ELSE d

\* What one more buffer adds to the bytes got so far.
LEMMA CopyGoesOn ==
  ASSUME NEW all \in Seq(Nat), NEW b \in Seq(Nat), NEW x \in Nat, HasBytes(b, x, all), NEW max \in Nat
  PROVE  SubSeq(all, 1, Least(max, x)) \o SubSeq(b, 1, CopyPart(Len(all), Least(max, x), Len(b), max))
           = SubSeq(all, 1, Least(max, x + Len(b)))
<1> DEFINE left == Len(all) - Least(max, x)
           d == max - Least(max, x)
           m == IF left > Len(b) THEN Len(b) ELSE left
<1>0. CopyPart(Len(all), Least(max, x), Len(b), max) = IF d > m THEN m ELSE d
  BY DEF CopyPart
<1>1. PICK n \in Nat, l \in Nat : n = Len(all) /\ l = Len(b)
  OBVIOUS
<1>2. x + l <= n /\ l > 0 /\ \A k \in 1..l : b[k] = all[x + k]
  BY <1>1, ChunkAssumption DEF HasBytes
<1>3. CASE max <= x
  <2>1. Least(max, x) = max /\ Least(max, x + l) = max
    BY <1>2, <1>3 DEF Least
  <2>2. d = 0 /\ left \in Nat /\ m \in Nat
    BY <1>1, <1>2, <1>3, <2>1
  <2>3. (IF d > m THEN m ELSE d) = 0
    BY <2>2
  <2>4. SubSeq(b, 1, 0) = <<>>
    BY SubSeqEmpty
  <2>5. SubSeq(all, 1, max) \in Seq(Nat)
    <3>1. \A i \in 1..max : i \in 1..Len(all)
      BY <1>1, <1>2, <1>3
    <3>2. \A i \in 1..max : all[i] \in Nat
      BY <3>1
    <3> QED BY <3>2, SubSeqProperties
  <2>6. SubSeq(all, 1, max) \o <<>> = SubSeq(all, 1, max)
    BY <2>5, ConcatEmptySeq
  <2> HIDE DEF left, d, m
  <2> QED BY <1>0, <1>1, <2>1, <2>3, <2>4, <2>6, Zenon
<1>4. CASE x < max
  <2>1. PICK c \in 1..l : Least(max, x) = x /\ Least(max, x + l) = x + c /\ (IF d > m THEN m ELSE d) = c
    <3>1. Least(max, x) = x /\ left = n - x /\ d = max - x
      BY <1>1, <1>4 DEF Least
    <3>2. m = l
      <4>1. CASE left > l
        BY <1>1, <4>1
      <4>2. CASE ~(left > l)
        <5>1. left = l
          BY <1>2, <3>1, <4>2
        <5> QED BY <1>1, <4>2, <5>1
      <4> QED BY <4>1, <4>2
    <3>3. CASE x + l <= max
      <4>1. Least(max, x + l) = x + l /\ (IF d > m THEN m ELSE d) = l
        BY <3>1, <3>2, <3>3 DEF Least
      <4>2. l \in 1..l
        BY <1>2
      <4> QED BY <3>1, <4>1, <4>2
    <3>4. CASE max < x + l
      <4>1. Least(max, x + l) = x + (max - x) /\ (IF d > m THEN m ELSE d) = max - x
        BY <3>1, <3>2, <3>4 DEF Least
      <4>2. max - x \in 1..l
        BY <1>4, <3>4
      <4> QED BY <3>1, <4>1, <4>2
    <3> QED BY <3>3, <3>4
  <2>2. x \in 0..Len(all) /\ c \in 0..(Len(all) - x)
    BY <1>1, <1>2
  <2>3. SubSeq(all, 1, x + c) = SubSeq(all, 1, x) \o SubSeq(all, x + 1, x + c)
    BY <2>2, BytesGoOn
  <2>4. SubSeq(b, 1, c) = SubSeq(all, x + 1, x + c)
    <3>0. c \in Nat /\ c <= l
      OBVIOUS
    <3>1. /\ SubSeq(b, 1, c) \in Seq(Nat) /\ Len(SubSeq(b, 1, c)) = c
          /\ \A i \in 1..c : SubSeq(b, 1, c)[i] = b[i]
      <4>1. \A i \in 1..c : b[i] \in Nat
        BY <1>1, <3>0
      <4>2. /\ SubSeq(b, 1, c) \in Seq(Nat)
            /\ Len(SubSeq(b, 1, c)) = IF 1 <= c THEN c - 1 + 1 ELSE 0
            /\ \A i \in 1..(c - 1 + 1) : SubSeq(b, 1, c)[i] = b[1 + i - 1]
        BY <3>0, <4>1, SubSeqProperties
      <4> QED BY <3>0, <4>2
    <3>2. SubSeq(all, x + 1, x + c) \in Seq(Nat) /\ Len(SubSeq(all, x + 1, x + c)) = c
      BY <2>2, BytesGoOn
    <3>3. \A i \in 1..c : SubSeq(all, x + 1, x + c)[i] = all[x + i]
      <4>1. \A i \in (x + 1)..(x + c) : all[i] \in Nat
        BY <1>1, <1>2, <3>0
      <4>2. \A i \in 1..((x + c) - (x + 1) + 1) : SubSeq(all, x + 1, x + c)[i] = all[(x + 1) + i - 1]
        BY <3>0, <4>1, SubSeqProperties
      <4>3. (x + c) - (x + 1) + 1 = c /\ \A i \in 1..c : (x + 1) + i - 1 = x + i
        BY <3>0
      <4> QED BY <4>2, <4>3
    <3>4. \A i \in 1..c : b[i] = all[x + i]
      BY <1>2, <3>0
    <3>5. PICK u, v : u = SubSeq(b, 1, c) /\ v = SubSeq(all, x + 1, x + c)
      OBVIOUS
    <3>6. u \in Seq(Nat) /\ v \in Seq(Nat) /\ Len(u) = c /\ Len(v) = c /\ \A i \in 1..c : u[i] = v[i]
      BY <3>1, <3>2, <3>3, <3>4, <3>5
    <3>7. u = v
      BY <3>6, SeqEqual
    <3> QED BY <3>5, <3>7
  <2> HIDE DEF left, d, m
  <2> QED BY <1>0, <1>1, <2>1, <2>3, <2>4, Zenon
<1>5. max <= x \/ x < max
  OBVIOUS
<1> QED BY <1>3, <1>4, <1>5, Zenon

CopiedTo(all, bs, max, i) ==
  Least(max, IF i = 0 THEN 0 ELSE Start(i) + Len(bs[i]))

\* What one round of the loop gets, as the source has it.
CopyRound(bs, total, max, i, got) ==
  got \o SubSeq(bs[i], 1, CopyPart(total, Len(got), Len(bs[i]), max))

LEMMA CopyRounds ==
  ASSUME NEW bs, NEW all, HoldBytes(bs, all), NEW max \in Nat, NEW i \in 1..Len(bs)
  PROVE  /\ CopiedTo(all, bs, max, i) \in 0..Len(all)
         /\ CopyRound(bs, Len(all), max, i, SubSeq(all, 1, CopiedTo(all, bs, max, i - 1)))
               = SubSeq(all, 1, CopiedTo(all, bs, max, i))
<1>1. PICK x \in Nat : x = Start(i)
  <2>1. i \in Nat \ {0}
    OBVIOUS
  <2> QED BY <2>1, Starts
<1>2. all \in Seq(Nat) /\ bs[i] \in Seq(Nat) /\ Len(bs) \in Nat
  BY DEF HoldBytes
<1>3. PICK b : b = bs[i]
  OBVIOUS
<1>4. HasBytes(b, x, all) /\ b \in Seq(Nat)
  BY <1>1, <1>2, <1>3 DEF HoldBytes
<1>5. CopiedTo(all, bs, max, i - 1) = Least(max, x)
  <2>1. CASE i = 1
    <3>1. x = 0
      BY <1>1, <2>1, Starts
    <3> QED BY <2>1, <3>1 DEF CopiedTo
  <2>2. CASE i # 1
    <3>1. PICK j \in 1..Len(bs) : j = i - 1
      BY <1>2, <2>2
    <3>2. j # Len(bs) /\ j # 0 /\ j \in Nat \ {0} /\ j + 1 = i
      BY <1>2, <3>1
    <3>3. Len(bs[j]) = BufferSize
      BY <3>1, <3>2 DEF HoldBytes
    <3>4. Start(i) = Start(j) + BufferSize
      BY <3>2, Starts
    <3>5. x = Start(j) + Len(bs[j])
      BY <1>1, <3>3, <3>4
    <3> QED BY <3>1, <3>2, <3>5, Zenon DEF CopiedTo
  <2> QED BY <2>1, <2>2
<1>6. CopiedTo(all, bs, max, i) = Least(max, x + Len(b))
  <2>1. i # 0
    OBVIOUS
  <2> QED BY <1>1, <1>3, <2>1, Zenon DEF CopiedTo
<1>7. PICK n \in Nat, l \in Nat : n = Len(all) /\ l = Len(b)
  BY <1>2, <1>4
<1>8. x + l <= n
  BY <1>4, <1>7 DEF HasBytes
<1>9. Least(max, x) \in 0..n /\ Least(max, x + l) \in 0..n
  BY <1>8 DEF Least
<1>100. PICK y \in Nat : y = Least(max, x)
  BY <1>9
<1>10. PICK got : y = Least(max, x) /\ got = SubSeq(all, 1, y)
  BY <1>100
<1>11. Len(got) = y
  <2>1. y \in 0..Len(all) /\ 0 \in 0..(Len(all) - y)
    BY <1>7, <1>9, <1>10
  <2>2. Len(SubSeq(all, 1, y)) = y
    BY <1>2, <2>1, BytesGoOn
  <2> QED BY <1>10, <2>2
<1>13. CopyRound(bs, Len(all), max, i, got) = got \o SubSeq(b, 1, CopyPart(Len(all), y, Len(b), max))
  BY <1>3, <1>11 DEF CopyRound
<1>14. SubSeq(all, 1, Least(max, x)) \o SubSeq(b, 1, CopyPart(Len(all), Least(max, x), Len(b), max))
              = SubSeq(all, 1, Least(max, x + Len(b)))
  BY <1>2, <1>4, CopyGoesOn
<1>15. CopyRound(bs, Len(all), max, i, SubSeq(all, 1, Least(max, x))) = SubSeq(all, 1, Least(max, x + Len(b)))
  BY <1>10, <1>13, <1>14
<1>16. Least(max, x + Len(b)) \in 0..Len(all)
  BY <1>7, <1>9
<1> QED BY <1>5, <1>6, <1>15, <1>16

LEMMA CopyIs ==
  ASSUME HoldBytes(buffers, given), bytes = Len(given), NEW max \in Nat
  PROVE  cwmp_chunk_copy(max) = SubSeq(given, 1, IF max < bytes THEN max ELSE bytes)
<1> DEFINE N == Len(buffers)
           Round2(i, got) == CopyRound(buffers, bytes, max, i, got)
           Upto(i) == SubSeq(given, 1, CopiedTo(given, buffers, max, i))
           Eq(f) == f = [i \in 0..N |-> IF i = 0 THEN <<>> ELSE Round2(i, f[i - 1])]
           F == CHOOSE f : Eq(f)
           f0 == [i \in 0..N |-> Upto(i)]
<1>1. N \in Nat /\ N \in 0..N /\ 0 \in 0..N
  BY DEF HoldBytes
<1>2. \A i \in 1..N : Round2(i, Upto(i - 1)) = Upto(i)
  BY CopyRounds
<1>3. Upto(0) = <<>>
  <2>1. Least(max, 0) = 0
    BY DEF Least
  <2>2. SubSeq(given, 1, 0) = <<>>
    BY SubSeqEmpty
  <2> QED BY <2>1, <2>2 DEF CopiedTo
<1> HIDE DEF N, Round2, Upto
<1>4. \A i \in 0..N : f0[i] = Upto(i)
  OBVIOUS
<1>5. Eq(f0)
  <2>1. ASSUME NEW i \in 0..N
        PROVE  Upto(i) = IF i = 0 THEN <<>> ELSE Round2(i, f0[i - 1])
    <3>1. CASE i = 0
      BY <1>3, <3>1
    <3>2. CASE i # 0
      <4>1. i \in 1..N /\ i - 1 \in 0..N
        BY <1>1, <3>2
      <4>2. f0[i - 1] = Upto(i - 1)
        BY <1>4, <4>1
      <4> HIDE DEF f0
      <4> QED BY <1>2, <3>2, <4>1, <4>2
    <3> QED BY <3>1, <3>2
  <2> QED BY <2>1, Zenon
<1> HIDE DEF f0
<1>6. Eq(F)
  <2> HIDE DEF Eq
  <2> QED BY <1>5
<1>7. cwmp_chunk_copy(max) = F[N]
  BY DEF cwmp_chunk_copy, CopyRound, CopyPart, N, Round2
<1> HIDE DEF F
<1>8. F[N] = Upto(N)
  <2> DEFINE Good == {i \in 0..N : F[i] = Upto(i)}
  <2>1. F[0] = <<>> /\ \A i \in 1..N : F[i] = Round2(i, F[i - 1])
    <3>1. \A k \in 0..N : F[k] = IF k = 0 THEN <<>> ELSE Round2(k, F[k - 1])
      BY <1>6
    <3>2. \A k \in 1..N : k # 0 /\ k \in 0..N
      BY <1>1
    <3> QED BY <1>1, <3>1, <3>2
  <2>2. 0 \in Good
    BY <1>1, <1>3, <2>1
  <2>3. \A i \in 1..N : i - 1 \in Good => i \in Good
    <3>1. \A i \in 1..N : i \in 0..N
      BY <1>1
    <3> QED BY <1>2, <2>1, <3>1
  <2>4. \A i \in 0..N : i \in Good
    <3> HIDE DEF Good
    <3> QED BY <1>1, <2>2, <2>3, UpTo
  <2> QED BY <1>1, <2>4
<1>9. CopiedTo(given, buffers, max, N) = IF max < bytes THEN max ELSE bytes
  <2>1. CASE N = 0
    <3>1. bytes = 0
      BY <2>1 DEF HoldBytes, N
    <3> QED BY <2>1, <3>1 DEF CopiedTo, Least
  <2>2. CASE N # 0
    <3>1. bytes = Start(N) + Len(buffers[N])
      BY <2>2 DEF HoldBytes, N
    <3>2. CopiedTo(given, buffers, max, N) = Least(max, bytes)
      BY <2>2, <3>1, Zenon DEF CopiedTo
    <3> QED BY <3>2 DEF Least
  <2> QED BY <2>1, <2>2
<1> QED BY <1>7, <1>8, <1>9 DEF Upto

----------------------------------------------------------------------------
(* The chunk's steps.                                                      *)

ChunkInv == HoldBytes(buffers, given) /\ bytes = Len(given) /\ bytes \in 0..MaxWritten

LEMMA ChunkStarts == ChunkInit => ChunkInv
<1> SUFFICES ASSUME ChunkInit
             PROVE  ChunkInv
  OBVIOUS
<1>1. buffers = <<>> /\ bytes = 0 /\ given = <<>>
  BY DEF ChunkInit
<1>2. HoldBytes(<<>>, <<>>)
  BY DEF HoldBytes
<1>3. 0 \in 0..MaxWritten
  BY ChunkAssumption
<1> QED BY <1>1, <1>2, <1>3 DEF ChunkInv

LEMMA ChunkKeeps == ChunkInv => ChunkHolds /\ ChunkTypeOK
<1> SUFFICES ASSUME ChunkInv
             PROVE  ChunkHolds /\ ChunkTypeOK
  OBVIOUS
<1>1. HoldBytes(buffers, given) /\ bytes = Len(given) /\ bytes \in 0..MaxWritten
  BY DEF ChunkInv
<1>2. \A max \in CopySizes : max \in Nat
  BY ChunkAssumption
<1>3. \A max \in CopySizes : cwmp_chunk_copy(max) = SubSeq(given, 1, IF max < bytes THEN max ELSE bytes)
  BY <1>1, <1>2, CopyIs
<1>4. \A i \in DOMAIN buffers : Len(buffers[i]) <= BufferSize
  <2>1. DOMAIN buffers = 1..Len(buffers)
    BY <1>1 DEF HoldBytes
  <2>2. \A i \in 1..Len(buffers) : Len(buffers[i]) \in 1..BufferSize
    BY <1>1 DEF HoldBytes, HasBytes
  <2> QED BY <2>1, <2>2, ChunkAssumption
<1>5. buffers \in Seq(Seq(Nat)) /\ given \in Seq(Nat)
  BY <1>1 DEF HoldBytes
<1> QED BY <1>1, <1>3, <1>4, <1>5 DEF ChunkHolds, ChunkTypeOK

LEMMA ChunkSteps == ChunkInv /\ (ChunkNext \/ UNCHANGED chunkVars) => ChunkInv'
<1> SUFFICES ASSUME ChunkInv, ChunkNext \/ UNCHANGED chunkVars
             PROVE  ChunkInv'
  OBVIOUS
<1>1. CASE UNCHANGED chunkVars
  BY <1>1 DEF ChunkInv, chunkVars
<1>2. CASE cwmp_chunk_clear
  <2>1. buffers' = <<>> /\ bytes' = 0 /\ given' = <<>>
    BY <1>2 DEF cwmp_chunk_clear
  <2>2. HoldBytes(<<>>, <<>>)
    BY DEF HoldBytes
  <2>3. 0 \in 0..MaxWritten
    BY ChunkAssumption
  <2> QED BY <2>1, <2>2, <2>3 DEF ChunkInv
<1>3. CASE cwmp_chunk_write_string
  <2>0. PICK n \in WriteSizes, last \in 0..(MaxWritten \div BufferSize + 1) :
          LET s == [i \in 1..n |-> Len(given) + i]
              r == WriteLoop(buffers, s, last)
          IN  /\ bytes + n <= MaxWritten
              /\ buffers' = r.bs /\ bytes' = bytes + r.writed
              /\ given' = given \o SubSeq(s, 1, r.writed)
    BY <1>3 DEF cwmp_chunk_write_string
  <2>1. PICK s, r :
          /\ s = [i \in 1..n |-> Len(given) + i]
          /\ r = WriteLoop(buffers, s, last)
          /\ bytes + n <= MaxWritten
          /\ buffers' = r.bs /\ bytes' = bytes + r.writed
          /\ given' = given \o SubSeq(s, 1, r.writed)
    BY <2>0
  <2>2. n \in Nat /\ Len(given) \in Nat /\ given \in Seq(Nat) /\ MaxWritten \in Nat /\ bytes \in Nat
    BY ChunkAssumption DEF ChunkInv, HoldBytes
  <2>3. s \in Seq(Nat) /\ Len(s) = n
    BY <2>1, <2>2
  <2>4. r \in ChunkState(given, s)
    BY <2>1, <2>2, <2>3, LoopWrites DEF ChunkInv
  <2>5. WrittenSoFar(r, given, s)
    BY <2>4 DEF ChunkState
  <2>6. r.writed \in 0..n /\ HoldBytes(buffers', given')
    BY <2>1, <2>3, <2>5 DEF WrittenSoFar
  <2>7. Len(given') = Len(given) + r.writed
    <3>1. PICK w \in 0..Len(s) : w = r.writed
      BY <2>3, <2>6
    <3>2. 0 \in 0..(Len(s) - w)
      BY <2>2, <2>3
    <3>3. SubSeq(s, 1, w) \in Seq(Nat) /\ Len(SubSeq(s, 1, w)) = w
      BY <2>3, <3>2, BytesGoOn
    <3>4. Len(given \o SubSeq(s, 1, w)) = Len(given) + Len(SubSeq(s, 1, w))
      BY <2>2, <3>3, ConcatIs
    <3> QED BY <2>1, <3>1, <3>3, <3>4
  <2>8. bytes' = Len(given') /\ bytes' \in 0..MaxWritten
    BY <2>1, <2>2, <2>6, <2>7 DEF ChunkInv
  <2> QED BY <2>6, <2>8 DEF ChunkInv
<1> QED BY <1>1, <1>2, <1>3 DEF ChunkNext

----------------------------------------------------------------------------
(* Rings of nodes, and what an assignment of pointers makes of them.       *)

Pointers(q) == q \in [ListNodes -> ListNodes]

\* Once around: from the head back to it, meeting n entries, each once.
Loop(a, n) ==
  /\ n \in Nat /\ a \in [0..(n + 1) -> ListNodes] /\ a[0] = a[n + 1]
  /\ \A i, j \in 0..n : i # j => a[i] # a[j]

Cycled(nx, pv, a, n) == \A i \in 0..n : nx[a[i]] = a[i + 1] /\ pv[a[i + 1]] = a[i]

LEMMA LoopApart ==
  ASSUME NEW a, NEW n, Loop(a, n), NEW i \in 1..(n + 1), NEW j \in 1..(n + 1), i # j
  PROVE  a[i] # a[j]
<1>1. n \in Nat /\ a[0] = a[n + 1] /\ \A x, y \in 0..n : x # y => a[x] # a[y]
  BY DEF Loop
<1>2. CASE i = n + 1
  BY <1>1, <1>2
<1>3. CASE j = n + 1
  BY <1>1, <1>3
<1>4. CASE i # n + 1 /\ j # n + 1
  BY <1>1, <1>4
<1> QED BY <1>2, <1>3, <1>4

LEMMA LoopNodes ==
  ASSUME NEW a, NEW n, Loop(a, n)
  PROVE  /\ n \in Nat /\ \A i \in 0..(n + 1) : a[i] \in ListNodes
         /\ \A i \in 0..n : i \in 0..(n + 1) /\ i + 1 \in 0..(n + 1) /\ i + 1 \in 1..(n + 1)
BY DEF Loop

\* Pointers that are the same on a ring.
LEMMA CycleStays ==
  ASSUME NEW a, NEW n, Loop(a, n), NEW nx, NEW pv, Cycled(nx, pv, a, n), NEW nx2, NEW pv2,
         \A i \in 0..(n + 1) : nx2[a[i]] = nx[a[i]] /\ pv2[a[i]] = pv[a[i]]
  PROVE  Cycled(nx2, pv2, a, n)
BY LoopNodes DEF Cycled

\* Two pointers set, one after the other.
Pointed(f, x, y, u, v) == [[f EXCEPT ![x] = y] EXCEPT ![u] = v]

\* Nothing of the ring is e.
Without1(a, n, e) == \A i \in 0..(n + 1) : a[i] # e

\* The ring b is a with e behind place k.
PutBehind(b, a, n, k, e) ==
  (\A j \in 0..k : b[j] = a[j]) /\ b[k + 1] = e /\ \A j \in (k + 1)..(n + 1) : b[j + 1] = a[j]

\* It is a without place k.
TakenOut(b, a, n, k) == (\A j \in 0..(k - 1) : b[j] = a[j]) /\ \A j \in k..n : b[j] = a[j + 1]

\* It is a with e at place k.
PutAt(b, a, n, k, e) == b[k] = e /\ \A j \in 0..(n + 1) : j # k => b[j] = a[j]

\* It is a behind the entries of c.
PutBefore(b, a, n, c, m) ==
  b[0] = a[0] /\ (\A j \in 1..m : b[j] = c[j]) /\ \A j \in 1..(n + 1) : b[m + j] = a[j]

ApartRings(a, n, c, m) == \A i \in 0..(n + 1), j \in 0..(m + 1) : a[i] # c[j]

\* An entry e comes behind place k.
LEMMA CycleInsert ==
  ASSUME NEW a, NEW n, Loop(a, n), NEW nx, NEW pv, Cycled(nx, pv, a, n), Pointers(nx), Pointers(pv),
         NEW k \in 0..n, NEW e \in ListNodes, Without1(a, n, e),
         NEW p, p = a[k], NEW q, q = a[k + 1],
         NEW nx2, nx2 = Pointed(nx, e, q, p, e),
         NEW pv2, pv2 = Pointed(pv, q, e, e, p),
         NEW b, PutBehind(b, a, n, k, e)
  PROVE  Cycled(nx2, pv2, b, n + 1)
<1> USE DEF Pointed, Without1, PutBehind
<1>1. n \in Nat /\ p \in ListNodes /\ q \in ListNodes /\ p # e /\ q # e
  BY LoopNodes
<1>2. \A x \in ListNodes : nx2[x] = IF x = p THEN e ELSE IF x = e THEN q ELSE nx[x]
  BY <1>1 DEF Pointers
<1>3. \A x \in ListNodes : pv2[x] = IF x = q THEN e ELSE IF x = e THEN p ELSE pv[x]
  BY <1>1 DEF Pointers
<1>4. ASSUME NEW i \in 0..n, i # k
      PROVE  nx2[a[i]] = a[i + 1] /\ pv2[a[i + 1]] = a[i]
  <2>1. a[i] \in ListNodes /\ a[i + 1] \in ListNodes /\ a[i] # e /\ a[i + 1] # e
    BY LoopNodes
  <2>2. a[i] # p
    BY <1>4 DEF Loop
  <2>3. a[i + 1] # q
    <3>1. i + 1 \in 1..(n + 1) /\ k + 1 \in 1..(n + 1) /\ i + 1 # k + 1
      BY <1>1, <1>4
    <3> QED BY <3>1, LoopApart
  <2>4. nx[a[i]] = a[i + 1] /\ pv[a[i + 1]] = a[i]
    BY DEF Cycled
  <2> QED BY <1>2, <1>3, <2>1, <2>2, <2>3, <2>4, ZenonT(60)
<1>5. ASSUME NEW j \in 0..(n + 1)
      PROVE  nx2[b[j]] = b[j + 1] /\ pv2[b[j + 1]] = b[j]
  <2>1. CASE j < k
    <3>1. b[j] = a[j] /\ b[j + 1] = a[j + 1]
      <4>1. j \in 0..k /\ j + 1 \in 0..k
        BY <1>1, <2>1
      <4> QED BY <4>1
    <3>2. j \in 0..n /\ j # k
      BY <1>1, <2>1
    <3> QED BY <1>4, <3>1, <3>2
  <2>2. CASE j = k
    <3>1. b[j] = p /\ b[j + 1] = e
      BY <1>1, <2>2
    <3> QED BY <1>1, <1>2, <1>3, <3>1
  <2>3. CASE j = k + 1
    <3>1. k + 1 \in (k + 1)..(n + 1)
      BY <1>1
    <3>2. b[j] = e /\ b[j + 1] = q
      BY <2>3, <3>1
    <3> QED BY <1>1, <1>2, <1>3, <3>2
  <2>4. CASE j > k + 1
    <3>1. PICK i \in 0..n : i = j - 1 /\ i > k /\ i # k
      BY <1>1, <2>4
    <3>2. i \in (k + 1)..(n + 1) /\ i + 1 \in (k + 1)..(n + 1) /\ j = i + 1
      BY <1>1, <3>1
    <3>3. b[j] = a[i] /\ b[j + 1] = a[i + 1]
      BY <3>2
    <3> QED BY <1>4, <3>1, <3>3
  <2> QED BY <1>1, <2>1, <2>2, <2>3, <2>4
<1> QED BY <1>5 DEF Cycled

\* The entry at place k goes, and may then point at what it likes.
LEMMA CycleRemove ==
  ASSUME NEW a, NEW n, Loop(a, n), NEW nx, NEW pv, Cycled(nx, pv, a, n), Pointers(nx), Pointers(pv),
         NEW k \in 1..n, NEW p, p = a[k - 1], NEW q, q = a[k + 1], NEW e, e = a[k], NEW w, NEW z,
         NEW nx2, nx2 = Pointed(nx, p, q, e, w),
         NEW pv2, pv2 = Pointed(pv, q, p, e, z),
         NEW b, TakenOut(b, a, n, k)
  PROVE  Cycled(nx2, pv2, b, n - 1)
<1> USE DEF Pointed, TakenOut
<1>1. n \in Nat /\ p \in ListNodes /\ q \in ListNodes /\ e \in ListNodes
  BY LoopNodes
<1>2. p # e /\ q # e
  <2>1. k - 1 \in 0..n /\ k \in 0..n /\ k - 1 # k
    BY <1>1
  <2>2. p # e
    BY <2>1 DEF Loop
  <2>3. k \in 1..(n + 1) /\ k + 1 \in 1..(n + 1) /\ k # k + 1
    BY <1>1
  <2> QED BY <2>2, <2>3, LoopApart
<1>3. \A x \in ListNodes : x # e => nx2[x] = (IF x = p THEN q ELSE nx[x])
  BY <1>1 DEF Pointers
<1>4. \A x \in ListNodes : x # e => pv2[x] = (IF x = q THEN p ELSE pv[x])
  BY <1>1 DEF Pointers
<1>5. ASSUME NEW i \in 0..n, i # k, i # k - 1
      PROVE  nx2[a[i]] = a[i + 1] /\ pv2[a[i + 1]] = a[i]
  <2>1. a[i] \in ListNodes /\ a[i + 1] \in ListNodes
    BY LoopNodes
  <2>2. a[i] # p /\ a[i] # e
    <3>1. k - 1 \in 0..n /\ k \in 0..n
      BY <1>1
    <3> QED BY <1>5, <3>1 DEF Loop
  <2>3. a[i + 1] # q /\ a[i + 1] # e
    <3>1. i + 1 \in 1..(n + 1) /\ k + 1 \in 1..(n + 1) /\ k \in 1..(n + 1) /\ i + 1 # k + 1 /\ i + 1 # k
      BY <1>1, <1>5
    <3> QED BY <3>1, LoopApart
  <2>4. nx[a[i]] = a[i + 1] /\ pv[a[i + 1]] = a[i]
    BY DEF Cycled
  <2> QED BY <1>3, <1>4, <2>1, <2>2, <2>3, <2>4
<1>6. ASSUME NEW j \in 0..(n - 1)
      PROVE  nx2[b[j]] = b[j + 1] /\ pv2[b[j + 1]] = b[j]
  <2>1. CASE j < k - 1
    <3>1. j \in 0..(k - 1) /\ j + 1 \in 0..(k - 1)
      BY <1>1, <2>1
    <3>2. b[j] = a[j] /\ b[j + 1] = a[j + 1]
      BY <3>1
    <3>3. j \in 0..n /\ j # k /\ j # k - 1
      BY <1>1, <2>1
    <3> QED BY <1>5, <3>2, <3>3
  <2>2. CASE j = k - 1
    <3>1. k - 1 \in 0..(k - 1) /\ k \in k..n /\ j + 1 = k
      BY <1>1, <2>2
    <3>2. b[j] = p /\ b[j + 1] = q
      BY <2>2, <3>1
    <3> QED BY <1>1, <1>2, <1>3, <1>4, <3>2
  <2>3. CASE j > k - 1
    <3>1. PICK i \in 0..n : i = j + 1 /\ i # k /\ i # k - 1
      BY <1>1, <2>3
    <3>2. j \in k..n /\ j + 1 \in k..n
      BY <1>1, <2>3
    <3>3. b[j] = a[i] /\ b[j + 1] = a[i + 1]
      BY <3>1, <3>2
    <3> QED BY <1>5, <3>1, <3>3
  <2> QED BY <1>1, <2>1, <2>2, <2>3
<1> QED BY <1>6 DEF Cycled

\* Another one takes the place k.
LEMMA CycleReplace ==
  ASSUME NEW a, NEW n, Loop(a, n), NEW nx, NEW pv, Cycled(nx, pv, a, n), Pointers(nx), Pointers(pv),
         NEW k \in 1..n, NEW p, p = a[k - 1], NEW q, q = a[k + 1], NEW o, o = a[k],
         NEW e \in ListNodes, Without1(a, n, e),
         NEW nx2, nx2 = [Pointed(nx, e, q, p, e) EXCEPT ![o] = o],
         NEW pv2, pv2 = [Pointed(pv, q, e, e, p) EXCEPT ![o] = o],
         NEW b, PutAt(b, a, n, k, e)
  PROVE  Cycled(nx2, pv2, b, n)
<1> USE DEF Pointed, Without1, PutAt
<1>1. n \in Nat /\ p \in ListNodes /\ q \in ListNodes /\ o \in ListNodes /\ p # e /\ q # e /\ o # e
  BY LoopNodes
<1>2. p # o /\ q # o
  <2>1. k - 1 \in 0..n /\ k \in 0..n /\ k - 1 # k
    BY <1>1
  <2>2. p # o
    BY <2>1 DEF Loop
  <2>3. k \in 1..(n + 1) /\ k + 1 \in 1..(n + 1) /\ k # k + 1
    BY <1>1
  <2> QED BY <2>2, <2>3, LoopApart
<1>3. \A x \in ListNodes : x # o => nx2[x] = (IF x = p THEN e ELSE IF x = e THEN q ELSE nx[x])
  BY <1>1 DEF Pointers
<1>4. \A x \in ListNodes : x # o => pv2[x] = (IF x = q THEN e ELSE IF x = e THEN p ELSE pv[x])
  BY <1>1 DEF Pointers
<1>5. ASSUME NEW i \in 0..n, i # k, i # k - 1
      PROVE  nx2[a[i]] = a[i + 1] /\ pv2[a[i + 1]] = a[i]
  <2>1. a[i] \in ListNodes /\ a[i + 1] \in ListNodes /\ a[i] # e /\ a[i + 1] # e
    BY LoopNodes
  <2>2. a[i] # p /\ a[i] # o
    <3>1. k - 1 \in 0..n /\ k \in 0..n
      BY <1>1
    <3> QED BY <1>5, <3>1 DEF Loop
  <2>3. a[i + 1] # q /\ a[i + 1] # o
    <3>1. i + 1 \in 1..(n + 1) /\ k + 1 \in 1..(n + 1) /\ k \in 1..(n + 1) /\ i + 1 # k + 1 /\ i + 1 # k
      BY <1>1, <1>5
    <3> QED BY <3>1, LoopApart
  <2>4. nx[a[i]] = a[i + 1] /\ pv[a[i + 1]] = a[i]
    BY DEF Cycled
  <2> QED BY <1>3, <1>4, <2>1, <2>2, <2>3, <2>4
<1>6. ASSUME NEW j \in 0..n
      PROVE  nx2[b[j]] = b[j + 1] /\ pv2[b[j + 1]] = b[j]
  <2>0. j \in 0..(n + 1) /\ j + 1 \in 0..(n + 1)
    BY <1>1
  <2>1. CASE j # k /\ j # k - 1
    <3>1. b[j] = a[j] /\ b[j + 1] = a[j + 1]
      BY <2>0, <2>1
    <3> QED BY <1>5, <2>1, <3>1
  <2>2. CASE j = k - 1
    <3>1. b[j] = p /\ b[j + 1] = e
      BY <2>0, <2>2
    <3> QED BY <1>1, <1>2, <1>3, <1>4, <3>1
  <2>3. CASE j = k
    <3>1. b[j] = e /\ b[j + 1] = q
      BY <2>0, <2>3
    <3> QED BY <1>1, <1>2, <1>3, <1>4, <3>1
  <2> QED BY <2>1, <2>2, <2>3
<1> QED BY <1>6 DEF Cycled

\* The entries of the ring c come first in the ring a.
LEMMA CycleJoin ==
  ASSUME NEW a, NEW n, Loop(a, n), NEW nx, NEW pv, Cycled(nx, pv, a, n), Pointers(nx), Pointers(pv),
         NEW c, NEW m, Loop(c, m), Cycled(nx, pv, c, m), m > 0,
         ApartRings(a, n, c, m),
         NEW nx2, nx2 = Pointed(nx, a[0], c[1], c[m], a[1]),
         NEW pv2, pv2 = Pointed(pv, c[1], a[0], a[1], c[m]),
         NEW b, PutBefore(b, a, n, c, m)
  PROVE  Cycled(nx2, pv2, b, m + n)
<1> USE DEF Pointed, PutBefore, ApartRings
<1>1. /\ n \in Nat /\ m \in Nat /\ 0 \in 0..n /\ 1 \in 0..(n + 1) /\ 0 \in 0..(n + 1)
      /\ 1 \in 0..(m + 1) /\ m \in 0..(m + 1) /\ 1 \in 1..m /\ m \in 1..m /\ 1 \in 1..(n + 1)
  BY LoopNodes
<1>2. PICK h : h = a[0]
  OBVIOUS
<1>3. PICK q : q = a[1]
  OBVIOUS
<1>4. PICK first : first = c[1]
  OBVIOUS
<1>5. PICK last : last = c[m]
  OBVIOUS
<1>6. h \in ListNodes /\ q \in ListNodes /\ first \in ListNodes /\ last \in ListNodes
  BY <1>1, <1>2, <1>3, <1>4, <1>5, LoopNodes
<1>7. h # first /\ h # last /\ q # first /\ q # last
  BY <1>1, <1>2, <1>3, <1>4, <1>5
<1>8. \A x \in ListNodes : nx2[x] = IF x = last THEN q ELSE IF x = h THEN first ELSE nx[x]
  BY <1>2, <1>3, <1>4, <1>5, <1>6 DEF Pointers
<1>9. \A x \in ListNodes : pv2[x] = IF x = q THEN last ELSE IF x = first THEN h ELSE pv[x]
  BY <1>2, <1>3, <1>4, <1>5, <1>6 DEF Pointers
<1>10. ASSUME NEW i \in 1..n
       PROVE  nx2[a[i]] = a[i + 1] /\ pv2[a[i + 1]] = a[i]
  <2>0. i \in 0..n /\ i \in 0..(n + 1) /\ i + 1 \in 0..(n + 1) /\ i # 0 /\ i + 1 \in 1..(n + 1) /\ i + 1 # 1
    BY <1>1
  <2>1. a[i] \in ListNodes /\ a[i + 1] \in ListNodes
    BY <2>0, LoopNodes
  <2>2. a[i] # h
    BY <1>1, <1>2, <2>0 DEF Loop
  <2>3. a[i + 1] # q
    BY <1>1, <1>3, <2>0, LoopApart
  <2>4. a[i] # last /\ a[i + 1] # first
    BY <1>1, <1>4, <1>5, <2>0
  <2>5. nx[a[i]] = a[i + 1] /\ pv[a[i + 1]] = a[i]
    BY <2>0 DEF Cycled
  <2> QED BY <1>8, <1>9, <2>1, <2>2, <2>3, <2>4, <2>5
<1>11. ASSUME NEW i \in 1..(m - 1)
       PROVE  nx2[c[i]] = c[i + 1] /\ pv2[c[i + 1]] = c[i]
  <2>0. i \in 0..m /\ m \in 0..m /\ i \in 0..(m + 1) /\ i + 1 \in 0..(m + 1) /\ i # m
        /\ i + 1 \in 1..(m + 1) /\ 1 \in 1..(m + 1) /\ i + 1 # 1
    BY <1>1
  <2>1. c[i] \in ListNodes /\ c[i + 1] \in ListNodes
    BY <2>0, LoopNodes
  <2>2. c[i] # last
    BY <1>5, <2>0 DEF Loop
  <2>3. c[i + 1] # first
    BY <1>4, <2>0, LoopApart
  <2>4. c[i] # h /\ c[i + 1] # q
    BY <1>1, <1>2, <1>3, <2>0
  <2>5. nx[c[i]] = c[i + 1] /\ pv[c[i + 1]] = c[i]
    BY <2>0 DEF Cycled
  <2> QED BY <1>8, <1>9, <2>1, <2>2, <2>3, <2>4, <2>5
<1>12. ASSUME NEW j \in 0..(m + n)
       PROVE  nx2[b[j]] = b[j + 1] /\ pv2[b[j + 1]] = b[j]
  <2>1. CASE j = 0
    <3>1. b[j] = h /\ b[j + 1] = first
      BY <1>1, <1>2, <1>4, <2>1
    <3> QED BY <1>6, <1>7, <1>8, <1>9, <3>1
  <2>2. CASE j \in 1..(m - 1)
    <3>1. j \in 1..m /\ j + 1 \in 1..m
      BY <1>1, <2>2
    <3>2. b[j] = c[j] /\ b[j + 1] = c[j + 1]
      BY <3>1
    <3> QED BY <1>11, <2>2, <3>2
  <2>3. CASE j = m
    <3>1. b[j] = last /\ b[j + 1] = q
      BY <1>1, <1>3, <1>5, <2>3
    <3> QED BY <1>6, <1>7, <1>8, <1>9, <3>1
  <2>4. CASE j > m
    <3>1. PICK i \in 1..n : i = j - m
      BY <1>1, <2>4
    <3>2. i \in 1..(n + 1) /\ i + 1 \in 1..(n + 1) /\ j = m + i /\ j + 1 = m + (i + 1)
      BY <1>1, <3>1
    <3>3. b[j] = a[i] /\ b[j + 1] = a[i + 1]
      BY <3>2
    <3> QED BY <1>10, <3>3
  <2> QED BY <1>1, <2>1, <2>2, <2>3, <2>4
<1> QED BY <1>12 DEF Cycled

----------------------------------------------------------------------------
(* The rings of the callers' lists.                                        *)

RingOf(h, s) == [i \in 0..(Len(s) + 1) |-> IF i \in 1..Len(s) THEN s[i] ELSE h]

\* What a caller puts into a list: entries, each once.
ListOK(h, s) ==
  /\ h \in ListHeads /\ s \in Seq(ListEntries)
  /\ \A i, j \in 1..Len(s) : i # j => s[i] # s[j]

LEMMA RingIs ==
  ASSUME NEW h, NEW s, ListOK(h, s)
  PROVE  /\ Loop(RingOf(h, s), Len(s)) /\ Len(s) \in Nat
         /\ RingOf(h, s)[0] = h /\ RingOf(h, s)[Len(s) + 1] = h
         /\ \A i \in 1..Len(s) : RingOf(h, s)[i] = s[i] /\ s[i] \in ListEntries /\ s[i] # h
<1>1. PICK n \in Nat : n = Len(s)
  BY DEF ListOK
<1>2. PICK a : a = RingOf(h, s)
  OBVIOUS
<1>3. a = [i \in 0..(n + 1) |-> IF i \in 1..n THEN s[i] ELSE h]
  BY <1>1, <1>2 DEF RingOf
<1>4. \A i \in 1..n : s[i] \in ListEntries /\ s[i] # h
  BY <1>1, ListAssumption DEF ListOK
<1>5. h \in ListNodes /\ \A i \in 1..n : s[i] \in ListNodes
  BY <1>4 DEF ListNodes, ListOK
<1>6. a \in [0..(n + 1) -> ListNodes] /\ a[0] = h /\ a[n + 1] = h /\ \A i \in 1..n : a[i] = s[i]
  BY <1>1, <1>3, <1>5
<1>7. ASSUME NEW i \in 0..n, NEW j \in 0..n, i # j
      PROVE  a[i] # a[j]
  <2>1. i = 0 \/ i \in 1..n
    OBVIOUS
  <2>2. j = 0 \/ j \in 1..n
    OBVIOUS
  <2>3. CASE i \in 1..n /\ j \in 1..n
    BY <1>1, <1>6, <1>7, <2>3 DEF ListOK
  <2> QED BY <1>4, <1>6, <1>7, <2>1, <2>2, <2>3
<1>8. Loop(a, n)
  BY <1>6, <1>7 DEF Loop
<1> QED BY <1>1, <1>2, <1>4, <1>6, <1>8

Rings(nx, pv, h, s) == Cycled(nx, pv, RingOf(h, s), Len(s))

\* A node of a ring is its head or one of its entries.
LEMMA RingMembers ==
  ASSUME NEW h, NEW s, ListOK(h, s), NEW i \in 0..(Len(s) + 1)
  PROVE  RingOf(h, s)[i] = h \/ \E j \in 1..Len(s) : RingOf(h, s)[i] = s[j]
<1>1. Len(s) \in Nat
  BY DEF ListOK
<1>2. i = 0 \/ i = Len(s) + 1 \/ i \in 1..Len(s)
  BY <1>1
<1> QED BY <1>2, RingIs

LEMMA RingsStay ==
  ASSUME NEW h, NEW s, ListOK(h, s), NEW nx, NEW pv, Rings(nx, pv, h, s), NEW nx2, NEW pv2,
         nx2[h] = nx[h], pv2[h] = pv[h],
         \A j \in 1..Len(s) : nx2[s[j]] = nx[s[j]] /\ pv2[s[j]] = pv[s[j]]
  PROVE  Rings(nx2, pv2, h, s)
<1>1. PICK a : a = RingOf(h, s)
  OBVIOUS
<1>2. PICK n : n = Len(s)
  OBVIOUS
<1>3. Loop(a, n) /\ Cycled(nx, pv, a, n)
  BY <1>1, <1>2, RingIs DEF Rings
<1>4. \A i \in 0..(n + 1) : nx2[a[i]] = nx[a[i]] /\ pv2[a[i]] = pv[a[i]]
  BY <1>1, <1>2, RingMembers
<1>5. Cycled(nx2, pv2, a, n)
  BY <1>3, <1>4, CycleStays
<1> QED BY <1>1, <1>2, <1>5 DEF Rings

\* What an entry that is in no list is to a ring.
NotIn(e, s) == \A i \in 1..Len(s) : s[i] # e

LEMMA RingWithout ==
  ASSUME NEW h, NEW s, ListOK(h, s), NEW e \in ListEntries, NotIn(e, s)
  PROVE  e \in ListNodes /\ e # h /\ Without1(RingOf(h, s), Len(s), e)
<1>1. e # h /\ e \in ListNodes
  BY ListAssumption DEF ListOK, ListNodes
<1> QED BY <1>1, RingMembers DEF NotIn, Without1

\* list_add: in front.
LEMMA RingsAddFirst ==
  ASSUME NEW nx, NEW pv, Pointers(nx), Pointers(pv), NEW h, NEW s, ListOK(h, s), Rings(nx, pv, h, s),
         NEW e \in ListEntries, NotIn(e, s),
         NEW nx2, nx2 = Pointed(nx, e, nx[h], h, e),
         NEW pv2, pv2 = Pointed(pv, nx[h], e, e, h)
  PROVE  ListOK(h, <<e>> \o s) /\ Rings(nx2, pv2, h, <<e>> \o s)
<1>1. PICK n \in Nat : n = Len(s)
  BY DEF ListOK
<1>2. PICK a : a = RingOf(h, s)
  OBVIOUS
<1>3. PICK t : t = <<e>> \o s
  OBVIOUS
<1>4. /\ t \in Seq(ListEntries) /\ Len(t) = n + 1 /\ t[1] = e /\ \A i \in 1..n : t[i + 1] = s[i]
  <2>1. <<e>> \in Seq(ListEntries) /\ Len(<<e>>) = 1 /\ <<e>>[1] = e /\ s \in Seq(ListEntries) /\ 1 \in 1..1
    BY DEF ListOK
  <2>2. /\ t \in Seq(ListEntries) /\ Len(t) = Len(<<e>>) + Len(s)
        /\ \A j \in 1..Len(<<e>>) : t[j] = <<e>>[j]
        /\ \A k \in 1..Len(s) : t[Len(<<e>>) + k] = s[k]
    BY <1>3, <2>1, ConcatIs
  <2>3. \A k \in 1..n : t[1 + k] = s[k]
    BY <1>1, <2>1, <2>2
  <2>4. \A k \in 1..n : 1 + k = k + 1
    OBVIOUS
  <2> QED BY <1>1, <2>1, <2>2, <2>3, <2>4
<1>5. ASSUME NEW i \in 1..(n + 1)
      PROVE  i = 1 \/ \E k \in 1..n : i = k + 1
  <2>1. i = 1 \/ (i - 1 \in 1..n /\ i = (i - 1) + 1)
    OBVIOUS
  <2> QED BY <2>1
<1>6. ListOK(h, t)
  <2>1. ASSUME NEW i \in 1..(n + 1), NEW j \in 1..(n + 1), i # j
        PROVE  t[i] # t[j]
    <3>1. CASE i = 1
      <4>1. PICK k \in 1..n : j = k + 1
        BY <1>5, <2>1, <3>1
      <4> QED BY <1>1, <1>4, <3>1, <4>1 DEF NotIn
    <3>2. CASE j = 1
      <4>1. PICK k \in 1..n : i = k + 1
        BY <1>5, <2>1, <3>2
      <4> QED BY <1>1, <1>4, <3>2, <4>1 DEF NotIn
    <3>3. CASE i # 1 /\ j # 1
      <4>1. PICK k \in 1..n : i = k + 1
        BY <1>5, <3>3
      <4>2. PICK l \in 1..n : j = l + 1
        BY <1>5, <3>3
      <4>3. k # l
        BY <2>1, <4>1, <4>2
      <4> QED BY <1>1, <1>4, <4>1, <4>2, <4>3 DEF ListOK
    <3> QED BY <3>1, <3>2, <3>3
  <2> QED BY <1>4, <2>1 DEF ListOK
<1>7. PICK b : b = RingOf(h, t)
  OBVIOUS
<1>8. /\ b[0] = h /\ b[n + 2] = h /\ b[1] = e /\ \A k \in 1..n : b[k + 1] = s[k]
  <2>1. /\ b[0] = h /\ b[(n + 1) + 1] = h /\ \A i \in 1..(n + 1) : b[i] = t[i]
    <3>1. b[0] = h /\ b[Len(t) + 1] = h /\ \A i \in 1..Len(t) : b[i] = t[i]
      BY <1>6, <1>7, RingIs
    <3> QED BY <1>4, <3>1
  <2>2. (n + 1) + 1 = n + 2 /\ 1 \in 1..(n + 1) /\ \A k \in 1..n : k + 1 \in 1..(n + 1)
    OBVIOUS
  <2> QED BY <1>4, <2>1, <2>2
<1>9. /\ Loop(a, n) /\ Cycled(nx, pv, a, n) /\ a[0] = h /\ a[n + 1] = h /\ \A k \in 1..n : a[k] = s[k]
  BY <1>1, <1>2, RingIs DEF Rings
<1>10. nx[h] = a[0 + 1] /\ 0 \in 0..n
  BY <1>9 DEF Cycled
<1>11. \A j \in 0..0 : b[j] = a[j]
  BY <1>8, <1>9
<1>12. \A j \in (0 + 1)..(n + 1) : b[j + 1] = a[j]
  <2> SUFFICES ASSUME NEW j \in 1..(n + 1) PROVE b[j + 1] = a[j]
    OBVIOUS
  <2>1. j \in 1..n \/ (j = n + 1 /\ j + 1 = n + 2)
    OBVIOUS
  <2> QED BY <1>8, <1>9, <2>1
<1>13. b[0 + 1] = e
  BY <1>8
<1>14. e \in ListNodes /\ Without1(a, n, e)
  BY <1>1, <1>2, RingWithout
<1>15. Cycled(nx2, pv2, b, n + 1)
  <2>1. PICK q : q = nx[h]
    OBVIOUS
  <2>2. nx2 = Pointed(nx, e, q, h, e) /\ pv2 = Pointed(pv, q, e, e, h)
        /\ q = a[0 + 1] /\ h = a[0]
    BY <1>9, <1>10, <2>1
  <2>3. PICK k \in 0..n : k = 0
    BY <1>10
  <2>4. PutBehind(b, a, n, k, e) /\ q = a[k + 1] /\ h = a[k]
    BY <1>9, <1>10, <1>11, <1>12, <1>13, <2>1, <2>3 DEF PutBehind
  <2>5. Loop(a, n) /\ Cycled(nx, pv, a, n)
    BY <1>9
  <2> QED BY <1>14, <2>2, <2>4, <2>5, CycleInsert
<1> QED BY <1>3, <1>4, <1>6, <1>7, <1>15 DEF Rings

\* list_add_tail: at the end.
LEMMA RingsAddLast ==
  ASSUME NEW nx, NEW pv, Pointers(nx), Pointers(pv), NEW h, NEW s, ListOK(h, s), Rings(nx, pv, h, s),
         NEW e \in ListEntries, NotIn(e, s), NEW p, p = pv[h],
         NEW nx2, nx2 = Pointed(nx, e, h, p, e),
         NEW pv2, pv2 = Pointed(pv, h, e, e, p)
  PROVE  ListOK(h, Append(s, e)) /\ Rings(nx2, pv2, h, Append(s, e))
<1>1. PICK n \in Nat : n = Len(s)
  BY DEF ListOK
<1>2. PICK a : a = RingOf(h, s)
  OBVIOUS
<1>3. PICK t : t = Append(s, e)
  OBVIOUS
<1>4. /\ t \in Seq(ListEntries) /\ Len(t) = n + 1 /\ t[n + 1] = e /\ \A i \in 1..n : t[i] = s[i]
  BY <1>1, <1>3, AppendProperties DEF ListOK
<1>5. \A i \in 1..(n + 1) : i \in 1..n \/ i = n + 1
  OBVIOUS
<1>6. ListOK(h, t)
  <2>1. ASSUME NEW i \in 1..(n + 1), NEW j \in 1..(n + 1), i # j
        PROVE  t[i] # t[j]
    <3>1. CASE i \in 1..n /\ j \in 1..n
      BY <1>1, <1>4, <2>1, <3>1 DEF ListOK
    <3>2. CASE i \in 1..n /\ j = n + 1
      BY <1>1, <1>4, <3>2 DEF NotIn
    <3>3. CASE i = n + 1 /\ j \in 1..n
      BY <1>1, <1>4, <3>3 DEF NotIn
    <3> QED BY <1>5, <2>1, <3>1, <3>2, <3>3
  <2> QED BY <1>4, <2>1 DEF ListOK
<1>7. PICK b : b = RingOf(h, t)
  OBVIOUS
<1>8. /\ b[0] = h /\ b[n + 2] = h /\ b[n + 1] = e /\ \A k \in 1..n : b[k] = s[k]
  <2>1. /\ b[0] = h /\ b[(n + 1) + 1] = h /\ \A i \in 1..(n + 1) : b[i] = t[i]
    <3>1. b[0] = h /\ b[Len(t) + 1] = h /\ \A i \in 1..Len(t) : b[i] = t[i]
      BY <1>6, <1>7, RingIs
    <3> QED BY <1>4, <3>1
  <2>2. (n + 1) + 1 = n + 2 /\ n + 1 \in 1..(n + 1) /\ \A k \in 1..n : k \in 1..(n + 1)
    OBVIOUS
  <2> QED BY <1>4, <2>1, <2>2
<1>9. Loop(a, n) /\ Cycled(nx, pv, a, n)
  BY <1>1, <1>2, RingIs DEF Rings
<1>10. a[0] = h /\ a[n + 1] = h /\ \A k \in 1..n : a[k] = s[k]
  BY <1>1, <1>2, RingIs
<1>11. p = a[n] /\ n \in 0..n
  <2>1. n \in 0..n
    OBVIOUS
  <2> QED BY <1>9, <1>10, <2>1 DEF Cycled
<1>12. PutBehind(b, a, n, n, e)
  <2>1. ASSUME NEW j \in 0..n
        PROVE  b[j] = a[j]
    <3>1. j = 0 \/ j \in 1..n
      OBVIOUS
    <3> QED BY <1>8, <1>10, <3>1
  <2>2. ASSUME NEW j \in (n + 1)..(n + 1)
        PROVE  b[j + 1] = a[j]
    <3>1. j = n + 1 /\ j + 1 = n + 2
      OBVIOUS
    <3> QED BY <1>8, <1>10, <3>1
  <2> QED BY <1>8, <2>1, <2>2 DEF PutBehind
<1>13. e \in ListNodes /\ Without1(a, n, e)
  BY <1>1, <1>2, RingWithout
<1>14. Cycled(nx2, pv2, b, n + 1)
  <2>1. PICK k \in 0..n : k = n
    BY <1>11
  <2>2. PutBehind(b, a, n, k, e) /\ p = a[k] /\ h = a[k + 1]
    BY <1>10, <1>11, <1>12, <2>1
  <2> QED BY <1>9, <1>13, <2>2, CycleInsert
<1> QED BY <1>3, <1>4, <1>6, <1>7, <1>14 DEF Rings

\* list_del: the entry at place i.
LEMMA RingsRemove ==
  ASSUME NEW nx, NEW pv, Pointers(nx), Pointers(pv), NEW h, NEW s, ListOK(h, s), Rings(nx, pv, h, s),
         NEW i \in 1..Len(s), NEW e, e = s[i], NEW p, p = pv[e], NEW q, q = nx[e], NEW w, NEW z,
         NEW nx2, nx2 = Pointed(nx, p, q, e, w),
         NEW pv2, pv2 = Pointed(pv, q, p, e, z)
  PROVE  ListOK(h, RemoveAt(s, i)) /\ Rings(nx2, pv2, h, RemoveAt(s, i))
<1>1. PICK n \in Nat : n = Len(s)
  BY DEF ListOK
<1>2. PICK a : a = RingOf(h, s)
  OBVIOUS
<1>3. PICK t : t = RemoveAt(s, i)
  OBVIOUS
<1>4. t \in Seq(ListEntries) /\ Removed(t, s, i)
  BY <1>3, RemoveAtIs DEF ListOK
<1>5. /\ Len(t) = n - 1
      /\ \A j \in 1..(i - 1) : t[j] = s[j]
      /\ \A j \in i..(n - 1) : t[j] = s[j + 1]
  BY <1>1, <1>4 DEF Removed
<1>6. i \in 1..n /\ n - 1 \in Nat
  BY <1>1
<1>7. ListOK(h, t)
  <2>1. ASSUME NEW j \in 1..(n - 1)
        PROVE  \E k \in 1..n : t[j] = s[k] /\ k = IF j < i THEN j ELSE j + 1
    <3>1. CASE j < i
      <4>1. j \in 1..(i - 1) /\ j \in 1..n
        BY <1>6, <3>1
      <4> QED BY <1>5, <3>1, <4>1
    <3>2. CASE ~(j < i)
      <4>1. j \in i..(n - 1) /\ j + 1 \in 1..n
        BY <1>6, <3>2
      <4> QED BY <1>5, <3>2, <4>1
    <3> QED BY <3>1, <3>2
  <2>2. ASSUME NEW j \in 1..(n - 1), NEW k \in 1..(n - 1), j # k
        PROVE  t[j] # t[k]
    <3>1. PICK x \in 1..n : t[j] = s[x] /\ x = IF j < i THEN j ELSE j + 1
      BY <2>1
    <3>2. PICK y \in 1..n : t[k] = s[y] /\ y = IF k < i THEN k ELSE k + 1
      BY <2>1
    <3>3. x # y
      BY <1>6, <2>2, <3>1, <3>2
    <3> QED BY <1>1, <3>1, <3>2, <3>3 DEF ListOK
  <2> QED BY <1>4, <1>5, <2>2 DEF ListOK
<1>8. PICK b : b = RingOf(h, t)
  OBVIOUS
<1>9. b[0] = h /\ b[n] = h /\ \A k \in 1..(n - 1) : b[k] = t[k]
  <2>1. b[0] = h /\ b[(n - 1) + 1] = h /\ \A k \in 1..(n - 1) : b[k] = t[k]
    <3>1. b[0] = h /\ b[Len(t) + 1] = h /\ \A k \in 1..Len(t) : b[k] = t[k]
      BY <1>7, <1>8, RingIs
    <3> QED BY <1>5, <3>1
  <2>2. (n - 1) + 1 = n
    OBVIOUS
  <2> QED BY <2>1, <2>2
<1>10. Loop(a, n) /\ Cycled(nx, pv, a, n)
  BY <1>1, <1>2, RingIs DEF Rings
<1>11. a[0] = h /\ a[n + 1] = h /\ \A k \in 1..n : a[k] = s[k]
  BY <1>1, <1>2, RingIs
<1>12. e = a[i] /\ p = a[i - 1] /\ q = a[i + 1]
  <2>1. e = a[i]
    BY <1>6, <1>11
  <2>2. i \in 0..n /\ i - 1 \in 0..n /\ (i - 1) + 1 = i
    BY <1>6
  <2> QED BY <1>10, <2>1, <2>2 DEF Cycled
<1>13. TakenOut(b, a, n, i)
  <2>1. ASSUME NEW j \in 0..(i - 1)
        PROVE  b[j] = a[j]
    <3>1. j = 0 \/ (j \in 1..(i - 1) /\ j \in 1..(n - 1) /\ j \in 1..n)
      BY <1>6
    <3> QED BY <1>5, <1>9, <1>11, <3>1
  <2>2. ASSUME NEW j \in i..n
        PROVE  b[j] = a[j + 1]
    <3>1. j = n \/ (j \in i..(n - 1) /\ j \in 1..(n - 1) /\ j + 1 \in 1..n)
      BY <1>6
    <3> QED BY <1>5, <1>9, <1>11, <3>1
  <2> QED BY <2>1, <2>2 DEF TakenOut
<1>14. Cycled(nx2, pv2, b, n - 1)
  BY <1>6, <1>10, <1>12, <1>13, CycleRemove
<1> QED BY <1>3, <1>5, <1>7, <1>8, <1>14 DEF Rings

\* list_replace_init: another entry at place i.
LEMMA RingsReplace ==
  ASSUME NEW nx, NEW pv, Pointers(nx), Pointers(pv), NEW h, NEW s, ListOK(h, s), Rings(nx, pv, h, s),
         NEW i \in 1..Len(s), NEW o, o = s[i], NEW p, p = pv[o], NEW q, q = nx[o],
         NEW e \in ListEntries, NotIn(e, s),
         NEW nx2, nx2 = [Pointed(nx, e, q, p, e) EXCEPT ![o] = o],
         NEW pv2, pv2 = [Pointed(pv, q, e, e, p) EXCEPT ![o] = o]
  PROVE  ListOK(h, ReplaceAt(s, i, e)) /\ Rings(nx2, pv2, h, ReplaceAt(s, i, e))
<1>1. PICK n \in Nat : n = Len(s)
  BY DEF ListOK
<1>2. PICK a : a = RingOf(h, s)
  OBVIOUS
<1>3. PICK t : t = ReplaceAt(s, i, e)
  OBVIOUS
<1>4. /\ t \in Seq(ListEntries) /\ Len(t) = n /\ t[i] = e
      /\ \A j \in 1..n : j # i => t[j] = s[j]
  <2>1. t = [s EXCEPT ![i] = e] /\ s \in Seq(ListEntries)
    BY <1>3 DEF ReplaceAt, ListOK
  <2> QED BY <1>1, <2>1
<1>5. i \in 1..n
  BY <1>1
<1>6. ListOK(h, t)
  <2>1. ASSUME NEW j \in 1..n, NEW k \in 1..n, j # k
        PROVE  t[j] # t[k]
    <3>1. s[j] # s[k] /\ s[j] # e /\ s[k] # e
      BY <1>1, <2>1 DEF ListOK, NotIn
    <3> QED BY <1>4, <2>1, <3>1
  <2> QED BY <1>4, <2>1 DEF ListOK
<1>7. PICK b : b = RingOf(h, t)
  OBVIOUS
<1>8. b[0] = h /\ b[n + 1] = h /\ \A k \in 1..n : b[k] = t[k]
  <2>1. b[0] = h /\ b[Len(t) + 1] = h /\ \A k \in 1..Len(t) : b[k] = t[k]
    BY <1>6, <1>7, RingIs
  <2> QED BY <1>4, <2>1
<1>9. Loop(a, n) /\ Cycled(nx, pv, a, n)
  BY <1>1, <1>2, RingIs DEF Rings
<1>10. a[0] = h /\ a[n + 1] = h /\ \A k \in 1..n : a[k] = s[k]
  BY <1>1, <1>2, RingIs
<1>11. o = a[i] /\ p = a[i - 1] /\ q = a[i + 1]
  <2>1. o = a[i]
    BY <1>5, <1>10
  <2>2. i \in 0..n /\ i - 1 \in 0..n /\ (i - 1) + 1 = i
    BY <1>5
  <2> QED BY <1>9, <2>1, <2>2 DEF Cycled
<1>12. PutAt(b, a, n, i, e)
  <2>1. b[i] = e
    BY <1>4, <1>5, <1>8
  <2>2. ASSUME NEW j \in 0..(n + 1), j # i
        PROVE  b[j] = a[j]
    <3>1. j = 0 \/ j = n + 1 \/ j \in 1..n
      OBVIOUS
    <3> QED BY <1>4, <1>8, <1>10, <2>2, <3>1
  <2> QED BY <2>1, <2>2 DEF PutAt
<1>13. e \in ListNodes /\ Without1(a, n, e)
  BY <1>1, <1>2, RingWithout
<1>14. Cycled(nx2, pv2, b, n)
  BY <1>5, <1>9, <1>11, <1>12, <1>13, CycleReplace, SMTT(60)
<1> QED BY <1>3, <1>4, <1>6, <1>7, <1>14 DEF Rings

\* list_splice: the entries of another list in front.
LEMMA RingsJoin ==
  ASSUME NEW nx, NEW pv, Pointers(nx), Pointers(pv), NEW h, NEW s, ListOK(h, s), Rings(nx, pv, h, s),
         NEW l, NEW r, ListOK(l, r), Rings(nx, pv, l, r), l # h, Len(r) > 0,
         \A i \in 1..Len(r) : NotIn(r[i], s),
         NEW nx2, nx2 = Pointed(nx, h, nx[l], pv[l], nx[h]),
         NEW pv2, pv2 = Pointed(pv, nx[l], h, nx[h], pv[l])
  PROVE  ListOK(h, r \o s) /\ Rings(nx2, pv2, h, r \o s)
<1>1. PICK n \in Nat : n = Len(s)
  BY DEF ListOK
<1>2. PICK m \in Nat : m = Len(r) /\ m > 0
  BY DEF ListOK
<1>3. PICK a : a = RingOf(h, s)
  OBVIOUS
<1>4. PICK c : c = RingOf(l, r)
  OBVIOUS
<1>5. PICK t : t = r \o s
  OBVIOUS
<1>6. /\ t \in Seq(ListEntries) /\ Len(t) = m + n
      /\ \A j \in 1..m : t[j] = r[j]
      /\ \A k \in 1..n : t[m + k] = s[k]
  <2>1. r \in Seq(ListEntries) /\ s \in Seq(ListEntries)
    BY DEF ListOK
  <2>2. /\ r \o s \in Seq(ListEntries) /\ Len(r \o s) = Len(r) + Len(s)
        /\ \A j \in 1..Len(r) : (r \o s)[j] = r[j]
        /\ \A k \in 1..Len(s) : (r \o s)[Len(r) + k] = s[k]
    BY <2>1, ConcatIs
  <2> QED BY <1>1, <1>2, <1>5, <2>2
<1>7. ASSUME NEW j \in 1..(m + n)
      PROVE  j \in 1..m \/ \E k \in 1..n : j = m + k
  <2>1. j \in 1..m \/ (j - m \in 1..n /\ j = m + (j - m))
    OBVIOUS
  <2> QED BY <2>1
<1>8. \A j \in 1..m, k \in 1..n : r[j] # s[k]
  BY <1>1, <1>2 DEF NotIn
<1>9. ListOK(h, t)
  <2>1. ASSUME NEW i \in 1..(m + n), NEW j \in 1..(m + n), i # j
        PROVE  t[i] # t[j]
    <3>1. CASE i \in 1..m /\ j \in 1..m
      BY <1>2, <1>6, <2>1, <3>1 DEF ListOK
    <3>2. CASE i \in 1..m /\ j \notin 1..m
      <4>1. PICK k \in 1..n : j = m + k
        BY <1>7, <3>2
      <4> QED BY <1>6, <1>8, <3>2, <4>1
    <3>3. CASE i \notin 1..m /\ j \in 1..m
      <4>1. PICK k \in 1..n : i = m + k
        BY <1>7, <3>3
      <4> QED BY <1>6, <1>8, <3>3, <4>1
    <3>4. CASE i \notin 1..m /\ j \notin 1..m
      <4>1. PICK x \in 1..n : i = m + x
        BY <1>7, <3>4
      <4>2. PICK y \in 1..n : j = m + y
        BY <1>7, <3>4
      <4>3. x # y
        BY <2>1, <4>1, <4>2
      <4>4. t[i] = s[x] /\ t[j] = s[y]
        BY <1>6, <4>1, <4>2
      <4>5. s[x] # s[y]
        BY <1>1, <4>3 DEF ListOK
      <4> QED BY <4>4, <4>5
    <3> QED BY <3>1, <3>2, <3>3, <3>4
  <2> QED BY <1>6, <2>1 DEF ListOK
<1>10. PICK b : b = RingOf(h, t)
  OBVIOUS
<1>11. b[0] = h /\ b[m + n + 1] = h /\ \A k \in 1..(m + n) : b[k] = t[k]
  <2>1. PICK x : x = Len(t) /\ x = m + n
    BY <1>6
  <2>2. b[0] = h /\ b[Len(t) + 1] = h /\ \A k \in 1..Len(t) : b[k] = t[k]
    BY <1>9, <1>10, RingIs
  <2> QED BY <2>1, <2>2
<1>12. Loop(a, n) /\ Cycled(nx, pv, a, n) /\ Loop(c, m) /\ Cycled(nx, pv, c, m)
  BY <1>1, <1>2, <1>3, <1>4, RingIs DEF Rings
<1>13. /\ a[0] = h /\ a[n + 1] = h /\ \A k \in 1..n : a[k] = s[k] /\ s[k] \in ListEntries
  BY <1>1, <1>3, RingIs
<1>14. /\ c[0] = l /\ c[m + 1] = l /\ \A k \in 1..m : c[k] = r[k] /\ r[k] \in ListEntries
  BY <1>2, <1>4, RingIs
<1>15. nx[h] = a[1] /\ nx[l] = c[1] /\ pv[l] = c[m]
  <2>1. 0 \in 0..n /\ 0 \in 0..m /\ m \in 0..m /\ 0 + 1 = 1
    OBVIOUS
  <2> QED BY <1>12, <1>13, <1>14, <2>1 DEF Cycled
<1>16. ApartRings(a, n, c, m)
  <2> SUFFICES ASSUME NEW i \in 0..(n + 1), NEW j \in 0..(m + 1) PROVE a[i] # c[j]
    BY DEF ApartRings
  <2>1. (i \in 1..n \/ i = 0 \/ i = n + 1) /\ (j \in 1..m \/ j = 0 \/ j = m + 1)
    OBVIOUS
  <2>2. h \notin ListEntries /\ l \notin ListEntries
    BY ListAssumption DEF ListOK
  <2> QED BY <1>8, <1>13, <1>14, <2>1, <2>2
<1>17. PutBefore(b, a, n, c, m)
  <2>1. \A j \in 1..m : b[j] = c[j]
    <3>1. \A j \in 1..m : j \in 1..(m + n)
      OBVIOUS
    <3> QED BY <1>6, <1>11, <1>14, <3>1
  <2>2. ASSUME NEW j \in 1..(n + 1)
        PROVE  b[m + j] = a[j]
    <3>1. CASE j = n + 1
      <4>1. m + j = m + n + 1
        BY <3>1
      <4> QED BY <1>11, <1>13, <3>1, <4>1
    <3>2. CASE j # n + 1
      <4>1. j \in 1..n /\ m + j \in 1..(m + n)
        BY <3>2
      <4> QED BY <1>6, <1>11, <1>13, <4>1
    <3> QED BY <3>1, <3>2
  <2> QED BY <1>11, <1>13, <2>1, <2>2 DEF PutBefore
<1>18. Cycled(nx2, pv2, b, m + n)
  <2>1. nx2 = Pointed(nx, a[0], c[1], c[m], a[1]) /\ pv2 = Pointed(pv, c[1], a[0], a[1], c[m])
    BY <1>13, <1>15
  <2> QED BY <1>2, <1>12, <1>16, <1>17, <2>1, CycleJoin
<1> QED BY <1>5, <1>6, <1>9, <1>10, <1>18 DEF Rings

\* A list with nothing in it.
LEMMA RingsNone ==
  ASSUME NEW h \in ListHeads, NEW nx, NEW pv, nx[h] = h, pv[h] = h
  PROVE  ListOK(h, <<>>) /\ Rings(nx, pv, h, <<>>)
<1>1. ListOK(h, <<>>)
  BY DEF ListOK
<1>2. PICK a : a = RingOf(h, <<>>)
  OBVIOUS
<1>3. Len(<<>>) = 0
  OBVIOUS
<1>4. a[0] = h /\ a[0 + 1] = h
  BY <1>1, <1>2, <1>3, RingIs
<1>5. Cycled(nx, pv, a, 0)
  <2>1. \A i \in 0..0 : i = 0
    OBVIOUS
  <2> QED BY <1>4, <2>1 DEF Cycled
<1> QED BY <1>1, <1>2, <1>3, <1>5 DEF Rings

\* The head of a list points at itself only when nothing is in it.
LEMMA RingsEmpty ==
  ASSUME NEW h, NEW s, ListOK(h, s), NEW nx, NEW pv, Rings(nx, pv, h, s)
  PROVE  (nx[h] = h) <=> (Len(s) = 0)
<1>1. PICK n \in Nat : n = Len(s)
  BY DEF ListOK
<1>2. PICK a : a = RingOf(h, s)
  OBVIOUS
<1>3. Cycled(nx, pv, a, n) /\ 0 \in 0..n /\ 0 + 1 = 1
  BY <1>1, <1>2 DEF Rings
<1>4. a[0] = h /\ a[n + 1] = h /\ \A k \in 1..n : a[k] = s[k] /\ s[k] # h
  BY <1>1, <1>2, RingIs
<1>5. nx[h] = a[1]
  BY <1>3, <1>4 DEF Cycled
<1>6. CASE n = 0
  <2>1. n + 1 = 1
    BY <1>6
  <2> QED BY <1>1, <1>4, <1>5, <1>6, <2>1
<1>7. CASE n # 0
  <2>1. 1 \in 1..n
    BY <1>7
  <2> QED BY <1>1, <1>4, <1>5, <1>7, <2>1
<1> QED BY <1>6, <1>7

----------------------------------------------------------------------------
(* All lists together.                                                     *)

\* A node that is not of the ring.
Outside(x, h, s) == x # h /\ NotIn(x, s)

LEMMA NextInside ==
  ASSUME NEW h, NEW s, ListOK(h, s), NEW nx, NEW pv, Rings(nx, pv, h, s), NEW x, ~Outside(x, h, s)
  PROVE  ~Outside(nx[x], h, s) /\ ~Outside(pv[x], h, s)
<1>1. PICK n \in Nat : n = Len(s)
  BY DEF ListOK
<1>2. PICK a : a = RingOf(h, s)
  OBVIOUS
<1>3. Cycled(nx, pv, a, n)
  BY <1>1, <1>2 DEF Rings
<1>4. a[0] = h /\ a[n + 1] = h /\ \A k \in 1..n : a[k] = s[k]
  BY <1>1, <1>2, RingIs
<1>5. \A i \in 0..(n + 1) : a[i] = h \/ \E j \in 1..n : a[i] = s[j]
  BY <1>1, <1>2, RingMembers
<1>6. \A i \in 0..(n + 1) : ~Outside(a[i], h, s)
  BY <1>1, <1>5 DEF Outside, NotIn
<1>7. PICK i \in 0..n : x = a[i]
  <2>1. CASE x = h
    <3>1. 0 \in 0..n
      OBVIOUS
    <3> QED BY <1>4, <2>1, <3>1
  <2>2. CASE x # h
    <3>1. PICK j \in 1..n : x = s[j]
      BY <1>1, <2>2 DEF Outside, NotIn
    <3>2. j \in 0..n
      OBVIOUS
    <3> QED BY <1>4, <3>1, <3>2
  <2> QED BY <2>1, <2>2
<1>8. PICK k \in 0..n : x = a[k + 1]
  <2>1. CASE x = h
    <3>1. n \in 0..n
      OBVIOUS
    <3> QED BY <1>4, <2>1, <3>1
  <2>2. CASE x # h
    <3>1. PICK j \in 1..n : x = s[j]
      BY <1>1, <2>2 DEF Outside, NotIn
    <3>2. j - 1 \in 0..n /\ (j - 1) + 1 = j
      OBVIOUS
    <3> QED BY <1>4, <3>1, <3>2
  <2> QED BY <2>1, <2>2
<1>9. nx[x] = a[i + 1] /\ pv[x] = a[k]
  BY <1>3, <1>7, <1>8 DEF Cycled
<1>10. i + 1 \in 0..(n + 1) /\ k \in 0..(n + 1)
  OBVIOUS
<1> QED BY <1>6, <1>9, <1>10

\* Every head that is one has its ring, and no entry is in two.
ListTable(ls) == DOMAIN ls \subseteq ListHeads /\ ls = [h \in DOMAIN ls |-> ls[h]]
ListRing(nx, pv, ls, h) == ListOK(h, ls[h]) /\ Rings(nx, pv, h, ls[h])
ListsApart(ls) ==
  \A g, h \in DOMAIN ls : g # h => \A i \in 1..Len(ls[g]) : NotIn(ls[g][i], ls[h])

ListInv ==
  /\ Pointers(lnext) /\ Pointers(lprev) /\ ListTable(lists) /\ ListsApart(lists)
  /\ \A h \in DOMAIN lists : ListRing(lnext, lprev, lists, h)

LEMMA ListStarts == ListInit => ListInv
<1> SUFFICES ASSUME ListInit PROVE ListInv
  OBVIOUS
<1>1. lnext = [n \in ListNodes |-> n] /\ lprev = [n \in ListNodes |-> n] /\ lists = [h \in ListHeads |-> <<>>]
  BY DEF ListInit
<1>2. Pointers(lnext) /\ Pointers(lprev) /\ ListTable(lists)
  BY <1>1 DEF Pointers, ListTable
<1>3. \A h \in DOMAIN lists : h \in ListHeads /\ lists[h] = <<>> /\ lnext[h] = h /\ lprev[h] = h
  BY <1>1 DEF ListNodes
<1>4. ListsApart(lists)
  BY <1>3 DEF ListsApart
<1>5. ASSUME NEW h \in DOMAIN lists
      PROVE  ListRing(lnext, lprev, lists, h)
  BY <1>3, RingsNone DEF ListRing
<1> QED BY <1>2, <1>4, <1>5 DEF ListInv

\* An entry in no list, or in the list h.
FreeFor(e, h) == \A g \in DOMAIN lists : g # h => NotIn(e, lists[g])

LEMMA NotHeld ==
  ASSUME ListInv, NEW e \in ListEntries, e \notin Held, NEW h \in DOMAIN lists
  PROVE  FreeFor(e, h) /\ NotIn(e, lists[h])
<1>1. ASSUME NEW g \in DOMAIN lists
      PROVE  NotIn(e, lists[g])
  <2> SUFFICES ASSUME NEW i \in 1..Len(lists[g]), lists[g][i] = e PROVE FALSE
    BY DEF NotIn
  <2>1. lists[g] \in Seq(ListEntries)
    BY DEF ListInv, ListRing, ListOK
  <2>2. e \in Range(lists[g])
    BY <2>1 DEF Range
  <2> QED BY <2>2 DEF Held
<1> QED BY <1>1 DEF FreeFor

\* Pointers outside the ring are as before, and a list has got no other than e.
KeptOutside(nx, pv, e, h, s) ==
  \A x \in ListNodes : x # e /\ Outside(x, h, s) => nx[x] = lnext[x] /\ pv[x] = lprev[x]
GetsOnly(t, s, e) == \A i \in 1..Len(t) : t[i] = e \/ ~NotIn(t[i], s)

\* One list changes: pointers only around it, and it gets no other entry than e.
LEMMA OneChanges ==
  ASSUME ListInv, NEW h \in DOMAIN lists, NEW e \in ListEntries, FreeFor(e, h),
         NEW nx, NEW pv, Pointers(nx), Pointers(pv),
         NEW s, s = lists[h], KeptOutside(nx, pv, e, h, s),
         NEW t, ListOK(h, t), Rings(nx, pv, h, t), GetsOnly(t, s, e),
         lnext' = nx, lprev' = pv, lists' = [lists EXCEPT ![h] = t]
  PROVE  ListInv'
<1> USE DEF KeptOutside, GetsOnly
<1>1. ListTable(lists') /\ DOMAIN lists' = DOMAIN lists
  BY DEF ListInv, ListTable
<1>2. lists'[h] = t /\ \A g \in DOMAIN lists : g # h => lists'[g] = lists[g]
  BY DEF ListInv, ListTable
<1>3. ASSUME NEW g \in DOMAIN lists, g # h, NEW i \in 1..Len(t)
      PROVE  NotIn(t[i], lists[g])
  <2>1. CASE t[i] = e
    BY <1>3, <2>1 DEF FreeFor
  <2>2. CASE ~NotIn(t[i], lists[h])
    <3>1. PICK j \in 1..Len(lists[h]) : t[i] = lists[h][j]
      BY <2>2 DEF NotIn
    <3> QED BY <1>3, <3>1 DEF ListInv, ListsApart
  <2> QED BY <2>1, <2>2
<1>4. ListsApart(lists')
  <2> SUFFICES ASSUME NEW f \in DOMAIN lists, NEW g \in DOMAIN lists, f # g, NEW i \in 1..Len(lists'[f])
               PROVE  NotIn(lists'[f][i], lists'[g])
    BY <1>1 DEF ListsApart
  <2>1. CASE f = h
    BY <1>2, <1>3, <2>1
  <2>2. CASE g = h
    <3> SUFFICES ASSUME NEW j \in 1..Len(t), t[j] = lists'[f][i] PROVE FALSE
      BY <1>2, <2>2 DEF NotIn
    <3>1. f # h /\ lists'[f] = lists[f]
      BY <1>2, <2>2
    <3>2. NotIn(t[j], lists[f])
      BY <1>3, <3>1
    <3> QED BY <3>1, <3>2 DEF NotIn
  <2>3. CASE f # h /\ g # h
    BY <1>2, <2>3 DEF ListInv, ListsApart
  <2> QED BY <2>1, <2>2, <2>3
<1>5. ASSUME NEW g \in DOMAIN lists
      PROVE  ListRing(nx, pv, lists', g)
  <2>1. CASE g = h
    BY <1>2, <2>1 DEF ListRing
  <2>2. CASE g # h
    <3>1. PICK r : r = lists[g]
      OBVIOUS
    <3>2. ListOK(g, r) /\ Rings(lnext, lprev, g, r) /\ ListOK(h, lists[h])
      BY <3>1 DEF ListInv, ListRing
    <3>3. g \in ListHeads /\ h \in ListHeads
      BY DEF ListInv, ListTable
    <3>4. g \in ListNodes /\ g # e /\ Outside(g, h, lists[h])
      <4>1. g \notin ListEntries /\ g \in ListNodes
        BY <3>3, ListAssumption DEF ListNodes
      <4>2. NotIn(g, lists[h])
        BY <3>2, <4>1 DEF NotIn, ListOK
      <4> QED BY <2>2, <4>1, <4>2 DEF Outside
    <3>5. ASSUME NEW j \in 1..Len(r)
          PROVE  r[j] \in ListNodes /\ r[j] # e /\ Outside(r[j], h, lists[h])
      <4>1. r[j] \in ListEntries
        BY <3>2 DEF ListOK
      <4>2. r[j] # e
        BY <2>2, <3>1 DEF FreeFor, NotIn
      <4>3. r[j] # h /\ r[j] \in ListNodes
        BY <3>3, <4>1, ListAssumption DEF ListNodes
      <4>4. NotIn(r[j], lists[h])
        BY <2>2, <3>1 DEF ListInv, ListsApart
      <4> QED BY <4>2, <4>3, <4>4 DEF Outside
    <3>6. nx[g] = lnext[g] /\ pv[g] = lprev[g]
      BY <3>4
    <3>7. \A j \in 1..Len(r) : nx[r[j]] = lnext[r[j]] /\ pv[r[j]] = lprev[r[j]]
      BY <3>5
    <3>8. Rings(nx, pv, g, r)
      BY <3>2, <3>6, <3>7, RingsStay
    <3> QED BY <1>2, <2>2, <3>1, <3>2, <3>8 DEF ListRing
  <2> QED BY <2>1, <2>2
<1> QED BY <1>1, <1>4, <1>5 DEF ListInv

SameBut(g, f, x, u) == \A z \in ListNodes : z # x /\ z # u => g[z] = f[z]

LEMMA PointedIs ==
  ASSUME NEW f, Pointers(f), NEW x \in ListNodes, NEW y \in ListNodes, NEW u \in ListNodes, NEW v \in ListNodes,
         NEW g, g = Pointed(f, x, y, u, v)
  PROVE  Pointers(g) /\ SameBut(g, f, x, u)
BY DEF Pointers, Pointed, SameBut

\* The nodes of the ring of a list, and where its pointers lead.
LEMMA RingNodes ==
  ASSUME ListInv, NEW h \in DOMAIN lists
  PROVE  /\ ListOK(h, lists[h]) /\ Rings(lnext, lprev, h, lists[h]) /\ h \in ListNodes
         /\ Pointers(lnext) /\ Pointers(lprev)
         /\ lnext[h] \in ListNodes /\ lprev[h] \in ListNodes
         /\ ~Outside(lnext[h], h, lists[h]) /\ ~Outside(lprev[h], h, lists[h])
         /\ \A i \in 1..Len(lists[h]) :
              /\ lists[h][i] \in ListEntries /\ lists[h][i] \in ListNodes
              /\ lnext[lists[h][i]] \in ListNodes /\ lprev[lists[h][i]] \in ListNodes
              /\ ~Outside(lnext[lists[h][i]], h, lists[h]) /\ ~Outside(lprev[lists[h][i]], h, lists[h])
<1>1. ListOK(h, lists[h]) /\ Rings(lnext, lprev, h, lists[h]) /\ Pointers(lnext) /\ Pointers(lprev)
  BY DEF ListInv, ListRing
<1>2. h \in ListNodes
  BY <1>1 DEF ListOK, ListNodes
<1>3. lnext[h] \in ListNodes /\ lprev[h] \in ListNodes
  BY <1>1, <1>2 DEF Pointers
<1>4. ~Outside(lnext[h], h, lists[h]) /\ ~Outside(lprev[h], h, lists[h])
  <2>1. ~Outside(h, h, lists[h])
    BY DEF Outside
  <2> QED BY <1>1, <2>1, NextInside
<1>5. ASSUME NEW i \in 1..Len(lists[h])
      PROVE  /\ lists[h][i] \in ListEntries /\ lists[h][i] \in ListNodes
             /\ lnext[lists[h][i]] \in ListNodes /\ lprev[lists[h][i]] \in ListNodes
             /\ ~Outside(lnext[lists[h][i]], h, lists[h]) /\ ~Outside(lprev[lists[h][i]], h, lists[h])
  <2>1. lists[h][i] \in ListEntries /\ lists[h][i] \in ListNodes
    BY <1>1 DEF ListOK, ListNodes
  <2>2. lnext[lists[h][i]] \in ListNodes /\ lprev[lists[h][i]] \in ListNodes
    BY <1>1, <2>1 DEF Pointers
  <2>3. ~Outside(lists[h][i], h, lists[h])
    BY DEF Outside, NotIn
  <2> QED BY <1>1, <2>1, <2>2, <2>3, NextInside
<1> QED BY <1>1, <1>2, <1>3, <1>4, <1>5

LEMMA ListAddStep ==
  ASSUME ListInv, NEW e, NEW h, list_add(e, h)
  PROVE  ListInv'
<1>1. e \in ListEntries /\ e \notin Held /\ h \in DOMAIN lists
  BY DEF list_add
<1>2. PICK s : s = lists[h]
  OBVIOUS
<1>3. PICK q : q = lnext[h]
  OBVIOUS
<1>4. lprev' = Pointed(lprev, q, e, e, h) /\ lnext' = Pointed(lnext, e, q, h, e)
  BY <1>3 DEF list_add, __list_add, Pointed
<1>5. lists' = [lists EXCEPT ![h] = <<e>> \o s]
  BY <1>2 DEF list_add
<1>6. FreeFor(e, h) /\ NotIn(e, s)
  BY <1>1, <1>2, NotHeld
<1>7. /\ ListOK(h, s) /\ Rings(lnext, lprev, h, s) /\ h \in ListNodes /\ q \in ListNodes
      /\ Pointers(lnext) /\ Pointers(lprev) /\ ~Outside(q, h, s) /\ e \in ListNodes
  BY <1>1, <1>2, <1>3, RingNodes DEF ListNodes
<1>8. PICK nx : nx = Pointed(lnext, e, q, h, e)
  OBVIOUS
<1>9. PICK pv : pv = Pointed(lprev, q, e, e, h)
  OBVIOUS
<1>10. ListOK(h, <<e>> \o s) /\ Rings(nx, pv, h, <<e>> \o s)
  BY <1>1, <1>3, <1>6, <1>7, <1>8, <1>9, RingsAddFirst
<1>11. /\ Pointers(nx) /\ Pointers(pv)
       /\ \A z \in ListNodes : z # e /\ z # h /\ z # q => nx[z] = lnext[z] /\ pv[z] = lprev[z]
  <2>1. Pointers(nx) /\ SameBut(nx, lnext, e, h)
    BY <1>7, <1>8, PointedIs
  <2>2. Pointers(pv) /\ SameBut(pv, lprev, q, e)
    BY <1>7, <1>9, PointedIs
  <2> QED BY <2>1, <2>2 DEF SameBut
<1>12. KeptOutside(nx, pv, e, h, s)
  BY <1>7, <1>11 DEF Outside, KeptOutside
<1>13. PICK t : t = <<e>> \o s
  OBVIOUS
<1>14. GetsOnly(t, s, e)
  <2>1. <<e>> \in Seq(ListEntries) /\ s \in Seq(ListEntries) /\ Len(<<e>>) = 1 /\ <<e>>[1] = e
    BY <1>1, <1>7 DEF ListOK
  <2>2. PICK n \in Nat : n = Len(s)
    BY <2>1
  <2>3. /\ Len(t) = Len(<<e>>) + Len(s)
        /\ \A j \in 1..Len(<<e>>) : t[j] = <<e>>[j]
        /\ \A k \in 1..Len(s) : t[Len(<<e>>) + k] = s[k]
    BY <1>13, <2>1, ConcatIs
  <2>4. Len(t) = 1 + n /\ t[1] = e /\ \A k \in 1..n : t[1 + k] = s[k]
    BY <2>1, <2>2, <2>3
  <2> SUFFICES ASSUME NEW i \in 1..(1 + n) PROVE t[i] = e \/ ~NotIn(t[i], s)
    BY <2>4 DEF GetsOnly
  <2>5. i = 1 \/ (i - 1 \in 1..n /\ i = 1 + (i - 1))
    OBVIOUS
  <2>6. CASE i = 1
    BY <2>4, <2>6
  <2>7. CASE i # 1
    <3>1. t[i] = s[i - 1] /\ i - 1 \in 1..Len(s)
      BY <2>2, <2>4, <2>5, <2>7
    <3> QED BY <3>1 DEF NotIn
  <2> QED BY <2>6, <2>7
<1>15. lnext' = nx /\ lprev' = pv /\ lists' = [lists EXCEPT ![h] = t] /\ ListOK(h, t) /\ Rings(nx, pv, h, t)
  BY <1>4, <1>5, <1>8, <1>9, <1>10, <1>13
<1> QED BY <1>1, <1>2, <1>6, <1>11, <1>12, <1>14, <1>15, OneChanges

LEMMA ListAddTailStep ==
  ASSUME ListInv, NEW e, NEW h, list_add_tail(e, h)
  PROVE  ListInv'
<1>1. e \in ListEntries /\ e \notin Held /\ h \in DOMAIN lists
  BY DEF list_add_tail
<1>2. PICK s : s = lists[h]
  OBVIOUS
<1>3. PICK p : p = lprev[h]
  OBVIOUS
<1>4. lprev' = Pointed(lprev, h, e, e, p) /\ lnext' = Pointed(lnext, e, h, p, e)
  BY <1>3 DEF list_add_tail, __list_add, Pointed
<1>5. lists' = [lists EXCEPT ![h] = Append(s, e)]
  BY <1>2 DEF list_add_tail
<1>6. FreeFor(e, h) /\ NotIn(e, s)
  BY <1>1, <1>2, NotHeld
<1>7. /\ ListOK(h, s) /\ Rings(lnext, lprev, h, s) /\ h \in ListNodes /\ p \in ListNodes
      /\ Pointers(lnext) /\ Pointers(lprev) /\ ~Outside(p, h, s) /\ e \in ListNodes
  BY <1>1, <1>2, <1>3, RingNodes DEF ListNodes
<1>8. PICK nx : nx = Pointed(lnext, e, h, p, e)
  OBVIOUS
<1>9. PICK pv : pv = Pointed(lprev, h, e, e, p)
  OBVIOUS
<1>10. PICK t : t = Append(s, e)
  OBVIOUS
<1>11. ListOK(h, t) /\ Rings(nx, pv, h, t)
  BY <1>1, <1>3, <1>6, <1>7, <1>8, <1>9, <1>10, RingsAddLast
<1>12. /\ Pointers(nx) /\ Pointers(pv)
       /\ \A z \in ListNodes : z # e /\ z # h /\ z # p => nx[z] = lnext[z] /\ pv[z] = lprev[z]
  <2>1. Pointers(nx) /\ SameBut(nx, lnext, e, p)
    BY <1>7, <1>8, PointedIs
  <2>2. Pointers(pv) /\ SameBut(pv, lprev, h, e)
    BY <1>7, <1>9, PointedIs
  <2> QED BY <2>1, <2>2 DEF SameBut
<1>13. KeptOutside(nx, pv, e, h, s)
  BY <1>7, <1>12 DEF Outside, KeptOutside
<1>14. GetsOnly(t, s, e)
  <2>1. s \in Seq(ListEntries)
    BY <1>7 DEF ListOK
  <2>2. PICK n \in Nat : n = Len(s)
    BY <2>1
  <2>3. Len(t) = n + 1 /\ t[n + 1] = e /\ \A k \in 1..n : t[k] = s[k]
    BY <1>1, <1>10, <2>1, <2>2, AppendProperties
  <2> SUFFICES ASSUME NEW i \in 1..(n + 1) PROVE t[i] = e \/ ~NotIn(t[i], s)
    BY <2>3 DEF GetsOnly
  <2>4. i = n + 1 \/ i \in 1..n
    OBVIOUS
  <2>5. CASE i \in 1..n
    <3>1. t[i] = s[i] /\ i \in 1..Len(s)
      BY <2>2, <2>3, <2>5
    <3> QED BY <3>1 DEF NotIn
  <2> QED BY <2>3, <2>4, <2>5
<1>15. lnext' = nx /\ lprev' = pv /\ lists' = [lists EXCEPT ![h] = t]
  BY <1>4, <1>5, <1>8, <1>9, <1>10
<1> QED BY <1>1, <1>2, <1>6, <1>11, <1>12, <1>13, <1>14, <1>15, OneChanges

LEMMA ListDelStep ==
  ASSUME ListInv, NEW e, NEW reinit, list_del(e, reinit)
  PROVE  ListInv'
<1>1. PICK h, i :
        /\ h \in DOMAIN lists /\ i \in DOMAIN lists[h]
        /\ lists[h][i] = e
        /\ lprev' = [[lprev EXCEPT ![lnext[e]] = lprev[e]] EXCEPT ![e] = IF reinit THEN e ELSE @]
        /\ lnext' = [[lnext EXCEPT ![lprev[e]] = lnext[e]] EXCEPT ![e] = IF reinit THEN e ELSE @]
        /\ lists' = [lists EXCEPT ![h] = RemoveAt(@, i)]
  BY DEF list_del
<1>2. PICK s : s = lists[h]
  OBVIOUS
<1>3. PICK p, q : p = lprev[e] /\ q = lnext[e]
  OBVIOUS
<1>4. /\ ListOK(h, s) /\ Rings(lnext, lprev, h, s) /\ Pointers(lnext) /\ Pointers(lprev)
      /\ \A j \in 1..Len(s) :
           /\ s[j] \in ListEntries /\ s[j] \in ListNodes
           /\ lnext[s[j]] \in ListNodes /\ lprev[s[j]] \in ListNodes
           /\ ~Outside(lnext[s[j]], h, s) /\ ~Outside(lprev[s[j]], h, s)
  <2>1. h \in DOMAIN lists
    BY <1>1
  <2> QED BY <1>2, <2>1, RingNodes
<1>5. i \in 1..Len(s) /\ s[i] = e
  <2>1. s \in Seq(ListEntries)
    BY <1>4 DEF ListOK
  <2> QED BY <1>1, <1>2, <2>1
<1>6. /\ e \in ListEntries /\ e \in ListNodes /\ p \in ListNodes /\ q \in ListNodes
      /\ ~Outside(p, h, s) /\ ~Outside(q, h, s)
  BY <1>3, <1>4, <1>5
<1>7. PICK w : w = IF reinit THEN e ELSE [lnext EXCEPT ![p] = q][e]
  OBVIOUS
<1>8. PICK z : z = IF reinit THEN e ELSE [lprev EXCEPT ![q] = p][e]
  OBVIOUS
<1>9. w \in ListNodes /\ z \in ListNodes
  BY <1>4, <1>6, <1>7, <1>8 DEF Pointers
<1>10. PICK nx : nx = Pointed(lnext, p, q, e, w)
  OBVIOUS
<1>11. PICK pv : pv = Pointed(lprev, q, p, e, z)
  OBVIOUS
<1>12. lnext' = nx
  <2>1. lnext' = [[lnext EXCEPT ![p] = q] EXCEPT ![e] = IF reinit THEN e ELSE @]
    BY <1>1, <1>3
  <2> QED BY <1>7, <1>10, <2>1 DEF Pointed
<1>13. lprev' = pv
  <2>1. lprev' = [[lprev EXCEPT ![q] = p] EXCEPT ![e] = IF reinit THEN e ELSE @]
    BY <1>1, <1>3
  <2> QED BY <1>8, <1>11, <2>1 DEF Pointed
<1>14. PICK t : t = RemoveAt(s, i)
  OBVIOUS
<1>15. ListOK(h, t) /\ Rings(nx, pv, h, t)
  BY <1>3, <1>4, <1>5, <1>10, <1>11, <1>14, RingsRemove
<1>16. /\ Pointers(nx) /\ Pointers(pv)
       /\ \A x \in ListNodes : x # e /\ x # p /\ x # q => nx[x] = lnext[x] /\ pv[x] = lprev[x]
  <2>1. Pointers(nx) /\ SameBut(nx, lnext, p, e)
    BY <1>4, <1>6, <1>9, <1>10, PointedIs
  <2>2. Pointers(pv) /\ SameBut(pv, lprev, q, e)
    BY <1>4, <1>6, <1>9, <1>11, PointedIs
  <2> QED BY <2>1, <2>2 DEF SameBut
<1>17. KeptOutside(nx, pv, e, h, s)
  BY <1>6, <1>16 DEF Outside, KeptOutside
<1>18. GetsOnly(t, s, e)
  <2>1. s \in Seq(ListEntries)
    BY <1>4 DEF ListOK
  <2>2. Removed(t, s, i)
    BY <1>5, <1>14, <2>1, RemoveAtIs
  <2>3. PICK n \in Nat : n = Len(s)
    BY <2>1
  <2>4. /\ Len(t) = n - 1
        /\ \A j \in 1..(i - 1) : t[j] = s[j]
        /\ \A j \in i..(n - 1) : t[j] = s[j + 1]
    BY <2>2, <2>3 DEF Removed
  <2> SUFFICES ASSUME NEW j \in 1..(n - 1) PROVE ~NotIn(t[j], s)
    BY <2>4 DEF GetsOnly
  <2>5. i \in 1..n
    BY <1>5, <2>3
  <2>6. \/ j \in 1..(i - 1) /\ j \in 1..n
        \/ j \in i..(n - 1) /\ j + 1 \in 1..n
    BY <2>5
  <2>7. \E k \in 1..n : t[j] = s[k]
    BY <2>4, <2>6
  <2> QED BY <2>3, <2>7 DEF NotIn
<1>19. lists' = [lists EXCEPT ![h] = t]
  BY <1>1, <1>2, <1>14
<1>20. FreeFor(e, h)
  <2>1. h \in DOMAIN lists
    BY <1>1
  <2>2. ASSUME NEW g \in DOMAIN lists, g # h
        PROVE  NotIn(s[i], lists[g])
    BY <1>2, <1>5, <2>1, <2>2 DEF ListInv, ListsApart
  <2> QED BY <1>5, <2>2 DEF FreeFor
<1>21. h \in DOMAIN lists
  BY <1>1
<1> QED BY <1>2, <1>6, <1>12, <1>13, <1>15, <1>16, <1>17, <1>18, <1>19, <1>20, <1>21, OneChanges

LEMMA ListReplaceStep ==
  ASSUME ListInv, NEW o \in ListEntries, NEW e \in ListEntries, list_replace_init(o, e)
  PROVE  ListInv'
<1>1. PICK h, i :
        /\ h \in DOMAIN lists /\ i \in DOMAIN lists[h]
        /\ lists[h][i] = o /\ e \notin Held
        /\ lnext' = [[lnext EXCEPT ![e] = lnext[o], ![lprev[o]] = e] EXCEPT ![o] = o]
        /\ lprev' = [[lprev EXCEPT ![lnext[o]] = e, ![e] = lprev[o]] EXCEPT ![o] = o]
        /\ lists' = [lists EXCEPT ![h] = ReplaceAt(@, i, e)]
  BY DEF list_replace_init
<1>2. PICK s : s = lists[h]
  OBVIOUS
<1>3. PICK p, q : p = lprev[o] /\ q = lnext[o]
  OBVIOUS
<1>4. /\ ListOK(h, s) /\ Rings(lnext, lprev, h, s) /\ Pointers(lnext) /\ Pointers(lprev)
      /\ \A j \in 1..Len(s) :
           /\ s[j] \in ListEntries /\ s[j] \in ListNodes
           /\ lnext[s[j]] \in ListNodes /\ lprev[s[j]] \in ListNodes
           /\ ~Outside(lnext[s[j]], h, s) /\ ~Outside(lprev[s[j]], h, s)
  <2>1. h \in DOMAIN lists
    BY <1>1
  <2> QED BY <1>2, <2>1, RingNodes
<1>5. i \in 1..Len(s) /\ s[i] = o
  <2>1. s \in Seq(ListEntries)
    BY <1>4 DEF ListOK
  <2> QED BY <1>1, <1>2, <2>1
<1>6. /\ o \in ListNodes /\ p \in ListNodes /\ q \in ListNodes /\ e \in ListNodes
      /\ ~Outside(p, h, s) /\ ~Outside(q, h, s) /\ ~Outside(o, h, s)
  BY <1>3, <1>4, <1>5 DEF ListNodes, Outside, NotIn
<1>7. FreeFor(e, h) /\ NotIn(e, s)
  BY <1>1, <1>2, NotHeld
<1>8. PICK nx : nx = [Pointed(lnext, e, q, p, e) EXCEPT ![o] = o]
  OBVIOUS
<1>9. PICK pv : pv = [Pointed(lprev, q, e, e, p) EXCEPT ![o] = o]
  OBVIOUS
<1>10. lnext' = nx /\ lprev' = pv
  BY <1>1, <1>3, <1>8, <1>9 DEF Pointed
<1>11. PICK t : t = ReplaceAt(s, i, e)
  OBVIOUS
<1>12. ListOK(h, t) /\ Rings(nx, pv, h, t)
  BY <1>3, <1>4, <1>5, <1>7, <1>8, <1>9, <1>11, RingsReplace
<1>13. /\ Pointers(nx) /\ Pointers(pv)
       /\ \A x \in ListNodes : x # e /\ x # p /\ x # q /\ x # o => nx[x] = lnext[x] /\ pv[x] = lprev[x]
  <2>1. PICK f : f = Pointed(lnext, e, q, p, e)
    OBVIOUS
  <2>2. PICK g : g = Pointed(lprev, q, e, e, p)
    OBVIOUS
  <2>3. /\ Pointers(f) /\ Pointers(g)
        /\ \A x \in ListNodes : x # e /\ x # p => f[x] = lnext[x]
        /\ \A x \in ListNodes : x # q /\ x # e => g[x] = lprev[x]
    <3>1. Pointers(f) /\ SameBut(f, lnext, e, p)
      BY <1>4, <1>6, <2>1, PointedIs
    <3>2. Pointers(g) /\ SameBut(g, lprev, q, e)
      BY <1>4, <1>6, <2>2, PointedIs
    <3> QED BY <3>1, <3>2 DEF SameBut
  <2>4. nx = [f EXCEPT ![o] = o] /\ pv = [g EXCEPT ![o] = o]
    BY <1>8, <1>9, <2>1, <2>2
  <2> QED BY <1>6, <2>3, <2>4 DEF Pointers
<1>14. KeptOutside(nx, pv, e, h, s)
  BY <1>6, <1>13 DEF Outside, KeptOutside
<1>15. GetsOnly(t, s, e)
  <2>1. s \in Seq(ListEntries) /\ t = [s EXCEPT ![i] = e]
    BY <1>4, <1>11 DEF ListOK, ReplaceAt
  <2>2. Len(t) = Len(s) /\ \A j \in 1..Len(s) : t[j] = IF j = i THEN e ELSE s[j]
    BY <1>5, <2>1
  <2> SUFFICES ASSUME NEW j \in 1..Len(s), j # i PROVE ~NotIn(t[j], s)
    BY <2>2 DEF GetsOnly
  <2>3. t[j] = s[j]
    BY <2>2
  <2> QED BY <2>3 DEF NotIn
<1>16. lists' = [lists EXCEPT ![h] = t]
  BY <1>1, <1>2, <1>11
<1>17. h \in DOMAIN lists
  BY <1>1
<1> QED BY <1>2, <1>7, <1>10, <1>12, <1>13, <1>14, <1>15, <1>16, <1>17, OneChanges

\* The rings of other lists after list_splice.
LEMMA OthersAfterJoin ==
  ASSUME ListInv, NEW l \in DOMAIN lists, NEW h \in DOMAIN lists, NEW g \in DOMAIN lists, g # l, g # h,
         NEW nx, NEW pv,
         \A x \in ListNodes : Outside(x, h, lists[h]) /\ Outside(x, l, lists[l]) =>
           nx[x] = lnext[x] /\ pv[x] = lprev[x]
  PROVE  Rings(nx, pv, g, lists[g])
<1>1. PICK s : s = lists[g]
  OBVIOUS
<1>2. /\ ListOK(g, s) /\ Rings(lnext, lprev, g, s) /\ g \in ListNodes
      /\ \A i \in 1..Len(s) : s[i] \in ListEntries /\ s[i] \in ListNodes
  BY <1>1, RingNodes
<1>3. ASSUME NEW k \in DOMAIN lists, g # k
      PROVE  Outside(g, k, lists[k]) /\ \A i \in 1..Len(s) : Outside(s[i], k, lists[k])
  <2>1. ListOK(k, lists[k]) /\ \A i \in 1..Len(lists[k]) : lists[k][i] \in ListEntries
    BY RingNodes
  <2>2. g \notin ListEntries /\ k \notin ListEntries
    BY <1>2, <2>1, ListAssumption DEF ListOK
  <2>3. NotIn(g, lists[k])
    BY <2>1, <2>2 DEF NotIn
  <2>4. \A i \in 1..Len(s) : NotIn(s[i], lists[k]) /\ s[i] # k
    BY <1>1, <1>2, <1>3, <2>2 DEF ListInv, ListsApart
  <2> QED BY <1>3, <2>3, <2>4 DEF Outside
<1>4. nx[g] = lnext[g] /\ pv[g] = lprev[g] /\ \A i \in 1..Len(s) : nx[s[i]] = lnext[s[i]] /\ pv[s[i]] = lprev[s[i]]
  BY <1>2, <1>3
<1>5. Rings(nx, pv, g, s)
  BY <1>2, <1>4, RingsStay
<1> QED BY <1>1, <1>5

LEMMA ListSpliceStep ==
  ASSUME ListInv, NEW l, NEW h, list_splice(l, h)
  PROVE  ListInv'
<1>1. /\ l \in DOMAIN lists /\ h \in DOMAIN lists /\ l # h
      /\ lists' = [x \in DOMAIN lists \ {l} |-> IF x = h THEN lists[l] \o lists[h] ELSE lists[x]]
  BY DEF list_splice
<1>2. PICK s : s = lists[h]
  OBVIOUS
<1>3. PICK r : r = lists[l]
  OBVIOUS
<1>4. PICK t : t = r \o s
  OBVIOUS
<1>5. /\ ListOK(h, s) /\ Rings(lnext, lprev, h, s) /\ h \in ListNodes
      /\ Pointers(lnext) /\ Pointers(lprev) /\ lnext[h] \in ListNodes /\ ~Outside(lnext[h], h, s)
  BY <1>1, <1>2, RingNodes
<1>6. /\ ListOK(l, r) /\ Rings(lnext, lprev, l, r) /\ l \in ListNodes
      /\ lnext[l] \in ListNodes /\ lprev[l] \in ListNodes
      /\ ~Outside(lnext[l], l, r) /\ ~Outside(lprev[l], l, r)
  BY <1>1, <1>3, RingNodes
<1>7. DOMAIN lists' = DOMAIN lists \ {l} /\ lists'[h] = t /\ ListTable(lists')
      /\ \A g \in DOMAIN lists : g # l /\ g # h => lists'[g] = lists[g]
  BY <1>1, <1>2, <1>3, <1>4 DEF ListTable, ListInv
<1>8. /\ r \in Seq(ListEntries) /\ s \in Seq(ListEntries) /\ Len(t) = Len(r) + Len(s)
      /\ \A j \in 1..Len(r) : t[j] = r[j]
      /\ \A k \in 1..Len(s) : t[Len(r) + k] = s[k]
  <2>1. r \in Seq(ListEntries) /\ s \in Seq(ListEntries)
    BY <1>5, <1>6 DEF ListOK
  <2> QED BY <1>4, <2>1, ConcatIs
<1>9. PICK n \in Nat, m \in Nat : n = Len(s) /\ m = Len(r)
  BY <1>8
<1>10. ASSUME NEW i \in 1..Len(t)
       PROVE  ~NotIn(t[i], r) \/ ~NotIn(t[i], s)
  <2>1. i \in 1..m \/ (i - m \in 1..n /\ i = m + (i - m))
    BY <1>8, <1>9
  <2>2. CASE i \in 1..m
    BY <1>8, <1>9, <2>2 DEF NotIn
  <2>3. CASE i \notin 1..m
    <3>1. t[i] = s[i - m] /\ i - m \in 1..n
      BY <1>8, <1>9, <2>1, <2>3
    <3> QED BY <1>9, <3>1 DEF NotIn
  <2> QED BY <2>2, <2>3
<1>11. \A i \in 1..Len(r) : NotIn(r[i], s)
  BY <1>1, <1>2, <1>3 DEF ListInv, ListsApart
<1>12. ASSUME NEW g \in DOMAIN lists, g # l, g # h, NEW i \in 1..Len(t)
       PROVE  NotIn(t[i], lists[g])
  <2>1. CASE ~NotIn(t[i], r)
    <3>1. PICK j \in 1..Len(r) : t[i] = r[j]
      BY <2>1 DEF NotIn
    <3> QED BY <1>1, <1>3, <1>12, <3>1 DEF ListInv, ListsApart
  <2>2. CASE ~NotIn(t[i], s)
    <3>1. PICK j \in 1..Len(s) : t[i] = s[j]
      BY <2>2 DEF NotIn
    <3> QED BY <1>1, <1>2, <1>12, <3>1 DEF ListInv, ListsApart
  <2> QED BY <1>10, <2>1, <2>2
<1>13. ListsApart(lists')
  <2> SUFFICES ASSUME NEW f \in DOMAIN lists, NEW g \in DOMAIN lists, f # l, g # l, f # g, NEW i \in 1..Len(lists'[f])
               PROVE  NotIn(lists'[f][i], lists'[g])
    BY <1>7 DEF ListsApart
  <2>1. CASE f = h
    BY <1>7, <1>12, <2>1
  <2>2. CASE g = h
    <3> SUFFICES ASSUME NEW j \in 1..Len(t), t[j] = lists'[f][i] PROVE FALSE
      BY <1>7, <2>2 DEF NotIn
    <3>1. f # h /\ lists'[f] = lists[f]
      BY <1>7, <2>2
    <3>2. NotIn(t[j], lists[f])
      BY <1>12, <3>1
    <3> QED BY <3>1, <3>2 DEF NotIn
  <2>3. CASE f # h /\ g # h
    BY <1>7, <2>3 DEF ListInv, ListsApart
  <2> QED BY <2>1, <2>2, <2>3
<1>14. CASE lnext[l] = l
  <2>1. Len(r) = 0
    BY <1>6, <1>14, RingsEmpty
  <2>2. t = s
    BY <1>4, <1>8, <2>1
  <2>3. lnext' = lnext /\ lprev' = lprev
    BY <1>14 DEF list_splice, list_empty
  <2>4. ASSUME NEW g \in DOMAIN lists, g # l
        PROVE  ListRing(lnext', lprev', lists', g)
    BY <1>2, <1>5, <1>7, <2>2, <2>3, <2>4 DEF ListInv, ListRing
  <2> QED BY <1>5, <1>7, <1>13, <2>3, <2>4 DEF ListInv
<1>15. CASE lnext[l] # l
  <2>1. Len(r) # 0 /\ Len(r) > 0
    BY <1>6, <1>9, <1>15, RingsEmpty
  <2>2. PICK nx : nx = Pointed(lnext, h, lnext[l], lprev[l], lnext[h])
    OBVIOUS
  <2>3. PICK pv : pv = Pointed(lprev, lnext[l], h, lnext[h], lprev[l])
    OBVIOUS
  <2>4. lnext' = nx /\ lprev' = pv
    BY <1>15, <2>2, <2>3 DEF list_splice, list_empty, Pointed
  <2>5. ListOK(h, t) /\ Rings(nx, pv, h, t)
    BY <1>1, <1>4, <1>5, <1>6, <1>11, <2>1, <2>2, <2>3, RingsJoin
  <2>6. Pointers(nx) /\ SameBut(nx, lnext, h, lprev[l])
    BY <1>5, <1>6, <2>2, PointedIs
  <2>7. Pointers(pv) /\ SameBut(pv, lprev, lnext[l], lnext[h])
    BY <1>5, <1>6, <2>3, PointedIs
  <2>8. \A x \in ListNodes : Outside(x, h, s) /\ Outside(x, l, r) => nx[x] = lnext[x] /\ pv[x] = lprev[x]
    BY <1>5, <1>6, <2>6, <2>7 DEF SameBut, Outside
  <2>9. ASSUME NEW g \in DOMAIN lists, g # l
        PROVE  ListRing(nx, pv, lists', g)
    <3>1. CASE g = h
      BY <1>7, <2>5, <3>1 DEF ListRing
    <3>2. CASE g # h
      <4>1. Rings(nx, pv, g, lists[g])
        BY <1>1, <1>2, <1>3, <2>8, <2>9, <3>2, OthersAfterJoin
      <4>2. ListOK(g, lists[g])
        BY DEF ListInv, ListRing
      <4> QED BY <1>7, <2>9, <3>2, <4>1, <4>2 DEF ListRing
    <3> QED BY <3>1, <3>2
  <2> QED BY <1>7, <1>13, <2>4, <2>6, <2>7, <2>9 DEF ListInv
<1> QED BY <1>14, <1>15

LEMMA ListHeadStep ==
  ASSUME ListInv, NEW h, INIT_LIST_HEAD(h)
  PROVE  ListInv'
<1>1. /\ h \in ListHeads /\ h \notin DOMAIN lists /\ h \in ListNodes
      /\ lnext' = [lnext EXCEPT ![h] = h] /\ lprev' = [lprev EXCEPT ![h] = h]
      /\ lists' = [x \in DOMAIN lists \cup {h} |-> IF x = h THEN <<>> ELSE lists[x]]
  BY DEF INIT_LIST_HEAD, ListNodes
<1>2. PICK nx, pv : nx = lnext' /\ pv = lprev'
  OBVIOUS
<1>3. /\ Pointers(nx) /\ Pointers(pv) /\ nx[h] = h /\ pv[h] = h
      /\ \A x \in ListNodes : x # h => nx[x] = lnext[x] /\ pv[x] = lprev[x]
  BY <1>1, <1>2 DEF ListInv, Pointers
<1>4. /\ DOMAIN lists' = DOMAIN lists \cup {h} /\ lists'[h] = <<>> /\ ListTable(lists')
      /\ \A g \in DOMAIN lists : lists'[g] = lists[g]
  BY <1>1 DEF ListTable, ListInv
<1>5. ListRing(nx, pv, lists', h)
  BY <1>1, <1>3, <1>4, RingsNone DEF ListRing
<1>6. ASSUME NEW g \in DOMAIN lists
      PROVE  ListRing(nx, pv, lists', g)
  <2>1. PICK s : s = lists[g]
    OBVIOUS
  <2>2. /\ ListOK(g, s) /\ Rings(lnext, lprev, g, s) /\ g \in ListNodes
        /\ \A i \in 1..Len(s) : s[i] \in ListEntries /\ s[i] \in ListNodes
    BY <2>1, RingNodes
  <2>3. g # h /\ \A i \in 1..Len(s) : s[i] # h
    BY <1>1, <2>2, ListAssumption
  <2>4. Rings(nx, pv, g, s)
    BY <1>3, <2>2, <2>3, RingsStay
  <2> QED BY <1>4, <2>1, <2>2, <2>4 DEF ListRing
<1>7. ListsApart(lists')
  <2> SUFFICES ASSUME NEW f \in DOMAIN lists \cup {h}, NEW g \in DOMAIN lists \cup {h}, f # g,
                      NEW i \in 1..Len(lists'[f])
               PROVE  NotIn(lists'[f][i], lists'[g])
    BY <1>4 DEF ListsApart
  <2>1. CASE f = h
    BY <1>4, <2>1
  <2>2. CASE g = h
    BY <1>4, <2>2 DEF NotIn
  <2>3. CASE f # h /\ g # h
    <3>1. f \in DOMAIN lists /\ g \in DOMAIN lists
      BY <2>3
    <3> QED BY <1>4, <3>1 DEF ListInv, ListsApart
  <2> QED BY <2>1, <2>2, <2>3
<1> QED BY <1>2, <1>3, <1>4, <1>5, <1>6, <1>7 DEF ListInv

LEMMA ListSteps == ListInv /\ (ListNext \/ UNCHANGED listVars) => ListInv'
<1> SUFFICES ASSUME ListInv, ListNext \/ UNCHANGED listVars PROVE ListInv'
  OBVIOUS
<1>1. CASE UNCHANGED listVars
  BY <1>1 DEF listVars, ListInv
<1>2. CASE ListNext
  BY <1>2, ListAddStep, ListAddTailStep, ListDelStep, ListReplaceStep, ListSpliceStep, ListHeadStep, Zenon
     DEF ListNext
<1> QED BY <1>1, <1>2

LEMMA ListsRing == ListInv => ListsAreRings /\ ListTypeOK
<1> SUFFICES ASSUME ListInv PROVE ListsAreRings /\ ListTypeOK
  OBVIOUS
<1>1. ListTypeOK
  BY DEF ListInv, ListTable, Pointers, ListTypeOK
<1>2. ASSUME NEW h \in DOMAIN lists, NEW round, round = <<h>> \o lists[h] \o <<h>>
      PROVE  \A i \in 1..(Len(round) - 1) : lnext[round[i]] = round[i + 1] /\ lprev[round[i + 1]] = round[i]
  <2>1. PICK s : s = lists[h]
    OBVIOUS
  <2>2. ListOK(h, s) /\ Rings(lnext, lprev, h, s) /\ h \in ListNodes /\ s \in Seq(ListEntries)
    BY <2>1, RingNodes DEF ListOK
  <2>3. PICK n \in Nat : n = Len(s)
    BY <2>2
  <2>4. PICK a : a = RingOf(h, s)
    OBVIOUS
  <2>5. a[0] = h /\ a[n + 1] = h /\ \A k \in 1..n : a[k] = s[k]
    BY <2>2, <2>3, <2>4, RingIs
  <2>6. Cycled(lnext, lprev, a, n)
    BY <2>2, <2>3, <2>4 DEF Rings
  <2>7. <<h>> \in Seq(ListNodes) /\ s \in Seq(ListNodes) /\ Len(<<h>>) = 1 /\ <<h>>[1] = h
    <3>1. \A i \in 1..Len(s) : s[i] \in ListNodes
      BY <2>2 DEF ListNodes
    <3> QED BY <2>2, <3>1
  <2>8. PICK front : front = <<h>> \o s
    OBVIOUS
  <2>9. /\ front \in Seq(ListNodes) /\ Len(front) = 1 + n /\ front[1] = h
        /\ \A k \in 1..n : front[1 + k] = s[k]
    <3>1. /\ <<h>> \o s \in Seq(ListNodes) /\ Len(<<h>> \o s) = Len(<<h>>) + Len(s)
          /\ \A j \in 1..Len(<<h>>) : (<<h>> \o s)[j] = <<h>>[j]
          /\ \A k \in 1..Len(s) : (<<h>> \o s)[Len(<<h>>) + k] = s[k]
      BY <2>7, ConcatIs
    <3> QED BY <2>3, <2>7, <2>8, <3>1
  <2>10. round = Append(front, h)
    BY <1>2, <2>1, <2>7, <2>8, <2>9
  <2>11. Len(round) = n + 2 /\ round[n + 2] = h /\ \A k \in 1..(n + 1) : round[k] = front[k]
    <3>1. /\ Len(Append(front, h)) = Len(front) + 1 /\ Append(front, h)[Len(front) + 1] = h
          /\ \A k \in 1..Len(front) : Append(front, h)[k] = front[k]
      BY <2>2, <2>9, AppendProperties
    <3>2. Len(front) + 1 = n + 2 /\ Len(front) = n + 1
      BY <2>9
    <3> QED BY <2>10, <3>1, <3>2
  <2>12. ASSUME NEW i \in 0..(n + 1)
         PROVE  round[i + 1] = a[i]
    <3>1. i = 0 \/ i = n + 1 \/ i \in 1..n
      OBVIOUS
    <3>2. CASE i = 0
      BY <2>5, <2>9, <2>11, <3>2
    <3>3. CASE i = n + 1
      BY <2>5, <2>11, <3>3
    <3>4. CASE i \in 1..n
      <4>1. i + 1 \in 1..(n + 1) /\ i + 1 = 1 + i
        BY <3>4
      <4>2. round[i + 1] = front[i + 1]
        BY <2>11, <4>1
      <4>3. front[1 + i] = s[i] /\ a[i] = s[i]
        BY <2>5, <2>9, <3>4
      <4> QED BY <4>1, <4>2, <4>3
    <3> QED BY <3>1, <3>2, <3>3, <3>4
  <2>13. ASSUME NEW i \in 1..(n + 1)
         PROVE  lnext[round[i]] = round[i + 1] /\ lprev[round[i + 1]] = round[i]
    <3>1. PICK k \in 0..n : i = k + 1
      <4>1. i - 1 \in 0..n /\ i = (i - 1) + 1
        OBVIOUS
      <4> QED BY <4>1
    <3>2. k \in 0..(n + 1) /\ k + 1 \in 0..(n + 1)
      OBVIOUS
    <3>3. round[i] = a[k] /\ round[i + 1] = a[k + 1]
      BY <2>12, <3>1, <3>2
    <3> QED BY <2>6, <3>3 DEF Cycled
  <2>14. Len(round) - 1 = n + 1
    BY <2>11
  <2> QED BY <2>13, <2>14
<1>3. ListsAreRings
  <2> SUFFICES ASSUME NEW h \in DOMAIN lists
               PROVE  LET round == <<h>> \o lists[h] \o <<h>>
                      IN \A i \in 1..(Len(round) - 1) :
                            /\ lnext[round[i]] = round[i + 1]
                            /\ lprev[round[i + 1]] = round[i]
    BY Zenon DEF ListsAreRings
  <2> DEFINE rr == <<h>> \o lists[h] \o <<h>>
  <2>1. \A i \in 1..(Len(rr) - 1) : lnext[rr[i]] = rr[i + 1] /\ lprev[rr[i + 1]] = rr[i]
    BY <1>2, ZenonT(60)
  <2> QED BY <2>1, Zenon
<1> QED BY <1>1, <1>3

----------------------------------------------------------------------------
(* The hash table: chains in the order of their keys.                      *)

HashNode == [key : HashKeys, datum : HashData]

LEMMA HashKeyIs ==
  ASSUME NEW k \in HashKeys
  PROVE  k \in Nat /\ parahash[k] \in HashBuckets
BY HashAssumption DEF HashBuckets

\* The keys of a chain go up.
KeysUp(c) == \A i, j \in 1..Len(c) : i < j => c[i].key < c[j].key

\* A chain has the keys of its bucket, each with what it was inserted with.
ChainHas(c, b, first) ==
  /\ \A i \in 1..Len(c) : /\ parahash[c[i].key] = b
                          /\ c[i].key \in DOMAIN first /\ c[i].datum = first[c[i].key]
  /\ \A k \in DOMAIN first : parahash[k] = b => \E i \in 1..Len(c) : c[i].key = k

ChainOK(c, b, first) == c \in Seq(HashNode) /\ KeysUp(c) /\ ChainHas(c, b, first)

ChainsOK(table, first) ==
  /\ table \in [HashBuckets -> Seq(HashNode)]
  /\ \A b \in HashBuckets : ChainOK(table[b], b, first)

HashInv ==
  /\ ChainsOK(htable, firstSet)
  /\ DOMAIN firstSet \subseteq HashKeys /\ IsFiniteSet(DOMAIN firstSet)
  /\ nel = Cardinality(DOMAIN firstSet) /\ nel <= MaxNodes

\* Where a walk for k stops: all keys before are smaller, none behind is.
StopsAt(c, k, i) ==
  /\ i \in 1..(Len(c) + 1)
  /\ \A j \in 1..Len(c) : j < i => c[j].key < k
  /\ \A j \in 1..Len(c) : j >= i => c[j].key >= k

LEMMA NodeKeys ==
  ASSUME NEW c \in Seq(HashNode), NEW i \in 1..Len(c)
  PROVE  c[i].key \in HashKeys /\ c[i].key \in Nat /\ c[i].datum \in HashData
<1>1. c[i] \in HashNode
  OBVIOUS
<1>2. c[i].key \in HashKeys /\ c[i].datum \in HashData
  BY <1>1 DEF HashNode
<1> QED BY <1>2, HashKeyIs

LEMMA WalkStops ==
  ASSUME NEW c \in Seq(HashNode), KeysUp(c), NEW k \in Nat
  PROVE  StopsAt(c, k, WalkTo(c, k))
<1>1. PICK n \in Nat : n = Len(c)
  OBVIOUS
<1>2. PICK stop : stop = {i \in DOMAIN c : c[i].key >= k}
  OBVIOUS
<1>3. DOMAIN c = 1..n
  BY <1>1
<1>4. \A j \in 1..n : c[j].key \in Nat
  BY <1>1, NodeKeys
<1>5. PICK w : w = WalkTo(c, k)
  OBVIOUS
<1>6. w = IF stop = {} THEN n + 1 ELSE CHOOSE i \in stop : \A j \in stop : i <= j
  BY <1>1, <1>2, <1>5 DEF WalkTo
<1>7. \A j \in 1..n : j \in stop <=> c[j].key >= k
  BY <1>2, <1>3
<1>8. CASE stop = {}
  <2>1. w = n + 1
    BY <1>6, <1>8
  <2>2. \A j \in 1..n : c[j].key < k
    BY <1>4, <1>7, <1>8
  <2>3. \A j \in 1..n : ~(j >= n + 1)
    OBVIOUS
  <2>4. n + 1 \in 1..(n + 1)
    OBVIOUS
  <2> QED BY <1>1, <1>5, <2>1, <2>2, <2>3, <2>4 DEF StopsAt
<1>9. CASE stop # {}
  <2>1. stop \subseteq 1..n /\ stop \subseteq Nat
    BY <1>2, <1>3
  <2>2. \E i \in stop : \A j \in stop : i <= j
    BY <1>9, <2>1, LeastNatural
  <2>3. w \in stop /\ \A j \in stop : w <= j
    BY <1>6, <1>9, <2>2
  <2>4. w \in 1..n /\ c[w].key >= k
    BY <1>7, <2>1, <2>3
  <2>5. ASSUME NEW j \in 1..n, j < w
        PROVE  c[j].key < k
    <3>1. j \notin stop
      BY <2>3, <2>4, <2>5
    <3> QED BY <1>4, <1>7, <3>1
  <2>6. ASSUME NEW j \in 1..n, j >= w
        PROVE  c[j].key >= k
    <3>1. CASE j = w
      BY <2>4, <3>1
    <3>2. CASE w < j
      <4>1. c[w].key < c[j].key
        BY <1>1, <2>4, <3>2 DEF KeysUp
      <4> QED BY <1>4, <2>4, <4>1
    <3> QED BY <2>4, <2>6, <3>1, <3>2
  <2>7. w \in 1..(n + 1)
    BY <2>4
  <2> QED BY <1>1, <1>5, <2>5, <2>6, <2>7 DEF StopsAt
<1> QED BY <1>8, <1>9

\* The key is in the chain only where the walk for it stops.
LEMMA FoundOrNot ==
  ASSUME NEW c \in Seq(HashNode), KeysUp(c), NEW k \in Nat, NEW i, StopsAt(c, k, i)
  PROVE  \A j \in 1..Len(c) : c[j].key = k => i <= Len(c) /\ i = j
<1>1. SUFFICES ASSUME NEW j \in 1..Len(c), c[j].key = k
               PROVE  i <= Len(c) /\ i = j
  OBVIOUS
<1>2. PICK n \in Nat : n = Len(c)
  OBVIOUS
<1>3. i \in 1..(n + 1) /\ j \in 1..n
  BY <1>2 DEF StopsAt
<1>4. ~(j < i)
  BY <1>1 DEF StopsAt
<1>5. i \in 1..n
  BY <1>3, <1>4
<1>6. ~(i < j)
  <2>1. SUFFICES ASSUME i < j PROVE FALSE
    OBVIOUS
  <2>2. c[i].key < c[j].key
    BY <1>2, <1>3, <1>5, <2>1 DEF KeysUp
  <2>3. c[i].key >= k
    BY <1>2, <1>3, <1>5 DEF StopsAt
  <2>4. c[i].key \in Nat
    BY <1>2, <1>5, NodeKeys
  <2> QED BY <1>1, <2>2, <2>3, <2>4
<1> QED BY <1>2, <1>3, <1>4, <1>5, <1>6

\* Each element of a sequence that has got one more is the new one or was there.
FromInserting(t, s, i, e) ==
  /\ \A j \in 1..Len(t) : \/ j = i /\ t[j] = e
                          \/ j \in 1..Len(s) /\ j < i /\ t[j] = s[j]
                          \/ j - 1 \in 1..Len(s) /\ j > i /\ t[j] = s[j - 1]
  /\ \A j \in 1..Len(s) : \E x \in 1..Len(t) : t[x] = s[j]

LEMMA InsertedIs ==
  ASSUME NEW t, NEW S, NEW s \in Seq(S), NEW i \in 1..(Len(s) + 1), NEW e, Inserted(t, s, i, e)
  PROVE  FromInserting(t, s, i, e)
<1>1. PICK n \in Nat : n = Len(s)
  OBVIOUS
<1>2. /\ Len(t) = n + 1 /\ t[i] = e
      /\ \A j \in 1..(i - 1) : t[j] = s[j]
      /\ \A j \in i..n : t[j + 1] = s[j]
  BY <1>1 DEF Inserted
<1>3. ASSUME NEW j \in 1..(n + 1)
      PROVE  \/ j = i /\ t[j] = e
             \/ j \in 1..n /\ j < i /\ t[j] = s[j]
             \/ j - 1 \in 1..n /\ j > i /\ t[j] = s[j - 1]
  <2>1. CASE j = i
    BY <1>2, <2>1
  <2>2. CASE j < i
    <3>1. j \in 1..(i - 1) /\ j \in 1..n
      BY <1>1, <2>2
    <3> QED BY <1>2, <2>2, <3>1
  <2>3. CASE j > i
    <3>1. j - 1 \in i..n /\ (j - 1) + 1 = j /\ j - 1 \in 1..n
      BY <1>1, <2>3
    <3> QED BY <1>2, <2>3, <3>1
  <2> QED BY <1>1, <2>1, <2>2, <2>3
<1>4. ASSUME NEW j \in 1..n
      PROVE  \E x \in 1..(n + 1) : t[x] = s[j]
  <2>1. CASE j < i
    <3>1. j \in 1..(i - 1) /\ j \in 1..(n + 1)
      BY <1>1, <2>1
    <3> QED BY <1>2, <3>1
  <2>2. CASE ~(j < i)
    <3>1. j \in i..n /\ j + 1 \in 1..(n + 1)
      BY <1>1, <2>2
    <3> QED BY <1>2, <3>1
  <2> QED BY <2>1, <2>2
<1> QED BY <1>1, <1>2, <1>3, <1>4 DEF FromInserting

\* A key that is new is put where the walk for it stops.
LEMMA KeysStayUp ==
  ASSUME NEW c \in Seq(HashNode), KeysUp(c), NEW r \in HashNode, NEW i, StopsAt(c, r.key, i),
         \A j \in 1..Len(c) : c[j].key # r.key,
         NEW t, Inserted(t, c, i, r)
  PROVE  KeysUp(t)
<1>1. PICK n \in Nat : n = Len(c)
  OBVIOUS
<1>2. PICK k \in Nat : k = r.key
  <2>1. r.key \in HashKeys
    BY DEF HashNode
  <2> QED BY <2>1, HashKeyIs
<1>3. i \in 1..(n + 1)
  BY <1>1 DEF StopsAt
<1>4. \A j \in 1..n : c[j].key \in Nat
  BY <1>1, NodeKeys
<1>5. ASSUME NEW j \in 1..n
      PROVE  (j < i => c[j].key < k) /\ (j >= i => c[j].key > k)
  <2>1. j < i => c[j].key < k
    BY <1>1, <1>2 DEF StopsAt
  <2>2. j >= i => c[j].key >= k
    BY <1>1, <1>2 DEF StopsAt
  <2>3. c[j].key # k
    BY <1>1, <1>2
  <2> QED BY <1>2, <1>4, <2>1, <2>2, <2>3
<1>6. Len(t) = n + 1
  BY <1>1 DEF Inserted
<1>7. \A j \in 1..(n + 1) : \/ j = i /\ t[j] = r
                            \/ j \in 1..n /\ j < i /\ t[j] = c[j]
                            \/ j - 1 \in 1..n /\ j > i /\ t[j] = c[j - 1]
  <2>1. FromInserting(t, c, i, r)
    BY <1>1, <1>3, InsertedIs
  <2> QED BY <1>1, <1>6, <2>1 DEF FromInserting
<1>8. \A x, y \in 1..n : x < y => c[x].key < c[y].key
  BY <1>1 DEF KeysUp
<1>9. ASSUME NEW x \in 1..(n + 1), NEW y \in 1..(n + 1), x < y
      PROVE  t[x].key < t[y].key
  <2>1. CASE x = i /\ t[x] = r
    <3>1. y - 1 \in 1..n /\ t[y] = c[y - 1] /\ y - 1 >= i
      BY <1>3, <1>7, <1>9, <2>1
    <3>2. c[y - 1].key > k /\ c[y - 1].key \in Nat
      BY <1>4, <1>5, <3>1
    <3> QED BY <1>2, <2>1, <3>1, <3>2
  <2>2. CASE x \in 1..n /\ x < i /\ t[x] = c[x]
    <3>1. CASE y = i /\ t[y] = r
      BY <1>2, <1>5, <2>2, <3>1
    <3>2. CASE y \in 1..n /\ y < i /\ t[y] = c[y]
      BY <1>8, <1>9, <2>2, <3>2
    <3>3. CASE y - 1 \in 1..n /\ y > i /\ t[y] = c[y - 1]
      <4>1. x < y - 1
        BY <1>3, <2>2, <3>3
      <4>2. c[x].key < c[y - 1].key
        BY <1>8, <2>2, <3>3, <4>1
      <4> QED BY <2>2, <3>3, <4>2
    <3> QED BY <1>7, <3>1, <3>2, <3>3
  <2>3. CASE x - 1 \in 1..n /\ x > i /\ t[x] = c[x - 1]
    <3>1. y - 1 \in 1..n /\ t[y] = c[y - 1]
      BY <1>3, <1>7, <1>9, <2>3
    <3>2. x - 1 < y - 1
      BY <1>9
    <3>3. c[x - 1].key < c[y - 1].key
      BY <1>8, <2>3, <3>1, <3>2
    <3> QED BY <2>3, <3>1, <3>3
  <2> QED BY <1>7, <2>1, <2>2, <2>3
<1> QED BY <1>6, <1>9 DEF KeysUp

\* What is known of the names once k has been inserted with d.
FirstAnd(first, k, d) == [x \in DOMAIN first \cup {k} |-> IF x = k THEN d ELSE first[x]]

LEMMA ChainGets ==
  ASSUME NEW first, NEW k \in HashKeys, NEW d \in HashData, k \notin DOMAIN first,
         NEW b, b = parahash[k],
         NEW c, ChainOK(c, b, first), NEW i, StopsAt(c, k, i),
         NEW t, t = InsertAt(c, i, [key |-> k, datum |-> d])
  PROVE  ChainOK(t, b, FirstAnd(first, k, d))
<1>1. PICK r : r = [key |-> k, datum |-> d]
  OBVIOUS
<1>2. r \in HashNode /\ r.key = k /\ r.datum = d
  BY <1>1 DEF HashNode
<1>3. PICK n \in Nat : n = Len(c)
  BY DEF ChainOK
<1>4. c \in Seq(HashNode) /\ KeysUp(c) /\ ChainHas(c, b, first)
  BY DEF ChainOK
<1>5. i \in 1..(Len(c) + 1)
  BY DEF StopsAt
<1>6. t \in Seq(HashNode) /\ Inserted(t, c, i, r)
  BY <1>1, <1>2, <1>4, <1>5, InsertAtIs
<1>7. \A j \in 1..n : c[j].key # k /\ c[j].key \in DOMAIN first /\ c[j].datum = first[c[j].key] /\ parahash[c[j].key] = b
  BY <1>3, <1>4 DEF ChainHas
<1>8. KeysUp(t)
  BY <1>2, <1>3, <1>4, <1>6, <1>7, KeysStayUp
<1>9. PICK g : g = FirstAnd(first, k, d)
  OBVIOUS
<1>10. DOMAIN g = DOMAIN first \cup {k} /\ g[k] = d /\ \A x \in DOMAIN first : g[x] = first[x]
  BY <1>9 DEF FirstAnd
<1>11. Len(t) = n + 1
  BY <1>3, <1>6 DEF Inserted
<1>12. /\ \A j \in 1..(n + 1) : t[j] = r \/ \E x \in 1..n : t[j] = c[x]
       /\ \A j \in 1..n : \E x \in 1..(n + 1) : t[x] = c[j]
  <2>1. /\ \A j \in 1..Len(t) : \/ j = i /\ t[j] = r
                                \/ j \in 1..Len(c) /\ j < i /\ t[j] = c[j]
                                \/ j - 1 \in 1..Len(c) /\ j > i /\ t[j] = c[j - 1]
        /\ \A j \in 1..Len(c) : \E x \in 1..Len(t) : t[x] = c[j]
    <3>1. FromInserting(t, c, i, r)
      BY <1>4, <1>5, <1>6, InsertedIs
    <3> QED BY <3>1 DEF FromInserting
  <2> QED BY <1>3, <1>11, <2>1, Zenon
<1>13. ASSUME NEW j \in 1..(n + 1)
       PROVE  parahash[t[j].key] = b /\ t[j].key \in DOMAIN g /\ t[j].datum = g[t[j].key]
  <2>1. CASE t[j] = r
    BY <1>2, <1>10, <2>1
  <2>2. CASE \E x \in 1..n : t[j] = c[x]
    <3>1. PICK x \in 1..n : t[j] = c[x]
      BY <2>2
    <3> QED BY <1>7, <1>10, <3>1
  <2> QED BY <1>12, <2>1, <2>2
<1>14. ASSUME NEW y \in DOMAIN g, parahash[y] = b
       PROVE  \E j \in 1..(n + 1) : t[j].key = y
  <2>1. CASE y = k
    <3>1. t[i] = r /\ i \in 1..(n + 1)
      BY <1>3, <1>5, <1>6 DEF Inserted
    <3> QED BY <1>2, <2>1, <3>1
  <2>2. CASE y # k
    <3>1. PICK x \in 1..n : c[x].key = y
      BY <1>3, <1>4, <1>10, <1>14, <2>2 DEF ChainHas
    <3> QED BY <1>12, <3>1
  <2> QED BY <2>1, <2>2
<1>15. ChainHas(t, b, g)
  BY <1>11, <1>13, <1>14 DEF ChainHas
<1> QED BY <1>6, <1>8, <1>9, <1>15 DEF ChainOK

\* The chains of the other buckets hold what they held.
LEMMA OtherChain ==
  ASSUME NEW first, NEW k \in HashKeys, NEW d, k \notin DOMAIN first,
         NEW b, b # parahash[k], NEW c, ChainOK(c, b, first)
  PROVE  ChainOK(c, b, FirstAnd(first, k, d))
<1>1. PICK g : g = FirstAnd(first, k, d)
  OBVIOUS
<1>2. DOMAIN g = DOMAIN first \cup {k} /\ g[k] = d /\ \A x \in DOMAIN first : g[x] = first[x]
  BY <1>1 DEF FirstAnd
<1>3. ChainHas(c, b, g)
  BY <1>2 DEF ChainOK, ChainHas
<1> QED BY <1>1, <1>3 DEF ChainOK

LEMMA HashStarts == HashInit => HashInv
<1> SUFFICES ASSUME HashInit PROVE HashInv
  OBVIOUS
<1>1. htable = [b \in HashBuckets |-> <<>>] /\ nel = 0 /\ firstSet = <<>>
  BY DEF HashInit
<1>2. DOMAIN firstSet = {}
  BY <1>1
<1>3. \A b \in HashBuckets : ChainOK(<<>>, b, firstSet)
  BY <1>2 DEF ChainOK, KeysUp, ChainHas
<1>4. ChainsOK(htable, firstSet)
  BY <1>1, <1>3 DEF ChainsOK
<1>5. 0 <= MaxNodes
  BY HashAssumption
<1> QED BY <1>1, <1>2, <1>4, <1>5, FS_EmptySet DEF HashInv

LEMMA EmptyKeeps == HashInv /\ hashtab_destroy => HashInv'
<1> SUFFICES ASSUME hashtab_destroy PROVE HashInv'
  OBVIOUS
<1>1. htable' = [b \in HashBuckets |-> <<>>] /\ nel' = 0 /\ firstSet' = <<>>
  BY DEF hashtab_destroy
<1>2. DOMAIN firstSet' = {}
  BY <1>1
<1>3. \A b \in HashBuckets : ChainOK(<<>>, b, firstSet')
  BY <1>2 DEF ChainOK, KeysUp, ChainHas
<1>4. ChainsOK(htable', firstSet')
  BY <1>1, <1>3 DEF ChainsOK
<1>5. 0 <= MaxNodes
  BY HashAssumption
<1> QED BY <1>1, <1>2, <1>4, <1>5, FS_EmptySet DEF HashInv

\* A name is known if and only if the walk for it ends at it.
LEMMA FoundIs ==
  ASSUME HashInv, NEW k \in HashKeys
  PROVE  LET c == htable[parahash[k]]
             i == WalkTo(c, k)
         IN  /\ StopsAt(c, k, i) /\ ChainOK(c, parahash[k], firstSet)
             /\ k \in DOMAIN firstSet <=> i <= Len(c) /\ c[i].key = k
             /\ k \in DOMAIN firstSet => c[i].datum = firstSet[k]
<1>1. PICK b \in HashBuckets : b = parahash[k]
  BY HashKeyIs
<1>2. PICK c : c = htable[b]
  OBVIOUS
<1>3. ChainOK(c, b, firstSet)
  BY <1>2 DEF HashInv, ChainsOK
<1>4. c \in Seq(HashNode) /\ KeysUp(c) /\ ChainHas(c, b, firstSet) /\ k \in Nat
  BY <1>3, HashKeyIs DEF ChainOK
<1>5. PICK i : i = WalkTo(c, k)
  OBVIOUS
<1>6. StopsAt(c, k, i)
  BY <1>4, <1>5, WalkStops
<1>7. i \in 1..(Len(c) + 1)
  BY <1>6 DEF StopsAt
<1>8. ASSUME k \in DOMAIN firstSet
      PROVE  i <= Len(c) /\ c[i].key = k
  <2>1. PICK j \in 1..Len(c) : c[j].key = k
    BY <1>1, <1>4, <1>8 DEF ChainHas
  <2>2. i <= Len(c) /\ i = j
    BY <1>4, <1>6, <2>1, FoundOrNot
  <2> QED BY <2>1, <2>2
<1>9. ASSUME i <= Len(c), c[i].key = k
      PROVE  k \in DOMAIN firstSet /\ c[i].datum = firstSet[k]
  <2>1. i \in 1..Len(c)
    BY <1>4, <1>7, <1>9
  <2> QED BY <1>4, <1>9, <2>1 DEF ChainHas
<1>10. /\ k \in DOMAIN firstSet <=> i <= Len(c) /\ c[i].key = k
       /\ k \in DOMAIN firstSet => c[i].datum = firstSet[k]
  BY <1>8, <1>9
<1> QED BY <1>1, <1>2, <1>3, <1>5, <1>6, <1>10

LEMMA InsertKeeps ==
  ASSUME HashInv, NEW k \in HashKeys, NEW d \in HashData, hashtab_insert(k, d)
  PROVE  HashInv'
<1>1. PICK b \in HashBuckets : b = parahash[k]
  BY HashKeyIs
<1>2. PICK c : c = htable[b]
  OBVIOUS
<1>3. PICK i : i = WalkTo(c, k)
  OBVIOUS
<1>4. /\ StopsAt(c, k, i) /\ ChainOK(c, b, firstSet)
      /\ k \in DOMAIN firstSet <=> i <= Len(c) /\ c[i].key = k
  BY <1>1, <1>2, <1>3, FoundIs
<1>5. CASE UNCHANGED hashVars
  BY <1>5 DEF HashInv, ChainsOK, hashVars
<1>6. CASE ~(nel = MaxNodes \/ (i <= Len(c) /\ c[i].key = k))
  <2>1. /\ htable' = [htable EXCEPT ![b] = InsertAt(c, i, [key |-> k, datum |-> d])]
        /\ nel' = nel + 1 /\ firstSet' = FirstAnd(firstSet, k, d)
    BY <1>1, <1>2, <1>3, <1>6 DEF hashtab_insert, FirstAnd
  <2>2. k \notin DOMAIN firstSet /\ nel # MaxNodes
    BY <1>4, <1>6
  <2>3. PICK t : t = InsertAt(c, i, [key |-> k, datum |-> d])
    OBVIOUS
  <2>4. ChainOK(t, b, firstSet')
    BY <1>1, <1>4, <2>1, <2>2, <2>3, ChainGets
  <2>5. htable \in [HashBuckets -> Seq(HashNode)] /\ \A x \in HashBuckets : ChainOK(htable[x], x, firstSet)
    BY DEF HashInv, ChainsOK
  <2>6. t \in Seq(HashNode)
    BY <2>4 DEF ChainOK
  <2>7. htable' = [htable EXCEPT ![b] = t]
    BY <2>1, <2>3
  <2>8. htable' \in [HashBuckets -> Seq(HashNode)] /\ htable'[b] = t /\ \A x \in HashBuckets : x # b => htable'[x] = htable[x]
    BY <2>5, <2>6, <2>7
  <2>9. ASSUME NEW x \in HashBuckets
        PROVE  ChainOK(htable'[x], x, firstSet')
    <3>1. CASE x = b
      BY <2>4, <2>8, <3>1
    <3>2. CASE x # b
      <4>1. ChainOK(htable[x], x, firstSet) /\ htable'[x] = htable[x]
        BY <2>5, <2>8, <3>2
      <4>2. ChainOK(htable[x], x, FirstAnd(firstSet, k, d))
        BY <1>1, <2>2, <3>2, <4>1, OtherChain
      <4> QED BY <2>1, <4>1, <4>2
    <3> QED BY <3>1, <3>2
  <2>10. ChainsOK(htable', firstSet')
    BY <2>8, <2>9 DEF ChainsOK
  <2>11. DOMAIN firstSet' = DOMAIN firstSet \cup {k}
    BY <2>1 DEF FirstAnd
  <2>12. DOMAIN firstSet \subseteq HashKeys /\ IsFiniteSet(DOMAIN firstSet) /\ nel = Cardinality(DOMAIN firstSet) /\ nel <= MaxNodes
    BY DEF HashInv
  <2>13. IsFiniteSet(DOMAIN firstSet') /\ Cardinality(DOMAIN firstSet') = nel + 1
    BY <2>2, <2>11, <2>12, FS_AddElement
  <2>14. nel \in Nat
    BY <2>12, FS_CardinalityType
  <2>15. nel + 1 <= MaxNodes
    BY <2>2, <2>12, <2>14, HashAssumption
  <2>16. DOMAIN firstSet' \subseteq HashKeys
    BY <2>11, <2>12
  <2> QED BY <2>1, <2>10, <2>13, <2>15, <2>16 DEF HashInv
<1>7. nel = MaxNodes \/ (i <= Len(c) /\ c[i].key = k) => UNCHANGED hashVars
  BY <1>1, <1>2, <1>3 DEF hashtab_insert
<1> QED BY <1>5, <1>6, <1>7

LEMMA HashSteps == HashInv /\ (HashNext \/ UNCHANGED hashVars) => HashInv'
<1> SUFFICES ASSUME HashInv, HashNext \/ UNCHANGED hashVars PROVE HashInv'
  OBVIOUS
<1>1. CASE UNCHANGED hashVars
  BY <1>1 DEF HashInv, ChainsOK, hashVars
<1>2. CASE hashtab_destroy
  BY <1>2, EmptyKeeps
<1>3. ASSUME NEW k \in HashKeys, NEW d \in HashData, hashtab_insert(k, d)
      PROVE  HashInv'
  BY <1>3, InsertKeeps
<1> QED BY <1>1, <1>2, <1>3 DEF HashNext

\* A sequence of nodes that has each name known, and none twice, has as many
\* as there are names.
LEMMA AsManyAsNames ==
  ASSUME NEW c \in Seq(HashNode), NEW K, IsFiniteSet(K),
         \A i, j \in 1..Len(c) : i # j => c[i].key # c[j].key,
         \A i \in 1..Len(c) : c[i].key \in K
  PROVE  /\ Len(c) <= Cardinality(K)
         /\ (\A k \in K : \E i \in 1..Len(c) : c[i].key = k) => Len(c) = Cardinality(K)
<1>1. PICK n \in Nat : n = Len(c)
  OBVIOUS
<1>2. PICK f : f = [i \in 1..n |-> c[i].key]
  OBVIOUS
<1>3. f \in [1..n -> K] /\ \A i, j \in 1..n : f[i] = f[j] => i = j
  BY <1>1, <1>2
<1>4. f \in Injection(1..n, K)
  BY <1>3 DEF Injection, IsInjective
<1>5. IsFiniteSet(1..n) /\ Cardinality(1..n) = n
  <2>1. 1 \in Int /\ n \in Int
    OBVIOUS
  <2>2. IsFiniteSet(1..n) /\ Cardinality(1..n) = IF 1 > n THEN 0 ELSE n - 1 + 1
    BY <2>1, FS_Interval
  <2> QED BY <2>2
<1>6. n <= Cardinality(K) /\ (n = Cardinality(K) <=> f \in Surjection(1..n, K))
  BY <1>4, <1>5, FS_Injection
<1>7. (\A k \in K : \E i \in 1..n : c[i].key = k) => f \in Surjection(1..n, K)
  <2>1. SUFFICES ASSUME \A k \in K : \E i \in 1..n : c[i].key = k
                 PROVE  \A k \in K : \E i \in 1..n : f[i] = k
    BY <1>3 DEF Surjection
  <2> QED BY <1>2, <2>1
<1> QED BY <1>1, <1>6, <1>7

\* The walk over the buckets below i: their nodes, and no other.
AllBelow(s, table, i) ==
  /\ s \in Seq(HashNode)
  /\ \A x, y \in 1..Len(s) : x # y => s[x].key # s[y].key
  /\ \A x \in 1..Len(s) : \E b \in 0..(i - 1) : \E j \in 1..Len(table[b]) : s[x] = table[b][j]
  /\ \A b \in 0..(i - 1) : \A j \in 1..Len(table[b]) : \E x \in 1..Len(s) : s[x] = table[b][j]

LEMMA BelowNext ==
  ASSUME NEW first, NEW table, ChainsOK(table, first), NEW i \in 1..HashSize,
         NEW s, AllBelow(s, table, i - 1)
  PROVE  AllBelow(s \o table[i - 1], table, i)
<1>1. i - 1 \in HashBuckets /\ i - 1 \in 0..(i - 1) /\ HashSize \in Nat
  BY HashAssumption DEF HashBuckets
<1>2. PICK c : c = table[i - 1]
  OBVIOUS
<1>3. c \in Seq(HashNode) /\ KeysUp(c) /\ ChainHas(c, i - 1, first)
  BY <1>1, <1>2 DEF ChainsOK, ChainOK
<1>4. PICK n \in Nat : n = Len(c)
  BY <1>3
<1>5. s \in Seq(HashNode)
  BY DEF AllBelow
<1>6. PICK l \in Nat : l = Len(s)
  BY <1>5
<1>7. PICK t : t = s \o c
  OBVIOUS
<1>8. /\ t \in Seq(HashNode) /\ Len(t) = l + n
      /\ \A x \in 1..l : t[x] = s[x]
      /\ \A x \in 1..n : t[l + x] = c[x]
  <2>1. /\ s \o c \in Seq(HashNode) /\ Len(s \o c) = Len(s) + Len(c)
        /\ \A j \in 1..Len(s) : (s \o c)[j] = s[j]
        /\ \A k \in 1..Len(c) : (s \o c)[Len(s) + k] = c[k]
    BY <1>3, <1>5, ConcatIs
  <2> QED BY <1>4, <1>6, <1>7, <2>1
<1>9. \A x \in 1..(l + n) : x \in 1..l \/ \E y \in 1..n : x = l + y
  <2>1. SUFFICES ASSUME NEW x \in 1..(l + n), x \notin 1..l
                 PROVE  \E y \in 1..n : x = l + y
    OBVIOUS
  <2>2. x - l \in 1..n /\ x = l + (x - l)
    BY <2>1
  <2> QED BY <2>2
<1>10. /\ \A x, y \in 1..l : x # y => s[x].key # s[y].key
       /\ \A x \in 1..l : \E b \in 0..(i - 2) : \E j \in 1..Len(table[b]) : s[x] = table[b][j]
       /\ \A b \in 0..(i - 2) : \A j \in 1..Len(table[b]) : \E x \in 1..l : s[x] = table[b][j]
  <2>1. (i - 1) - 1 = i - 2
    OBVIOUS
  <2>2. \A x, y \in 1..l : x # y => s[x].key # s[y].key
    BY <1>6 DEF AllBelow
  <2>3. \A x \in 1..l : \E b \in 0..(i - 2) : \E j \in 1..Len(table[b]) : s[x] = table[b][j]
    BY <1>6, <2>1 DEF AllBelow
  <2>4. \A b \in 0..(i - 2) : \A j \in 1..Len(table[b]) : \E x \in 1..l : s[x] = table[b][j]
    BY <1>6, <2>1 DEF AllBelow
  <2> QED BY <2>2, <2>3, <2>4
<1>11. \A x \in 1..l : \E b \in 0..(i - 2) : parahash[s[x].key] = b
  <2>1. SUFFICES ASSUME NEW x \in 1..l
                 PROVE  \E b \in 0..(i - 2) : parahash[s[x].key] = b
    OBVIOUS
  <2>2. PICK b \in 0..(i - 2) : \E j \in 1..Len(table[b]) : s[x] = table[b][j]
    BY <1>10
  <2>3. PICK j \in 1..Len(table[b]) : s[x] = table[b][j]
    BY <2>2
  <2>4. b \in HashBuckets
    BY <1>1 DEF HashBuckets
  <2>5. ChainHas(table[b], b, first)
    BY <2>4 DEF ChainsOK, ChainOK
  <2>6. parahash[table[b][j].key] = b
    BY <2>5 DEF ChainHas
  <2> QED BY <2>3, <2>6
<1>12. \A y \in 1..n : parahash[c[y].key] = i - 1
  BY <1>3, <1>4 DEF ChainHas
<1>13. \A x, y \in 1..n : x # y => c[x].key # c[y].key
  <2>1. SUFFICES ASSUME NEW x \in 1..n, NEW y \in 1..n, x # y
                 PROVE  c[x].key # c[y].key
    OBVIOUS
  <2>2. x < y \/ y < x
    BY <2>1
  <2>3. c[x].key \in Nat /\ c[y].key \in Nat
    BY <1>3, <1>4, NodeKeys
  <2>4. (x < y => c[x].key < c[y].key) /\ (y < x => c[y].key < c[x].key)
    BY <1>3, <1>4 DEF KeysUp
  <2> QED BY <2>2, <2>3, <2>4
<1>14. \A x \in 1..l, y \in 1..n : s[x].key # c[y].key
  <2>1. SUFFICES ASSUME NEW x \in 1..l, NEW y \in 1..n, s[x].key = c[y].key
                 PROVE  FALSE
    OBVIOUS
  <2>2. PICK b \in 0..(i - 2) : parahash[s[x].key] = b
    BY <1>11
  <2>3. parahash[c[y].key] = i - 1
    BY <1>12
  <2> QED BY <2>1, <2>2, <2>3
<1>15. \A x, y \in 1..(l + n) : x # y => t[x].key # t[y].key
  <2>1. SUFFICES ASSUME NEW x \in 1..(l + n), NEW y \in 1..(l + n), x # y
                 PROVE  t[x].key # t[y].key
    OBVIOUS
  <2>2. CASE x \in 1..l
    <3>1. CASE y \in 1..l
      BY <1>8, <1>10, <2>1, <2>2, <3>1
    <3>2. CASE \E v \in 1..n : y = l + v
      <4>1. PICK v \in 1..n : y = l + v
        BY <3>2
      <4>2. t[x] = s[x] /\ t[y] = c[v]
        BY <1>8, <2>2, <4>1
      <4> QED BY <1>14, <2>2, <4>2
    <3> QED BY <1>9, <3>1, <3>2
  <2>3. CASE \E u \in 1..n : x = l + u
    <3>1. PICK u \in 1..n : x = l + u
      BY <2>3
    <3>2. t[x] = c[u]
      BY <1>8, <3>1
    <3>3. CASE y \in 1..l
      BY <1>8, <1>14, <3>2, <3>3
    <3>4. CASE \E v \in 1..n : y = l + v
      <4>1. PICK v \in 1..n : y = l + v
        BY <3>4
      <4>2. t[y] = c[v] /\ u # v
        BY <1>8, <2>1, <3>1, <4>1
      <4> QED BY <1>13, <3>2, <4>2
    <3> QED BY <1>9, <3>3, <3>4
  <2> QED BY <1>9, <2>2, <2>3
<1>16. ASSUME NEW x \in 1..(l + n)
       PROVE  \E b \in 0..(i - 1) : \E j \in 1..Len(table[b]) : t[x] = table[b][j]
  <2>1. CASE x \in 1..l
    <3>1. PICK b \in 0..(i - 2) : \E j \in 1..Len(table[b]) : s[x] = table[b][j]
      BY <1>10, <2>1
    <3>2. b \in 0..(i - 1) /\ t[x] = s[x]
      BY <1>8, <2>1
    <3> QED BY <3>1, <3>2
  <2>2. CASE \E y \in 1..n : x = l + y
    <3>1. PICK y \in 1..n : x = l + y
      BY <2>2
    <3>2. t[x] = table[i - 1][y] /\ y \in 1..Len(table[i - 1])
      BY <1>2, <1>4, <1>8, <3>1
    <3> QED BY <1>1, <3>2
  <2> QED BY <1>9, <2>1, <2>2
<1>17. ASSUME NEW b \in 0..(i - 1), NEW j \in 1..Len(table[b])
       PROVE  \E x \in 1..(l + n) : t[x] = table[b][j]
  <2>1. CASE b = i - 1
    <3>1. j \in 1..n /\ table[b][j] = c[j]
      BY <1>2, <1>4, <2>1
    <3>2. l + j \in 1..(l + n) /\ t[l + j] = c[j]
      BY <1>8, <3>1
    <3> QED BY <3>1, <3>2
  <2>2. CASE b # i - 1
    <3>1. b \in 0..(i - 2)
      BY <2>2
    <3>2. PICK x \in 1..l : s[x] = table[b][j]
      BY <1>10, <3>1
    <3>3. x \in 1..(l + n) /\ t[x] = s[x]
      BY <1>8
    <3> QED BY <3>2, <3>3
  <2> QED BY <2>1, <2>2
<1>18. AllBelow(t, table, i)
  BY <1>8, <1>15, <1>16, <1>17 DEF AllBelow
<1> QED BY <1>2, <1>7, <1>18

LEMMA MapIs ==
  ASSUME HashInv
  PROVE  AllBelow(hashtab_map, htable, HashSize)
<1> DEFINE N == HashSize
           S == Seq(HashNode)
           Joins(k, c) == c \o htable[k - 1]
           step == [k \in 1..N |-> [c \in S |-> Joins(k, c)]]
           Eq(f) == f = [k \in 0..N |-> IF k = 0 THEN <<>> ELSE Joins(k, f[k - 1])]
           F == CHOOSE f : Eq(f)
<1>1. N \in Nat /\ N \in 0..N /\ 0 \in 0..N
  BY HashAssumption
<1>2. ChainsOK(htable, firstSet)
  BY DEF HashInv
<1>3. ASSUME NEW k \in 1..N, NEW c \in S
      PROVE  Joins(k, c) \in S
  <2>1. k - 1 \in HashBuckets
    BY <1>1 DEF HashBuckets
  <2>2. htable[k - 1] \in S
    BY <1>2, <2>1 DEF ChainsOK
  <2> HIDE DEF S
  <2>3. c \in Seq(HashNode) /\ htable[k - 1] \in Seq(HashNode)
    BY <2>2 DEF S
  <2> QED BY <2>3, ConcatIs DEF S
<1>4. hashtab_map = F[N]
  BY DEF hashtab_map
<1>5. <<>> \in S
  OBVIOUS
<1> HIDE DEF N, S, Joins
<1>6. step \in [1..N -> [S -> S]]
  BY <1>3
<1>7. \A k \in 1..N : \A c \in S : step[k][c] = Joins(k, c)
  BY <1>3
<1> HIDE DEF step
<1>8. PICK f : Recursed(f, N, S, <<>>, step)
  BY <1>1, <1>5, <1>6, Recursion
<1>9. f \in [0..N -> S] /\ f[0] = <<>> /\ \A i \in 1..N : f[i] = Joins(i, f[i - 1])
  <2>1. f \in [0..N -> S] /\ f[0] = <<>> /\ \A i \in 1..N : f[i] = step[i][f[i - 1]]
    BY <1>8 DEF Recursed
  <2>2. ASSUME NEW i \in 1..N PROVE f[i] = Joins(i, f[i - 1])
    <3>1. i - 1 \in 0..N
      BY <1>1
    <3>2. f[i - 1] \in S
      BY <2>1, <3>1
    <3> QED BY <1>7, <2>1, <3>2
  <2> QED BY <2>1, <2>2
<1>10. Eq(f)
  <2>1. \A i \in 0..N : i # 0 => i \in 1..N
    BY <1>1
  <2>2. \A i \in 0..N : f[i] = IF i = 0 THEN <<>> ELSE Joins(i, f[i - 1])
    BY <1>9, <2>1
  <2>3. f = [i \in 0..N |-> f[i]]
    BY <1>9
  <2> QED BY <2>2, <2>3, Zenon
<1>11. Eq(F)
  <2> HIDE DEF Eq
  <2> QED BY <1>10, Zenon
<1>12. \A i \in 0..N : F[i] = IF i = 0 THEN <<>> ELSE Joins(i, F[i - 1])
  <2>1. F = [k \in 0..N |-> IF k = 0 THEN <<>> ELSE Joins(k, F[k - 1])]
    BY <1>11, Zenon
  <2> HIDE DEF F
  <2> QED BY <2>1, Zenon
<1> HIDE DEF F, Eq
<1> DEFINE Good == {i \in 0..N : AllBelow(F[i], htable, i)}
<1>13. 0 \in Good
  <2>1. F[0] = <<>>
    BY <1>1, <1>12
  <2>2. AllBelow(<<>>, htable, 0)
    <3>1. \A b \in 0..(0 - 1) : FALSE
      OBVIOUS
    <3>2. <<>> \in Seq(HashNode) /\ \A x \in 1..Len(<<>>) : FALSE
      OBVIOUS
    <3> QED BY <3>1, <3>2 DEF AllBelow
  <2> QED BY <1>1, <2>1, <2>2
<1>14. ASSUME NEW i \in 1..N, i - 1 \in Good
       PROVE  i \in Good
  <2>1. i \in 0..N /\ i # 0
    BY <1>1
  <2>2. F[i] = F[i - 1] \o htable[i - 1]
    BY <1>12, <2>1 DEF Joins
  <2>3. PICK s : s = F[i - 1]
    OBVIOUS
  <2>4. AllBelow(s, htable, i - 1)
    BY <1>14, <2>3
  <2>5. i \in 1..HashSize
    BY DEF N
  <2>6. AllBelow(s \o htable[i - 1], htable, i)
    BY <1>2, <2>4, <2>5, BelowNext
  <2> QED BY <2>1, <2>2, <2>3, <2>6
<1>15. N \in Good
  <2> HIDE DEF Good
  <2>1. \A i \in 0..N : i \in Good
    BY <1>1, <1>13, <1>14, UpTo
  <2> QED BY <1>1, <2>1
<1>16. AllBelow(F[N], htable, N)
  BY <1>15
<1> QED BY <1>4, <1>16 DEF N

\* The longest chain is one of the chains, if there is one.
LEMMA LongestIs ==
  ASSUME HashInv
  PROVE  \/ hashtab_stat.max_chain_len = 0
         \/ \E b \in HashBuckets : hashtab_stat.max_chain_len = Len(htable[b])
<1> DEFINE N == HashSize
           Longer(k, c) == IF Len(htable[k - 1]) > c THEN Len(htable[k - 1]) ELSE c
           step == [k \in 1..N |-> [c \in Nat |-> Longer(k, c)]]
           Eq(f) == f = [k \in 0..N |-> IF k = 0 THEN 0 ELSE Longer(k, f[k - 1])]
           F == CHOOSE f : Eq(f)
<1>1. N \in Nat /\ N \in 0..N /\ 0 \in 0..N
  BY HashAssumption
<1>2. \A k \in 1..N : k - 1 \in HashBuckets
  BY <1>1 DEF HashBuckets
<1>3. ASSUME NEW k \in 1..N, NEW c \in Nat
      PROVE  Longer(k, c) \in Nat
  <2>1. htable[k - 1] \in Seq(HashNode)
    BY <1>2 DEF HashInv, ChainsOK
  <2>2. Len(htable[k - 1]) \in Nat
    BY <2>1
  <2> QED BY <2>2
<1>4. hashtab_stat.max_chain_len = F[N]
  BY DEF hashtab_stat
<1> HIDE DEF N, Longer
<1>6. step \in [1..N -> [Nat -> Nat]]
  BY <1>3
<1>7. \A k \in 1..N : \A c \in Nat : step[k][c] = Longer(k, c)
  BY <1>3
<1> HIDE DEF step
<1>8. PICK f : Recursed(f, N, Nat, 0, step)
  BY <1>1, <1>6, Recursion
<1>9. f \in [0..N -> Nat] /\ f[0] = 0 /\ \A i \in 1..N : f[i] = Longer(i, f[i - 1])
  <2>1. f \in [0..N -> Nat] /\ f[0] = 0 /\ \A i \in 1..N : f[i] = step[i][f[i - 1]]
    BY <1>8 DEF Recursed
  <2>2. ASSUME NEW i \in 1..N PROVE f[i] = Longer(i, f[i - 1])
    <3>1. i - 1 \in 0..N
      BY <1>1
    <3>2. f[i - 1] \in Nat
      BY <2>1, <3>1
    <3> QED BY <1>7, <2>1, <3>2
  <2> QED BY <2>1, <2>2
<1>10. Eq(f)
  <2>1. \A i \in 0..N : i # 0 => i \in 1..N
    BY <1>1
  <2>2. \A i \in 0..N : f[i] = IF i = 0 THEN 0 ELSE Longer(i, f[i - 1])
    BY <1>9, <2>1
  <2>3. f = [i \in 0..N |-> f[i]]
    BY <1>9
  <2> QED BY <2>2, <2>3, Zenon
<1>11. Eq(F)
  <2> HIDE DEF Eq
  <2> QED BY <1>10, Zenon
<1>12. \A i \in 0..N : F[i] = IF i = 0 THEN 0 ELSE Longer(i, F[i - 1])
  <2>1. F = [k \in 0..N |-> IF k = 0 THEN 0 ELSE Longer(k, F[k - 1])]
    BY <1>11, Zenon
  <2> HIDE DEF F
  <2> QED BY <2>1, Zenon
<1> HIDE DEF F, Eq
<1> DEFINE Good == {i \in 0..N : F[i] = 0 \/ \E b \in HashBuckets : F[i] = Len(htable[b])}
<1>13. 0 \in Good
  BY <1>1, <1>12
<1>14. ASSUME NEW i \in 1..N, i - 1 \in Good
       PROVE  i \in Good
  <2>1. i \in 0..N /\ i # 0 /\ i - 1 \in HashBuckets
    BY <1>1, <1>2
  <2>2. F[i] = F[i - 1] \/ F[i] = Len(htable[i - 1])
    BY <1>12, <2>1 DEF Longer
  <2>3. F[i - 1] = 0 \/ \E b \in HashBuckets : F[i - 1] = Len(htable[b])
    BY <1>14
  <2> QED BY <2>1, <2>2, <2>3
<1>15. N \in Good
  <2> HIDE DEF Good
  <2>1. \A i \in 0..N : i \in Good
    BY <1>1, <1>13, <1>14, UpTo
  <2> QED BY <1>1, <2>1
<1>16. F[N] = 0 \/ \E b \in HashBuckets : F[N] = Len(htable[b])
  BY <1>15
<1> QED BY <1>4, <1>16

LEMMA HashFinds == HashInv => FindsWhatWasPut /\ HashTypeOK
<1> SUFFICES ASSUME HashInv PROVE FindsWhatWasPut /\ HashTypeOK
  OBVIOUS
<1>1. /\ ChainsOK(htable, firstSet)
      /\ DOMAIN firstSet \subseteq HashKeys /\ IsFiniteSet(DOMAIN firstSet)
      /\ nel = Cardinality(DOMAIN firstSet) /\ nel <= MaxNodes
  BY DEF HashInv
<1>2. nel \in Nat /\ MaxNodes \in Nat
  BY <1>1, FS_CardinalityType, HashAssumption
<1>3. HashTypeOK
  <2>1. nel \in 0..MaxNodes
    BY <1>1, <1>2
  <2> QED BY <1>1, <2>1 DEF HashTypeOK, ChainsOK, HashNode
<1>4. ASSUME NEW k \in HashKeys
      PROVE  hashtab_search(k) = IF k \in DOMAIN firstSet THEN {firstSet[k]} ELSE {}
  <2>1. PICK c : c = htable[parahash[k]]
    OBVIOUS
  <2>2. PICK i : i = WalkTo(c, k)
    OBVIOUS
  <2>3. /\ k \in DOMAIN firstSet <=> i <= Len(c) /\ c[i].key = k
        /\ k \in DOMAIN firstSet => c[i].datum = firstSet[k]
    BY <2>1, <2>2, FoundIs
  <2>4. hashtab_search(k) = IF i <= Len(c) /\ c[i].key = k THEN {c[i].datum} ELSE {}
    BY <2>1, <2>2 DEF hashtab_search
  <2> QED BY <2>3, <2>4
<1>5. PICK m : m = hashtab_map
  OBVIOUS
<1>6. AllBelow(m, htable, HashSize)
  BY <1>5, MapIs
<1>7. /\ m \in Seq(HashNode) /\ \A x, y \in 1..Len(m) : x # y => m[x].key # m[y].key
      /\ \A x \in 1..Len(m) : \E b \in HashBuckets : \E j \in 1..Len(htable[b]) : m[x] = htable[b][j]
      /\ \A b \in HashBuckets : \A j \in 1..Len(htable[b]) : \E x \in 1..Len(m) : m[x] = htable[b][j]
  BY <1>6 DEF AllBelow, HashBuckets
<1>8. ASSUME NEW x \in 1..Len(m)
      PROVE  m[x].key \in DOMAIN firstSet
  <2>1. PICK b \in HashBuckets : \E j \in 1..Len(htable[b]) : m[x] = htable[b][j]
    BY <1>7
  <2>2. ChainHas(htable[b], b, firstSet)
    BY <1>1 DEF ChainsOK, ChainOK
  <2> QED BY <2>1, <2>2 DEF ChainHas
<1>9. ASSUME NEW k \in DOMAIN firstSet
      PROVE  \E x \in 1..Len(m) : m[x].key = k
  <2>1. PICK b \in HashBuckets : b = parahash[k]
    BY <1>1, HashKeyIs
  <2>2. ChainHas(htable[b], b, firstSet)
    BY <1>1 DEF ChainsOK, ChainOK
  <2>3. PICK j \in 1..Len(htable[b]) : htable[b][j].key = k
    BY <2>1, <2>2 DEF ChainHas
  <2> QED BY <1>7, <2>3
<1>10. Len(m) = nel
  BY <1>1, <1>7, <1>8, <1>9, AsManyAsNames
<1>11. {m[i].key : i \in DOMAIN m} = DOMAIN firstSet
  <2>1. DOMAIN m = 1..Len(m)
    BY <1>7
  <2> QED BY <1>8, <1>9, <2>1
<1>12. hashtab_stat.max_chain_len <= nel
  <2>1. PICK l : l = hashtab_stat.max_chain_len
    OBVIOUS
  <2>2. CASE l = 0
    BY <1>2, <2>1, <2>2
  <2>3. CASE \E b \in HashBuckets : l = Len(htable[b])
    <3>1. PICK b \in HashBuckets : l = Len(htable[b])
      BY <2>3
    <3>2. PICK c : c = htable[b]
      OBVIOUS
    <3>3. c \in Seq(HashNode) /\ KeysUp(c) /\ ChainHas(c, b, firstSet)
      BY <1>1, <3>2 DEF ChainsOK, ChainOK
    <3>4. \A i \in 1..Len(c) : c[i].key \in DOMAIN firstSet
      BY <3>3 DEF ChainHas
    <3>5. \A i, j \in 1..Len(c) : i # j => c[i].key # c[j].key
      <4>1. SUFFICES ASSUME NEW i \in 1..Len(c), NEW j \in 1..Len(c), i # j
                     PROVE  c[i].key # c[j].key
        OBVIOUS
      <4>2. i < j \/ j < i
        BY <3>3, <4>1
      <4>3. c[i].key \in Nat /\ c[j].key \in Nat
        BY <3>3, NodeKeys
      <4>4. (i < j => c[i].key < c[j].key) /\ (j < i => c[j].key < c[i].key)
        BY <3>3 DEF KeysUp
      <4> QED BY <4>2, <4>3, <4>4
    <3>6. Len(c) <= Cardinality(DOMAIN firstSet)
      BY <1>1, <3>3, <3>4, <3>5, AsManyAsNames
    <3> QED BY <1>1, <2>1, <3>1, <3>2, <3>6
  <2> QED BY <2>1, <2>2, <2>3, LongestIs
<1> QED BY <1>1, <1>3, <1>4, <1>5, <1>10, <1>11, <1>12 DEF FindsWhatWasPut

----------------------------------------------------------------------------
(* The configuration file: where a setting stands, and what the copy of a  *)
(* file does to it.                                                        *)

LEMMA FirstLineIs ==
  ASSUME NEW rows \in Seq(IniLine), NEW places, places \subseteq 1..Len(rows),
         NEW i, i = FirstLine(rows, places)
  PROVE  /\ i \in 1..(Len(rows) + 1)
         /\ i <= Len(rows) => i \in places
         /\ \A j \in places : i <= j
<1>1. PICK n \in Nat : n = Len(rows)
  OBVIOUS
<1>2. i = IF places = {} THEN n + 1 ELSE CHOOSE x \in places : \A j \in places : x <= j
  BY <1>1 DEF FirstLine
<1>3. CASE places = {}
  <2>1. i = n + 1
    BY <1>2, <1>3
  <2> QED BY <1>1, <1>3, <2>1
<1>4. CASE places # {}
  <2>1. places \subseteq Nat /\ places \subseteq 1..n
    BY <1>1
  <2>2. \E x \in places : \A j \in places : x <= j
    BY <1>4, <2>1, LeastNatural
  <2>3. i \in places /\ \A j \in places : i <= j
    BY <1>2, <1>4, <2>2
  <2> QED BY <1>1, <2>1, <2>3
<1> QED BY <1>3, <1>4

SectionHead(line, s) == line.kind = "section" /\ line.name = s

\* Place i is behind the first header of section s, with no header between.
InSection(rows, s, i) ==
  \E h \in 1..(i - 1) :
    /\ SectionHead(rows[h], s) /\ \A j \in 1..(h - 1) : ~SectionHead(rows[j], s)
    /\ \A j \in (h + 1)..(i - 1) : rows[j].kind # "section"

\* Line i has the setting n.
Setting(rows, n, i) ==
  i \in 1..Len(rows) /\ rows[i].kind = "entry" /\ rows[i].name = n[2] /\ InSection(rows, n[1], i)

LEMMA HeaderIs ==
  ASSUME NEW rows \in Seq(IniLine), NEW s, NEW h, h = HeaderLine(rows, s)
  PROVE  /\ h \in 1..(Len(rows) + 1) /\ (h <= Len(rows) => SectionHead(rows[h], s))
         /\ \A j \in 1..Len(rows) : SectionHead(rows[j], s) => h <= j
<1>1. PICK places : places = {i \in DOMAIN rows : rows[i].kind = "section" /\ rows[i].name = s}
  OBVIOUS
<1>2. DOMAIN rows = 1..Len(rows)
  OBVIOUS
<1>3. places \subseteq 1..Len(rows) /\ \A j \in 1..Len(rows) : j \in places <=> SectionHead(rows[j], s)
  BY <1>1, <1>2 DEF SectionHead
<1>4. h = FirstLine(rows, places)
  BY <1>1 DEF HeaderLine
<1>5. /\ h \in 1..(Len(rows) + 1) /\ (h <= Len(rows) => h \in places)
      /\ \A j \in places : h <= j
  BY <1>3, <1>4, FirstLineIs
<1>6. h <= Len(rows) => h \in 1..Len(rows)
  BY <1>5
<1> QED BY <1>3, <1>5, <1>6

LEMMA BehindIs ==
  ASSUME NEW rows \in Seq(IniLine), NEW h \in 1..(Len(rows) + 1), NEW P,
         NEW places, places = {j \in LinesBehind(rows, h) : j \in P},
         NEW i, i = FirstLine(rows, places)
  PROVE  /\ i \in 1..(Len(rows) + 1)
         /\ i <= Len(rows) => i > h /\ i \in P
         /\ \A j \in 1..Len(rows) : j > h /\ j \in P => i <= j
<1>2. PICK n \in Nat : n = Len(rows)
  OBVIOUS
<1>3. LinesBehind(rows, h) = (h + 1)..n
  BY <1>2 DEF LinesBehind
<1>4. places \subseteq 1..n /\ \A j \in 1..n : j \in places <=> j > h /\ j \in P
  BY <1>2, <1>3
<1>5. /\ i \in 1..(n + 1) /\ (i <= n => i \in places)
      /\ \A j \in places : i <= j
  BY <1>2, <1>4, FirstLineIs
<1>6. i <= n => i \in 1..n
  BY <1>5
<1> QED BY <1>2, <1>4, <1>5, <1>6

LEMMA SectionEndIs ==
  ASSUME NEW rows \in Seq(IniLine), NEW s, NEW h, h = HeaderLine(rows, s),
         NEW e, e = SectionEnd(rows, s)
  PROVE  /\ e \in 1..(Len(rows) + 1)
         /\ e <= Len(rows) => e > h /\ rows[e].kind = "section"
         /\ \A j \in 1..Len(rows) : j > h /\ rows[j].kind = "section" => e <= j
<1>1. PICK P : P = {j \in 1..Len(rows) : rows[j].kind = "section"}
  OBVIOUS
<1>2. h \in 1..(Len(rows) + 1)
  BY HeaderIs
<1>3. {i \in LinesBehind(rows, h) : rows[i].kind = "section"} = {j \in LinesBehind(rows, h) : j \in P}
  <2>1. \A i \in LinesBehind(rows, h) : i \in 1..Len(rows)
    BY <1>2 DEF LinesBehind
  <2> QED BY <1>1, <2>1
<1>4. e = FirstLine(rows, {j \in LinesBehind(rows, h) : j \in P})
  BY <1>3 DEF SectionEnd
<1>5. /\ e \in 1..(Len(rows) + 1) /\ (e <= Len(rows) => e > h /\ e \in P)
      /\ \A j \in 1..Len(rows) : j > h /\ j \in P => e <= j
  BY <1>2, <1>4, BehindIs
<1> QED BY <1>1, <1>5

LEMMA SettingIs ==
  ASSUME NEW rows \in Seq(IniLine), NEW n, NEW i
  PROVE  i \in SettingLines(rows, n) <=> Setting(rows, n, i)
<1>1. PICK l \in Nat : l = Len(rows)
  OBVIOUS
<1>2. PICK h : h = HeaderLine(rows, n[1])
  OBVIOUS
<1>3. PICK e : e = SectionEnd(rows, n[1])
  OBVIOUS
<1>4. /\ h \in 1..(l + 1) /\ (h <= l => SectionHead(rows[h], n[1]))
      /\ \A j \in 1..l : SectionHead(rows[j], n[1]) => h <= j
  BY <1>1, <1>2, HeaderIs
<1>5. /\ e \in 1..(l + 1) /\ (e <= l => e > h /\ rows[e].kind = "section")
      /\ \A j \in 1..l : j > h /\ rows[j].kind = "section" => e <= j
  BY <1>1, <1>2, <1>3, SectionEndIs
<1>6. i \in SettingLines(rows, n) <=> i \in (h + 1)..(e - 1) /\ rows[i].kind = "entry" /\ rows[i].name = n[2]
  BY <1>2, <1>3 DEF SettingLines
<1>7. ASSUME i \in (h + 1)..(e - 1)
      PROVE  i \in 1..l /\ InSection(rows, n[1], i)
  <2>1. i \in 1..l /\ h <= l /\ h \in 1..(i - 1) /\ h \in 1..l
    BY <1>4, <1>5, <1>7
  <2>2. SectionHead(rows[h], n[1])
    BY <1>4, <2>1
  <2>3. \A j \in 1..(h - 1) : ~SectionHead(rows[j], n[1])
    <3>1. \A j \in 1..(h - 1) : j \in 1..l /\ ~(h <= j)
      BY <2>1
    <3> QED BY <1>4, <3>1
  <2>4. \A j \in (h + 1)..(i - 1) : rows[j].kind # "section"
    <3>1. \A j \in (h + 1)..(i - 1) : j \in 1..l /\ j > h /\ ~(e <= j)
      BY <1>5, <1>7, <2>1
    <3> QED BY <1>5, <3>1
  <2> QED BY <2>1, <2>2, <2>3, <2>4 DEF InSection
<1>8. ASSUME i \in 1..l, rows[i].kind = "entry", InSection(rows, n[1], i)
      PROVE  i \in (h + 1)..(e - 1)
  <2>1. PICK g \in 1..(i - 1) : /\ SectionHead(rows[g], n[1]) /\ \A j \in 1..(g - 1) : ~SectionHead(rows[j], n[1])
                                /\ \A j \in (g + 1)..(i - 1) : rows[j].kind # "section"
    BY <1>8 DEF InSection
  <2>2. g \in 1..l
    BY <1>8
  <2>3. h <= g /\ h \in 1..l
    BY <1>4, <2>1, <2>2
  <2>4. ~(h < g)
    <3>1. SUFFICES ASSUME h < g PROVE FALSE
      OBVIOUS
    <3>2. h \in 1..(g - 1) /\ h <= l
      BY <2>3, <3>1
    <3> QED BY <1>4, <2>1, <3>2
  <2>5. h = g
    BY <2>2, <2>3, <2>4
  <2>6. ~(e <= i)
    <3>1. SUFFICES ASSUME e <= i PROVE FALSE
      OBVIOUS
    <3>2. e <= l
      BY <1>5, <1>8, <3>1
    <3>3. e > h /\ rows[e].kind = "section"
      BY <1>5, <3>2
    <3>4. e # i
      BY <1>8, <3>3
    <3>5. e \in (g + 1)..(i - 1)
      BY <1>5, <1>8, <2>2, <2>5, <3>1, <3>3, <3>4
    <3> QED BY <2>1, <3>3, <3>5
  <2> QED BY <1>5, <1>8, <2>2, <2>5, <2>6
<1> QED BY <1>1, <1>6, <1>7, <1>8 DEF Setting

\* A reader finds the first line with the setting.
FirstSetting(rows, n, i) ==
  Setting(rows, n, i) /\ \A j \in 1..Len(rows) : Setting(rows, n, j) => i <= j

LEMMA EntryIs ==
  ASSUME NEW rows \in Seq(IniLine), NEW n
  PROVE  \/ EntryLine(rows, n) = 0 /\ \A j \in 1..Len(rows) : ~Setting(rows, n, j)
         \/ EntryLine(rows, n) # 0 /\ FirstSetting(rows, n, EntryLine(rows, n))
<1>1. PICK l \in Nat : l = Len(rows)
  OBVIOUS
<1>2. PICK h : h = HeaderLine(rows, n[1])
  OBVIOUS
<1>3. PICK e : e = SectionEnd(rows, n[1])
  OBVIOUS
<1>4. h \in 1..(l + 1) /\ e \in 1..(l + 1)
  BY <1>1, <1>2, <1>3, HeaderIs, SectionEndIs
<1>5. PICK P : P = {j \in 1..l : rows[j].kind = "entry" /\ rows[j].name = n[2]}
  OBVIOUS
<1>0. PICK places : places = {j \in LinesBehind(rows, h) : j \in P}
  OBVIOUS
<1>6. PICK i : i = FirstLine(rows, places)
  OBVIOUS
<1>7. EntryLine(rows, n) = IF i < e THEN i ELSE 0
  <2>1. {j \in LinesBehind(rows, h) : rows[j].kind = "entry" /\ rows[j].name = n[2]} = {j \in LinesBehind(rows, h) : j \in P}
    <3>1. \A j \in LinesBehind(rows, h) : j \in 1..l
      BY <1>1, <1>4 DEF LinesBehind
    <3> QED BY <1>5, <3>1
  <2> QED BY <1>0, <1>2, <1>3, <1>6, <2>1 DEF EntryLine
<1>8. /\ i \in 1..(l + 1) /\ (i <= l => i > h /\ i \in P)
      /\ \A j \in 1..l : j > h /\ j \in P => i <= j
  <2>1. h \in 1..(Len(rows) + 1)
    BY <1>1, <1>4
  <2>2. /\ i \in 1..(Len(rows) + 1) /\ (i <= Len(rows) => i > h /\ i \in P)
        /\ \A j \in 1..Len(rows) : j > h /\ j \in P => i <= j
    BY <1>0, <1>6, <2>1, BehindIs
  <2> QED BY <1>1, <2>2
<1>9. \A j : Setting(rows, n, j) => j \in (h + 1)..(e - 1) /\ j \in P /\ j \in 1..l
  <2>1. \A j : Setting(rows, n, j) => j \in SettingLines(rows, n)
    BY SettingIs
  <2>2. \A j : j \in SettingLines(rows, n) => j \in (h + 1)..(e - 1)
    BY <1>2, <1>3 DEF SettingLines
  <2>3. \A j : Setting(rows, n, j) => j \in P /\ j \in 1..l
    BY <1>1, <1>5 DEF Setting
  <2> QED BY <2>1, <2>2, <2>3
<1>10. \A j : Setting(rows, n, j) => i <= j /\ j < e
  <2>1. SUFFICES ASSUME NEW j, Setting(rows, n, j) PROVE i <= j /\ j < e
    OBVIOUS
  <2>2. j \in (h + 1)..(e - 1) /\ j \in P /\ j \in 1..l
    BY <1>9, <2>1
  <2>3. j > h /\ j < e
    BY <1>4, <2>2
  <2> QED BY <1>8, <2>2, <2>3
<1>11. CASE i < e
  <2>1. i <= l /\ i \in 1..l /\ i \in (h + 1)..(e - 1)
    BY <1>4, <1>8, <1>11
  <2>2. rows[i].kind = "entry" /\ rows[i].name = n[2]
    BY <1>5, <1>8, <2>1
  <2>3. i \in SettingLines(rows, n)
    BY <1>2, <1>3, <2>1, <2>2 DEF SettingLines
  <2>4. Setting(rows, n, i)
    BY <2>3, SettingIs
  <2>5. i # 0
    BY <2>1
  <2> QED BY <1>7, <1>10, <1>11, <2>4, <2>5 DEF FirstSetting
<1>12. CASE ~(i < e)
  <2>1. ASSUME NEW j \in 1..l, Setting(rows, n, j)
        PROVE  FALSE
    <3>1. i <= j /\ j < e
      BY <1>10, <2>1
    <3> QED BY <1>4, <1>8, <1>12, <3>1
  <2> QED BY <1>1, <1>7, <1>12, <2>1
<1> QED BY <1>11, <1>12

\* A line is found where the first one with the setting stands.
LEMMA GetsIs ==
  ASSUME NEW rows \in Seq(IniLine), rows # NoIniFile, NEW n
  PROVE  /\ \A j \in 1..Len(rows) : FirstSetting(rows, n, j) => ini_gets(rows, n) = rows[j].text
         /\ (\A j \in 1..Len(rows) : ~Setting(rows, n, j)) => ini_gets(rows, n) = NoText
<1>1. PICK i : i = EntryLine(rows, n)
  OBVIOUS
<1>2. ini_gets(rows, n) = IF i = 0 THEN NoText ELSE rows[i].text
  BY <1>1 DEF ini_gets
<1>3. \/ i = 0 /\ \A j \in 1..Len(rows) : ~Setting(rows, n, j)
      \/ i # 0 /\ FirstSetting(rows, n, i)
  BY <1>1, EntryIs
<1>4. ASSUME NEW j \in 1..Len(rows), FirstSetting(rows, n, j)
      PROVE  i # 0 /\ i = j
  <2>1. Setting(rows, n, j)
    BY <1>4 DEF FirstSetting
  <2>2. i # 0 /\ FirstSetting(rows, n, i)
    BY <1>3, <2>1
  <2>3. i \in 1..Len(rows) /\ Setting(rows, n, i)
    BY <2>2 DEF FirstSetting, Setting
  <2>4. i <= j /\ j <= i
    BY <1>4, <2>1, <2>2, <2>3 DEF FirstSetting
  <2>5. i \in Nat /\ j \in Nat
    BY <2>3
  <2> QED BY <2>2, <2>4, <2>5
<1>5. ASSUME \A j \in 1..Len(rows) : ~Setting(rows, n, j)
      PROVE  i = 0
  <2>1. SUFFICES ASSUME i # 0 PROVE FALSE
    OBVIOUS
  <2>2. FirstSetting(rows, n, i)
    BY <1>3, <2>1
  <2> QED BY <1>5, <2>2 DEF FirstSetting, Setting
<1> QED BY <1>2, <1>4, <1>5

\* There is a first line with a setting, if there is any.
LEMMA FirstSettingExists ==
  ASSUME NEW rows \in Seq(IniLine), NEW n, NEW j, Setting(rows, n, j)
  PROVE  \E i \in 1..Len(rows) : FirstSetting(rows, n, i)
<1>1. \/ \A i \in 1..Len(rows) : ~Setting(rows, n, i)
      \/ FirstSetting(rows, n, EntryLine(rows, n))
  BY EntryIs
<1>2. j \in 1..Len(rows)
  BY DEF Setting
<1>3. FirstSetting(rows, n, EntryLine(rows, n))
  BY <1>1, <1>2
<1> QED BY <1>3 DEF FirstSetting, Setting

\* No line of a setting has blanks in front of "="; all of them have; no two have none.
PlainlySet(rows, n) == \A i \in 1..Len(rows) : Setting(rows, n, i) => ~rows[i].padded
AllPadded(rows, n) == \A i \in 1..Len(rows) : Setting(rows, n, i) => rows[i].padded
Once(rows, n) ==
  \A i, j \in 1..Len(rows) :
    Setting(rows, n, i) /\ Setting(rows, n, j) => rows[i].padded \/ rows[j].padded \/ i = j

LEMMA ReachIs ==
  ASSUME NEW rows \in Seq(IniLine), NEW n
  PROVE  ~OutOfReach(rows, n) <=> PlainlySet(rows, n)
<1>1. \A i : i \in SettingLines(rows, n) <=> Setting(rows, n, i)
  BY SettingIs
<1>2. \A i : Setting(rows, n, i) => i \in 1..Len(rows)
  BY DEF Setting
<1> QED BY <1>1, <1>2 DEF OutOfReach, PlainlySet

\* A line of a section belongs to no other.
LEMMA OneSection ==
  ASSUME NEW rows, NEW l \in Nat, NEW i \in 1..l, NEW s, NEW r,
         InSection(rows, s, i), InSection(rows, r, i)
  PROVE  s = r
<1>1. PICK g \in 1..(i - 1) : SectionHead(rows[g], s) /\ \A j \in (g + 1)..(i - 1) : rows[j].kind # "section"
  BY DEF InSection
<1>2. PICK h \in 1..(i - 1) : SectionHead(rows[h], r) /\ \A j \in (h + 1)..(i - 1) : rows[j].kind # "section"
  BY DEF InSection
<1>3. ~(g < h)
  <2>1. g < h => h \in (g + 1)..(i - 1)
    OBVIOUS
  <2>2. rows[h].kind = "section"
    BY <1>2 DEF SectionHead
  <2> QED BY <1>1, <2>1, <2>2
<1>4. ~(h < g)
  <2>1. h < g => g \in (h + 1)..(i - 1)
    OBVIOUS
  <2>2. rows[g].kind = "section"
    BY <1>1 DEF SectionHead
  <2> QED BY <1>2, <2>1, <2>2
<1>5. g = h
  BY <1>3, <1>4
<1> QED BY <1>1, <1>2, <1>5 DEF SectionHead

----------------------------------------------------------------------------
(* One line more, which is not a header.                                   *)

\* Where line x stands once a line has been put in at i.
Moved(x, i) == IF x < i THEN x ELSE x + 1

LEMMA MovedIs ==
  ASSUME NEW t, NEW s \in Seq(IniLine), NEW i \in 1..(Len(s) + 1), NEW e, Inserted(t, s, i, e)
  PROVE  /\ \A x \in 1..Len(s) : Moved(x, i) \in 1..Len(t) /\ Moved(x, i) # i /\ t[Moved(x, i)] = s[x]
         /\ \A y \in 1..Len(t) : y # i => \E x \in 1..Len(s) : y = Moved(x, i)
         /\ \A x, y \in 1..Len(s) : Moved(x, i) <= Moved(y, i) <=> x <= y
         /\ t[i] = e /\ i \in 1..Len(t) /\ Len(t) = Len(s) + 1
<1>1. PICK n \in Nat : n = Len(s)
  OBVIOUS
<1>2. /\ Len(t) = n + 1 /\ t[i] = e /\ i \in 1..(n + 1)
      /\ \A j \in 1..(i - 1) : t[j] = s[j]
      /\ \A j \in i..n : t[j + 1] = s[j]
  BY <1>1 DEF Inserted
<1>3. ASSUME NEW x \in 1..n
      PROVE  Moved(x, i) \in 1..(n + 1) /\ Moved(x, i) # i /\ t[Moved(x, i)] = s[x]
  <2>1. CASE x < i
    <3>1. x \in 1..(i - 1) /\ x \in 1..(n + 1)
      BY <1>2, <2>1
    <3> QED BY <1>2, <2>1, <3>1 DEF Moved
  <2>2. CASE ~(x < i)
    <3>1. x \in i..n /\ x + 1 \in 1..(n + 1) /\ x + 1 # i
      BY <1>2, <2>2
    <3> QED BY <1>2, <2>2, <3>1 DEF Moved
  <2> QED BY <2>1, <2>2
<1>4. ASSUME NEW y \in 1..(n + 1), y # i
      PROVE  \E x \in 1..n : y = Moved(x, i)
  <2>1. CASE y < i
    <3>1. y \in 1..n /\ y = Moved(y, i)
      BY <1>2, <2>1 DEF Moved
    <3> QED BY <3>1
  <2>2. CASE ~(y < i)
    <3>1. y - 1 \in 1..n /\ ~(y - 1 < i) /\ (y - 1) + 1 = y
      BY <1>2, <1>4, <2>2
    <3>2. y = Moved(y - 1, i)
      BY <3>1 DEF Moved
    <3> QED BY <3>1, <3>2
  <2> QED BY <2>1, <2>2
<1>5. \A x, y \in 1..n : Moved(x, i) <= Moved(y, i) <=> x <= y
  BY <1>2 DEF Moved
<1> QED BY <1>1, <1>2, <1>3, <1>4, <1>5

\* The places up to i, and those behind it, are in the sections they were in.
LEMMA SectionsAt ==
  ASSUME NEW t, NEW s \in Seq(IniLine), NEW i \in 1..(Len(s) + 1), NEW e, Inserted(t, s, i, e),
         NEW q, NEW x \in 1..i
  PROVE  InSection(t, q, x) <=> InSection(s, q, x)
<1>1. \A j \in 1..(x - 1) : t[j] = s[j]
  BY DEF Inserted
<1>2. ASSUME NEW h \in 1..(x - 1)
      PROVE  /\ \A j \in 1..(h - 1) : t[j] = s[j]
             /\ \A j \in (h + 1)..(x - 1) : t[j] = s[j]
  <2>1. \A j \in 1..(h - 1) : j \in 1..(x - 1)
    OBVIOUS
  <2>2. \A j \in (h + 1)..(x - 1) : j \in 1..(x - 1)
    OBVIOUS
  <2> QED BY <1>1, <2>1, <2>2
<1> QED BY <1>1, <1>2 DEF InSection

LEMMA SectionsBehind ==
  ASSUME NEW t, NEW s \in Seq(IniLine), NEW i \in 1..(Len(s) + 1), NEW e, Inserted(t, s, i, e),
         e.kind # "section", NEW q, NEW x \in i..Len(s)
  PROVE  InSection(t, q, x + 1) <=> InSection(s, q, x)
<1>1. PICK n \in Nat : n = Len(s)
  OBVIOUS
<1>2. /\ t[i] = e /\ i \in 1..(n + 1) /\ x \in 1..n /\ x >= i
      /\ \A j \in 1..(i - 1) : t[j] = s[j]
      /\ \A j \in i..n : t[j + 1] = s[j]
  BY <1>1 DEF Inserted
<1>3. ASSUME InSection(s, q, x)
      PROVE  InSection(t, q, x + 1)
  <2>1. PICK h \in 1..(x - 1) :
          /\ SectionHead(s[h], q) /\ \A j \in 1..(h - 1) : ~SectionHead(s[j], q)
          /\ \A j \in (h + 1)..(x - 1) : s[j].kind # "section"
    BY <1>3 DEF InSection
  <2>2. CASE h < i
    <3>1. h \in 1..((x + 1) - 1) /\ t[h] = s[h] /\ \A j \in 1..(h - 1) : t[j] = s[j]
      <4>1. h \in 1..((x + 1) - 1) /\ h \in 1..(i - 1)
        BY <1>2, <2>2
      <4>2. \A j \in 1..(h - 1) : j \in 1..(i - 1)
        BY <1>2, <2>2
      <4> QED BY <1>2, <4>1, <4>2
    <3>2. ASSUME NEW j \in (h + 1)..((x + 1) - 1)
          PROVE  t[j].kind # "section"
      <4>1. CASE j < i
        <5>1. t[j] = s[j] /\ j \in (h + 1)..(x - 1)
          BY <1>2, <4>1
        <5> QED BY <2>1, <5>1
      <4>2. CASE j = i
        BY <1>2, <4>2
      <4>3. CASE j > i
        <5>1. j - 1 \in i..n /\ (j - 1) + 1 = j /\ j - 1 \in (h + 1)..(x - 1)
          BY <1>2, <2>2, <4>3
        <5>2. t[j] = s[j - 1]
          BY <1>2, <5>1
        <5> QED BY <2>1, <5>1, <5>2
      <4> QED BY <1>2, <4>1, <4>2, <4>3
    <3>3. SectionHead(t[h], q) /\ \A j \in 1..(h - 1) : ~SectionHead(t[j], q)
      BY <2>1, <3>1
    <3> QED BY <3>1, <3>2, <3>3 DEF InSection
  <2>3. CASE ~(h < i)
    <3>1. h + 1 \in 1..((x + 1) - 1) /\ t[h + 1] = s[h]
      BY <1>2, <2>3
    <3>2. ASSUME NEW j \in ((h + 1) + 1)..((x + 1) - 1)
          PROVE  t[j].kind # "section"
      <4>1. j - 1 \in i..n /\ (j - 1) + 1 = j /\ j - 1 \in (h + 1)..(x - 1)
        BY <1>2, <2>3
      <4>2. t[j] = s[j - 1]
        BY <1>2, <4>1
      <4> QED BY <2>1, <4>1, <4>2
    <3>3. ASSUME NEW j \in 1..((h + 1) - 1)
          PROVE  ~SectionHead(t[j], q)
      <4>1. CASE j < i
        <5>1. t[j] = s[j] /\ j \in 1..(h - 1)
          BY <1>2, <2>3, <4>1
        <5> QED BY <2>1, <5>1
      <4>2. CASE j = i
        BY <1>2, <4>2 DEF SectionHead
      <4>3. CASE j > i
        <5>1. j - 1 \in i..n /\ (j - 1) + 1 = j /\ j - 1 \in 1..(h - 1)
          BY <1>2, <2>3, <4>3
        <5>2. t[j] = s[j - 1]
          BY <1>2, <5>1
        <5> QED BY <2>1, <5>1, <5>2
      <4> QED BY <1>2, <4>1, <4>2, <4>3
    <3>4. SectionHead(t[h + 1], q)
      BY <2>1, <3>1
    <3> QED BY <3>1, <3>2, <3>3, <3>4 DEF InSection
  <2> QED BY <1>2, <2>2, <2>3
<1>4. ASSUME InSection(t, q, x + 1)
      PROVE  InSection(s, q, x)
  <2>1. PICK g \in 1..((x + 1) - 1) :
          /\ SectionHead(t[g], q) /\ \A j \in 1..(g - 1) : ~SectionHead(t[j], q)
          /\ \A j \in (g + 1)..((x + 1) - 1) : t[j].kind # "section"
    BY <1>4 DEF InSection
  <2>2. g # i
    BY <1>2, <2>1 DEF SectionHead
  <2>3. CASE g < i
    <3>1. g \in 1..(x - 1) /\ t[g] = s[g] /\ \A j \in 1..(g - 1) : t[j] = s[j]
      BY <1>2, <2>3
    <3>2. ASSUME NEW j \in (g + 1)..(x - 1)
          PROVE  s[j].kind # "section"
      <4>1. CASE j < i
        <5>1. t[j] = s[j] /\ j \in (g + 1)..((x + 1) - 1)
          BY <1>2, <2>3, <4>1
        <5> QED BY <2>1, <5>1
      <4>2. CASE ~(j < i)
        <5>1. j \in i..n /\ j + 1 \in (g + 1)..((x + 1) - 1)
          BY <1>2, <2>3, <4>2
        <5>2. t[j + 1] = s[j]
          BY <1>2, <5>1
        <5> QED BY <2>1, <5>1, <5>2
      <4> QED BY <1>2, <4>1, <4>2
    <3>3. SectionHead(s[g], q) /\ \A j \in 1..(g - 1) : ~SectionHead(s[j], q)
      BY <2>1, <3>1
    <3> QED BY <3>1, <3>2, <3>3 DEF InSection
  <2>4. CASE g > i
    <3>1. PICK h \in i..n : g = h + 1
      <4>1. g - 1 \in i..n /\ g = (g - 1) + 1
        BY <1>2, <2>4
      <4> QED BY <4>1
    <3>2. h \in 1..(x - 1) /\ t[g] = s[h]
      BY <1>2, <3>1
    <3>3. ASSUME NEW j \in (h + 1)..(x - 1)
          PROVE  s[j].kind # "section"
      <4>1. j \in i..n /\ j + 1 \in (g + 1)..((x + 1) - 1)
        BY <1>2, <3>1, SMTT(30)
      <4>2. t[j + 1] = s[j]
        BY <1>2, <4>1
      <4> QED BY <2>1, <4>1, <4>2
    <3>4. ASSUME NEW j \in 1..(h - 1)
          PROVE  ~SectionHead(s[j], q)
      <4>1. CASE j < i
        <5>1. t[j] = s[j] /\ j \in 1..(g - 1)
          BY <1>2, <3>1, <4>1
        <5> QED BY <2>1, <5>1
      <4>2. CASE ~(j < i)
        <5>1. j \in i..n /\ j + 1 \in 1..(g - 1)
          BY <1>2, <3>1, <4>2, SMTT(30)
        <5>2. t[j + 1] = s[j]
          BY <1>2, <5>1
        <5> QED BY <2>1, <5>1, <5>2
      <4> QED BY <1>2, <4>1, <4>2
    <3>5. SectionHead(s[h], q)
      BY <2>1, <3>2
    <3> QED BY <3>2, <3>3, <3>4, <3>5 DEF InSection
  <2> QED BY <1>2, <2>2, <2>3, <2>4
<1> QED BY <1>3, <1>4

\* The settings move with their lines.
LEMMA SettingsMove ==
  ASSUME NEW t, NEW s \in Seq(IniLine), NEW i \in 1..(Len(s) + 1), NEW e, Inserted(t, s, i, e),
         e.kind # "section", NEW n, NEW x \in 1..Len(s)
  PROVE  Setting(t, n, Moved(x, i)) <=> Setting(s, n, x)
<1>1. Moved(x, i) \in 1..Len(t) /\ t[Moved(x, i)] = s[x]
  BY MovedIs
<1>2. InSection(t, n[1], Moved(x, i)) <=> InSection(s, n[1], x)
  <2>1. CASE x < i
    <3>1. x \in 1..i /\ Moved(x, i) = x
      BY <2>1 DEF Moved
    <3>2. InSection(t, n[1], x) <=> InSection(s, n[1], x)
      BY <3>1, SectionsAt
    <3> QED BY <3>1, <3>2
  <2>2. CASE ~(x < i)
    <3>1. x \in i..Len(s) /\ Moved(x, i) = x + 1
      BY <2>2 DEF Moved
    <3>2. InSection(t, n[1], x + 1) <=> InSection(s, n[1], x)
      BY <3>1, SectionsBehind
    <3> QED BY <3>1, <3>2
  <2> QED BY <2>1, <2>2
<1> QED BY <1>1, <1>2 DEF Setting

\* A setting is read in t as in s, can be reached as in s, and stands there as often.
SameSetting(s, t, n) ==
  /\ PlainlySet(t, n) <=> PlainlySet(s, n)
  /\ Once(t, n) <=> Once(s, n)
  /\ ini_gets(t, n) = ini_gets(s, n)

LEMMA AddedElsewhere ==
  ASSUME NEW t \in Seq(IniLine), NEW s \in Seq(IniLine), t # NoIniFile, s # NoIniFile,
         NEW i \in 1..(Len(s) + 1), NEW e, Inserted(t, s, i, e), e.kind # "section",
         NEW n, ~Setting(t, n, i)
  PROVE  SameSetting(s, t, n)
<1>1. /\ \A x \in 1..Len(s) : Moved(x, i) \in 1..Len(t) /\ Moved(x, i) # i /\ t[Moved(x, i)] = s[x]
      /\ \A y \in 1..Len(t) : y # i => \E x \in 1..Len(s) : y = Moved(x, i)
      /\ \A x, y \in 1..Len(s) : Moved(x, i) <= Moved(y, i) <=> x <= y
  BY MovedIs
<1>2. \A x \in 1..Len(s) : Setting(t, n, Moved(x, i)) <=> Setting(s, n, x)
  BY SettingsMove
<1>3. \A y \in 1..Len(t) : Setting(t, n, y) => \E x \in 1..Len(s) : y = Moved(x, i) /\ Setting(s, n, x)
  BY <1>1, <1>2
<1>4. PlainlySet(t, n) <=> PlainlySet(s, n)
  BY <1>1, <1>2, <1>3 DEF PlainlySet
<1>5. Once(t, n) <=> Once(s, n)
  <2>1. ASSUME Once(t, n) PROVE Once(s, n)
    <3>1. SUFFICES ASSUME NEW x \in 1..Len(s), NEW y \in 1..Len(s), Setting(s, n, x), Setting(s, n, y)
                   PROVE  s[x].padded \/ s[y].padded \/ x = y
      BY DEF Once
    <3>2. \/ t[Moved(x, i)].padded \/ t[Moved(y, i)].padded \/ Moved(x, i) = Moved(y, i)
      BY <1>1, <1>2, <2>1, <3>1 DEF Once
    <3>3. Moved(x, i) = Moved(y, i) => x = y
      <4>1. Moved(x, i) \in Nat /\ Moved(y, i) \in Nat
        BY <1>1
      <4>2. Moved(x, i) = Moved(y, i) => x <= y /\ y <= x
        BY <1>1, <4>1
      <4> QED BY <4>2
    <3> QED BY <1>1, <3>2, <3>3
  <2>2. ASSUME Once(s, n) PROVE Once(t, n)
    <3>1. SUFFICES ASSUME NEW x \in 1..Len(t), NEW y \in 1..Len(t), Setting(t, n, x), Setting(t, n, y)
                   PROVE  t[x].padded \/ t[y].padded \/ x = y
      BY DEF Once
    <3>2. PICK u \in 1..Len(s) : x = Moved(u, i) /\ Setting(s, n, u)
      BY <1>3, <3>1
    <3>3. PICK v \in 1..Len(s) : y = Moved(v, i) /\ Setting(s, n, v)
      BY <1>3, <3>1
    <3>4. s[u].padded \/ s[v].padded \/ u = v
      BY <2>2, <3>2, <3>3 DEF Once
    <3> QED BY <1>1, <3>2, <3>3, <3>4
  <2> QED BY <2>1, <2>2
<1>6. ini_gets(t, n) = ini_gets(s, n)
  <2>1. CASE \A j \in 1..Len(s) : ~Setting(s, n, j)
    <3>1. \A j \in 1..Len(t) : ~Setting(t, n, j)
      BY <1>3, <2>1
    <3>2. ini_gets(t, n) = NoText
      BY <3>1, GetsIs
    <3>3. ini_gets(s, n) = NoText
      BY <2>1, GetsIs
    <3> QED BY <3>2, <3>3
  <2>2. ASSUME NEW j \in 1..Len(s), Setting(s, n, j)
        PROVE  ini_gets(t, n) = ini_gets(s, n)
    <3>1. PICK x \in 1..Len(s) : FirstSetting(s, n, x)
      BY <2>2, FirstSettingExists
    <3>2. FirstSetting(t, n, Moved(x, i))
      <4>1. Setting(t, n, Moved(x, i))
        BY <1>2, <3>1 DEF FirstSetting
      <4>2. ASSUME NEW y \in 1..Len(t), Setting(t, n, y)
            PROVE  Moved(x, i) <= y
        <5>1. PICK v \in 1..Len(s) : y = Moved(v, i) /\ Setting(s, n, v)
          BY <1>3, <4>2
        <5>2. x <= v
          BY <3>1, <5>1 DEF FirstSetting
        <5> QED BY <1>1, <5>1, <5>2
      <4> QED BY <4>1, <4>2 DEF FirstSetting
    <3>3. PICK m \in 1..Len(t) : m = Moved(x, i)
      BY <1>1
    <3>4. ini_gets(t, n) = t[m].text
      BY <3>2, <3>3, GetsIs
    <3>5. ini_gets(s, n) = s[x].text
      BY <3>1, GetsIs
    <3> QED BY <1>1, <3>3, <3>4, <3>5
  <2> QED BY <2>1, <2>2
<1> QED BY <1>4, <1>5, <1>6 DEF SameSetting

\* A header behind the last line changes no setting.
LEMMA HeaderAdded ==
  ASSUME NEW t \in Seq(IniLine), NEW s \in Seq(IniLine), t # NoIniFile, s # NoIniFile,
         NEW e, e.kind = "section", Inserted(t, s, Len(s) + 1, e), NEW n
  PROVE  SameSetting(s, t, n)
<1>1. PICK l \in Nat : l = Len(s)
  OBVIOUS
<1>2. l + 1 \in 1..(Len(s) + 1) /\ Len(t) = l + 1 /\ t[l + 1] = e /\ \A x \in 1..l : t[x] = s[x]
  BY <1>1 DEF Inserted
<1>3. ASSUME NEW x \in 1..(l + 1)
      PROVE  Setting(t, n, x) <=> x \in 1..l /\ Setting(s, n, x)
  <2>1. CASE x = l + 1
    <3>1. ~Setting(t, n, x)
      BY <1>2, <2>1 DEF Setting
    <3> QED BY <2>1, <3>1
  <2>2. CASE x \in 1..l
    <3>1. x \in 1..(l + 1) /\ t[x] = s[x]
      BY <1>2, <2>2
    <3>2. InSection(t, n[1], x) <=> InSection(s, n[1], x)
      BY <1>1, <1>2, <3>1, SectionsAt
    <3> QED BY <1>1, <1>2, <2>2, <3>1, <3>2 DEF Setting
  <2> QED BY <2>1, <2>2
<1>4. \A x \in 1..l : x \in 1..(l + 1)
  OBVIOUS
<1>5. PlainlySet(t, n) <=> PlainlySet(s, n)
  BY <1>1, <1>2, <1>3, <1>4 DEF PlainlySet
<1>6. Once(t, n) <=> Once(s, n)
  BY <1>1, <1>2, <1>3, <1>4 DEF Once
<1>7. ini_gets(t, n) = ini_gets(s, n)
  <2>1. CASE \A j \in 1..l : ~Setting(s, n, j)
    <3>1. \A j \in 1..Len(t) : ~Setting(t, n, j)
      BY <1>2, <1>3, <2>1
    <3>2. ini_gets(t, n) = NoText
      BY <3>1, GetsIs
    <3>3. ini_gets(s, n) = NoText
      BY <1>1, <2>1, GetsIs
    <3> QED BY <3>2, <3>3
  <2>2. ASSUME NEW j \in 1..l, Setting(s, n, j)
        PROVE  ini_gets(t, n) = ini_gets(s, n)
    <3>1. PICK x \in 1..Len(s) : FirstSetting(s, n, x)
      BY <2>2, FirstSettingExists
    <3>2. FirstSetting(t, n, x)
      BY <1>1, <1>2, <1>3, <1>4, <3>1 DEF FirstSetting
    <3>3. x \in 1..Len(t) /\ x \in 1..l
      BY <1>1, <1>2
    <3>4. ini_gets(t, n) = t[x].text
      BY <3>2, <3>3, GetsIs
    <3>5. ini_gets(s, n) = s[x].text
      BY <3>1, GetsIs
    <3> QED BY <1>2, <3>3, <3>4, <3>5
  <2> QED BY <2>1, <2>2
<1> QED BY <1>5, <1>6, <1>7 DEF SameSetting

LEMMA NotNoFile == \A s \in Seq(IniLine) : s # NoIniFile
<1>1. SUFFICES ASSUME NoIniFile \in Seq(IniLine) PROVE FALSE
  OBVIOUS
<1>2. PICK e : e = [SectionLine(NoText) EXCEPT !.kind = "no file"]
  OBVIOUS
<1>3. NoIniFile = <<e>>
  BY <1>2 DEF NoIniFile
<1>4. e \in IniLine
  <2>1. Len(<<e>>) = 1 /\ <<e>>[1] = e
    OBVIOUS
  <2>2. <<e>> \in Seq(IniLine)
    BY <1>1, <1>3
  <2> QED BY <2>1, <2>2
<1>5. e.kind = "no file"
  BY <1>2 DEF SectionLine
<1>6. e.kind \in {"section", "entry", "comment"}
  BY <1>4 DEF IniLine
<1> QED BY <1>5, <1>6

\* What the writer makes of the setting: n is there with v, or not at all.
NowSet(t, n, v) ==
  /\ Once(t, n)
  /\ PlainlySet(t, n) => ini_gets(t, n) = v

\* A file without a line for the writer, and the line it writes.
LEMMA WriterAdds ==
  ASSUME NEW t \in Seq(IniLine), NEW u \in Seq(IniLine), NEW i \in 1..(Len(u) + 1), NEW e,
         e.kind = "entry", ~e.padded, NEW n, e.name = n[2], Inserted(t, u, i, e),
         AllPadded(u, n), InSection(u, n[1], i)
  PROVE  Setting(t, n, i) /\ NowSet(t, n, e.text)
<1>1. /\ \A x \in 1..Len(u) : Moved(x, i) \in 1..Len(t) /\ Moved(x, i) # i /\ t[Moved(x, i)] = u[x]
      /\ \A y \in 1..Len(t) : y # i => \E x \in 1..Len(u) : y = Moved(x, i)
      /\ t[i] = e /\ i \in 1..Len(t)
  BY MovedIs
<1>2. \A x \in 1..Len(u) : Setting(t, n, Moved(x, i)) <=> Setting(u, n, x)
  BY SettingsMove
<1>3. Setting(t, n, i)
  <2>1. InSection(t, n[1], i)
    <3>1. i \in 1..i
      OBVIOUS
    <3> QED BY <3>1, SectionsAt
  <2> QED BY <1>1, <2>1 DEF Setting
<1>4. \A y \in 1..Len(t) : Setting(t, n, y) /\ y # i => t[y].padded
  BY <1>1, <1>2 DEF AllPadded
<1>5. Once(t, n)
  BY <1>4 DEF Once
<1>6. ASSUME PlainlySet(t, n)
      PROVE  ini_gets(t, n) = e.text
  <2>1. \A y \in 1..Len(t) : Setting(t, n, y) => y = i
    BY <1>4, <1>6 DEF PlainlySet
  <2>2. FirstSetting(t, n, i)
    BY <1>1, <1>3, <2>1 DEF FirstSetting
  <2>3. t # NoIniFile
    BY NotNoFile
  <2> QED BY <1>1, <2>2, <2>3, GetsIs
<1> QED BY <1>3, <1>5, <1>6 DEF NowSet

LEMMA WriterErases ==
  ASSUME NEW u \in Seq(IniLine), NEW n, AllPadded(u, n)
  PROVE  NowSet(u, n, NoText)
<1>1. Once(u, n)
  BY DEF Once, AllPadded
<1>2. ASSUME PlainlySet(u, n)
      PROVE  ini_gets(u, n) = NoText
  <2>1. \A j \in 1..Len(u) : ~Setting(u, n, j)
    BY <1>2 DEF PlainlySet, AllPadded
  <2>2. u # NoIniFile
    BY NotNoFile
  <2> QED BY <2>1, <2>2, GetsIs
<1> QED BY <1>1, <1>2 DEF NowSet

----------------------------------------------------------------------------
(* The copy.                                                               *)

LEMMA PutBetween ==
  ASSUME NEW S, NEW a \in Seq(S), NEW b \in Seq(S), NEW e \in S
  PROVE  /\ (a \o <<e>>) \o b \in Seq(S)
         /\ Inserted((a \o <<e>>) \o b, a \o b, Len(a) + 1, e)
<1>1. PICK k \in Nat : k = Len(a)
  OBVIOUS
<1>2. PICK l \in Nat : l = Len(b)
  OBVIOUS
<1>3. PICK c : c = a \o <<e>>
  OBVIOUS
<1>4. c \in Seq(S) /\ Len(c) = k + 1 /\ c[k + 1] = e /\ \A j \in 1..k : c[j] = a[j]
  <2>1. c = Append(a, e)
    BY <1>3
  <2> QED BY <1>1, <2>1, AppendProperties
<1>5. PICK t : t = c \o b
  OBVIOUS
<1>6. t \in Seq(S) /\ Len(t) = (k + 1) + l /\ (\A j \in 1..(k + 1) : t[j] = c[j]) /\ \A j \in 1..l : t[(k + 1) + j] = b[j]
  <2>1. /\ c \o b \in Seq(S) /\ Len(c \o b) = Len(c) + Len(b)
        /\ \A j \in 1..Len(c) : (c \o b)[j] = c[j]
        /\ \A j \in 1..Len(b) : (c \o b)[Len(c) + j] = b[j]
    <3>1. c \in Seq(S) /\ b \in Seq(S)
      BY <1>4
    <3> QED BY <3>1, ConcatIs
  <2> QED BY <1>2, <1>4, <1>5, <2>1
<1>7. PICK u : u = a \o b
  OBVIOUS
<1>8. Len(u) = k + l /\ (\A j \in 1..k : u[j] = a[j]) /\ \A j \in 1..l : u[k + j] = b[j]
  <2>1. /\ Len(a \o b) = Len(a) + Len(b)
        /\ \A j \in 1..Len(a) : (a \o b)[j] = a[j]
        /\ \A j \in 1..Len(b) : (a \o b)[Len(a) + j] = b[j]
    BY ConcatIs
  <2> QED BY <1>1, <1>2, <1>7, <2>1
<1>9. Len(t) = Len(u) + 1
  BY <1>6, <1>8
<1>10. t[k + 1] = e
  <2>1. k + 1 \in 1..(k + 1)
    OBVIOUS
  <2> QED BY <1>4, <1>6, <2>1
<1>11. ASSUME NEW j \in 1..((k + 1) - 1)
       PROVE  t[j] = u[j]
  <2>1. j \in 1..k /\ j \in 1..(k + 1)
    OBVIOUS
  <2> QED BY <1>4, <1>6, <1>8, <2>1
<1>12. ASSUME NEW j \in (k + 1)..(k + l)
       PROVE  t[j + 1] = u[j]
  <2>1. PICK x \in 1..l : x = j - k
    OBVIOUS
  <2>2. j = k + x /\ j + 1 = (k + 1) + x
    BY <2>1
  <2>3. t[(k + 1) + x] = b[x] /\ u[k + x] = b[x]
    BY <1>6, <1>8
  <2> QED BY <2>2, <2>3
<1>13. Inserted(t, u, k + 1, e)
  BY <1>8, <1>9, <1>10, <1>11, <1>12 DEF Inserted
<1> QED BY <1>1, <1>3, <1>5, <1>6, <1>7, <1>13

LEMMA AppendInserts ==
  ASSUME NEW S, NEW s \in Seq(S), NEW e \in S
  PROVE  /\ s \o <<e>> \in Seq(S) /\ Inserted(s \o <<e>>, s, Len(s) + 1, e)
<1>1. PICK k \in Nat : k = Len(s)
  OBVIOUS
<1>2. PICK c : c = s \o <<e>>
  OBVIOUS
<1>3. c \in Seq(S) /\ Len(c) = k + 1 /\ c[k + 1] = e /\ \A j \in 1..k : c[j] = s[j]
  <2>1. c = Append(s, e)
    BY <1>2
  <2> QED BY <1>1, <2>1, AppendProperties
<1>4. \A j \in (k + 1)..k : FALSE
  OBVIOUS
<1>5. Inserted(c, s, k + 1, e)
  <2>1. (k + 1) - 1 = k
    OBVIOUS
  <2> QED BY <1>1, <1>3, <1>4, <2>1 DEF Inserted
<1> QED BY <1>1, <1>2, <1>3, <1>5

LEMMA CutInTwo ==
  ASSUME NEW S, NEW s \in Seq(S), NEW i \in 1..(Len(s) + 1)
  PROVE  /\ SubSeq(s, 1, i - 1) \in Seq(S) /\ Len(SubSeq(s, 1, i - 1)) = i - 1
         /\ SubSeq(s, i, Len(s)) \in Seq(S)
         /\ SubSeq(s, 1, i - 1) \o SubSeq(s, i, Len(s)) = s
<1>1. PICK n \in Nat : n = Len(s)
  OBVIOUS
<1>2. PICK a : a = SubSeq(s, 1, i - 1)
  OBVIOUS
<1>3. PICK b : b = SubSeq(s, i, n)
  OBVIOUS
<1>4. i \in 1..(n + 1) /\ i - 1 \in Nat /\ n - i + 1 \in Nat
  BY <1>1
<1>5. a \in Seq(S) /\ Len(a) = i - 1 /\ \A j \in 1..(i - 1) : a[j] = s[j]
  <2>1. 1 \in 1..(Len(s) + 1) /\ i - 1 \in (1 - 1)..Len(s)
    BY <1>1, <1>4
  <2>2. /\ a \in Seq(S) /\ Len(a) = (i - 1) - 1 + 1
        /\ \A j \in 1..((i - 1) - 1 + 1) : a[j] = s[1 + j - 1]
    BY <1>2, <2>1, PartIs
  <2>3. (i - 1) - 1 + 1 = i - 1 /\ \A j \in 1..(i - 1) : 1 + j - 1 = j
    BY <1>4
  <2> QED BY <2>2, <2>3
<1>6. b \in Seq(S) /\ Len(b) = n - i + 1 /\ \A j \in 1..(n - i + 1) : b[j] = s[i + j - 1]
  <2>1. i \in 1..(Len(s) + 1) /\ n \in (i - 1)..Len(s)
    BY <1>1, <1>4
  <2> QED BY <1>3, <2>1, PartIs
<1>7. PICK t : t = a \o b
  OBVIOUS
<1>8. t \in Seq(S) /\ Len(t) = (i - 1) + (n - i + 1) /\ (\A j \in 1..(i - 1) : t[j] = a[j]) /\ \A j \in 1..(n - i + 1) : t[(i - 1) + j] = b[j]
  <2>1. /\ a \o b \in Seq(S) /\ Len(a \o b) = Len(a) + Len(b)
        /\ \A j \in 1..Len(a) : (a \o b)[j] = a[j]
        /\ \A j \in 1..Len(b) : (a \o b)[Len(a) + j] = b[j]
    <3>1. a \in Seq(S) /\ b \in Seq(S)
      BY <1>5, <1>6
    <3> QED BY <3>1, ConcatIs
  <2> QED BY <1>5, <1>6, <1>7, <2>1
<1>9. Len(t) = n
  BY <1>4, <1>8
<1>10. ASSUME NEW j \in 1..n
       PROVE  t[j] = s[j]
  <2>1. CASE j \in 1..(i - 1)
    BY <1>5, <1>8, <2>1
  <2>2. CASE j \notin 1..(i - 1)
    <3>1. PICK x \in 1..(n - i + 1) : x = j - (i - 1)
      BY <1>4, <2>2
    <3>2. j = (i - 1) + x /\ i + x - 1 = j
      BY <1>4, <3>1
    <3>3. t[(i - 1) + x] = b[x] /\ b[x] = s[i + x - 1]
      BY <1>6, <1>8
    <3> QED BY <3>2, <3>3
  <2> QED BY <2>1, <2>2
<1>11. t = s
  BY <1>1, <1>8, <1>9, <1>10, SeqEqual
<1> QED BY <1>1, <1>2, <1>3, <1>5, <1>6, <1>7, <1>11

\* Two names with a line in common are one.
LEMMA OneName ==
  ASSUME NEW rows, NEW l \in Nat, l = Len(rows), NEW i,
         NEW n \in IniNames, NEW m \in IniNames, Setting(rows, n, i), Setting(rows, m, i)
  PROVE  n = m
<1>1. i \in 1..l /\ InSection(rows, n[1], i) /\ InSection(rows, m[1], i) /\ n[2] = m[2]
  BY DEF Setting
<1>2. n[1] = m[1]
  BY <1>1, OneSection
<1>3. n \in STRING \X STRING /\ m \in STRING \X STRING
  BY IniAssumption
<1>4. n = <<n[1], n[2]>> /\ m = <<m[1], m[2]>>
  BY <1>3
<1> QED BY <1>1, <1>2, <1>4

LEMMA ElseKept ==
  ASSUME NEW t \in Seq(IniLine), NEW u \in Seq(IniLine), NEW i \in 1..(Len(u) + 1), NEW e,
         e.kind = "entry", Inserted(t, u, i, e), NEW name \in IniNames, Setting(t, name, i),
         NEW n \in IniNames, n # name
  PROVE  SameSetting(u, t, n)
<1>1. t # NoIniFile /\ u # NoIniFile
  BY NotNoFile
<1>2. PICK l \in Nat : l = Len(t)
  OBVIOUS
<1>3. ~Setting(t, n, i)
  BY <1>2, OneName
<1>4. e.kind # "section"
  OBVIOUS
<1> QED BY <1>1, <1>3, <1>4, AddedElsewhere

\* What the copy is made from: the file without the writer's line, and with
\* the header of a section that is new.
Stripped(u, s, name) ==
  /\ u \in Seq(IniLine) /\ AllPadded(u, name)
  /\ \A n \in IniNames : n # name => SameSetting(s, u, n)

SetFor(value) == IF value = Erase THEN NoText ELSE value.text

\* The copy of s, with the setting of that name.
CopySets(t, s, name, v) ==
  /\ t \in Seq(IniLine) /\ NowSet(t, name, v)
  /\ \A n \in IniNames : n # name => SameSetting(s, t, n)

LEMMA StrippedErases ==
  ASSUME NEW s, NEW name \in IniNames, NEW u, Stripped(u, s, name)
  PROVE  CopySets(u, s, name, NoText)
<1>1. u \in Seq(IniLine) /\ AllPadded(u, name)
  BY DEF Stripped
<1>2. NowSet(u, name, NoText)
  BY <1>1, WriterErases
<1> QED BY <1>1, <1>2 DEF Stripped, CopySets

LEMMA StrippedWrites ==
  ASSUME NEW s, NEW name \in IniNames, NEW u, Stripped(u, s, name),
         NEW i \in 1..(Len(u) + 1), InSection(u, name[1], i),
         NEW e, e.kind = "entry", e.name = name[2], ~e.padded,
         NEW t \in Seq(IniLine), Inserted(t, u, i, e)
  PROVE  CopySets(t, s, name, e.text)
<1>1. u \in Seq(IniLine) /\ AllPadded(u, name)
  BY DEF Stripped
<1>2. Setting(t, name, i) /\ NowSet(t, name, e.text)
  BY <1>1, WriterAdds
<1>3. ASSUME NEW n \in IniNames, n # name
      PROVE  SameSetting(s, t, n)
  <2>1. SameSetting(s, u, n)
    BY <1>3 DEF Stripped
  <2>2. SameSetting(u, t, n)
    BY <1>1, <1>2, <1>3, ElseKept
  <2> QED BY <2>1, <2>2 DEF SameSetting
<1> QED BY <1>2, <1>3 DEF CopySets

\* The line that is written.
LEMMA KeyIs ==
  ASSUME NEW name \in IniNames, NEW value \in IniValues, value # Erase
  PROVE  \E e \in IniLine : /\ WrittenKey(name, value) = <<e>> /\ e.kind = "entry" /\ e.name = name[2]
                            /\ e.text = value.text /\ ~e.padded
<1>1. PICK e : e = [kind |-> "entry", name |-> name[2], text |-> value.text,
                    quoted |-> value.quoted, padded |-> FALSE]
  OBVIOUS
<1>2. WrittenKey(name, value) = <<e>>
  BY <1>1 DEF WrittenKey
<1>3. name[2] \in STRING
  BY IniAssumption
<1>4. value.text \in STRING /\ value.quoted \in BOOLEAN
  <2>1. value \in [text : IniTexts, quoted : BOOLEAN]
    BY DEF IniValues
  <2>2. value.text \in IniTexts /\ value.quoted \in BOOLEAN
    BY <2>1
  <2> QED BY <2>2, IniAssumption
<1>5. e \in IniLine
  BY <1>1, <1>3, <1>4 DEF IniLine
<1> QED BY <1>1, <1>2, <1>5

\* The section is not there yet.
LEMMA NewSection ==
  ASSUME NEW s \in Seq(IniLine), NEW name \in IniNames, NEW value \in IniValues,
         HeaderLine(s, name[1]) > Len(s)
  PROVE  CopySets(s \o WrittenSection(name, value), s, name, SetFor(value))
<1>1. PICK l \in Nat : l = Len(s)
  OBVIOUS
<1>2. \A j \in 1..l : ~SectionHead(s[j], name[1])
  <2>1. PICK h : h = HeaderLine(s, name[1])
    OBVIOUS
  <2>2. h \in 1..(l + 1) /\ h > l /\ \A j \in 1..l : SectionHead(s[j], name[1]) => h <= j
    BY <1>1, <2>1, HeaderIs
  <2> QED BY <2>2
<1>3. CASE value = Erase
  <2>1. s \o WrittenSection(name, value) = s
    <3>1. WrittenSection(name, value) = <<>>
      BY <1>3 DEF WrittenSection
    <3> QED BY <3>1, ConcatEmptySeq
  <2>2. AllPadded(s, name)
    <3>1. ASSUME NEW x \in 1..l, Setting(s, name, x) PROVE FALSE
      <4>1. PICK h \in 1..(x - 1) : SectionHead(s[h], name[1])
        BY <3>1 DEF Setting, InSection
      <4>2. h \in 1..l
        OBVIOUS
      <4> QED BY <1>2, <4>1, <4>2
    <3> QED BY <1>1, <3>1 DEF AllPadded
  <2>3. Stripped(s, s, name)
    BY <2>2 DEF Stripped, SameSetting
  <2> QED BY <1>3, <2>1, <2>3, StrippedErases DEF SetFor
<1>4. CASE value # Erase
  <2>1. PICK e \in IniLine : /\ WrittenKey(name, value) = <<e>> /\ e.kind = "entry" /\ e.name = name[2]
                             /\ e.text = value.text /\ ~e.padded
    BY <1>4, KeyIs
  <2>2. PICK r : r = SectionLine(name[1])
    OBVIOUS
  <2>3. r \in IniLine /\ SectionHead(r, name[1])
    <3>1. name[1] \in STRING
      BY IniAssumption
    <3> QED BY <2>2, <3>1 DEF SectionLine, IniLine, SectionHead
  <2>4. PICK u : u = s \o <<r>>
    OBVIOUS
  <2>5. u \in Seq(IniLine) /\ Inserted(u, s, l + 1, r)
    BY <1>1, <2>3, <2>4, AppendInserts
  <2>6. Len(u) = l + 1 /\ u[l + 1] = r /\ \A x \in 1..l : u[x] = s[x]
    BY <1>1, <2>5 DEF Inserted
  <2>7. AllPadded(u, name)
    <3>1. ASSUME NEW x \in 1..(l + 1), Setting(u, name, x) PROVE FALSE
      <4>1. PICK h \in 1..(x - 1) : SectionHead(u[h], name[1])
        BY <3>1 DEF Setting, InSection
      <4>2. h \in 1..l
        OBVIOUS
      <4> QED BY <1>2, <2>6, <4>1, <4>2
    <3> QED BY <2>6, <3>1 DEF AllPadded
  <2>8. ASSUME NEW n \in IniNames PROVE SameSetting(s, u, n)
    <3>1. u # NoIniFile /\ s # NoIniFile
      BY <2>5, NotNoFile
    <3>2. r.kind = "section"
      BY <2>3 DEF SectionHead
    <3> QED BY <1>1, <2>5, <3>1, <3>2, HeaderAdded
  <2>9. Stripped(u, s, name)
    BY <2>5, <2>7, <2>8 DEF Stripped
  <2>10. InSection(u, name[1], l + 2)
    <3>1. l + 1 \in 1..((l + 2) - 1) /\ (l + 1) - 1 = l /\ \A j \in ((l + 1) + 1)..((l + 2) - 1) : FALSE
      OBVIOUS
    <3>2. \A j \in 1..l : ~SectionHead(u[j], name[1])
      BY <1>2, <2>6
    <3> QED BY <2>3, <2>6, <3>1, <3>2 DEF InSection
  <2>11. PICK t : t = u \o <<e>>
    OBVIOUS
  <2>12. t \in Seq(IniLine) /\ Inserted(t, u, l + 2, e)
    <3>1. t \in Seq(IniLine) /\ Inserted(t, u, Len(u) + 1, e)
      BY <2>5, <2>11, AppendInserts
    <3>2. Len(u) + 1 = l + 2
      BY <2>6
    <3> QED BY <3>1, <3>2
  <2>13. l + 2 \in 1..(Len(u) + 1)
    BY <2>6
  <2>14. CopySets(t, s, name, e.text)
    BY <2>1, <2>9, <2>10, <2>12, <2>13, StrippedWrites
  <2>15. s \o WrittenSection(name, value) = t
    <3>1. WrittenSection(name, value) = <<r>> \o <<e>>
      BY <1>4, <2>1, <2>2 DEF WrittenSection
    <3>2. <<r>> \in Seq(IniLine) /\ <<e>> \in Seq(IniLine)
      BY <2>3
    <3> QED BY <2>4, <2>11, <3>1, <3>2, ConcatAssociative
  <2> QED BY <1>4, <2>1, <2>14, <2>15 DEF SetFor
<1> QED BY <1>3, <1>4

\* The section is there: the copy goes on at the writer's line, or where the
\* section ends.
LEMMA OldSection ==
  ASSUME NEW s \in Seq(IniLine), NEW name \in IniNames, NEW value \in IniValues, Once(s, name),
         ~(HeaderLine(s, name[1]) > Len(s))
  PROVE  CopySets(LinesCopied(s, name, value), s, name, SetFor(value))
<1>1. PICK l \in Nat : l = Len(s)
  OBVIOUS
<1>2. PICK h : h = HeaderLine(s, name[1])
  OBVIOUS
<1>3. h \in 1..l /\ SectionHead(s[h], name[1]) /\ \A j \in 1..l : SectionHead(s[j], name[1]) => h <= j
  BY <1>1, <1>2, HeaderIs
<1>4. PICK P : P = {j \in 1..l : s[j].kind = "section" \/ (s[j].kind = "entry" /\ s[j].name = name[2] /\ ~s[j].padded)}
  OBVIOUS
<1>5. PICK places : places = {j \in LinesBehind(s, h) : j \in P}
  OBVIOUS
<1>6. places = {j \in LinesBehind(s, h) : s[j].kind = "section" \/ (s[j].kind = "entry" /\ s[j].name = name[2] /\ ~s[j].padded)}
  <2>1. \A j \in LinesBehind(s, h) : j \in 1..l
    BY <1>1, <1>3 DEF LinesBehind
  <2> QED BY <1>4, <1>5, <2>1
<1>7. PICK i : i = FirstLine(s, places)
  OBVIOUS
<1>8. /\ i \in 1..(l + 1) /\ (i <= l => i > h /\ i \in P)
      /\ \A j \in 1..l : j > h /\ j \in P => i <= j
  <2>1. h \in 1..(Len(s) + 1)
    BY <1>1, <1>3
  <2>2. /\ i \in 1..(Len(s) + 1) /\ (i <= Len(s) => i > h /\ i \in P)
        /\ \A j \in 1..Len(s) : j > h /\ j \in P => i <= j
    BY <1>5, <1>7, <2>1, BehindIs
  <2> QED BY <1>1, <2>2
<1>9. i > h /\ h \in 1..(i - 1)
  BY <1>3, <1>8
<1>10. InSection(s, name[1], i)
  <2>1. \A j \in 1..(h - 1) : ~SectionHead(s[j], name[1])
    <3>1. \A j \in 1..(h - 1) : j \in 1..l /\ ~(h <= j)
      BY <1>3
    <3> QED BY <1>3, <3>1
  <2>2. \A j \in (h + 1)..(i - 1) : s[j].kind # "section"
    <3>1. \A j \in (h + 1)..(i - 1) : j \in 1..l /\ j > h /\ ~(i <= j)
      BY <1>3, <1>8
    <3> QED BY <1>4, <1>8, <3>1
  <2> QED BY <1>3, <1>9, <2>1, <2>2 DEF InSection
<1>11. PICK rest : rest = IF i <= l /\ s[i].kind = "entry" THEN i + 1 ELSE i
  OBVIOUS
<1>12. PICK a : a = SubSeq(s, 1, i - 1)
  OBVIOUS
<1>13. PICK b : b = SubSeq(s, rest, l)
  OBVIOUS
<1>14. LinesCopied(s, name, value) = (a \o WrittenKey(name, value)) \o b
  BY <1>1, <1>2, <1>3, <1>6, <1>7, <1>11, <1>12, <1>13 DEF LinesCopied
<1>15. PICK u : u = a \o b
  OBVIOUS
<1>16. a \in Seq(IniLine) /\ Len(a) = i - 1
  BY <1>1, <1>8, <1>12, CutInTwo
<1>17. b \in Seq(IniLine) /\ Stripped(u, s, name) /\ i \in 1..(Len(u) + 1) /\ InSection(u, name[1], i)
  <2>1. CASE i <= l /\ s[i].kind = "entry"
    <3>1. i \in 1..l /\ rest = i + 1 /\ s[i].name = name[2] /\ ~s[i].padded
      <4>1. i \in P /\ i \in 1..l
        BY <1>8, <2>1
      <4> QED BY <1>4, <1>11, <2>1, <4>1
    <3>2. u = RemoveAt(s, i)
      BY <1>1, <1>12, <1>13, <1>15, <3>1 DEF RemoveAt
    <3>3. u \in Seq(IniLine) /\ Removed(u, s, i)
      BY <1>1, <3>1, <3>2, RemoveAtIs
    <3>4. Len(u) = l - 1 /\ (\A j \in 1..(i - 1) : u[j] = s[j]) /\ \A j \in i..(l - 1) : u[j] = s[j + 1]
      BY <1>1, <3>3 DEF Removed
    <3>5. i \in 1..(Len(u) + 1)
      BY <3>1, <3>4
    <3>6. Inserted(s, u, i, s[i])
      <4>1. Len(s) = Len(u) + 1 /\ Len(u) = l - 1
        BY <1>1, <3>4
      <4> QED BY <3>4, <4>1 DEF Inserted
    <3>7. Setting(s, name, i)
      BY <1>1, <1>10, <2>1, <3>1 DEF Setting
    <3>8. ASSUME NEW n \in IniNames, n # name
          PROVE  SameSetting(s, u, n)
      <4>1. SameSetting(u, s, n)
        BY <2>1, <3>3, <3>5, <3>6, <3>7, <3>8, ElseKept
      <4> QED BY <4>1 DEF SameSetting
    <3>9. AllPadded(u, name)
      <4>1. SUFFICES ASSUME NEW x \in 1..Len(u), Setting(u, name, x)
                     PROVE  u[x].padded
        BY DEF AllPadded
      <4>2. PICK y \in 1..l : y = Moved(x, i) /\ y # i /\ s[y] = u[x]
        BY <1>1, <3>3, <3>5, <3>6, MovedIs
      <4>3. s[i].kind # "section"
        BY <2>1
      <4>4. Setting(s, name, y)
        BY <3>3, <3>5, <3>6, <4>1, <4>2, <4>3, SettingsMove
      <4>5. s[y].padded \/ s[i].padded \/ y = i
        BY <1>1, <3>1, <3>7, <4>4 DEF Once
      <4> QED BY <3>1, <4>2, <4>5
    <3>10. Stripped(u, s, name)
      BY <3>3, <3>8, <3>9 DEF Stripped
    <3>11. InSection(u, name[1], i)
      <4>1. i \in 1..i
        BY <3>1
      <4> QED BY <1>10, <3>3, <3>5, <3>6, <4>1, SectionsAt
    <3>12. b \in Seq(IniLine)
      <4>1. i + 1 \in 1..(Len(s) + 1)
        BY <1>1, <3>1
      <4> QED BY <1>1, <1>13, <3>1, <4>1, CutInTwo
    <3> QED BY <3>5, <3>10, <3>11, <3>12
  <2>2. CASE ~(i <= l /\ s[i].kind = "entry")
    <3>1. rest = i
      BY <1>11, <2>2
    <3>2. u = s /\ b \in Seq(IniLine)
      BY <1>1, <1>8, <1>12, <1>13, <1>15, <3>1, CutInTwo
    <3>3. AllPadded(s, name)
      <4>1. SUFFICES ASSUME NEW x \in 1..l, Setting(s, name, x), ~s[x].padded
                     PROVE  FALSE
        BY <1>1 DEF AllPadded
      <4>2. PICK g \in 1..(x - 1) :
              /\ SectionHead(s[g], name[1]) /\ \A j \in 1..(g - 1) : ~SectionHead(s[j], name[1])
              /\ \A j \in (g + 1)..(x - 1) : s[j].kind # "section"
        BY <4>1 DEF Setting, InSection
      <4>3. h <= g
        BY <1>3, <4>2
      <4>4. ~(h < g)
        <5>1. h < g => h \in 1..(g - 1)
          BY <1>3
        <5> QED BY <1>3, <4>2, <5>1
      <4>5. h = g /\ x > h
        BY <1>3, <4>3, <4>4
      <4>6. s[x].kind = "entry" /\ s[x].name = name[2]
        BY <4>1 DEF Setting
      <4>7. x \in P
        BY <1>4, <4>1, <4>6
      <4>8. i <= x
        BY <1>8, <4>5, <4>7
      <4>9. i <= l /\ s[i].kind # "entry" /\ i \in P
        BY <1>8, <2>2, <4>8
      <4>10. s[i].kind = "section"
        BY <1>4, <4>9
      <4>11. i # x
        BY <4>6, <4>10
      <4>12. i \in (g + 1)..(x - 1)
        BY <1>8, <1>9, <4>5, <4>8, <4>11
      <4> QED BY <4>2, <4>10, <4>12
    <3>4. Stripped(s, s, name)
      BY <3>3 DEF Stripped, SameSetting
    <3> QED BY <1>1, <1>8, <1>10, <3>2, <3>4
  <2> QED BY <2>1, <2>2
<1>18. CASE value = Erase
  <2>1. a \o WrittenKey(name, value) = a
    <3>1. WrittenKey(name, value) = <<>>
      BY <1>18 DEF WrittenKey
    <3> QED BY <1>16, <3>1, ConcatEmptySeq
  <2>2. CopySets(u, s, name, NoText)
    BY <1>17, StrippedErases
  <2> QED BY <1>14, <1>15, <1>18, <2>1, <2>2 DEF SetFor
<1>19. CASE value # Erase
  <2>1. PICK e \in IniLine : /\ WrittenKey(name, value) = <<e>> /\ e.kind = "entry" /\ e.name = name[2]
                             /\ e.text = value.text /\ ~e.padded
    BY <1>19, KeyIs
  <2>2. PICK t : t = (a \o <<e>>) \o b
    OBVIOUS
  <2>3. t \in Seq(IniLine) /\ Inserted(t, u, i, e)
    <3>1. t \in Seq(IniLine) /\ Inserted(t, u, Len(a) + 1, e)
      BY <1>15, <1>16, <1>17, <2>1, <2>2, PutBetween
    <3>2. Len(a) + 1 = i
      BY <1>8, <1>16
    <3> QED BY <3>1, <3>2
  <2>4. CopySets(t, s, name, e.text)
    BY <1>17, <2>1, <2>3, StrippedWrites
  <2> QED BY <1>14, <1>19, <2>1, <2>2, <2>4 DEF SetFor
<1> QED BY <1>18, <1>19

LEMMA CopiedIs ==
  ASSUME NEW s \in Seq(IniLine), NEW name \in IniNames, NEW value \in IniValues, Once(s, name)
  PROVE  CopySets(LinesCopied(s, name, value), s, name, SetFor(value))
<1>1. CASE HeaderLine(s, name[1]) > Len(s)
  <2>1. LinesCopied(s, name, value) = s \o WrittenSection(name, value)
    BY <1>1 DEF LinesCopied
  <2> QED BY <1>1, <2>1, NewSection
<1>2. CASE ~(HeaderLine(s, name[1]) > Len(s))
  BY <1>2, OldSection
<1> QED BY <1>1, <1>2

----------------------------------------------------------------------------
(* The writer, the readers and the deaths.                                 *)

\* A file, with each setting once.
FileOK(stored) == stored \in Seq(IniLine) /\ \A n \in IniNames : Once(stored, n)

Gone(stored) == stored = NoIniFile

IniHeld == IF iniFile = NoIniFile THEN iniTwin ELSE iniFile

\* What a reader of the file would find is what is known.
Keeps(stored, known) ==
  /\ stored = NoIniFile => \A n \in IniNames : known[n] = NoText
  /\ stored # NoIniFile => \A n \in IniNames : PlainlySet(stored, n) => ini_gets(stored, n) = known[n]

Known(stored, known, lost) == lost = TRUE \/ Keeps(stored, known)

\* How far the writer has come.
JobAt(a, n, v) == [at |-> a, name |-> n, value |-> v]

JobFor(duty, stored, twin, n, v) ==
  \/ duty = JobAt("create", n, v) /\ stored = <<>> /\ v # Erase
  \/ duty = JobAt("copy", n, v) /\ stored # NoIniFile
  \/ duty = JobAt("remove", n, v) /\ stored # NoIniFile /\ twin = LinesCopied(stored, n, v)
  \/ duty = JobAt("rename", n, v) /\ stored = NoIniFile /\ twin # NoIniFile

JobIs(duty, stored, twin) ==
  \/ duty = NoJob
  \/ \E n \in IniNames, v \in IniValues : JobFor(duty, stored, twin, n, v)

IniInv ==
  /\ JobIs(iniJob, iniFile, iniTwin)
  /\ FileOK(iniFile) \/ Gone(iniFile)
  /\ FileOK(iniTwin) \/ Gone(iniTwin)
  /\ DOMAIN iniKnown = IniNames
  /\ Known(IniHeld, iniKnown, iniLost)
  /\ iniFile = NoIniFile /\ iniCrashes = 0 => iniJob.at = "rename" \/ iniTwin = NoIniFile
  /\ iniCrashes \in Nat
  /\ iniLost = FALSE \/ (iniLost = TRUE /\ iniCrashes > 0)

LEMMA NoJobIs == NoJob.at = "idle"
BY DEF NoJob

LEMMA JobAtIs ==
  ASSUME NEW a, NEW n, NEW v
  PROVE  /\ JobAt(a, n, v).at = a /\ JobAt(a, n, v).name = n /\ JobAt(a, n, v).value = v
         /\ \A b : [JobAt(a, n, v) EXCEPT !.at = b] = JobAt(b, n, v)
BY DEF JobAt

\* The state of the writer, from where it is.
LEMMA JobOf ==
  ASSUME NEW duty, NEW stored, NEW twin, JobIs(duty, stored, twin), duty.at # "idle"
  PROVE  \E n \in IniNames, v \in IniValues :
           duty = JobAt(duty.at, n, v) /\ JobFor(duty, stored, twin, n, v)
<1>1. duty # NoJob
  BY NoJobIs
<1>2. PICK n \in IniNames, v \in IniValues : JobFor(duty, stored, twin, n, v)
  BY <1>1 DEF JobIs
<1>3. duty = JobAt(duty.at, n, v)
  BY <1>2, JobAtIs DEF JobFor
<1> QED BY <1>2, <1>3

LEMMA EmptyFile == <<>> \in Seq(IniLine) /\ FileOK(<<>>) /\ <<>> # NoIniFile
<1>1. <<>> \in Seq(IniLine)
  OBVIOUS
<1>2. <<>> # NoIniFile
  BY <1>1, NotNoFile
<1>3. \A i \in 1..Len(<<>>) : FALSE
  OBVIOUS
<1> QED BY <1>1, <1>2, <1>3 DEF FileOK, Once

\* The names of the first file are there once, as the assumption says.
LEMMA StartsOnce ==
  ASSUME NEW stored \in IniStarts, stored # NoIniFile
  PROVE  FileOK(stored)
<1>1. /\ stored \in Seq(IniLine)
      /\ \A n \in IniNames : \A i, j \in SettingLines(stored, n) :
           stored[i].padded \/ stored[j].padded \/ i = j
  BY IniAssumption
<1>2. \A n, i : i \in SettingLines(stored, n) <=> Setting(stored, n, i)
  BY <1>1, SettingIs
<1> QED BY <1>1, <1>2 DEF FileOK, Once

LEMMA IniBegins == IniInit => IniInv
<1> SUFFICES ASSUME IniInit PROVE IniInv
  OBVIOUS
<1>1. /\ iniFile \in IniStarts /\ iniTwin = NoIniFile /\ iniJob = NoJob
      /\ iniKnown = [n \in IniNames |-> ini_gets(iniFile, n)]
      /\ iniLost = FALSE /\ iniCrashes = 0
  BY DEF IniInit
<1>2. FileOK(iniFile) \/ Gone(iniFile)
  BY <1>1, StartsOnce DEF Gone
<1>3. Keeps(IniHeld, iniKnown)
  <2>1. IniHeld = iniFile
    BY <1>1 DEF IniHeld
  <2>2. \A n \in IniNames : iniKnown[n] = ini_gets(iniFile, n)
    BY <1>1
  <2>3. iniFile = NoIniFile => \A n \in IniNames : ini_gets(iniFile, n) = NoText
    BY DEF ini_gets
  <2> QED BY <2>1, <2>2, <2>3 DEF Keeps
<1> QED BY <1>1, <1>2, <1>3 DEF IniInv, JobIs, Gone, Known

\* The copy holds what will be known once it takes effect.
LEMMA CopyKeeps ==
  ASSUME NEW s, FileOK(s), NEW name \in IniNames, NEW value \in IniValues,
         NEW known, DOMAIN known = IniNames, Keeps(s, known),
         NEW t, t = LinesCopied(s, name, value),
         NEW now, now = [known EXCEPT ![name] = SetFor(value)]
  PROVE  Keeps(t, now)
<1>1. s \in Seq(IniLine) /\ Once(s, name)
  BY DEF FileOK
<1>2. CopySets(t, s, name, SetFor(value))
  BY <1>1, CopiedIs
<1>3. t \in Seq(IniLine) /\ NowSet(t, name, SetFor(value)) /\ \A n \in IniNames : n # name => SameSetting(s, t, n)
  BY <1>2 DEF CopySets
<1>4. t # NoIniFile /\ s # NoIniFile
  BY <1>1, <1>3, NotNoFile
<1>5. ASSUME NEW n \in IniNames, PlainlySet(t, n)
      PROVE  ini_gets(t, n) = now[n]
  <2>1. CASE n = name
    <3>1. ini_gets(t, n) = SetFor(value)
      BY <1>3, <1>5, <2>1 DEF NowSet
    <3>2. now[n] = SetFor(value)
      BY <2>1
    <3> QED BY <3>1, <3>2
  <2>2. CASE n # name
    <3>1. PlainlySet(s, n) /\ ini_gets(t, n) = ini_gets(s, n)
      BY <1>3, <1>5, <2>2 DEF SameSetting
    <3>2. now[n] = known[n]
      BY <2>2
    <3> QED BY <1>4, <3>1, <3>2 DEF Keeps
  <2> QED BY <2>1, <2>2
<1> QED BY <1>4, <1>5 DEF Keeps

LEMMA CopyOnce ==
  ASSUME NEW s, FileOK(s), NEW name \in IniNames, NEW value \in IniValues,
         NEW t, t = LinesCopied(s, name, value)
  PROVE  FileOK(t) /\ t # NoIniFile
<1>1. s \in Seq(IniLine) /\ \A n \in IniNames : Once(s, n)
  BY DEF FileOK
<1>2. CopySets(t, s, name, SetFor(value))
  BY <1>1, CopiedIs
<1>3. t \in Seq(IniLine) /\ NowSet(t, name, SetFor(value)) /\ \A n \in IniNames : n # name => SameSetting(s, t, n)
  BY <1>2 DEF CopySets
<1>4. ASSUME NEW n \in IniNames
      PROVE  Once(t, n)
  BY <1>1, <1>3 DEF NowSet, SameSetting
<1>5. t # NoIniFile
  BY <1>3, NotNoFile
<1> QED BY <1>3, <1>4, <1>5 DEF FileOK

\* A file that is begun is the copy of an empty one.
LEMMA BegunIs ==
  ASSUME NEW name \in IniNames, NEW value \in IniValues
  PROVE  LinesCopied(<<>>, name, value) = WrittenSection(name, value)
<1>1. PICK h : h = HeaderLine(<<>>, name[1])
  OBVIOUS
<1>2. h \in 1..(Len(<<>>) + 1)
  BY <1>1, EmptyFile, HeaderIs
<1>3. h > Len(<<>>)
  BY <1>2
<1>4. LinesCopied(<<>>, name, value) = <<>> \o WrittenSection(name, value)
  BY <1>1, <1>3 DEF LinesCopied
<1>5. PICK S : WrittenSection(name, value) \in Seq(S)
  <2>1. PICK S : S = {SectionLine(name[1])} \cup {[kind |-> "entry", name |-> name[2], text |-> value.text,
                     quoted |-> value.quoted, padded |-> FALSE]}
    OBVIOUS
  <2>2. PICK r \in S : r = SectionLine(name[1])
    BY <2>1
  <2>3. PICK e \in S : e = [kind |-> "entry", name |-> name[2], text |-> value.text,
                     quoted |-> value.quoted, padded |-> FALSE]
    BY <2>1
  <2>4. <<r>> \o <<e>> \in Seq(S) /\ <<>> \in Seq(S)
    OBVIOUS
  <2>5. WrittenSection(name, value) = <<>> \/ WrittenSection(name, value) = <<r>> \o <<e>>
    BY <2>2, <2>3 DEF WrittenSection, WrittenKey
  <2> QED BY <2>4, <2>5
<1> QED BY <1>4, <1>5, ConcatEmptySeq

LEMMA NowKnownIs == NowKnown = [iniKnown EXCEPT ![iniJob.name] = SetFor(iniJob.value)]
BY DEF NowKnown, SetFor

LEMMA SetKeeps ==
  ASSUME IniInv, NEW name \in IniNames, NEW value \in IniValues, cwmp_conf_set(name, value)
  PROVE  IniInv'
<1>1. /\ iniJob = NoJob /\ iniJob.at = "idle" /\ UNCHANGED <<iniKnown, iniCrashes>>
      /\ FileOK(iniFile) \/ Gone(iniFile)
      /\ FileOK(iniTwin) \/ Gone(iniTwin)
      /\ DOMAIN iniKnown = IniNames /\ Known(IniHeld, iniKnown, iniLost)
      /\ iniFile = NoIniFile /\ iniCrashes = 0 => iniTwin = NoIniFile
      /\ iniCrashes \in Nat /\ (iniLost = FALSE \/ (iniLost = TRUE /\ iniCrashes > 0))
  BY NoJobIs DEF IniInv, cwmp_conf_set
<1>2. CASE /\ iniFile = NoIniFile /\ value # Erase
           /\ iniFile' = <<>>
           /\ iniJob' = [at |-> "create", name |-> name, value |-> value]
           /\ iniLost' = (iniLost \/ iniTwin # NoIniFile)
           /\ UNCHANGED iniTwin
  <2>1. JobIs(iniJob', iniFile', iniTwin')
    <3>1. JobFor(iniJob', iniFile', iniTwin', name, value)
      BY <1>2 DEF JobFor, JobAt
    <3> QED BY <3>1 DEF JobIs
  <2>2. FileOK(iniFile') /\ iniFile' # NoIniFile
    BY <1>2, EmptyFile
  <2>3. CASE iniLost = TRUE \/ iniTwin # NoIniFile
    <3>1. iniLost' = TRUE
      BY <1>2, <2>3
    <3>2. iniCrashes > 0
      BY <1>1, <1>2, <2>3
    <3>3. Known(IniHeld', iniKnown', iniLost')
      BY <3>1, Zenon DEF Known
    <3> QED BY <1>1, <1>2, <2>1, <2>2, <3>1, <3>2, <3>3 DEF IniInv
  <2>4. CASE iniLost = FALSE /\ iniTwin = NoIniFile
    <3>1. iniLost' = FALSE
      BY <1>2, <2>4
    <3>2. Keeps(NoIniFile, iniKnown)
      <4>1. IniHeld = NoIniFile
        BY <1>2, <2>4 DEF IniHeld
      <4> QED BY <1>1, <2>4, <4>1 DEF Known
    <3>3. \A n \in IniNames : iniKnown[n] = NoText
      BY <3>2 DEF Keeps
    <3>4. \A n \in IniNames : ini_gets(<<>>, n) = NoText
      <4>1. SUFFICES ASSUME NEW n \in IniNames PROVE ini_gets(<<>>, n) = NoText
        OBVIOUS
      <4>2. \A j \in 1..Len(<<>>) : ~Setting(<<>>, n, j)
        OBVIOUS
      <4> QED BY <4>2, EmptyFile, GetsIs
    <3>5. Keeps(<<>>, iniKnown)
      BY <3>3, <3>4, EmptyFile DEF Keeps
    <3>6. IniHeld' = <<>>
      BY <1>2, <2>2 DEF IniHeld
    <3>7. Known(IniHeld', iniKnown', iniLost')
      BY <1>1, <3>5, <3>6 DEF Known
    <3> QED BY <1>1, <1>2, <2>1, <2>2, <3>1, <3>7 DEF IniInv
  <2> QED BY <1>1, <2>3, <2>4
<1>3. CASE /\ iniFile # NoIniFile
           /\ iniTwin' = <<>>
           /\ iniJob' = [at |-> "copy", name |-> name, value |-> value]
           /\ UNCHANGED <<iniFile, iniLost>>
  <2>1. JobIs(iniJob', iniFile', iniTwin')
    <3>1. JobFor(iniJob', iniFile', iniTwin', name, value)
      BY <1>3 DEF JobFor, JobAt
    <3> QED BY <3>1 DEF JobIs
  <2>2. IniHeld' = IniHeld
    BY <1>3 DEF IniHeld
  <2>3. FileOK(iniTwin')
    BY <1>3, EmptyFile
  <2>4. Known(IniHeld', iniKnown', iniLost')
    BY <1>1, <1>3, <2>2
  <2> QED BY <1>1, <1>3, <2>1, <2>3, <2>4 DEF IniInv
<1>4. CASE UNCHANGED <<iniFile, iniTwin, iniJob, iniLost>>
  BY <1>1, <1>4 DEF IniInv, IniHeld
<1> QED BY <1>2, <1>3, <1>4 DEF cwmp_conf_set

LEMMA WrittenKeeps == IniInv /\ FileWritten => IniInv'
<1> SUFFICES ASSUME IniInv, FileWritten PROVE IniInv'
  OBVIOUS
<1>1. /\ iniJob.at = "create" /\ iniFile' = WrittenSection(iniJob.name, iniJob.value)
      /\ iniKnown' = NowKnown /\ iniJob' = NoJob /\ UNCHANGED <<iniTwin, iniLost, iniCrashes>>
  BY DEF FileWritten
<1>2. /\ FileOK(iniTwin) \/ Gone(iniTwin)
      /\ DOMAIN iniKnown = IniNames /\ Known(IniHeld, iniKnown, iniLost)
      /\ iniCrashes \in Nat /\ (iniLost = FALSE \/ (iniLost = TRUE /\ iniCrashes > 0))
  BY DEF IniInv
<1>4. PICK name \in IniNames, value \in IniValues :
        iniJob = JobAt("create", name, value) /\ JobFor(iniJob, iniFile, iniTwin, name, value)
  BY <1>1, JobOf DEF IniInv
<1>3. name = iniJob.name /\ value = iniJob.value /\ iniFile = <<>>
  BY <1>1, <1>4, JobAtIs DEF JobFor
<1>5. iniFile' = LinesCopied(iniFile, name, value)
  BY <1>1, <1>3, BegunIs
<1>6. FileOK(iniFile)
  BY <1>3, EmptyFile
<1>7. FileOK(iniFile') /\ iniFile' # NoIniFile
  BY <1>5, <1>6, CopyOnce
<1>8. iniKnown' = [iniKnown EXCEPT ![name] = SetFor(value)]
  BY <1>1, <1>3, NowKnownIs
<1>9. Known(iniFile', iniKnown', iniLost')
  <2>1. CASE iniLost = TRUE
    BY <1>1, <2>1 DEF Known
  <2>2. CASE iniLost = FALSE
    <3>1. IniHeld = iniFile
      BY <1>3, EmptyFile DEF IniHeld
    <3>2. Keeps(iniFile, iniKnown)
      BY <1>2, <2>2, <3>1 DEF Known
    <3>3. Keeps(iniFile', iniKnown')
      BY <1>2, <1>5, <1>6, <1>8, <3>2, CopyKeeps
    <3> QED BY <3>3 DEF Known
  <2> QED BY <1>2, <2>1, <2>2
<1>10. IniHeld' = iniFile'
  BY <1>7 DEF IniHeld
<1>11. DOMAIN iniKnown' = IniNames
  BY <1>2, <1>8
<1> QED BY <1>1, <1>2, <1>7, <1>9, <1>10, <1>11 DEF IniInv, JobIs

LEMMA TwinKeeps == IniInv /\ TwinWritten => IniInv'
<1> SUFFICES ASSUME IniInv, TwinWritten PROVE IniInv'
  OBVIOUS
<1>1. /\ iniJob.at = "copy" /\ iniTwin' = LinesCopied(iniFile, iniJob.name, iniJob.value)
      /\ iniJob' = [iniJob EXCEPT !.at = "remove"]
      /\ UNCHANGED <<iniFile, iniKnown, iniLost, iniCrashes>>
  BY DEF TwinWritten
<1>2. /\ FileOK(iniFile) \/ Gone(iniFile)
      /\ DOMAIN iniKnown = IniNames /\ Known(IniHeld, iniKnown, iniLost)
      /\ iniCrashes \in Nat /\ (iniLost = FALSE \/ (iniLost = TRUE /\ iniCrashes > 0))
  BY DEF IniInv
<1>3. PICK name \in IniNames, value \in IniValues :
        iniJob = JobAt("copy", name, value) /\ JobFor(iniJob, iniFile, iniTwin, name, value)
  BY <1>1, JobOf DEF IniInv
<1>4. name = iniJob.name /\ value = iniJob.value /\ iniFile # NoIniFile
  BY <1>1, <1>3, JobAtIs DEF JobFor
<1>5. iniJob' = JobAt("remove", name, value)
  BY <1>1, <1>3, JobAtIs
<1>6. FileOK(iniFile)
  BY <1>2, <1>4 DEF Gone
<1>7. FileOK(iniTwin')
  BY <1>1, <1>4, <1>6, CopyOnce
<1>8. JobFor(iniJob', iniFile', iniTwin', name, value)
  BY <1>1, <1>4, <1>5 DEF JobFor
<1>9. JobIs(iniJob', iniFile', iniTwin')
  BY <1>8 DEF JobIs
<1>10. IniHeld' = IniHeld
  BY <1>1, <1>4 DEF IniHeld
<1>11. Known(IniHeld', iniKnown', iniLost')
  BY <1>1, <1>2, <1>10
<1> QED BY <1>1, <1>2, <1>4, <1>6, <1>7, <1>9, <1>11 DEF IniInv

LEMMA RemovedKeeps == IniInv /\ FileRemoved => IniInv'
<1> SUFFICES ASSUME IniInv, FileRemoved PROVE IniInv'
  OBVIOUS
<1>1. /\ iniJob.at = "remove" /\ iniFile' = NoIniFile /\ iniKnown' = NowKnown
      /\ iniJob' = [iniJob EXCEPT !.at = "rename"]
      /\ UNCHANGED <<iniTwin, iniLost, iniCrashes>>
  BY DEF FileRemoved
<1>2. /\ FileOK(iniFile) \/ Gone(iniFile)
      /\ DOMAIN iniKnown = IniNames /\ Known(IniHeld, iniKnown, iniLost)
      /\ iniCrashes \in Nat /\ (iniLost = FALSE \/ (iniLost = TRUE /\ iniCrashes > 0))
  BY DEF IniInv
<1>3. PICK name \in IniNames, value \in IniValues :
        iniJob = JobAt("remove", name, value) /\ JobFor(iniJob, iniFile, iniTwin, name, value)
  BY <1>1, JobOf DEF IniInv
<1>4. name = iniJob.name /\ value = iniJob.value /\ iniFile # NoIniFile /\ iniTwin = LinesCopied(iniFile, name, value)
  BY <1>1, <1>3, JobAtIs DEF JobFor
<1>5. iniJob' = JobAt("rename", name, value) /\ iniJob'.at = "rename"
  BY <1>1, <1>3, JobAtIs
<1>6. FileOK(iniFile)
  BY <1>2, <1>4 DEF Gone
<1>7. FileOK(iniTwin) /\ iniTwin # NoIniFile
  BY <1>4, <1>6, CopyOnce
<1>8. JobFor(iniJob', iniFile', iniTwin', name, value)
  BY <1>1, <1>5, <1>7 DEF JobFor
<1>9. JobIs(iniJob', iniFile', iniTwin')
  BY <1>8 DEF JobIs
<1>10. iniKnown' = [iniKnown EXCEPT ![name] = SetFor(value)]
  BY <1>1, <1>4, NowKnownIs
<1>11. IniHeld' = iniTwin /\ IniHeld = iniFile
  BY <1>1, <1>4 DEF IniHeld
<1>12. Known(iniTwin, iniKnown', iniLost)
  <2>1. CASE iniLost = TRUE
    BY <2>1 DEF Known
  <2>2. CASE iniLost = FALSE
    <3>1. Keeps(iniFile, iniKnown)
      BY <1>2, <1>11, <2>2 DEF Known
    <3>2. Keeps(iniTwin, iniKnown')
      BY <1>2, <1>4, <1>6, <1>10, <3>1, CopyKeeps
    <3> QED BY <3>2 DEF Known
  <2> QED BY <1>2, <2>1, <2>2
<1>13. Known(IniHeld', iniKnown', iniLost')
  BY <1>1, <1>11, <1>12
<1>14. DOMAIN iniKnown' = IniNames
  BY <1>2, <1>10
<1> QED BY <1>1, <1>2, <1>5, <1>7, <1>9, <1>13, <1>14 DEF IniInv, Gone

LEMMA RenamedKeeps == IniInv /\ TwinRenamed => IniInv'
<1> SUFFICES ASSUME IniInv, TwinRenamed PROVE IniInv'
  OBVIOUS
<1>1. /\ iniJob.at = "rename" /\ iniFile' = iniTwin /\ iniTwin' = NoIniFile /\ iniJob' = NoJob
      /\ UNCHANGED <<iniKnown, iniLost, iniCrashes>>
  BY DEF TwinRenamed
<1>2. /\ FileOK(iniTwin) \/ Gone(iniTwin)
      /\ DOMAIN iniKnown = IniNames /\ Known(IniHeld, iniKnown, iniLost)
      /\ iniCrashes \in Nat /\ (iniLost = FALSE \/ (iniLost = TRUE /\ iniCrashes > 0))
  BY DEF IniInv
<1>3. PICK name \in IniNames, value \in IniValues :
        iniJob = JobAt("rename", name, value) /\ JobFor(iniJob, iniFile, iniTwin, name, value)
  BY <1>1, JobOf DEF IniInv
<1>4. iniFile = NoIniFile /\ iniTwin # NoIniFile
  BY <1>1, <1>3, JobAtIs DEF JobFor
<1>5. IniHeld' = IniHeld
  BY <1>1, <1>4 DEF IniHeld
<1>6. Known(IniHeld', iniKnown', iniLost')
  BY <1>1, <1>2, <1>5
<1>7. JobIs(iniJob', iniFile', iniTwin')
  BY <1>1 DEF JobIs
<1>8. FileOK(iniFile') /\ iniFile' # NoIniFile /\ Gone(iniTwin')
  BY <1>1, <1>2, <1>4 DEF Gone
<1> QED BY <1>1, <1>2, <1>6, <1>7, <1>8 DEF IniInv

LEMMA CrashKeeps == IniInv /\ IniCrash => IniInv'
<1> SUFFICES ASSUME IniInv, IniCrash PROVE IniInv'
  OBVIOUS
<1>1. /\ iniJob' = NoJob /\ iniCrashes' = iniCrashes + 1
      /\ UNCHANGED <<iniFile, iniTwin, iniKnown, iniLost>>
  BY DEF IniCrash
<1>2. IniHeld' = IniHeld
  BY <1>1 DEF IniHeld
<1>3. JobIs(iniJob', iniFile', iniTwin')
  BY <1>1 DEF JobIs
<1>4. iniCrashes \in Nat /\ iniCrashes' \in Nat /\ iniCrashes' > 0 /\ iniCrashes' # 0
  BY <1>1 DEF IniInv
<1> QED BY <1>1, <1>2, <1>3, <1>4 DEF IniInv

LEMMA IniSteps == IniInv /\ (IniNext \/ UNCHANGED iniVars) => IniInv'
<1> SUFFICES ASSUME IniInv, IniNext \/ UNCHANGED iniVars PROVE IniInv'
  OBVIOUS
<1>1. CASE UNCHANGED iniVars
  BY <1>1 DEF iniVars, IniInv, IniHeld
<1>2. ASSUME NEW n \in IniNames, NEW v \in IniValues, cwmp_conf_set(n, v)
      PROVE  IniInv'
  BY <1>2, SetKeeps
<1>3. ASSUME NEW n \in IniNames, cwmp_conf_get(n)
      PROVE  IniInv'
  BY <1>3 DEF cwmp_conf_get, IniInv, IniHeld
<1> QED BY <1>1, <1>2, <1>3, WrittenKeeps, TwinKeeps, RemovedKeeps, RenamedKeeps, CrashKeeps DEF IniNext

LEMMA IniKeeps == IniInv => IniKept
<1> SUFFICES ASSUME IniInv PROVE IniKept
  OBVIOUS
<1>1. /\ FileOK(iniFile) \/ Gone(iniFile)
      /\ FileOK(iniTwin) \/ Gone(iniTwin)
      /\ Known(IniHeld, iniKnown, iniLost)
      /\ iniFile = NoIniFile /\ iniCrashes = 0 => iniJob.at = "rename" \/ iniTwin = NoIniFile
      /\ iniLost = FALSE \/ (iniLost = TRUE /\ iniCrashes > 0)
  BY DEF IniInv
<1>2. PICK held : held = IniHeld
  OBVIOUS
<1>3. FileOK(held) \/ held = NoIniFile
  BY <1>1, <1>2 DEF IniHeld, Gone
<1>4. ASSUME ~iniLost, NEW n \in IniNames, held # NoIniFile => ~OutOfReach(held, n)
      PROVE  ini_gets(held, n) = iniKnown[n]
  <2>1. Keeps(held, iniKnown)
    BY <1>1, <1>2, <1>4 DEF Known
  <2>2. CASE held = NoIniFile
    BY <2>1, <2>2 DEF Keeps, ini_gets
  <2>3. CASE held # NoIniFile
    <3>1. held \in Seq(IniLine)
      BY <1>3, <2>3 DEF FileOK
    <3>2. PlainlySet(held, n)
      BY <1>4, <2>3, <3>1, ReachIs
    <3> QED BY <2>1, <2>3, <3>2 DEF Keeps
  <2> QED BY <2>2, <2>3
<1>5. ASSUME iniFile = NoIniFile, iniCrashes = 0, iniJob.at # "rename"
      PROVE  \A n \in IniNames : iniKnown[n] = NoText
  <2>1. IniHeld = NoIniFile /\ iniLost = FALSE
    BY <1>1, <1>5 DEF IniHeld
  <2> QED BY <1>1, <2>1 DEF Known, Keeps
<1>6. iniLost => iniCrashes > 0
  BY <1>1
<1>7. held = IF iniFile = NoIniFile THEN iniTwin ELSE iniFile
  BY <1>2 DEF IniHeld
<1> QED BY <1>4, <1>5, <1>6, <1>7 DEF IniKept

----------------------------------------------------------------------------
(* Attributes. A list that has lost nodes, or was never told of some, is   *)
(* no ring; what every call keeps is that nextSibling and prevSibling lead *)
(* up and down some count of the nodes, so that every walk ends.           *)

AttrRec == [next : AttrPtr, prev : AttrPtr, owned : BOOLEAN, val : AttrValues \cup {NoValue}]

NextOf(h) == [x \in AttrNodes |-> h[x].next]
PrevOf(h) == [x \in AttrNodes |-> h[x].prev]
OwnedIn(h) == {x \in AttrNodes : h[x].owned}

\* W grows along nx and falls along pv; nobody points to a node that no
\* element owns, and such a node points nowhere.
Ranked(nx, pv, O, f, W, B) ==
  /\ B \in Nat /\ W \in [AttrNodes -> 0..B] /\ O \subseteq AttrNodes
  /\ nx \in [AttrNodes -> AttrPtr] /\ pv \in [AttrNodes -> AttrPtr] /\ f \in AttrPtr
  /\ \A x \in AttrNodes : nx[x] # NoAttr => nx[x] \in O /\ W[x] < W[nx[x]]
  /\ \A x \in AttrNodes : pv[x] # NoAttr => pv[x] \in O /\ W[pv[x]] < W[x]
  /\ \A x \in AttrNodes \ O : nx[x] = NoAttr /\ pv[x] = NoAttr
  /\ f # NoAttr => f \in O /\ pv[f] = NoAttr

\* s is the walk from f.
AttrPath(nx, f, s) ==
  /\ s \in Seq(AttrNodes)
  /\ Len(s) = 0 => f = NoAttr
  /\ Len(s) > 0 => f = s[1] /\ nx[s[Len(s)]] = NoAttr
  /\ \A i \in 1..(Len(s) - 1) : nx[s[i]] = s[i + 1]

\* A node that was told of a listed one was told of the one before it.
ToldOf(pv, s) == \A i, j \in 1..Len(s) : pv[s[i]] = s[j] => i = j + 1

NamesApart(s) == \A i, j \in 1..Len(s) : AttrName[s[i]] = AttrName[s[j]] => i = j

LEMMA NoAttrIsNone == NoAttr \notin AttrNodes
BY AttrAssumption

LEMMA ListedOwned ==
  ASSUME NEW nx, NEW pv, NEW O, NEW f, NEW W, NEW B, NEW s,
         Ranked(nx, pv, O, f, W, B), AttrPath(nx, f, s)
  PROVE  \A i \in 1..Len(s) : s[i] \in O
<1> SUFFICES ASSUME NEW i \in 1..Len(s) PROVE s[i] \in O
  OBVIOUS
<1>1. PICK n \in Nat : n = Len(s)
  BY DEF AttrPath
<1>2. CASE i = 1
  <2>1. f = s[1] /\ s[1] \in AttrNodes
    BY <1>2 DEF AttrPath
  <2> QED BY <1>2, <2>1, NoAttrIsNone DEF Ranked
<1>3. CASE i # 1
  <2>1. i - 1 \in 1..(Len(s) - 1) /\ (i - 1) + 1 = i /\ i - 1 \in 1..Len(s)
    BY <1>1, <1>3
  <2>2. nx[s[i - 1]] = s[i] /\ s[i - 1] \in AttrNodes /\ s[i] \in AttrNodes
    BY <2>1 DEF AttrPath
  <2> QED BY <2>2, NoAttrIsNone DEF Ranked
<1> QED BY <1>2, <1>3

LEMMA NodesApart ==
  ASSUME NEW s, NamesApart(s)
  PROVE  \A i, j \in 1..Len(s) : s[i] = s[j] => i = j
BY DEF NamesApart

----------------------------------------------------------------------------
\* A new node behind the last one, l; p is what it is told.
AppendedLinks(nx, pv, O, f, nx2, pv2, O2, f2, n, l, p) ==
  /\ nx2 = [x \in AttrNodes |-> IF x = l THEN n ELSE nx[x]]
  /\ pv2 = [x \in AttrNodes |-> IF x = n THEN p ELSE pv[x]]
  /\ O2 = O \cup {n}
  /\ f2 = IF f = NoAttr THEN n ELSE f

LEMMA AppendRanks ==
  ASSUME NEW nx, NEW pv, NEW O, NEW f, NEW W, NEW B, Ranked(nx, pv, O, f, W, B),
         NEW n \in AttrNodes, n \notin O, NEW l \in O \cup {NoAttr}, NEW p \in {l, NoAttr},
         f = NoAttr => l = NoAttr,
         NEW nx2, NEW pv2, NEW O2, NEW f2,
         AppendedLinks(nx, pv, O, f, nx2, pv2, O2, f2, n, l, p)
  PROVE  \E W2, B2 : Ranked(nx2, pv2, O2, f2, W2, B2)
<1> DEFINE W2 == [x \in AttrNodes |-> IF x = n THEN B + 1 ELSE W[x]]
<1>1. B \in Nat /\ B + 1 \in Nat /\ \A x \in AttrNodes : W[x] \in 0..B
  BY DEF Ranked
<1>2. /\ W2 \in [AttrNodes -> 0..(B + 1)] /\ W2[n] = B + 1
      /\ \A x \in AttrNodes \ {n} : W2[x] = W[x] /\ W2[x] < B + 1
  BY <1>1
<1> HIDE DEF W2
<1>3. O \subseteq AttrNodes /\ l # n
  BY NoAttrIsNone DEF Ranked
<1>4. nx2 \in [AttrNodes -> AttrPtr] /\ pv2 \in [AttrNodes -> AttrPtr] /\ f2 \in AttrPtr
  BY <1>3 DEF Ranked, AppendedLinks, AttrPtr
<1>5. ASSUME NEW x \in AttrNodes, nx2[x] # NoAttr
      PROVE  nx2[x] \in O2 /\ W2[x] < W2[nx2[x]]
  <2>1. CASE x = l
    BY <1>2, <1>3, <2>1 DEF AppendedLinks
  <2>2. CASE x # l
    <3>1. nx2[x] = nx[x]
      BY <2>2 DEF AppendedLinks
    <3>2. nx[x] \in O /\ W[x] < W[nx[x]] /\ x # n
      BY <1>5, <3>1 DEF Ranked
    <3> QED BY <1>2, <1>3, <3>1, <3>2 DEF AppendedLinks
  <2> QED BY <2>1, <2>2
<1>6. ASSUME NEW x \in AttrNodes, pv2[x] # NoAttr
      PROVE  pv2[x] \in O2 /\ W2[pv2[x]] < W2[x]
  <2>1. CASE x = n
    <3>1. pv2[x] = l /\ l \in O
      BY <1>6, <2>1 DEF AppendedLinks
    <3> QED BY <1>2, <1>3, <2>1, <3>1 DEF AppendedLinks
  <2>2. CASE x # n
    <3>1. pv2[x] = pv[x]
      BY <2>2 DEF AppendedLinks
    <3>2. pv[x] \in O /\ W[pv[x]] < W[x]
      BY <1>6, <3>1 DEF Ranked
    <3> QED BY <1>2, <1>3, <2>2, <3>1, <3>2 DEF AppendedLinks
  <2> QED BY <2>1, <2>2
<1>7. ASSUME NEW x \in AttrNodes \ O2
      PROVE  nx2[x] = NoAttr /\ pv2[x] = NoAttr
  <2>1. x # n /\ x \notin O /\ x # l
    BY <1>3, NoAttrIsNone DEF AppendedLinks
  <2> QED BY <2>1 DEF AppendedLinks, Ranked
<1>8. f2 \in O2 /\ pv2[f2] = NoAttr
  <2>1. CASE f = NoAttr
    BY <2>1 DEF AppendedLinks
  <2>2. CASE f # NoAttr
    <3>1. f \in O /\ pv[f] = NoAttr /\ f \in AttrNodes
      BY <1>3, <2>2 DEF Ranked
    <3> QED BY <2>2, <3>1 DEF AppendedLinks
  <2> QED BY <2>1, <2>2
<1>9. O2 \subseteq AttrNodes
  BY <1>3 DEF AppendedLinks
<1>10. Ranked(nx2, pv2, O2, f2, W2, B + 1)
  BY <1>1, <1>2, <1>4, <1>5, <1>6, <1>7, <1>8, <1>9 DEF Ranked
<1> QED BY <1>10

NewName(s, n) == \A i \in 1..Len(s) : AttrName[s[i]] # AttrName[n]
IsAppended(t, s, n) == t = Append(s, n)
LastIs(l, s) == l = IF Len(s) = 0 THEN NoAttr ELSE s[Len(s)]

LEMMA AppendPath ==
  ASSUME NEW nx, NEW pv, NEW O, NEW f, NEW W, NEW B, NEW s, Ranked(nx, pv, O, f, W, B),
         AttrPath(nx, f, s), ToldOf(pv, s), NamesApart(s),
         NEW n \in AttrNodes, n \notin O, NewName(s, n),
         NEW l, LastIs(l, s), NEW p \in {l, NoAttr},
         NEW nx2, NEW pv2, NEW O2, NEW f2, NEW t, IsAppended(t, s, n),
         AppendedLinks(nx, pv, O, f, nx2, pv2, O2, f2, n, l, p)
  PROVE  AttrPath(nx2, f2, t) /\ ToldOf(pv2, t) /\ NamesApart(t)
<1>1. s \in Seq(AttrNodes)
  BY DEF AttrPath
<1>2. PICK k \in Nat : k = Len(s)
  BY <1>1
<1>4. /\ t \in Seq(AttrNodes) /\ Len(t) = k + 1 /\ t[k + 1] = n
      /\ \A i \in 1..k : t[i] = s[i] /\ s[i] \in AttrNodes
  BY <1>1, <1>2, AppendProperties DEF IsAppended
<1>5. \A i \in 1..k : s[i] \in O /\ s[i] # n
  BY <1>2, ListedOwned
<1>6. \A i, j \in 1..k : s[i] = s[j] => i = j
  BY <1>2, NodesApart
<1>7. n # l /\ nx[n] = NoAttr /\ (k > 0 => l = s[k]) /\ (k = 0 => l = NoAttr)
  BY <1>2, <1>5, NoAttrIsNone DEF Ranked, LastIs
<1>8. \A i \in 1..(k + 1) : i \in 1..k \/ i = k + 1
  BY <1>2
<1>9. AttrPath(nx2, f2, t)
  <2>1. f2 = t[1]
    <3>1. CASE k = 0
      BY <1>2, <1>4, <3>1 DEF AttrPath, AppendedLinks
    <3>2. CASE k # 0
      <4>1. 1 \in 1..k /\ k > 0
        BY <1>2, <3>2
      <4>2. f = s[1] /\ f # NoAttr
        BY <1>2, <1>4, <4>1, NoAttrIsNone DEF AttrPath
      <4> QED BY <1>4, <4>1, <4>2 DEF AppendedLinks
    <3> QED BY <3>1, <3>2
  <2>2. nx2[t[k + 1]] = NoAttr
    BY <1>4, <1>7 DEF AppendedLinks
  <2>3. ASSUME NEW i \in 1..k
        PROVE  nx2[t[i]] = t[i + 1]
    <3>1. CASE i = k
      BY <1>4, <1>7, <3>1 DEF AppendedLinks
    <3>2. CASE i # k
      <4>1. i \in 1..(k - 1) /\ k \in 1..k /\ i + 1 \in 1..k /\ k > 0
        BY <3>2
      <4>2. s[i] # l /\ nx[s[i]] = s[i + 1]
        BY <1>2, <1>6, <1>7, <3>2, <4>1 DEF AttrPath
      <4> QED BY <1>4, <4>1, <4>2 DEF AppendedLinks
    <3> QED BY <3>1, <3>2
  <2>4. (k + 1) - 1 = k /\ k + 1 > 0 /\ k + 1 # 0
    BY <1>2
  <2> QED BY <1>4, <2>1, <2>2, <2>3, <2>4 DEF AttrPath
<1>10. ToldOf(pv2, t)
  <2> SUFFICES ASSUME NEW i \in 1..(k + 1), NEW j \in 1..(k + 1), pv2[t[i]] = t[j]
               PROVE  i = j + 1
    BY <1>4 DEF ToldOf
  <2>1. CASE i = k + 1
    <3>1. pv2[t[i]] = p
      BY <1>4, <2>1 DEF AppendedLinks
    <3>2. p # NoAttr /\ p # n
      <4>1. t[j] \in AttrNodes
        BY <1>4, <1>8
      <4> QED BY <1>7, <3>1, <4>1, NoAttrIsNone
    <3>3. p = l /\ k > 0 /\ k \in 1..k /\ l = s[k]
      BY <1>2, <1>7, <3>2
    <3>4. j \in 1..k /\ s[j] = s[k]
      BY <1>4, <1>8, <3>1, <3>2, <3>3
    <3> QED BY <1>6, <2>1, <3>3, <3>4
  <2>2. CASE i \in 1..k
    <3>1. pv2[t[i]] = pv[s[i]]
      BY <1>4, <1>5, <2>2 DEF AppendedLinks
    <3>2. CASE j \in 1..k
      BY <1>2, <1>4, <2>2, <3>1, <3>2 DEF ToldOf
    <3>3. CASE j = k + 1
      <4>1. pv[s[i]] = n /\ n # NoAttr
        BY <1>4, <3>1, <3>3, NoAttrIsNone
      <4> QED BY <1>4, <2>2, <4>1 DEF Ranked
    <3> QED BY <1>8, <3>2, <3>3
  <2> QED BY <1>8, <2>1, <2>2
<1>11. NamesApart(t)
  <2> SUFFICES ASSUME NEW i \in 1..(k + 1), NEW j \in 1..(k + 1), AttrName[t[i]] = AttrName[t[j]]
               PROVE  i = j
    BY <1>4 DEF NamesApart
  <2>1. \A m \in 1..k : AttrName[t[m]] # AttrName[n]
    BY <1>2, <1>4 DEF NewName
  <2>2. CASE i \in 1..k /\ j \in 1..k
    BY <1>2, <1>4, <2>2 DEF NamesApart
  <2> QED BY <1>4, <1>8, <2>1, <2>2
<1> QED BY <1>9, <1>10, <1>11

\* t has what stands before place k in s.
KeptBefore(t, s, k) == \A i \in 1..Len(s) : i < k => \E j \in 1..Len(t) : t[j] = s[i]

LEMMA BehindIsNext ==
  ASSUME NEW nx, NEW f, NEW s, AttrPath(nx, f, s), NamesApart(s), NEW k \in 1..Len(s)
  PROVE  nx[s[k]] # f /\ \A i \in 1..k : nx[s[k]] # s[i]
<1>1. PICK n \in Nat : n = Len(s)
  BY DEF AttrPath
<1>2. \A i \in 1..n : s[i] \in AttrNodes
  BY <1>1 DEF AttrPath
<1>3. \A i, j \in 1..n : s[i] = s[j] => i = j
  BY <1>1, NodesApart
<1>4. f = s[1] /\ 1 \in 1..n /\ 1 \in 1..k
  BY <1>1 DEF AttrPath
<1>5. \A i \in 1..k : i \in 1..n
  BY <1>1
<1>6. CASE k = n
  <2>1. nx[s[k]] = NoAttr
    BY <1>1, <1>6 DEF AttrPath
  <2> QED BY <1>2, <1>4, <1>5, <2>1, NoAttrIsNone
<1>7. CASE k # n
  <2>1. k \in 1..(n - 1) /\ k + 1 \in 1..n /\ \A i \in 1..k : i # k + 1
    BY <1>1, <1>7
  <2>2. nx[s[k]] = s[k + 1]
    BY <1>1, <2>1 DEF AttrPath
  <2> QED BY <1>3, <1>4, <1>5, <2>1, <2>2
<1> QED BY <1>6, <1>7

----------------------------------------------------------------------------
\* A new node n that takes the place of m.
ReplacedLinks(nx, pv, O, f, nx2, pv2, O2, f2, n, m) ==
  /\ nx2 = [x \in AttrNodes |-> IF x = pv[m] THEN n ELSE nx[x]]
  /\ pv2 = [x \in AttrNodes |-> IF x = nx[m] THEN n ELSE pv[x]]
  /\ O2 = O \cup {n}
  /\ f2 = IF f = m THEN n ELSE f

LEMMA ReplaceRanks ==
  ASSUME NEW nx, NEW pv, NEW O, NEW f, NEW W, NEW B, Ranked(nx, pv, O, f, W, B),
         NEW n \in AttrNodes, n \notin O, NEW m \in O, nx[m] # f,
         NEW nx2, NEW pv2, NEW O2, NEW f2,
         ReplacedLinks(nx, pv, O, f, nx2, pv2, O2, f2, n, m)
  PROVE  \E W2, B2 : Ranked(nx2, pv2, O2, f2, W2, B2)
<1> DEFINE W2 == [x \in AttrNodes |-> IF x = n THEN W[m] ELSE W[x]]
<1>1. B \in Nat /\ W \in [AttrNodes -> 0..B] /\ O \subseteq AttrNodes /\ m \in AttrNodes /\ n # m
  BY DEF Ranked
<1>2. /\ W2 \in [AttrNodes -> 0..B] /\ W2[n] = W[m]
      /\ \A x \in AttrNodes \ {n} : W2[x] = W[x]
  BY <1>1
<1> HIDE DEF W2
<1>3. /\ nx[m] # NoAttr => nx[m] \in O /\ nx[m] # n /\ W[m] < W[nx[m]]
      /\ pv[m] # NoAttr => pv[m] \in O /\ pv[m] # n /\ W[pv[m]] < W[m]
      /\ nx[n] = NoAttr /\ pv[n] = NoAttr /\ n # NoAttr
  BY <1>1, NoAttrIsNone DEF Ranked
<1>4. nx2 \in [AttrNodes -> AttrPtr] /\ pv2 \in [AttrNodes -> AttrPtr] /\ f2 \in AttrPtr
  BY DEF Ranked, ReplacedLinks, AttrPtr
<1>5. ASSUME NEW x \in AttrNodes, nx2[x] # NoAttr
      PROVE  nx2[x] \in O2 /\ W2[x] < W2[nx2[x]]
  <2>1. CASE x = pv[m]
    <3>1. nx2[x] = n /\ x # NoAttr
      BY <2>1, NoAttrIsNone DEF ReplacedLinks
    <3> QED BY <1>1, <1>2, <1>3, <2>1, <3>1 DEF ReplacedLinks
  <2>2. CASE x # pv[m]
    <3>1. nx2[x] = nx[x]
      BY <2>2 DEF ReplacedLinks
    <3>2. nx[x] \in O /\ W[x] < W[nx[x]] /\ x # n /\ nx[x] # n
      BY <1>3, <1>5, <3>1 DEF Ranked
    <3> QED BY <1>1, <1>2, <3>1, <3>2 DEF ReplacedLinks
  <2> QED BY <2>1, <2>2
<1>6. ASSUME NEW x \in AttrNodes, pv2[x] # NoAttr
      PROVE  pv2[x] \in O2 /\ W2[pv2[x]] < W2[x]
  <2>1. CASE x = nx[m]
    <3>1. pv2[x] = n /\ x # NoAttr
      BY <2>1, NoAttrIsNone DEF ReplacedLinks
    <3> QED BY <1>1, <1>2, <1>3, <2>1, <3>1 DEF ReplacedLinks
  <2>2. CASE x # nx[m]
    <3>1. pv2[x] = pv[x]
      BY <2>2 DEF ReplacedLinks
    <3>2. pv[x] \in O /\ W[pv[x]] < W[x] /\ x # n /\ pv[x] # n
      BY <1>3, <1>6, <3>1 DEF Ranked
    <3> QED BY <1>1, <1>2, <3>1, <3>2 DEF ReplacedLinks
  <2> QED BY <2>1, <2>2
<1>7. ASSUME NEW x \in AttrNodes \ O2
      PROVE  nx2[x] = NoAttr /\ pv2[x] = NoAttr
  <2>1. x # n /\ x \notin O /\ x # nx[m] /\ x # pv[m]
    BY <1>3, NoAttrIsNone DEF ReplacedLinks
  <2> QED BY <2>1 DEF ReplacedLinks, Ranked
<1>8. f2 # NoAttr => f2 \in O2 /\ pv2[f2] = NoAttr
  <2>1. CASE f = m
    BY <1>3, <2>1 DEF ReplacedLinks
  <2>2. CASE f # m
    BY <2>2 DEF ReplacedLinks, Ranked
  <2> QED BY <2>1, <2>2
<1>9. O2 \subseteq AttrNodes
  BY <1>1 DEF ReplacedLinks
<1>10. Ranked(nx2, pv2, O2, f2, W2, B)
  BY <1>1, <1>2, <1>4, <1>5, <1>6, <1>7, <1>8, <1>9 DEF Ranked
<1> QED BY <1>10

LEMMA ReplaceCuts ==
  ASSUME NEW nx, NEW pv, NEW O, NEW f, NEW W, NEW B, NEW s, Ranked(nx, pv, O, f, W, B),
         AttrPath(nx, f, s), ToldOf(pv, s), NamesApart(s),
         NEW n \in AttrNodes, n \notin O, NEW k \in 1..Len(s), AttrName[n] = AttrName[s[k]],
         k = 1 \/ pv[s[k]] = s[k - 1],
         NEW nx2, NEW pv2, NEW O2, NEW f2,
         ReplacedLinks(nx, pv, O, f, nx2, pv2, O2, f2, n, s[k])
  PROVE  \E t : /\ AttrPath(nx2, f2, t) /\ ToldOf(pv2, t) /\ NamesApart(t)
                /\ KeptBefore(t, s, k)
<1>1. s \in Seq(AttrNodes)
  BY DEF AttrPath
<1>2. PICK a : a = SubSeq(s, 1, k - 1)
  OBVIOUS
<1>3. a \in Seq(AttrNodes) /\ Len(a) = k - 1 /\ \A i \in 1..(k - 1) : a[i] = s[i]
  <2>1. 1 \in 1..(Len(s) + 1) /\ k - 1 \in (1 - 1)..Len(s)
    BY <1>1
  <2>2. (k - 1) - 1 + 1 = k - 1 /\ \A i \in 1..(k - 1) : 1 + i - 1 = i
    OBVIOUS
  <2> QED BY <1>1, <1>2, <2>1, <2>2, PartIs
<1>4. PICK t : t = Append(a, n)
  OBVIOUS
<1>5. (k - 1) + 1 = k /\ k > 0 /\ k # 0
  OBVIOUS
<1>6. /\ t \in Seq(AttrNodes) /\ Len(t) = k /\ t[k] = n
      /\ \A i \in 1..(k - 1) : t[i] = s[i]
  BY <1>3, <1>4, <1>5, AppendProperties
<1>7. \A i \in 1..k : i \in 1..Len(s) /\ (i \in 1..(k - 1) \/ i = k)
  BY <1>1
<1>8. \A i \in 1..(k - 1) : i \in 1..k /\ i \in 1..Len(s) /\ i # k
  BY <1>1
<1>9. \A i \in 1..k : s[i] \in O /\ s[i] # n /\ s[i] \in AttrNodes
  <2>1. \A i \in 1..Len(s) : s[i] \in O
    BY ListedOwned
  <2> QED BY <1>7, <2>1 DEF Ranked
<1>10. \A i, j \in 1..k : s[i] = s[j] => i = j
  BY <1>7, NodesApart
<1>11. nx[s[k]] # f /\ \A i \in 1..k : nx[s[k]] # s[i]
  BY BehindIsNext
<1>12. n # NoAttr /\ nx[n] = NoAttr /\ pv[n] = NoAttr /\ n # nx[s[k]] /\ n # pv[s[k]]
  BY <1>5, <1>7, <1>9, NoAttrIsNone DEF Ranked
<1>13. AttrPath(nx2, f2, t)
  <2>1. f2 = t[1]
    <3>1. f = s[1] /\ 1 \in 1..k
      BY <1>1 DEF AttrPath
    <3>2. CASE k = 1
      BY <1>6, <3>1, <3>2 DEF ReplacedLinks
    <3>3. CASE k # 1
      <4>1. 1 \in 1..(k - 1) /\ k \in 1..k
        BY <3>3
      <4>2. f # s[k]
        BY <1>10, <3>1, <3>3, <4>1
      <4> QED BY <1>6, <3>1, <4>1, <4>2 DEF ReplacedLinks
    <3> QED BY <3>2, <3>3
  <2>2. nx2[t[k]] = NoAttr
    BY <1>6, <1>12 DEF ReplacedLinks
  <2>3. ASSUME NEW i \in 1..(k - 1)
        PROVE  nx2[t[i]] = t[i + 1]
    <3>1. /\ k \in 1..k /\ k - 1 \in 1..k /\ k # 1
          /\ i # k - 1 => i + 1 \in 1..(k - 1)
          /\ i = k - 1 => i + 1 = k
      OBVIOUS
    <3>2. pv[s[k]] = s[k - 1] /\ t[i] = s[i] /\ i \in 1..k
      BY <1>6, <1>8, <3>1
    <3>3. CASE i = k - 1
      BY <1>6, <1>9, <3>1, <3>2, <3>3 DEF ReplacedLinks
    <3>4. CASE i # k - 1
      <4>1. s[i] # s[k - 1]
        BY <1>10, <3>1, <3>2, <3>4
      <4>2. nx[s[i]] = s[i + 1]
        <5>1. i \in 1..(Len(s) - 1)
          BY <1>1
        <5> QED BY <5>1 DEF AttrPath
      <4> QED BY <1>6, <1>9, <3>1, <3>2, <3>4, <4>1, <4>2 DEF ReplacedLinks
    <3> QED BY <3>3, <3>4
  <2> QED BY <1>5, <1>6, <2>1, <2>2, <2>3 DEF AttrPath
<1>14. ToldOf(pv2, t)
  <2> SUFFICES ASSUME NEW i \in 1..k, NEW j \in 1..k, pv2[t[i]] = t[j]
               PROVE  i = j + 1
    BY <1>6 DEF ToldOf
  <2>1. t[j] # NoAttr
    BY <1>6, <1>7, <1>9, NoAttrIsNone
  <2>2. i \in 1..(k - 1)
    <3>1. i # k
      BY <1>6, <1>12, <2>1 DEF ReplacedLinks
    <3> QED BY <1>7, <3>1
  <2>3. pv2[t[i]] = pv[s[i]]
    BY <1>6, <1>9, <1>11, <2>2 DEF ReplacedLinks
  <2>4. pv[s[i]] # n
    BY <1>9, <1>12 DEF Ranked
  <2>5. j \in 1..(k - 1)
    BY <1>6, <1>7, <2>3, <2>4
  <2> QED BY <1>6, <1>8, <2>2, <2>3, <2>5, ZenonT(60) DEF ToldOf
<1>15. NamesApart(t)
  <2> SUFFICES ASSUME NEW i \in 1..k, NEW j \in 1..k, AttrName[t[i]] = AttrName[t[j]]
               PROVE  i = j
    BY <1>6 DEF NamesApart
  <2>1. \A h \in 1..k : AttrName[t[h]] = AttrName[s[h]]
    BY <1>6, <1>7
  <2> QED BY <1>7, <2>1 DEF NamesApart
<1>16. KeptBefore(t, s, k)
  <2>1. \A i \in 1..Len(s) : i < k => i \in 1..(k - 1)
    OBVIOUS
  <2> QED BY <1>6, <1>8, <2>1 DEF KeptBefore
<1> QED BY <1>13, <1>14, <1>15, <1>16

LEMMA ReplaceUnheard ==
  ASSUME NEW nx, NEW pv, NEW O, NEW f, NEW W, NEW B, NEW s, Ranked(nx, pv, O, f, W, B),
         AttrPath(nx, f, s), ToldOf(pv, s), NamesApart(s),
         NEW n \in AttrNodes, n \notin O, NEW k \in 1..Len(s),
         k # 1, \A i \in 1..Len(s) : pv[s[k]] # s[i],
         NEW nx2, NEW pv2, NEW O2, NEW f2,
         ReplacedLinks(nx, pv, O, f, nx2, pv2, O2, f2, n, s[k])
  PROVE  AttrPath(nx2, f2, s) /\ ToldOf(pv2, s)
<1>1. s \in Seq(AttrNodes)
  BY DEF AttrPath
<1>2. PICK l \in Nat : l = Len(s)
  BY <1>1
<1>3. \A i \in 1..l : s[i] \in O /\ s[i] # n /\ s[i] \in AttrNodes
  <2>1. \A i \in 1..Len(s) : s[i] \in O
    BY ListedOwned
  <2> QED BY <1>2, <2>1 DEF Ranked
<1>4. f = s[1] /\ f # s[k] /\ 1 \in 1..l
  <2>1. f = s[1] /\ 1 \in 1..l
    BY <1>2 DEF AttrPath
  <2> QED BY <1>2, <2>1, NodesApart
<1>5. f2 = f
  BY <1>4 DEF ReplacedLinks
<1>6. \A i \in 1..l : nx2[s[i]] = nx[s[i]]
  BY <1>2, <1>3 DEF ReplacedLinks
<1>7. ASSUME NEW i \in 1..l, NEW j \in 1..l, pv2[s[i]] = s[j]
      PROVE  i = j + 1
  <2>1. pv2[s[i]] = pv[s[i]]
    BY <1>3, <1>7 DEF ReplacedLinks
  <2> QED BY <1>2, <1>7, <2>1 DEF ToldOf
<1>8. ToldOf(pv2, s)
  BY <1>2, <1>7 DEF ToldOf
<1>9. AttrPath(nx2, f2, s)
  <2>1. l > 0 => l \in 1..l
    BY <1>2
  <2>2. \A i \in 1..(l - 1) : i \in 1..l
    BY <1>2
  <2> QED BY <1>2, <1>5, <1>6, <2>1, <2>2 DEF AttrPath
<1> QED BY <1>8, <1>9

----------------------------------------------------------------------------
\* m leaves, and its neighbours are joined.
RemovedLinks(nx, pv, f, nx2, pv2, f2, m) ==
  /\ nx2 = [x \in AttrNodes |-> IF x = m THEN NoAttr ELSE IF x = pv[m] THEN nx[m] ELSE nx[x]]
  /\ pv2 = [x \in AttrNodes |-> IF x = m THEN NoAttr ELSE IF x = nx[m] THEN pv[m] ELSE pv[x]]
  /\ f2 = IF f = m THEN nx[m] ELSE f

\* t has all of s but what stands at place k.
KeptBut(t, s, k) == \A i \in 1..Len(s) : i # k => \E j \in 1..Len(t) : t[j] = s[i]

LEMMA RemoveRanks ==
  ASSUME NEW nx, NEW pv, NEW O, NEW f, NEW W, NEW B, Ranked(nx, pv, O, f, W, B),
         NEW m \in O, nx[m] # f,
         NEW nx2, NEW pv2, NEW f2, RemovedLinks(nx, pv, f, nx2, pv2, f2, m)
  PROVE  Ranked(nx2, pv2, O, f2, W, B)
<1>1. B \in Nat /\ W \in [AttrNodes -> 0..B] /\ O \subseteq AttrNodes /\ m \in AttrNodes
  BY DEF Ranked
<1>2. /\ nx[m] # NoAttr => nx[m] \in O /\ nx[m] # m /\ W[m] < W[nx[m]]
      /\ pv[m] # NoAttr => pv[m] \in O /\ pv[m] # m /\ W[pv[m]] < W[m]
  BY <1>1, NoAttrIsNone DEF Ranked
<1>3. nx2 \in [AttrNodes -> AttrPtr] /\ pv2 \in [AttrNodes -> AttrPtr] /\ f2 \in AttrPtr
  BY DEF Ranked, RemovedLinks, AttrPtr
<1>4. ASSUME NEW x \in AttrNodes, nx2[x] # NoAttr
      PROVE  nx2[x] \in O /\ W[x] < W[nx2[x]]
  <2>1. x # m
    BY <1>4 DEF RemovedLinks
  <2>2. CASE x = pv[m]
    <3>1. nx2[x] = nx[m] /\ x # NoAttr
      BY <2>1, <2>2, NoAttrIsNone DEF RemovedLinks
    <3>2. W[x] \in Nat /\ W[m] \in Nat /\ nx[m] \in AttrNodes /\ W[nx[m]] \in Nat
      BY <1>1, <1>2, <1>4, <3>1
    <3> QED BY <1>2, <1>4, <2>2, <3>1, <3>2
  <2>3. CASE x # pv[m]
    BY <1>4, <2>1, <2>3 DEF RemovedLinks, Ranked
  <2> QED BY <2>2, <2>3
<1>5. ASSUME NEW x \in AttrNodes, pv2[x] # NoAttr
      PROVE  pv2[x] \in O /\ W[pv2[x]] < W[x]
  <2>1. x # m
    BY <1>5 DEF RemovedLinks
  <2>2. CASE x = nx[m]
    <3>1. pv2[x] = pv[m] /\ x # NoAttr
      BY <2>1, <2>2, NoAttrIsNone DEF RemovedLinks
    <3>2. W[x] \in Nat /\ W[m] \in Nat /\ pv[m] \in AttrNodes /\ W[pv[m]] \in Nat
      BY <1>1, <1>2, <1>5, <3>1
    <3> QED BY <1>2, <1>5, <2>2, <3>1, <3>2
  <2>3. CASE x # nx[m]
    BY <1>5, <2>1, <2>3 DEF RemovedLinks, Ranked
  <2> QED BY <2>2, <2>3
<1>6. ASSUME NEW x \in AttrNodes \ O
      PROVE  nx2[x] = NoAttr /\ pv2[x] = NoAttr
  <2>1. x # m /\ x # nx[m] /\ x # pv[m]
    BY <1>2, NoAttrIsNone
  <2> QED BY <2>1 DEF RemovedLinks, Ranked
<1>7. f2 # NoAttr => f2 \in O /\ pv2[f2] = NoAttr
  <2>1. CASE f = m
    <3>1. f2 = nx[m] /\ pv[m] = NoAttr
      BY <1>1, <2>1, NoAttrIsNone DEF RemovedLinks, Ranked
    <3> QED BY <1>1, <1>2, <3>1 DEF RemovedLinks
  <2>2. CASE f # m
    BY <2>2 DEF RemovedLinks, Ranked
  <2> QED BY <2>1, <2>2
<1> QED BY <1>1, <1>3, <1>4, <1>5, <1>6, <1>7 DEF Ranked

\* What was at place i is now at place i, or i - 1 behind the one removed.
LEMMA RemoveCuts ==
  ASSUME NEW nx, NEW pv, NEW O, NEW f, NEW W, NEW B, NEW s, Ranked(nx, pv, O, f, W, B),
         AttrPath(nx, f, s), ToldOf(pv, s), NamesApart(s), NEW k \in 1..Len(s),
         k = 1 \/ pv[s[k]] = s[k - 1],
         NEW nx2, NEW pv2, NEW f2, RemovedLinks(nx, pv, f, nx2, pv2, f2, s[k])
  PROVE  \E t : /\ AttrPath(nx2, f2, t) /\ ToldOf(pv2, t) /\ NamesApart(t)
                /\ KeptBut(t, s, k)
<1>1. s \in Seq(AttrNodes)
  BY DEF AttrPath
<1>2. PICK n \in Nat : n = Len(s)
  BY <1>1
<1>3. PICK t : t = RemoveAt(s, k)
  OBVIOUS
<1>4. /\ t \in Seq(AttrNodes) /\ Len(t) = n - 1 /\ n - 1 \in Nat
      /\ \A j \in 1..(k - 1) : t[j] = s[j]
      /\ \A j \in k..(n - 1) : t[j] = s[j + 1]
  <2>1. t \in Seq(AttrNodes) /\ Removed(t, s, k)
    BY <1>1, <1>3, RemoveAtIs
  <2>2. n - 1 \in Nat
    BY <1>2
  <2> QED BY <1>2, <2>1, <2>2 DEF Removed
<1>5. PICK m \in AttrNodes : m = s[k]
  BY <1>1
<1>6. \A i \in 1..n : s[i] \in O /\ s[i] \in AttrNodes
  <2>1. \A i \in 1..Len(s) : s[i] \in O
    BY ListedOwned
  <2> QED BY <1>2, <2>1 DEF Ranked
<1>7. \A i, j \in 1..n : s[i] = s[j] => i = j
  BY <1>2, NodesApart
<1>8. k \in 1..n /\ 1 \in 1..n /\ f = s[1] /\ n > 0 /\ nx[s[n]] = NoAttr
  BY <1>2 DEF AttrPath
<1>9. \A i \in 1..(n - 1) : nx[s[i]] = s[i + 1] /\ i + 1 \in 1..n /\ i \in 1..n
  BY <1>2 DEF AttrPath
<1>10. k = 1 => pv[m] = NoAttr
  <2>1. f # NoAttr
    BY <1>6, <1>8, NoAttrIsNone
  <2> QED BY <1>5, <1>8, <2>1 DEF Ranked
<1>11. /\ \A i \in 1..n : s[i] = pv[m] <=> k # 1 /\ i = k - 1
       /\ k # 1 => k - 1 \in 1..n /\ pv[m] = s[k - 1]
  <2>1. k # 1 => k - 1 \in 1..n /\ pv[m] = s[k - 1]
    BY <1>5, <1>8
  <2>2. \A i \in 1..n : s[i] # NoAttr
    BY <1>6, NoAttrIsNone
  <2> QED BY <1>7, <1>10, <2>1, <2>2
<1>12. \A i \in 1..n : s[i] = nx[m] <=> i = k + 1
  <2>1. CASE k = n
    <3>1. \A i \in 1..n : i # k + 1 /\ s[i] # NoAttr
      BY <1>2, <1>6, <2>1, NoAttrIsNone
    <3> QED BY <1>5, <1>8, <2>1, <3>1
  <2>2. CASE k # n
    <3>1. k \in 1..(n - 1)
      BY <1>2, <1>8, <2>2
    <3> QED BY <1>5, <1>7, <1>9, <3>1
  <2> QED BY <2>1, <2>2
<1>13. \A i \in 1..n : i # k => nx2[s[i]] = IF k # 1 /\ i = k - 1 THEN nx[m] ELSE nx[s[i]]
  <2>1. \A i \in 1..n : i # k => s[i] # m
    BY <1>5, <1>7, <1>8
  <2> QED BY <1>5, <1>6, <1>11, <2>1 DEF RemovedLinks
<1>14. \A i \in 1..n : i # k => pv2[s[i]] = IF i = k + 1 THEN pv[m] ELSE pv[s[i]]
  <2>1. \A i \in 1..n : i # k => s[i] # m
    BY <1>5, <1>7, <1>8
  <2> QED BY <1>5, <1>6, <1>12, <2>1 DEF RemovedLinks
<1>15. AttrPath(nx2, f2, t)
  <2>1. n - 1 = 0 => f2 = NoAttr
    <3>1. n - 1 = 0 => k = 1 /\ n = 1
      <4>1. k \in 1..n
        BY <1>8
      <4>2. n \in Nat
        OBVIOUS
      <4> QED BY <4>1, <4>2
    <3> QED BY <1>5, <1>8, <3>1 DEF RemovedLinks
  <2>2. n - 1 > 0 => f2 = t[1]
    <3> SUFFICES ASSUME n - 1 > 0 PROVE f2 = t[1]
      OBVIOUS
    <3>1. CASE k = 1
      <4>1. 1 \in 1..(n - 1) /\ 1 \in k..(n - 1)
        BY <1>2, <3>1
      <4> QED BY <1>4, <1>5, <1>8, <1>9, <3>1, <4>1 DEF RemovedLinks
    <3>2. CASE k # 1
      <4>1. 1 \in 1..(k - 1)
        BY <1>2, <1>8, <3>2
      <4>2. f # m
        BY <1>5, <1>7, <1>8, <3>2
      <4> QED BY <1>4, <1>5, <1>8, <4>1, <4>2 DEF RemovedLinks
    <3> QED BY <3>1, <3>2
  <2>3. n - 1 > 0 => nx2[t[n - 1]] = NoAttr
    <3> SUFFICES ASSUME n - 1 > 0 PROVE nx2[t[n - 1]] = NoAttr
      OBVIOUS
    <3>1. CASE k = n
      <4>1. n - 1 \in 1..(k - 1) /\ n - 1 \in 1..n /\ n - 1 # k /\ k # 1
        BY <1>2, <3>1
      <4> QED BY <1>4, <1>5, <1>8, <1>13, <3>1, <4>1
    <3>2. CASE k # n
      <4>1. n - 1 \in k..(n - 1) /\ (n - 1) + 1 = n /\ n \in 1..n /\ n # k - 1
        BY <1>2, <1>8, <3>2
      <4> QED BY <1>4, <1>8, <1>13, <3>2, <4>1
    <3> QED BY <3>1, <3>2
  <2>4. ASSUME NEW i \in 1..((n - 1) - 1)
        PROVE  nx2[t[i]] = t[i + 1]
    <3>1. CASE i < k - 1
      <4>1. i \in 1..(k - 1) /\ i + 1 \in 1..(k - 1) /\ i \in 1..n /\ i # k /\ i # k - 1 /\ i \in 1..(n - 1)
        BY <1>2, <1>8, <3>1
      <4> QED BY <1>4, <1>9, <1>13, <4>1
    <3>2. CASE i = k - 1
      <4>1. /\ i \in 1..(k - 1) /\ i + 1 \in k..(n - 1) /\ i \in 1..n /\ i # k /\ k # 1
            /\ k \in 1..(n - 1) /\ i + 1 = k
        BY <1>2, <1>8, <3>2
      <4>2. nx2[t[i]] = nx[m]
        BY <1>4, <1>13, <3>2, <4>1
      <4> QED BY <1>4, <1>5, <1>9, <4>1, <4>2
    <3>3. CASE i > k - 1
      <4>1. /\ i \in k..(n - 1) /\ i + 1 \in k..(n - 1) /\ i + 1 \in 1..n /\ i + 1 # k
            /\ i + 1 # k - 1 /\ i + 1 \in 1..(n - 1)
        BY <1>2, <1>8, <3>3
      <4>2. nx2[s[i + 1]] = nx[s[i + 1]]
        BY <1>13, <4>1
      <4> QED BY <1>4, <1>9, <4>1, <4>2
    <3> QED BY <1>2, <1>8, <3>1, <3>2, <3>3
  <2> QED BY <1>4, <2>1, <2>2, <2>3, <2>4 DEF AttrPath
\* The place in s of what is at place i of t.
<1> DEFINE e(i) == IF i < k THEN i ELSE i + 1
<1>16. \A i \in 1..(n - 1) : e(i) \in 1..n /\ e(i) # k /\ t[i] = s[e(i)]
  <2> SUFFICES ASSUME NEW i \in 1..(n - 1) PROVE e(i) \in 1..n /\ e(i) # k /\ t[i] = s[e(i)]
    OBVIOUS
  <2>1. e(i) \in 1..n /\ e(i) # k
    BY <1>2, <1>8
  <2>2. (i < k => i \in 1..(k - 1)) /\ (~(i < k) => i \in k..(n - 1))
    BY <1>2, <1>8
  <2> QED BY <1>4, <2>1, <2>2
<1>17. ASSUME NEW i \in 1..(n - 1), NEW j \in 1..(n - 1)
       PROVE  /\ e(i) = e(j) => i = j
              /\ e(i) = e(j) + 1 => i = j + 1
              /\ e(i) = k + 1 /\ k = e(j) + 1 => i = j + 1
  <2>1. i \in Int /\ j \in Int /\ k \in Int
    BY <1>2, <1>8
  <2> QED BY <2>1
<1>18. ToldOf(pv2, t)
  <2> SUFFICES ASSUME NEW i \in 1..(n - 1), NEW j \in 1..(n - 1), pv2[t[i]] = t[j]
               PROVE  i = j + 1
    BY <1>4 DEF ToldOf
  <2>1. PICK a \in 1..n : a = e(i) /\ a # k /\ t[i] = s[a]
    BY <1>16
  <2>2. PICK b \in 1..n : b = e(j) /\ b # k /\ t[j] = s[b]
    BY <1>16
  <2> HIDE DEF e
  <2>3. CASE a = k + 1
    <3>1. pv[m] = s[b]
      BY <1>14, <2>1, <2>2, <2>3
    <3>2. k = b + 1
      BY <1>2, <1>5, <1>8, <3>1 DEF ToldOf
    <3> QED BY <1>17, <2>1, <2>2, <2>3, <3>2
  <2>4. CASE a # k + 1
    <3>1. pv[s[a]] = s[b]
      BY <1>14, <2>1, <2>2, <2>4
    <3>2. a = b + 1
      BY <1>2, <3>1 DEF ToldOf
    <3> QED BY <1>17, <2>1, <2>2, <3>2
  <2> QED BY <2>3, <2>4
<1>19. NamesApart(t)
  <2> SUFFICES ASSUME NEW i \in 1..(n - 1), NEW j \in 1..(n - 1), AttrName[t[i]] = AttrName[t[j]]
               PROVE  i = j
    BY <1>4 DEF NamesApart
  <2> HIDE DEF e
  <2>1. e(i) = e(j)
    BY <1>2, <1>16 DEF NamesApart
  <2> QED BY <1>17, <2>1
<1>20. KeptBut(t, s, k)
  <2> SUFFICES ASSUME NEW i \in 1..n, i # k PROVE \E j \in 1..(n - 1) : t[j] = s[i]
    BY <1>2, <1>4 DEF KeptBut
  <2>1. CASE i < k
    <3>1. i \in 1..(n - 1) /\ i \in 1..(k - 1)
      BY <1>2, <1>8, <2>1
    <3> QED BY <1>4, <3>1
  <2>2. CASE ~(i < k)
    <3>1. i - 1 \in 1..(n - 1) /\ i - 1 \in k..(n - 1) /\ (i - 1) + 1 = i
      BY <1>2, <1>8, <2>2
    <3> QED BY <1>4, <3>1
  <2> QED BY <2>1, <2>2
<1> QED BY <1>15, <1>18, <1>19, <1>20

LEMMA RemoveUnheard ==
  ASSUME NEW nx, NEW pv, NEW O, NEW f, NEW W, NEW B, NEW s, Ranked(nx, pv, O, f, W, B),
         AttrPath(nx, f, s), ToldOf(pv, s), NamesApart(s), NEW k \in 1..Len(s),
         k # 1, \A i \in 1..Len(s) : pv[s[k]] # s[i],
         NEW nx2, NEW pv2, NEW f2, RemovedLinks(nx, pv, f, nx2, pv2, f2, s[k])
  PROVE  \E t : /\ AttrPath(nx2, f2, t) /\ ToldOf(pv2, t) /\ NamesApart(t)
                /\ KeptBefore(t, s, k + 1)
<1>1. s \in Seq(AttrNodes)
  BY DEF AttrPath
<1>2. PICK t : t = SubSeq(s, 1, k)
  OBVIOUS
<1>3. t \in Seq(AttrNodes) /\ Len(t) = k /\ \A i \in 1..k : t[i] = s[i]
  <2>1. 1 \in 1..(Len(s) + 1) /\ k \in (1 - 1)..Len(s)
    BY <1>1
  <2>2. k - 1 + 1 = k /\ \A i \in 1..k : 1 + i - 1 = i
    OBVIOUS
  <2> QED BY <1>1, <1>2, <2>1, <2>2, PartIs
<1>4. \A i \in 1..k : s[i] \in AttrNodes /\ i \in 1..Len(s)
  BY <1>1
<1>5. \A i, j \in 1..k : s[i] = s[j] => i = j
  BY <1>4, NodesApart
<1>6. f = s[1] /\ 1 \in 1..k /\ k \in 1..k /\ f # s[k]
  <2>1. f = s[1] /\ 1 \in 1..k /\ k \in 1..k
    BY <1>1 DEF AttrPath
  <2> QED BY <1>5, <2>1
<1>7. \A i \in 1..k : nx[s[k]] # s[i]
  BY BehindIsNext
<1>8. nx2[s[k]] = NoAttr /\ pv2[s[k]] = NoAttr /\ f2 = f
  BY <1>4, <1>6 DEF RemovedLinks
<1>9. \A i \in 1..k : i # k => nx2[s[i]] = nx[s[i]] /\ pv2[s[i]] = pv[s[i]]
  <2>1. \A i \in 1..k : i # k => s[i] # s[k] /\ s[i] # pv[s[k]]
    BY <1>4, <1>5, <1>6
  <2> QED BY <1>4, <1>7, <2>1 DEF RemovedLinks
<1>10. AttrPath(nx2, f2, t)
  <2>1. \A i \in 1..(k - 1) : i \in 1..k /\ i # k /\ i + 1 \in 1..k /\ i \in 1..(Len(s) - 1)
    BY <1>1
  <2>2. \A i \in 1..(k - 1) : nx[s[i]] = s[i + 1]
    BY <2>1 DEF AttrPath
  <2>3. k # 0 /\ k > 0
    OBVIOUS
  <2> QED BY <1>3, <1>6, <1>8, <1>9, <2>1, <2>2, <2>3 DEF AttrPath
<1>11. ToldOf(pv2, t)
  <2> SUFFICES ASSUME NEW i \in 1..k, NEW j \in 1..k, pv2[t[i]] = t[j]
               PROVE  i = j + 1
    BY <1>3 DEF ToldOf
  <2>1. i # k
    BY <1>3, <1>4, <1>8, NoAttrIsNone
  <2> QED BY <1>3, <1>4, <1>9, <2>1 DEF ToldOf
<1>12. NamesApart(t)
  BY <1>3, <1>4 DEF NamesApart
<1>13. KeptBefore(t, s, k + 1)
  <2>1. \A i \in 1..Len(s) : i < k + 1 => i \in 1..k
    OBVIOUS
  <2> QED BY <1>3, <2>1 DEF KeptBefore
<1> QED BY <1>10, <1>11, <1>12, <1>13

----------------------------------------------------------------------------
(* The walk itself, which the model defines by recursion: it has a value   *)
(* because it ends, and that value is the s of AttrPath.                   *)

AttrsAt(h, n) ==
  LET At[m \in AttrPtr] == IF m = NoAttr THEN <<>> ELSE <<m>> \o At[h[m].next]
  IN  At[n]

WalksFrom(g, nx) ==
  \A m \in AttrPtr : g[m] = IF m = NoAttr THEN <<>> ELSE <<m>> \o g[nx[m]]

LEMMA WalkEndsSomewhere ==
  ASSUME NEW nx, NEW pv, NEW O, NEW f, NEW W, NEW B, Ranked(nx, pv, O, f, W, B)
  PROVE  \E g \in [AttrPtr -> Seq(AttrNodes)] : WalksFrom(g, nx)
<1> DEFINE N == B + 2
           S == [AttrPtr -> Seq(AttrNodes)]
           none == [m \in AttrPtr |-> <<>>]
           further(g) == [m \in AttrPtr |-> IF m = NoAttr THEN <<>> ELSE <<m>> \o g[nx[m]]]
           step == [i \in 1..N |-> [g \in S |-> further(g)]]
<1>1. /\ B \in Nat /\ W \in [AttrNodes -> 0..B] /\ N \in Nat
      /\ \A m \in AttrNodes : nx[m] \in AttrPtr /\ (nx[m] # NoAttr => nx[m] \in AttrNodes /\ W[m] < W[nx[m]])
  BY DEF Ranked, AttrPtr
<1>2. none \in S
  OBVIOUS
<1>3. ASSUME NEW g \in S
      PROVE  further(g) \in S
  <2>1. ASSUME NEW m \in AttrPtr, m # NoAttr
        PROVE  <<m>> \o g[nx[m]] \in Seq(AttrNodes)
    <3>1. m \in AttrNodes
      BY <2>1 DEF AttrPtr
    <3>2. <<m>> \in Seq(AttrNodes) /\ g[nx[m]] \in Seq(AttrNodes)
      BY <1>1, <3>1
    <3> QED BY <3>2, ConcatIs
  <2> QED BY <2>1
<1>4. step \in [1..N -> [S -> S]] /\ \A i \in 1..N : \A g \in S : step[i][g] = further(g)
  <2> HIDE DEF S, further, N
  <2> QED BY <1>3
<1>5. PICK F : Recursed(F, N, S, none, step)
  <2> HIDE DEF S, step, none, N
  <2> QED BY <1>1, <1>2, <1>4, Recursion
<1>6. F \in [0..N -> S] /\ F[0] = none /\ \A i \in 1..N : F[i] = further(F[i - 1])
  <2> HIDE DEF S, step, none, further, N
  <2>1. F \in [0..N -> S] /\ F[0] = none /\ \A i \in 1..N : F[i] = step[i][F[i - 1]]
    BY <1>5 DEF Recursed
  <2>2. \A i \in 1..N : i - 1 \in 0..N
    BY <1>1
  <2> QED BY <1>4, <2>1, <2>2
<1> HIDE DEF step
<1>7. /\ \A i \in 0..N : F[i][NoAttr] = <<>>
      /\ \A i \in 1..N : \A m \in AttrNodes : F[i][m] = <<m>> \o F[i - 1][nx[m]]
  <2>1. \A i \in 1..N : \A m \in AttrPtr :
          F[i][m] = IF m = NoAttr THEN <<>> ELSE <<m>> \o F[i - 1][nx[m]]
    BY <1>6, ZenonT(60)
  <2>2. NoAttr \in AttrPtr /\ \A m \in AttrNodes : m \in AttrPtr /\ m # NoAttr
    BY NoAttrIsNone DEF AttrPtr
  <2>3. F[0][NoAttr] = <<>>
    BY <1>6, <2>2
  <2>4. \A i \in 0..N : i = 0 \/ i \in 1..N
    BY <1>1
  <2> QED BY <2>1, <2>2, <2>3, <2>4
<1> DEFINE Good == {i \in 0..(B + 1) : \A m \in AttrNodes : W[m] > B - i => F[i][m] = F[i + 1][m]}
<1>8. 0 \in Good
  <2>1. \A m \in AttrNodes : ~(W[m] > B - 0)
    BY <1>1
  <2> QED BY <1>1, <2>1
<1>9. ASSUME NEW i \in 1..(B + 1), i - 1 \in Good
      PROVE  i \in Good
  <2> SUFFICES ASSUME NEW m \in AttrNodes, W[m] > B - i
               PROVE  F[i][m] = F[i + 1][m]
    BY <1>1
  <2>1. i \in 1..N /\ i + 1 \in 1..N /\ (i + 1) - 1 = i /\ i - 1 \in 0..N /\ i \in 0..N
    BY <1>1
  <2>2. F[i][m] = <<m>> \o F[i - 1][nx[m]] /\ F[i + 1][m] = <<m>> \o F[i][nx[m]]
    BY <1>7, <2>1
  <2>3. CASE nx[m] = NoAttr
    BY <1>7, <2>1, <2>2, <2>3
  <2>4. CASE nx[m] # NoAttr
    <3>1. nx[m] \in AttrNodes /\ W[m] < W[nx[m]]
      BY <1>1, <2>4
    <3>2. W[m] \in Nat /\ W[nx[m]] \in Nat
      BY <1>1, <3>1
    <3>3. W[nx[m]] > B - (i - 1)
      BY <1>1, <3>1, <3>2
    <3>4. F[i - 1][nx[m]] = F[(i - 1) + 1][nx[m]] /\ (i - 1) + 1 = i
      BY <1>9, <3>1, <3>3
    <3> QED BY <2>2, <3>4
  <2> QED BY <2>3, <2>4
<1>10. B + 1 \in Good
  <2> HIDE DEF Good
  <2>1. \A i \in 0..(B + 1) : i \in Good
    BY <1>1, <1>8, <1>9, UpTo
  <2> QED BY <1>1, <2>1
<1>11. \A m \in AttrNodes : F[B + 1][m] = <<m>> \o F[B + 1][nx[m]]
  <2>1. \A m \in AttrNodes : W[m] > B - (B + 1)
    BY <1>1
  <2>2. (B + 1) + 1 = N /\ N - 1 = B + 1 /\ N \in 1..N
    BY <1>1
  <2> QED BY <1>7, <1>10, <2>1, <2>2
<1>12. F[B + 1] \in S /\ B + 1 \in 0..N
  <2>1. B + 1 \in 0..N
    BY <1>1
  <2> HIDE DEF S, N, further, none
  <2> QED BY <1>6, <2>1
<1>13. WalksFrom(F[B + 1], nx)
  <2>1. \A m \in AttrPtr : m # NoAttr => m \in AttrNodes
    BY DEF AttrPtr
  <2> QED BY <1>7, <1>11, <1>12, <2>1 DEF WalksFrom
<1> QED BY <1>12, <1>13

LEMMA WalkIsPath ==
  ASSUME NEW nx, NEW pv, NEW O, NEW f, NEW W, NEW B, NEW s, Ranked(nx, pv, O, f, W, B),
         AttrPath(nx, f, s), NEW g, WalksFrom(g, nx)
  PROVE  g[f] = s
<1>1. s \in Seq(AttrNodes)
  BY DEF AttrPath
<1>2. PICK l \in Nat : l = Len(s)
  BY <1>1
<1>3. \A i \in 1..l : s[i] \in AttrNodes /\ s[i] \in AttrPtr /\ s[i] # NoAttr
  BY <1>1, <1>2, NoAttrIsNone DEF AttrPtr
<1>4. g[NoAttr] = <<>> /\ \A i \in 1..l : g[s[i]] = <<s[i]>> \o g[nx[s[i]]]
  <2>1. NoAttr \in AttrPtr
    BY DEF AttrPtr
  <2> QED BY <1>3, <2>1 DEF WalksFrom
<1>5. \A i \in 1..l : nx[s[i]] = IF i = l THEN NoAttr ELSE s[i + 1]
  <2>1. \A i \in 1..l : i # l => i \in 1..(l - 1)
    BY <1>2
  <2> QED BY <1>2, <2>1 DEF AttrPath
<1> DEFINE IsEnd(t, i) == /\ t \in Seq(AttrNodes) /\ Len(t) = i
                          /\ \A j \in 1..i : t[j] = s[(l - i) + j]
           Rest(i) == IF i = 0 THEN g[NoAttr] ELSE g[s[(l - i) + 1]]
           Good == {i \in 0..l : IsEnd(Rest(i), i)}
<1>6. 0 \in Good
  <2>1. <<>> \in Seq(AttrNodes) /\ Len(<<>>) = 0 /\ \A j \in 1..0 : FALSE
    OBVIOUS
  <2> QED BY <1>2, <1>4, <2>1
<1>7. ASSUME NEW i \in 1..l, i - 1 \in Good
      PROVE  i \in Good
  <2>1. PICK t : t = Rest(i - 1)
    OBVIOUS
  <2>2. IsEnd(t, i - 1)
    BY <1>7, <2>1
  <2>3. PICK k \in 1..l : k = (l - i) + 1
    BY <1>2
  <2>4. Rest(i) = <<s[k]>> \o t
    <3>1. CASE i = 1
      <4>1. k = l /\ i # 0 /\ i - 1 = 0 /\ (l - i) + 1 = k
        BY <1>2, <2>3, <3>1
      <4>2. g[s[k]] = <<s[k]>> \o g[NoAttr]
        BY <1>4, <1>5, <4>1
      <4>3. t = g[NoAttr]
        BY <2>1, <4>1
      <4>4. Rest(i) = g[s[k]]
        BY <4>1
      <4> HIDE DEF Rest
      <4> QED BY <4>2, <4>3, <4>4
    <3>2. CASE i # 1
      <4>1. k # l /\ k + 1 = (l - (i - 1)) + 1 /\ i - 1 # 0 /\ i # 0
        BY <1>2, <2>3, <3>2
      <4> QED BY <1>4, <1>5, <2>1, <2>3, <4>1
    <3> QED BY <3>1, <3>2
  <2>5. PICK d : d = <<s[k]>>
    OBVIOUS
  <2>6. d \in Seq(AttrNodes) /\ Len(d) = 1 /\ d[1] = s[k] /\ t \in Seq(AttrNodes)
    BY <1>3, <2>2, <2>5
  <2>7. PICK r : r = d \o t
    OBVIOUS
  <2>8. /\ r \in Seq(AttrNodes) /\ Len(r) = 1 + (i - 1) /\ r[1] = s[k]
        /\ \A j \in 1..(i - 1) : r[1 + j] = t[j]
    <3>1. /\ d \o t \in Seq(AttrNodes) /\ Len(d \o t) = Len(d) + Len(t)
          /\ \A j \in 1..Len(d) : (d \o t)[j] = d[j]
          /\ \A j \in 1..Len(t) : (d \o t)[Len(d) + j] = t[j]
      <4>1. d \in Seq(AttrNodes) /\ t \in Seq(AttrNodes)
        BY <2>6
      <4> QED BY <4>1, ConcatIs
    <3>2. 1 \in 1..1
      OBVIOUS
    <3> QED BY <2>2, <2>6, <2>7, <3>1, <3>2
  <2>9. ASSUME NEW j \in 1..i
        PROVE  r[j] = s[(l - i) + j]
    <3>1. CASE j = 1
      BY <2>3, <2>8, <3>1
    <3>2. CASE j # 1
      <4>1. PICK c \in 1..(i - 1) : c = j - 1
        BY <3>2
      <4>2. 1 + c = j /\ (l - (i - 1)) + c = (l - i) + j
        BY <1>2, <4>1
      <4> QED BY <2>2, <2>8, <4>1, <4>2
    <3> QED BY <3>1, <3>2
  <2>10. 1 + (i - 1) = i /\ i \in 0..l
    BY <1>2
  <2> QED BY <2>4, <2>5, <2>7, <2>8, <2>9, <2>10
<1>8. l \in Good
  <2> HIDE DEF Good
  <2>1. \A i \in 0..l : i \in Good
    BY <1>2, <1>6, <1>7, UpTo
  <2> QED BY <1>2, <2>1
<1>9. Rest(l) = g[f]
  <2>1. CASE l = 0
    BY <1>2, <2>1 DEF AttrPath
  <2>2. CASE l # 0
    <3>1. f = s[1] /\ (l - l) + 1 = 1
      BY <1>2, <2>2 DEF AttrPath
    <3> QED BY <2>2, <3>1
  <2> QED BY <2>1, <2>2
<1>10. IsEnd(g[f], l)
  BY <1>8, <1>9
<1>11. \A j \in 1..l : (l - l) + j = j
  BY <1>2
<1> QED BY <1>1, <1>2, <1>10, <1>11, SeqEqual

LEMMA AttrsAtIs ==
  ASSUME NEW h, NEW pv, NEW O, NEW f, NEW W, NEW B, NEW s, Ranked(NextOf(h), pv, O, f, W, B),
         AttrPath(NextOf(h), f, s)
  PROVE  AttrsAt(h, f) = s
<1> DEFINE Eq(g) == g = [m \in AttrPtr |-> IF m = NoAttr THEN <<>> ELSE <<m>> \o g[h[m].next]]
           F == CHOOSE g : Eq(g)
<1>1. AttrsAt(h, f) = F[f]
  BY DEF AttrsAt
<1>2. PICK nx : nx = NextOf(h)
  OBVIOUS
<1>3. \A m \in AttrNodes : nx[m] = h[m].next
  BY <1>2 DEF NextOf
<1>4. PICK g \in [AttrPtr -> Seq(AttrNodes)] : WalksFrom(g, nx)
  BY <1>2, WalkEndsSomewhere
<1>5. \A m \in AttrPtr : m # NoAttr => nx[m] = h[m].next
  BY <1>3 DEF AttrPtr
<1>6. Eq(g)
  <2>1. \A m \in AttrPtr : g[m] = IF m = NoAttr THEN <<>> ELSE <<m>> \o g[h[m].next]
    BY <1>4, <1>5 DEF WalksFrom
  <2>2. g = [m \in AttrPtr |-> g[m]]
    OBVIOUS
  <2> QED BY <2>1, <2>2, Zenon
<1>7. Eq(F)
  <2> HIDE DEF Eq
  <2> QED BY <1>6, Zenon
<1>8. \A m \in AttrPtr : F[m] = IF m = NoAttr THEN <<>> ELSE <<m>> \o F[h[m].next]
  <2>1. F = [m \in AttrPtr |-> IF m = NoAttr THEN <<>> ELSE <<m>> \o F[h[m].next]]
    BY <1>7, Zenon
  <2> HIDE DEF F
  <2> QED BY <2>1, Zenon
<1> HIDE DEF F, Eq
<1>9. WalksFrom(F, nx)
  BY <1>5, <1>8 DEF WalksFrom
<1>10. F[f] = s
  BY <1>2, <1>9, WalkIsPath
<1> QED BY <1>1, <1>10

----------------------------------------------------------------------------
\* What every call leaves of the nodes h and the list s that starts at f.
AttrShape(h, f, s) ==
  /\ h \in [AttrNodes -> AttrRec]
  /\ \E W, B : Ranked(NextOf(h), PrevOf(h), OwnedIn(h), f, W, B)
  /\ AttrPath(NextOf(h), f, s) /\ ToldOf(PrevOf(h), s) /\ NamesApart(s)

Placed(s) == {s[i] : i \in 1..Len(s)}

LEMMA ShapeLists ==
  ASSUME NEW h, NEW f, NEW s, AttrShape(h, f, s)
  PROVE  AttrsAt(h, f) = s /\ s \in Seq(AttrNodes) /\ Range(AttrsAt(h, f)) = Placed(s)
<1>1. s \in Seq(AttrNodes)
  BY DEF AttrShape, AttrPath
<1>2. AttrsAt(h, f) = s
  BY AttrsAtIs DEF AttrShape
<1>3. Range(s) = Placed(s)
  <2>1. DOMAIN s = 1..Len(s)
    BY <1>1
  <2> QED BY <2>1 DEF Range, Placed
<1> QED BY <1>1, <1>2, <1>3

LEMMA FirstPlace ==
  ASSUME NEW N \in Nat, NEW I, I \subseteq 1..N, NEW i, i = (IF I # {} THEN Min(I) ELSE 0)
  PROVE  (i = 0 /\ I = {}) \/ i \in I
<1>1. CASE I = {}
  BY <1>1
<1>2. CASE I # {}
  <2>1. I \subseteq Nat
    OBVIOUS
  <2>2. \E x \in I : \A y \in I : x <= y
    BY <1>2, <2>1, LeastNatural
  <2>3. Min(I) \in I
    BY <2>2 DEF Min
  <2> QED BY <1>2, <2>3
<1> QED BY <1>1, <1>2

NameIn(t, name) == SelectInSeq(t, LAMBDA m : AttrName[m] = name)
LocalIn(t, local) == SelectInSeq(t, LAMBDA m : AttrLocal[m] \in {local, NoName})

LEMMA NameInIs ==
  ASSUME NEW t \in Seq(AttrNodes), NEW name, NEW i, i = NameIn(t, name)
  PROVE  \/ i = 0 /\ \A j \in 1..Len(t) : AttrName[t[j]] # name
         \/ i \in 1..Len(t) /\ AttrName[t[i]] = name
<1>1. PICK I : I = {j \in 1..Len(t) : AttrName[t[j]] = name}
  OBVIOUS
<1>2. i = IF I # {} THEN Min(I) ELSE 0
  BY <1>1 DEF NameIn, SelectInSeq
<1>3. Len(t) \in Nat /\ I \subseteq 1..Len(t)
  BY <1>1
<1>4. (i = 0 /\ I = {}) \/ i \in I
  BY <1>2, <1>3, FirstPlace
<1> QED BY <1>1, <1>4

LEMMA LocalInIs ==
  ASSUME NEW t \in Seq(AttrNodes), NEW local, NEW i, i = LocalIn(t, local)
  PROVE  \/ i = 0 /\ \A j \in 1..Len(t) : AttrLocal[t[j]] \notin {local, NoName}
         \/ i \in 1..Len(t)
<1>1. PICK I : I = {j \in 1..Len(t) : AttrLocal[t[j]] \in {local, NoName}}
  OBVIOUS
<1>2. i = IF I # {} THEN Min(I) ELSE 0
  BY <1>1 DEF LocalIn, SelectInSeq
<1>3. Len(t) \in Nat /\ I \subseteq 1..Len(t)
  BY <1>1
<1>4. (i = 0 /\ I = {}) \/ i \in I
  BY <1>2, <1>3, FirstPlace
<1> QED BY <1>1, <1>4

\* What the element finds, by name and by local name.
LEMMA FoundByName ==
  ASSUME NEW s \in Seq(AttrNodes), AttrList = s, NEW name, NEW m,
         m = XmlElementGetAttributeNode(name)
  PROVE  \/ m = NoAttr /\ \A j \in 1..Len(s) : AttrName[s[j]] # name
         \/ \E k \in 1..Len(s) : m = s[k] /\ AttrName[s[k]] = name
<1>1. PICK i : i = NameIn(s, name)
  OBVIOUS
<1>2. m = IF i = 0 THEN NoAttr ELSE s[i]
  BY <1>1 DEF XmlElementGetAttributeNode, NameIn
<1>3. \/ i = 0 /\ \A j \in 1..Len(s) : AttrName[s[j]] # name
      \/ i \in 1..Len(s) /\ AttrName[s[i]] = name
  BY <1>1, NameInIs
<1>4. \A j \in 1..Len(s) : j # 0
  OBVIOUS
<1> QED BY <1>2, <1>3, <1>4

LEMMA FoundByLocal ==
  ASSUME NEW s \in Seq(AttrNodes), AttrList = s, NEW local, NEW m,
         m = XmlElementGetAttributeNodeNS(local)
  PROVE  \/ m = NoAttr /\ \A j \in 1..Len(s) : AttrLocal[s[j]] \notin {local, NoName}
         \/ m = -1 /\ \E k \in 1..Len(s) : AttrLocal[s[k]] = NoName
         \/ \E k \in 1..Len(s) : m = s[k]
<1>1. PICK i : i = LocalIn(s, local)
  OBVIOUS
<1>2. m = IF i = 0 THEN NoAttr ELSE IF AttrLocal[s[i]] = NoName THEN -1 ELSE s[i]
  BY <1>1 DEF XmlElementGetAttributeNodeNS, LocalIn
<1>3. \/ i = 0 /\ \A j \in 1..Len(s) : AttrLocal[s[j]] \notin {local, NoName}
      \/ i \in 1..Len(s)
  BY <1>1, LocalInIs
<1>4. \A j \in 1..Len(s) : j # 0
  OBVIOUS
<1> QED BY <1>2, <1>3, <1>4

----------------------------------------------------------------------------
\* The map: its first entry is the first attribute.
LEMMA MapStartsAtFirst ==
  ASSUME NEW s \in Seq(AttrNodes), AttrList = s
  PROVE  XmlNodeGetAttributes = IF s = <<>> THEN NoAttr ELSE s[1]
<1> DEFINE N == Len(s)
           S == Seq(AttrPtr)
           Joins(i, c) == XmlNamedNodeMapAddToNamedNodeMap(c, s[i])
           step == [i \in 1..N |-> [c \in S |-> Joins(i, c)]]
           Eq(f) == f = [i \in 0..N |-> IF i = 0 THEN <<NoAttr>> ELSE Joins(i, f[i - 1])]
           F == CHOOSE f : Eq(f)
<1>1. N \in Nat /\ N \in 0..N /\ 0 \in 0..N /\ \A i \in 1..N : s[i] \in AttrNodes
  OBVIOUS
<1>2. XmlNodeGetAttributes = Head(F[N])
  BY DEF XmlNodeGetAttributes
<1>3. <<NoAttr>> \in S
  BY DEF AttrPtr
<1>4. ASSUME NEW i \in 1..N, NEW c \in S
      PROVE  Joins(i, c) \in S
  <2>1. s[i] \in AttrPtr
    BY <1>1 DEF AttrPtr
  <2> QED BY <2>1 DEF XmlNamedNodeMapAddToNamedNodeMap
<1> HIDE DEF N, S, Joins
<1>5. step \in [1..N -> [S -> S]]
  BY <1>4
<1>6. \A i \in 1..N : \A c \in S : step[i][c] = Joins(i, c)
  BY <1>4
<1> HIDE DEF step
<1>7. PICK f : Recursed(f, N, S, <<NoAttr>>, step)
  BY <1>1, <1>3, <1>5, Recursion
<1>8. f \in [0..N -> S] /\ f[0] = <<NoAttr>> /\ \A i \in 1..N : f[i] = Joins(i, f[i - 1])
  <2>1. f \in [0..N -> S] /\ f[0] = <<NoAttr>> /\ \A i \in 1..N : f[i] = step[i][f[i - 1]]
    BY <1>7 DEF Recursed
  <2>2. \A i \in 1..N : i - 1 \in 0..N
    BY <1>1
  <2> QED BY <1>6, <2>1, <2>2
<1>9. Eq(f)
  <2>1. \A i \in 0..N : i # 0 => i \in 1..N
    BY <1>1
  <2>2. \A i \in 0..N : f[i] = IF i = 0 THEN <<NoAttr>> ELSE Joins(i, f[i - 1])
    BY <1>8, <2>1
  <2>3. f = [i \in 0..N |-> f[i]]
    BY <1>8
  <2> QED BY <2>2, <2>3, Zenon
<1>10. Eq(F)
  <2> HIDE DEF Eq
  <2> QED BY <1>9, Zenon
<1>11. \A i \in 0..N : F[i] = IF i = 0 THEN <<NoAttr>> ELSE Joins(i, F[i - 1])
  <2>1. F = [i \in 0..N |-> IF i = 0 THEN <<NoAttr>> ELSE Joins(i, F[i - 1])]
    BY <1>10, Zenon
  <2> HIDE DEF F
  <2> QED BY <2>1, Zenon
<1> HIDE DEF F, Eq
<1> DEFINE BeginsAt(t, i) == IF i = 0 THEN t = <<NoAttr>>
                             ELSE t \in Seq(AttrNodes) /\ Len(t) > 0 /\ t[1] = s[1]
           Good == {i \in 0..N : BeginsAt(F[i], i)}
<1>12. 0 \in Good
  BY <1>1, <1>11
<1>13. ASSUME NEW i \in 1..N, i - 1 \in Good
       PROVE  i \in Good
  <2>1. i \in 0..N /\ i # 0 /\ s[i] \in AttrNodes
    BY <1>1
  <2>2. PICK t : t = F[i - 1]
    OBVIOUS
  <2>3. PICK r : r = F[i]
    OBVIOUS
  <2>4. r = IF t = <<NoAttr>> THEN <<s[i]>> ELSE Append(t, s[i])
    BY <1>11, <2>1, <2>2, <2>3 DEF Joins, XmlNamedNodeMapAddToNamedNodeMap
  <2>5. BeginsAt(t, i - 1)
    BY <1>13, <2>2
  <2>6. BeginsAt(r, i)
    <3>1. CASE i = 1
      BY <2>1, <2>4, <2>5, <3>1
    <3>2. CASE i # 1
      <4>1. i - 1 # 0
        BY <1>1, <3>2
      <4>2. t \in Seq(AttrNodes) /\ Len(t) > 0 /\ t[1] = s[1]
        BY <2>5, <4>1
      <4>3. t # <<NoAttr>>
        <5>1. t[1] \in AttrNodes
          BY <4>2
        <5>2. <<NoAttr>>[1] = NoAttr
          OBVIOUS
        <5> QED BY <5>1, <5>2, NoAttrIsNone
      <4>4. r = Append(t, s[i])
        BY <2>4, <4>3
      <4>5. r \in Seq(AttrNodes) /\ Len(r) = Len(t) + 1 /\ r[1] = t[1]
        BY <2>1, <4>2, <4>4, AppendProperties
      <4> QED BY <2>1, <4>2, <4>5
    <3> QED BY <3>1, <3>2
  <2> QED BY <2>1, <2>3, <2>6
<1>14. N \in Good
  <2> HIDE DEF Good
  <2>1. \A i \in 0..N : i \in Good
    BY <1>1, <1>12, <1>13, UpTo
  <2> QED BY <1>1, <2>1
<1>15. BeginsAt(F[N], N)
  BY <1>14
<1>16. CASE N = 0
  <2>1. s = <<>> /\ F[N] = <<NoAttr>>
    BY <1>15, <1>16 DEF N
  <2> QED BY <1>2, <2>1
<1>17. CASE N # 0
  <2>1. s # <<>>
    BY <1>17 DEF N
  <2>2. F[N] \in Seq(AttrNodes) /\ Len(F[N]) > 0 /\ F[N][1] = s[1]
    BY <1>15, <1>17
  <2>3. Head(F[N]) = F[N][1]
    BY <2>2
  <2> QED BY <1>2, <2>1, <2>2, <2>3
<1> QED BY <1>16, <1>17

\* Every call that reads the map walks from the first attribute: it sees the list.
LEMMA MapShowsAll ==
  ASSUME NEW s, AttrShape(attr, firstAttr, s)
  PROVE  MapShowsList
<1>1. AttrList = s /\ s \in Seq(AttrNodes) /\ AttrsFrom(firstAttr) = s
  <2>1. AttrList = AttrsAt(attr, firstAttr) /\ AttrsFrom(firstAttr) = AttrsAt(attr, firstAttr)
    BY DEF AttrList, AttrsFrom, AttrsAt
  <2> QED BY <2>1, ShapeLists
<1>2. PICK map : map = XmlNodeGetAttributes
  OBVIOUS
<1>3. PICK n \in Nat : n = Len(s)
  BY <1>1
<1>4. map = firstAttr
  <2>1. map = IF s = <<>> THEN NoAttr ELSE s[1]
    BY <1>1, <1>2, MapStartsAtFirst
  <2>2. s = <<>> <=> Len(s) = 0
    BY <1>1
  <2>3. Len(s) # 0 => Len(s) > 0
    BY <1>1
  <2> QED BY <2>1, <2>2, <2>3 DEF AttrShape, AttrPath
<1>5. AttrsFrom(map) = s
  BY <1>1, <1>4
<1>6. XmlNamedNodeMapGetLength(map) = n
  BY <1>3, <1>5 DEF XmlNamedNodeMapGetLength
<1>7. \A i \in 1..n : XmlNamedNodeMapItem(map, i - 1) = s[i]
  <2> SUFFICES ASSUME NEW i \in 1..n PROVE XmlNamedNodeMapItem(map, i - 1) = s[i]
    OBVIOUS
  <2>1. i - 1 < n /\ (i - 1) + 1 = i
    BY <1>3
  <2> QED BY <1>5, <1>6, <2>1 DEF XmlNamedNodeMapItem
<1>8. ASSUME NEW x \in AttrNodes
      PROVE  XmlNamedNodeMapGetNamedItem(map, AttrName[x]) = XmlElementGetAttributeNode(AttrName[x])
  <2>1. PICK i : i = NameIn(s, AttrName[x])
    OBVIOUS
  <2>2. i = 0 \/ i \in 1..n
    BY <1>1, <1>3, <2>1, NameInIs
  <2>3. XmlNamedNodeMapGetItemNumber(map, AttrName[x]) = i - 1
    BY <1>5, <2>1 DEF XmlNamedNodeMapGetItemNumber, NameIn
  <2>4. XmlElementGetAttributeNode(AttrName[x]) = IF i = 0 THEN NoAttr ELSE s[i]
    BY <1>1, <2>1 DEF XmlElementGetAttributeNode, NameIn
  <2>5. i - 1 = -1 <=> i = 0
    BY <2>2
  <2>6. XmlNamedNodeMapGetNamedItem(map, AttrName[x])
          = IF i - 1 = -1 THEN NoAttr ELSE XmlNamedNodeMapItem(map, i - 1)
    BY <2>3 DEF XmlNamedNodeMapGetNamedItem
  <2> QED BY <1>7, <2>2, <2>4, <2>5, <2>6
<1> QED BY <1>1, <1>2, <1>3, <1>6, <1>7, <1>8 DEF MapShowsList

----------------------------------------------------------------------------
(* What the four ways to change the nodes do to their links.               *)

SameValues(g, h) == \A x \in AttrNodes : g[x].val = h[x].val

LastOr(s) == IF s = <<>> THEN NoAttr ELSE Last(s)

\* A node with new pointers, and one that is owned from now on.
Relink(r, a, b) == [r EXCEPT !.prev = b, !.next = a]
TakeIn(r, a, b) == [r EXCEPT !.owned = TRUE, !.prev = b, !.next = a]

HasLinks(q, r, a, b) ==
  q \in AttrRec /\ q.next = a /\ q.prev = b /\ q.owned = r.owned /\ q.val = r.val
HasLinksOwned(q, r, a, b) ==
  q \in AttrRec /\ q.next = a /\ q.prev = b /\ q.owned = TRUE /\ q.val = r.val

LEMMA Relinked ==
  ASSUME NEW r \in AttrRec, NEW a \in AttrPtr, NEW b \in AttrPtr, NEW q, q = Relink(r, a, b)
  PROVE  HasLinks(q, r, a, b)
BY Zenon DEF AttrRec, Relink, HasLinks

LEMMA TakenIn ==
  ASSUME NEW r \in AttrRec, NEW a \in AttrPtr, NEW b \in AttrPtr, NEW q, q = TakeIn(r, a, b)
  PROVE  HasLinksOwned(q, r, a, b)
BY Zenon DEF AttrRec, TakeIn, HasLinksOwned

LEMMA PointersOf ==
  ASSUME NEW r \in AttrRec
  PROVE  r.next \in AttrPtr /\ r.prev \in AttrPtr
BY DEF AttrRec

AppendTold(h, n) == AppendAttr(h, n, TRUE)
AppendUntold(h, n) == AppendAttr(h, n, FALSE)

\* The nodes g are h with n hung behind the last of AttrList, and told of it.
LEMMA AppendGives ==
  ASSUME NEW h \in [AttrNodes -> AttrRec], NEW n \in AttrNodes, NEW l \in AttrPtr, l = LastOr(AttrList),
         NEW g, g = AppendTold(h, n)
  PROVE  /\ g \in [AttrNodes -> AttrRec] /\ SameValues(g, h)
         /\ NextOf(g) = [x \in AttrNodes |-> IF x = l THEN n ELSE NextOf(h)[x]]
         /\ PrevOf(g) = [x \in AttrNodes |-> IF x = n THEN l ELSE PrevOf(h)[x]]
         /\ OwnedIn(g) = OwnedIn(h) \cup {n}
<1>1. g = [x \in AttrNodes |->
             [h[x] EXCEPT !.owned = IF x = n THEN TRUE ELSE @,
                          !.prev  = IF x = n /\ TRUE THEN l ELSE @,
                          !.next  = IF x = l THEN n ELSE @]]
  BY DEF AppendTold, AppendAttr, LastOr
<1>2. ASSUME NEW x \in AttrNodes
      PROVE  /\ g[x] \in AttrRec /\ g[x].val = h[x].val
             /\ g[x].next = IF x = l THEN n ELSE h[x].next
             /\ g[x].prev = IF x = n THEN l ELSE h[x].prev
             /\ x = n => g[x].owned = TRUE
             /\ x # n => g[x].owned = h[x].owned
  <2>1. PICK r \in AttrRec : r = h[x]
    OBVIOUS
  <2>2. PICK q : q = g[x]
    OBVIOUS
  <2>3. CASE x = n
    <3>1. PICK a \in AttrPtr : a = IF x = l THEN n ELSE r.next
      BY PointersOf DEF AttrPtr
    <3>2. q = TakeIn(r, a, l)
      BY <1>1, <2>1, <2>2, <2>3, <3>1 DEF TakeIn
    <3>3. HasLinksOwned(q, r, a, l)
      BY <3>2, TakenIn
    <3> QED BY <2>1, <2>2, <2>3, <3>1, <3>3 DEF HasLinksOwned
  <2>4. CASE x # n
    <3>1. PICK a \in AttrPtr : a = IF x = l THEN n ELSE r.next
      BY PointersOf DEF AttrPtr
    <3>2. q = [r EXCEPT !.owned = @, !.prev = @, !.next = a]
      BY <1>1, <2>1, <2>2, <2>4, <3>1
    <3>3. q = Relink(r, a, r.prev)
      BY <3>2 DEF Relink
    <3>4. r.prev \in AttrPtr
      BY PointersOf
    <3>5. HasLinks(q, r, a, r.prev)
      BY <3>3, <3>4, Relinked
    <3> QED BY <2>1, <2>2, <2>4, <3>1, <3>5 DEF HasLinks
  <2> QED BY <2>3, <2>4
<1>3. g \in [AttrNodes -> AttrRec]
  BY <1>1, <1>2
<1>4. NextOf(g) = [x \in AttrNodes |-> IF x = l THEN n ELSE NextOf(h)[x]]
  BY <1>2 DEF NextOf
<1>5. PrevOf(g) = [x \in AttrNodes |-> IF x = n THEN l ELSE PrevOf(h)[x]]
  BY <1>2 DEF PrevOf
<1>6. OwnedIn(g) = OwnedIn(h) \cup {n}
  BY <1>2 DEF OwnedIn
<1> QED BY <1>2, <1>3, <1>4, <1>5, <1>6 DEF SameValues

LEMMA AppendGivesUntold ==
  ASSUME NEW h \in [AttrNodes -> AttrRec], NEW n \in AttrNodes, NEW l \in AttrPtr, l = LastOr(AttrList),
         h[n].prev = NoAttr, NEW g, g = AppendUntold(h, n)
  PROVE  /\ g \in [AttrNodes -> AttrRec] /\ SameValues(g, h)
         /\ NextOf(g) = [x \in AttrNodes |-> IF x = l THEN n ELSE NextOf(h)[x]]
         /\ PrevOf(g) = [x \in AttrNodes |-> IF x = n THEN NoAttr ELSE PrevOf(h)[x]]
         /\ OwnedIn(g) = OwnedIn(h) \cup {n}
<1>1. g = [x \in AttrNodes |->
             [h[x] EXCEPT !.owned = IF x = n THEN TRUE ELSE @,
                          !.prev  = IF x = n /\ FALSE THEN l ELSE @,
                          !.next  = IF x = l THEN n ELSE @]]
  BY DEF AppendUntold, AppendAttr, LastOr
<1>2. ASSUME NEW x \in AttrNodes
      PROVE  /\ g[x] \in AttrRec /\ g[x].val = h[x].val
             /\ g[x].next = IF x = l THEN n ELSE h[x].next
             /\ g[x].prev = h[x].prev
             /\ x = n => g[x].owned = TRUE
             /\ x # n => g[x].owned = h[x].owned
  <2>1. PICK r \in AttrRec : r = h[x]
    OBVIOUS
  <2>2. PICK q : q = g[x]
    OBVIOUS
  <2>3. PICK a \in AttrPtr : a = IF x = l THEN n ELSE r.next
    BY PointersOf DEF AttrPtr
  <2>4. r.prev \in AttrPtr
    BY PointersOf
  <2>5. CASE x = n
    <3>1. q = TakeIn(r, a, r.prev)
      BY <1>1, <2>1, <2>2, <2>3, <2>5 DEF TakeIn
    <3>2. HasLinksOwned(q, r, a, r.prev)
      BY <2>4, <3>1, TakenIn
    <3> QED BY <2>1, <2>2, <2>3, <2>5, <3>2 DEF HasLinksOwned
  <2>6. CASE x # n
    <3>1. q = [r EXCEPT !.owned = @, !.prev = @, !.next = a]
      BY <1>1, <2>1, <2>2, <2>3, <2>6
    <3>2. q = Relink(r, a, r.prev)
      BY <3>1 DEF Relink
    <3>3. HasLinks(q, r, a, r.prev)
      BY <2>4, <3>2, Relinked
    <3> QED BY <2>1, <2>2, <2>3, <2>6, <3>3 DEF HasLinks
  <2> QED BY <2>5, <2>6
<1>3. g \in [AttrNodes -> AttrRec]
  BY <1>1, <1>2
<1>4. NextOf(g) = [x \in AttrNodes |-> IF x = l THEN n ELSE NextOf(h)[x]]
  BY <1>2 DEF NextOf
<1>5. PrevOf(g) = [x \in AttrNodes |-> IF x = n THEN NoAttr ELSE PrevOf(h)[x]]
  BY <1>2 DEF PrevOf
<1>6. OwnedIn(g) = OwnedIn(h) \cup {n}
  BY <1>2 DEF OwnedIn
<1> QED BY <1>2, <1>3, <1>4, <1>5, <1>6 DEF SameValues

LEMMA ReplaceGives ==
  ASSUME NEW h \in [AttrNodes -> AttrRec], NEW n \in AttrNodes, NEW m \in AttrNodes,
         NEW g, g = ReplaceAttr(h, n, m)
  PROVE  /\ g \in [AttrNodes -> AttrRec] /\ SameValues(g, h)
         /\ NextOf(g) = [x \in AttrNodes |-> IF x = PrevOf(h)[m] THEN n ELSE NextOf(h)[x]]
         /\ PrevOf(g) = [x \in AttrNodes |-> IF x = NextOf(h)[m] THEN n ELSE PrevOf(h)[x]]
         /\ OwnedIn(g) = OwnedIn(h) \cup {n}
<1>1. g = [x \in AttrNodes |->
             [h[x] EXCEPT !.owned = IF x = n THEN TRUE ELSE @,
                          !.next  = IF x = h[m].prev THEN n ELSE @,
                          !.prev  = IF x = h[m].next THEN n ELSE @]]
  BY DEF ReplaceAttr
<1>2. ASSUME NEW x \in AttrNodes
      PROVE  /\ g[x] \in AttrRec /\ g[x].val = h[x].val
             /\ g[x].next = IF x = h[m].prev THEN n ELSE h[x].next
             /\ g[x].prev = IF x = h[m].next THEN n ELSE h[x].prev
             /\ x = n => g[x].owned = TRUE
             /\ x # n => g[x].owned = h[x].owned
  <2>1. PICK r \in AttrRec : r = h[x]
    OBVIOUS
  <2>2. PICK q : q = g[x]
    OBVIOUS
  <2>3. PICK a \in AttrPtr : a = IF x = h[m].prev THEN n ELSE r.next
    BY PointersOf DEF AttrPtr
  <2>4. PICK b \in AttrPtr : b = IF x = h[m].next THEN n ELSE r.prev
    BY PointersOf DEF AttrPtr
  <2>5. CASE x = n
    <3>1. q = [r EXCEPT !.owned = TRUE, !.next = a, !.prev = b]
      BY <1>1, <2>1, <2>2, <2>3, <2>4, <2>5
    <3>2. q = TakeIn(r, a, b)
      BY <3>1 DEF TakeIn
    <3>3. HasLinksOwned(q, r, a, b)
      BY <3>2, TakenIn
    <3> QED BY <2>1, <2>2, <2>3, <2>4, <2>5, <3>3 DEF HasLinksOwned
  <2>6. CASE x # n
    <3>1. q = [r EXCEPT !.owned = @, !.next = a, !.prev = b]
      BY <1>1, <2>1, <2>2, <2>3, <2>4, <2>6
    <3>2. q = Relink(r, a, b)
      BY <3>1 DEF Relink
    <3>3. HasLinks(q, r, a, b)
      BY <3>2, Relinked
    <3> QED BY <2>1, <2>2, <2>3, <2>4, <2>6, <3>3 DEF HasLinks
  <2> QED BY <2>5, <2>6
<1>3. g \in [AttrNodes -> AttrRec]
  BY <1>1, <1>2
<1>4. NextOf(g) = [x \in AttrNodes |-> IF x = PrevOf(h)[m] THEN n ELSE NextOf(h)[x]]
  <2>1. PICK b : b = h[m].prev /\ PrevOf(h)[m] = b
    BY DEF PrevOf
  <2>2. \A x \in AttrNodes : g[x].next = IF x = b THEN n ELSE NextOf(h)[x]
    BY <1>2, <2>1 DEF NextOf
  <2> QED BY <2>1, <2>2 DEF NextOf
<1>5. PrevOf(g) = [x \in AttrNodes |-> IF x = NextOf(h)[m] THEN n ELSE PrevOf(h)[x]]
  <2>1. PICK b : b = h[m].next /\ NextOf(h)[m] = b
    BY DEF NextOf
  <2>2. \A x \in AttrNodes : g[x].prev = IF x = b THEN n ELSE PrevOf(h)[x]
    BY <1>2, <2>1 DEF PrevOf
  <2> QED BY <2>1, <2>2 DEF PrevOf
<1>6. OwnedIn(g) = OwnedIn(h) \cup {n}
  BY <1>2 DEF OwnedIn
<1> QED BY <1>2, <1>3, <1>4, <1>5, <1>6 DEF SameValues

WithoutAttr(h, m) ==
  [x \in AttrNodes |->
     [h[x] EXCEPT
        !.next = IF x = m THEN NoAttr ELSE IF x = h[m].prev THEN h[m].next ELSE @,
        !.prev = IF x = m THEN NoAttr ELSE IF x = h[m].next THEN h[m].prev ELSE @]]

LEMMA RemoveGives ==
  ASSUME NEW h \in [AttrNodes -> AttrRec], NEW m \in AttrNodes, NEW g, g = WithoutAttr(h, m)
  PROVE  /\ g \in [AttrNodes -> AttrRec] /\ SameValues(g, h)
         /\ NextOf(g) = [x \in AttrNodes |-> IF x = m THEN NoAttr ELSE
                           IF x = PrevOf(h)[m] THEN NextOf(h)[m] ELSE NextOf(h)[x]]
         /\ PrevOf(g) = [x \in AttrNodes |-> IF x = m THEN NoAttr ELSE
                           IF x = NextOf(h)[m] THEN PrevOf(h)[m] ELSE PrevOf(h)[x]]
         /\ OwnedIn(g) = OwnedIn(h)
<1>1. NoAttr \in AttrPtr /\ h[m].next \in AttrPtr /\ h[m].prev \in AttrPtr
  BY PointersOf DEF AttrPtr
<1>2. ASSUME NEW x \in AttrNodes
      PROVE  /\ g[x] \in AttrRec /\ g[x].val = h[x].val /\ g[x].owned = h[x].owned
             /\ g[x].next = IF x = m THEN NoAttr ELSE IF x = h[m].prev THEN h[m].next ELSE h[x].next
             /\ g[x].prev = IF x = m THEN NoAttr ELSE IF x = h[m].next THEN h[m].prev ELSE h[x].prev
  <2>1. PICK r \in AttrRec : r = h[x]
    OBVIOUS
  <2>2. PICK q : q = g[x]
    OBVIOUS
  <2>3. PICK a \in AttrPtr : a = IF x = m THEN NoAttr ELSE IF x = h[m].prev THEN h[m].next ELSE r.next
    BY <1>1, PointersOf
  <2>4. PICK b \in AttrPtr : b = IF x = m THEN NoAttr ELSE IF x = h[m].next THEN h[m].prev ELSE r.prev
    BY <1>1, PointersOf
  <2>5. q = [r EXCEPT !.next = a, !.prev = b]
    BY <2>1, <2>2, <2>3, <2>4 DEF WithoutAttr
  <2>6. q = Relink(r, a, b)
    BY <2>5 DEF Relink
  <2>7. HasLinks(q, r, a, b)
    BY <2>6, Relinked
  <2> QED BY <2>1, <2>2, <2>3, <2>4, <2>7 DEF HasLinks
<1>3. g \in [AttrNodes -> AttrRec]
  BY <1>2 DEF WithoutAttr
<1>4. NextOf(g) = [x \in AttrNodes |-> IF x = m THEN NoAttr ELSE
                     IF x = PrevOf(h)[m] THEN NextOf(h)[m] ELSE NextOf(h)[x]]
  BY <1>2 DEF NextOf, PrevOf
<1>5. PrevOf(g) = [x \in AttrNodes |-> IF x = m THEN NoAttr ELSE
                     IF x = NextOf(h)[m] THEN PrevOf(h)[m] ELSE PrevOf(h)[x]]
  BY <1>2 DEF NextOf, PrevOf
<1>6. OwnedIn(g) = OwnedIn(h)
  BY <1>2 DEF OwnedIn
<1> QED BY <1>2, <1>3, <1>4, <1>5, <1>6 DEF SameValues

GivenValue(h, n, v) == [h EXCEPT ![n].val = v]

LEMMA ValueGives ==
  ASSUME NEW h \in [AttrNodes -> AttrRec], NEW n \in AttrNodes, NEW v \in AttrValues \cup {NoValue},
         NEW g, g = GivenValue(h, n, v)
  PROVE  /\ g \in [AttrNodes -> AttrRec] /\ \A x \in AttrNodes \ {n} : g[x].val = h[x].val
         /\ NextOf(g) = NextOf(h) /\ PrevOf(g) = PrevOf(h) /\ OwnedIn(g) = OwnedIn(h)
<1>1. ASSUME NEW x \in AttrNodes
      PROVE  /\ g[x] \in AttrRec /\ (x # n => g[x].val = h[x].val) /\ g[x].owned = h[x].owned
             /\ g[x].next = h[x].next /\ g[x].prev = h[x].prev
  <2>1. CASE x # n
    <3>1. g[x] = h[x]
      BY <2>1 DEF GivenValue
    <3> QED BY <2>1, <3>1
  <2>2. CASE x = n
    <3>1. PICK r \in AttrRec : r = h[x]
      OBVIOUS
    <3>2. PICK q : q = g[x]
      OBVIOUS
    <3>3. q = [r EXCEPT !.val = v]
      BY <2>2, <3>1, <3>2 DEF GivenValue
    <3>4. q \in AttrRec /\ q.owned = r.owned /\ q.next = r.next /\ q.prev = r.prev
      BY <3>3, Zenon DEF AttrRec
    <3> QED BY <2>2, <3>1, <3>2, <3>4
  <2> QED BY <2>1, <2>2
<1>2. g \in [AttrNodes -> AttrRec]
  BY <1>1 DEF GivenValue
<1>3. NextOf(g) = NextOf(h) /\ PrevOf(g) = PrevOf(h) /\ OwnedIn(g) = OwnedIn(h)
  BY <1>1 DEF NextOf, PrevOf, OwnedIn
<1> QED BY <1>1, <1>2, <1>3

----------------------------------------------------------------------------
(* From links to lists.                                                    *)

LEMMA SameLinksSameShape ==
  ASSUME NEW h, NEW f, NEW s, AttrShape(h, f, s), NEW g \in [AttrNodes -> AttrRec],
         NextOf(g) = NextOf(h), PrevOf(g) = PrevOf(h), OwnedIn(g) = OwnedIn(h)
  PROVE  AttrShape(g, f, s)
<1>1. PICK W, B : Ranked(NextOf(h), PrevOf(h), OwnedIn(h), f, W, B)
  BY DEF AttrShape
<1>2. \E w, c : Ranked(NextOf(g), PrevOf(g), OwnedIn(g), f, w, c)
  BY <1>1
<1>3. AttrPath(NextOf(g), f, s) /\ ToldOf(PrevOf(g), s) /\ NamesApart(s)
  BY DEF AttrShape
<1> QED BY <1>2, <1>3 DEF AttrShape

\* A node that no element owns goes behind the last one.
LEMMA ShapeAppended ==
  ASSUME NEW h, NEW f, NEW s, AttrShape(h, f, s), NEW n \in AttrNodes, n \notin OwnedIn(h),
         NewName(s, n), NEW l, l = LastOr(s), NEW p \in {l, NoAttr},
         NEW g \in [AttrNodes -> AttrRec],
         NextOf(g) = [x \in AttrNodes |-> IF x = l THEN n ELSE NextOf(h)[x]],
         PrevOf(g) = [x \in AttrNodes |-> IF x = n THEN p ELSE PrevOf(h)[x]],
         OwnedIn(g) = OwnedIn(h) \cup {n}, NEW f2, f2 = IF f = NoAttr THEN n ELSE f
  PROVE  AttrShape(g, f2, Append(s, n))
<1>1. PICK nx, pv, O : nx = NextOf(h) /\ pv = PrevOf(h) /\ O = OwnedIn(h)
  OBVIOUS
<1>2. PICK W, B : Ranked(nx, pv, O, f, W, B)
  BY <1>1 DEF AttrShape
<1>3. AttrPath(nx, f, s) /\ ToldOf(pv, s) /\ NamesApart(s) /\ s \in Seq(AttrNodes)
  BY <1>1 DEF AttrShape, AttrPath
<1>4. LastIs(l, s)
  BY <1>3 DEF LastOr, Last, LastIs
<1>5. PICK nx2, pv2, O2 : nx2 = NextOf(g) /\ pv2 = PrevOf(g) /\ O2 = OwnedIn(g)
  OBVIOUS
<1>6. AppendedLinks(nx, pv, O, f, nx2, pv2, O2, f2, n, l, p)
  BY <1>1, <1>5 DEF AppendedLinks
<1>7. n \notin O
  BY <1>1
<1>8. l \in O \cup {NoAttr} /\ (f = NoAttr => l = NoAttr)
  <2>1. CASE Len(s) = 0
    BY <1>4, <2>1 DEF LastIs
  <2>2. CASE Len(s) # 0
    <3>1. Len(s) \in 1..Len(s) /\ 1 \in 1..Len(s) /\ Len(s) > 0
      BY <1>3, <2>2
    <3>2. l = s[Len(s)] /\ \A i \in 1..Len(s) : s[i] \in O
      BY <1>2, <1>3, <1>4, <2>2, ListedOwned DEF LastIs
    <3>3. f = s[1] /\ s[1] \in AttrNodes
      BY <1>3, <3>1 DEF AttrPath
    <3>4. f # NoAttr
      BY <3>3, NoAttrIsNone
    <3> QED BY <3>1, <3>2, <3>4
  <2> QED BY <2>1, <2>2
<1>9. \E W2, B2 : Ranked(nx2, pv2, O2, f2, W2, B2)
  BY <1>2, <1>6, <1>7, <1>8, AppendRanks
<1>10. PICK t : IsAppended(t, s, n)
  BY DEF IsAppended
<1>11. AttrPath(nx2, f2, t) /\ ToldOf(pv2, t) /\ NamesApart(t)
  BY <1>2, <1>3, <1>4, <1>6, <1>7, <1>10, AppendPath
<1> QED BY <1>5, <1>9, <1>10, <1>11 DEF AttrShape, IsAppended

\* A node that no element owns takes the place of the one at k: what was
\* before it stays.
LEMMA ShapeReplaced ==
  ASSUME NEW h, NEW f, NEW s, AttrShape(h, f, s), NEW n \in AttrNodes, n \notin OwnedIn(h),
         NEW k \in 1..Len(s), AttrName[n] = AttrName[s[k]], NEW m, m = s[k],
         NEW g \in [AttrNodes -> AttrRec],
         NextOf(g) = [x \in AttrNodes |-> IF x = PrevOf(h)[m] THEN n ELSE NextOf(h)[x]],
         PrevOf(g) = [x \in AttrNodes |-> IF x = NextOf(h)[m] THEN n ELSE PrevOf(h)[x]],
         OwnedIn(g) = OwnedIn(h) \cup {n}, NEW f2, f2 = IF f = m THEN n ELSE f
  PROVE  \E t : AttrShape(g, f2, t) /\ KeptBefore(t, s, k)
<1>1. PICK nx, pv, O : nx = NextOf(h) /\ pv = PrevOf(h) /\ O = OwnedIn(h)
  OBVIOUS
<1>2. PICK W, B : Ranked(nx, pv, O, f, W, B)
  BY <1>1 DEF AttrShape
<1>3. AttrPath(nx, f, s) /\ ToldOf(pv, s) /\ NamesApart(s)
  BY <1>1 DEF AttrShape
<1>4. PICK nx2, pv2, O2 : nx2 = NextOf(g) /\ pv2 = PrevOf(g) /\ O2 = OwnedIn(g)
  OBVIOUS
<1>5. ReplacedLinks(nx, pv, O, f, nx2, pv2, O2, f2, n, s[k])
  BY <1>1, <1>4 DEF ReplacedLinks
<1>6. n \notin O /\ m \in O /\ nx[m] # f
  <2>1. \A i \in 1..Len(s) : s[i] \in O
    BY <1>2, <1>3, ListedOwned
  <2>2. nx[s[k]] # f
    BY <1>3, BehindIsNext
  <2> QED BY <1>1, <2>1, <2>2
<1>7. \E W2, B2 : Ranked(nx2, pv2, O2, f2, W2, B2)
  <2>1. ReplacedLinks(nx, pv, O, f, nx2, pv2, O2, f2, n, m)
    BY <1>5
  <2> QED BY <1>2, <1>6, <2>1, ReplaceRanks
<1>8. \E t : AttrPath(nx2, f2, t) /\ ToldOf(pv2, t) /\ NamesApart(t) /\ KeptBefore(t, s, k)
  <2>1. CASE k = 1 \/ pv[s[k]] = s[k - 1]
    BY <1>2, <1>3, <1>5, <1>6, <2>1, ReplaceCuts
  <2>2. CASE ~(k = 1 \/ pv[s[k]] = s[k - 1])
    <3>1. \A i \in 1..Len(s) : pv[s[k]] # s[i]
      <4>1. SUFFICES ASSUME NEW i \in 1..Len(s), pv[s[k]] = s[i] PROVE FALSE
        OBVIOUS
      <4>2. k = i + 1
        BY <1>3, <4>1 DEF ToldOf
      <4>3. i = k - 1
        BY <4>2
      <4> QED BY <2>2, <4>1, <4>3
    <3>2. AttrPath(nx2, f2, s) /\ ToldOf(pv2, s)
      BY <1>2, <1>3, <1>5, <1>6, <2>2, <3>1, ReplaceUnheard
    <3>3. KeptBefore(s, s, k)
      BY DEF KeptBefore
    <3> QED BY <1>3, <3>2, <3>3
  <2> QED BY <2>1, <2>2
<1> QED BY <1>4, <1>7, <1>8 DEF AttrShape

\* The node at k leaves: nothing else does, or all that was behind it when
\* no listed node is where its prevSibling points.
LEMMA ShapeRemoved ==
  ASSUME NEW h, NEW f, NEW s, AttrShape(h, f, s), NEW k \in 1..Len(s), NEW m, m = s[k],
         NEW g \in [AttrNodes -> AttrRec],
         NextOf(g) = [x \in AttrNodes |-> IF x = m THEN NoAttr ELSE
                        IF x = PrevOf(h)[m] THEN NextOf(h)[m] ELSE NextOf(h)[x]],
         PrevOf(g) = [x \in AttrNodes |-> IF x = m THEN NoAttr ELSE
                        IF x = NextOf(h)[m] THEN PrevOf(h)[m] ELSE PrevOf(h)[x]],
         OwnedIn(g) = OwnedIn(h), NEW f2, f2 = IF f = m THEN NextOf(h)[m] ELSE f
  PROVE  \E t : /\ AttrShape(g, f2, t)
                /\ \/ KeptBut(t, s, k)
                   \/ k # 1 /\ KeptBefore(t, s, k + 1) /\ PrevOf(h)[m] \notin Placed(s)
<1>1. PICK nx, pv, O : nx = NextOf(h) /\ pv = PrevOf(h) /\ O = OwnedIn(h)
  OBVIOUS
<1>2. PICK W, B : Ranked(nx, pv, O, f, W, B)
  BY <1>1 DEF AttrShape
<1>3. AttrPath(nx, f, s) /\ ToldOf(pv, s) /\ NamesApart(s)
  BY <1>1 DEF AttrShape
<1>4. PICK nx2, pv2 : nx2 = NextOf(g) /\ pv2 = PrevOf(g)
  OBVIOUS
<1>5. RemovedLinks(nx, pv, f, nx2, pv2, f2, m) /\ RemovedLinks(nx, pv, f, nx2, pv2, f2, s[k])
  BY <1>1, <1>4 DEF RemovedLinks
<1>6. m \in O /\ nx[m] # f
  <2>1. \A i \in 1..Len(s) : s[i] \in O
    BY <1>2, <1>3, ListedOwned
  <2>2. nx[s[k]] # f
    BY <1>3, BehindIsNext
  <2> QED BY <2>1, <2>2
<1>7. Ranked(nx2, pv2, O, f2, W, B)
  BY <1>2, <1>5, <1>6, RemoveRanks
<1>8. \E W2, B2 : Ranked(NextOf(g), PrevOf(g), OwnedIn(g), f2, W2, B2)
  BY <1>1, <1>4, <1>7
<1>9. CASE k = 1 \/ pv[s[k]] = s[k - 1]
  <2>1. PICK t : AttrPath(nx2, f2, t) /\ ToldOf(pv2, t) /\ NamesApart(t) /\ KeptBut(t, s, k)
    BY <1>2, <1>3, <1>5, <1>9, RemoveCuts
  <2> QED BY <1>4, <1>8, <2>1 DEF AttrShape
<1>10. CASE ~(k = 1 \/ pv[s[k]] = s[k - 1])
  <2>1. \A i \in 1..Len(s) : pv[s[k]] # s[i]
    <3>1. SUFFICES ASSUME NEW i \in 1..Len(s), pv[s[k]] = s[i] PROVE FALSE
      OBVIOUS
    <3>2. k = i + 1
      BY <1>3, <3>1 DEF ToldOf
    <3>3. i = k - 1
      BY <3>2
    <3> QED BY <1>10, <3>1, <3>3
  <2>2. PICK t : AttrPath(nx2, f2, t) /\ ToldOf(pv2, t) /\ NamesApart(t) /\ KeptBefore(t, s, k + 1)
    BY <1>2, <1>3, <1>5, <1>10, <2>1, RemoveUnheard
  <2>3. PrevOf(h)[m] \notin Placed(s)
    BY <1>1, <2>1 DEF Placed
  <2> QED BY <1>4, <1>8, <1>10, <2>2, <2>3 DEF AttrShape
<1> QED BY <1>9, <1>10

----------------------------------------------------------------------------
\* The invariant, and what AttrsKept says of a step.
AttrInv == (\E s : AttrShape(attr, firstAttr, s)) /\ AttrCrashCause

\* The ways in which n may leave the list.
MayLeave(n) ==
  \/ XmlElementRemoveAttributeNode(n)
  \/ \E x \in AttrNodes : AttrName[x] = AttrName[n] /\ XmlElementSetAttributeNode(x)
  \/ CutOff(n)

AttrsKeptNow ==
  /\ \A n \in Listed \ Listed' :
       \/ XmlElementRemoveAttributeNode(n)
       \/ \E x \in AttrNodes : /\ AttrName[x] = AttrName[n]
                               /\ XmlElementSetAttributeNode(x)
       \/ CutOff(n)
  /\ \A n, m \in Listed' : AttrName[n] = AttrName[m] => n = m
  /\ \A n \in Listed : attr'[n].val # attr[n].val =>
       \A m \in Listed \ {n} : attr'[m].val = attr[m].val

Accounted(s, t) == \A i \in 1..Len(s) : s[i] \in Placed(t) \/ MayLeave(s[i])

\* All values but that of z are as they were.
ValuesKept(g, h, z) == \A x \in AttrNodes : x # z => g[x].val = h[x].val

LEMMA ListedIs ==
  ASSUME NEW s, AttrShape(attr, firstAttr, s)
  PROVE  AttrList = s /\ s \in Seq(AttrNodes) /\ Listed = Placed(s)
<1>1. AttrList = AttrsAt(attr, firstAttr)
  BY DEF AttrList, AttrsFrom, AttrsAt
<1> QED BY <1>1, ShapeLists DEF Listed

LEMMA ListedNext ==
  ASSUME NEW t, AttrShape(attr', firstAttr', t)
  PROVE  Listed' = Placed(t) /\ t \in Seq(AttrNodes)
<1>1. PICK h, f : h = attr' /\ f = firstAttr'
  OBVIOUS
<1>2. AttrList' = AttrsAt(h, f)
  BY <1>1 DEF AttrList, AttrsFrom, AttrsAt
<1>3. Range(AttrsAt(h, f)) = Placed(t) /\ t \in Seq(AttrNodes)
  BY <1>1, ShapeLists
<1> QED BY <1>2, <1>3 DEF Listed

LEMMA KeptFrom ==
  ASSUME NEW s, AttrShape(attr, firstAttr, s), NEW t, AttrShape(attr', firstAttr', t),
         Accounted(s, t), NEW z, ValuesKept(attr', attr, z)
  PROVE  AttrsKeptNow
<1>1. Listed = Placed(s) /\ s \in Seq(AttrNodes) /\ Listed' = Placed(t) /\ t \in Seq(AttrNodes)
  BY ListedIs, ListedNext
<1>2. \A n \in Listed \ Listed' : MayLeave(n)
  BY <1>1 DEF Accounted, Placed
<1>3. \A n, m \in Listed' : AttrName[n] = AttrName[m] => n = m
  BY <1>1 DEF AttrShape, NamesApart, Placed
<1>4. \A n \in Listed : n \in AttrNodes
  BY <1>1 DEF Placed
<1>5. \A n \in Listed : attr'[n].val # attr[n].val =>
        \A m \in Listed \ {n} : attr'[m].val = attr[m].val
  BY <1>4 DEF ValuesKept
<1> QED BY <1>2, <1>3, <1>5 DEF AttrsKeptNow, MayLeave

\* What a call that does not crash has to show.
LEMMA StepFrom ==
  ASSUME NEW s, AttrShape(attr, firstAttr, s), ~attrCrash, attrCrash' = attrCrash,
         NEW t, AttrShape(attr', firstAttr', t),
         Accounted(s, t), NEW z, ValuesKept(attr', attr, z)
  PROVE  AttrInv' /\ AttrsKeptNow
<1>1. AttrsKeptNow
  BY KeptFrom
<1>2. (\E r : AttrShape(attr, firstAttr, r))'
  OBVIOUS
<1>3. AttrCrashCause'
  BY Zenon DEF AttrCrashCause
<1> QED BY <1>1, <1>2, <1>3, Zenon DEF AttrInv

LEMMA AllStay ==
  ASSUME NEW s, NEW t, \A i \in 1..Len(s) : \E j \in 1..Len(t) : t[j] = s[i]
  PROVE  Accounted(s, t)
BY DEF Accounted, Placed

LEMMA CrashKept ==
  ASSUME AttrInv, Crash, \/ ~elemOwned \/ \E n \in Listed : AttrLocal[n] = NoName
  PROVE  AttrInv' /\ AttrsKeptNow
<1>1. attr' = attr /\ firstAttr' = firstAttr /\ elemOwned' = elemOwned
  BY DEF Crash
<1>2. AttrList' = AttrList
  BY <1>1 DEF AttrList, AttrsFrom
<1>3. Listed' = Listed
  BY <1>2 DEF Listed
<1>4. PICK s : AttrShape(attr, firstAttr, s)
  BY DEF AttrInv
<1>5. (\E r : AttrShape(attr, firstAttr, r))'
  BY <1>1, <1>4
<1>6. (\/ ~elemOwned \/ \E n \in Listed : AttrLocal[n] = NoName)'
  BY <1>1, <1>3
<1>7. AttrInv'
  BY <1>5, <1>6, Zenon DEF AttrInv, AttrCrashCause
<1>8. AttrShape(attr', firstAttr', s)
  BY <1>1, <1>4
<1>9. Accounted(s, s)
  BY AllStay
<1>10. ValuesKept(attr', attr, NoAttr)
  BY <1>1 DEF ValuesKept
<1>11. AttrsKeptNow
  BY <1>4, <1>8, <1>9, <1>10, KeptFrom
<1> QED BY <1>7, <1>11

\* A value changes, whichever call did it.
LEMMA ValueKept ==
  ASSUME AttrInv, ~attrCrash, NEW n \in AttrNodes, NEW v \in AttrValues \cup {NoValue},
         attr' = GivenValue(attr, n, v), UNCHANGED <<firstAttr, elemOwned, attrCrash>>
  PROVE  AttrInv' /\ AttrsKeptNow
<1>1. PICK s : AttrShape(attr, firstAttr, s)
  BY DEF AttrInv
<1>2. attr \in [AttrNodes -> AttrRec]
  BY <1>1 DEF AttrShape
<1>3. PICK g : g = attr'
  OBVIOUS
<1>4. /\ g \in [AttrNodes -> AttrRec] /\ \A x \in AttrNodes \ {n} : g[x].val = attr[x].val
      /\ NextOf(g) = NextOf(attr) /\ PrevOf(g) = PrevOf(attr) /\ OwnedIn(g) = OwnedIn(attr)
  <2>1. g = GivenValue(attr, n, v)
    BY <1>3
  <2> QED BY <1>2, <2>1, ValueGives
<1>5. AttrShape(g, firstAttr, s)
  BY <1>1, <1>4, SameLinksSameShape
<1>6. AttrShape(attr', firstAttr', s) /\ attrCrash' = attrCrash
  BY <1>3, <1>5
<1>7. ValuesKept(attr', attr, n)
  BY <1>3, <1>4 DEF ValuesKept
<1>8. Accounted(s, s)
  BY AllStay
<1> QED BY <1>1, <1>6, <1>7, <1>8, StepFrom

\* A new node is hung behind the last, with the value it was given.
LEMMA NewNodeKept ==
  ASSUME NEW s, AttrShape(attr, firstAttr, s), ~attrCrash, attrCrash' = attrCrash,
         NEW n \in AttrNodes, NewName(s, n),
         NEW h, AttrShape(h, firstAttr, s), n \notin OwnedIn(h), ValuesKept(h, attr, n),
         attr' = AppendTold(h, n) \/ attr' = AppendUntold(h, n),
         firstAttr' = IF firstAttr = NoAttr THEN n ELSE firstAttr
  PROVE  AttrInv' /\ AttrsKeptNow
<1>1. AttrList = s /\ s \in Seq(AttrNodes)
  BY ListedIs
<1>2. PICK l : l = LastOr(s)
  OBVIOUS
<1>3. l = LastOr(AttrList)
  BY <1>1, <1>2
<1>4. l \in AttrPtr
  <2>1. CASE s = <<>>
    BY <1>2, <2>1 DEF LastOr, AttrPtr
  <2>2. CASE s # <<>>
    <3>1. Len(s) \in 1..Len(s)
      BY <1>1, <2>2
    <3>2. s[Len(s)] \in AttrNodes
      BY <1>1, <3>1
    <3> QED BY <1>2, <2>2, <3>2 DEF LastOr, Last, AttrPtr
  <2> QED BY <2>1, <2>2
<1>5. h \in [AttrNodes -> AttrRec]
  BY DEF AttrShape
<1>6. PICK g, f : g = attr' /\ f = firstAttr'
  OBVIOUS
<1>7. h[n].prev = NoAttr
  <2>1. PICK W, B : Ranked(NextOf(h), PrevOf(h), OwnedIn(h), firstAttr, W, B)
    BY DEF AttrShape
  <2>2. PrevOf(h)[n] = NoAttr
    BY <2>1 DEF Ranked
  <2> QED BY <2>2 DEF PrevOf
<1>8. PICK p \in {l, NoAttr} :
        /\ g \in [AttrNodes -> AttrRec] /\ SameValues(g, h)
        /\ NextOf(g) = [x \in AttrNodes |-> IF x = l THEN n ELSE NextOf(h)[x]]
        /\ PrevOf(g) = [x \in AttrNodes |-> IF x = n THEN p ELSE PrevOf(h)[x]]
        /\ OwnedIn(g) = OwnedIn(h) \cup {n}
  <2>1. CASE attr' = AppendTold(h, n)
    <3>1. g = AppendTold(h, n)
      BY <1>6, <2>1
    <3> QED BY <1>3, <1>4, <1>5, <3>1, AppendGives
  <2>2. CASE attr' = AppendUntold(h, n)
    <3>1. g = AppendUntold(h, n)
      BY <1>6, <2>2
    <3> QED BY <1>3, <1>4, <1>5, <1>7, <3>1, AppendGivesUntold
  <2> QED BY <2>1, <2>2
<1>9. f = IF firstAttr = NoAttr THEN n ELSE firstAttr
  BY <1>6
<1>10. AttrShape(g, f, Append(s, n))
  BY <1>2, <1>8, <1>9, ShapeAppended
<1>11. PICK t : IsAppended(t, s, n)
  BY DEF IsAppended
<1>12. AttrShape(attr', firstAttr', t)
  BY <1>6, <1>10, <1>11 DEF IsAppended
<1>13. Accounted(s, t)
  <2>1. Len(t) = Len(s) + 1 /\ \A i \in 1..Len(s) : t[i] = s[i]
    BY <1>1, <1>11, AppendProperties DEF IsAppended
  <2>2. \A i \in 1..Len(s) : i \in 1..(Len(s) + 1)
    BY <1>1
  <2>3. \A i \in 1..Len(s) : \E j \in 1..Len(t) : t[j] = s[i]
    BY <2>1, <2>2
  <2> QED BY <2>3, AllStay
<1>14. ValuesKept(attr', attr, n)
  BY <1>6, <1>8 DEF ValuesKept, SameValues
<1> QED BY <1>12, <1>13, <1>14, StepFrom

\* What stands behind place k of s.
LEMMA StandsBehind ==
  ASSUME NEW s, AttrShape(attr, firstAttr, s), NEW k \in 1..Len(s), NEW i \in 1..Len(s), k < i
  PROVE  Behind(s[i], s[k]) /\ s[k] \in Listed
<1>1. AttrList = s /\ s \in Seq(AttrNodes) /\ Listed = Placed(s)
  BY ListedIs
<1>2. i \in DOMAIN s /\ k \in DOMAIN s
  BY <1>1
<1> QED BY <1>1, <1>2 DEF Behind, Placed

LEMMA SetNodeKept ==
  ASSUME AttrInv, NEW n \in AttrNodes, XmlElementSetAttributeNode(n)
  PROVE  AttrInv' /\ AttrsKeptNow
<1>1. PICK s : AttrShape(attr, firstAttr, s)
  BY DEF AttrInv
<1>2. AttrList = s /\ s \in Seq(AttrNodes)
  BY <1>1, ListedIs
<1>3. /\ ~attrCrash /\ n \notin OwnedIn(attr) /\ attrCrash' = attrCrash
  BY DEF XmlElementSetAttributeNode, OwnedIn
<1>4. PICK m : m = XmlElementGetAttributeNode(AttrName[n])
  OBVIOUS
<1>5. CASE m = NoAttr /\ \A j \in 1..Len(s) : AttrName[s[j]] # AttrName[n]
  <2>1. attr' = AppendTold(attr, n) /\ firstAttr' = IF firstAttr = NoAttr THEN n ELSE firstAttr
    BY <1>4, <1>5 DEF XmlElementSetAttributeNode, AppendTold
  <2>2. NewName(s, n) /\ ValuesKept(attr, attr, n)
    BY <1>5 DEF NewName, ValuesKept
  <2> QED BY <1>1, <1>3, <2>1, <2>2, NewNodeKept
<1>6. CASE \E k \in 1..Len(s) : m = s[k] /\ AttrName[s[k]] = AttrName[n]
  <2>1. PICK k \in 1..Len(s) : m = s[k] /\ AttrName[s[k]] = AttrName[n]
    BY <1>6
  <2>2. m \in AttrNodes /\ m # NoAttr
    BY <1>2, <2>1, NoAttrIsNone
  <2>3. PICK g, f : g = attr' /\ f = firstAttr'
    OBVIOUS
  <2>4. g = ReplaceAttr(attr, n, m) /\ f = IF firstAttr = m THEN n ELSE firstAttr
    BY <1>4, <2>2, <2>3 DEF XmlElementSetAttributeNode
  <2>5. attr \in [AttrNodes -> AttrRec]
    BY <1>1 DEF AttrShape
  <2>6. /\ g \in [AttrNodes -> AttrRec] /\ SameValues(g, attr)
        /\ NextOf(g) = [x \in AttrNodes |-> IF x = PrevOf(attr)[m] THEN n ELSE NextOf(attr)[x]]
        /\ PrevOf(g) = [x \in AttrNodes |-> IF x = NextOf(attr)[m] THEN n ELSE PrevOf(attr)[x]]
        /\ OwnedIn(g) = OwnedIn(attr) \cup {n}
    BY <2>2, <2>4, <2>5, ReplaceGives
  <2>7. PICK t : AttrShape(g, f, t) /\ KeptBefore(t, s, k)
    BY <1>1, <1>3, <2>1, <2>4, <2>6, ShapeReplaced
  <2>8. AttrShape(attr', firstAttr', t)
    BY <2>3, <2>7
  <2>9. Accounted(s, t)
    <3> SUFFICES ASSUME NEW i \in 1..Len(s) PROVE s[i] \in Placed(t) \/ MayLeave(s[i])
      BY DEF Accounted
    <3>1. CASE i < k
      BY <2>7, <3>1 DEF KeptBefore, Placed
    <3>2. CASE i = k
      BY <2>1, <3>2 DEF MayLeave
    <3>3. CASE k < i
      <4>1. Behind(s[i], m) /\ m \in Listed
        BY <1>1, <2>1, <3>3, StandsBehind
      <4>2. CutOff(s[i])
        BY <2>1, <4>1 DEF CutOff
      <4> QED BY <4>2 DEF MayLeave
    <3>4. i \in Int /\ k \in Int
      BY <1>2
    <3> QED BY <3>1, <3>2, <3>3, <3>4
  <2>10. ValuesKept(attr', attr, n)
    BY <2>3, <2>6 DEF ValuesKept, SameValues
  <2> QED BY <1>1, <1>3, <2>8, <2>9, <2>10, StepFrom
<1>7. \/ m = NoAttr /\ \A j \in 1..Len(s) : AttrName[s[j]] # AttrName[n]
      \/ \E k \in 1..Len(s) : m = s[k] /\ AttrName[s[k]] = AttrName[n]
  BY <1>2, <1>4, FoundByName
<1> QED BY <1>5, <1>6, <1>7

LEMMA SetKept ==
  ASSUME AttrInv, NEW n \in AttrNodes, NEW v \in AttrValues, XmlElementSetAttribute(n, v)
  PROVE  AttrInv' /\ AttrsKeptNow
<1>1. PICK s : AttrShape(attr, firstAttr, s)
  BY DEF AttrInv
<1>2. AttrList = s /\ s \in Seq(AttrNodes)
  BY <1>1, ListedIs
<1>3. PICK m : m = XmlElementGetAttributeNode(AttrName[n])
  OBVIOUS
<1>4. ~attrCrash
  BY DEF XmlElementSetAttribute
<1>5. CASE m = NoAttr /\ \A j \in 1..Len(s) : AttrName[s[j]] # AttrName[n]
  <2>1. CASE ~elemOwned
    <3>1. Crash
      BY <1>3, <1>5, <2>1 DEF XmlElementSetAttribute
    <3> QED BY <2>1, <3>1, CrashKept
  <2>2. CASE elemOwned
    <3>1. /\ n \notin OwnedIn(attr) /\ attr' = AppendTold(GivenValue(attr, n, v), n)
          /\ firstAttr' = IF firstAttr = NoAttr THEN n ELSE firstAttr
          /\ attrCrash' = attrCrash
      BY <1>3, <1>5, <2>2 DEF XmlElementSetAttribute, AppendTold, GivenValue, OwnedIn
    <3>2. PICK h : h = GivenValue(attr, n, v)
      OBVIOUS
    <3>3. /\ h \in [AttrNodes -> AttrRec] /\ \A x \in AttrNodes \ {n} : h[x].val = attr[x].val
          /\ NextOf(h) = NextOf(attr) /\ PrevOf(h) = PrevOf(attr) /\ OwnedIn(h) = OwnedIn(attr)
      BY <1>1, <3>2, ValueGives DEF AttrShape
    <3>4. AttrShape(h, firstAttr, s)
      BY <1>1, <3>3, SameLinksSameShape
    <3>5. NewName(s, n) /\ ValuesKept(h, attr, n)
      BY <1>5, <3>3 DEF NewName, ValuesKept
    <3>6. n \notin OwnedIn(h) /\ attr' = AppendTold(h, n)
      BY <3>1, <3>2, <3>3
    <3> QED BY <1>1, <1>4, <3>1, <3>4, <3>5, <3>6, NewNodeKept
  <2> QED BY <2>1, <2>2
<1>6. CASE \E k \in 1..Len(s) : m = s[k] /\ AttrName[s[k]] = AttrName[n]
  <2>1. m \in AttrNodes /\ m # NoAttr
    BY <1>2, <1>6, NoAttrIsNone
  <2>2. attr' = GivenValue(attr, m, v) /\ UNCHANGED <<firstAttr, elemOwned, attrCrash>>
    BY <1>3, <2>1 DEF XmlElementSetAttribute, GivenValue
  <2> QED BY <1>4, <2>1, <2>2, ValueKept
<1>7. \/ m = NoAttr /\ \A j \in 1..Len(s) : AttrName[s[j]] # AttrName[n]
      \/ \E k \in 1..Len(s) : m = s[k] /\ AttrName[s[k]] = AttrName[n]
  BY <1>2, <1>3, FoundByName
<1> QED BY <1>5, <1>6, <1>7

LEMMA SetNSKept ==
  ASSUME AttrInv, NEW n \in AttrNodes, NEW v \in AttrValues, XmlElementSetAttributeNS(n, v)
  PROVE  AttrInv' /\ AttrsKeptNow
<1>1. PICK s : AttrShape(attr, firstAttr, s)
  BY DEF AttrInv
<1>2. AttrList = s /\ s \in Seq(AttrNodes) /\ Listed = Placed(s)
  BY <1>1, ListedIs
<1>3. PICK m : m = XmlElementGetAttributeNodeNS(AttrLocal[n])
  OBVIOUS
<1>4. ~attrCrash /\ AttrLocal[n] # NoName
  BY DEF XmlElementSetAttributeNS
<1>5. CASE m = NoAttr /\ \A j \in 1..Len(s) : AttrLocal[s[j]] \notin {AttrLocal[n], NoName}
  <2>1. m # -1
    BY <1>5 DEF NoAttr
  <2>2. /\ n \notin OwnedIn(attr) /\ attr' = AppendUntold(GivenValue(attr, n, v), n)
        /\ firstAttr' = IF firstAttr = NoAttr THEN n ELSE firstAttr
        /\ attrCrash' = attrCrash
    BY <1>3, <1>5, <2>1 DEF XmlElementSetAttributeNS, AppendUntold, GivenValue, OwnedIn
  <2>3. PICK h : h = GivenValue(attr, n, v)
    OBVIOUS
  <2>4. /\ h \in [AttrNodes -> AttrRec] /\ \A x \in AttrNodes \ {n} : h[x].val = attr[x].val
        /\ NextOf(h) = NextOf(attr) /\ PrevOf(h) = PrevOf(attr) /\ OwnedIn(h) = OwnedIn(attr)
    BY <1>1, <2>3, ValueGives DEF AttrShape
  <2>5. AttrShape(h, firstAttr, s)
    BY <1>1, <2>4, SameLinksSameShape
  <2>6. NewName(s, n)
    <3> SUFFICES ASSUME NEW j \in 1..Len(s), AttrName[s[j]] = AttrName[n] PROVE FALSE
      BY DEF NewName
    <3>1. s[j] \in AttrNodes /\ AttrLocal[s[j]] # AttrLocal[n] /\ AttrLocal[s[j]] # NoName
      BY <1>2, <1>5
    <3>2. NoName \notin {AttrLocal[s[j]], AttrLocal[n]}
      BY <1>4, <3>1
    <3> QED BY <3>1, <3>2, AttrAssumption
  <2>7. ValuesKept(h, attr, n)
    BY <2>4 DEF ValuesKept
  <2>8. n \notin OwnedIn(h) /\ attr' = AppendUntold(h, n)
    BY <2>2, <2>3, <2>4
  <2> QED BY <1>1, <1>4, <2>2, <2>5, <2>6, <2>7, <2>8, NewNodeKept
<1>6. CASE m = -1 /\ \E k \in 1..Len(s) : AttrLocal[s[k]] = NoName
  <2>1. Crash
    BY <1>3, <1>6 DEF XmlElementSetAttributeNS
  <2>2. \E x \in Listed : AttrLocal[x] = NoName
    BY <1>2, <1>6 DEF Placed
  <2> QED BY <2>1, <2>2, CrashKept
<1>7. CASE \E k \in 1..Len(s) : m = s[k]
  <2>1. m \in AttrNodes
    BY <1>2, <1>7
  <2>2. m # NoAttr /\ m # -1
    BY <2>1, AttrAssumption
  <2>3. attr' = GivenValue(attr, m, v) /\ UNCHANGED <<firstAttr, elemOwned, attrCrash>>
    BY <1>3, <2>2 DEF XmlElementSetAttributeNS, GivenValue
  <2> QED BY <1>4, <2>1, <2>3, ValueKept
<1>8. \/ m = NoAttr /\ \A j \in 1..Len(s) : AttrLocal[s[j]] \notin {AttrLocal[n], NoName}
      \/ m = -1 /\ \E k \in 1..Len(s) : AttrLocal[s[k]] = NoName
      \/ \E k \in 1..Len(s) : m = s[k]
  BY <1>2, <1>3, FoundByLocal
<1> QED BY <1>5, <1>6, <1>7, <1>8

LEMMA RemoveKept ==
  ASSUME AttrInv, NEW name, XmlElementRemoveAttribute(name)
  PROVE  AttrInv' /\ AttrsKeptNow
<1>1. PICK s : AttrShape(attr, firstAttr, s)
  BY DEF AttrInv
<1>2. AttrList = s /\ s \in Seq(AttrNodes)
  BY <1>1, ListedIs
<1>3. PICK m : m = XmlElementGetAttributeNode(name)
  OBVIOUS
<1>4. /\ ~attrCrash /\ m # NoAttr /\ attr' = GivenValue(attr, m, NoValue)
      /\ UNCHANGED <<firstAttr, elemOwned, attrCrash>>
  BY <1>3 DEF XmlElementRemoveAttribute, GivenValue
<1>5. m \in AttrNodes
  <2>1. \/ m = NoAttr /\ \A j \in 1..Len(s) : AttrName[s[j]] # name
        \/ \E k \in 1..Len(s) : m = s[k] /\ AttrName[s[k]] = name
    BY <1>2, <1>3, FoundByName
  <2> QED BY <1>2, <1>4, <2>1
<1>6. NoValue \in AttrValues \cup {NoValue}
  OBVIOUS
<1> QED BY <1>4, <1>5, <1>6, ValueKept

LEMMA RemoveNSKept ==
  ASSUME AttrInv, NEW local, XmlElementRemoveAttributeNS(local)
  PROVE  AttrInv' /\ AttrsKeptNow
<1>1. PICK s : AttrShape(attr, firstAttr, s)
  BY DEF AttrInv
<1>2. AttrList = s /\ s \in Seq(AttrNodes) /\ Listed = Placed(s)
  BY <1>1, ListedIs
<1>3. PICK m : m = XmlElementGetAttributeNodeNS(local)
  OBVIOUS
<1>4. \/ m = NoAttr /\ \A j \in 1..Len(s) : AttrLocal[s[j]] \notin {local, NoName}
      \/ m = -1 /\ \E k \in 1..Len(s) : AttrLocal[s[k]] = NoName
      \/ \E k \in 1..Len(s) : m = s[k]
  BY <1>2, <1>3, FoundByLocal
<1>5. CASE m = -1
  <2>1. Crash
    BY <1>3, <1>5 DEF XmlElementRemoveAttributeNS
  <2>2. \A k \in 1..Len(s) : m # s[k]
    BY <1>2, <1>5, AttrAssumption
  <2>3. \E k \in 1..Len(s) : AttrLocal[s[k]] = NoName
    BY <1>4, <1>5, <2>2 DEF NoAttr
  <2>4. \E x \in Listed : AttrLocal[x] = NoName
    BY <1>2, <2>3 DEF Placed
  <2> QED BY <2>1, <2>4, CrashKept
<1>6. CASE m # -1
  <2>1. /\ ~attrCrash /\ m # NoAttr /\ attr' = GivenValue(attr, m, NoValue)
        /\ UNCHANGED <<firstAttr, elemOwned, attrCrash>>
    BY <1>3, <1>6 DEF XmlElementRemoveAttributeNS, GivenValue
  <2>2. m \in AttrNodes
    BY <1>2, <1>4, <1>6, <2>1
  <2>3. NoValue \in AttrValues \cup {NoValue}
    OBVIOUS
  <2> QED BY <2>1, <2>2, <2>3, ValueKept
<1> QED BY <1>5, <1>6

LEMMA RemoveNodeKept ==
  ASSUME AttrInv, NEW m \in AttrNodes, XmlElementRemoveAttributeNode(m)
  PROVE  AttrInv' /\ AttrsKeptNow
<1>1. PICK s : AttrShape(attr, firstAttr, s)
  BY DEF AttrInv
<1>2. AttrList = s /\ s \in Seq(AttrNodes) /\ Listed = Placed(s)
  BY <1>1, ListedIs
<1>3. /\ ~attrCrash /\ m \in Listed /\ attrCrash' = attrCrash
      /\ attr' = WithoutAttr(attr, m)
      /\ firstAttr' = IF firstAttr = m THEN attr[m].next ELSE firstAttr
  BY DEF XmlElementRemoveAttributeNode, WithoutAttr
<1>4. PICK k \in 1..Len(s) : m = s[k]
  BY <1>2, <1>3 DEF Placed
<1>5. PICK g, f : g = attr' /\ f = firstAttr'
  OBVIOUS
<1>6. attr \in [AttrNodes -> AttrRec]
  BY <1>1 DEF AttrShape
<1>7. /\ g \in [AttrNodes -> AttrRec] /\ SameValues(g, attr)
      /\ NextOf(g) = [x \in AttrNodes |-> IF x = m THEN NoAttr ELSE
                        IF x = PrevOf(attr)[m] THEN NextOf(attr)[m] ELSE NextOf(attr)[x]]
      /\ PrevOf(g) = [x \in AttrNodes |-> IF x = m THEN NoAttr ELSE
                        IF x = NextOf(attr)[m] THEN PrevOf(attr)[m] ELSE PrevOf(attr)[x]]
      /\ OwnedIn(g) = OwnedIn(attr)
  <2>1. g = WithoutAttr(attr, m)
    BY <1>3, <1>5
  <2> QED BY <1>6, <2>1, RemoveGives
<1>8. f = IF firstAttr = m THEN NextOf(attr)[m] ELSE firstAttr
  BY <1>3, <1>5 DEF NextOf
<1>9. PICK t : /\ AttrShape(g, f, t)
               /\ \/ KeptBut(t, s, k)
                  \/ k # 1 /\ KeptBefore(t, s, k + 1) /\ PrevOf(attr)[m] \notin Placed(s)
  BY <1>1, <1>4, <1>7, <1>8, ShapeRemoved
<1>10. AttrShape(attr', firstAttr', t)
  BY <1>5, <1>9
<1>11. ValuesKept(attr', attr, m)
  BY <1>5, <1>7 DEF ValuesKept, SameValues
<1>12. Accounted(s, t)
  <2> SUFFICES ASSUME NEW i \in 1..Len(s) PROVE s[i] \in Placed(t) \/ MayLeave(s[i])
    BY DEF Accounted
  <2>1. CASE i = k
    BY <1>4, <2>1 DEF MayLeave
  <2>2. CASE i # k /\ KeptBut(t, s, k)
    BY <2>2 DEF KeptBut, Placed
  <2>3. CASE i # k /\ k # 1 /\ KeptBefore(t, s, k + 1) /\ PrevOf(attr)[m] \notin Placed(s)
    <3>1. CASE i < k
      <4>1. i < k + 1
        BY <3>1
      <4> QED BY <2>3, <4>1 DEF KeptBefore, Placed
    <3>2. CASE k < i
      <4>1. Behind(s[i], m) /\ m \in Listed
        BY <1>1, <1>4, <3>2, StandsBehind
      <4>2. attr[m].prev \notin Listed
        BY <1>2, <2>3 DEF PrevOf
      <4>3. firstAttr # m
        <5>1. firstAttr = s[1] /\ 1 \in 1..Len(s) /\ NamesApart(s)
          BY <1>1, <1>2 DEF AttrShape, AttrPath
        <5> QED BY <1>4, <2>3, <5>1, NodesApart
      <4>4. CutOff(s[i])
        BY <4>1, <4>2, <4>3 DEF CutOff
      <4> QED BY <4>4 DEF MayLeave
    <3>3. i \in Int /\ k \in Int
      BY <1>2
    <3> QED BY <2>3, <3>1, <3>2, <3>3
  <2> QED BY <1>9, <2>1, <2>2, <2>3
<1> QED BY <1>1, <1>3, <1>10, <1>11, <1>12, StepFrom

----------------------------------------------------------------------------
LEMMA AttrStarts == AttrInit => AttrInv
<1> SUFFICES ASSUME AttrInit PROVE AttrInv
  OBVIOUS
<1>1. /\ attr = [n \in AttrNodes |-> XmlAttrInit] /\ firstAttr = NoAttr /\ attrCrash = FALSE
  BY DEF AttrInit
<1>2. XmlAttrInit \in AttrRec /\ XmlAttrInit.next = NoAttr /\ XmlAttrInit.prev = NoAttr
      /\ XmlAttrInit.owned = FALSE
  <2>1. NoAttr \in AttrPtr /\ NoValue \in AttrValues \cup {NoValue} /\ FALSE \in BOOLEAN
    BY DEF AttrPtr
  <2> QED BY <2>1, Zenon DEF XmlAttrInit, AttrRec
<1>3. \A n \in AttrNodes : attr[n] = XmlAttrInit
  BY <1>1
<1>4. attr \in [AttrNodes -> AttrRec]
  BY <1>1, <1>2
<1>5. PICK W : W = [n \in AttrNodes |-> 0]
  OBVIOUS
<1>6. /\ \A n \in AttrNodes : NextOf(attr)[n] = NoAttr /\ PrevOf(attr)[n] = NoAttr
      /\ OwnedIn(attr) = {}
  BY <1>2, <1>3 DEF NextOf, PrevOf, OwnedIn
<1>7. /\ NextOf(attr) \in [AttrNodes -> AttrPtr] /\ PrevOf(attr) \in [AttrNodes -> AttrPtr]
      /\ NoAttr \in AttrPtr
  BY <1>4, PointersOf DEF NextOf, PrevOf, AttrPtr
<1>8. W \in [AttrNodes -> 0..0] /\ 0 \in Nat
  BY <1>5
<1>9. Ranked(NextOf(attr), PrevOf(attr), OwnedIn(attr), firstAttr, W, 0)
  BY <1>1, <1>6, <1>7, <1>8 DEF Ranked
<1>10. PICK s \in Seq(AttrNodes) : Len(s) = 0
  <2>1. <<>> \in Seq(AttrNodes) /\ Len(<<>>) = 0
    OBVIOUS
  <2> QED BY <2>1
<1>11. AttrPath(NextOf(attr), firstAttr, s)
  <2>1. \A i \in 1..(Len(s) - 1) : FALSE
    BY <1>10
  <2> QED BY <1>1, <1>10, <2>1 DEF AttrPath
<1>12. ToldOf(PrevOf(attr), s) /\ NamesApart(s)
  BY <1>10 DEF ToldOf, NamesApart
<1>13. AttrShape(attr, firstAttr, s)
  BY <1>4, <1>9, <1>11, <1>12 DEF AttrShape
<1> QED BY <1>1, <1>13 DEF AttrInv, AttrCrashCause

LEMMA AttrSteps ==
  AttrInv /\ (AttrNext \/ UNCHANGED attrVars) => AttrInv' /\ (AttrsKeptNow \/ UNCHANGED attrVars)
<1> SUFFICES ASSUME AttrInv, AttrNext \/ UNCHANGED attrVars
             PROVE  AttrInv' /\ (AttrsKeptNow \/ UNCHANGED attrVars)
  OBVIOUS
<1>1. CASE UNCHANGED attrVars
  <2>1. attr' = attr /\ firstAttr' = firstAttr /\ elemOwned' = elemOwned /\ attrCrash' = attrCrash
    BY <1>1 DEF attrVars
  <2>2. AttrList' = AttrList
    BY <2>1 DEF AttrList, AttrsFrom
  <2>3. Listed' = Listed
    BY <2>2 DEF Listed
  <2>4. PICK s : AttrShape(attr, firstAttr, s)
    BY DEF AttrInv
  <2>5. (\E r : AttrShape(attr, firstAttr, r))'
    BY <2>1, <2>4
  <2>6. AttrCrashCause'
    BY <2>1, <2>3, Zenon DEF AttrInv, AttrCrashCause
  <2> QED BY <1>1, <2>5, <2>6, Zenon DEF AttrInv
<1>2. CASE AttrNext
  <2>1. CASE \E n \in AttrNodes : XmlElementSetAttributeNode(n) \/ XmlElementRemoveAttributeNode(n)
    BY <2>1, SetNodeKept, RemoveNodeKept
  <2>2. CASE \E n \in AttrNodes, v \in AttrValues :
               XmlElementSetAttribute(n, v) \/ XmlElementSetAttributeNS(n, v)
    BY <2>2, SetKept, SetNSKept
  <2>3. CASE \E n \in AttrNodes : \/ XmlElementRemoveAttribute(AttrName[n])
                                  \/ XmlElementRemoveAttributeNS(AttrLocal[n])
    BY <2>3, RemoveKept, RemoveNSKept
  <2> QED BY <1>2, <2>1, <2>2, <2>3 DEF AttrNext
<1> QED BY <1>1, <1>2

LEMMA MapShows == AttrInv => MapShowsList /\ AttrCrashCause
BY MapShowsAll DEF AttrInv
=============================================================================
