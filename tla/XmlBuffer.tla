----------------------------- MODULE XmlBuffer -----------------------------
(***************************************************************************)
(* The buffer a tree is printed into (libcwmp/src/xmlet/buffer.c), by the  *)
(* lengths its code computes with. It grows through pool_prealloc, which   *)
(* copies as many bytes as it is told the old buffer has.                  *)
(***************************************************************************)
EXTENDS Integers

CONSTANTS
  SizeInc,     \* MEMBUF_DEF_SIZE_INC
  AppendSizes, \* lengths callers append, and 0
  MaxXmlBuffer \* bound: length of the buffer

ASSUME XmlBufferAssumption ==
  /\ SizeInc \in Nat \ {0} /\ MaxXmlBuffer \in Nat
  /\ AppendSizes \subseteq Nat

VARIABLES
  xlength,    \* m->length
  xcapacity,  \* m->capacity
  xalloc,     \* bytes m->buf points at: 0 while it is NULL
  xvalid,     \* how many of them hold what was put there
  xfault      \* TRUE: a byte outside the buffer was touched

xbufVars == <<xlength, xcapacity, xalloc, xvalid, xfault>>

XmlBufferTypeOK ==
  /\ {xlength, xcapacity, xalloc, xvalid} \subseteq Nat
  /\ xfault \in BOOLEAN

XmlBufferInit ==
  xlength = 0 /\ xcapacity = 0 /\ xalloc = 0 /\ xvalid = 0 /\ xfault = FALSE

\* XmlBufferSetSize to n, where bigger and smaller say whether the pool has
\* what is asked for first and, after that failed, just enough: the new
\* capacity and the bytes of the old buffer that are carried over.
XmlBufferSetSize(n, bigger, smaller) ==
  LET same == [ok |-> TRUE, cap |-> xcapacity, alloc |-> xalloc, kept |-> xvalid]
      none == [same EXCEPT !.ok = FALSE]
      inc == n - xlength + 1
      want == (IF SizeInc > inc THEN SizeInc ELSE inc) + xcapacity
      Got(c) == [ok |-> TRUE, cap |-> c, alloc |-> c,
                 kept |-> IF xvalid < xlength THEN xvalid ELSE xlength]
  IN  IF n <= xlength \/ n < xcapacity THEN same
      ELSE IF bigger THEN Got(IF xlength = 0 THEN n + 1 ELSE want)
      ELSE IF smaller /\ xlength # 0 THEN Got(n + 1)
      ELSE none

\* XmlBufferInsert at the end, which is what XmlBufferAppend and
\* XmlBufferAppendString do: the bytes, then a NUL behind them.
XmlBufferInsert ==
  \E len \in AppendSizes, bigger, smaller \in BOOLEAN :
    LET n == xlength + len
        r == XmlBufferSetSize(n, bigger, smaller)
    IN  /\ n <= MaxXmlBuffer
        /\ IF len = 0 \/ ~r.ok THEN UNCHANGED xbufVars
           ELSE /\ xlength' = n /\ xcapacity' = r.cap /\ xalloc' = r.alloc
                /\ xvalid' = IF r.kept >= xlength THEN n ELSE r.kept
                /\ xfault' = (xfault \/ n + 1 > r.alloc)

\* XmlBufferAssign of something: the length becomes its length.
XmlBufferAssign ==
  \E len \in AppendSizes \ {0}, bigger, smaller \in BOOLEAN :
    LET r == XmlBufferSetSize(len, bigger, smaller)
    IN  /\ len <= MaxXmlBuffer
        /\ IF ~r.ok THEN UNCHANGED xbufVars
           ELSE /\ xlength' = len /\ xcapacity' = r.cap /\ xalloc' = r.alloc
                /\ xvalid' = len
                /\ xfault' = (xfault \/ len + 1 > r.alloc)

XmlBufferDestroy ==
  /\ xlength' = 0 /\ xcapacity' = 0 /\ xalloc' = 0 /\ xvalid' = 0
  /\ UNCHANGED xfault

XmlBufferNext == XmlBufferInsert \/ XmlBufferAssign \/ XmlBufferDestroy

XmlBufferSpec == XmlBufferInit /\ [][XmlBufferNext]_xbufVars

\* However the buffer grew, and also after the pool refused the size first
\* asked for, the text and its NUL lie inside the buffer and none of the
\* text was lost in a move to a bigger one.
TextFits ==
  /\ ~xfault
  /\ xcapacity <= xalloc
  /\ xlength > 0 => xlength < xcapacity /\ xvalid >= xlength
=============================================================================
