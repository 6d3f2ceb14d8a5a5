------------------------------ MODULE MemPool ------------------------------
(***************************************************************************)
(* The memory pool of libcwmp/src/pool/pool.c, from which the program      *)
(* takes nearly all its memory: blocks that are filled from the front,     *)
(* large pieces of their own, and handlers to run when the pool goes.      *)
(* pool_pnalloc, pool_pmemalign and pool_cleanup_palloc have no caller.    *)
(***************************************************************************)
EXTENDS Integers, Sequences, FiniteSets, SequencesExt

CONSTANTS
  PoolSize,      \* bytes of a block, the argument of pool_create
  PoolHead,      \* sizeof(pool_t)
  DataHead,      \* sizeof(pool_data_t), the head of every further block
  LargeSize,     \* sizeof(pool_large_t)
  CleanupSize,   \* sizeof(pool_cleanup_t)
  PoolAlign,     \* POOL_ALIGNMENT
  MaxFromPool,   \* POOL_MAX_ALLOC_FROM_POOL
  AllocSizes,    \* the sizes callers ask for
  MaxAllocs,     \* bound: pieces handed out
  MaxClears      \* bound: calls of pool_clear

Aligned(d) == ((d + PoolAlign - 1) \div PoolAlign) * PoolAlign

ASSUME PoolAssumption ==
  /\ {PoolSize, PoolHead, DataHead, LargeSize, CleanupSize, PoolAlign,
      MaxFromPool, MaxAllocs, MaxClears} \subseteq Nat
  /\ PoolAlign > 0 /\ AllocSizes \subseteq Nat
  /\ \A d \in {PoolSize, PoolHead, DataHead, LargeSize, CleanupSize} :
       d % PoolAlign = 0
  /\ DataHead <= PoolHead
  /\ PoolHead + LargeSize <= PoolSize /\ LargeSize <= MaxFromPool
  /\ PoolHead + CleanupSize <= PoolSize /\ CleanupSize <= MaxFromPool

VARIABLES
  blocks,    \* d.last of the blocks in the order of d.next, the pool first
  current,   \* pool->current: an index into blocks
  larges,    \* pool->large, newest first: the piece, or 0 once freed
  cleanups,  \* pool->cleanup, newest first: the piece the handler is given
  pieces,    \* every piece handed out and where it is
  cleared,   \* number of calls of pool_clear
  doubleFree \* TRUE: a piece went to free() a second time

poolVars == <<blocks, current, larges, cleanups, pieces, cleared, doubleFree>>

\* p->max.
PoolMax == IF PoolSize - PoolHead < MaxFromPool
           THEN PoolSize - PoolHead ELSE MaxFromPool

Piece0 == [block : Nat, from : Nat, to : Nat, use : {"caller", "large", "cleanup"},
          live : BOOLEAN]

PoolTypeOK ==
  /\ blocks \in Seq(Nat) /\ blocks # <<>>
  /\ current \in DOMAIN blocks
  /\ larges \in Seq(0..Len(pieces)) /\ cleanups \in Seq(DOMAIN pieces)
  /\ pieces \in Seq(Piece0)
  /\ cleared \in 0..MaxClears
  /\ doubleFree \in BOOLEAN

\* pool_create.
PoolInit ==
  /\ blocks = <<Aligned(PoolHead)>> /\ current = 1
  /\ larges = <<>> /\ cleanups = <<>> /\ pieces = <<>>
  /\ cleared = 0 /\ doubleFree = FALSE

LivePieces == {i \in DOMAIN pieces : pieces[i].live}

----------------------------------------------------------------------------
(* What one call of pool_palloc does to blocks and current, as a record:   *)
(* block 0 says that malloc failed.                                        *)

FitsIn(b, size) == PoolSize - blocks[b] >= size

\* The walk of pool_palloc_block: wherever a block before the last has less
\* than the alignment left, current moves behind it.
CurrentAfter ==
  LET full == {b \in current..(Len(blocks) - 1) : PoolSize - blocks[b] < PoolAlign}
  IN  IF full = {} THEN current
      ELSE (CHOOSE b \in full : \A c \in full : c <= b) + 1

pool_palloc_block(size, malloced) ==
  IF ~malloced THEN [blocks |-> blocks, current |-> current, block |-> 0, from |-> 0]
  ELSE [blocks |-> Append(blocks, DataHead + size), current |-> CurrentAfter,
        block |-> Len(blocks) + 1, from |-> DataHead]

\* pool_palloc of at most PoolMax: the first block from current on that has
\* room. The place is aligned, the room is measured from where it was not.
pool_palloc(size, malloced) ==
  LET fits == {b \in current..Len(blocks) : FitsIn(b, size)}
      b == CHOOSE c \in fits : \A d \in fits : c <= d
      m == Aligned(blocks[b])
  IN  IF fits = {} THEN pool_palloc_block(size, malloced)
      ELSE [blocks |-> [blocks EXCEPT ![b] = m + size], current |-> current,
            block |-> b, from |-> m]

Handed(r, size, use) ==
  [block |-> r.block, from |-> r.from, to |-> r.from + size, use |-> use,
   live |-> TRUE]

\* pool_pcalloc, pool_pmemdup, pool_pstrdup of a size that fits a block.
pool_pcalloc ==
  \E size \in AllocSizes, ok \in BOOLEAN :
    LET n == Aligned(size)
        r == pool_palloc(n, ok)
    IN  /\ n <= PoolMax
        /\ blocks' = r.blocks /\ current' = r.current
        /\ pieces' = IF r.block = 0 THEN pieces
                     ELSE Append(pieces, Handed(r, n, "caller"))
        /\ UNCHANGED <<larges, cleanups, cleared, doubleFree>>

\* pool_palloc_large: a piece from malloc (block 0 here) and an entry for it
\* from the pool; without the entry the piece is given back.
pool_palloc_large ==
  \E size \in AllocSizes, ok \in BOOLEAN :
    LET r == pool_palloc(LargeSize, ok)
        i == Len(pieces) + 2
    IN  /\ Aligned(size) > PoolMax
        /\ blocks' = r.blocks /\ current' = r.current
        /\ IF r.block = 0 THEN UNCHANGED <<pieces, larges>>
           ELSE /\ pieces' = pieces \o
                     <<Handed(r, LargeSize, "large"),
                       Handed([block |-> 0, from |-> 0], Aligned(size), "caller")>>
                /\ larges' = <<i>> \o larges
        /\ UNCHANGED <<cleanups, cleared, doubleFree>>

\* pool_cleanup_add for a piece the caller has.
pool_cleanup_add(i) ==
  \E ok \in BOOLEAN :
    LET r == pool_palloc(CleanupSize, ok)
    IN  /\ pieces[i].use = "caller"
        /\ blocks' = r.blocks /\ current' = r.current
        /\ IF r.block = 0 THEN UNCHANGED <<pieces, cleanups>>
           ELSE /\ pieces' = Append(pieces, Handed(r, CleanupSize, "cleanup"))
                /\ cleanups' = <<i>> \o cleanups
        /\ UNCHANGED <<larges, cleared, doubleFree>>

\* A slip the properties notice: the entry of the large piece keeps pointing.
pool_pfreeKeepsEntry(i) ==
  /\ pieces[i].use = "caller"
  /\ pieces' = [pieces EXCEPT ![i].live = FALSE]
  /\ UNCHANGED <<blocks, current, larges, cleanups, cleared, doubleFree>>

\* pool_pfree: a large piece goes back; of the others nothing is returned,
\* they stay taken, though the caller has given them up.
pool_pfree(i) ==
  /\ pieces[i].use = "caller"
  /\ larges' = [k \in DOMAIN larges |-> IF larges[k] = i THEN 0 ELSE larges[k]]
  /\ pieces' = [pieces EXCEPT ![i].live = FALSE]
  /\ UNCHANGED <<blocks, current, cleanups, cleared, doubleFree>>

\* A slip the properties notice: current stays on a block that is freed.
pool_clearKeepsCurrent ==
  /\ cleared < MaxClears
  /\ doubleFree' = \/ doubleFree
                   \/ \E k \in DOMAIN larges : larges[k] # 0 /\ ~pieces[larges[k]].live
  /\ blocks' = <<PoolHead>> /\ current' = current
  /\ larges' = <<>> /\ cleanups' = <<>> /\ pieces' = <<>>
  /\ cleared' = cleared + 1

\* pool_clear, and pool_destroy with a new pool_create: the handlers run,
\* then the large pieces and the further blocks are freed.
pool_clear ==
  /\ cleared < MaxClears
  /\ doubleFree' = \/ doubleFree
                   \/ \E k \in DOMAIN larges : larges[k] # 0 /\ ~pieces[larges[k]].live
  /\ blocks' = <<PoolHead>> /\ current' = 1
  /\ larges' = <<>> /\ cleanups' = <<>> /\ pieces' = <<>>
  /\ cleared' = cleared + 1

PoolNext ==
  \/ Len(pieces) < MaxAllocs /\ (pool_pcalloc \/ pool_palloc_large)
  \/ \E i \in LivePieces :
       pool_pfree(i) \/ (Len(pieces) < MaxAllocs /\ pool_cleanup_add(i))
  \/ pool_clear

PoolSpec == PoolInit /\ [][PoolNext]_poolVars

----------------------------------------------------------------------------
(* Properties.                                                             *)

Overlap(p, q) == p.block = q.block /\ p.from < q.to /\ q.from < p.to

\* No two pieces share a byte, be they the caller's or the pool's own lists,
\* none touches the head of its block or goes past its end, and the fill
\* mark of a block is behind everything taken from it, also for pieces that
\* were given up: until the pool is cleared nothing is handed out twice.
PiecesApart ==
  /\ \A i, j \in DOMAIN pieces : i # j =>
       pieces[i].block = 0 \/ ~Overlap(pieces[i], pieces[j])
  /\ \A i \in DOMAIN pieces :
       LET p == pieces[i]
       IN  p.block # 0 => /\ p.from >= (IF p.block = 1 THEN PoolHead ELSE DataHead)
                          /\ p.to <= blocks[p.block] /\ blocks[p.block] <= PoolSize
                          /\ p.from % PoolAlign = 0

\* Clearing frees every large piece still held, and each just once.
LargeFreedOnce ==
  /\ ~doubleFree
  /\ \A i \in LivePieces : (pieces[i].block = 0) <=> (\E k \in DOMAIN larges : larges[k] = i)
  /\ \A j, k \in DOMAIN larges : (j # k /\ larges[j] # 0) => larges[j] # larges[k]

MemoryApart == PiecesApart /\ LargeFreedOnce
=============================================================================
