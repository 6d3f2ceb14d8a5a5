---------------------------- MODULE ChunkBuffer ----------------------------
(***************************************************************************)
(* Chunks (libcwmp/src/buffer.c): the messages and headers the client      *)
(* sends and receives, kept in a list of buffers of one size. The bytes    *)
(* are numbered as they are written, so that an order can be told.         *)
(***************************************************************************)
EXTENDS Integers, Sequences, SequencesExt

CONSTANTS
  BufferSize,  \* DEFAULT_BUFFER_SIZE
  WriteSizes,  \* the lengths callers write
  CopySizes,   \* the room callers have when they copy a chunk out
  MaxWritten   \* bound: bytes written between two calls of cwmp_chunk_clear

ASSUME ChunkAssumption ==
  /\ BufferSize \in Nat \ {0} /\ MaxWritten \in Nat
  /\ WriteSizes \subseteq Nat /\ CopySizes \subseteq Nat

VARIABLES
  buffers,  \* the strings of the buffers, in order; the last is current
  bytes,    \* cb->bytes
  given     \* every byte handed to cwmp_chunk_write_string and accepted

chunkVars == <<buffers, bytes, given>>

ChunkTypeOK ==
  /\ buffers \in Seq(Seq(Nat)) /\ given \in Seq(Nat)
  /\ bytes \in 0..MaxWritten

\* cwmp_chunk_create, cwmp_chunk_init: no buffer yet.
ChunkInit == buffers = <<>> /\ bytes = 0 /\ given = <<>>

\* cwmp_buffer_remain of cb->current, which may be NULL.
cwmp_buffer_remain(bs) ==
  IF bs = <<>> THEN 0 ELSE BufferSize - Len(Last(bs))

\* cwmp_buffer_create, and the link from the buffer before.
cwmp_buffer_create(bs) == Append(bs, <<>>)

\* cwmp_buffer_write_bytes: all of s or, where it does not fit, nothing.
cwmp_buffer_write_bytes(bs, s) ==
  IF Len(s) > cwmp_buffer_remain(bs) THEN bs
  ELSE [bs EXCEPT ![Len(bs)] = @ \o s]

\* One round of the loop of cwmp_chunk_write_string, with `writed` bytes of s
\* in the buffers: what has room in the current one, or in a new one, of
\* which memory allows `last`. What was written when it fails stays written.
Round(c, s, last) ==
  LET full == cwmp_buffer_remain(c.bs) = 0
      at == IF full THEN cwmp_buffer_create(c.bs) ELSE c.bs
      len == cwmp_buffer_remain(at)
      leftbytes == Len(s) - c.writed
      writebytes == IF leftbytes > len THEN len ELSE leftbytes
  IN  IF leftbytes = 0 \/ (full /\ Len(c.bs) >= last) THEN c
      ELSE [bs |-> cwmp_buffer_write_bytes(at, SubSeq(s, c.writed + 1, c.writed + writebytes)),
            writed |-> c.writed + writebytes]

\* A round writes a byte at least, so that Len(s) of them are enough.
WriteLoop(bs, s, last) ==
  LET Rounds[k \in 0..Len(s)] ==
        IF k = 0 THEN [bs |-> bs, writed |-> 0] ELSE Round(Rounds[k - 1], s, last)
  IN  Rounds[Len(s)]

cwmp_chunk_write_string ==
  \E n \in WriteSizes, last \in 0..(MaxWritten \div BufferSize + 1) :
    LET s == [i \in 1..n |-> Len(given) + i]
        r == WriteLoop(buffers, s, last)
    IN  /\ bytes + n <= MaxWritten
        /\ buffers' = r.bs
        /\ bytes' = bytes + r.writed
        /\ given' = given \o SubSeq(s, 1, r.writed)

\* cwmp_chunk_clear: the buffers are forgotten; the pool keeps them.
cwmp_chunk_clear == buffers' = <<>> /\ bytes' = 0 /\ given' = <<>>

\* cwmp_chunk_copy: at most max bytes, buffer by buffer; a NUL follows them.
cwmp_chunk_copy(max) ==
  LET Take[i \in 0..Len(buffers)] ==
        IF i = 0 THEN <<>>
        ELSE LET got == Take[i - 1]
                 left == bytes - Len(got)
                 b == IF left > Len(buffers[i]) THEN Len(buffers[i]) ELSE left
                 d == max - Len(got)
             IN  got \o SubSeq(buffers[i], 1, IF d > b THEN b ELSE d)
  IN  Take[Len(buffers)]

ChunkNext == cwmp_chunk_write_string \/ cwmp_chunk_clear

ChunkSpec == ChunkInit /\ [][ChunkNext]_chunkVars

\* A copy of a chunk is the beginning of what was written, all of it when
\* there is room, wherever the writes were split over the buffers and
\* whichever of them failed half-way, and cb->bytes counts just that.
ChunkHolds ==
  /\ bytes = Len(given)
  /\ \A max \in CopySizes :
       cwmp_chunk_copy(max) = SubSeq(given, 1, IF max < bytes THEN max ELSE bytes)
  /\ \A i \in DOMAIN buffers : Len(buffers[i]) <= BufferSize
=============================================================================
