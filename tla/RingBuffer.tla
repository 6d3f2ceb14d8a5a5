----------------------------- MODULE RingBuffer -----------------------------
(***************************************************************************)
(* The ring buffer of libcwmp/src/ring_buffer.c. Its calls hold f_lock from *)
(* beginning to end, so each is one step. The bytes are the numbers 0..2   *)
(* in turn, which shows where one is missing or out of order.              *)
(***************************************************************************)
EXTENDS Integers, Sequences, SequencesExt

CONSTANT RingSize  \* a power of two, as ring_buffer_init demands: & (size - 1) is a remainder

ASSUME RingAssumption == RingSize \in Nat \ {0}

VARIABLES
  ring,     \* the memory
  in, out,  \* ring_buf->in, ring_buf->out
  pending,  \* the bytes put and not yet got, since a put last filled the ring
  turn      \* the next byte to put

ringVars == <<ring, in, out, pending, turn>>

RingByte == 0..2
Offsets == 0..(RingSize - 1)

RingTypeOK ==
  /\ ring \in [Offsets -> RingByte] /\ in \in Offsets /\ out \in Offsets
  /\ pending \in Seq(RingByte) /\ turn \in RingByte

RingInit ==
  /\ ring = [k \in Offsets |-> 0] /\ in = 0 /\ out = 0
  /\ pending = <<>> /\ turn = 0

\* & (ring_buf->size - 1).
Wrapped(k) == k % RingSize

__ring_buffer_len == IF in >= out THEN in - out ELSE RingSize + in - out

\* The room __ring_buffer_put sees: all of it when in and out meet.
Room == IF in >= out THEN RingSize - in + out ELSE out - in

\* ring_buffer_put of n bytes, from `in` to the end and on from the start.
\* 0 is returned, and nothing done, when they do not fit.
ring_buffer_put(n) ==
  /\ Room >= n
  /\ LET at(k) == Wrapped(k - in + RingSize) \* k gets the byte at(k) + 1
     IN  ring' = [k \in Offsets |-> IF at(k) < n THEN (turn + at(k)) % 3 ELSE ring[k]]
  /\ in' = Wrapped(in + n)
  /\ turn' = (turn + n) % 3
  /\ pending' = IF Len(pending) + n = RingSize THEN <<>>
                ELSE pending \o [k \in 1..n |-> (turn + k - 1) % 3]
  /\ UNCHANGED out

\* ring_buffer_get of n bytes: all or, when there are fewer, none. Either
\* way indices that meet are set back to 0.
ring_buffer_get(n) ==
  LET some == __ring_buffer_len >= n
      o == IF some THEN Wrapped(out + n) ELSE out
      meet == in = o
  IN  /\ out' = IF meet THEN 0 ELSE o
      /\ in' = IF meet THEN 0 ELSE in
      /\ pending' = IF some THEN SubSeq(pending, n + 1, Len(pending)) ELSE pending
      /\ UNCHANGED <<ring, turn>>

RingNext == \E n \in 1..RingSize : ring_buffer_put(n) \/ ring_buffer_get(n)

RingSpec == RingInit /\ [][RingNext]_ringVars

\* The bytes put and not got lie in order from `out` on, and the length is
\* their number, except that a put which fills the very last byte brings
\* `in` onto `out`: it is accepted, and all that was pending is lost.
RingKeepsBytes ==
  /\ __ring_buffer_len = Len(pending)
  /\ \A k \in DOMAIN pending : ring[Wrapped(out + k - 1)] = pending[k]
=============================================================================
