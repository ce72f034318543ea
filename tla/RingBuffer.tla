----------------------------- MODULE RingBuffer -----------------------------
(***************************************************************************)
(* klib::RingBuffer (klib/ring_buffer.hpp): two free-running indices of    *)
(* type usize and an array that both passes of a copy address modulo size. *)
(* The indices wrap modulo 2^Width; the code's usize has 64 bits.  A size  *)
(* that does not divide 2^Width would break the addressing at the wrap.    *)
(***************************************************************************)
EXTENDS Integers, Sequences

CONSTANTS
  size,        \* the template parameter s
  Width,       \* bits of an index
  Values,
  Inputs,      \* sequences that are written
  MaxCount     \* largest count asked of read

\* The index type has more values than the buffer has elements, a multiple of them.
ASSUME RingAssumption ==
  /\ size \in Nat \ {0} /\ Width \in Nat /\ MaxCount \in Nat
  /\ \E k \in 2..2^Width : 2^Width = k * size
  /\ Inputs \subseteq Seq(Values)

VARIABLES read_index, write_index, data, out

ring_vars == <<read_index, write_index, data, out>>

min(a, b) == IF a < b THEN a ELSE b
\* data_count() and free_count() with the indices r and w
DataCount(r, w) == (w - r) % 2^Width
\* A bug: the buffer seems to have one element more.
FreeCount_Plus(r, w) == size + 1 - DataCount(r, w)
FreeCount(r, w) == size - DataCount(r, w)

\* out is what the last read or peek put into its buffer.
RingInit ==
  /\ read_index = 0 /\ write_index = 0
  /\ data \in [0..(size - 1) -> Values]       \* RingBuffer() leaves it uninitialized
  /\ out = <<>>

\* The two memcpy of read.
copy_out(r, count) ==
  LET offset == r % size
      first == min(count, size - offset)
  IN  [i \in 1..count |-> IF i <= first THEN data[offset + i - 1] ELSE data[i - first - 1]]

\* The two memcpy of write, into position w.
copy_in(w, s, count) ==
  LET offset == w % size
      first == min(count, size - offset)
  IN  [i \in 0..(size - 1) |->
         IF i \in offset..(offset + first - 1) THEN s[i - offset + 1]
         ELSE IF first < count /\ i < count - first THEN s[first + i + 1]
         ELSE data[i]]

RingRead(n) ==
  /\ LET count == min(n, DataCount(read_index, write_index)) IN
     /\ out' = copy_out(read_index, count)
     /\ read_index' = (read_index + count) % 2^Width
  /\ UNCHANGED <<write_index, data>>

\* write with the read index at r: truncate may have moved it.
write_at(r, s) ==
  LET count == min(Len(s), FreeCount(r, write_index)) IN
  /\ read_index' = r
  /\ data' = copy_in(write_index, s, count)
  /\ write_index' = (write_index + count) % 2^Width
  /\ UNCHANGED out

truncated(n) == (read_index + min(n, DataCount(read_index, write_index))) % 2^Width

RingWrite(s) == write_at(read_index, s)

RingTruncate(n) == read_index' = truncated(n) /\ UNCHANGED <<write_index, data, out>>

RingWriteTruncate(s) ==
  write_at(IF FreeCount(read_index, write_index) < Len(s) THEN truncated(Len(s)) ELSE read_index, s)

RingPeek ==
  /\ out' = IF DataCount(read_index, write_index) = 0 THEN <<>> ELSE <<data[read_index % size]>>
  /\ UNCHANGED <<read_index, write_index, data>>

RingNext ==
  \/ \E s \in Inputs : RingWrite(s) \/ RingWriteTruncate(s)
  \/ \E n \in 0..MaxCount : RingRead(n) \/ RingTruncate(n)
  \/ RingPeek

RingSpec == RingInit /\ [][RingNext]_ring_vars

-----------------------------------------------------------------------------
Contents == [i \in 1..DataCount(read_index, write_index) |->
               data[(read_index + i - 1) % size]]

Queue == INSTANCE Fifo WITH buf <- Contents, Size <- size

\* write_truncate keeps all of what it is given, at the cost of older elements
\* only, as long as that fits at all: a key's escape sequence is never cut.
KeepsNewest ==
  [][\A s \in Inputs : RingWriteTruncate(s) /\ Len(s) <= size =>
       LET n == Len(Contents') IN
       n >= Len(s) /\ SubSeq(Contents', n - Len(s) + 1, n) = s]_ring_vars

\* The ring buffer is a bounded FIFO queue: the elements between the indices,
\* taken modulo size, are what was written and not yet read, in order, wherever
\* the two copies split and whenever an index wraps (ring_buffer.hpp 24-73); and
\* write_truncate gives up older elements only.
IsFifo == Queue!Spec /\ KeepsNewest
=============================================================================
