----------------------------- MODULE VirtQueue -----------------------------
(***************************************************************************)
(* dev::virtio::Queue: a table of descriptors whose free ones are linked   *)
(* through next, the ring of submitted descriptors and the ring of used    *)
(* ones.  Both rings have as many slots as there are descriptors, and the  *)
(* indices wrap at a multiple of that, so a ring is the sequence of what   *)
(* its reader has not seen yet.  A queue is a record                       *)
(*   next   descriptor_array[i].next       free   free_desc_index          *)
(*   num    num_free_descs                 avail  submitted to the device  *)
(*   used   handed back, from last_seen_used on                            *)
(***************************************************************************)
EXTENDS Integers, Sequences, FiniteSets

QueueInit(L) ==
  [next |-> [i \in 0..(L - 1) |-> i + 1], free |-> 0, num |-> L, avail |-> <<>>, used |-> <<>>]

QueueLength(q) == Cardinality(DOMAIN q.next)

\* q.free = QueueLength(q) says that there is no descriptor.
alloc_descriptor(q) == [q EXCEPT !.free = q.next[q.free], !.num = @ - 1]

free_descriptor(q, i) == [q EXCEPT !.next[i] = q.free, !.free = i, !.num = @ + 1]

submit_descriptor(q, i) == [q EXCEPT !.avail = Append(@, i)]

\* The device is done with the descriptor (chain) i.
DeviceUses(q, i) ==
  [q EXCEPT !.avail = SelectSeq(@, LAMBDA d : d # i), !.used = Append(@, i)]

\* What an interrupt handler sees: it compares last_seen_used with the index of
\* the used ring modulo the length, so a full ring looks empty.
Visible(q) == IF Len(q.used) = QueueLength(q) THEN <<>> ELSE q.used

seen(q) == [q EXCEPT !.used = SubSeq(@, Len(Visible(q)) + 1, Len(@))]

\* The descriptors on the free list, which ends at QueueLength(q).
FreeList(q) ==
  LET f[n \in 0..QueueLength(q)] == IF n = 0 THEN q.free
        ELSE IF f[n - 1] \in DOMAIN q.next THEN q.next[f[n - 1]] ELSE f[n - 1]
  IN  {f[n] : n \in 0..QueueLength(q)} \cap DOMAIN q.next
=============================================================================
