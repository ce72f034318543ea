-------------------------------- MODULE Fifo --------------------------------
(***************************************************************************)
(* What users of klib::RingBuffer rely on: a bounded queue that takes as   *)
(* much of a write as fits and gives as much of a read as it has.          *)
(***************************************************************************)
EXTENDS Integers, Sequences

CONSTANTS Size, Inputs, MaxCount

VARIABLES buf, out

Least(a, b) == IF a < b THEN a ELSE b
Prefix(s, n) == SubSeq(s, 1, Least(n, Len(s)))
Rest(s, n) == SubSeq(s, Least(n, Len(s)) + 1, Len(s))

Init == buf = <<>> /\ out = <<>>

Push(s) == buf' = buf \o Prefix(s, Size - Len(buf)) /\ UNCHANGED out

Pop(n) == out' = Prefix(buf, n) /\ buf' = Rest(buf, n)

Drop(n) == buf' = Rest(buf, n) /\ UNCHANGED out

\* Room for s is made by giving up the oldest elements.
PushEvict(s) ==
  LET kept == IF Size - Len(buf) < Len(s) THEN Rest(buf, Len(s)) ELSE buf
  IN  buf' = kept \o Prefix(s, Size - Len(kept)) /\ UNCHANGED out

Peek == out' = Prefix(buf, 1) /\ UNCHANGED buf

Next ==
  \/ \E s \in Inputs : Push(s) \/ PushEvict(s)
  \/ \E n \in 0..MaxCount : Pop(n) \/ Drop(n)
  \/ Peek

Spec == Init /\ [][Next]_<<buf, out>>
=============================================================================
