------------------------------ MODULE TimeSpec ------------------------------
(***************************************************************************)
(* klib::TimeSpec (klib/timespec.hpp): pairs of seconds and nanoseconds.   *)
(***************************************************************************)
EXTENDS Integers

CONSTANT Second     \* nanoseconds in a second

ASSUME SecondAssumption == Second \in Nat \ {0}

TimeSpecs == [s : Nat, ns : 0..(Second - 1)]

Zero == [s |-> 0, ns |-> 0]

\* The length of a TimeSpec in nanoseconds, and the TimeSpec of a length.
Nanos(x) == x.s * Second + x.ns
FromNanos(n) == [s |-> n \div Second, ns |-> n % Second]

\* operator -=, which stops at zero.  A borrow loses one nanosecond.
Minus(x, y) ==
  IF y.ns > x.ns
  THEN IF x.s = 0 \/ y.s > x.s - 1 THEN Zero
       ELSE [s |-> x.s - 1 - y.s, ns |-> Second - 1 - (y.ns - x.ns)]
  ELSE IF y.s > x.s THEN Zero
       ELSE [s |-> x.s - y.s, ns |-> x.ns - y.ns]
=============================================================================
