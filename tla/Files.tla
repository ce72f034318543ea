------------------------------- MODULE Files -------------------------------
(* The eventfds, pseudo terminals and local datagram sockets of a system,   *)
(* side by side: their calls may interleave in any way.                     *)
EXTENDS Eventfd, Pty, LocalDatagram

ASSUME FilesAssumption ==
  /\ COUNTER_MAX \in Nat /\ Initvals \subseteq 0..COUNTER_MAX
  /\ TtyCapacity \in Nat /\ TtyCounts \subseteq Nat
  /\ Null \notin Socks /\ Names \subseteq Socks
  /\ DgramCap \in Nat \ {0}

\* Nobody sleeps for something that is already there: whatever changes a buffer,
\* a counter or a number of open ends wakes everybody who waits for that change,
\* although readers and writers share an event and its pending counter
\* (eventfd.cpp 33, 50; pty.cpp 41, 66, 81; datagram.cpp 137, 164-169).  A sender of
\* datagrams is excepted when others have sent to the same socket, too.
\* For pipes, see NoLostWakeup, for streams ConnectionsWork.
NobodySleepsInVain ==
  EventfdWakes /\ PtyWakes /\ DgramWakes
=============================================================================
