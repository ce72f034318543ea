-------------------------------- MODULE Pty --------------------------------
(***************************************************************************)
(* dev::tty::PseudoTerminalEnd (dev/tty/pty.cpp): two ends, each with the  *)
(* ring buffer it reads from and one event on which both its readers and   *)
(* its writers sleep.  A ring buffer is the number of characters in it.    *)
(* What process_input_char and process_output_char do to a character is    *)
(* the number of characters they put: none for a signal character, two for *)
(* a translated line end, otherwise one.                                   *)
(***************************************************************************)
EXTENDS WaitOps

CONSTANTS
  TtyCapacity,    \* size of a ring buffer
  TtyCounts,      \* the counts of read, and the numbers of characters put
  TtyPending      \* bound on an event's pending counter

Ends == {"master", "slave"}
Peer(e) == IF e = "master" THEN "slave" ELSE "master"

VARIABLES
  pw,             \* event and thread states, see WaitOps
  pring,          \* [end -> number of characters to be read there]
  packet_mode,    \* of the master
  pcall           \* [thread -> [op, end, count]]

yvars == <<pw, pring, packet_mode, pcall>>

NoPtyCall == [op |-> "none", end |-> "master", count |-> 0]

PtyLeast(a, b) == IF a < b THEN a ELSE b

\* PseudoTerminalMultiplexer::open.
PtyInit ==
  /\ pw = WaitState(Threads, Ends)
  /\ pring = [e \in Ends |-> 0]
  /\ packet_mode = FALSE
  /\ pcall = [t \in Threads |-> NoPtyCall]

PtyWaits(c) ==
  IF c.op = "read" THEN pring[c.end] = 0 ELSE pring[Peer(c.end)] = TtyCapacity

\* What a call that need not wait does to the buffers.  In packet mode the first
\* byte that the master reads is not from the buffer.
Transfer(c) ==
  IF c.op = "read"
  THEN LET n == IF packet_mode /\ c.end = "master" /\ c.count > 0 THEN c.count - 1 ELSE c.count
       IN  [pring EXCEPT ![c.end] = @ - PtyLeast(n, @)]
  ELSE [pring EXCEPT ![Peer(c.end)] = PtyLeast(TtyCapacity, @ + c.count)]

\* A bug: the event of the caller's own end is triggered.
Wake_OwnEnd(s, c) == trigger(s, c.end, FALSE)
Wake(s, c) == trigger(s, Peer(c.end), FALSE)

\* read or write from the head of its loop, with event state s.
pty_loop(t, s, c, nonblock) ==
  /\ UNCHANGED packet_mode
  /\ \/ /\ ~PtyWaits(c)
        /\ s.pending[Peer(c.end)] < TtyPending
        /\ pring' = Transfer(c)
        /\ pw' = Wake(s, c)
        /\ pcall' = [pcall EXCEPT ![t] = NoPtyCall]
     \/ /\ PtyWaits(c) /\ (nonblock \/ s.sig[t])        \* EWOULDBLOCK, EINTR
        /\ pw' = s
        /\ pcall' = [pcall EXCEPT ![t] = NoPtyCall]
        /\ UNCHANGED pring
     \/ /\ PtyWaits(c) /\ ~nonblock /\ ~s.sig[t]
        /\ pw' = sleep(drain(s, c.end), t, <<c.end>>)
        /\ pcall' = [pcall EXCEPT ![t] = c]
        /\ UNCHANGED pring

PtyRead(t, e, count, nonblock) ==
  /\ pw.state[t] = "active"
  /\ pty_loop(t, pw, [op |-> "read", end |-> e, count |-> count], nonblock)

PtyWrite(t, e, count, nonblock) ==
  /\ pw.state[t] = "active"
  /\ pty_loop(t, pw, [op |-> "write", end |-> e, count |-> count], nonblock)

\* Event::wait returns to the loop, or with EINTR.
PtyResume(t) ==
  /\ pw.state[t] = "READY"
  /\ \/ ~Interrupted(pw, t) /\ pty_loop(t, settled(resume(pw, t), t), pcall[t], FALSE)
     \/ /\ Interrupted(pw, t)
        /\ pw' = settled(resume(pw, t), t)
        /\ pcall' = [pcall EXCEPT ![t] = NoPtyCall]
        /\ UNCHANGED <<pring, packet_mode>>

\* ioctl(TIOCPKT) on the master.
SetPacketMode(b) == packet_mode' = b /\ UNCHANGED <<pw, pring, pcall>>

PtySignal(t, masked) ==
  /\ pw' = signal(pw, t, masked)
  /\ UNCHANGED <<pring, packet_mode, pcall>>

PtyHandler(t) ==
  /\ pw.state[t] = "active" /\ pw.sig[t]
  /\ pw' = dispatch(pw, t)
  /\ UNCHANGED <<pring, packet_mode, pcall>>

PtyNext ==
  \/ \E b \in BOOLEAN : SetPacketMode(b)
  \/ \E t \in Threads :
       \/ \E e \in Ends, count \in TtyCounts, nonblock \in BOOLEAN :
            PtyRead(t, e, count, nonblock) \/ PtyWrite(t, e, count, nonblock)
       \/ \E masked \in BOOLEAN : PtySignal(t, masked)
       \/ PtyResume(t) \/ PtyHandler(t)

PtySpec == PtyInit /\ [][PtyNext]_yvars

-----------------------------------------------------------------------------
\* Nobody sleeps for something that is already there: a read wakes the writers at
\* the other end and a write its readers, and no wake is used up by somebody at
\* the same end who waits for something else (pty.cpp 41, 66, 81).
PtyWakes == \A t \in Threads : pw.state[t] = "BLOCKED" => PtyWaits(pcall[t])
=============================================================================
