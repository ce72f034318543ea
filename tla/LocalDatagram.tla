--------------------------- MODULE LocalDatagram ---------------------------
(***************************************************************************)
(* AF_LOCAL datagram sockets.  One event per socket serves its readers and *)
(* its writers: a writer to a full buffer waits on the event of its own    *)
(* socket, and whoever takes a datagram triggers the event of the socket   *)
(* that sent it.                                                           *)
(***************************************************************************)
EXTENDS WaitOps

CONSTANTS
  Socks,
  Names,      \* sockets that bind has given a name in the file system
  DgramCap,   \* datagrams that a ring_buffer holds
  MaxPending, \* bound on the triggers an event can have pending
  Null

VARIABLES
  dw,         \* threads and socket_event of each socket, see WaitOps
  dring,      \* [socket -> ring_buffer], a datagram is its sender
  connected,  \* [socket -> socket or Null]
  dcall,      \* [thread -> [op, sock, target] of the call it sleeps in, or Null]
  dwriters    \* [socket -> sockets that have sent to it]

dvars == <<dw, dring, connected, dcall, dwriters>>

\* socketpair connects the first two; others are connected by name.
DgramInit ==
  /\ dw = WaitState(Threads, Socks)
  /\ dring = [s \in Socks |-> <<>>]
  /\ connected \in {c \in [Socks -> Socks \cup {Null}] :
        \A s \in Socks : /\ c[s] # Null => c[s] # s /\ c[c[s]] = s
                         /\ s \in Names => c[s] = Null}
  /\ dcall = [t \in Threads |-> Null]
  /\ dwriters = [s \in Socks |-> {}]

DgramRunning(t) == dw.state[t] = "active" /\ dcall[t] = Null

connect(t, s, to) ==
  /\ DgramRunning(t) /\ to \in Names
  /\ connected' = [connected EXCEPT ![s] = to]
  /\ UNCHANGED <<dw, dring, dcall, dwriters>>

Room(e) == dw.pending[e] < MaxPending

\* A call sleeps on the event of its socket, or ends: the descriptor is
\* nonblocking, or a signal is pending.
Waits(v, t, c, nonblock) ==
  /\ UNCHANGED <<dring, dwriters>>
  /\ IF nonblock \/ v.sig[t]
     THEN dw' = v /\ dcall' = [dcall EXCEPT ![t] = Null]
     ELSE dw' = sleep(drain(v, c.sock), t, <<c.sock>>) /\ dcall' = [dcall EXCEPT ![t] = c]

\* After a read from the socket s: the sender of the datagram may have room.
Tells(v, s) == trigger(v, Head(dring[s]), FALSE)

\* The loops of recvmsg and sendmsg from their heads, in the state v.
DgramRecv(v, t, c, nonblock) ==
  IF dring[c.sock] = <<>> THEN Waits(v, t, c, nonblock)
  ELSE /\ Room(Head(dring[c.sock]))
       /\ dring' = [dring EXCEPT ![c.sock] = Tail(@)]
       /\ dw' = Tells(v, c.sock)
       /\ dcall' = [dcall EXCEPT ![t] = Null]
       /\ UNCHANGED dwriters

DgramSend(v, t, c, nonblock) ==
  IF Len(dring[c.target]) = DgramCap THEN Waits(v, t, c, nonblock)
  ELSE /\ Room(c.target)
       /\ dring' = [dring EXCEPT ![c.target] = Append(@, c.sock)]
       /\ dw' = trigger(v, c.target, FALSE)
       /\ dcall' = [dcall EXCEPT ![t] = Null]
       /\ dwriters' = [dwriters EXCEPT ![c.target] = @ \cup {c.sock}]

dgram_recvmsg(t, s, nonblock) ==
  /\ DgramRunning(t)
  /\ DgramRecv(dw, t, [op |-> "recv", sock |-> s, target |-> Null], nonblock)
  /\ UNCHANGED connected

\* To the socket that s is connected to, else to the one it names.
dgram_sendmsg(t, s, name, nonblock) ==
  LET to == IF connected[s] # Null THEN connected[s] ELSE name IN
  /\ DgramRunning(t) /\ to # Null
  /\ DgramSend(dw, t, [op |-> "send", sock |-> s, target |-> to], nonblock)
  /\ UNCHANGED connected

DgramResume(t) ==
  LET v == settled(resume(dw, t), t) IN
  /\ dw.state[t] = "READY"
  /\ IF Interrupted(dw, t)
     THEN dw' = v /\ dcall' = [dcall EXCEPT ![t] = Null] /\ UNCHANGED <<dring, dwriters>>
     ELSE IF dcall[t].op = "recv" THEN DgramRecv(v, t, dcall[t], FALSE) ELSE DgramSend(v, t, dcall[t], FALSE)
  /\ UNCHANGED connected

DgramSignal(t) ==
  /\ ~dw.sig[t]
  /\ dw' = signal(dw, t, FALSE)
  /\ UNCHANGED <<dring, connected, dcall, dwriters>>

DgramHandler(t) ==
  /\ DgramRunning(t) /\ dw.sig[t]
  /\ dw' = dispatch(dw, t)
  /\ UNCHANGED <<dring, connected, dcall, dwriters>>

DgramNext ==
  \/ \E t \in Threads : DgramResume(t) \/ DgramSignal(t) \/ DgramHandler(t)
  \/ \E t \in Threads, s \in Socks :
       \/ \E to \in Names \ {s} : connect(t, s, to)
       \/ \E nonblock \in BOOLEAN : dgram_recvmsg(t, s, nonblock)
                                    \/ \E name \in Names \cup {Null} : dgram_sendmsg(t, s, name, nonblock)

DgramSpec == DgramInit /\ [][DgramNext]_dvars

-----------------------------------------------------------------------------
\* Nobody sleeps in recvmsg when a datagram is there, and nobody in sendmsg when
\* there is room, as long as one socket only has sent to the target: a reader
\* tells the sender of what it took, and not the others who wait for room
\* (datagram.cpp 137, 164-169).
DgramWakes ==
  \A t \in Threads : dw.state[t] = "BLOCKED" =>
     IF dcall[t].op = "recv" THEN dring[dcall[t].sock] = <<>>
     ELSE Len(dring[dcall[t].target]) = DgramCap \/ dwriters[dcall[t].target] # {dcall[t].sock}
=============================================================================
