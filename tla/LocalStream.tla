---------------------------- MODULE LocalStream ----------------------------
(***************************************************************************)
(* socket::LocalStreamSocket (userland/socket/local/stream.cpp): a socket  *)
(* srv that is bound to a path, clients that connect to it, and the        *)
(* sockets that accept creates.  Every socket has one event.  The event's  *)
(* name is the socket's, a ring buffer is the number of bytes in it.       *)
(* Programs are assumed to connect a socket once, also when the call ended *)
(* with EINTR, and not to close a socket while a thread is in a call on    *)
(* it, unless that thread has died.  The kernel does not check either.     *)
(***************************************************************************)
EXTENDS WaitOps, Functions

CONSTANTS
  srv, Clients,
  Connected,      \* sockets for accept to create; bounds the connections
  NoSock,
  StreamCapacity, \* size of a ring buffer
  StreamCounts    \* byte counts of recvmsg and sendmsg

Sockets == {srv} \cup Clients \cup Connected

\* The names of the sockets are different ones.
StreamAssumption ==
  /\ srv \notin Clients \cup Connected /\ Clients \cap Connected = {}
  /\ NoSock \notin Sockets
  /\ StreamCapacity \in Nat /\ StreamCounts \subseteq Nat

NoRing == -1

VARIABLES
  sw,             \* event and thread states, see WaitOps
  listening,      \* srv.max_pending > 0
  pending_list,   \* of srv, in order
  peer,           \* [socket -> socket or Null]
  ring,           \* [socket -> bytes in its ring buffer, or NoRing]
  life,           \* [socket -> "unborn" | "open" | "closed"]
  scall,          \* [thread -> [op, sock, count]]
  crashed         \* a null pointer was followed

svars == <<sw, listening, pending_list, peer, ring, life, scall, crashed>>

NoCall == [op |-> "none", sock |-> srv, count |-> 0]

Least(a, b) == IF a < b THEN a ELSE b

\* syscall_socket for the server and the clients, and bind.
StreamInit ==
  /\ sw = WaitState(Threads, Sockets)
  /\ listening = FALSE
  /\ pending_list = <<>>
  /\ peer = [s \in Sockets |-> NoSock]
  /\ ring = [s \in Sockets |-> NoRing]
  /\ life = [s \in Sockets |-> IF s \in Connected THEN "unborn" ELSE "open"]
  /\ scall = [t \in Threads |-> NoCall]
  /\ crashed = FALSE

EndCall(t) == scall' = [scall EXCEPT ![t] = NoCall]

\* A call returns an error, or the wait in it ends with EINTR.
Fail(t, s) ==
  /\ sw' = s
  /\ EndCall(t)
  /\ UNCHANGED <<listening, pending_list, peer, ring, life, crashed>>

\* The kernel follows the null pointer that peer has become.
Crash ==
  /\ crashed' = TRUE
  /\ UNCHANGED <<sw, listening, pending_list, peer, ring, life, scall>>

\* One round of the loop around socket_event.wait(), whose condition holds.
WaitLoop(t, s, c, nonblock) ==
  \/ (nonblock \/ s.sig[t]) /\ Fail(t, s)
  \/ /\ ~nonblock /\ ~s.sig[t]
     /\ sw' = sleep(drain(s, c.sock), t, <<c.sock>>)
     /\ scall' = [scall EXCEPT ![t] = c]
     /\ UNCHANGED <<listening, pending_list, peer, ring, life, crashed>>

Listen ==
  /\ ~listening
  /\ listening' = TRUE
  /\ UNCHANGED <<sw, pending_list, peer, ring, life, scall, crashed>>

\* connect: num_pending stays 0, so that only a server that does not listen
\* refuses.  The wait is not in a loop.
Connect(t, c) ==
  /\ sw.state[t] = "active"
  /\ life[c] = "open" /\ peer[c] = NoSock /\ ring[c] = NoRing /\ c \notin Range(pending_list)
  /\ listening
  /\ pending_list' = Append(pending_list, c)
  /\ LET s == trigger(sw, srv, FALSE) IN
     IF CanSleep(s, t, <<c>>)
     THEN /\ sw' = sleep(s, t, <<c>>)
          /\ scall' = [scall EXCEPT ![t] = [op |-> "connect", sock |-> c, count |-> 0]]
     ELSE sw' = s /\ UNCHANGED scall                    \* EINTR
  /\ UNCHANGED <<listening, peer, ring, life, crashed>>

\* A bug: only the new socket learns of the connection.
Link_OneWay(a, c) == [peer EXCEPT ![a] = c]
Link(a, c) == [peer EXCEPT ![a] = c, ![c] = a]

\* accept from the head of its loop, with event state s.
accept(t, s, nonblock) ==
  \/ /\ pending_list = <<>>
     /\ WaitLoop(t, s, [op |-> "accept", sock |-> srv, count |-> 0], nonblock)
  \/ /\ pending_list # <<>>
     /\ LET c == Head(pending_list) IN
        \E a \in Connected :
          /\ life[a] = "unborn"
          /\ pending_list' = Tail(pending_list)
          /\ peer' = Link(a, c)
          /\ ring' = [ring EXCEPT ![a] = 0, ![c] = IF @ = NoRing THEN 0 ELSE @]
          /\ sw' = trigger(s, c, FALSE)
          /\ life' = [life EXCEPT ![a] = "open"]
     /\ EndCall(t)
     /\ UNCHANGED <<listening, crashed>>

\* recvmsg from the head of its loop.  peer was checked before the loop only.
recvmsg(t, s, c, nonblock) ==
  \/ /\ ring[c.sock] = 0
     /\ WaitLoop(t, s, c, nonblock)
  \/ ring[c.sock] > 0 /\ peer[c.sock] = NoSock /\ Crash
  \/ /\ ring[c.sock] > 0 /\ peer[c.sock] # NoSock
     /\ ring' = [ring EXCEPT ![c.sock] = @ - Least(c.count, @)]
     /\ sw' = trigger(s, peer[c.sock], TRUE)
     /\ EndCall(t)
     /\ UNCHANGED <<listening, pending_list, peer, life, crashed>>

\* sendmsg from the head of its loop, likewise.
sendmsg(t, s, c, nonblock) ==
  LET p == peer[c.sock] IN
  \/ p = NoSock /\ Crash
  \/ /\ p # NoSock /\ ring[p] = StreamCapacity
     /\ WaitLoop(t, s, c, nonblock)
  \/ /\ p # NoSock /\ ring[p] < StreamCapacity
     /\ ring' = [ring EXCEPT ![p] = Least(StreamCapacity, @ + c.count)]
     /\ sw' = trigger(s, p, TRUE)
     /\ EndCall(t)
     /\ UNCHANGED <<listening, pending_list, peer, life, crashed>>

Accept(t, nonblock) ==
  sw.state[t] = "active" /\ accept(t, sw, nonblock)

\* Without a peer or its buffer the calls return ENOTCONN.
Recv(t, x, count, nonblock) ==
  /\ sw.state[t] = "active" /\ life[x] = "open"
  /\ peer[x] # NoSock /\ ring[x] # NoRing
  /\ recvmsg(t, sw, [op |-> "recv", sock |-> x, count |-> count], nonblock)

Send(t, x, count, nonblock) ==
  /\ sw.state[t] = "active" /\ life[x] = "open"
  /\ peer[x] # NoSock => ring[peer[x]] # NoRing
  /\ peer[x] # NoSock
  /\ sendmsg(t, sw, [op |-> "send", sock |-> x, count |-> count], nonblock)

\* Event::wait returns, with EINTR or to the loop; connect has no loop.
WakeUp(t) ==
  /\ sw.state[t] = "READY"
  /\ LET s == settled(resume(sw, t), t) IN
     \/ (Interrupted(sw, t) \/ scall[t].op = "connect") /\ Fail(t, s)
     \/ /\ ~Interrupted(sw, t)
        /\ \/ scall[t].op = "accept" /\ accept(t, s, FALSE)
           \/ scall[t].op = "recv" /\ recvmsg(t, s, scall[t], FALSE)
           \/ scall[t].op = "send" /\ sendmsg(t, s, scall[t], FALSE)

\* close when the last descriptor goes.  The peer is not woken, and a socket that
\* waits to be accepted stays on the list.
Close(x) ==
  /\ x # srv /\ life[x] = "open"
  /\ \A t \in Threads : scall[t] # NoCall /\ scall[t].sock = x => sw.state[t] = "ZOMBIE"
  /\ life' = [life EXCEPT ![x] = "closed"]
  /\ ring' = [ring EXCEPT ![x] = NoRing]
  /\ peer' = [s \in Sockets |-> IF s = peer[x] THEN NoSock ELSE peer[s]]
  /\ UNCHANGED <<sw, listening, pending_list, scall, crashed>>

SignalThread(t, masked) ==
  /\ sw.state[t] # "ZOMBIE"
  /\ sw' = signal(sw, t, masked)
  /\ UNCHANGED <<listening, pending_list, peer, ring, life, scall, crashed>>

RunHandler(t) ==
  /\ sw.state[t] = "active" /\ sw.sig[t]
  /\ sw' = dispatch(sw, t)
  /\ UNCHANGED <<listening, pending_list, peer, ring, life, scall, crashed>>

\* exit_group or a fatal signal, also while the thread sleeps.
KillThread(t) ==
  /\ sw.state[t] # "ZOMBIE"
  /\ sw' = terminate(sw, t)
  /\ UNCHANGED <<listening, pending_list, peer, ring, life, scall, crashed>>

StreamThreadStep(t) ==
  \/ \E c \in Clients : Connect(t, c)
  \/ \E nonblock \in BOOLEAN :
       \/ Accept(t, nonblock)
       \/ \E x \in Sockets, count \in StreamCounts :
            Recv(t, x, count, nonblock) \/ Send(t, x, count, nonblock)
  \/ \E masked \in BOOLEAN : SignalThread(t, masked)
  \/ WakeUp(t) \/ RunHandler(t) \/ KillThread(t)

StreamNext ==
  /\ ~crashed
  /\ \/ Listen
     \/ \E x \in Sockets : Close(x)
     \/ \E t \in Threads : StreamThreadStep(t)

StreamSpec == StreamInit /\ [][StreamNext]_svars

-----------------------------------------------------------------------------
\* Nobody sleeps for something that is already there, except for a sender whose
\* peer has gone: close wakes nobody (stream.cpp 37-44).
SleepersWait ==
  \A t \in Threads : sw.state[t] = "BLOCKED" =>
    LET x == scall[t].sock IN
    \/ scall[t].op = "accept" /\ pending_list = <<>>
    \/ scall[t].op = "connect" /\ x \in Range(pending_list)
    \/ scall[t].op = "recv" /\ ring[x] = 0
    \/ scall[t].op = "send" /\ (peer[x] # NoSock => ring[peer[x]] = StreamCapacity)

\* The connection is mutual: whatever an open socket takes for its peer takes it
\* for its own, in whichever order connects, accepts, interrupted connects and
\* closes come (stream.cpp 28-44, 154-162).
PeersAgree ==
  \A s \in Sockets : life[s] = "open" /\ peer[s] # NoSock => peer[peer[s]] = s

\* connect returns 0 only for a socket that was accepted, although it does not
\* look again when its wait is over (stream.cpp 113-120).
ConnectMeansAccepted ==
  \A t \in Threads :
    sw.state[t] = "READY" /\ scall[t].op = "connect" /\ ~Interrupted(sw, t)
      => ring[scall[t].sock] # NoRing /\ scall[t].sock \notin Range(pending_list)

\* A stream's connection is mutual: whatever an open socket takes for its peer takes
\* it for its own, in whichever order connects, accepts, interrupted connects and
\* closes come; connect returns 0 only for a socket that was accepted, although it
\* does not look again when its wait is over; and nobody sleeps for a connection,
\* for bytes or for space that is already there, except for a sender whose peer was
\* closed (stream.cpp 28-44, 112-120, 154-163, 234, 285).
ConnectionsWork == SleepersWait /\ PeersAgree /\ ConnectMeansAccepted
=============================================================================
