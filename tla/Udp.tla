-------------------------------- MODULE Udp --------------------------------
(***************************************************************************)
(* UDP sockets: ports, arriving datagrams and recvmsg.  udp_process runs   *)
(* in the IoService thread, which can be preempted between looking up the  *)
(* socket of a port and giving it the datagram.  Sending is module Net.    *)
(***************************************************************************)
EXTENDS WaitOps

CONSTANTS
  UdpSocks,   \* the UDP sockets
  Ports,      \* ports that bind names
  AllocPorts, \* PORT_ALLOC_RANGE_START .. PORT_ALLOC_RANGE_END - 1
  Cap,        \* datagrams that a ring_buffer holds
  MaxArrivals, \* bound on the datagrams that arrive at a socket
  NoSock

\* No port has the number 0.
UdpAssumption ==
  /\ NoSock \notin UdpSocks
  /\ Ports \subseteq Nat \ {0} /\ AllocPorts \subseteq Nat \ {0}
  /\ Cap \in Nat \ {0}

VARIABLES
  uw,         \* threads and socket_event of each socket, see WaitOps
  open,       \* sockets that are not closed
  ring,       \* [socket -> ring_buffer], datagrams by their number
  port_table, \* [port -> socket or NoSock]
  bound, has_port, \* [socket -> bound_address.port], sockets with has_port
  arrivals,   \* [socket -> datagrams that it was given]
  target,     \* the socket that udp_process has looked up, or NoSock
  ucall,      \* [thread -> socket of its recvmsg, or NoSock]
  rebound     \* sockets that were bound again when they had a port

uvars == <<uw, open, ring, port_table, bound, has_port, arrivals, target, ucall, rebound>>

AllPorts == Ports \cup AllocPorts \cup {0}

UdpInit ==
  /\ uw = WaitState(Threads, UdpSocks)
  /\ open = UdpSocks
  /\ ring = [s \in UdpSocks |-> <<>>]
  /\ port_table = [p \in AllPorts |-> NoSock]
  /\ bound = [s \in UdpSocks |-> 0]
  /\ has_port = {}
  /\ arrivals = [s \in UdpSocks |-> 0]
  /\ target = NoSock
  /\ ucall = [t \in Threads |-> NoSock]
  /\ rebound = {}

Running(t) == uw.state[t] = "active" /\ ucall[t] = NoSock

\* alloc_port gives p: the chosen one, or the lowest free one when none is chosen, or
\* 0 when none is free.
AllocatesPort(chosen, p) ==
  LET fit == {o \in AllocPorts : port_table[o] = NoSock} IN
  IF chosen = 0 /\ fit # {} THEN p \in fit /\ \A o \in fit : p <= o ELSE p = chosen

\* alloc_port refuses a port in use.  A bug: it is taken over.
Available_Any(p) == TRUE
Available(p) == port_table[p] = NoSock

\* bind.  from_sockaddr has set bound_address.port to the named port when free_port
\* looks at it.
bind(t, s, chosen, p) ==
  LET freed == IF s \in has_port THEN {chosen} ELSE {} IN
  /\ Running(t) /\ s \in open
  /\ AllocatesPort(chosen, p) /\ Available(p)
  /\ port_table' = [o \in AllPorts |-> IF o \in freed THEN NoSock
                                       ELSE IF o = p THEN s ELSE port_table[o]]
  /\ bound' = [bound EXCEPT ![s] = p]
  /\ has_port' = has_port \cup {s}
  /\ rebound' = IF s \in has_port THEN rebound \cup {s} ELSE rebound
  /\ UNCHANGED <<uw, open, ring, arrivals, target, ucall>>

\* sendmsg takes a port, even if it then fails with -EDESTADDRREQ.
sendmsg(t, s, p) ==
  /\ Running(t) /\ s \in open
  /\ s \notin has_port /\ AllocatesPort(0, p) /\ Available(p)
  /\ port_table' = [port_table EXCEPT ![p] = s]
  /\ bound' = [bound EXCEPT ![s] = p]
  /\ has_port' = has_port \cup {s}
  /\ UNCHANGED <<uw, open, ring, arrivals, target, ucall, rebound>>

\* The last close deletes the socket, and leaves port_table as it is.
udp_close(t, s) ==
  /\ Running(t) /\ s \in open
  /\ \A u \in Threads : ucall[u] # s
  /\ open' = open \ {s}
  /\ UNCHANGED <<uw, ring, port_table, bound, has_port, arrivals, target, ucall, rebound>>

-----------------------------------------------------------------------------
\* udp_process finds the socket of the port p.
Lookup(p) ==
  /\ target = NoSock /\ port_table[p] # NoSock
  /\ \A s \in UdpSocks : arrivals[s] < MaxArrivals
  /\ target' = port_table[p]
  /\ UNCHANGED <<uw, open, ring, port_table, bound, has_port, arrivals, ucall, rebound>>

Stored(b, n) == Append(IF Len(b) = Cap THEN Tail(b) ELSE b, n)

\* ... and puts the datagram into its buffer, in place of the oldest one if that is
\* full.  The memory of a socket that was closed meanwhile is not used again, and
\* nobody listens there.
Deliver ==
  LET s == target
      n == arrivals[s] + 1
  IN
  /\ target # NoSock
  /\ target' = NoSock
  /\ arrivals' = [arrivals EXCEPT ![s] = n]
  /\ ring' = [ring EXCEPT ![s] = Stored(@, n)]
  /\ uw' = IF s \in open THEN trigger(uw, s, FALSE) ELSE uw
  /\ UNCHANGED <<open, port_table, bound, has_port, ucall, rebound>>

\* recvmsg from the head of its loop, in the state v.
Look(v, t, s, nonblock) ==
  \/ /\ ring[s] # <<>>
     /\ ring' = [ring EXCEPT ![s] = Tail(@)]
     /\ uw' = v /\ ucall' = [ucall EXCEPT ![t] = NoSock]
  \/ /\ ring[s] = <<>>
     /\ IF nonblock \/ v.sig[t] THEN uw' = v /\ ucall' = [ucall EXCEPT ![t] = NoSock]
        ELSE uw' = sleep(drain(v, s), t, <<s>>) /\ ucall' = [ucall EXCEPT ![t] = s]
     /\ UNCHANGED ring

recvmsg(t, s, nonblock) ==
  /\ Running(t) /\ s \in open
  /\ Look(uw, t, s, nonblock)
  /\ UNCHANGED <<open, port_table, bound, has_port, arrivals, target, rebound>>

Resume(t) ==
  LET v == settled(resume(uw, t), t) IN
  /\ uw.state[t] = "READY"
  /\ IF Interrupted(uw, t)
     THEN uw' = v /\ ucall' = [ucall EXCEPT ![t] = NoSock] /\ UNCHANGED ring
     ELSE Look(v, t, ucall[t], FALSE)
  /\ UNCHANGED <<open, port_table, bound, has_port, arrivals, target, rebound>>

Signal(t) ==
  /\ ~uw.sig[t]
  /\ uw' = signal(uw, t, FALSE)
  /\ UNCHANGED <<open, ring, port_table, bound, has_port, arrivals, target, ucall, rebound>>

Dispatch(t) ==
  /\ Running(t) /\ uw.sig[t]
  /\ uw' = dispatch(uw, t)
  /\ UNCHANGED <<open, ring, port_table, bound, has_port, arrivals, target, ucall, rebound>>

UdpNext ==
  \/ \E t \in Threads, s \in UdpSocks :
       \/ \E chosen \in Ports \cup {0}, p \in AllPorts : bind(t, s, chosen, p)
       \/ \E p \in AllPorts : sendmsg(t, s, p)
       \/ udp_close(t, s)
       \/ \E nonblock \in BOOLEAN : recvmsg(t, s, nonblock)
  \/ \E t \in Threads : Resume(t) \/ Signal(t) \/ Dispatch(t)
  \/ \E p \in AllPorts : Lookup(p)
  \/ Deliver

UdpSpec == UdpInit /\ [][UdpNext]_uvars

-----------------------------------------------------------------------------
\* A socket that was not bound twice is the one that its port leads to: no other
\* open socket was given that port (udp.cpp 10-33, 98-109).
PortLeadsHome ==
  \A s \in open \ rebound : s \in has_port =>
     /\ port_table[bound[s]] = s
     /\ \A o \in open \ (rebound \cup {s}) : o \in has_port => bound[o] # bound[s]

\* A buffer holds the newest datagrams that were not read, in the order in which
\* they arrived, and no reader sleeps when it holds one (udp.cpp 56-65, 129-140).
NewestAreThere ==
  /\ \A s \in UdpSocks : \A i \in DOMAIN ring[s] :
        ring[s][i] = arrivals[s] - Len(ring[s]) + i /\ Len(ring[s]) <= Cap
  /\ \A t \in Threads : uw.state[t] = "BLOCKED" => ring[ucall[t]] = <<>>

\* A datagram that arrives gets to the one it is for: a UDP socket that was not
\* bound twice is the one that its port leads to, in whichever order sockets are
\* bound, given ports and closed; its buffer holds the newest datagrams that were
\* not read, in the order in which they arrived; and no reader sleeps when it holds
\* one (udp.cpp 10-33, 56-65, 129-140).
UdpDelivers == PortLeadsHome /\ NewestAreThere
=============================================================================
