--------------------------- MODULE StreamProofs ---------------------------
(***************************************************************************)
(* ConnectionsWork for local stream sockets, for any number of threads and *)
(* sockets, any capacity and any counts.  The inductive invariant adds to  *)
(* it where the sleepers are listed: a step that takes a sleeper's reason  *)
(* away triggers the event of the one socket on whose list the sleeper is. *)
(***************************************************************************)
EXTENDS LocalStream, WaitOpsProofs

NoDuplicates(q) == \A i, j \in 1..Len(q) : q[i] = q[j] => i = j

\* Taking the first element of a list without duplicates.
LEMMA DequeueFacts ==
  ASSUME NEW X, NEW q \in Seq(X), q # <<>>, NoDuplicates(q)
  PROVE  /\ Head(q) \in X /\ Tail(q) \in Seq(X) /\ NoDuplicates(Tail(q))
         /\ Head(q) \notin Range(Tail(q)) /\ Head(q) \in Range(q)
         /\ \A x : x \in Range(q) <=> x = Head(q) \/ x \in Range(Tail(q))
<1>1. /\ Head(q) = q[1] /\ Head(q) \in X
      /\ Tail(q) \in Seq(X) /\ Len(q) \in Nat \ {0} /\ Len(Tail(q)) = Len(q) - 1
      /\ \A i \in 1..Len(Tail(q)) : i + 1 \in 1..Len(q) /\ Tail(q)[i] = q[i + 1]
  BY TailFacts, Zenon
<1>2. DOMAIN q = 1..Len(q) /\ DOMAIN Tail(q) = 1..Len(Tail(q))
  BY <1>1
<1>3. NoDuplicates(Tail(q))
  BY <1>1 DEF NoDuplicates
<1>4. Head(q) \notin Range(Tail(q))
  <2> SUFFICES ASSUME NEW i \in 1..Len(Tail(q)), Tail(q)[i] = Head(q) PROVE FALSE
    BY <1>2, Zenon DEF Range
  <2>1. q[i + 1] = q[1] /\ i + 1 \in 1..Len(q) /\ 1 \in 1..Len(q)
    BY <1>1
  <2> QED BY <2>1 DEF NoDuplicates
<1>5. ASSUME NEW i \in 1..Len(q) PROVE q[i] = Head(q) \/ q[i] \in Range(Tail(q))
  <2>1. CASE i = 1
    BY <1>1, <2>1, Zenon
  <2>2. CASE i # 1
    <3>1. i - 1 \in 1..Len(Tail(q)) /\ Tail(q)[i - 1] = q[i]
      BY <1>1, <2>2
    <3> QED BY <1>2, <3>1, Zenon DEF Range
  <2> QED BY <2>1, <2>2, Zenon
<1>6. ASSUME NEW i \in 1..Len(Tail(q)) PROVE Tail(q)[i] \in Range(q)
  BY <1>1, <1>2, Zenon DEF Range
<1>7. Head(q) \in Range(q)
  BY <1>1, <1>2 DEF Range
<1> QED BY <1>1, <1>2, <1>3, <1>4, <1>5, <1>6, <1>7 DEF Range

\* Adding an element to such a list.
LEMMA EnqueueFacts ==
  ASSUME NEW X, NEW q \in Seq(X), NEW x \in X, NoDuplicates(q), x \notin Range(q)
  PROVE  /\ Append(q, x) \in Seq(X) /\ NoDuplicates(Append(q, x))
         /\ \A y : y \in Range(Append(q, x)) <=> y = x \/ y \in Range(q)
<1>1. /\ Append(q, x) \in Seq(X) /\ Len(Append(q, x)) = Len(q) + 1 /\ Len(q) \in Nat
      /\ Append(q, x)[Len(q) + 1] = x
      /\ \A i \in 1..Len(q) : Append(q, x)[i] = q[i]
  BY AppendFacts
<1>2. DOMAIN q = 1..Len(q) /\ DOMAIN Append(q, x) = 1..Len(Append(q, x))
  BY <1>1
<1>3. \A i \in 1..Len(q) : q[i] # x
  BY <1>2, Zenon DEF Range
<1>4. \A i \in 1..Len(Append(q, x)) : i \in 1..Len(q) \/ i = Len(q) + 1
  BY <1>1
<1>5. NoDuplicates(Append(q, x))
  BY <1>1, <1>3, <1>4, Zenon DEF NoDuplicates
<1>6. \A y : y \in Range(Append(q, x)) <=> y = x \/ y \in Range(q)
  <2>1. x \in Range(Append(q, x))
    BY <1>1, <1>2 DEF Range
  <2>2. ASSUME NEW i \in 1..Len(q) PROVE q[i] \in Range(Append(q, x))
    BY <1>1, <1>2, <1>4 DEF Range
  <2> QED BY <1>1, <1>2, <1>4, <2>1, <2>2, Zenon DEF Range
<1> QED BY <1>1, <1>5, <1>6, Zenon

\* The sockets: PeersAgree, and who has no connection has neither peer nor buffer.
StreamNet ==
  /\ pending_list \in Seq(Clients) /\ NoDuplicates(pending_list)
  /\ peer \in [Sockets -> Sockets \cup {NoSock}]
  /\ ring \in [Sockets -> Nat \cup {NoRing}]
  /\ life \in [Sockets -> {"unborn", "open", "closed"}]
  /\ life[srv] = "open" /\ \A c \in Clients : life[c] # "unborn"
  /\ PeersAgree
  /\ \A x \in Sockets : life[x] = "unborn" \/ x \in Range(pending_list) =>
       peer[x] = NoSock /\ ring[x] = NoRing
  /\ \A x \in Sockets : life[x] = "open" /\ peer[x] # NoSock => ring[peer[x]] # NoRing

\* The names of the sockets.
LEMMA SocketFacts ==
  ASSUME StreamAssumption
  PROVE  /\ srv \in Sockets /\ Clients \subseteq Sockets /\ Connected \subseteq Sockets
         /\ NoSock \notin Sockets /\ srv \notin Clients /\ Clients \cap Connected = {}
BY Zenon DEF Sockets, StreamAssumption

\* connect puts a new client on the list.
LEMMA NetConnect ==
  ASSUME StreamNet, NEW c \in Clients, peer[c] = NoSock, ring[c] = NoRing,
         c \notin Range(pending_list), pending_list' = Append(pending_list, c),
         UNCHANGED <<peer, ring, life>>
  PROVE  /\ StreamNet'
         /\ \A y : y \in Range(pending_list)' <=> y = c \/ y \in Range(pending_list)
<1>1. /\ pending_list' \in Seq(Clients) /\ NoDuplicates(pending_list')
      /\ \A y : y \in Range(pending_list') <=> y = c \/ y \in Range(pending_list)
  BY EnqueueFacts, Zenon DEF StreamNet
<1> QED BY <1>1, Zenon DEF StreamNet, PeersAgree

\* accept links the first client c of the list with a new socket a.
Accepts(a, c) ==
  /\ life[a] = "unborn" /\ pending_list # <<>>
  /\ c = Head(pending_list) /\ pending_list' = Tail(pending_list)
  /\ peer' = Link(a, c)
  /\ ring' = [ring EXCEPT ![a] = 0, ![c] = IF @ = NoRing THEN 0 ELSE @]
  /\ life' = [life EXCEPT ![a] = "open"]

LEMMA NetAccept ==
  ASSUME StreamAssumption, StreamNet, NEW a \in Connected, NEW c, Accepts(a, c)
  PROVE  /\ StreamNet'
         /\ c \in Clients /\ c \in Range(pending_list) /\ ring'[c] = 0 /\ ring'[a] = 0
         /\ \A x \in Sockets \ {a, c} :
              peer'[x] = peer[x] /\ ring'[x] = ring[x] /\ life'[x] = life[x]
         /\ \A y : y \in Range(pending_list) <=> y = c \/ y \in Range(pending_list)'
         /\ c \notin Range(pending_list)'
         /\ life'[c] = life[c] /\ life'[a] = "open"
<1> USE DEF Accepts
<1>1. /\ c \in Clients /\ pending_list' \in Seq(Clients) /\ NoDuplicates(pending_list')
      /\ c \notin Range(pending_list') /\ c \in Range(pending_list)
      /\ \A x : x \in Range(pending_list) <=> x = c \/ x \in Range(pending_list')
  BY DequeueFacts, Zenon DEF StreamNet
<1>2. a # c /\ a \in Sockets /\ c \in Sockets /\ a # srv
  BY <1>1, SocketFacts, Zenon DEF StreamNet
<1>3. /\ peer[a] = NoSock /\ ring[a] = NoRing /\ peer[c] = NoSock /\ ring[c] = NoRing
  BY <1>1, <1>2, Zenon DEF StreamNet
<1>4. /\ peer' \in [Sockets -> Sockets \cup {NoSock}] /\ peer'[a] = c /\ peer'[c] = a
      /\ \A x \in Sockets \ {a, c} : peer'[x] = peer[x]
  BY <1>2, Zenon DEF StreamNet, Link
<1>5. /\ ring' \in [Sockets -> Nat \cup {NoRing}] /\ ring'[a] = 0 /\ ring'[c] = 0
      /\ \A x \in Sockets \ {a, c} : ring'[x] = ring[x]
  BY <1>2, <1>3, Zenon DEF StreamNet
<1>6. /\ life' \in [Sockets -> {"unborn", "open", "closed"}] /\ life'[a] = "open"
      /\ \A x \in Sockets \ {a} : life'[x] = life[x]
  BY <1>2, Zenon DEF StreamNet
<1>7. ASSUME NEW x \in Sockets, life'[x] = "open", peer'[x] # NoSock
      PROVE  peer'[peer'[x]] = x /\ ring'[peer'[x]] # NoRing
  <2>1. CASE x \in {a, c}
    BY <1>4, <1>5, <2>1 DEF NoRing
  <2>2. CASE x \notin {a, c}
    <3>1. /\ peer'[x] = peer[x] /\ life[x] = "open" /\ peer[peer[x]] = x /\ peer[x] \in Sockets
          /\ ring[peer[x]] # NoRing
      BY <1>4, <1>6, <1>7, <2>2 DEF StreamNet, PeersAgree
    <3>2. x # NoSock
      BY SocketFacts, Zenon
    <3> QED BY <1>3, <1>4, <1>5, <3>1, <3>2
  <2> QED BY <2>1, <2>2, Zenon
<1>8. ASSUME NEW x \in Sockets, life'[x] = "unborn" \/ x \in Range(pending_list')
      PROVE  peer'[x] = NoSock /\ ring'[x] = NoRing
  <2>1. x # a
    <3>1. CASE life'[x] = "unborn"
      BY <1>6, <3>1, Zenon
    <3>2. CASE x \in Range(pending_list')
      BY <1>1, <1>2, <3>2, SocketFacts DEF StreamNet, Range
    <3> QED BY <1>8, <3>1, <3>2, Zenon
  <2>2. x # c
    BY <1>1, <1>6, <1>8, <2>1, Zenon DEF StreamNet
  <2>3. life[x] = "unborn" \/ x \in Range(pending_list)
    BY <1>1, <1>6, <1>8, <2>1, Zenon
  <2> QED BY <1>4, <1>5, <2>1, <2>2, <2>3, Zenon DEF StreamNet
<1>9. PeersAgree'
  BY <1>7, Zenon DEF PeersAgree
<1>10. life'[srv] = "open" /\ \A x \in Clients : life'[x] # "unborn"
  BY <1>2, <1>6, SocketFacts, Zenon DEF StreamNet
<1>11. StreamNet'
  BY <1>1, <1>4, <1>5, <1>6, <1>7, <1>8, <1>9, <1>10, Zenon DEF StreamNet
<1> QED BY <1>1, <1>2, <1>4, <1>5, <1>6, <1>11, Zenon

\* A socket with an open peer is connected: it is not new, and not on the list.
LEMMA PeerIsConnected ==
  ASSUME StreamAssumption, StreamNet, NEW x \in Sockets, life[x] = "open", peer[x] # NoSock
  PROVE  /\ peer[x] \in Sockets /\ peer[peer[x]] = x /\ peer[peer[x]] # NoSock
         /\ life[peer[x]] # "unborn" /\ peer[x] \notin Range(pending_list)
         /\ ring[peer[x]] \in Nat
BY SocketFacts DEF StreamNet, PeersAgree

\* recvmsg and sendmsg change the number of bytes in the buffer of a connection.
LEMMA NetTransfer ==
  ASSUME StreamAssumption, StreamNet, NEW x \in Sockets, life[x] # "unborn",
         x \notin Range(pending_list),
         NEW n \in Nat, ring' = [ring EXCEPT ![x] = n], UNCHANGED <<pending_list, peer, life>>
  PROVE  /\ StreamNet' /\ ring'[x] = n
         /\ \A y \in Sockets \ {x} : ring'[y] = ring[y]
<1>1. /\ ring' \in [Sockets -> Nat \cup {NoRing}] /\ ring'[x] = n
      /\ \A y \in Sockets \ {x} : ring'[y] = ring[y]
  BY Zenon DEF StreamNet
<1>2. ASSUME NEW y \in Sockets, life[y] = "open", peer[y] # NoSock PROVE ring'[peer[y]] # NoRing
  BY <1>1, <1>2, PeerIsConnected DEF NoRing
<1> QED BY <1>1, <1>2, Zenon DEF StreamNet, PeersAgree

\* close takes the socket away from its peer.
LEMMA NetClose ==
  ASSUME StreamAssumption, StreamNet, NEW x \in Sockets, x # srv, life[x] = "open",
         life' = [life EXCEPT ![x] = "closed"], ring' = [ring EXCEPT ![x] = NoRing],
         peer' = [y \in Sockets |-> IF y = peer[x] THEN NoSock ELSE peer[y]],
         UNCHANGED pending_list
  PROVE  /\ StreamNet'
         /\ \A y \in Sockets \ {x} :
              /\ life'[y] = life[y] /\ ring'[y] = ring[y]
              /\ peer'[y] # NoSock => peer'[y] = peer[y] /\ y # peer[x]
<1>1. /\ life' \in [Sockets -> {"unborn", "open", "closed"}] /\ life'[x] = "closed"
      /\ \A y \in Sockets \ {x} : life'[y] = life[y]
  BY Zenon DEF StreamNet
<1>2. /\ ring' \in [Sockets -> Nat \cup {NoRing}] /\ ring'[x] = NoRing
      /\ \A y \in Sockets \ {x} : ring'[y] = ring[y]
  BY Zenon DEF StreamNet
<1>3. /\ peer' \in [Sockets -> Sockets \cup {NoSock}]
      /\ \A y \in Sockets : peer'[y] = IF y = peer[x] THEN NoSock ELSE peer[y]
  BY Zenon DEF StreamNet
<1>4. ASSUME NEW y \in Sockets, life'[y] = "open", peer'[y] # NoSock
      PROVE  peer'[peer'[y]] = y /\ ring'[peer'[y]] # NoRing
  <2>1. y # x /\ y # peer[x] /\ peer'[y] = peer[y] /\ life[y] = "open"
    BY <1>1, <1>3, <1>4, Zenon
  <2>2. peer[y] \in Sockets /\ peer[peer[y]] = y /\ ring[peer[y]] \in Nat
    BY <1>3, <1>4, <2>1, PeerIsConnected, Zenon
  <2>3. peer[y] # peer[x]
    <3>1. peer[x] # NoSock => peer[peer[x]] = x
      BY PeerIsConnected, Zenon
    <3>2. peer[y] # NoSock
      BY <1>4, <2>1, Zenon
    <3> QED BY <2>1, <2>2, <3>1, <3>2, Zenon
  <2>4. peer[y] # x
    BY <2>1, <2>2, Zenon
  <2> QED BY <1>2, <1>3, <2>1, <2>2, <2>3, <2>4 DEF NoRing
<1>5. /\ life'[srv] = "open" /\ \A c \in Clients : life'[c] # "unborn"
  BY <1>1, SocketFacts, Zenon DEF StreamNet
<1>6. ASSUME NEW y \in Sockets, life'[y] = "unborn" \/ y \in Range(pending_list')
      PROVE  peer'[y] = NoSock /\ ring'[y] = NoRing
  BY <1>1, <1>2, <1>3, <1>6, Zenon DEF StreamNet
<1>7. StreamNet'
  BY <1>1, <1>2, <1>3, <1>4, <1>5, <1>6, Zenon DEF StreamNet, PeersAgree
<1> QED BY <1>1, <1>2, <1>3, <1>7, Zenon

-----------------------------------------------------------------------------
StreamCalls ==
  [op : {"none", "accept", "connect", "recv", "send"}, sock : Sockets, count : Nat]

\* The reason for which a call c may sleep.
StreamWait(c) ==
  \/ c.op = "accept" /\ pending_list = <<>>
  \/ c.op = "connect" /\ c.sock \in Range(pending_list)
  \/ c.op = "recv" /\ ring[c.sock] = 0
  \/ c.op = "send" /\ (peer[c.sock] # NoSock => ring[peer[c.sock]] = StreamCapacity)

\* A call that is not over: its socket is open.
StreamCall(c) ==
  /\ c \in StreamCalls /\ c.op # "none" /\ life[c.sock] = "open"
  /\ c.op = "accept" => c.sock = srv
  /\ c.op = "connect" => c.sock \in Clients

Accepted(x) == ring[x] # NoRing /\ x \notin Range(pending_list)

\* What holds for the thread t with the call c in the event state s.
StreamThread(s, t, c) ==
  /\ s.state[t] \in {"BLOCKED", "READY"} =>
       StreamCall(c) /\ \A e \in Sockets : t \in Listening(s, e) <=> e = c.sock
  /\ s.state[t] = "active" => \A e \in Sockets : t \notin Listening(s, e)
  /\ s.state[t] = "BLOCKED" => StreamWait(c)
  /\ s.state[t] = "READY" /\ c.op = "connect" /\ ~s.enq[t] => Accepted(c.sock)

StreamInv ==
  /\ StreamNet
  /\ IsWait(sw, Threads, Sockets)
  /\ scall \in [Threads -> StreamCalls]
  /\ \A t \in Threads : StreamThread(sw, t, scall[t])

\* New sockets satisfy the invariant.
LEMMA StreamInvInit ==
  ASSUME StreamAssumption
  PROVE  StreamInit => StreamInv
<1> SUFFICES ASSUME StreamInit PROVE StreamInv
  BY Zenon
<1>1. sw = WaitState(Threads, Sockets)
  BY Zenon DEF StreamInit
<1>2. /\ IsWait(sw, Threads, Sockets) /\ \A t \in Threads : sw.state[t] = "active"
      /\ \A e \in Sockets : Listening(sw, e) = {}
  <2>1. Fresh(sw, Threads, Sockets)
    BY <1>1, NewWait, Zenon
  <2> QED BY <2>1, Zenon DEF Fresh
<1>3. scall \in [Threads -> StreamCalls]
  BY SocketFacts, Zenon DEF StreamInit, NoCall, StreamCalls
<1>4. StreamNet
  <2>1. pending_list \in Seq(Clients) /\ NoDuplicates(pending_list)
    BY DEF StreamInit, NoDuplicates
  <2>2. life[srv] = "open" /\ \A c \in Clients : life[c] # "unborn"
    BY SocketFacts, Zenon DEF StreamInit, StreamAssumption
  <2> QED BY <2>1, <2>2, Zenon DEF StreamInit, StreamNet, PeersAgree
<1> QED BY <1>2, <1>3, <1>4, Zenon DEF StreamInv, StreamThread

\* The thread t is awake in the event state s, and all is well with the others.
StreamEnter(s, t) ==
  /\ IsWait(s, Threads, Sockets)
  /\ s.state[t] = "active" /\ \A e \in Sockets : t \notin Listening(s, e)
  /\ \A u \in Threads \ {t} : StreamThread(s, u, scall[u])

\* What a step that triggers the event e may do to the sockets: the calls that
\* sleep elsewhere keep their reasons, and a woken connect is accepted.
StreamKeeps(e) ==
  \A c \in StreamCalls : StreamCall(c) =>
    /\ StreamCall(c)'
    /\ StreamWait(c) /\ c.sock # e => StreamWait(c)'
    /\ StreamWait(c) /\ c.sock = e /\ c.op = "connect" => Accepted(e)'
    /\ c.op = "connect" /\ Accepted(c.sock) => Accepted(c.sock)'

\* Such a step keeps what holds for the other threads.
LEMMA TriggerOther ==
  ASSUME NEW u \in Threads, NEW s, NEW r, NEW e \in Sockets, StreamKeeps(e),
         Triggered(s, r, e, Threads, Sockets), NEW c \in StreamCalls, StreamThread(s, u, c)
  PROVE  StreamThread(r, u, c)'
<1>1. \A x \in Sockets : Listening(r, x) = Listening(s, x)
  BY Zenon DEF Triggered
<1>2. /\ r.state[u] = IF u \in Listening(s, e) /\ s.state[u] = "BLOCKED" THEN "READY" ELSE s.state[u]
      /\ r.enq[u] <=> s.enq[u] /\ ~(u \in Listening(s, e) /\ s.state[u] = "BLOCKED")
  BY Zenon DEF Triggered
<1>3. CASE s.state[u] = "BLOCKED" /\ u \in Listening(s, e)
  <2>1. StreamCall(c) /\ StreamWait(c) /\ c.sock = e
    BY <1>3, Zenon DEF StreamThread
  <2>2. StreamCall(c)' /\ (c.op = "connect" => Accepted(e)')
    BY <2>1, Zenon DEF StreamKeeps
  <2> QED BY <1>1, <1>2, <1>3, <2>1, <2>2, Zenon DEF StreamThread
<1>4. CASE s.state[u] = "BLOCKED" /\ u \notin Listening(s, e)
  <2>1. StreamCall(c) /\ StreamWait(c) /\ c.sock # e
    BY <1>4, Zenon DEF StreamThread
  <2>2. StreamCall(c)' /\ StreamWait(c)'
    BY <2>1, Zenon DEF StreamKeeps
  <2> QED BY <1>1, <1>2, <1>4, <2>1, <2>2, Zenon DEF StreamThread
<1>5. CASE s.state[u] = "READY"
  <2>1. StreamCall(c)
    BY <1>5, Zenon DEF StreamThread
  <2>2. StreamCall(c)' /\ (c.op = "connect" /\ ~s.enq[u] => Accepted(c.sock)')
    BY <1>5, <2>1, Zenon DEF StreamThread, StreamKeeps
  <2> QED BY <1>1, <1>2, <1>5, <2>1, <2>2, Zenon DEF StreamThread
<1>6. CASE s.state[u] \notin {"BLOCKED", "READY"}
  BY <1>1, <1>2, <1>6, Zenon DEF StreamThread
<1> QED BY <1>3, <1>4, <1>5, <1>6, Zenon

\* The new state of the thread t and the rest of the invariant.
LEMMA StreamReturn ==
  ASSUME StreamAssumption, StreamInv, NEW t \in Threads, StreamNet', EndCall(t), IsWait(sw',
         Threads, Sockets),
         sw'.state[t] = "active", \A e \in Sockets : t \notin Listening(sw', e),
         NEW r, r = sw', \A u \in Threads \ {t} : \A c \in {scall[u]} : StreamThread(r, u, c)'
  PROVE  StreamInv'
<1>1. /\ scall' \in [Threads -> StreamCalls]
      /\ \A u \in Threads \ {t} : scall'[u] = scall[u]
  BY SocketFacts, Zenon DEF StreamInv, StreamCalls, EndCall, NoCall
<1>2. StreamThread(sw, t, scall[t])'
  BY Zenon DEF StreamThread
<1>3. ASSUME NEW u \in Threads \ {t} PROVE StreamThread(sw, u, scall[u])'
  BY <1>1, Zenon DEF StreamThread
<1> QED BY <1>1, <1>2, <1>3, Zenon DEF StreamInv

\* Nothing that the sockets' invariant speaks of changes.
LEMMA NetUnchanged ==
  ASSUME UNCHANGED <<pending_list, peer, ring, life>>
  PROVE  /\ StreamNet => StreamNet'
         /\ \A c : (StreamCall(c)' <=> StreamCall(c)) /\ (StreamWait(c)' <=> StreamWait(c))
         /\ \A x : Accepted(x)' <=> Accepted(x)
BY Zenon DEF StreamNet, PeersAgree, StreamCall, StreamWait, Accepted

\* A call fails.
LEMMA StreamFail ==
  ASSUME StreamAssumption, StreamInv, NEW t \in Threads, NEW s, StreamEnter(s, t), Fail(t, s)
  PROVE  StreamInv'
<1>1. sw' = s /\ UNCHANGED <<pending_list, peer, ring, life>> /\ EndCall(t)
  BY Zenon DEF Fail
<1>2. /\ scall' \in [Threads -> StreamCalls]
      /\ \A u \in Threads \ {t} : scall'[u] = scall[u]
  BY <1>1, SocketFacts, Zenon DEF StreamInv, StreamCalls, EndCall, NoCall
<1>3. ASSUME NEW u \in Threads PROVE StreamThread(sw, u, scall[u])'
  <2>1. CASE u = t
    BY <1>1, <2>1, Zenon DEF StreamEnter, StreamThread
  <2>2. CASE u # t
    <3>1. StreamThread(s, u, scall[u])
      BY <2>2, Zenon DEF StreamEnter
    <3> QED BY <1>1, <1>2, <2>2, <3>1, NetUnchanged, Zenon DEF StreamThread, StreamCall, StreamWait, Accepted
  <2> QED BY <2>1, <2>2, Zenon
<1> QED BY <1>1, <1>2, <1>3, NetUnchanged, Zenon DEF StreamInv, StreamEnter

\* A call changes the sockets, triggers the event e and returns.
LEMMA StreamTrigger ==
  ASSUME StreamAssumption, StreamInv, NEW t \in Threads, NEW s, StreamEnter(s, t),
         NEW e \in Sockets,
         StreamKeeps(e), NEW drop \in BOOLEAN, sw' = trigger(s, e, drop), StreamNet', EndCall(t)
  PROVE  StreamInv'
<1>1. PICK r : r = sw'
  BY Zenon
<1>2. IsWait(s, Threads, Sockets) /\ r = trigger(s, e, drop)
  BY <1>1, Zenon DEF StreamEnter
<1>3. Triggered(s, r, e, Threads, Sockets)
  BY <1>2, TriggerFacts, Zenon
<1>4. /\ IsWait(sw', Threads, Sockets) /\ sw'.state[t] = "active"
      /\ \A x \in Sockets : t \notin Listening(sw', x)
  BY <1>1, <1>3, Zenon DEF Triggered, StreamEnter
<1>5. ASSUME NEW u \in Threads \ {t}, NEW c \in {scall[u]} PROVE StreamThread(r, u, c)'
  <2>1. c \in StreamCalls /\ StreamThread(s, u, c)
    BY Zenon DEF StreamInv, StreamEnter
  <2> QED BY <1>3, <2>1, TriggerOther, Zenon
<1> QED BY <1>1, <1>4, <1>5, StreamReturn

\* A thread that goes to sleep keeps what holds for the others.
LEMMA SleepOther ==
  ASSUME NEW t \in Threads, NEW u \in Threads \ {t}, NEW s, NEW r, NEW e \in Sockets, NEW c,
         Slept(s, r, t, e, Threads, Sockets), StreamThread(s, u, c)'
  PROVE  StreamThread(r, u, c)'
<1>1. r.state[u] = s.state[u] /\ (r.enq[u] <=> s.enq[u])
  BY Zenon DEF Slept
<1>2. \A x \in Sockets : u \in Listening(r, x) <=> u \in Listening(s, x)
  BY Zenon DEF Slept
<1> QED BY <1>1, <1>2, Zenon DEF StreamThread

\* The call c sleeps for a good reason.
LEMMA StreamSleep ==
  ASSUME StreamInv, NEW t \in Threads, NEW s, s.state[t] = "active",
         \A x \in Sockets : t \notin Listening(s, x), NEW c \in StreamCalls,
         StreamCall(c)', StreamWait(c)', Slept(s, sw', t, c.sock, Threads, Sockets),
         scall' = [scall EXCEPT ![t] = c], StreamNet',
         \A u \in Threads \ {t} : \A d \in {scall[u]} : StreamThread(s, u, d)'
  PROVE  StreamInv'
<1>1. PICK r : r = sw'
  BY Zenon
<1>2. Slept(s, r, t, c.sock, Threads, Sockets)
  BY <1>1, Zenon
<1>3. /\ scall' \in [Threads -> StreamCalls] /\ scall'[t] = c
      /\ \A u \in Threads \ {t} : scall'[u] = scall[u]
  BY Zenon DEF StreamInv
<1>4. c.sock \in Sockets
  BY Zenon DEF StreamCalls
<1>5. sw'.state[t] = "BLOCKED" /\ \A x \in Sockets : t \in Listening(sw', x) <=> x = c.sock
  BY <1>4, Zenon DEF Slept
<1>6. StreamThread(sw, t, scall[t])'
  BY <1>3, <1>5, Zenon DEF StreamThread
<1>7. ASSUME NEW u \in Threads \ {t} PROVE StreamThread(sw, u, scall[u])'
  <2>1. PICK d : d = scall[u]
    BY Zenon
  <2>2. StreamThread(s, u, d)'
    BY <2>1, Zenon
  <2>3. StreamThread(r, u, d)'
    BY <1>2, <1>4, <2>2, SleepOther, Zenon
  <2> QED BY <1>1, <1>3, <2>1, <2>3, Zenon DEF StreamThread
<1> QED BY <1>3, <1>6, <1>7, Zenon DEF StreamInv, Slept

\* The loop of a call whose condition holds: it fails or sleeps.
LEMMA StreamLoop ==
  ASSUME StreamAssumption, StreamInv, NEW t \in Threads, NEW s, StreamEnter(s, t),
         NEW nb \in BOOLEAN,
         NEW c \in StreamCalls, StreamCall(c), StreamWait(c), WaitLoop(t, s, c, nb)
  PROVE  StreamInv'
<1>1. CASE Fail(t, s)
  BY <1>1, StreamFail, Zenon
<1>2. CASE ~Fail(t, s)
  <2>1. /\ sw' = sleep(drain(s, c.sock), t, <<c.sock>>) /\ scall' = [scall EXCEPT ![t] = c]
        /\ UNCHANGED <<pending_list, peer, ring, life>>
    BY <1>2, Zenon DEF WaitLoop
  <2>2. sw' = sleep(drain(s, c.sock), t, <<c.sock>>) /\ c.sock \in Sockets
    BY <2>1, Zenon DEF StreamCalls
  <2>3. PICK e \in Sockets : e = c.sock
    BY <2>2, Zenon
  <2>4. IsWait(s, Threads, Sockets) /\ sw' = sleep(drain(s, e), t, <<e>>)
    BY <2>2, <2>3, Zenon DEF StreamEnter
  <2>5. Slept(s, sw', t, e, Threads, Sockets)
    BY <2>4, DrainedSleepFacts, Zenon
  <2>6. StreamNet' /\ StreamCall(c)' /\ StreamWait(c)'
    BY <2>1, NetUnchanged, Zenon DEF StreamInv
  <2>7. ASSUME NEW u \in Threads \ {t}, NEW d \in {scall[u]} PROVE StreamThread(s, u, d)'
    <3>1. StreamThread(s, u, d)
      BY Zenon DEF StreamEnter
    <3> QED BY <2>1, <3>1, NetUnchanged, Zenon DEF StreamThread, StreamCall, StreamWait, Accepted
  <2>8. s.state[t] = "active" /\ \A x \in Sockets : t \notin Listening(s, x)
    BY Zenon DEF StreamEnter
  <2> QED BY <2>1, <2>3, <2>5, <2>6, <2>7, <2>8, StreamSleep, Zenon
<1> QED BY <1>1, <1>2, Zenon

\* accept takes a client from the list and wakes its connect.
LEMMA StreamAccept ==
  ASSUME StreamAssumption, StreamInv, NEW t \in Threads, NEW s, StreamEnter(s, t),
         NEW nb \in BOOLEAN,
         accept(t, s, nb)
  PROVE  StreamInv'
<1>1. CASE pending_list = <<>>
  <2>1. PICK c : c = [op |-> "accept", sock |-> srv, count |-> 0]
    BY Zenon
  <2>2. WaitLoop(t, s, c, nb)
    BY <1>1, <2>1, Zenon DEF accept
  <2>3. c \in StreamCalls /\ StreamCall(c) /\ StreamWait(c)
    BY <1>1, <2>1, SocketFacts, Zenon DEF StreamCalls, StreamCall, StreamWait, StreamInv, StreamNet
  <2> QED BY <2>2, <2>3, StreamLoop, Zenon
<1>2. CASE pending_list # <<>>
  <2>1. PICK c : c = Head(pending_list)
    BY Zenon
  <2>2. PICK a \in Connected : Accepts(a, c) /\ sw' = trigger(s, c, FALSE) /\ EndCall(t)
    BY <1>2, <2>1, Zenon DEF accept, Accepts
  <2>3. StreamNet
    BY Zenon DEF StreamInv
  <2>4. /\ StreamNet'
        /\ c \in Clients /\ c \in Range(pending_list) /\ ring'[c] = 0 /\ ring'[a] = 0
        /\ \A x \in Sockets \ {a, c} :
             peer'[x] = peer[x] /\ ring'[x] = ring[x] /\ life'[x] = life[x]
        /\ \A y : y \in Range(pending_list) <=> y = c \/ y \in Range(pending_list)'
        /\ c \notin Range(pending_list)' /\ life'[c] = life[c]
    BY <2>2, <2>3, NetAccept
  <2>5. c \in Sockets /\ a \in Sockets /\ ring[c] = NoRing /\ ring[a] = NoRing
    BY <2>2, <2>3, <2>4, SocketFacts, Zenon DEF StreamNet, Accepts
  <2>6. StreamKeeps(c)
    <3> SUFFICES ASSUME NEW d \in StreamCalls, StreamCall(d)
                 PROVE  /\ StreamCall(d)'
                        /\ StreamWait(d) /\ d.sock # c => StreamWait(d)'
                        /\ StreamWait(d) /\ d.sock = c /\ d.op = "connect" => Accepted(c)'
                        /\ d.op = "connect" /\ Accepted(d.sock) => Accepted(d.sock)'
      BY Zenon DEF StreamKeeps
    <3>1. d.sock \in Sockets /\ d.sock # a
      BY <2>2, Zenon DEF StreamCalls, StreamCall, Accepts
    <3>2. StreamCall(d)'
      BY <2>4, <3>1, Zenon DEF StreamCall
    <3>3. Accepted(c)'
      BY <2>4 DEF Accepted, NoRing
    <3>4. Accepted(d.sock) => Accepted(d.sock)'
      BY <2>4, <2>5, <3>1, Zenon DEF Accepted
    <3>5. ASSUME StreamWait(d), d.sock # c PROVE StreamWait(d)'
      <4>1. peer'[d.sock] = peer[d.sock] /\ ring'[d.sock] = ring[d.sock]
        BY <2>4, <3>1, <3>5, Zenon
      <4>2. CASE d.op = "connect" /\ d.sock \in Range(pending_list)
        BY <2>4, <3>5, <4>2, Zenon DEF StreamWait
      <4>3. CASE d.op = "recv" /\ ring[d.sock] = 0
        BY <4>1, <4>3, Zenon DEF StreamWait
      <4>4. CASE d.op = "send" /\ peer[d.sock] = NoSock
        BY <4>1, <4>4, Zenon DEF StreamWait
      <4>5. CASE d.op = "send" /\ peer[d.sock] # NoSock /\ ring[peer[d.sock]] = StreamCapacity
        <5>1. peer[d.sock] \in Sockets
          BY <2>3, <3>1, <4>5, Zenon DEF StreamNet
        <5>2. peer[d.sock] \notin {a, c}
          BY <2>5, <4>5 DEF NoRing, StreamAssumption
        <5>3. ring'[peer[d.sock]] = ring[peer[d.sock]]
          BY <2>4, <5>1, <5>2, Zenon
        <5> QED BY <4>1, <4>5, <5>3, Zenon DEF StreamWait
      <4> QED BY <1>2, <3>5, <4>2, <4>3, <4>4, <4>5, Zenon DEF StreamWait
    <3> QED BY <3>2, <3>3, <3>4, <3>5, Zenon
  <2>7. PICK drop \in BOOLEAN : sw' = trigger(s, c, drop)
    BY <2>2, Zenon
  <2> QED BY <2>2, <2>4, <2>5, <2>6, <2>7, StreamTrigger, Zenon
<1> QED BY <1>1, <1>2, Zenon

\* The kernel that follows a null pointer goes no further.
LEMMA StreamCrash ==
  ASSUME StreamInv, Crash
  PROVE  StreamInv'
<1>1. UNCHANGED <<sw, pending_list, peer, ring, life, scall>>
  BY Zenon DEF Crash
<1>2. StreamNet' /\ IsWait(sw, Threads, Sockets)' /\ (scall \in [Threads -> StreamCalls])'
  BY <1>1, NetUnchanged, Zenon DEF StreamInv
<1>3. ASSUME NEW t \in Threads PROVE StreamThread(sw, t, scall[t])'
  <2>1. StreamThread(sw, t, scall[t])
    BY Zenon DEF StreamInv
  <2> QED BY <1>1, <2>1, NetUnchanged, Zenon DEF StreamThread, StreamCall, StreamWait, Accepted
<1> QED BY <1>2, <1>3, Zenon DEF StreamInv

\* recvmsg makes room and wakes the peer.
LEMMA StreamRecv ==
  ASSUME StreamAssumption, StreamInv, NEW t \in Threads, NEW s, StreamEnter(s, t),
         NEW nb \in BOOLEAN,
         NEW c \in StreamCalls, c.op = "recv", StreamCall(c), recvmsg(t, s, c, nb)
  PROVE  StreamInv'
<1>1. PICK x \in Sockets : x = c.sock
  BY Zenon DEF StreamCalls
<1>6. ring[x] \in Nat \cup {-1}
  BY Zenon DEF StreamInv, StreamNet, NoRing
<1>2. CASE ring[x] = 0
  <2>1. WaitLoop(t, s, c, nb) /\ StreamWait(c)
    BY <1>1, <1>2 DEF recvmsg, StreamWait
  <2> QED BY <2>1, StreamLoop, Zenon
<1>3. CASE ring[x] > 0 /\ peer[x] = NoSock
  BY <1>1, <1>3, StreamCrash DEF recvmsg
<1>4. CASE ring[x] > 0 /\ peer[x] # NoSock
  <2>1. /\ ring' = [ring EXCEPT ![x] = ring[x] - Least(c.count, ring[x])]
        /\ sw' = trigger(s, peer[x], TRUE) /\ EndCall(t) /\ UNCHANGED <<pending_list, peer, life>>
    <3>1. ring[x] # 0
      BY <1>4, <1>6
    <3> QED BY <1>1, <1>4, <3>1, Zenon DEF recvmsg
  <2>2. StreamNet /\ life[x] = "open"
    BY <1>1, Zenon DEF StreamInv, StreamCall
  <2>3. PICK n \in Nat : n = ring[x] - Least(c.count, ring[x])
    BY <1>4, <2>2 DEF StreamNet, NoRing, Least, StreamCalls
  <2>4. PICK e : e = peer[x]
    BY Zenon
  <2>5. e \in Sockets /\ peer[e] = x /\ e \notin Range(pending_list)
    BY <1>4, <2>2, <2>4, PeerIsConnected, Zenon
  <2>6. x \notin Range(pending_list)
    BY <1>4, <2>2, Zenon DEF StreamNet
  <2>7. StreamNet' /\ ring'[x] = n /\ \A y \in Sockets \ {x} : ring'[y] = ring[y]
    <3>1. life[x] # "unborn" /\ ring' = [ring EXCEPT ![x] = n]
      BY <2>1, <2>2, <2>3, Zenon
    <3> QED BY <2>1, <2>2, <2>6, <3>1, NetTransfer, Zenon
  <2>8. StreamKeeps(e)
    <3> SUFFICES ASSUME NEW d \in StreamCalls, StreamCall(d)
                 PROVE  /\ StreamCall(d)'
                        /\ StreamWait(d) /\ d.sock # e => StreamWait(d)'
                        /\ StreamWait(d) /\ d.sock = e /\ d.op = "connect" => Accepted(e)'
                        /\ d.op = "connect" /\ Accepted(d.sock) => Accepted(d.sock)'
      BY Zenon DEF StreamKeeps
    <3>1. d.sock \in Sockets /\ StreamCall(d)' /\ life[d.sock] = "open"
      BY <2>1, Zenon DEF StreamCalls, StreamCall
    <3>2. ~(StreamWait(d) /\ d.sock = e /\ d.op = "connect")
      BY <2>5, Zenon DEF StreamWait
    <3>3. Accepted(d.sock) => Accepted(d.sock)'
      BY <2>1, <2>7, <3>1 DEF Accepted, NoRing
    <3>4. ASSUME StreamWait(d), d.sock # e PROVE StreamWait(d)'
      <4>1. CASE d.op \in {"accept", "connect"}
        BY <2>1, <3>4, <4>1, Zenon DEF StreamWait
      <4>2. CASE d.op = "recv"
        <5>1. d.sock # x /\ ring[d.sock] = 0
          BY <1>4, <3>4, <4>2 DEF StreamWait
        <5> QED BY <2>7, <3>1, <4>2, <5>1, Zenon DEF StreamWait
      <4>3. CASE d.op = "send" /\ peer[d.sock] # NoSock
        <5>1. ring[peer[d.sock]] = StreamCapacity
          BY <3>4, <4>3, Zenon DEF StreamWait
        <5>2. peer[d.sock] \in Sockets /\ peer[peer[d.sock]] = d.sock
          BY <2>2, <3>1, <4>3, PeerIsConnected, Zenon
        <5>3. peer[d.sock] # x
          BY <2>4, <3>4, <5>2, Zenon
        <5> QED BY <2>1, <2>7, <4>3, <5>1, <5>2, <5>3, Zenon DEF StreamWait
      <4>4. CASE d.op = "send" /\ peer[d.sock] = NoSock
        BY <2>1, <4>4, Zenon DEF StreamWait
      <4> QED BY <3>4, <4>1, <4>2, <4>3, <4>4, Zenon DEF StreamWait
    <3> QED BY <3>1, <3>2, <3>3, <3>4, Zenon
  <2>9. PICK drop \in BOOLEAN : sw' = trigger(s, e, drop)
    BY <2>1, <2>4, Zenon
  <2> QED BY <2>1, <2>5, <2>7, <2>8, <2>9, StreamTrigger, Zenon
<1> QED BY <1>1, <1>2, <1>3, <1>4, Zenon DEF recvmsg

\* sendmsg fills the buffer of the peer and wakes it.
LEMMA StreamSend ==
  ASSUME StreamAssumption, StreamInv, NEW t \in Threads, NEW s, StreamEnter(s, t),
         NEW nb \in BOOLEAN,
         NEW c \in StreamCalls, c.op = "send", StreamCall(c), sendmsg(t, s, c, nb)
  PROVE  StreamInv'
<1>1. PICK x \in Sockets : x = c.sock
  BY Zenon DEF StreamCalls
<1>2. PICK e : e = peer[x]
  BY Zenon
<1>6. StreamCapacity \in Nat /\ (e # NoSock => ring[e] \in Nat)
  BY <1>1, <1>2, PeerIsConnected, Zenon DEF StreamInv, StreamCall, StreamAssumption
<1>3. CASE e = NoSock
  BY <1>1, <1>2, <1>3, StreamCrash, Zenon DEF sendmsg
<1>4. CASE e # NoSock /\ ring[e] = StreamCapacity
  <2>1. WaitLoop(t, s, c, nb) /\ StreamWait(c)
    <3>1. ~(ring[e] < StreamCapacity)
      BY <1>4, <1>6
    <3> QED BY <1>1, <1>2, <1>4, <3>1, Zenon DEF sendmsg, StreamWait
  <2> QED BY <2>1, StreamLoop, Zenon
<1>5. CASE e # NoSock /\ ring[e] < StreamCapacity
  <2>1. /\ ring' = [ring EXCEPT ![e] = Least(StreamCapacity, ring[e] + c.count)]
        /\ sw' = trigger(s, e, TRUE) /\ EndCall(t) /\ UNCHANGED <<pending_list, peer, life>>
    <3>1. ring[e] # StreamCapacity
      BY <1>5, <1>6
    <3> QED BY <1>1, <1>2, <1>5, <3>1, Zenon DEF sendmsg
  <2>2. StreamNet /\ life[x] = "open"
    BY <1>1, Zenon DEF StreamInv, StreamCall
  <2>3. e \in Sockets /\ peer[e] = x /\ e \notin Range(pending_list) /\ life[e] # "unborn"
    BY <1>2, <1>5, <2>2, PeerIsConnected, Zenon
  <2>4. PICK n \in Nat : n = Least(StreamCapacity, ring[e] + c.count)
    <3>1. c.count \in Nat
      BY Zenon DEF StreamCalls
    <3> QED BY <1>5, <1>6, <3>1 DEF Least
  <2>5. StreamNet' /\ ring'[e] = n /\ \A y \in Sockets \ {e} : ring'[y] = ring[y]
    <3>1. ring' = [ring EXCEPT ![e] = n]
      BY <2>1, <2>4, Zenon
    <3> QED BY <2>1, <2>2, <2>3, <3>1, NetTransfer, Zenon
  <2>6. StreamKeeps(e)
    <3> SUFFICES ASSUME NEW d \in StreamCalls, StreamCall(d)
                 PROVE  /\ StreamCall(d)'
                        /\ StreamWait(d) /\ d.sock # e => StreamWait(d)'
                        /\ StreamWait(d) /\ d.sock = e /\ d.op = "connect" => Accepted(e)'
                        /\ d.op = "connect" /\ Accepted(d.sock) => Accepted(d.sock)'
      BY Zenon DEF StreamKeeps
    <3>1. d.sock \in Sockets /\ StreamCall(d)' /\ life[d.sock] = "open"
      BY <2>1, Zenon DEF StreamCalls, StreamCall
    <3>2. ~(StreamWait(d) /\ d.sock = e /\ d.op = "connect")
      BY <2>3, Zenon DEF StreamWait
    <3>3. Accepted(d.sock) => Accepted(d.sock)'
      BY <2>1, <2>5, <3>1 DEF Accepted, NoRing
    <3>4. ASSUME StreamWait(d), d.sock # e PROVE StreamWait(d)'
      <4>1. CASE d.op \in {"accept", "connect"}
        BY <2>1, <3>4, <4>1, Zenon DEF StreamWait
      <4>2. CASE d.op = "recv"
        BY <2>5, <3>1, <3>4, <4>2, Zenon DEF StreamWait
      <4>3. CASE d.op = "send" /\ peer[d.sock] # NoSock
        <5>1. ring[peer[d.sock]] = StreamCapacity
          BY <3>4, <4>3, Zenon DEF StreamWait
        <5>2. peer[d.sock] \in Sockets
          BY <2>2, <3>1, <4>3, PeerIsConnected, Zenon
        <5>3. peer[d.sock] # e
          BY <1>5, <5>1 DEF StreamAssumption
        <5> QED BY <2>1, <2>5, <4>3, <5>1, <5>2, <5>3, Zenon DEF StreamWait
      <4>4. CASE d.op = "send" /\ peer[d.sock] = NoSock
        BY <2>1, <4>4, Zenon DEF StreamWait
      <4> QED BY <3>4, <4>1, <4>2, <4>3, <4>4, Zenon DEF StreamWait
    <3> QED BY <3>1, <3>2, <3>3, <3>4, Zenon
  <2>7. PICK drop \in BOOLEAN : sw' = trigger(s, e, drop)
    BY <2>1, Zenon
  <2> QED BY <2>1, <2>3, <2>5, <2>6, <2>7, StreamTrigger, Zenon
<1> QED BY <1>1, <1>2, <1>3, <1>4, <1>5, Zenon DEF sendmsg

\* A running thread is listed nowhere.
LEMMA StreamAwake ==
  ASSUME StreamInv, NEW t \in Threads, sw.state[t] = "active"
  PROVE  StreamEnter(sw, t)
BY Zenon DEF StreamInv, StreamThread, StreamEnter

\* connect joins the list, wakes the server and sleeps.
LEMMA StreamConnect ==
  ASSUME StreamAssumption, StreamInv, NEW t \in Threads, NEW x \in Clients, Connect(t, x)
  PROVE  StreamInv'
<1>1. /\ sw.state[t] = "active" /\ life[x] = "open" /\ peer[x] = NoSock /\ ring[x] = NoRing
      /\ x \notin Range(pending_list) /\ pending_list' = Append(pending_list, x)
      /\ UNCHANGED <<peer, ring, life>>
  BY Zenon DEF Connect
<1>2. StreamNet /\ srv \in Sockets /\ x \in Sockets
  BY SocketFacts, Zenon DEF StreamInv
<1>3. /\ StreamNet'
      /\ \A y : y \in Range(pending_list)' <=> y = x \/ y \in Range(pending_list)
  BY <1>1, <1>2, NetConnect, Zenon
<1>4. StreamKeeps(srv)
  <2> SUFFICES ASSUME NEW d \in StreamCalls, StreamCall(d)
               PROVE  /\ StreamCall(d)'
                      /\ StreamWait(d) /\ d.sock # srv => StreamWait(d)'
                      /\ ~(d.sock = srv /\ d.op = "connect")
                      /\ d.op = "connect" /\ Accepted(d.sock) => Accepted(d.sock)'
    BY Zenon DEF StreamKeeps
  <2>1. StreamCall(d)' /\ ~(d.sock = srv /\ d.op = "connect")
    BY <1>1, SocketFacts, Zenon DEF StreamCall
  <2>2. Accepted(d.sock) => Accepted(d.sock)'
    BY <1>1, <1>3, Zenon DEF Accepted
  <2>3. StreamWait(d) /\ d.sock # srv => StreamWait(d)'
    BY <1>1, <1>3, Zenon DEF StreamCall, StreamWait
  <2> QED BY <2>1, <2>2, <2>3, Zenon
<1>5. PICK drop \in BOOLEAN : drop = FALSE
  BY Zenon
<1>6. PICK s : s = trigger(sw, srv, drop)
  BY Zenon
<1>7. \/ /\ sw' = sleep(s, t, <<x>>)
         /\ scall' = [scall EXCEPT ![t] = [op |-> "connect", sock |-> x, count |-> 0]]
      \/ sw' = s /\ UNCHANGED scall
  BY <1>5, <1>6, Zenon DEF Connect
<1>8. PICK v : v = sw
  BY Zenon
<1>9. /\ IsWait(v, Threads, Sockets) /\ v.state[t] = "active"
      /\ \A e \in Sockets : t \notin Listening(v, e)
      /\ \A u \in Threads \ {t} : scall[u] \in StreamCalls /\ StreamThread(v, u, scall[u])
  BY <1>1, <1>8, StreamAwake, Zenon DEF StreamEnter, StreamInv
<1>10. s = trigger(v, srv, drop)
  BY <1>6, <1>8, Zenon
<1>11. Triggered(v, s, srv, Threads, Sockets)
  BY <1>2, <1>9, <1>10, TriggerFacts, Zenon
<1>12. /\ IsWait(s, Threads, Sockets) /\ s.state[t] = "active"
       /\ \A e \in Sockets : t \notin Listening(s, e)
  BY <1>9, <1>11, Zenon DEF Triggered
<1>13. ASSUME NEW u \in Threads \ {t}, NEW d \in {scall[u]} PROVE StreamThread(s, u, d)'
  <2>1. d \in StreamCalls /\ StreamThread(v, u, d)
    BY <1>9, Zenon
  <2> QED BY <1>2, <1>4, <1>11, <2>1, TriggerOther, Zenon
<1>14. CASE sw' = s /\ UNCHANGED scall
  <2>1. StreamThread(sw, t, scall[t])'
    BY <1>12, <1>14, Zenon DEF StreamThread
  <2>2. ASSUME NEW u \in Threads \ {t} PROVE StreamThread(sw, u, scall[u])'
    <3>1. \A d \in {scall[u]} : StreamThread(s, u, d)'
      BY <1>13, Zenon
    <3> QED BY <1>14, <3>1, Zenon DEF StreamThread
  <2>3. IsWait(sw', Threads, Sockets) /\ scall' \in [Threads -> StreamCalls]
    BY <1>12, <1>14, Zenon DEF StreamInv
  <2> QED BY <1>3, <2>1, <2>2, <2>3, Zenon DEF StreamInv
<1>15. CASE /\ sw' = sleep(s, t, <<x>>)
            /\ scall' = [scall EXCEPT ![t] = [op |-> "connect", sock |-> x, count |-> 0]]
  <2>1. PICK c : c = [op |-> "connect", sock |-> x, count |-> 0]
    BY Zenon
  <2>2. c \in StreamCalls /\ c.sock = x /\ scall' = [scall EXCEPT ![t] = c]
    BY <1>2, <1>15, <2>1, Zenon DEF StreamCalls
  <2>3. StreamCall(c)' /\ StreamWait(c)'
    BY <1>1, <1>3, <2>1, <2>2, Zenon DEF StreamCall, StreamWait
  <2>4. Slept(s, sw', t, x, Threads, Sockets)
    BY <1>2, <1>12, <1>15, SleepFacts, Zenon
  <2>5. Slept(s, sw', t, c.sock, Threads, Sockets)
    BY <2>2, <2>4, Zenon
  <2> QED BY <1>3, <1>12, <1>13, <2>2, <2>3, <2>5, StreamSleep, Zenon
<1> QED BY <1>7, <1>14, <1>15, Zenon

\* close ends the connection of a socket on which nobody is in a call.
LEMMA StreamClose ==
  ASSUME StreamAssumption, StreamInv, NEW x \in Sockets, Close(x)
  PROVE  StreamInv'
<1>1. /\ x # srv /\ life[x] = "open"
      /\ life' = [life EXCEPT ![x] = "closed"] /\ ring' = [ring EXCEPT ![x] = NoRing]
      /\ peer' = [y \in Sockets |-> IF y = peer[x] THEN NoSock ELSE peer[y]]
      /\ UNCHANGED <<sw, pending_list, scall>> /\ StreamNet
  BY Zenon DEF Close, StreamInv
<1>2. /\ StreamNet'
      /\ \A y \in Sockets \ {x} :
           /\ life'[y] = life[y] /\ ring'[y] = ring[y]
           /\ peer'[y] # NoSock => peer'[y] = peer[y] /\ y # peer[x]
  BY <1>1, NetClose, Zenon
<1>3. ASSUME NEW t \in Threads PROVE StreamThread(sw, t, scall[t])'
  <2>1. StreamThread(sw, t, scall[t])
    BY Zenon DEF StreamInv
  <2>2. PICK c \in StreamCalls : c = scall[t]
    BY Zenon DEF StreamInv
  <2>3. CASE sw.state[t] \notin {"BLOCKED", "READY"}
    BY <1>1, <2>1, <2>3, Zenon DEF StreamThread
  <2>4. CASE sw.state[t] \in {"BLOCKED", "READY"}
    <3>1. StreamCall(c)
      BY <2>1, <2>2, <2>4, Zenon DEF StreamThread
    <3>2. c.sock \in Sockets \ {x}
      <4>1. c # NoCall
        BY <3>1 DEF StreamCall, NoCall
      <4> QED BY <2>2, <2>4, <4>1, Zenon DEF Close, StreamCalls
    <3>3. StreamCall(c)'
      BY <1>2, <3>1, <3>2, Zenon DEF StreamCall
    <3>4. Accepted(c.sock) => Accepted(c.sock)'
      BY <1>1, <1>2, <3>2, Zenon DEF Accepted
    <3>5. ASSUME StreamWait(c) PROVE StreamWait(c)'
      <4>1. CASE c.op \in {"accept", "connect"}
        BY <1>1, <3>5, <4>1, Zenon DEF StreamWait
      <4>2. CASE c.op = "recv"
        BY <1>2, <3>2, <3>5, <4>2, Zenon DEF StreamWait
      <4>3. CASE c.op = "send"
        <5> SUFFICES ASSUME peer'[c.sock] # NoSock PROVE ring'[peer'[c.sock]] = StreamCapacity
          BY <4>3, Zenon DEF StreamWait
        <5>1. peer'[c.sock] = peer[c.sock] /\ c.sock # peer[x]
          BY <1>2, <3>2, Zenon
        <5>2. peer[c.sock] \in Sockets /\ peer[peer[c.sock]] = c.sock
          BY <1>1, <3>1, <3>2, <5>1, PeerIsConnected, Zenon DEF StreamCall
        <5>3. ring[peer[c.sock]] = StreamCapacity
          BY <3>5, <4>3, <5>1, Zenon DEF StreamWait
        <5> QED BY <1>2, <5>1, <5>2, <5>3, Zenon
      <4> QED BY <3>5, <4>1, <4>2, <4>3, Zenon DEF StreamWait
    <3>6. scall'[t] = c /\ sw' = sw
      BY <1>1, <2>2, Zenon
    <3> QED BY <2>1, <2>2, <2>4, <3>3, <3>4, <3>5, <3>6, Zenon DEF StreamThread
  <2> QED BY <2>3, <2>4, Zenon
<1> QED BY <1>1, <1>2, <1>3, Zenon DEF StreamInv

\* A step of another kind leaves the sockets and the calls alone, and keeps what
\* holds for each thread.
LEMMA StreamOnlyThreads ==
  ASSUME StreamInv, UNCHANGED <<pending_list, peer, ring, life, scall>>,
         IsWait(sw', Threads, Sockets),
         \A u \in Threads : \A c \in StreamCalls :
           StreamThread(sw, u, c) => \A r \in {sw'} : StreamThread(r, u, c)
  PROVE  StreamInv'
<1>1. StreamNet' /\ scall' \in [Threads -> StreamCalls]
  BY NetUnchanged, Zenon DEF StreamInv
<1>2. ASSUME NEW u \in Threads PROVE StreamThread(sw, u, scall[u])'
  <2>1. PICK r : r = sw'
    BY Zenon
  <2>2. StreamThread(r, u, scall[u])
    BY <2>1, Zenon DEF StreamInv
  <2> QED BY <2>1, <2>2, NetUnchanged, Zenon DEF StreamThread, StreamCall, StreamWait, Accepted
<1> QED BY <1>1, <1>2, Zenon DEF StreamInv

\* A wait is over: the thread leaves the list, and all is well with the others.
LEMMA StreamWakes ==
  ASSUME StreamInv, NEW t \in Threads, NEW s, Returned(sw, s, t, Threads, Sockets)
  PROVE  StreamEnter(s, t)
<1>1. IsWait(s, Threads, Sockets) /\ s.state[t] = "active"
      /\ \A x \in Sockets : t \notin Listening(s, x)
  BY Zenon DEF Returned
<1>2. ASSUME NEW u \in Threads \ {t} PROVE StreamThread(s, u, scall[u])
  <2>1. /\ s.state[u] = sw.state[u] /\ (s.enq[u] <=> sw.enq[u])
        /\ \A x \in Sockets : u \in Listening(s, x) <=> u \in Listening(sw, x)
    BY Zenon DEF Returned
  <2>2. StreamThread(sw, u, scall[u])
    BY Zenon DEF StreamInv
  <2> QED BY <2>1, <2>2, Zenon DEF StreamThread
<1> QED BY <1>1, <1>2, Zenon DEF StreamEnter

\* Event::wait returns, to an error or to the loop of its call.
LEMMA StreamResume ==
  ASSUME StreamAssumption, StreamInv, NEW t \in Threads, WakeUp(t)
  PROVE  StreamInv'
<1>1. PICK s : s = settled(resume(sw, t), t)
  BY Zenon
<1>2. IsWait(sw, Threads, Sockets) /\ s = settled(resume(sw, t), t)
  BY <1>1, Zenon DEF StreamInv
<1>3. Returned(sw, s, t, Threads, Sockets)
  BY <1>1, <1>2, ReturnFacts, Zenon
<1>4. StreamEnter(s, t)
  BY <1>3, StreamWakes, Zenon
<1>5. PICK c \in StreamCalls : c = scall[t] /\ StreamCall(c)
  BY Zenon DEF WakeUp, StreamInv, StreamThread
<1>6. PICK nb \in BOOLEAN : nb = FALSE
  BY Zenon
<1>7. \/ Fail(t, s)
      \/ accept(t, s, nb)
      \/ c.op = "recv" /\ recvmsg(t, s, c, nb)
      \/ c.op = "send" /\ sendmsg(t, s, c, nb)
  BY <1>2, <1>5, <1>6, Zenon DEF WakeUp
<1>8. CASE Fail(t, s)
  BY <1>4, <1>8, StreamFail, Zenon
<1>9. CASE accept(t, s, nb)
  BY <1>4, <1>9, StreamAccept, Zenon
<1>10. CASE c.op = "recv" /\ recvmsg(t, s, c, nb)
  BY <1>4, <1>5, <1>10, StreamRecv, Zenon
<1>11. CASE c.op = "send" /\ sendmsg(t, s, c, nb)
  BY <1>4, <1>5, <1>11, StreamSend, Zenon
<1> QED BY <1>7, <1>8, <1>9, <1>10, <1>11, Zenon

\* Every step of the sockets and the threads preserves the invariant.
LEMMA StreamStep ==
  ASSUME StreamAssumption
  PROVE  StreamInv /\ [StreamNext]_svars => StreamInv'
<1> SUFFICES ASSUME StreamInv, [StreamNext]_svars PROVE StreamInv'
  BY Zenon
<1>0. IsWait(sw, Threads, Sockets)
  BY Zenon DEF StreamInv
<1>1. ASSUME NEW t \in Threads, NEW nb \in BOOLEAN, Accept(t, nb) PROVE StreamInv'
  <2>1. sw.state[t] = "active" /\ accept(t, sw, nb)
    BY <1>1, Zenon DEF Accept
  <2>2. StreamEnter(sw, t)
    BY <2>1, StreamAwake, Zenon
  <2> QED BY <2>1, <2>2, StreamAccept, Zenon
<1>2. ASSUME NEW t \in Threads, NEW x \in Sockets, NEW count \in StreamCounts,
             NEW nb \in BOOLEAN, Recv(t, x, count, nb)
      PROVE  StreamInv'
  <2>1. PICK c : c = [op |-> "recv", sock |-> x, count |-> count]
    BY Zenon
  <2>2. sw.state[t] = "active" /\ life[x] = "open" /\ recvmsg(t, sw, c, nb)
    BY <1>2, <2>1, Zenon DEF Recv
  <2>3. c \in StreamCalls /\ c.op = "recv" /\ StreamCall(c)
    BY <2>1, <2>2, Zenon DEF StreamCalls, StreamCall, StreamAssumption
  <2>4. StreamEnter(sw, t)
    BY <2>2, StreamAwake, Zenon
  <2> QED BY <2>2, <2>3, <2>4, StreamRecv, Zenon
<1>3. ASSUME NEW t \in Threads, NEW x \in Sockets, NEW count \in StreamCounts,
             NEW nb \in BOOLEAN, Send(t, x, count, nb)
      PROVE  StreamInv'
  <2>1. PICK c : c = [op |-> "send", sock |-> x, count |-> count]
    BY Zenon
  <2>2. sw.state[t] = "active" /\ life[x] = "open" /\ sendmsg(t, sw, c, nb)
    BY <1>3, <2>1, Zenon DEF Send
  <2>3. c \in StreamCalls /\ c.op = "send" /\ StreamCall(c)
    BY <2>1, <2>2, Zenon DEF StreamCalls, StreamCall, StreamAssumption
  <2>4. StreamEnter(sw, t)
    BY <2>2, StreamAwake
  <2> QED BY <2>2, <2>3, <2>4, StreamSend, Zenon
<1>4. ASSUME NEW t \in Threads, NEW masked \in BOOLEAN, SignalThread(t, masked) PROVE StreamInv'
  <2>1. sw' = signal(sw, t, masked) /\ UNCHANGED <<pending_list, peer, ring, life, scall>>
    BY <1>4, Zenon DEF SignalThread
  <2>2. Signalled(sw, sw', t, Threads, Sockets)
    BY <1>0, <2>1, SignalFacts, Zenon
  <2>3. ASSUME NEW u \in Threads, NEW c \in StreamCalls, StreamThread(sw, u, c), NEW r \in {sw'}
        PROVE  StreamThread(r, u, c)
    BY <2>2, <2>3, Zenon DEF Signalled, StreamThread
  <2> QED BY <2>1, <2>2, <2>3, StreamOnlyThreads, Zenon DEF Signalled
<1>5. ASSUME NEW t \in Threads, RunHandler(t) PROVE StreamInv'
  <2>1. /\ sw' = dispatch(sw, t) /\ UNCHANGED <<pending_list, peer, ring, life, scall>>
        /\ sw.state[t] = "active"
    BY <1>5, Zenon DEF RunHandler
  <2>2. Dispatched(sw, sw', t, Threads, Sockets)
    BY <1>0, <2>1, DispatchFacts, Zenon
  <2>3. ASSUME NEW u \in Threads, NEW c \in StreamCalls, StreamThread(sw, u, c), NEW r \in {sw'}
        PROVE  StreamThread(r, u, c)
    BY <2>1, <2>2, <2>3 DEF Dispatched, StreamThread
  <2> QED BY <2>1, <2>2, <2>3, StreamOnlyThreads, Zenon DEF Dispatched
<1>6. ASSUME NEW t \in Threads, KillThread(t) PROVE StreamInv'
  <2>1. sw' = terminate(sw, t) /\ UNCHANGED <<pending_list, peer, ring, life, scall>>
    BY <1>6, Zenon DEF KillThread
  <2>2. Terminated(sw, sw', t, Threads, Sockets)
    BY <1>0, <2>1, TerminateFacts, Zenon
  <2>3. ASSUME NEW u \in Threads, NEW c \in StreamCalls, StreamThread(sw, u, c), NEW r \in {sw'}
        PROVE  StreamThread(r, u, c)
    BY <2>2, <2>3, Zenon DEF Terminated, StreamThread
  <2> QED BY <2>1, <2>2, <2>3, StreamOnlyThreads, Zenon DEF Terminated
<1>7. CASE Listen \/ UNCHANGED svars
  <2>1. UNCHANGED <<sw, pending_list, peer, ring, life, scall>>
    BY <1>7, Zenon DEF Listen, svars
  <2> QED BY <1>0, <2>1, StreamOnlyThreads, Zenon
<1>8. ASSUME NEW t \in Threads, StreamThreadStep(t) PROVE StreamInv'
  BY <1>1, <1>2, <1>3, <1>4, <1>5, <1>6, <1>8, StreamConnect, StreamResume, Zenon DEF StreamThreadStep
<1> QED BY <1>7, <1>8, StreamClose, Zenon DEF StreamNext

-----------------------------------------------------------------------------
\* Nobody sleeps on a stream socket for what is already there, a connection is mutual,
\* and connect returns 0 only for a socket that was accepted (stream.cpp 28-44, 112-120,
\* 154-163, 234, 285).
THEOREM ConnectionsDoWork ==
  ASSUME StreamAssumption
  PROVE  StreamSpec => []ConnectionsWork
<1>1. StreamInv => SleepersWait
  BY Zenon DEF StreamInv, StreamThread, StreamWait, SleepersWait
<1>2. StreamInv => ConnectMeansAccepted
  BY Zenon DEF StreamInv, StreamThread, Accepted, ConnectMeansAccepted, Interrupted
<1>3. StreamInv => ConnectionsWork
  BY <1>1, <1>2, Zenon DEF StreamInv, StreamNet, ConnectionsWork
<1> QED BY <1>3, StreamInvInit, StreamStep, PTL DEF StreamSpec
=============================================================================
