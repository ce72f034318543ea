-------------------------------- MODULE Net --------------------------------
(***************************************************************************)
(* The network path: a system call sends a datagram through ipv4_send,     *)
(* which may have to ask for the address of the next hop; received packets *)
(* become tasks of the IoService thread, which answers ARP requests and    *)
(* hands ARP replies to the coroutine that waits for one.                  *)
(* System calls and interrupt handlers run with interrupts off.  The       *)
(* IoService thread does not: an interrupt may arrive between any two of   *)
(* its steps, also inside a coroutine of another thread that it resumes.   *)
(***************************************************************************)
EXTENDS VirtQueue, SequencesExt

CONSTANTS
  Threads,    \* user threads that send
  Ips,        \* next hops
  TxLength,   \* length of the transmit queue
  RxLength,   \* length of the receive queue
  Lengths, MaxFragment, \* lengths of datagrams, max_fragment_length
  MaxSends, MaxIn, \* bounds: sends of a thread, packets from the network
  Io, Null

VARIABLES
  tx, tx_callbacks, \* transmit queue, [descriptor -> frame or Null]
  rx, packet,       \* receive queue, [its descriptor -> packet in the buffer]
  arp_cache, arp_request_callback,
  frame,            \* [thread or Io -> coroutine frame, or Null]
  sends,            \* [thread -> number of sends]
  tasks, io,        \* task_list, and where the IoService thread is
  arrived,          \* packets received so far
  cut,              \* what coroutines awaited when a signal ended their sync
  stuck,            \* what coroutines await although it has passed
  wild              \* "no", or which callback resumed a coroutine that was gone

vars == <<tx, tx_callbacks, rx, packet, arp_cache, arp_request_callback, frame, sends,
          tasks, io, arrived, cut, stuck, wild>>

\* What the network sends to this machine: others are packets that are consumed
\* without a suspension (UDP, or dropped).
Packets == {[kind |-> k, ip |-> a] : k \in {"reply", "request"}, a \in Ips}
             \cup {[kind |-> "other", ip |-> Null]}

\* NetDevice::init submits a buffer for every receive descriptor.
Init ==
  /\ tx = QueueInit(TxLength)
  /\ tx_callbacks = [d \in 0..(TxLength - 1) |-> Null]
  /\ rx = [QueueInit(RxLength) EXCEPT !.free = RxLength, !.num = 0,
             !.avail = [i \in 1..RxLength |-> i - 1]]
  /\ packet = [d \in 0..(RxLength - 1) |-> Null]
  /\ arp_cache = {}
  /\ arp_request_callback = Null
  /\ frame = [t \in Threads \cup {Io} |-> Null]
  /\ sends = [t \in Threads |-> 0]
  /\ tasks = <<>>
  /\ io = "pops"
  /\ arrived = 0
  /\ cut = {}
  /\ stuck = {}
  /\ wild = "no"

-----------------------------------------------------------------------------
(* Coroutines.  The state s of a step has the fields of Here; a frame is      *)
(* [n, stage, ip, left, desc]: the stage is what it awaits, left the fragments *)
(* that are still to be sent.                                                 *)

Here == [tx |-> tx, cb |-> tx_callbacks, rx |-> rx, arp |-> arp_cache,
         slot |-> arp_request_callback, frame |-> frame, ended |-> {}, stuck |-> stuck, wild |-> wild]

\* The RootAwaitable that the coroutine of t awaits.
Id(s, t) == [thread |-> t, n |-> s.frame[t].n, stage |-> s.frame[t].stage, left |-> s.frame[t].left]

Awaited(s, g) == s.frame[g.thread] # Null /\ Id(s, g.thread) = g

\* The coroutine of t ends with its result; for Io, the buffer of the packet goes
\* back to the device.
finish(s, t) ==
  [s EXCEPT !.ended = @ \cup {t}, !.frame[t].stage = "ended",
            !.rx = IF t = Io THEN submit_descriptor(@, s.frame[Io].desc) ELSE @]

\* arp_lookup awaits the one callback that an interface has for replies, whatever
\* became of the request.
await_reply(s, t) ==
  LET f == [s EXCEPT !.frame[t].stage = "reply"] IN
  [f EXCEPT !.slot = Id(f, t),
            !.stuck = IF s.slot # Null /\ Awaited(s, s.slot) THEN @ \cup {s.slot} ELSE @]

\* send_packet awaited by t.
send_packet(s, t, stage) ==
  LET d == s.tx.free
      f == [s EXCEPT !.frame[t].stage = stage]
  IN  IF d < TxLength
      THEN [f EXCEPT !.tx = submit_descriptor(alloc_descriptor(@), d), !.cb[d] = Id(f, t)]
      ELSE IF stage = "asks" THEN await_reply(s, t)
      ELSE finish(s, t)

\* The fragments of ipv4_send: [offset, length, whether it is the last].
Lesser(a, b) == IF a < b THEN a ELSE b
num_fragments(length) == length \div MaxFragment + 1
fragment(length, i) ==
  [offset |-> i * MaxFragment, length |-> Lesser(MaxFragment, length - i * MaxFragment),
   last |-> i = num_fragments(length) - 1]

\* ipv4_send_fragment of the next one.
send_fragment(s, t) == send_packet([s EXCEPT !.frame[t].left = @ - 1], t, "tx")

\* The coroutine of t goes on after what it awaited: ipv4_send, and the arp_lookup
\* that it starts with.
advance(s, t) ==
  LET f == s.frame[t]
      known == f.ip \in s.arp
  IN  CASE f.stage = "start" -> IF known THEN send_fragment(s, t) ELSE send_packet(s, t, "asks")
        [] f.stage = "asks" -> await_reply(s, t)
        [] f.stage = "reply" -> IF known THEN send_fragment(s, t) ELSE finish(s, t)
        [] f.stage = "tx" -> IF f.left = 0 THEN finish(s, t) ELSE send_fragment(s, t)

\* RequestCallback::invoke.  A callback still points to its RootAwaitable when
\* that is gone: the handle in it is then of a coroutine that has finished, or of
\* one that was destroyed while it waited.
invoke(s, g, how) ==
  IF g = Null \/ s.wild # "no" THEN s
  ELSE IF Awaited(s, g) THEN advance(s, g.thread)
  ELSE [s EXCEPT !.wild = IF g \in cut THEN "cut" ELSE how]

\* send_packet sets the callback after it submitted the descriptor.  With
\* interrupts on, the completion can come between: the callback that the
\* descriptor had before is invoked, and the coroutine of t is not resumed.
\* s1 is the state after a coroutine sent from the state s0.
TooEarly(s0, s1) == Len(s1.tx.avail) > Len(s0.tx.avail)

too_early(s0, s1) ==
  LET d == Last(s1.tx.avail)
      s2 == invoke(s1, s0.cb[d], "tx")
  IN  [s2 EXCEPT !.stuck = @ \cup {s1.cb[d]},
                 !.tx = free_descriptor([@ EXCEPT !.avail = SelectSeq(@, LAMBDA x : x # d)], d)]

Becomes(s) ==
  /\ tx' = s.tx /\ tx_callbacks' = s.cb /\ rx' = s.rx /\ arp_cache' = s.arp
  /\ arp_request_callback' = s.slot /\ frame' = s.frame /\ stuck' = s.stuck /\ wild' = s.wild

-----------------------------------------------------------------------------
(* System calls, and interrupts from the device.                              *)

\* UdpSocket::sendmsg: sync(ipv4_send) to the next hop ip; the caller sleeps
\* unless the coroutine ends at once.
Send(t, ip, length) ==
  LET f == [n |-> sends[t] + 1, stage |-> "start", ip |-> ip, left |-> num_fragments(length), desc |-> Null]
      s == advance([Here EXCEPT !.frame[t] = f], t)
  IN
  /\ wild = "no" /\ frame[t] = Null /\ sends[t] < MaxSends
  /\ sends' = [sends EXCEPT ![t] = @ + 1]
  /\ Becomes(s)
  /\ UNCHANGED <<packet, tasks, io, arrived, cut>>

\* The sync of t returns, and destroys the frame; a signal makes it return before
\* the coroutine has ended.
Return(t) ==
  /\ wild = "no" /\ frame[t] # Null
  /\ frame' = [frame EXCEPT ![t] = Null]
  /\ stuck' = {g \in stuck : g.thread # t}
  /\ cut' = IF frame[t].stage = "ended" THEN cut ELSE cut \cup {Id(Here, t)}
  /\ UNCHANGED <<tx, tx_callbacks, rx, packet, arp_cache, arp_request_callback, sends,
                 tasks, io, arrived, wild>>

\* The device has sent the packet of d.
Transmit(d) ==
  /\ wild = "no" /\ \E i \in DOMAIN tx.avail : tx.avail[i] = d
  /\ tx' = DeviceUses(tx, d)
  /\ UNCHANGED <<tx_callbacks, rx, packet, arp_cache, arp_request_callback, frame, sends,
                 tasks, io, arrived, cut, stuck, wild>>

\* NetDevice::tx_irq
tx_irq ==
  LET one(s, d) == LET a == invoke(s, s.cb[d], "tx")
                   IN  [a EXCEPT !.tx = free_descriptor(@, d)]
      s == FoldLeft(one, Here, Visible(tx))
  IN
  /\ wild = "no" /\ Visible(tx) # <<>>
  /\ Becomes([s EXCEPT !.tx = seen(@)])
  /\ UNCHANGED <<packet, sends, tasks, io, arrived, cut>>

\* A packet arrives in the first buffer the device has.
Receive(p) ==
  /\ wild = "no" /\ arrived < MaxIn /\ rx.avail # <<>>
  /\ packet' = [packet EXCEPT ![Head(rx.avail)] = p]
  /\ rx' = DeviceUses(rx, Head(rx.avail))
  /\ arrived' = arrived + 1
  /\ UNCHANGED <<tx, tx_callbacks, arp_cache, arp_request_callback, frame, sends,
                 tasks, io, cut, stuck, wild>>

\* NetDevice::rx_irq: a task for every buffer.  push triggers queue_event with
\* drop: when the thread does not wait, nothing remains of it.
rx_irq ==
  /\ wild = "no" /\ Visible(rx) # <<>>
  /\ tasks' = tasks \o Visible(rx)
  /\ rx' = seen(rx)
  /\ io' = IF io = "asleep" THEN "pops" ELSE io
  /\ UNCHANGED <<tx, tx_callbacks, packet, arp_cache, arp_request_callback, frame, sends,
                 arrived, cut, stuck, wild>>

-----------------------------------------------------------------------------
(* IoService::thread_loop.                                                    *)

\* pop finds the list empty; the thread has not entered wait yet.
PopNothing ==
  /\ wild = "no" /\ io = "pops" /\ tasks = <<>>
  /\ io' = "empty"
  /\ UNCHANGED <<tx, tx_callbacks, rx, packet, arp_cache, arp_request_callback, frame, sends,
                 tasks, arrived, cut, stuck, wild>>

Wait ==
  /\ wild = "no" /\ io = "empty"
  /\ io' = "asleep"
  /\ UNCHANGED <<tx, tx_callbacks, rx, packet, arp_cache, arp_request_callback, frame, sends,
                 tasks, arrived, cut, stuck, wild>>

\* The task of rx_irq: eth_process, arp_process or ipv4_process, then the buffer
\* is submitted again.  An ARP reply resumes the coroutine that waits for one; an
\* ARP request is answered, and the thread waits for that.
Processed(d) ==
  LET p == packet[d]
      s == [Here EXCEPT !.frame[Io] =
              [n |-> arrived - Len(rx.used) - Len(tasks), stage |-> "task", ip |-> Null, left |-> 0, desc |-> d]]
  IN  CASE p.kind = "other" -> s
        [] p.kind = "reply" -> invoke([s EXCEPT !.arp = @ \cup {p.ip}], s.slot, "arp")
        [] p.kind = "request" -> send_packet(s, Io, "tx")

Task(early) ==
  LET d == Head(tasks)
      s1 == Processed(d)
      s2 == IF early THEN too_early(Here, s1) ELSE s1
      over == s2.frame[Io].stage # "tx"
      s3 == IF over /\ Io \notin s2.ended THEN finish(s2, Io) ELSE s2
  IN
  /\ wild = "no" /\ io = "pops" /\ tasks # <<>>
  /\ early => TooEarly(Here, s1)
  /\ tasks' = Tail(tasks)
  /\ io' = IF over THEN "pops" ELSE "busy"
  /\ packet' = [packet EXCEPT ![d] = Null]
  /\ Becomes([s3 EXCEPT !.frame[Io] = IF over THEN Null ELSE @])
  /\ UNCHANGED <<sends, arrived, cut>>

\* sync returns in the IoService thread.
Done ==
  /\ wild = "no" /\ io = "busy" /\ frame[Io].stage = "ended"
  /\ io' = "pops"
  /\ frame' = [frame EXCEPT ![Io] = Null]
  /\ UNCHANGED <<tx, tx_callbacks, rx, packet, arp_cache, arp_request_callback, sends,
                 tasks, arrived, cut, stuck, wild>>

Next ==
  \/ \E t \in Threads : (\E ip \in Ips, length \in Lengths : Send(t, ip, length)) \/ Return(t)
  \/ \E d \in 0..(TxLength - 1) : Transmit(d)
  \/ tx_irq
  \/ \E p \in Packets : Receive(p)
  \/ rx_irq \/ PopNothing \/ Wait \/ Done
  \/ \E early \in BOOLEAN : Task(early)

Spec == Init /\ [][Next]_vars

-----------------------------------------------------------------------------
\* Every receive buffer is in one place: with the device, unseen, a task, or with
\* the coroutine of the IoService thread, which gives it back once
\* (virtio.cpp 366-382).
BuffersAccounted ==
  LET held == IF frame[Io] = Null \/ frame[Io].stage = "ended" THEN <<>> ELSE <<frame[Io].desc>>
      all == rx.avail \o rx.used \o tasks \o held
  IN  Len(all) = RxLength /\ Range(all) = 0..(RxLength - 1)

\* A coroutine waits for something that is still to come, except for the two
\* ways to lose it that are marked: a completion before its callback was set
\* (virtio.cpp 359-363), and a second lookup that takes the only callback for
\* replies (net.cpp 97).
AnswerIsToCome ==
  \A t \in Threads \cup {Io} : frame[t] # Null /\ frame[t].stage # "ended" =>
     LET g == Id(Here, t) IN
     \/ g \in stuck
     \/ g.stage = "reply" /\ arp_request_callback = g
     \/ \E d \in Range(tx.avail) \cup Range(tx.used) : tx_callbacks[d] = g

\* The fragments of a datagram are its bytes in order, none of them twice, and
\* only the one at the end is marked as the last (net.cpp 211-227).
FragmentsAreTheDatagram ==
  \A length \in 0..(2 * MaxFragment) : LET n == num_fragments(length) IN
     /\ \A b \in 0..(length - 1) : Cardinality({i \in 0..(n - 1) :
           b \in fragment(length, i).offset
                   ..(fragment(length, i).offset + fragment(length, i).length - 1)}) = 1
     /\ \A i \in 0..(n - 1) :
           /\ fragment(length, i).length \in 0..MaxFragment
           /\ fragment(length, i).last <=>
                fragment(length, i).offset + fragment(length, i).length = length /\ i = n - 1
=============================================================================
