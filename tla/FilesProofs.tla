---------------------------- MODULE FilesProofs ----------------------------
(***************************************************************************)
(* Files whose readers and writers sleep, and UDP sockets.                 *)
(*                                                                         *)
(* NobodySleepsInVain: eventfds, pseudo terminals and local datagram       *)
(* sockets, for any number of threads, sockets and names, any capacities   *)
(* and any counts.  (Pipes are in DescriptorProofs, local streams in       *)
(* StreamProofs.)  Each kind of file has an inductive invariant of its     *)
(* own, which adds to the property where the sleepers are listed: a step   *)
(* that takes a sleeper's reason away triggers an event on whose list the  *)
(* sleeper is.                                                             *)
(*                                                                         *)
(* UdpDelivers for any number of threads, sockets and ports and any size   *)
(* of buffer.  Ports: port 0 is given away only when the range is used up, *)
(* and the port of an open socket that was bound once leads to it.         *)
(* Buffers: each holds the last numbers of what arrived, at most Cap; and  *)
(* who sleeps is on the list of the socket of its call.                    *)
(***************************************************************************)
EXTENDS Files, Udp, WaitOpsProofs

-----------------------------------------------------------------------------
(* Eventfd.                                                                *)

\* NoLostWakeup, and: who sleeps is on the list, and who sleeps or was woken is
\* in a call.
EventfdInv ==
  /\ IsWait(ew, Threads, {eventfd_event})
  /\ counter \in 0..COUNTER_MAX
  /\ ecall \in [Threads -> -2..COUNTER_MAX]
  /\ \A t \in Threads :
       /\ ew.state[t] \in {"BLOCKED", "READY"} => ecall[t] # NoEventfdCall
       /\ ew.state[t] = "BLOCKED" => t \in Listening(ew, eventfd_event) /\ EventfdWaits(ecall[t])

\* A new eventfd satisfies the invariant.
LEMMA EventfdStarts == EventfdInit => EventfdInv
<1> SUFFICES ASSUME EventfdInit PROVE EventfdInv
  BY Zenon
<1>1. ew = WaitState(Threads, {eventfd_event})
  BY Zenon DEF EventfdInit
<1>2. IsWait(ew, Threads, {eventfd_event}) /\ \A t \in Threads : ew.state[t] = "active"
  <2>1. Fresh(ew, Threads, {eventfd_event})
    BY <1>1, NewWait, Zenon
  <2> QED BY <2>1, Zenon DEF Fresh
<1>3. counter \in 0..COUNTER_MAX /\ ecall \in [Threads -> -2..COUNTER_MAX]
  BY FilesAssumption DEF EventfdInit, NoEventfdCall
<1> QED BY <1>2, <1>3, Zenon DEF EventfdInv

\* The loops of read and write, entered by the awake thread t in the state s.
LEMMA EventfdLoop ==
  ASSUME EventfdInv, NEW t \in Threads, NEW s, IsWait(s, Threads, {eventfd_event}),
         s.state[t] = "active",
         \A u \in Threads \ {t} : /\ s.state[u] = ew.state[u]
                                  /\ u \in Listening(ew, eventfd_event) => u \in Listening(s, eventfd_event),
         NEW c \in -1..COUNTER_MAX, eventfd_loop(t, s, c)
  PROVE  EventfdInv'
<1> USE FilesAssumption
<1> DEFINE ret == [ecall EXCEPT ![t] = NoEventfdCall]
<1>0. ret \in [Threads -> -2..COUNTER_MAX] /\ \A u \in Threads \ {t} : ret[u] = ecall[u]
  BY DEF EventfdInv, NoEventfdCall
<1>1. CASE ~EventfdWaits(c) /\ counter' = CounterAfter(c) /\ ecall' = ret
           /\ ew' = trigger(s, eventfd_event, TRUE)
  <2>1. Triggered(s, ew', eventfd_event, Threads, {eventfd_event})
    <3>1. PICK drop \in BOOLEAN : ew' = trigger(s, eventfd_event, drop)
      BY <1>1, Zenon
    <3> QED BY <3>1, TriggerFacts, Zenon
  <2>2. counter' \in 0..COUNTER_MAX
    BY <1>1 DEF EventfdWaits, CounterAfter, ReadCall, EventfdInv
  <2> HIDE DEF ret
  <2>3. ASSUME NEW u \in Threads
        PROVE  ew'.state[u] # "BLOCKED" /\ (ew'.state[u] = "READY" => ecall'[u] # NoEventfdCall)
    BY <1>0, <1>1, <2>1, Zenon DEF EventfdInv, Triggered
  <2> QED BY <1>0, <1>1, <2>1, <2>2, <2>3, Zenon DEF EventfdInv, Triggered
<1>2. CASE ew' = s /\ ecall' = ret /\ UNCHANGED counter
  <2> HIDE DEF ret
  <2> QED BY <1>0, <1>2, Zenon DEF EventfdInv, EventfdWaits, Listening
<1>3. CASE /\ EventfdWaits(c) /\ ew' = sleep(s, t, <<eventfd_event>>)
           /\ ecall' = [ecall EXCEPT ![t] = c] /\ UNCHANGED counter
  <2>1. Slept(s, ew', t, eventfd_event, Threads, {eventfd_event})
    <3>1. ew' = sleep(s, t, <<eventfd_event>>)
      BY <1>3, Zenon
    <3> QED BY <3>1, SleepFacts, Zenon
  <2>2. /\ ecall' \in [Threads -> -2..COUNTER_MAX] /\ ecall'[t] = c /\ c # NoEventfdCall
        /\ \A u \in Threads \ {t} : ecall'[u] = ecall[u]
    BY <1>3 DEF EventfdInv, NoEventfdCall
  <2> QED BY <1>3, <2>1, <2>2 DEF EventfdInv, EventfdWaits, Slept
<1> QED BY <1>1, <1>2, <1>3, Zenon DEF eventfd_loop

\* Every step of an eventfd keeps the invariant.
LEMMA EventfdStep == EventfdInv /\ [EventfdNext]_evars => EventfdInv'
<1> SUFFICES ASSUME EventfdInv, [EventfdNext]_evars PROVE EventfdInv'
  BY Zenon
<1>0. IsWait(ew, Threads, {eventfd_event})
  BY Zenon DEF EventfdInv
<1>1. ASSUME NEW t \in Threads, NEW c \in -1..COUNTER_MAX, ew.state[t] = "active", eventfd_loop(t, ew, c)
      PROVE  EventfdInv'
  BY <1>0, <1>1, EventfdLoop, Zenon
<1>2. ASSUME NEW t \in Threads, EventfdRead(t) PROVE EventfdInv'
  <2>1. ReadCall \in -1..COUNTER_MAX
    BY FilesAssumption DEF ReadCall
  <2> QED BY <1>1, <1>2, <2>1, Zenon DEF EventfdRead
<1>3. ASSUME NEW t \in Threads, NEW to_add \in 0..COUNTER_MAX, EventfdWrite(t, to_add) PROVE EventfdInv'
  BY <1>1, <1>3 DEF EventfdWrite
<1>4. ASSUME NEW t \in Threads, EventfdResume(t) PROVE EventfdInv'
  <2> DEFINE s == settled(resume(ew, t), t)
  <2>1. Returned(ew, s, t, Threads, {eventfd_event})
    BY <1>0, ReturnFacts, Zenon
  <2>2. \/ eventfd_loop(t, s, ecall[t])
        \/ ew' = s /\ ecall' = [ecall EXCEPT ![t] = NoEventfdCall] /\ UNCHANGED counter
    BY <1>4, Zenon DEF EventfdResume
  <2> HIDE DEF s
  <2>3. ecall[t] \in -1..COUNTER_MAX
    BY <1>4, FilesAssumption DEF EventfdResume, EventfdInv, NoEventfdCall
  <2>4. CASE eventfd_loop(t, s, ecall[t])
    BY <2>1, <2>3, <2>4, EventfdLoop, Zenon DEF Returned
  <2>5. CASE ew' = s /\ ecall' = [ecall EXCEPT ![t] = NoEventfdCall] /\ UNCHANGED counter
    <3>1. /\ ecall' \in [Threads -> -2..COUNTER_MAX]
          /\ \A u \in Threads \ {t} : ecall'[u] = ecall[u]
      BY <2>5, FilesAssumption DEF EventfdInv, NoEventfdCall
    <3> QED BY <2>1, <2>5, <3>1, Zenon DEF EventfdInv, EventfdWaits, Returned
  <2> QED BY <2>2, <2>4, <2>5, Zenon
<1>5. ASSUME NEW b \in BOOLEAN, SetFlags(b) PROVE EventfdInv'
  BY <1>5, Zenon DEF SetFlags, EventfdInv, EventfdWaits, Listening, IsWait
<1>6. CASE UNCHANGED evars
  BY <1>6, Zenon DEF evars, EventfdInv, EventfdWaits, Listening, IsWait
<1>7. ASSUME NEW t \in Threads, NEW masked \in BOOLEAN, EventfdSignal(t, masked) PROVE EventfdInv'
  <2>1. ew' = signal(ew, t, masked) /\ UNCHANGED <<counter, ecall>>
    BY <1>7, Zenon DEF EventfdSignal
  <2>2. Signalled(ew, ew', t, Threads, {eventfd_event})
    BY <1>0, <2>1, SignalFacts, Zenon
  <2> QED BY <2>1, <2>2, Zenon DEF EventfdInv, EventfdWaits, Signalled
<1>8. ASSUME NEW t \in Threads, EventfdHandler(t) PROVE EventfdInv'
  <2>1. ew' = dispatch(ew, t) /\ UNCHANGED <<counter, ecall>>
    BY <1>8, Zenon DEF EventfdHandler
  <2>2. Dispatched(ew, ew', t, Threads, {eventfd_event})
    BY <1>0, <2>1, DispatchFacts, Zenon
  <2> QED BY <2>1, <2>2, Zenon DEF EventfdInv, EventfdWaits, Dispatched
<1> QED BY <1>2, <1>3, <1>4, <1>5, <1>6, <1>7, <1>8, Zenon DEF EventfdNext

-----------------------------------------------------------------------------
(* Pty.                                                                    *)

PtyCalls == [op : {"none", "read", "write"}, end : Ends, count : Nat]

\* NoLostWakeup, and: who sleeps is on the list of its own end.
PtyInv ==
  /\ IsWait(pw, Threads, Ends)
  /\ pring \in [Ends -> Nat]
  /\ pcall \in [Threads -> PtyCalls]
  /\ \A t \in Threads : pw.state[t] = "BLOCKED" =>
       t \in Listening(pw, pcall[t].end) /\ PtyWaits(pcall[t])

\* The two ends are each other's peers.
LEMMA PeerFacts ==
  ASSUME NEW e \in Ends
  PROVE  Peer(e) \in Ends /\ Peer(e) # e /\ \A x \in Ends : x = e \/ x = Peer(e)
BY Zenon DEF Ends, Peer

\* A new pseudo terminal satisfies the invariant.
LEMMA PtyStarts == PtyInit => PtyInv
<1> SUFFICES ASSUME PtyInit PROVE PtyInv
  OBVIOUS
<1>1. pw = WaitState(Threads, Ends)
  BY Zenon DEF PtyInit
<1>2. IsWait(pw, Threads, Ends) /\ \A t \in Threads : pw.state[t] = "active"
  <2>1. Fresh(pw, Threads, Ends)
    BY <1>1, NewWait, Zenon
  <2> QED BY <2>1, Zenon DEF Fresh
<1>3. pring \in [Ends -> Nat] /\ pcall \in [Threads -> PtyCalls]
  BY Zenon DEF PtyInit, NoPtyCall, Ends, PtyCalls
<1> QED BY <1>2, <1>3, Zenon DEF PtyInv

\* The loops of read and write, entered by the awake thread t in the state s.
LEMMA PtyLoop ==
  ASSUME PtyInv, NEW t \in Threads, NEW s, IsWait(s, Threads, Ends), s.state[t] = "active",
         \A u \in Threads \ {t} :
            /\ s.state[u] = pw.state[u]
            /\ \A e \in Ends : u \in Listening(pw, e) => u \in Listening(s, e),
         NEW c \in PtyCalls, NEW nb \in BOOLEAN, pty_loop(t, s, c, nb)
  PROVE  PtyInv'
<1> DEFINE ret == [pcall EXCEPT ![t] = NoPtyCall]
<1>0. ret \in [Threads -> PtyCalls] /\ \A u \in Threads \ {t} : ret[u] = pcall[u]
  BY Zenon DEF PtyInv, NoPtyCall, PtyCalls, Ends
<1>1. c.end \in Ends /\ c.count \in Nat /\ c.op \in {"none", "read", "write"}
  BY Zenon DEF PtyCalls
<1>2. Peer(c.end) \in Ends /\ Peer(c.end) # c.end
  BY <1>1, PeerFacts, Zenon
<1>3. CASE ~PtyWaits(c) /\ pring' = Transfer(c) /\ pw' = Wake(s, c) /\ pcall' = ret
  <2>1. Triggered(s, pw', Peer(c.end), Threads, Ends)
    <3>1. PICK drop \in BOOLEAN : pw' = trigger(s, Peer(c.end), drop)
      BY <1>3, Zenon DEF Wake
    <3> QED BY <1>2, <3>1, TriggerFacts, Zenon
  <2>2. /\ pring' \in [Ends -> Nat]
        /\ c.op = "read" => /\ \A x \in Ends \ {c.end} : pring'[x] = pring[x]
                            /\ pring[c.end] # 0
        /\ c.op # "read" => /\ \A x \in Ends \ {Peer(c.end)} : pring'[x] = pring[x]
                            /\ pring[Peer(c.end)] # TtyCapacity
    BY <1>1, <1>2, <1>3, FilesAssumption DEF PtyInv, Transfer, PtyLeast, PtyWaits
  <2> HIDE DEF ret
  <2>3. ASSUME NEW u \in Threads, pw'.state[u] = "BLOCKED"
        PROVE  u \in Listening(pw', pcall'[u].end) /\ PtyWaits(pcall[u])' /\ pcall'[u] = pcall[u]
    <3>1. u # t /\ s.state[u] = "BLOCKED" /\ u \notin Listening(s, Peer(c.end))
      BY <2>1, <2>3, Zenon DEF Triggered
    <3>2. /\ pw.state[u] = "BLOCKED" /\ pcall'[u] = pcall[u]
          /\ u \in Listening(pw, pcall[u].end) /\ PtyWaits(pcall[u])
      BY <1>0, <1>3, <3>1, Zenon DEF PtyInv
    <3>3. pcall[u].end \in Ends
      BY Zenon DEF PtyInv, PtyCalls
    <3>4. u \in Listening(s, pcall[u].end) /\ pcall[u].end # Peer(c.end)
      BY <3>1, <3>2, <3>3, Zenon
    <3>5. pcall[u].end = c.end
      BY <1>1, <3>3, <3>4, PeerFacts, Zenon
    <3> QED BY <1>2, <2>1, <2>2, <3>2, <3>3, <3>4, <3>5 DEF PtyWaits, Triggered
  <2> QED BY <1>0, <1>3, <2>1, <2>2, <2>3, Zenon DEF PtyInv, PtyWaits, Triggered
<1>4. CASE pw' = s /\ pcall' = ret /\ UNCHANGED pring
  <2> HIDE DEF ret
  <2>1. \A u \in Threads : pcall[u].end \in Ends
    BY Zenon DEF PtyInv, PtyCalls
  <2> QED BY <1>0, <1>4, <2>1 DEF PtyInv, PtyWaits
<1>5. CASE /\ PtyWaits(c) /\ pw' = sleep(drain(s, c.end), t, <<c.end>>)
           /\ pcall' = [pcall EXCEPT ![t] = c] /\ UNCHANGED pring
  <2>1. Slept(s, pw', t, c.end, Threads, Ends)
    <3>1. pw' = sleep(drain(s, c.end), t, <<c.end>>)
      BY <1>5, Zenon
    <3> QED BY <1>1, <3>1, DrainedSleepFacts, Zenon
  <2>2. /\ pcall' \in [Threads -> PtyCalls] /\ pcall'[t] = c
        /\ \A u \in Threads \ {t} : pcall'[u] = pcall[u]
    BY <1>5, Zenon DEF PtyInv
  <2>3. \A u \in Threads : pcall[u].end \in Ends
    BY Zenon DEF PtyInv, PtyCalls
  <2>4. \A u \in Threads : pw'.state[u] = "BLOCKED" => u \in Listening(pw', pcall'[u].end)
    BY <1>1, <2>1, <2>2, <2>3 DEF PtyInv, Slept
  <2>5. \A u \in Threads : pw'.state[u] = "BLOCKED" => PtyWaits(pcall[u])'
    BY <1>5, <2>1, <2>2 DEF PtyInv, PtyWaits, Slept
  <2> QED BY <1>5, <2>1, <2>2, <2>4, <2>5, Zenon DEF PtyInv, PtyWaits, Slept
<1> QED BY <1>3, <1>4, <1>5, Zenon DEF pty_loop

\* Every step of a pseudo terminal keeps the invariant.
LEMMA PtyStep == PtyInv /\ [PtyNext]_yvars => PtyInv'
<1> SUFFICES ASSUME PtyInv, [PtyNext]_yvars PROVE PtyInv'
  OBVIOUS
<1>0. IsWait(pw, Threads, Ends) /\ \A u \in Threads : pcall[u] \in PtyCalls /\ pcall[u].end \in Ends
  BY Zenon DEF PtyInv, PtyCalls
<1>1. ASSUME NEW t \in Threads, NEW e \in Ends, NEW count \in TtyCounts, NEW nb \in BOOLEAN,
             PtyRead(t, e, count, nb) \/ PtyWrite(t, e, count, nb)
      PROVE  PtyInv'
  <2>1. PICK c \in PtyCalls : pw.state[t] = "active" /\ pty_loop(t, pw, c, nb)
    <3>1. \A op \in {"read", "write"} : [op |-> op, end |-> e, count |-> count] \in PtyCalls
      BY FilesAssumption, Zenon DEF PtyCalls
    <3> QED BY <1>1, <3>1, Zenon DEF PtyRead, PtyWrite
  <2> QED BY <1>0, <2>1, PtyLoop, Zenon
<1>2. ASSUME NEW t \in Threads, PtyResume(t) PROVE PtyInv'
  <2> DEFINE s == settled(resume(pw, t), t)
  <2>1. Returned(pw, s, t, Threads, Ends)
    BY <1>0, ReturnFacts, Zenon
  <2>2. \/ \E nb \in BOOLEAN : pty_loop(t, s, pcall[t], nb)
        \/ pw' = s /\ pcall' = [pcall EXCEPT ![t] = NoPtyCall] /\ UNCHANGED pring
    BY <1>2, Zenon DEF PtyResume
  <2> HIDE DEF s
  <2>3. ASSUME NEW nb \in BOOLEAN, pty_loop(t, s, pcall[t], nb) PROVE PtyInv'
    BY <1>0, <2>1, <2>3, PtyLoop, Zenon DEF Returned
  <2>4. CASE pw' = s /\ pcall' = [pcall EXCEPT ![t] = NoPtyCall] /\ UNCHANGED pring
    <3>1. /\ pcall' \in [Threads -> PtyCalls]
          /\ \A u \in Threads \ {t} : pcall'[u] = pcall[u]
      BY <2>4, Zenon DEF PtyInv, NoPtyCall, PtyCalls, Ends
    <3> QED BY <1>0, <2>1, <2>4, <3>1 DEF PtyInv, PtyWaits, Returned
  <2> QED BY <2>2, <2>3, <2>4, Zenon
<1>3. ASSUME NEW t \in Threads, NEW masked \in BOOLEAN, PtySignal(t, masked) PROVE PtyInv'
  <2>1. pw' = signal(pw, t, masked) /\ UNCHANGED <<pring, pcall>>
    BY <1>3, Zenon DEF PtySignal
  <2>2. Signalled(pw, pw', t, Threads, Ends)
    BY <1>0, <2>1, SignalFacts, Zenon
  <2> QED BY <1>0, <2>1, <2>2, Zenon DEF PtyInv, PtyWaits, Signalled
<1>4. ASSUME NEW t \in Threads, PtyHandler(t) PROVE PtyInv'
  <2>1. pw' = dispatch(pw, t) /\ UNCHANGED <<pring, pcall>>
    BY <1>4, Zenon DEF PtyHandler
  <2>2. Dispatched(pw, pw', t, Threads, Ends)
    BY <1>0, <2>1, DispatchFacts, Zenon
  <2> QED BY <1>0, <2>1, <2>2, Zenon DEF PtyInv, PtyWaits, Dispatched
<1>5. ASSUME NEW b \in BOOLEAN, SetPacketMode(b) PROVE PtyInv'
  BY <1>0, <1>5, Zenon DEF SetPacketMode, PtyInv, PtyWaits
<1>6. CASE UNCHANGED yvars
  BY <1>0, <1>6, Zenon DEF yvars, PtyInv, PtyWaits
<1> QED BY <1>1, <1>2, <1>3, <1>4, <1>5, <1>6, Zenon DEF PtyNext

-----------------------------------------------------------------------------
(* LocalDatagram.                                                          *)

DgramCalls == [op : {"recv"}, sock : Socks, target : {Null}]
              \cup [op : {"send"}, sock : Socks, target : Socks]

\* The reason for which a call c may sleep.
DgramWait(c) ==
  IF c.op = "recv" THEN dring[c.sock] = <<>>
  ELSE /\ Len(dring[c.target]) = DgramCap \/ dwriters[c.target] # {c.sock}
       /\ dwriters[c.target] # {}

\* NobodySleepsInVain, and: who sleeps is on the list of its own socket, what is
\* in a buffer came from a socket that has sent to it, and who waits for room
\* in a buffer knows of one that has.
DgramInv ==
  /\ IsWait(dw, Threads, Socks)
  /\ dring \in [Socks -> Seq(Socks)]
  /\ connected \in [Socks -> Socks \cup {Null}]
  /\ dcall \in [Threads -> DgramCalls \cup {Null}]
  /\ dwriters \in [Socks -> SUBSET Socks]
  /\ \A s \in Socks : \A i \in 1..Len(dring[s]) : dring[s][i] \in dwriters[s]
  /\ \A t \in Threads :
       /\ dw.state[t] \in {"BLOCKED", "READY"} => dcall[t] \in DgramCalls
       /\ dw.state[t] = "BLOCKED" => t \in Listening(dw, dcall[t].sock) /\ DgramWait(dcall[t])

\* New sockets satisfy the invariant, connected by socketpair or not.
LEMMA DgramStarts == DgramInit => DgramInv
<1> SUFFICES ASSUME DgramInit PROVE DgramInv
  OBVIOUS
<1>1. dw = WaitState(Threads, Socks)
  BY Zenon DEF DgramInit
<1>2. IsWait(dw, Threads, Socks) /\ \A t \in Threads : dw.state[t] = "active"
  <2>1. Fresh(dw, Threads, Socks)
    BY <1>1, NewWait, Zenon
  <2> QED BY <2>1, Zenon DEF Fresh
<1>3. /\ dring \in [Socks -> Seq(Socks)] /\ \A s \in Socks : Len(dring[s]) = 0
      /\ connected \in [Socks -> Socks \cup {Null}]
      /\ dcall \in [Threads -> DgramCalls \cup {Null}]
      /\ dwriters \in [Socks -> SUBSET Socks]
  BY DEF DgramInit
<1> QED BY <1>2, <1>3 DEF DgramInv

\* The loops of recvmsg and sendmsg, entered by the awake thread t in the state v.
LEMMA DgramLoop ==
  ASSUME DgramInv, NEW t \in Threads, NEW v, IsWait(v, Threads, Socks), v.state[t] = "active",
         \A u \in Threads \ {t} :
            /\ v.state[u] = dw.state[u]
            /\ \A e \in Socks : u \in Listening(dw, e) => u \in Listening(v, e),
         NEW c \in DgramCalls, NEW nb \in BOOLEAN, UNCHANGED connected,
         \/ c.op = "recv" /\ DgramRecv(v, t, c, nb)
         \/ c.op = "send" /\ DgramSend(v, t, c, nb)
  PROVE  DgramInv'
<1> DEFINE ret == [dcall EXCEPT ![t] = Null]
<1>0. ret \in [Threads -> DgramCalls \cup {Null}] /\ \A u \in Threads \ {t} : ret[u] = dcall[u]
  BY Zenon DEF DgramInv
<1>1. /\ c.sock \in Socks /\ (c.op = "send" => c.target \in Socks)
      /\ \A u \in Threads : dcall[u] \in DgramCalls =>
           dcall[u].sock \in Socks /\ (dcall[u].op # "recv" => dcall[u].target \in Socks)
  BY Zenon DEF DgramCalls
<1>2. CASE dw' = v /\ dcall' = ret /\ UNCHANGED <<dring, dwriters>>
  <2> HIDE DEF ret
  <2>1. ASSUME NEW u \in Threads
        PROVE  /\ v.state[u] \in {"BLOCKED", "READY"} => dcall'[u] \in DgramCalls
               /\ v.state[u] = "BLOCKED" =>
                    /\ dcall'[u] = dcall[u] /\ DgramWait(dcall[u])
                    /\ u \in Listening(v, dcall[u].sock)
    BY <1>0, <1>1, <1>2, Zenon DEF DgramInv
  <2> QED BY <1>0, <1>2, <2>1, Zenon DEF DgramInv, DgramWait
<1>3. CASE /\ dw' = sleep(drain(v, c.sock), t, <<c.sock>>) /\ dcall' = [dcall EXCEPT ![t] = c]
           /\ UNCHANGED <<dring, dwriters>> /\ DgramWait(c)
  <2>1. Slept(v, dw', t, c.sock, Threads, Socks)
    <3>1. PICK e \in Socks : e = c.sock
      BY <1>1, Zenon
    <3>2. PICK evs : evs = <<e>>
      BY Zenon
    <3>3. dw' = sleep(drain(v, e), t, evs)
      BY <1>3, <3>1, <3>2, Zenon
    <3>4. dw' = sleep(drain(v, e), t, <<e>>)
      BY <3>2, <3>3, Zenon
    <3>5. Slept(v, dw', t, e, Threads, Socks)
      BY <3>4, DrainedSleepFacts, Zenon
    <3> QED BY <3>1, <3>5, Zenon
  <2>2. /\ dcall' \in [Threads -> DgramCalls \cup {Null}] /\ dcall'[t] = c
        /\ \A u \in Threads \ {t} : dcall'[u] = dcall[u]
    BY <1>3, Zenon DEF DgramInv
  <2>3. ASSUME NEW u \in Threads
        PROVE  /\ dw'.state[u] \in {"BLOCKED", "READY"} => dcall'[u] \in DgramCalls
               /\ dw'.state[u] = "BLOCKED" => u \in Listening(dw', dcall'[u].sock) /\ DgramWait(dcall[u])'
    <3>1. CASE u = t
      BY <1>3, <2>1, <2>2, <3>1, Zenon DEF Slept, DgramWait
    <3>2. CASE u # t
      BY <1>1, <1>3, <2>1, <2>2, <3>2, ZenonT(30) DEF Slept, DgramWait, DgramInv
    <3> QED BY <3>1, <3>2, Zenon
  <2> QED BY <1>3, <2>1, <2>2, <2>3, Zenon DEF DgramInv, DgramWait, Slept
<1>4. CASE /\ c.op = "recv" /\ dring[c.sock] # <<>>
           /\ dring' = [dring EXCEPT ![c.sock] = Tail(@)] /\ dw' = Tells(v, c.sock)
           /\ dcall' = ret /\ UNCHANGED dwriters
  <2> DEFINE h == Head(dring[c.sock])
  <2>1. /\ dring[c.sock] \in Seq(Socks) /\ Len(dring[c.sock]) \in Nat \ {0}
        /\ h = dring[c.sock][1] /\ h \in Socks /\ h \in dwriters[c.sock]
    <3>1. PICK q \in Seq(Socks) : q = dring[c.sock] /\ q # <<>>
      BY <1>1, <1>4, Zenon DEF DgramInv
    <3>2. Len(q) \in Nat \ {0} /\ Head(q) = q[1] /\ q[1] \in Socks /\ 1 \in 1..Len(q)
      BY ONLY <3>1, q \in Seq(Socks)
    <3>3. q[1] \in dwriters[c.sock]
      BY <1>1, <3>1, <3>2, Zenon DEF DgramInv
    <3> QED BY <3>1, <3>2, <3>3, Zenon
  <2>2. Triggered(v, dw', h, Threads, Socks)
    <3>1. PICK drop \in BOOLEAN : dw' = trigger(v, h, drop)
      BY <1>4, Zenon DEF Tells
    <3> HIDE DEF h
    <3> QED BY <2>1, <3>1, TriggerFacts, Zenon
  <2> HIDE DEF h, ret
  <2>3. /\ dring' \in [Socks -> Seq(Socks)] /\ dring'[c.sock] = Tail(dring[c.sock])
        /\ \A s \in Socks \ {c.sock} : dring'[s] = dring[s]
    BY <1>1, <1>4, <2>1 DEF DgramInv
  <2>4. ASSUME NEW s \in Socks, NEW i \in 1..Len(dring'[s]) PROVE dring'[s][i] \in dwriters'[s]
    <3>1. CASE s # c.sock
      BY <1>4, <2>3, <3>1, Zenon DEF DgramInv
    <3>2. CASE s = c.sock
      <4>1. i + 1 \in 1..Len(dring[s]) /\ dring'[s][i] = dring[s][i + 1]
        BY <1>4, <2>1, <2>3, <3>2, TailFacts
      <4> QED BY <1>4, <4>1, Zenon DEF DgramInv
    <3> QED BY <3>1, <3>2, Zenon
  <2>5. ASSUME NEW u \in Threads, dw'.state[u] = "BLOCKED"
        PROVE  u \in Listening(dw', dcall'[u].sock) /\ DgramWait(dcall[u])' /\ dcall'[u] = dcall[u]
    <3>1. u # t /\ dw.state[u] = "BLOCKED" /\ v.state[u] = "BLOCKED" /\ u \notin Listening(v, h)
      BY <2>2, <2>5, Zenon DEF Triggered
    <3>2. /\ dcall'[u] = dcall[u] /\ dcall[u] \in DgramCalls /\ DgramWait(dcall[u])
          /\ u \in Listening(v, dcall[u].sock) /\ u \in Listening(dw', dcall[u].sock)
      <4>1. /\ dcall[u] \in DgramCalls /\ DgramWait(dcall[u])
            /\ u \in Listening(dw, dcall[u].sock)
        BY <3>1, Zenon DEF DgramInv
      <4>2. dcall[u].sock \in Socks
        BY <1>1, <4>1, Zenon
      <4>3. u \in Listening(v, dcall[u].sock)
        BY <3>1, <4>1, <4>2, Zenon
      <4>4. u \in Listening(dw', dcall[u].sock)
        BY <2>2, <4>2, <4>3, Zenon DEF Triggered
      <4> QED BY <1>0, <1>4, <3>1, <4>1, <4>3, <4>4, Zenon
    <3>3. CASE dcall[u].op = "recv"
      BY <1>1, <1>4, <2>3, <3>2, <3>3 DEF DgramWait
    <3>4. CASE dcall[u].op # "recv"
      <4>1. dcall[u].sock # h
        BY <3>1, <3>2, Zenon
      <4>2. CASE dcall[u].target = c.sock
        BY <1>4, <2>1, <3>2, <3>4, <4>1, <4>2 DEF DgramWait
      <4>3. CASE dcall[u].target # c.sock
        BY <1>1, <1>4, <2>3, <3>2, <3>4, <4>3, Zenon DEF DgramWait
      <4> QED BY <4>2, <4>3, Zenon
    <3> QED BY <3>2, <3>3, <3>4, Zenon
  <2>6. ASSUME NEW u \in Threads, dw'.state[u] \in {"BLOCKED", "READY"} PROVE dcall'[u] \in DgramCalls
    BY <1>0, <1>4, <2>2, <2>6 DEF DgramInv, Triggered
  <2> QED BY <1>0, <1>4, <2>2, <2>3, <2>4, <2>5, <2>6, Zenon DEF DgramInv, DgramWait, Triggered
<1>5. CASE /\ c.op = "send" /\ Len(dring[c.target]) # DgramCap
           /\ dring' = [dring EXCEPT ![c.target] = Append(@, c.sock)]
           /\ dw' = trigger(v, c.target, FALSE) /\ dcall' = ret
           /\ dwriters' = [dwriters EXCEPT ![c.target] = @ \cup {c.sock}]
  <2>1. c.target \in Socks /\ dring[c.target] \in Seq(Socks)
    BY <1>1, <1>5, Zenon DEF DgramInv
  <2>2. Triggered(v, dw', c.target, Threads, Socks)
    <3>1. PICK drop \in BOOLEAN : dw' = trigger(v, c.target, drop)
      BY <1>5, Zenon
    <3> QED BY <2>1, <3>1, TriggerFacts, Zenon
  <2> HIDE DEF ret
  <2>3. /\ dring' \in [Socks -> Seq(Socks)] /\ dring'[c.target] = Append(dring[c.target], c.sock)
        /\ \A s \in Socks \ {c.target} : dring'[s] = dring[s]
    BY <1>1, <1>5, <2>1 DEF DgramInv
  <2>4. /\ dwriters' \in [Socks -> SUBSET Socks]
        /\ dwriters'[c.target] = dwriters[c.target] \cup {c.sock}
        /\ \A s \in Socks \ {c.target} : dwriters'[s] = dwriters[s]
    BY <1>1, <1>5, <2>1, Zenon DEF DgramInv
  <2>5. ASSUME NEW s \in Socks, NEW i \in 1..Len(dring'[s]) PROVE dring'[s][i] \in dwriters'[s]
    <3>1. CASE s # c.target
      BY <2>3, <2>4, <3>1, Zenon DEF DgramInv
    <3>2. CASE s = c.target
      <4>1. PICK q \in Seq(Socks) : q = dring[s]
        BY <2>1, <3>2, Zenon
      <4>2. PICK r : r = Append(q, c.sock)
        BY Zenon
      <4>3. /\ Len(r) = Len(q) + 1 /\ Len(q) \in Nat /\ r[Len(q) + 1] = c.sock
            /\ \A j \in 1..Len(q) : r[j] = q[j]
        BY <1>1, <4>2, AppendFacts
      <4>4. dring'[s] = r /\ i \in 1..(Len(q) + 1)
        BY <2>3, <3>2, <4>1, <4>2, <4>3, Zenon
      <4>5. \/ i \in 1..Len(q) /\ dring'[s][i] = dring[s][i]
            \/ dring'[s][i] = c.sock
        BY <4>1, <4>3, <4>4
      <4> QED BY <2>4, <3>2, <4>1, <4>5, Zenon DEF DgramInv
    <3> QED BY <3>1, <3>2, Zenon
  <2>6. ASSUME NEW u \in Threads, dw'.state[u] = "BLOCKED"
        PROVE  u \in Listening(dw', dcall'[u].sock) /\ DgramWait(dcall[u])' /\ dcall'[u] = dcall[u]
    <3>1. u # t /\ dw.state[u] = "BLOCKED" /\ v.state[u] = "BLOCKED" /\ u \notin Listening(v, c.target)
      BY <2>2, <2>6, Zenon DEF Triggered
    <3>2. /\ dcall'[u] = dcall[u] /\ dcall[u] \in DgramCalls /\ DgramWait(dcall[u])
          /\ u \in Listening(v, dcall[u].sock) /\ u \in Listening(dw', dcall[u].sock)
      <4>1. /\ dcall[u] \in DgramCalls /\ DgramWait(dcall[u])
            /\ u \in Listening(dw, dcall[u].sock)
        BY <3>1, Zenon DEF DgramInv
      <4>2. dcall[u].sock \in Socks
        BY <1>1, <4>1
      <4>3. u \in Listening(v, dcall[u].sock)
        BY <3>1, <4>1, <4>2, Zenon
      <4>4. u \in Listening(dw', dcall[u].sock)
        BY <2>2, <4>2, <4>3, Zenon DEF Triggered
      <4> QED BY <1>0, <1>5, <3>1, <4>1, <4>3, <4>4, Zenon
    <3>3. CASE dcall[u].op = "recv"
      BY <1>1, <2>3, <3>1, <3>2, <3>3 DEF DgramWait
    <3>4. CASE dcall[u].op # "recv"
      <4>1. CASE dcall[u].target = c.target
        <5>1. dwriters[c.target] # {dcall[u].sock} /\ dwriters[c.target] # {}
          BY <1>5, <3>2, <3>4, <4>1, Zenon DEF DgramWait
        <5>2. PICK y \in dwriters[c.target] : y # dcall[u].sock
          BY <5>1, Zenon
        <5>3. dwriters'[c.target] # {dcall[u].sock} /\ dwriters'[c.target] # {}
          BY <2>4, <5>2, Zenon
        <5> QED BY <3>2, <3>4, <4>1, <5>3, Zenon DEF DgramWait
      <4>2. CASE dcall[u].target # c.target
        BY <1>1, <2>3, <2>4, <3>2, <3>4, <4>2 DEF DgramWait
      <4> QED BY <4>1, <4>2, Zenon
    <3> QED BY <3>2, <3>3, <3>4
  <2>7. ASSUME NEW u \in Threads, dw'.state[u] \in {"BLOCKED", "READY"} PROVE dcall'[u] \in DgramCalls
    BY <1>0, <1>5, <2>2, <2>7, ZenonT(30) DEF DgramInv, Triggered
  <2> QED BY <1>0, <1>5, <2>2, <2>3, <2>4, <2>5, <2>6, <2>7, Zenon DEF DgramInv, DgramWait, Triggered
<1>6. CASE c.op = "recv" /\ DgramRecv(v, t, c, nb)
  <2>1. dring[c.sock] = <<>> => DgramWait(c)
    BY <1>6, Zenon DEF DgramWait
  <2> QED BY <1>2, <1>3, <1>4, <1>6, <2>1, Zenon DEF DgramRecv, Waits
<1>7. CASE c.op = "send" /\ DgramSend(v, t, c, nb)
  <2>1. Len(dring[c.target]) = DgramCap => DgramWait(c)
    <3> SUFFICES ASSUME Len(dring[c.target]) = DgramCap PROVE DgramWait(c)
      BY Zenon
    <3>1. 1 \in 1..Len(dring[c.target]) /\ c.target \in Socks
      BY <1>1, <1>7, FilesAssumption
    <3>2. dring[c.target][1] \in dwriters[c.target]
      BY <3>1, Zenon DEF DgramInv
    <3> QED BY <1>7, <3>2, Zenon DEF DgramWait
  <2> QED BY <1>2, <1>3, <1>5, <1>7, <2>1, Zenon DEF DgramSend, Waits
<1> QED BY <1>6, <1>7, Zenon

\* Every step of the datagram sockets keeps the invariant.
LEMMA DgramStep == DgramInv /\ [DgramNext]_dvars => DgramInv'
<1> SUFFICES ASSUME DgramInv, [DgramNext]_dvars PROVE DgramInv'
  OBVIOUS
<1>0. /\ IsWait(dw, Threads, Socks)
      /\ \A u \in Threads : dw.state[u] = "BLOCKED" => dcall[u].sock \in Socks
  BY Zenon DEF DgramInv, DgramCalls
<1>1. ASSUME NEW t \in Threads, NEW s \in Socks, NEW nb \in BOOLEAN, dgram_recvmsg(t, s, nb)
      PROVE  DgramInv'
  <2>1. PICK c \in DgramCalls : /\ c.op = "recv" /\ DgramRecv(dw, t, c, nb)
                                /\ dw.state[t] = "active" /\ UNCHANGED connected
    <3>1. [op |-> "recv", sock |-> s, target |-> Null] \in DgramCalls
      BY Zenon DEF DgramCalls
    <3> QED BY <1>1, <3>1, Zenon DEF dgram_recvmsg, DgramRunning
  <2> QED BY <1>0, <2>1, DgramLoop, Zenon
<1>2. ASSUME NEW t \in Threads, NEW s \in Socks, NEW nb \in BOOLEAN,
             NEW name \in Names \cup {Null}, dgram_sendmsg(t, s, name, nb)
      PROVE  DgramInv'
  <2>1. PICK c \in DgramCalls : /\ c.op = "send" /\ DgramSend(dw, t, c, nb)
                                /\ dw.state[t] = "active" /\ UNCHANGED connected
    <3> DEFINE to == IF connected[s] # Null THEN connected[s] ELSE name
    <3>1. to \in Socks
      BY <1>2, FilesAssumption, Zenon DEF DgramInv, dgram_sendmsg
    <3>2. DgramSend(dw, t, [op |-> "send", sock |-> s, target |-> to], nb)
      BY <1>2, Zenon DEF dgram_sendmsg
    <3> HIDE DEF to
    <3>3. [op |-> "send", sock |-> s, target |-> to] \in DgramCalls
      BY <3>1, Zenon DEF DgramCalls
    <3> QED BY <1>2, <3>2, <3>3, Zenon DEF dgram_sendmsg, DgramRunning
  <2> QED BY <1>0, <2>1, DgramLoop, Zenon
<1>3. ASSUME NEW t \in Threads, DgramResume(t) PROVE DgramInv'
  <2>1. PICK v : v = settled(resume(dw, t), t)
    BY Zenon
  <2>2. Returned(dw, v, t, Threads, Socks)
    BY <1>0, <2>1, ReturnFacts, Zenon
  <2>3. dcall[t] \in DgramCalls /\ dcall[t].op \in {"recv", "send"} /\ UNCHANGED connected
    BY <1>3, Zenon DEF DgramInv, DgramResume, DgramCalls
  <2>4. \/ \E nb \in BOOLEAN : \/ dcall[t].op = "recv" /\ DgramRecv(v, t, dcall[t], nb)
                               \/ dcall[t].op = "send" /\ DgramSend(v, t, dcall[t], nb)
        \/ dw' = v /\ dcall' = [dcall EXCEPT ![t] = Null] /\ UNCHANGED <<dring, dwriters>>
    BY <1>3, <2>1, <2>3, Zenon DEF DgramResume
  <2>5. ASSUME NEW nb \in BOOLEAN,
               \/ dcall[t].op = "recv" /\ DgramRecv(v, t, dcall[t], nb)
               \/ dcall[t].op = "send" /\ DgramSend(v, t, dcall[t], nb)
        PROVE  DgramInv'
    BY <2>2, <2>3, <2>5, DgramLoop, Zenon DEF Returned
  <2>6. CASE dw' = v /\ dcall' = [dcall EXCEPT ![t] = Null] /\ UNCHANGED <<dring, dwriters>>
    <3>1. /\ dcall' \in [Threads -> DgramCalls \cup {Null}]
          /\ \A u \in Threads \ {t} : dcall'[u] = dcall[u]
      BY <2>6, Zenon DEF DgramInv
    <3>2. ASSUME NEW u \in Threads
          PROVE  /\ v.state[u] \in {"BLOCKED", "READY"} => dcall'[u] \in DgramCalls
                 /\ v.state[u] = "BLOCKED" =>
                      /\ dcall'[u] = dcall[u] /\ DgramWait(dcall[u])
                      /\ u \in Listening(v, dcall[u].sock)
      BY <1>0, <2>2, <3>1, Zenon DEF DgramInv, Returned
    <3> QED BY <2>2, <2>3, <2>6, <3>1, <3>2, Zenon DEF DgramInv, DgramWait, Returned
  <2> QED BY <2>4, <2>5, <2>6, Zenon
<1>4. ASSUME NEW t \in Threads, DgramSignal(t) PROVE DgramInv'
  <2>1. PICK masked \in BOOLEAN : dw' = signal(dw, t, masked)
    BY <1>4, Zenon DEF DgramSignal
  <2>2. Signalled(dw, dw', t, Threads, Socks)
    BY <1>0, <2>1, SignalFacts, Zenon
  <2>3. UNCHANGED <<dring, connected, dcall, dwriters>>
    BY <1>4, Zenon DEF DgramSignal
  <2> QED BY <1>0, <2>2, <2>3, Zenon DEF DgramInv, DgramWait, Signalled
<1>5. ASSUME NEW t \in Threads, DgramHandler(t) PROVE DgramInv'
  <2>1. dw' = dispatch(dw, t)
    BY <1>5, Zenon DEF DgramHandler
  <2>2. Dispatched(dw, dw', t, Threads, Socks)
    BY <1>0, <2>1, DispatchFacts, Zenon
  <2>3. UNCHANGED <<dring, connected, dcall, dwriters>>
    BY <1>5, Zenon DEF DgramHandler
  <2> QED BY <1>0, <2>2, <2>3, Zenon DEF DgramInv, DgramWait, Dispatched
<1>6. ASSUME NEW t \in Threads, NEW s \in Socks, NEW to \in Names \ {s}, connect(t, s, to)
      PROVE  DgramInv'
  <2>1. connected' \in [Socks -> Socks \cup {Null}]
    BY <1>6, FilesAssumption, Zenon DEF connect, DgramInv
  <2> QED BY <1>6, <2>1, Zenon DEF connect, DgramInv, DgramWait
<1>7. CASE UNCHANGED dvars
  BY <1>7, Zenon DEF dvars, DgramInv, DgramWait
<1> QED BY <1>1, <1>2, <1>3, <1>4, <1>5, <1>6, <1>7, Zenon DEF DgramNext

\* Nobody sleeps in recvmsg when a datagram is there, nor in sendmsg when there is
\* room and nobody else has sent to the target, whichever sockets are connected,
\* by socketpair or by name: DgramInit leaves that open.
THEOREM DatagramsWakeTheirWaiters == DgramSpec => []DgramWakes
<1>1. DgramInv => DgramWakes
  BY Zenon DEF DgramInv, DgramWait, DgramWakes
<1> QED BY <1>1, DgramStarts, DgramStep, PTL DEF DgramSpec

-----------------------------------------------------------------------------
(* The files together.                                                     *)

\* Nobody sleeps on an eventfd, a pseudo-terminal or a local datagram socket for what
\* is already there (eventfd.cpp 33, 50; pty.cpp 41, 66, 81; datagram.cpp 137, 164-169).
THEOREM FilesWakeTheirWaiters ==
  EventfdSpec /\ PtySpec /\ DgramSpec => []NobodySleepsInVain
<1>1. EventfdInv => EventfdWakes
  BY DEF EventfdInv, EventfdWakes
<1>2. PtyInv => PtyWakes
  BY Zenon DEF PtyInv, PtyWakes
<1>3. EventfdSpec => []EventfdWakes
  BY <1>1, EventfdStarts, EventfdStep, PTL DEF EventfdSpec
<1>4. PtySpec => []PtyWakes
  BY <1>2, PtyStarts, PtyStep, PTL DEF PtySpec
<1> QED BY <1>3, <1>4, DatagramsWakeTheirWaiters, PTL DEF NobodySleepsInVain

-----------------------------------------------------------------------------
(* UDP sockets.                                                            *)

\* Port 0 is taken only when every port of the range is, and the port of a socket
\* that was bound once leads to it.
UdpPorts ==
  /\ port_table \in [AllPorts -> UdpSocks \cup {NoSock}]
  /\ bound \in [UdpSocks -> AllPorts]
  /\ port_table[0] # NoSock => \A p \in AllocPorts : port_table[p] # NoSock
  /\ \A s \in UdpSocks : s \in has_port /\ s \in open /\ s \notin rebound => port_table[bound[s]] = s

\* The port that alloc_port picks: 0 only when the range is used up.
LEMMA PortFacts ==
  ASSUME UdpAssumption, NEW chosen \in Ports \cup {0}, NEW p, AllocatesPort(chosen, p)
  PROVE  /\ chosen # 0 => p = chosen
         /\ p = 0 => chosen = 0 /\ \A o \in AllocPorts : port_table[o] # NoSock
BY Zenon DEF AllocatesPort, UdpAssumption

\* bind gives the socket s the port p that was free.  A socket that had a port is
\* counted as bound twice from then on.
LEMMA PortsBind ==
  ASSUME UdpAssumption, UdpPorts, NEW t \in Threads, NEW s \in UdpSocks,
         NEW chosen \in Ports \cup {0}, NEW p \in AllPorts,
         bind(t, s, chosen, p)
  PROVE  UdpPorts'
<1>1. AllocatesPort(chosen, p)
  BY Zenon DEF bind
<1>2. /\ p \in AllPorts /\ (chosen # 0 => p = chosen) /\ (p = 0 => chosen = 0)
      /\ p = 0 => \A o \in AllocPorts : port_table[o] # NoSock
  BY <1>1, PortFacts, Zenon
<1>3. PICK freed : freed = IF s \in has_port THEN {chosen} ELSE {}
  BY Zenon
<1>4. /\ port_table' = [o \in AllPorts |-> IF o \in freed THEN NoSock
                                             ELSE IF o = p THEN s ELSE port_table[o]]
      /\ port_table[p] = NoSock /\ bound' = [bound EXCEPT ![s] = p]
      /\ has_port' = has_port \cup {s} /\ UNCHANGED open
      /\ rebound' = IF s \in has_port THEN rebound \cup {s} ELSE rebound
  BY <1>3, Zenon DEF bind, Available
<1>5. port_table' \in [AllPorts -> UdpSocks \cup {NoSock}] /\ bound' \in [UdpSocks -> AllPorts]
  BY <1>2, <1>4, Zenon DEF UdpPorts
<1>6. 0 \in AllPorts /\ 0 \notin AllocPorts /\ AllocPorts \subseteq AllPorts
  BY Zenon DEF AllPorts, UdpAssumption
<1>7. ASSUME NEW o \in AllocPorts, port_table[o] # NoSock PROVE port_table'[o] # NoSock
  <2>1. o \notin freed
    BY <1>2, <1>3, <1>4, <1>6, <1>7, Zenon
  <2>2. s # NoSock
    BY Zenon DEF UdpAssumption
  <2> QED BY <1>4, <1>6, <1>7, <2>1, <2>2, Zenon
<1>8. ASSUME port_table'[0] # NoSock, NEW o \in AllocPorts PROVE port_table'[o] # NoSock
  <2>1. p = 0 \/ port_table[0] # NoSock
    BY <1>4, <1>6, <1>8, Zenon
  <2>2. port_table[o] # NoSock
    BY <1>2, <2>1, Zenon DEF UdpPorts
  <2> QED BY <1>7, <2>2, Zenon
<1>9. ASSUME NEW x \in UdpSocks, x \in has_port', x \in open', x \notin rebound'
      PROVE  port_table'[bound'[x]] = x
  <2>1. CASE x = s
    <3>1. s \notin has_port /\ bound'[s] = p /\ freed = {}
      BY <1>3, <1>4, <1>9, <2>1, Zenon DEF UdpPorts
    <3> QED BY <1>2, <1>4, <2>1, <3>1
  <2>2. CASE x # s
    <3>1. /\ bound'[x] = bound[x] /\ bound[x] \in AllPorts /\ port_table[bound[x]] = x
      BY <1>4, <1>9, <2>2, Zenon DEF UdpPorts
    <3>2. x # NoSock
      BY Zenon DEF UdpAssumption
    <3>3. bound[x] # p
      BY <1>4, <3>1, <3>2, Zenon
    <3>4. bound[x] \notin freed
      <4> SUFFICES ASSUME bound[x] = chosen PROVE FALSE
        BY <1>3, Zenon
      <4>1. chosen = 0 /\ p # 0
        BY <1>2, <3>3, Zenon
      <4>2. \A o \in AllocPorts : port_table[o] # NoSock
        BY <3>1, <3>2, <4>1, Zenon DEF UdpPorts
      <4>3. p = 0
        BY <1>1, <4>1, <4>2, Zenon DEF AllocatesPort
      <4> QED BY <4>1, <4>3, Zenon
    <3> QED BY <1>4, <3>1, <3>3, <3>4, Zenon
  <2> QED BY <2>1, <2>2, Zenon
<1> QED BY <1>5, <1>8, <1>9, Zenon DEF UdpPorts

\* sendmsg gives the socket a port if it has none.
LEMMA PortsSend ==
  ASSUME UdpAssumption, UdpPorts, NEW t \in Threads, NEW s \in UdpSocks,
         NEW p \in AllPorts, sendmsg(t, s, p)
  PROVE  UdpPorts'
<1>1. PICK chosen \in Ports \cup {0} : chosen = 0 /\ AllocatesPort(chosen, p)
  BY Zenon DEF sendmsg
<1>2. p = 0 => \A o \in AllocPorts : port_table[o] # NoSock
  BY <1>1, PortFacts, Zenon
<1>3. /\ s \notin has_port /\ port_table[p] = NoSock /\ port_table' = [port_table EXCEPT ![p] = s]
      /\ bound' = [bound EXCEPT ![s] = p] /\ has_port' = has_port \cup {s}
      /\ UNCHANGED <<open, rebound>>
  BY Zenon DEF sendmsg, Available
<1>4. /\ port_table' \in [AllPorts -> UdpSocks \cup {NoSock}] /\ bound' \in [UdpSocks -> AllPorts]
      /\ \A o \in AllPorts : port_table'[o] = IF o = p THEN s ELSE port_table[o]
      /\ \A x \in UdpSocks : bound'[x] = IF x = s THEN p ELSE bound[x]
  BY <1>2, <1>3, Zenon DEF UdpPorts
<1>5. 0 \in AllPorts /\ AllocPorts \subseteq AllPorts /\ NoSock \notin UdpSocks
  BY Zenon DEF AllPorts, UdpAssumption
<1>6. ASSUME port_table'[0] # NoSock, NEW o \in AllocPorts PROVE port_table'[o] # NoSock
  BY <1>2, <1>4, <1>5, <1>6, Zenon DEF UdpPorts
<1>7. ASSUME NEW x \in UdpSocks, x \in has_port', x \in open', x \notin rebound'
      PROVE  port_table'[bound'[x]] = x
  <2>1. CASE x = s
    BY <1>2, <1>4, <2>1, Zenon
  <2>2. CASE x # s
    <3>1. bound'[x] = bound[x] /\ bound[x] \in AllPorts /\ port_table[bound[x]] = x
      BY <1>3, <1>4, <1>7, <2>2, Zenon DEF UdpPorts
    <3> QED BY <1>3, <1>4, <1>5, <3>1
  <2> QED BY <2>1, <2>2, Zenon
<1> QED BY <1>4, <1>6, <1>7, Zenon DEF UdpPorts

\* The buffer q of a socket that was given n datagrams holds the newest ones.
Newest(q, n) == Len(q) <= Cap /\ \A i \in 1..Len(q) : q[i] = n - Len(q) + i

\* A datagram is stored, at the cost of the oldest one if the buffer is full.
LEMMA StoredFacts ==
  ASSUME UdpAssumption, NEW q \in Seq(Nat), NEW n \in Nat, Newest(q, n)
  PROVE  Stored(q, n + 1) \in Seq(Nat) /\ Newest(Stored(q, n + 1), n + 1)
<1>1. PICK b : b = IF Len(q) = Cap THEN Tail(q) ELSE q
  BY Zenon
<1>2. b \in Seq(Nat) /\ Len(b) < Cap /\ \A i \in 1..Len(b) : b[i] = n - Len(b) + i
  <2>1. CASE Len(q) = Cap
    <3>1. q # <<>>
      BY <2>1, Zenon DEF UdpAssumption
    <3>2. /\ Tail(q) \in Seq(Nat) /\ Len(q) \in Nat \ {0} /\ Len(Tail(q)) = Len(q) - 1
          /\ \A i \in 1..Len(Tail(q)) : i + 1 \in 1..Len(q) /\ Tail(q)[i] = q[i + 1]
      BY <3>1, TailFacts, Zenon
    <3>3. ASSUME NEW i \in 1..Len(Tail(q)) PROVE Tail(q)[i] = n - Len(Tail(q)) + i
      <4>1. i \in Nat /\ i + 1 \in 1..Len(q) /\ Tail(q)[i] = q[i + 1]
        BY <3>2
      <4>2. q[i + 1] = n - Len(q) + (i + 1)
        BY <4>1, Zenon DEF Newest
      <4> QED BY <3>2, <4>1, <4>2
    <3>4. b = Tail(q)
      BY <1>1, <2>1, Zenon
    <3> QED BY <2>1, <3>2, <3>3, <3>4
  <2>2. CASE Len(q) # Cap
    <3>1. b = q /\ Len(q) \in Nat /\ Cap \in Nat /\ Len(q) <= Cap
      BY <1>1, <2>2 DEF Newest, UdpAssumption
    <3>2. Len(b) < Cap
      BY <2>2, <3>1
    <3> QED BY <3>1, <3>2, Zenon DEF Newest
  <2> QED BY <2>1, <2>2, Zenon
<1>3. Stored(q, n + 1) = Append(b, n + 1)
  BY <1>1, Zenon DEF Stored
<1>4. /\ Append(b, n + 1) \in Seq(Nat) /\ Len(Append(b, n + 1)) = Len(b) + 1 /\ Len(b) \in Nat
      /\ Append(b, n + 1)[Len(b) + 1] = n + 1
      /\ \A i \in 1..Len(b) : Append(b, n + 1)[i] = b[i]
  BY <1>2, AppendFacts
<1>5. ASSUME NEW i \in 1..(Len(b) + 1)
      PROVE  Append(b, n + 1)[i] = (n + 1) - (Len(b) + 1) + i
  <2>1. CASE i = Len(b) + 1
    BY <1>4, <2>1
  <2>2. CASE i # Len(b) + 1
    <3>1. i \in 1..Len(b) /\ i \in Nat
      BY <1>4, <2>2
    <3>2. Append(b, n + 1)[i] = n - Len(b) + i
      BY <1>2, <1>4, <3>1, Zenon
    <3> QED BY <1>4, <3>1, <3>2
  <2> QED BY <2>1, <2>2, Zenon
<1>6. Len(b) + 1 <= Cap
  BY <1>2, <1>4 DEF UdpAssumption
<1> QED BY <1>3, <1>4, <1>5, <1>6, Zenon DEF Newest

\* The oldest datagram is read.
LEMMA TakenFacts ==
  ASSUME UdpAssumption, NEW q \in Seq(Nat), q # <<>>, NEW n \in Nat, Newest(q, n)
  PROVE  Tail(q) \in Seq(Nat) /\ Newest(Tail(q), n)
<1>1. /\ Tail(q) \in Seq(Nat) /\ Len(q) \in Nat \ {0} /\ Len(Tail(q)) = Len(q) - 1
      /\ \A i \in 1..Len(Tail(q)) : i + 1 \in 1..Len(q) /\ Tail(q)[i] = q[i + 1]
  BY TailFacts, Zenon
<1> QED BY <1>1 DEF Newest, UdpAssumption

UdpBuffers ==
  /\ ring \in [UdpSocks -> Seq(Nat)] /\ arrivals \in [UdpSocks -> Nat]
  /\ \A s \in UdpSocks : Newest(ring[s], arrivals[s])

\* What holds for the thread t in a recvmsg on the socket c, in the event state v:
\* the socket is open, and a sleeper listens to it and it is empty.
UdpThread(v, t, c) ==
  /\ v.state[t] \in {"BLOCKED", "READY"} => c \in open
  /\ v.state[t] = "BLOCKED" => t \in Listening(v, c) /\ ring[c] = <<>>

UdpInv ==
  /\ UdpPorts /\ UdpBuffers
  /\ open \subseteq UdpSocks /\ target \in UdpSocks \cup {NoSock}
  /\ IsWait(uw, Threads, UdpSocks) /\ ucall \in [Threads -> UdpSocks \cup {NoSock}]
  /\ \A t \in Threads : UdpThread(uw, t, ucall[t])

\* New sockets satisfy the invariant.
LEMMA UdpStarts ==
  ASSUME UdpAssumption
  PROVE  UdpInit => UdpInv
<1> SUFFICES ASSUME UdpInit PROVE UdpInv
  BY Zenon
<1>1. uw = WaitState(Threads, UdpSocks)
  BY Zenon DEF UdpInit
<1>2. IsWait(uw, Threads, UdpSocks) /\ \A t \in Threads : uw.state[t] = "active"
  <2>1. Fresh(uw, Threads, UdpSocks)
    BY <1>1, NewWait, Zenon
  <2> QED BY <2>1, Zenon DEF Fresh
<1>3. UdpPorts
  BY Zenon DEF UdpInit, UdpPorts, AllPorts
<1>4. UdpBuffers
  BY DEF UdpInit, UdpBuffers, Newest, UdpAssumption
<1> QED BY <1>2, <1>3, <1>4, Zenon DEF UdpInit, UdpInv, UdpThread

\* The thread t is awake in the event state v, and all is well with the others.
UdpEnter(v, t) ==
  /\ IsWait(v, Threads, UdpSocks) /\ v.state[t] = "active"
  /\ \A u \in Threads \ {t} : UdpThread(v, u, ucall[u])

\* What recvmsg leaves alone.
UdpAround == UNCHANGED <<open, port_table, bound, has_port, arrivals, target, rebound>>

\* recvmsg reads a datagram, fails or sleeps.
LEMMA UdpLook ==
  ASSUME UdpAssumption, UdpInv, NEW t \in Threads, NEW v, UdpEnter(v, t), NEW s \in open,
         NEW nb \in BOOLEAN, Look(v, t, s, nb), UdpAround
  PROVE  UdpInv'
<1>1. UdpPorts' /\ open' \subseteq UdpSocks /\ target' \in UdpSocks \cup {NoSock} /\ s \in UdpSocks
  BY Zenon DEF UdpInv, UdpPorts, UdpAround
<1>2. CASE ring[s] # <<>>
  <2>1. ring' = [ring EXCEPT ![s] = Tail(ring[s])] /\ uw' = v /\ ucall' = [ucall EXCEPT ![t] = NoSock]
    BY <1>2, Zenon DEF Look
  <2>2. /\ ring[s] \in Seq(Nat) /\ arrivals[s] \in Nat /\ Newest(ring[s], arrivals[s])
    BY <1>1, Zenon DEF UdpInv, UdpBuffers
  <2>3. Tail(ring[s]) \in Seq(Nat) /\ Newest(Tail(ring[s]), arrivals[s])
    BY <1>2, <2>2, TakenFacts, Zenon
  <2>4. /\ ring' \in [UdpSocks -> Seq(Nat)] /\ ring'[s] = Tail(ring[s])
        /\ \A x \in UdpSocks \ {s} : ring'[x] = ring[x]
    BY <1>1, <2>1, <2>3, Zenon DEF UdpInv, UdpBuffers
  <2>5. UdpBuffers'
    BY <1>1, <2>3, <2>4, Zenon DEF UdpInv, UdpBuffers, UdpAround
  <2>6. /\ ucall' \in [Threads -> UdpSocks \cup {NoSock}]
        /\ \A u \in Threads \ {t} : ucall'[u] = ucall[u]
    BY <2>1, Zenon DEF UdpInv
  <2>7. ASSUME NEW u \in Threads PROVE UdpThread(uw, u, ucall[u])'
    <3>1. CASE u = t
      BY <2>1, <3>1, Zenon DEF UdpEnter, UdpThread
    <3>2. CASE u # t
      <4>1. UdpThread(v, u, ucall[u])
        BY <3>2, Zenon DEF UdpEnter
      <4>2. v.state[u] = "BLOCKED" => ucall[u] \in UdpSocks \ {s}
        BY <1>1, <1>2, <4>1, Zenon DEF UdpThread, UdpInv
      <4> QED BY <2>1, <2>4, <2>6, <3>2, <4>1, <4>2, Zenon DEF UdpThread, UdpAround
    <3> QED BY <3>1, <3>2, Zenon
  <2> QED BY <1>1, <2>1, <2>5, <2>6, <2>7, Zenon DEF UdpInv, UdpEnter
<1>3. CASE ring[s] = <<>>
  <2>1. /\ UNCHANGED ring
        /\ \/ uw' = v /\ ucall' = [ucall EXCEPT ![t] = NoSock]
           \/ uw' = sleep(drain(v, s), t, <<s>>) /\ ucall' = [ucall EXCEPT ![t] = s]
    BY <1>3, Zenon DEF Look
  <2>2. UdpBuffers'
    BY <2>1, Zenon DEF UdpInv, UdpBuffers, UdpAround
  <2>3. CASE uw' = v /\ ucall' = [ucall EXCEPT ![t] = NoSock]
    <3>1. /\ ucall' \in [Threads -> UdpSocks \cup {NoSock}]
          /\ \A u \in Threads \ {t} : ucall'[u] = ucall[u]
      BY <2>3, Zenon DEF UdpInv
    <3>2. ASSUME NEW u \in Threads PROVE UdpThread(uw, u, ucall[u])'
      BY <2>1, <2>3, <3>1, Zenon DEF UdpEnter, UdpThread, UdpAround
    <3> QED BY <1>1, <2>2, <2>3, <3>1, <3>2, Zenon DEF UdpInv, UdpEnter
  <2>4. CASE uw' = sleep(drain(v, s), t, <<s>>) /\ ucall' = [ucall EXCEPT ![t] = s]
    <3>1. /\ ucall' \in [Threads -> UdpSocks \cup {NoSock}] /\ ucall'[t] = s
          /\ \A u \in Threads \ {t} : ucall'[u] = ucall[u]
      BY <1>1, <2>4, Zenon DEF UdpInv
    <3>2. IsWait(v, Threads, UdpSocks) /\ uw' = sleep(drain(v, s), t, <<s>>)
      BY <2>4, Zenon DEF UdpEnter
    <3>3. Slept(v, uw', t, s, Threads, UdpSocks)
      BY <1>1, <3>2, DrainedSleepFacts, Zenon
    <3>4. ASSUME NEW u \in Threads PROVE UdpThread(uw, u, ucall[u])'
      <4>1. CASE u = t
        BY <1>3, <2>1, <3>1, <3>3, <4>1, Zenon DEF UdpThread, UdpAround, Slept
      <4>2. CASE u # t
        <5>1. UdpThread(v, u, ucall[u])
          BY <4>2 DEF UdpEnter
        <5>2. uw'.state[u] = v.state[u] /\ ucall'[u] = ucall[u]
          BY <3>1, <3>3, <4>2, Zenon DEF Slept
        <5>3. v.state[u] = "BLOCKED" => ucall[u] \in UdpSocks
          BY <5>1, Zenon DEF UdpThread, UdpInv
        <5>4. \A x \in UdpSocks : u \in Listening(v, x) => u \in Listening(uw', x)
          BY <3>3, <4>2, Zenon DEF Slept
        <5> QED BY <2>1, <5>1, <5>2, <5>3, <5>4, Zenon DEF UdpThread, UdpAround
      <4> QED BY <4>1, <4>2
    <3> QED BY <1>1, <2>2, <3>1, <3>3, <3>4, Zenon DEF UdpInv, Slept
  <2> QED BY <2>1, <2>3, <2>4, Zenon
<1> QED BY <1>2, <1>3, Zenon

\* A step of the sockets' threads that leaves buffers, ports and sockets alone.
LEMMA UdpThreadsOnly ==
  ASSUME UdpInv, UdpAround, UNCHANGED ring, IsWait(uw', Threads, UdpSocks),
         ucall' \in [Threads -> UdpSocks \cup {NoSock}],
         \A u \in Threads : UdpThread(uw, u, ucall[u])'
  PROVE  UdpInv'
<1>1. UdpPorts'
  BY Zenon DEF UdpInv, UdpPorts, UdpAround
<1>2. UdpBuffers'
  BY Zenon DEF UdpInv, UdpBuffers, UdpAround
<1> QED BY <1>1, <1>2, Zenon DEF UdpInv, UdpAround

\* A step of the ports that leaves threads and buffers alone.
LEMMA UdpPortsOnly ==
  ASSUME UdpInv, UdpPorts', UNCHANGED <<uw, ring, arrivals, ucall, open>>,
         target' \in UdpSocks \cup {NoSock}
  PROVE  UdpInv'
<1>1. UdpBuffers'
  BY Zenon DEF UdpInv, UdpBuffers
<1>2. \A u \in Threads : UdpThread(uw, u, ucall[u])'
  BY Zenon DEF UdpInv, UdpThread
<1> QED BY <1>1, <1>2, Zenon DEF UdpInv

LEMMA UdpClose ==
  ASSUME UdpInv, NEW t \in Threads, NEW s \in UdpSocks, udp_close(t, s)
  PROVE  UdpInv'
<1>1. /\ open' = open \ {s} /\ \A u \in Threads : ucall[u] # s
      /\ UNCHANGED <<uw, ring, port_table, bound, has_port, arrivals, target, ucall, rebound>>
  BY Zenon DEF udp_close
<1>2. UdpPorts'
  BY <1>1, Zenon DEF UdpInv, UdpPorts
<1>3. UdpBuffers'
  BY <1>1, Zenon DEF UdpInv, UdpBuffers
<1>4. \A u \in Threads : UdpThread(uw, u, ucall[u])'
  BY <1>1, Zenon DEF UdpInv, UdpThread
<1> QED BY <1>1, <1>2, <1>3, <1>4, Zenon DEF UdpInv

\* udp_process stores the datagram and wakes who sleeps on the socket.
LEMMA UdpDeliver ==
  ASSUME UdpAssumption, UdpInv, Deliver
  PROVE  UdpInv'
<1>1. PICK s \in UdpSocks : s = target
  BY Zenon DEF Deliver, UdpInv
<1>2. PICK n : n = arrivals[s]
  BY Zenon
<1>3. /\ ring[s] \in Seq(Nat) /\ n \in Nat /\ Newest(ring[s], n)
  BY <1>2, Zenon DEF UdpInv, UdpBuffers
<1>4. PICK q : q = Stored(ring[s], n + 1)
  BY Zenon
<1>5. q \in Seq(Nat) /\ Newest(q, n + 1)
  BY <1>3, <1>4, StoredFacts, Zenon
<1>6. /\ target' = NoSock
      /\ arrivals' = [arrivals EXCEPT ![s] = n + 1] /\ ring' = [ring EXCEPT ![s] = q]
      /\ uw' = IF s \in open THEN trigger(uw, s, FALSE) ELSE uw
      /\ UNCHANGED <<open, port_table, bound, has_port, ucall, rebound>>
  BY <1>1, <1>2, <1>4, Zenon DEF Deliver
<1>7. /\ ring' \in [UdpSocks -> Seq(Nat)] /\ arrivals' \in [UdpSocks -> Nat]
      /\ \A x \in UdpSocks : /\ ring'[x] = IF x = s THEN q ELSE ring[x]
                          /\ arrivals'[x] = IF x = s THEN n + 1 ELSE arrivals[x]
  BY <1>3, <1>5, <1>6 DEF UdpInv, UdpBuffers
<1>8. UdpBuffers'
  BY <1>5, <1>7, Zenon DEF UdpInv, UdpBuffers
<1>9. UdpPorts'
  BY <1>6, Zenon DEF UdpInv, UdpPorts
<1>10. /\ IsWait(uw', Threads, UdpSocks)
       /\ \A u \in Threads : UdpThread(uw, u, ucall[u])'
  <2>1. CASE s \in open
    <3>1. PICK drop \in BOOLEAN : uw' = trigger(uw, s, drop)
      BY <1>6, <2>1, Zenon
    <3>2. IsWait(uw, Threads, UdpSocks) /\ uw' = trigger(uw, s, drop)
      BY <3>1, Zenon DEF UdpInv
    <3>3. Triggered(uw, uw', s, Threads, UdpSocks)
      BY <3>2, TriggerFacts, Zenon
    <3>4. ASSUME NEW u \in Threads PROVE UdpThread(uw, u, ucall[u])'
      <4>1. UdpThread(uw, u, ucall[u])
        BY Zenon DEF UdpInv
      <4>2. /\ uw'.state[u] = IF u \in Listening(uw, s) /\ uw.state[u] = "BLOCKED"
                              THEN "READY" ELSE uw.state[u]
            /\ \A x \in UdpSocks : Listening(uw', x) = Listening(uw, x)
        BY <3>3, Zenon DEF Triggered
      <4>3. uw.state[u] = "BLOCKED" => ucall[u] \in UdpSocks
        BY <4>1, Zenon DEF UdpThread, UdpInv
      <4>4. uw'.state[u] = "BLOCKED" => uw.state[u] = "BLOCKED" /\ ucall[u] \in UdpSocks \ {s}
        BY <4>1, <4>2, <4>3, Zenon DEF UdpThread
      <4>5. uw'.state[u] \in {"BLOCKED", "READY"} => uw.state[u] \in {"BLOCKED", "READY"}
        BY <4>2, Zenon
      <4> QED BY <1>6, <1>7, <4>1, <4>2, <4>4, <4>5, Zenon DEF UdpThread
    <3> QED BY <3>3, <3>4, Zenon DEF Triggered
  <2>2. CASE s \notin open
    <3>1. uw' = uw
      BY <1>6, <2>2, Zenon
    <3>2. ASSUME NEW u \in Threads PROVE UdpThread(uw, u, ucall[u])'
      <4>1. UdpThread(uw, u, ucall[u])
        BY Zenon DEF UdpInv
      <4>2. uw.state[u] = "BLOCKED" => ucall[u] \in UdpSocks \ {s}
        BY <2>2, <4>1, Zenon DEF UdpThread, UdpInv
      <4> QED BY <1>6, <1>7, <3>1, <4>1, <4>2, Zenon DEF UdpThread
    <3> QED BY <3>1, <3>2, Zenon DEF UdpInv
  <2> QED BY <2>1, <2>2, Zenon
<1> QED BY <1>6, <1>8, <1>9, <1>10, Zenon DEF UdpInv

LEMMA UdpResume ==
  ASSUME UdpAssumption, UdpInv, NEW t \in Threads, Resume(t)
  PROVE  UdpInv'
<1>1. PICK v : v = settled(resume(uw, t), t)
  BY Zenon
<1>2. v = settled(resume(uw, t), t) /\ IsWait(uw, Threads, UdpSocks)
  BY <1>1, Zenon DEF UdpInv
<1>3. Returned(uw, v, t, Threads, UdpSocks)
  BY <1>2, ReturnFacts, Zenon
<1>4. /\ uw.state[t] = "READY" /\ UdpAround
      /\ \/ uw' = v /\ ucall' = [ucall EXCEPT ![t] = NoSock] /\ UNCHANGED ring
         \/ Look(v, t, ucall[t], FALSE)
  BY <1>1, Zenon DEF Resume, UdpAround
<1>5. ASSUME NEW u \in Threads \ {t} PROVE UdpThread(v, u, ucall[u])
  <2>1. UdpThread(uw, u, ucall[u])
    BY Zenon DEF UdpInv
  <2>2. v.state[u] = uw.state[u] /\ \A x \in UdpSocks : Listening(v, x) = Listening(uw, x) \ {t}
    BY <1>3, Zenon DEF Returned
  <2>3. uw.state[u] = "BLOCKED" => ucall[u] \in UdpSocks
    BY <2>1, Zenon DEF UdpThread, UdpInv
  <2> QED BY <2>1, <2>2, <2>3, Zenon DEF UdpThread
<1>6. UdpEnter(v, t)
  BY <1>3, <1>5, Zenon DEF UdpEnter, Returned
<1>7. CASE uw' = v /\ ucall' = [ucall EXCEPT ![t] = NoSock] /\ UNCHANGED ring
  <2>1. /\ ucall' \in [Threads -> UdpSocks \cup {NoSock}]
        /\ \A u \in Threads \ {t} : ucall'[u] = ucall[u]
    BY <1>7, Zenon DEF UdpInv
  <2>2. \A u \in Threads : UdpThread(uw, u, ucall[u])'
    BY <1>4, <1>6, <1>7, <2>1, Zenon DEF UdpEnter, UdpThread, UdpAround
  <2> QED BY <1>4, <1>6, <1>7, <2>1, <2>2, UdpThreadsOnly, Zenon DEF UdpEnter
<1>8. CASE Look(v, t, ucall[t], FALSE)
  <2>1. PICK nb \in BOOLEAN : Look(v, t, ucall[t], nb)
    BY <1>8, Zenon
  <2>2. ucall[t] \in open
    BY <1>4, Zenon DEF UdpInv, UdpThread
  <2> QED BY <1>4, <1>6, <2>1, <2>2, UdpLook, Zenon
<1> QED BY <1>4, <1>7, <1>8, Zenon

\* Every step of the sockets preserves the invariant.
LEMMA UdpStep ==
  ASSUME UdpAssumption
  PROVE  UdpInv /\ [UdpNext]_uvars => UdpInv'
<1> SUFFICES ASSUME UdpInv, [UdpNext]_uvars PROVE UdpInv'
  BY Zenon
<1>1. ASSUME NEW t \in Threads, NEW s \in UdpSocks, NEW chosen \in Ports \cup {0},
             NEW p \in AllPorts, bind(t, s, chosen, p)
      PROVE  UdpInv'
  <2>1. UdpPorts /\ target \in UdpSocks \cup {NoSock}
    BY Zenon DEF UdpInv
  <2>2. UdpPorts'
    BY <1>1, <2>1, PortsBind, Zenon
  <2>3. UNCHANGED <<uw, ring, arrivals, ucall, open, target>>
    BY <1>1, Zenon DEF bind
  <2> QED BY <2>1, <2>2, <2>3, UdpPortsOnly, Zenon
<1>2. ASSUME NEW t \in Threads, NEW s \in UdpSocks, NEW p \in AllPorts,
             sendmsg(t, s, p)
      PROVE  UdpInv'
  <2>1. UdpPorts /\ target \in UdpSocks \cup {NoSock}
    BY Zenon DEF UdpInv
  <2>2. UdpPorts'
    BY <1>2, <2>1, PortsSend, Zenon
  <2>3. UNCHANGED <<uw, ring, arrivals, ucall, open, target>>
    BY <1>2, Zenon DEF sendmsg
  <2> QED BY <2>1, <2>2, <2>3, UdpPortsOnly, Zenon
<1>3. ASSUME NEW t \in Threads, NEW s \in UdpSocks, udp_close(t, s)
      PROVE  UdpInv'
  BY <1>3, UdpClose, Zenon
<1>4. ASSUME NEW t \in Threads, NEW s \in UdpSocks, NEW nb \in BOOLEAN,
             recvmsg(t, s, nb)
      PROVE  UdpInv'
  <2>1. /\ s \in open /\ uw.state[t] = "active" /\ Look(uw, t, s, nb) /\ UdpAround
    BY <1>4, Zenon DEF recvmsg, Running, UdpAround
  <2>2. UdpEnter(uw, t)
    BY <2>1, Zenon DEF UdpInv, UdpEnter
  <2> QED BY <2>1, <2>2, UdpLook, Zenon
<1>5. ASSUME NEW t \in Threads, Resume(t)
      PROVE  UdpInv'
  BY <1>5, UdpResume, Zenon
<1>6. ASSUME NEW t \in Threads, Signal(t)
      PROVE  UdpInv'
  <2>1. PICK masked \in BOOLEAN : uw' = signal(uw, t, masked)
    BY <1>6, Zenon DEF Signal
  <2>2. IsWait(uw, Threads, UdpSocks) /\ uw' = signal(uw, t, masked)
    BY <2>1, Zenon DEF UdpInv
  <2>3. Signalled(uw, uw', t, Threads, UdpSocks)
    BY <2>2, SignalFacts, Zenon
  <2>4. UdpAround /\ UNCHANGED <<ring, ucall>>
    BY <1>6, Zenon DEF Signal, UdpAround
  <2>5. ASSUME NEW u \in Threads PROVE UdpThread(uw, u, ucall[u])'
    <3>1. UdpThread(uw, u, ucall[u])
      BY Zenon DEF UdpInv
    <3>2. /\ uw'.state[u] = IF u = t /\ uw.state[u] = "BLOCKED" THEN "READY" ELSE uw.state[u]
          /\ \A x \in UdpSocks : Listening(uw', x) = Listening(uw, x)
      BY <2>3, Zenon DEF Signalled
    <3>3. uw.state[u] = "BLOCKED" => ucall[u] \in UdpSocks
      BY <3>1, Zenon DEF UdpThread, UdpInv
    <3> QED BY <2>4, <3>1, <3>2, <3>3, Zenon DEF UdpThread, UdpAround
  <2> QED BY <2>3, <2>4, <2>5, UdpThreadsOnly, Zenon DEF Signalled, UdpInv
<1>7. ASSUME NEW t \in Threads, Dispatch(t)
      PROVE  UdpInv'
  <2>1. IsWait(uw, Threads, UdpSocks) /\ uw' = dispatch(uw, t)
    BY <1>7, Zenon DEF Dispatch, UdpInv
  <2>2. Dispatched(uw, uw', t, Threads, UdpSocks)
    BY <2>1, DispatchFacts, Zenon
  <2>3. UdpAround /\ UNCHANGED <<ring, ucall>>
    BY <1>7, Zenon DEF Dispatch, UdpAround
  <2>4. ASSUME NEW u \in Threads PROVE UdpThread(uw, u, ucall[u])'
    <3>1. UdpThread(uw, u, ucall[u])
      BY Zenon DEF UdpInv
    <3>2. /\ uw'.state[u] = uw.state[u]
          /\ \A x \in UdpSocks : Listening(uw', x) = Listening(uw, x)
      BY <2>2, Zenon DEF Dispatched
    <3>3. uw.state[u] = "BLOCKED" => ucall[u] \in UdpSocks
      BY <3>1, Zenon DEF UdpThread, UdpInv
    <3> QED BY <2>3, <3>1, <3>2, <3>3, Zenon DEF UdpThread, UdpAround
  <2> QED BY <2>2, <2>3, <2>4, UdpThreadsOnly, Zenon DEF Dispatched, UdpInv
<1>8. ASSUME NEW p \in AllPorts, Lookup(p)
      PROVE  UdpInv'
  <2>1. /\ UNCHANGED <<uw, ring, arrivals, ucall, open, port_table, bound, has_port, rebound>>
        /\ target' = port_table[p] /\ port_table[p] \in UdpSocks \cup {NoSock}
    BY <1>8, Zenon DEF Lookup, UdpInv, UdpPorts
  <2>2. UdpPorts'
    BY <2>1, Zenon DEF UdpInv, UdpPorts
  <2> QED BY <2>1, <2>2, UdpPortsOnly, Zenon
<1>9. CASE Deliver
  BY <1>9, UdpDeliver, Zenon
<1>10. CASE UNCHANGED uvars
  <2>1. UdpPorts' /\ UNCHANGED <<uw, ring, arrivals, ucall, open, target>>
    BY <1>10, Zenon DEF uvars, UdpInv, UdpPorts
  <2> QED BY <2>1, UdpPortsOnly, Zenon DEF UdpInv
<1> QED BY <1>1, <1>2, <1>3, <1>4, <1>5, <1>6, <1>7, <1>8, <1>9, <1>10, Zenon DEF UdpNext

LEMMA UdpInvDelivers == UdpInv => UdpDelivers
<1> SUFFICES ASSUME UdpInv PROVE UdpDelivers
  BY Zenon
<1>1. PortLeadsHome
  BY Zenon DEF UdpInv, UdpPorts, PortLeadsHome
<1>2. ASSUME NEW s \in UdpSocks, NEW i \in DOMAIN ring[s]
      PROVE  ring[s][i] = arrivals[s] - Len(ring[s]) + i /\ Len(ring[s]) <= Cap
  <2>1. ring[s] \in Seq(Nat) /\ Newest(ring[s], arrivals[s])
    BY Zenon DEF UdpInv, UdpBuffers
  <2>2. i \in 1..Len(ring[s])
    BY <2>1
  <2> QED BY <2>1, <2>2, Zenon DEF Newest
<1>3. \A t \in Threads : uw.state[t] = "BLOCKED" => ring[ucall[t]] = <<>>
  BY Zenon DEF UdpInv, UdpThread
<1> QED BY <1>1, <1>2, <1>3, Zenon DEF UdpDelivers, NewestAreThere

-----------------------------------------------------------------------------
\* A socket's port leads to it, its buffer holds the newest datagrams in order, and
\* nobody sleeps on a buffer that holds one (udp.cpp 10-33, 56-65, 129-140).
THEOREM DatagramsGetThere ==
  ASSUME UdpAssumption
  PROVE  UdpSpec => []UdpDelivers
BY UdpStarts, UdpStep, UdpInvDelivers, PTL DEF UdpSpec
=============================================================================
