-------------------------- MODULE SchedulerProofs --------------------------
(* The run list stays well formed and scheduler_isr's ASSERT holds, for any  *)
(* threads and processes, as long as job control is used one step at a time. *)
EXTENDS Scheduler, TLAPS

Links == [next : [Nodes -> Nodes \cup {Null}], prev : [Nodes -> Nodes \cup {Null}]]

\* list.hpp add_before on the head appends an unlinked entry and keeps the
\* list well formed.
LEMMA AddBeforeLinks ==
  ASSUME NEW l \in Links, NEW S \in SUBSET Threads, NEW e \in Threads \ S,
         WellLinked(l, S)
  PROVE  /\ add_before(l, e) \in Links
         /\ WellLinked(add_before(l, e), S \cup {e})
<1> DEFINE tail == l.prev[ListHead]
           n == [l.next EXCEPT ![tail] = e]
           nn == [n EXCEPT ![e] = ListHead]
           p == [l.prev EXCEPT ![e] = tail]
           pp == [p EXCEPT ![ListHead] = e]
<1>1. /\ ListHead \in Nodes /\ e \in Nodes /\ e # ListHead /\ tail \in S \cup {ListHead} /\ tail # e
      /\ ListHead \notin Threads /\ Null \notin Threads
  BY SchedulerAssumption DEF WellLinked, Nodes, Links
<1>2. add_before(l, e) = [next |-> nn, prev |-> pp]
  BY Zenon DEF add_before
<1>3. /\ nn \in [Nodes -> Nodes \cup {Null}] /\ pp \in [Nodes -> Nodes \cup {Null}]
      /\ \A x \in Nodes : nn[x] = IF x = e THEN ListHead ELSE IF x = tail THEN e ELSE l.next[x]
      /\ \A x \in Nodes : pp[x] = IF x = ListHead THEN e ELSE IF x = e THEN tail ELSE l.prev[x]
  BY <1>1, Zenon DEF Links, Nodes
<1> HIDE DEF n, nn, p, pp
<1>4. /\ \A x \in S \cup {e} \cup {ListHead} :
            /\ nn[x] \in S \cup {e} \cup {ListHead}
            /\ pp[x] \in S \cup {e} \cup {ListHead}
            /\ pp[nn[x]] = x
            /\ nn[pp[x]] = x
      /\ \A x \in Threads \ (S \cup {e}) : nn[x] = Null /\ pp[x] = Null
  <2>1. S \cup {e, ListHead} \subseteq Nodes /\ l.next[tail] = ListHead
    BY <1>1 DEF Nodes, WellLinked
  <2>2. \A x \in S \cup {ListHead} : l.next[x] = ListHead => x = tail
    BY <1>1, Zenon DEF WellLinked
  <2>3. \A x \in S \cup {ListHead} : l.prev[x] = tail => x = ListHead
    BY <1>1, <2>1, Zenon DEF WellLinked
  <2>4. \A x \in Threads \ (S \cup {e}) : nn[x] = Null /\ pp[x] = Null
    BY <1>1, <1>3 DEF WellLinked, Nodes
  <2> QED BY <1>1, <1>3, <2>1, <2>2, <2>3, <2>4 DEF WellLinked
<1>5. ASSUME NEW C \in SUBSET (S \cup {e}), \A x \in C : nn[x] \in C
      PROVE  C = {}
  <2>1. e \notin C
    BY <1>1, <1>3, <1>5
  <2>2. \A x \in C : x \in S /\ x # tail /\ l.next[x] = nn[x]
    BY <1>1, <1>3, <1>5, <2>1 DEF Nodes
  <2> QED BY <1>5, <2>1, <2>2, Zenon DEF WellLinked
<1> QED BY <1>2, <1>3, <1>4, <1>5 DEF WellLinked, Links

\* list.hpp remove unlinks a member and keeps the list well formed.
LEMMA RemoveLinks ==
  ASSUME NEW l \in Links, NEW S \in SUBSET Threads, NEW e \in S,
         WellLinked(l, S)
  PROVE  /\ remove(l, e) \in Links
         /\ WellLinked(remove(l, e), S \ {e})
<1> DEFINE nx == l.next[e]
           pv == l.prev[e]
           p1 == [l.prev EXCEPT ![nx] = pv]
           p2 == [p1 EXCEPT ![e] = Null]
           n1 == [l.next EXCEPT ![pv] = nx]
           n2 == [n1 EXCEPT ![e] = Null]
<1>1. /\ e \in Nodes /\ e # ListHead /\ ListHead \in Nodes /\ S \subseteq Nodes
      /\ nx \in S \cup {ListHead} /\ pv \in S \cup {ListHead}
      /\ l.prev[nx] = e /\ l.next[pv] = e
      /\ ListHead \notin Threads /\ Null \notin Threads
  BY SchedulerAssumption DEF WellLinked, Nodes, Links
<1>2. nx # e /\ pv # e
  <2>1. nx # e
    <3> SUFFICES ASSUME nx = e PROVE FALSE
      BY Zenon
    <3>1. {e} \in SUBSET S /\ \A x \in {e} : l.next[x] \in {e}
      BY Zenon
    <3> QED BY <3>1, Zenon DEF WellLinked
  <2> QED BY <1>1, <2>1, Zenon
<1>3. remove(l, e) = [next |-> n2, prev |-> p2]
  BY Zenon DEF remove
<1>4. /\ n2 \in [Nodes -> Nodes \cup {Null}] /\ p2 \in [Nodes -> Nodes \cup {Null}]
      /\ \A x \in Nodes : n2[x] = IF x = e THEN Null ELSE IF x = pv THEN nx ELSE l.next[x]
      /\ \A x \in Nodes : p2[x] = IF x = e THEN Null ELSE IF x = nx THEN pv ELSE l.prev[x]
  BY <1>1, Zenon DEF Links, Nodes
<1> HIDE DEF p1, p2, n1, n2
<1>5. /\ \A x \in (S \ {e}) \cup {ListHead} :
            /\ n2[x] \in (S \ {e}) \cup {ListHead}
            /\ p2[x] \in (S \ {e}) \cup {ListHead}
            /\ p2[n2[x]] = x
            /\ n2[p2[x]] = x
      /\ \A x \in Threads \ (S \ {e}) : n2[x] = Null /\ p2[x] = Null
  <2>1. \A x \in S \cup {ListHead} : (l.next[x] = e => x = pv) /\ (l.prev[x] = e => x = nx)
    BY <1>1, Zenon DEF WellLinked
  <2>2. \A x \in S \cup {ListHead} : (l.next[x] = nx => x = e) /\ (l.prev[x] = pv => x = e)
    BY <1>1 DEF WellLinked
  <2>3. \A x \in Threads \ (S \ {e}) : n2[x] = Null /\ p2[x] = Null
    BY <1>1, <1>4 DEF WellLinked, Nodes
  <2> QED BY <1>1, <1>2, <1>4, <2>1, <2>2, <2>3 DEF WellLinked
<1>6. ASSUME NEW C \in SUBSET (S \ {e}), \A x \in C : n2[x] \in C
      PROVE  C = {}
  <2>1. CASE pv \in C
    <3>1. \A x \in C \cup {e} : l.next[x] \in C \cup {e}
      BY <1>1, <1>2, <1>4, <1>6, <2>1 DEF Nodes
    <3>2. C \cup {e} \in SUBSET S
      BY Zenon
    <3> QED BY <3>1, <3>2, Zenon DEF WellLinked
  <2>2. CASE pv \notin C
    <3>1. \A x \in C : x \in S /\ l.next[x] = n2[x]
      BY <1>1, <1>4, <1>6, <2>2, Zenon DEF Nodes
    <3> QED BY <1>6, <3>1, Zenon DEF WellLinked
  <2> QED BY <2>1, <2>2, Zenon
<1> QED BY <1>3, <1>4, <1>5, <1>6 DEF WellLinked, Links

-----------------------------------------------------------------------------
(* enqueue_thread and send_signal on the part of the state they change *)

KTypes == [links : Links, state : [Threads \cup {Idle} -> States],
           enq : [Threads -> AllSigs \cup {NoSig}], pend : [Threads -> SUBSET AllSigs]]

On(k) == {t \in Threads : \/ k.state[t] \in {"READY", "RUNNING"}
                          \/ k.state[t] = "STOPPED" /\ k.enq[t] = "CONT"}

KOK(k) == k \in KTypes /\ WellLinked(k.links, On(k))

\* enqueue_thread keeps the run list well formed, unless it continues a stopped
\* thread that is already linked; it changes no state but BLOCKED to READY.
LEMMA EnqueueOK ==
  ASSUME NEW k, KOK(k), NEW t \in Threads, NEW sig \in AllSigs \cup {NoSig},
         ~(k.state[t] = "STOPPED" /\ sig = "CONT" /\ k.enq[t] = "CONT")
  PROVE  LET e == enqueue_thread(k, t, sig) IN
         /\ KOK(e)
         /\ e.pend = k.pend
         /\ \A u \in Threads \cup {Idle} :
               e.state[u] = k.state[u] \/ (k.state[u] = "BLOCKED" /\ e.state[u] = "READY")
<1> DEFINE e == enqueue_thread(k, t, sig)
<1>1. CASE ~Wakeable(k, t, sig)
  <2>1. e = k
    BY <1>1, Zenon DEF enqueue_thread
  <2> HIDE DEF e
  <2> QED BY <2>1, Zenon DEF e
<1>2. CASE Wakeable(k, t, sig)
  <2> DEFINE st == [k.state EXCEPT ![t] = IF @ = "BLOCKED" THEN "READY" ELSE @]
             en == [k.enq EXCEPT ![t] = sig]
  <2>1. e = [links |-> add_before(k.links, t), state |-> st, enq |-> en, pend |-> k.pend]
    BY <1>2, Zenon DEF enqueue_thread, KOK, KTypes
  <2>2. t \notin On(k)
    BY <1>2, Zenon DEF On, Wakeable
  <2>3. /\ add_before(k.links, t) \in Links
        /\ WellLinked(add_before(k.links, t), On(k) \cup {t})
    <3>1. On(k) \in SUBSET Threads /\ k.links \in Links
      BY Zenon DEF On, KOK, KTypes
    <3> QED BY <2>2, <3>1, AddBeforeLinks, Zenon DEF KOK
  <2>4. e \in KTypes
    BY <2>1, <2>3, SchedulerAssumption DEF KOK, KTypes, States
  <2>5. On(e) = On(k) \cup {t}
    BY <1>2, <2>1 DEF On, Wakeable, KOK, KTypes
  <2>6. \A u \in Threads \cup {Idle} :
          e.state[u] = k.state[u] \/ (k.state[u] = "BLOCKED" /\ e.state[u] = "READY")
    BY <2>1 DEF KOK, KTypes
  <2>7. e.pend = k.pend /\ e.links = add_before(k.links, t)
    BY <2>1
  <2> HIDE DEF e
  <2>8. KOK(e)
    BY <2>3, <2>4, <2>5, <2>7, Zenon DEF KOK
  <2> QED BY <2>6, <2>7, <2>8, Zenon DEF e
<1> QED BY <1>1, <1>2, Zenon

\* The same for send_signal, which also makes the signal pending.
LEMMA SendSignalOK ==
  ASSUME NEW k, KOK(k), NEW t \in Threads, NEW sig \in AllSigs,
         ~(k.state[t] = "STOPPED" /\ sig = "CONT" /\ k.enq[t] = "CONT")
  PROVE  LET e == send_signal(k, t, sig) IN
         /\ KOK(e)
         /\ e.pend = [k.pend EXCEPT ![t] = @ \cup {sig}]
         /\ \A u \in Threads \cup {Idle} :
               e.state[u] = k.state[u] \/ (k.state[u] = "BLOCKED" /\ e.state[u] = "READY")
<1> DEFINE j == [k EXCEPT !.pend[t] = @ \cup {sig}]
<1>1. j = [links |-> k.links, state |-> k.state, enq |-> k.enq,
           pend |-> [k.pend EXCEPT ![t] = @ \cup {sig}]]
  BY DEF KOK, KTypes
<1>2. KOK(j) /\ On(j) = On(k)
  <2>1. j \in KTypes
    BY <1>1, Zenon DEF KOK, KTypes
  <2>2. On(j) = On(k) /\ j.links = k.links
    BY <1>1, Zenon DEF On
  <2> HIDE DEF j
  <2> QED BY <2>1, <2>2, Zenon DEF KOK
<1>3. ~(j.state[t] = "STOPPED" /\ sig = "CONT" /\ j.enq[t] = "CONT")
  BY <1>1, Zenon
<1>4. j.state = k.state /\ j.pend = [k.pend EXCEPT ![t] = @ \cup {sig}]
  BY <1>1, Zenon
<1>5. send_signal(k, t, sig) = enqueue_thread(j, t, sig)
  BY Zenon DEF send_signal
<1> HIDE DEF j
<1> QED BY <1>2, <1>3, <1>4, <1>5, EnqueueOK

-----------------------------------------------------------------------------
(* Preservation of SchedulerInv *)

KTypeOK == /\ links \in Links
           /\ state \in [Threads \cup {Idle} -> States]
           /\ enqueued_by_signal \in [Threads -> AllSigs \cup {NoSig}]
           /\ pending_signals \in [Threads -> SUBSET AllSigs]

RestTypeOK ==
  /\ running \in Threads \cup {Idle}
  /\ cpu \in {"thread", "syscall", "irq", "reap", "isr", "picked", "check"}
  /\ self_irq \in BOOLEAN
  /\ inKernel \in [Threads -> BOOLEAN]
  /\ yield_await \in [Threads \cup {Idle} -> BOOLEAN]
  /\ entering_signal \in [Threads -> BOOLEAN]
  /\ parent \in [Procs -> Procs]
  /\ victims \subseteq Threads
  /\ after \in {"none", "yield", "check", "thread"}
  /\ ctx \in [Threads \cup {Idle} -> Threads \cup {Idle}]
  /\ regs \in Threads \cup {Idle}

\* TypeOK in two parts: what enqueue_thread and send_signal change, the rest.
LEMMA TypeSplit == TypeOK <=> KTypeOK /\ RestTypeOK
  BY Zenon DEF TypeOK, KTypeOK, RestTypeOK, Links

\* The state satisfies the list invariant exactly when its KState does.
LEMMA KStateOK == KTypeOK /\ RunListInv => KOK(KState)
<1> SUFFICES ASSUME KTypeOK, RunListInv PROVE KOK(KState)
  BY Zenon
<1>1. KState \in KTypes
  BY Zenon DEF KState, KTypes, KTypeOK
<1>2. On(KState) = OnRunList /\ KState.links = links
  BY Zenon DEF On, OnRunList, Continued, KState
<1> QED BY <1>1, <1>2, Zenon DEF KOK, RunListInv

\* A step that ends in a good KState ends in a good state.
LEMMA SetKOK ==
  ASSUME NEW k, KOK(k), SetK(k)
  PROVE  KTypeOK' /\ RunListInv'
<1>1. KTypeOK'
  BY Zenon DEF KOK, KTypes, SetK, KTypeOK
<1>2. On(k) = OnRunList' /\ k.links = links'
  BY Zenon DEF On, OnRunList, Continued, SetK
<1> QED BY <1>1, <1>2, Zenon DEF KOK, RunListInv

\* Steps that leave the threads' states and the run list alone.
LEMMA ListUnchanged ==
  KTypeOK /\ RunListInv /\ UNCHANGED <<links, state, enqueued_by_signal, pending_signals>>
    => KTypeOK' /\ RunListInv'
  BY DEF KTypeOK, RunListInv, OnRunList, Continued, WellLinked

\* The boot state satisfies the invariant.
LEMMA InitInv == Init => SchedulerInv
<1> SUFFICES ASSUME Init PROVE SchedulerInv
  BY Zenon
<1> DEFINE i == MainOf[InitProc]
<1>1. i \in Threads /\ i # ListHead /\ i # Idle /\ Null \notin Nodes
  BY SchedulerAssumption DEF Nodes
<1>2. TypeOK
  BY <1>1, SchedulerAssumption, Zenon DEF Init, TypeOK, Nodes, States
<1>3. OnRunList = {i}
  BY <1>1, SchedulerAssumption, Zenon DEF Init, OnRunList, Continued
<1>4. /\ \A x \in {i, ListHead} : links.next[x] \in {i, ListHead} /\ links.prev[x] \in {i, ListHead}
      /\ \A x \in {i, ListHead} : links.prev[links.next[x]] = x /\ links.next[links.prev[x]] = x
      /\ \A x \in Threads \ {i} : links.next[x] = Null /\ links.prev[x] = Null
      /\ links.next[i] = ListHead
  BY <1>1, SchedulerAssumption, Zenon DEF Init, Nodes
<1>5. RunListInv
  BY <1>1, <1>3, <1>4, Zenon DEF RunListInv, WellLinked
<1>6. RunningState /\ NoStops
  BY <1>1, SchedulerAssumption, Zenon DEF Init, RunningState, NoStops
<1> QED BY <1>2, <1>5, <1>6, Zenon DEF SchedulerInv

\* The thread scheduler_isr switches to is the idle thread or on the run list.
LEMMA NextThreadOnList ==
  ASSUME SchedulerInv
  PROVE  NextThread \in OnRunList \cup {Idle}
<1>1. running \in Threads \cup {Idle} /\ OnRunList \subseteq Threads
  BY Zenon DEF SchedulerInv, TypeOK, OnRunList
<1>2. running # Idle => links.next[running] \in OnRunList \cup {ListHead, Null}
  BY <1>1, Zenon DEF SchedulerInv, RunListInv, WellLinked
<1>3. links.next[ListHead] \in OnRunList \cup {ListHead}
  BY Zenon DEF SchedulerInv, RunListInv, WellLinked
<1> QED BY <1>1, <1>2, <1>3, Zenon DEF NextThread

\* Stopping a linked thread keeps the list well formed and stops nobody else.
LEMMA StopThreadOK ==
  ASSUME NEW k, KOK(k), NEW t \in Threads, k.state[t] \in {"READY", "RUNNING"},
         k.enq[t] = NoSig, parent \in [Procs -> Procs]
  PROVE  LET e == stop_thread(k, t) IN
         /\ KOK(e)
         /\ e.state[t] = "STOPPED"
         /\ \A u \in Threads \cup {Idle} : u # t =>
               e.state[u] = k.state[u] \/ (k.state[u] = "BLOCKED" /\ e.state[u] = "READY")
<1> DEFINE st == [k EXCEPT !.links = remove(@, t), !.state[t] = "STOPPED"]
           par == parent[ProcOf[t]]
<1>1. st = [links |-> remove(k.links, t), state |-> [k.state EXCEPT ![t] = "STOPPED"],
            enq |-> k.enq, pend |-> k.pend]
  <2> DEFINE r == remove(k.links, t)
  <2> HIDE DEF r
  <2>1. k \in KTypes
    BY Zenon DEF KOK
  <2>2. [k EXCEPT !.links = r, !.state[t] = "STOPPED"]
          = [links |-> r, state |-> [k.state EXCEPT ![t] = "STOPPED"],
             enq |-> k.enq, pend |-> k.pend]
    <3> DEFINE a == [k EXCEPT !.links = r]
    <3>1. a = [links |-> r, state |-> k.state, enq |-> k.enq, pend |-> k.pend]
      BY <2>1 DEF KTypes
    <3>2. [k EXCEPT !.links = r, !.state[t] = "STOPPED"] = [a EXCEPT !.state[t] = "STOPPED"]
      BY <2>1, Zenon DEF KTypes
    <3> HIDE DEF a
    <3>3. [a EXCEPT !.state[t] = "STOPPED"]
            = [links |-> r, state |-> [k.state EXCEPT ![t] = "STOPPED"],
               enq |-> k.enq, pend |-> k.pend]
      BY <3>1
    <3> QED BY <3>2, <3>3, Zenon
  <2> QED BY <2>2, Zenon DEF r
<1>2. t \in On(k) /\ On(k) \in SUBSET Threads /\ k.links \in Links /\ WellLinked(k.links, On(k))
  BY Zenon DEF On, KOK, KTypes
<1>3. remove(k.links, t) \in Links /\ WellLinked(remove(k.links, t), On(k) \ {t})
  BY <1>2, RemoveLinks, Zenon
<1>4. st \in KTypes
  BY <1>1, <1>3, Zenon DEF KOK, KTypes, States
<1>5. On(st) = On(k) \ {t} /\ st.links = remove(k.links, t)
  <2>1. /\ st.links = remove(k.links, t) /\ st.enq = k.enq
        /\ \A u \in Threads : st.state[u] = IF u = t THEN "STOPPED" ELSE k.state[u]
    BY <1>1, Zenon DEF KOK, KTypes
  <2> HIDE DEF st
  <2> QED BY <2>1, Zenon DEF On, NoSig
<1>6. KOK(st)
  BY <1>3, <1>4, <1>5, Zenon DEF KOK
<1>7. /\ st.state[t] = "STOPPED"
      /\ \A u \in Threads \cup {Idle} : u # t => st.state[u] = k.state[u]
  BY <1>1, Zenon DEF KOK, KTypes
<1>8. par \in Procs /\ MainOf[par] \in Threads
  BY SchedulerAssumption, Zenon
<1> HIDE DEF st, par
<1>9. LET e == send_signal(st, MainOf[par], "CHLD") IN
      /\ KOK(e)
      /\ \A u \in Threads \cup {Idle} :
             e.state[u] = st.state[u] \/ (st.state[u] = "BLOCKED" /\ e.state[u] = "READY")
  <2>1. "CHLD" \in AllSigs /\ "CHLD" # "CONT"
    BY Zenon DEF AllSigs
  <2> QED BY <1>6, <1>8, <2>1, SendSignalOK, ZenonT(30)
<1>10. stop_thread(k, t) = st \/ stop_thread(k, t) = send_signal(st, MainOf[par], "CHLD")
  BY Zenon DEF stop_thread, st, par
<1> QED BY <1>6, <1>7, <1>9, <1>10, Zenon

\* dispatch_pending_signal for the running thread, a linked one, keeps the list
\* well formed, stops nobody but that thread and leaves a state the caller
\* can go on with.
LEMMA DispatchOK ==
  ASSUME SchedulerInv, JobControlSafe,
         running # Idle, state[running] \in {"READY", "RUNNING"},
         dispatch_pending_signal(running, KState, "check")
  PROVE  /\ KTypeOK' /\ RunListInv' /\ NoStops'
         /\ entering_signal' \in [Threads -> BOOLEAN]
         /\ state'[Idle] = state[Idle]
         /\ \/ /\ cpu' = "check" /\ UNCHANGED <<victims, after>>
               /\ state'[running] \in {"READY", "RUNNING", "STOPPED"}
            \/ /\ cpu' = "reap" /\ after' = "check" /\ victims' \subseteq Threads
               /\ state'[running] \in {"READY", "RUNNING"}
               /\ \A v \in victims' : state'[v] # "STOPPED"
<1> DEFINE t == running
           k1 == [KState EXCEPT !.enq[t] = NoSig]
           k2(sig) == [k1 EXCEPT !.pend[t] = @ \ {sig}]
<1>1. /\ t \in Threads /\ t # Idle /\ Idle \notin Threads
      /\ KTypeOK /\ RestTypeOK /\ RunListInv /\ NoStops /\ KOK(KState)
      /\ parent \in [Procs -> Procs] /\ state[Idle] \in {"READY", "RUNNING"}
  BY SchedulerAssumption, TypeSplit, KStateOK, Zenon DEF SchedulerInv, RestTypeOK, RunningState
<1> DEFINE en == [enqueued_by_signal EXCEPT ![t] = NoSig]
<1>2. /\ k1 = [links |-> links, state |-> state, enq |-> en, pend |-> pending_signals]
      /\ \A sig : k2(sig) = [links |-> links, state |-> state, enq |-> en,
                             pend |-> [pending_signals EXCEPT ![t] = @ \ {sig}]]
  <2>1. k1 = [links |-> links, state |-> state, enq |-> en, pend |-> pending_signals]
    BY DEF KState
  <2> HIDE DEF k1, en
  <2>2. ASSUME NEW sig
        PROVE  k2(sig) = [links |-> links, state |-> state, enq |-> en,
                          pend |-> [pending_signals EXCEPT ![t] = @ \ {sig}]]
    BY <2>1
  <2> QED BY <2>1, <2>2, Zenon
<1> HIDE DEF k1, k2
<1>3. k1 \in KTypes /\ \A sig : k2(sig) \in KTypes
  BY <1>1, <1>2, Zenon DEF KTypes, KTypeOK
<1>4. On(k1) = On(KState) /\ k1.links = KState.links
  BY <1>1, <1>2, Zenon DEF On, KState, KTypeOK
<1>5. ASSUME NEW sig
      PROVE  On(k2(sig)) = On(KState) /\ k2(sig).links = KState.links
  BY <1>1, <1>2, Zenon DEF On, KState, KTypeOK
<1>6. KOK(k1) /\ \A sig : KOK(k2(sig))
  BY <1>1, <1>3, <1>4, <1>5, Zenon DEF KOK
<1>7. entering_signal' \in [Threads -> BOOLEAN]
  BY <1>1, Zenon DEF dispatch_pending_signal, RestTypeOK
<1>8. CASE SetK(k1) /\ cpu' = "check" /\ UNCHANGED <<victims, after>>
  <2>1. KTypeOK' /\ RunListInv'
    BY <1>6, <1>8, SetKOK, Zenon
  <2>2. state' = state /\ pending_signals' = pending_signals
    BY <1>2, <1>8, Zenon DEF SetK
  <2> QED BY <1>1, <1>7, <1>8, <2>1, <2>2, Zenon DEF NoStops
<1>9. ASSUME NEW sig \in pending_signals[t], SetK(k2(sig))
      PROVE  KTypeOK' /\ RunListInv' /\ NoStops' /\ state' = state
  <2>1. KTypeOK' /\ RunListInv'
    BY <1>6, <1>9, SetKOK, Zenon
  <2>2. state' = state /\ pending_signals' = [pending_signals EXCEPT ![t] = @ \ {sig}]
    BY <1>2, <1>9, Zenon DEF SetK
  <2>3. \A u \in Threads : pending_signals'[u] \subseteq pending_signals[u]
    BY <1>1, <2>2, Zenon DEF KTypeOK
  <2> QED BY <1>1, <2>1, <2>2, <2>3, Zenon DEF NoStops
<1>10. ASSUME NEW sig \in pending_signals[t], sig \in {"USR", "CONT", "CHLD"},
              SetK(k2(sig)), cpu' = "check", UNCHANGED <<victims, after>>
       PROVE  /\ KTypeOK' /\ RunListInv' /\ NoStops' /\ state'[Idle] = state[Idle]
              /\ state'[running] \in {"READY", "RUNNING", "STOPPED"}
  BY <1>9, <1>10, Zenon
<1>11. ASSUME NEW sig \in pending_signals[t], SetK(k2(sig)), cpu' = "reap",
              victims' = ProcThreads(ProcOf[t])
       PROVE  /\ KTypeOK' /\ RunListInv' /\ NoStops' /\ state'[Idle] = state[Idle]
              /\ victims' \subseteq Threads
              /\ state'[running] \in {"READY", "RUNNING"}
              /\ \A v \in victims' : state'[v] # "STOPPED"
  <2>1. KTypeOK' /\ RunListInv' /\ NoStops' /\ state' = state
    BY <1>9, <1>11, Zenon
  <2>2. \A v \in victims' : v \in Threads /\ state[v] # "STOPPED"
    BY <1>1, <1>11, Zenon DEF ProcThreads, NoStops, JobControlSafe
  <2> QED BY <2>1, <2>2, Zenon
<1>12. ASSUME "STOP" \in pending_signals[t], SetK(stop_thread(k2("STOP"), t))
       PROVE  /\ KTypeOK' /\ RunListInv' /\ NoStops' /\ state'[Idle] = state[Idle]
              /\ state'[running] = "STOPPED"
  <2>1. "STOP" \in Sigs
    BY <1>1, <1>12, Zenon DEF NoStops
  <2> DEFINE k == k2("STOP")
             e == stop_thread(k, t)
  <2>2. /\ k.state = state /\ k.enq[t] = NoSig /\ KOK(k)
    BY <1>1, <1>2, <1>6, Zenon DEF KTypeOK
  <2> HIDE DEF k
  <2>3. /\ KOK(e) /\ e.state[t] = "STOPPED"
        /\ \A u \in Threads \cup {Idle} : u # t =>
               e.state[u] = k.state[u] \/ (k.state[u] = "BLOCKED" /\ e.state[u] = "READY")
    BY <1>1, <2>2, StopThreadOK
  <2>4. SetK(e)
    BY <1>12, Zenon DEF k
  <2> HIDE DEF e
  <2>5. KTypeOK' /\ RunListInv'
    BY <2>3, <2>4, SetKOK, Zenon
  <2>6. state'[t] = "STOPPED" /\ state'[Idle] = state[Idle]
    BY <1>1, <2>2, <2>3, <2>4, Zenon DEF SetK
  <2> QED BY <2>1, <2>5, <2>6, Zenon DEF NoStops
<1>13. \/ SetK(k1) /\ cpu' = "check" /\ UNCHANGED <<victims, after>>
       \/ \E sig \in pending_signals[t] :
            \/ sig \in {"USR", "CONT", "CHLD"} /\ SetK(k2(sig)) /\ cpu' = "check"
               /\ UNCHANGED <<victims, after>>
            \/ SetK(k2(sig)) /\ cpu' = "reap" /\ victims' = ProcThreads(ProcOf[t])
               /\ after' = "check"
            \/ sig = "STOP" /\ SetK(stop_thread(k2(sig), t)) /\ cpu' = "check"
               /\ UNCHANGED <<victims, after>>
  <2>1. KState.pend[t] = pending_signals[t]
    BY Zenon DEF KState
  <2> QED BY <2>1, Zenon DEF dispatch_pending_signal, k1, k2
<1> QED BY <1>7, <1>8, <1>10, <1>11, <1>12, <1>13, Zenon

\* terminate_thread of a thread that is not stopped keeps the list well formed
\* and otherwise only wakes blocked threads.
LEMMA TerminateOK ==
  ASSUME SchedulerInv, NEW v \in Threads, state[v] # "STOPPED", terminate_thread(v)
  PROVE  /\ KTypeOK' /\ RunListInv' /\ NoStops' /\ parent' \in [Procs -> Procs]
         /\ \A u \in Threads \cup {Idle} :
               \/ state'[u] = state[u]
               \/ state[u] = "BLOCKED" /\ state'[u] = "READY"
               \/ u = v /\ state'[u] = "ZOMBIE"
<1> DEFINE linked == state[v] \in {"READY", "RUNNING"}
           ls == IF linked THEN remove(links, v) ELSE links
           zs == [state EXCEPT ![v] = "ZOMBIE"]
           k == [KState EXCEPT !.links = IF linked THEN remove(@, v) ELSE @,
                               !.state[v] = "ZOMBIE"]
           par == parent[ProcOf[v]]
           e == send_signal(k, MainOf[par], "CHLD")
<1>1. /\ KTypeOK /\ RunListInv /\ NoStops /\ KOK(KState) /\ parent \in [Procs -> Procs]
      /\ par \in Procs /\ MainOf[par] \in Threads /\ Idle \notin Threads
      /\ "CHLD" \in AllSigs /\ "CHLD" # "CONT" /\ "CHLD" # "STOP"
  BY SchedulerAssumption, TypeSplit, KStateOK, Zenon DEF SchedulerInv, RestTypeOK, AllSigs
<1>2. k = [links |-> ls, state |-> zs, enq |-> enqueued_by_signal, pend |-> pending_signals]
  <2> DEFINE a == [KState EXCEPT !.links = ls]
  <2>1. a = [links |-> ls, state |-> state, enq |-> enqueued_by_signal, pend |-> pending_signals]
    BY DEF KState
  <2>2. k = [a EXCEPT !.state[v] = "ZOMBIE"]
    BY Zenon DEF KState
  <2> HIDE DEF a, k, ls
  <2>3. [a EXCEPT !.state[v] = "ZOMBIE"]
          = [links |-> ls, state |-> zs, enq |-> enqueued_by_signal, pend |-> pending_signals]
    BY <2>1
  <2> QED BY <2>2, <2>3, Zenon
<1>3. ls \in Links /\ WellLinked(ls, OnRunList \ {v})
  <2>1. OnRunList \in SUBSET Threads /\ (linked <=> v \in OnRunList)
    BY Zenon DEF OnRunList, Continued
  <2>2. CASE linked
    BY <1>1, <2>1, <2>2, RemoveLinks, Zenon DEF RunListInv, KTypeOK
  <2>3. CASE ~linked
    <3>1. OnRunList \ {v} = OnRunList
      BY <2>1, <2>3, Zenon
    <3> QED BY <1>1, <2>3, <3>1, Zenon DEF RunListInv, KTypeOK
  <2> QED BY <2>2, <2>3, Zenon
<1>4. zs \in [Threads \cup {Idle} -> States]
      /\ \A u \in Threads \cup {Idle} : zs[u] = IF u = v THEN "ZOMBIE" ELSE state[u]
  BY <1>1, Zenon DEF KTypeOK, States
<1> HIDE DEF k, ls, zs
<1>5. KOK(k) /\ k.state = zs /\ k.pend = pending_signals
  <2>1. k \in KTypes /\ k.links = ls /\ k.state = zs /\ k.enq = enqueued_by_signal
        /\ k.pend = pending_signals
    BY <1>1, <1>2, <1>3, <1>4, Zenon DEF KTypes, KTypeOK
  <2>2. On(k) = OnRunList \ {v}
    BY <1>4, <2>1, Zenon DEF On, OnRunList, Continued
  <2> QED BY <1>3, <2>1, <2>2, Zenon DEF KOK
<1> DEFINE m == MainOf[par]
<1>6. /\ KOK(e) /\ e.pend = [k.pend EXCEPT ![m] = @ \cup {"CHLD"}]
      /\ \A u \in Threads \cup {Idle} :
            e.state[u] = k.state[u] \/ (k.state[u] = "BLOCKED" /\ e.state[u] = "READY")
  <2>1. m \in Threads
    BY <1>1, Zenon
  <2> HIDE DEF m, par
  <2> QED BY <1>1, <1>5, <2>1, SendSignalOK DEF m
<1>7. CASE SetK(KState) /\ UNCHANGED parent
  <2>1. KTypeOK' /\ RunListInv'
    BY <1>1, <1>7, SetKOK, Zenon
  <2>2. UNCHANGED <<state, pending_signals>>
    BY <1>7, Zenon DEF SetK, KState
  <2> QED BY <1>1, <1>7, <2>1, <2>2, Zenon DEF NoStops
<1>8. CASE SetK(k) /\ UNCHANGED parent
  <2>1. KTypeOK' /\ RunListInv'
    BY <1>5, <1>8, SetKOK, Zenon
  <2>2. state' = zs /\ pending_signals' = pending_signals
    BY <1>5, <1>8, Zenon DEF SetK
  <2> QED BY <1>1, <1>4, <1>8, <2>1, <2>2, Zenon DEF NoStops
<1>9. CASE /\ SetK(e)
           /\ parent' = [q \in Procs |-> IF parent[q] = ProcOf[v] THEN InitProc ELSE parent[q]]
  <2>1. KTypeOK' /\ RunListInv'
    BY <1>6, <1>9, SetKOK, Zenon
  <2>2. parent' \in [Procs -> Procs]
    BY <1>1, <1>9, SchedulerAssumption, Zenon
  <2>3. state' = e.state /\ pending_signals' = e.pend
    BY <1>9, Zenon DEF SetK
  <2> HIDE DEF e, m, par
  <2>4. \A u \in Threads : "STOP" \in pending_signals'[u] => "STOP" \in pending_signals[u]
    BY <1>1, <1>5, <1>6, <2>3 DEF KTypeOK
  <2>5. \A u \in Threads \cup {Idle} :
               \/ state'[u] = state[u]
               \/ state[u] = "BLOCKED" /\ state'[u] = "READY"
               \/ u = v /\ state'[u] = "ZOMBIE"
    BY <1>4, <1>5, <1>6, <2>3, Zenon
  <2> QED BY <1>1, <2>1, <2>2, <2>4, <2>5, Zenon DEF NoStops
<1>10. \/ SetK(KState) /\ UNCHANGED parent
       \/ SetK(k) /\ UNCHANGED parent
       \/ SetK(e) /\ parent' = [q \in Procs |-> IF parent[q] = ProcOf[v] THEN InitProc
                                                ELSE parent[q]]
  BY Zenon DEF terminate_thread, Linked, k, e, par
<1> QED BY <1>7, <1>8, <1>9, <1>10, Zenon

\* Every step of the scheduler preserves SchedulerInv.
LEMMA StepInv ==
  ASSUME SchedulerInv, JobControlSafe, ~Exceptions, [Next]_vars
  PROVE  SchedulerInv'
<1>1. /\ KTypeOK /\ RestTypeOK /\ RunListInv /\ RunningState /\ NoStops /\ KOK(KState)
      /\ Idle \notin Threads
  BY SchedulerAssumption, TypeSplit, KStateOK, Zenon DEF SchedulerInv
<1> SUFFICES KTypeOK' /\ RestTypeOK' /\ RunListInv' /\ RunningState' /\ NoStops'
  BY TypeSplit, PTL DEF SchedulerInv
<1> DEFINE Quiet == UNCHANGED <<links, state, enqueued_by_signal, pending_signals>>
<1>2. Quiet => KTypeOK' /\ RunListInv' /\ NoStops'
  BY <1>1, ListUnchanged, Zenon DEF NoStops
<1>3. CASE UNCHANGED vars
  BY <1>1, <1>2, <1>3 DEF vars, RestTypeOK, RunningState
<1>4. ASSUME NEW t \in Threads, SyscallEnter(t)
      PROVE  KTypeOK' /\ RestTypeOK' /\ RunListInv' /\ RunningState' /\ NoStops'
  BY <1>1, <1>2, <1>4, Zenon DEF SyscallEnter, InUser, RestTypeOK, RunningState, sigVars
<1>5. ASSUME NEW t \in Threads, SyscallReturn(t)
      PROVE  KTypeOK' /\ RestTypeOK' /\ RunListInv' /\ RunningState' /\ NoStops'
  BY <1>1, <1>2, <1>5, Zenon DEF SyscallReturn, RestTypeOK, RunningState
<1>6. ASSUME NEW t \in Threads, EventWait(t)
      PROVE  KTypeOK' /\ RestTypeOK' /\ RunListInv' /\ RunningState' /\ NoStops'
  <2>1. t \in OnRunList /\ OnRunList \in SUBSET Threads
    BY <1>6, Zenon DEF EventWait, OnRunList
  <2>2. links' \in Links /\ WellLinked(links', OnRunList \ {t})
    BY <1>1, <1>6, <2>1, RemoveLinks, Zenon DEF EventWait, RunListInv, KTypeOK
  <2>3. OnRunList' = OnRunList \ {t}
    BY <1>1, <1>6, Zenon DEF EventWait, OnRunList, Continued, KTypeOK, States
  <2>4. KTypeOK' /\ NoStops'
    BY <1>1, <1>6, <2>2, Zenon DEF EventWait, KTypeOK, NoStops, States, sigVars
  <2>5. RestTypeOK' /\ RunningState'
    BY <1>1, <1>6, Zenon DEF EventWait, yield, KTypeOK, RestTypeOK, RunningState, States, sigVars
  <2> QED BY <2>2, <2>3, <2>4, <2>5, Zenon DEF RunListInv
<1>7. ASSUME NEW t \in Threads, YieldReturn(t)
      PROVE  KTypeOK' /\ RestTypeOK' /\ RunListInv' /\ RunningState' /\ NoStops'
  BY <1>1, <1>2, <1>7, Zenon DEF YieldReturn, RestTypeOK, RunningState, sigVars
<1>8. ASSUME NEW t \in Threads, NEW u \in Threads, Clone(t, u)
      PROVE  KTypeOK' /\ RestTypeOK' /\ RunListInv' /\ RunningState' /\ NoStops'
  <2>1. u \in Threads \ OnRunList /\ OnRunList \in SUBSET Threads
    BY <1>8, Zenon DEF Clone, OnRunList, Continued
  <2>2. links' \in Links /\ WellLinked(links', OnRunList \cup {u})
    BY <1>1, <1>8, <2>1, AddBeforeLinks, Zenon DEF Clone, RunListInv, KTypeOK
  <2>3. OnRunList' = OnRunList \cup {u}
    BY <1>1, <1>8, Zenon DEF Clone, OnRunList, Continued, KTypeOK, States
  <2>4. KTypeOK' /\ NoStops'
    BY <1>1, <1>8, <2>2, Zenon DEF Clone, KTypeOK, NoStops, States, sigVars
  <2>5. parent' \in [Procs -> Procs]
    BY <1>1, <1>8, SchedulerAssumption DEF Clone, RestTypeOK
  <2>6. RestTypeOK' /\ RunningState'
    BY <1>1, <1>8, <2>5, Zenon DEF Clone, KTypeOK, RestTypeOK, RunningState, States, sigVars
  <2> QED BY <2>2, <2>3, <2>4, <2>6, Zenon DEF RunListInv
<1>9. CASE DeviceIrq \/ DeviceIrqReturn \/ SchedulerIsr
  BY <1>1, <1>2, <1>9, Zenon DEF DeviceIrq, DeviceIrqReturn, SchedulerIsr, RestTypeOK,
     RunningState, sigVars
<1>10. ASSUME NEW u \in Threads, EnqueueThread(u)
       PROVE  KTypeOK' /\ RestTypeOK' /\ RunListInv' /\ RunningState' /\ NoStops'
  <2> DEFINE e == enqueue_thread(KState, u, NoSig)
  <2>1. /\ KOK(e) /\ e.pend = KState.pend
        /\ \A w \in Threads \cup {Idle} :
              e.state[w] = KState.state[w] \/ (KState.state[w] = "BLOCKED" /\ e.state[w] = "READY")
    BY <1>1, EnqueueOK DEF NoSig
  <2>2. KState.state = state /\ KState.pend = pending_signals
    BY Zenon DEF KState
  <2>3. SetK(e)
    BY <1>10, Zenon DEF EnqueueThread
  <2> HIDE DEF e
  <2>4. KTypeOK' /\ RunListInv'
    BY <2>1, <2>3, SetKOK, Zenon
  <2>5. /\ \A w \in Threads \cup {Idle} :
              state'[w] = state[w] \/ (state[w] = "BLOCKED" /\ state'[w] = "READY")
        /\ pending_signals' = pending_signals
    BY <2>1, <2>2, <2>3, Zenon DEF SetK
  <2>6. NoStops'
    BY <1>1, <2>5, Zenon DEF NoStops
  <2>7. RestTypeOK' /\ RunningState'
    BY <1>1, <1>10, <2>5 DEF EnqueueThread, RestTypeOK, RunningState
  <2> QED BY <2>4, <2>6, <2>7, Zenon
<1>11. ASSUME NEW u \in Threads, NEW sig \in Sigs, SendSignal(u, sig)
       PROVE  KTypeOK' /\ RestTypeOK' /\ RunListInv' /\ RunningState' /\ NoStops'
  <2> DEFINE e == send_signal(KState, u, sig)
  <2>1. KState.state = state /\ KState.pend = pending_signals /\ KState.enq = enqueued_by_signal
    BY Zenon DEF KState
  <2>2. sig \in AllSigs /\ ~(state[u] = "STOPPED" /\ sig = "CONT" /\ enqueued_by_signal[u] = "CONT")
    BY <1>1, <1>11, SchedulerAssumption, Zenon DEF SendSignal, Continued, NoStops, JobControlSafe
  <2>3. /\ KOK(e) /\ e.pend = [pending_signals EXCEPT ![u] = @ \cup {sig}]
        /\ \A w \in Threads \cup {Idle} :
              e.state[w] = state[w] \/ (state[w] = "BLOCKED" /\ e.state[w] = "READY")
    BY <1>1, <2>1, <2>2, SendSignalOK
  <2>4. SetK(e)
    BY <1>11, Zenon DEF SendSignal
  <2> HIDE DEF e
  <2>5. KTypeOK' /\ RunListInv'
    BY <2>3, <2>4, SetKOK, Zenon
  <2>6. /\ \A w \in Threads \cup {Idle} :
              state'[w] = state[w] \/ (state[w] = "BLOCKED" /\ state'[w] = "READY")
        /\ pending_signals' = [pending_signals EXCEPT ![u] = @ \cup {sig}]
    BY <2>3, <2>4, Zenon DEF SetK
  <2>7. NoStops'
    BY <1>1, <2>6, Zenon DEF NoStops, KTypeOK
  <2>8. RestTypeOK' /\ RunningState'
    BY <1>1, <1>11, <2>6 DEF SendSignal, RestTypeOK, RunningState
  <2> QED BY <2>5, <2>7, <2>8, Zenon
<1>12. ASSUME NEW t \in Threads, Exit(t, TRUE) \/ Exit(t, FALSE)
       PROVE  KTypeOK' /\ RestTypeOK' /\ RunListInv' /\ RunningState' /\ NoStops'
  <2>1. Quiet /\ UNCHANGED <<running, inKernel, yield_await, self_irq, entering_signal, parent, ctx, regs>>
        /\ cpu = "syscall" /\ running = t /\ cpu' = "reap" /\ after' = "yield"
        /\ (victims' = ProcThreads(ProcOf[t]) \/ victims' = {t})
    BY <1>12, Zenon DEF Exit, sigVars
  <2>2. /\ \A v \in victims' : v \in Threads /\ state[v] # "STOPPED"
        /\ state[t] = "RUNNING" /\ t # Idle
    BY <1>1, <2>1, Zenon DEF ProcThreads, NoStops, JobControlSafe, RunningState
  <2> QED BY <1>1, <1>2, <2>1, <2>2, Zenon DEF RestTypeOK, RunningState
<1>13. ASSUME NEW v \in Threads, Reap(v)
       PROVE  KTypeOK' /\ RestTypeOK' /\ RunListInv' /\ RunningState' /\ NoStops'
  <2>1. state[v] # "STOPPED" /\ terminate_thread(v)
    BY <1>1, <1>13, Zenon DEF Reap, RunningState
  <2>2. /\ KTypeOK' /\ RunListInv' /\ NoStops' /\ parent' \in [Procs -> Procs]
        /\ \A u \in Threads \cup {Idle} :
               \/ state'[u] = state[u]
               \/ state[u] = "BLOCKED" /\ state'[u] = "READY"
               \/ u = v /\ state'[u] = "ZOMBIE"
    BY <2>1, TerminateOK, Zenon
  <2>3. RestTypeOK' /\ RunningState'
    BY <1>1, <1>13, <2>2, Zenon DEF Reap, RestTypeOK, RunningState
  <2> QED BY <2>2, <2>3, Zenon
<1>14. CASE ReapDone
  BY <1>1, <1>2, <1>14, Zenon DEF ReapDone, yield, RestTypeOK, RunningState, sigVars
<1>15. CASE IsrSwitch
  <2> DEFINE n == NextThread
  <2>1. n \in OnRunList \cup {Idle}
    BY NextThreadOnList, Zenon
  <2>2. /\ cpu = "isr" /\ cpu' = "picked" /\ running' = n
        /\ UNCHANGED <<links, self_irq, inKernel, enqueued_by_signal, pending_signals,
                       entering_signal, parent, victims, after, regs>>
        /\ yield_await' = [yield_await EXCEPT ![running] = FALSE]
        /\ ctx' = [ctx EXCEPT ![running] = regs]
    BY <1>15, Zenon DEF IsrSwitch, SaveRegisters, sigVars
  <2> DEFINE saved == [state EXCEPT ![running] = IF @ = "RUNNING" THEN "READY" ELSE @]
  <2>3. /\ saved \in [Threads \cup {Idle} -> States]
        /\ \A u \in Threads \cup {Idle} :
              saved[u] = state[u] \/ (state[u] = "RUNNING" /\ saved[u] = "READY")
    BY <1>1, Zenon DEF KTypeOK, RestTypeOK, States
  <2>4. state' = [saved EXCEPT ![n] = IF @ = "STOPPED" /\ n # Idle
                                         /\ enqueued_by_signal[n] = "CONT"
                                      THEN "READY" ELSE @]
    BY <1>15, Zenon DEF IsrSwitch, SaveRegisters
  <2> HIDE DEF n, saved
  <2>5. /\ state' \in [Threads \cup {Idle} -> States]
        /\ \A u \in Threads \cup {Idle} :
              \/ state'[u] = state[u]
              \/ state[u] = "RUNNING" /\ state'[u] = "READY"
              \/ u = n /\ u # Idle /\ Continued(u) /\ state'[u] = "READY"
        /\ Continued(n) /\ n # Idle => state'[n] = "READY"
    BY <1>1, <2>1, <2>3, <2>4, Zenon DEF OnRunList, Continued, States
  <2>6. OnRunList' = OnRunList
    BY <1>1, <2>2, <2>5, Zenon DEF OnRunList, Continued
  <2>7. KTypeOK' /\ RunListInv' /\ NoStops'
    BY <1>1, <2>2, <2>5, <2>6, Zenon DEF KTypeOK, RunListInv, NoStops, WellLinked
  <2>8. state'[n] \in {"READY", "RUNNING"} /\ state'[Idle] \in {"READY", "RUNNING"}
    BY <1>1, <2>1, <2>5, Zenon DEF OnRunList, RunningState
  <2>9. RestTypeOK' /\ RunningState'
    BY <1>1, <2>1, <2>2, <2>8, Zenon DEF RestTypeOK, RunningState, OnRunList
  <2> QED BY <2>7, <2>9, Zenon
<1>16. CASE IsrSignal
  <2>1. CASE running # Idle /\ dispatch_pending_signal(running, KState, "check")
    <3>1. state[running] \in {"READY", "RUNNING"}
      BY <1>1, <1>16, Zenon DEF IsrSignal, RunningState
    <3>2. /\ KTypeOK' /\ RunListInv' /\ NoStops'
          /\ entering_signal' \in [Threads -> BOOLEAN]
          /\ state'[Idle] = state[Idle]
          /\ \/ /\ cpu' = "check" /\ UNCHANGED <<victims, after>>
                /\ state'[running] \in {"READY", "RUNNING", "STOPPED"}
             \/ /\ cpu' = "reap" /\ after' = "check" /\ victims' \subseteq Threads
                /\ state'[running] \in {"READY", "RUNNING"}
                /\ \A v \in victims' : state'[v] # "STOPPED"
      BY <2>1, <3>1, DispatchOK, Zenon
    <3>3. UNCHANGED <<running, self_irq, inKernel, yield_await, parent, ctx, regs>>
      BY <1>16, Zenon DEF IsrSignal
    <3> QED BY <1>1, <2>1, <3>2, <3>3, Zenon DEF RestTypeOK, RunningState
  <2>2. CASE cpu = "picked" /\ cpu' = "check" /\ Quiet
             /\ UNCHANGED <<entering_signal, victims, after, running, self_irq, inKernel,
                            yield_await, parent, ctx, regs>>
    BY <1>1, <1>2, <2>2, Zenon DEF RestTypeOK, RunningState
  <2> QED BY <1>16, <2>1, <2>2, Zenon DEF IsrSignal, sigVars
<1>17. CASE IsrLeave
  <2>1. /\ UNCHANGED <<links, running, self_irq, inKernel, yield_await,
                 enqueued_by_signal, pending_signals, entering_signal, parent, victims, after, ctx>>
        /\ cpu = "check" /\ cpu' \in {"isr", "thread"}
        /\ cpu' = "isr" => UNCHANGED <<state, regs>>
        /\ cpu' = "thread" => /\ state[running] \notin {"ZOMBIE", "STOPPED"}
                              /\ state' = [state EXCEPT ![running] = "RUNNING"]
                              /\ regs' = ctx[running]
    BY <1>17, Zenon DEF IsrLeave, sigVars
  <2>2. CASE cpu' = "isr"
    BY <1>1, <1>2, <2>1, <2>2, Zenon DEF RestTypeOK, RunningState
  <2>3. CASE cpu' = "thread"
    <3>1. state[running] \in {"READY", "RUNNING"}
      BY <1>1, <2>1, <2>3, Zenon DEF KTypeOK, RestTypeOK, RunningState, States
    <3>2. OnRunList' = OnRunList
      BY <1>1, <2>1, <2>3, <3>1, Zenon DEF OnRunList, Continued, KTypeOK, RestTypeOK
    <3>3. KTypeOK' /\ NoStops'
      BY <1>1, <2>1, <2>3, Zenon DEF KTypeOK, RestTypeOK, NoStops, States
    <3>4. RunListInv'
      BY <1>1, <2>1, <3>2, Zenon DEF RunListInv, WellLinked
    <3>5. RestTypeOK' /\ RunningState'
      BY <1>1, <2>1, <2>3 DEF KTypeOK, RestTypeOK, RunningState
    <3> QED BY <3>3, <3>4, <3>5, Zenon
  <2> QED BY <2>1, <2>2, <2>3, Zenon
<1>18. ASSUME NEW t \in Threads PROVE ~Exception(t)
  BY Zenon DEF Exception
<1> QED BY <1>3, <1>4, <1>5, <1>6, <1>7, <1>8, <1>9, <1>10, <1>11, <1>12, <1>13,
           <1>14, <1>15, <1>16, <1>17, <1>18, Zenon DEF Next, SyscallEnds, KernelStep

-----------------------------------------------------------------------------
(* The theorems *)

\* Whatever the threads, processes and signals, SchedulerInv holds in every
\* reachable state: the run list holds exactly the runnable threads and
\* every other thread is unlinked (sched.cpp 626-782).
THEOREM SchedulerInvariant ==
  ASSUME JobControlSafe, ~Exceptions
  PROVE  Spec => []SchedulerInv
<1>1. Init => SchedulerInv
  BY InitInv, Zenon
<1>2. SchedulerInv /\ [Next]_vars => SchedulerInv'
  BY StepInv, Zenon
<1> QED BY <1>1, <1>2, PTL DEF Spec

\* The run list is a circular list of exactly the threads that can run: no wait,
\* wake-up, stop, continue or termination loses a thread, links one twice or
\* leaves a dead one on it (sched.cpp 626-670).
THEOREM RunListIsExact ==
  ASSUME JobControlSafe, ~Exceptions
  PROVE  Spec => []RunListInv
<1>1. Spec => []SchedulerInv
  BY SchedulerInvariant, Zenon
<1>2. SchedulerInv => RunListInv
  BY Zenon DEF SchedulerInv
<1> QED BY <1>1, <1>2, PTL

\* The ASSERTs of dequeue_thread and scheduler_isr never fail: who waits is
\* runnable, and who is switched to is neither blocked nor dead.
THEOREM SchedulerAsserts ==
  ASSUME JobControlSafe, ~Exceptions
  PROVE  Spec => [](SwitchesToRunnable /\ WaiterIsRunnable)
<1>1. SchedulerInv => SwitchesToRunnable /\ WaiterIsRunnable
  <2> SUFFICES ASSUME SchedulerInv PROVE SwitchesToRunnable /\ WaiterIsRunnable
    BY Zenon
  <2>1. NextThread \in OnRunList \cup {Idle}
    BY NextThreadOnList, Zenon
  <2>2. state[Idle] \in {"READY", "RUNNING"}
    BY Zenon DEF SchedulerInv, RunningState
  <2>3. SwitchesToRunnable
    BY <2>1, <2>2, Zenon DEF SwitchesToRunnable, OnRunList, Continued
  <2>4. WaiterIsRunnable
    BY Zenon DEF WaiterIsRunnable, SchedulerInv, RunningState
  <2> QED BY <2>3, <2>4, Zenon
<1>2. Spec => []SchedulerInv
  BY SchedulerInvariant
<1> QED BY <1>1, <1>2, PTL
-----------------------------------------------------------------------------
(* A thread goes on where it stopped. *)

\* The interrupt frame holds the registers of the running thread until it is chosen
\* anew, and after a retry those of a zombie are overwritten: no living thread's.
RegistersKept ==
  /\ cpu \in {"thread", "syscall", "irq"} => regs = running
  /\ cpu = "reap" /\ after = "yield" => regs = running
  /\ cpu = "isr" => regs = running \/ state[running] = "ZOMBIE"
  /\ \A t \in Threads \cup {Idle} : state[t] # "ZOMBIE" => ctx[t] = t

\* Who sleeps or is dead spins in yield() with its interrupt pending.
SpinsInYield ==
  /\ \A t \in Threads : state[t] = "BLOCKED" => inKernel[t]
  /\ cpu \in {"thread", "irq"} /\ running \in Threads /\ state[running] \in {"BLOCKED", "ZOMBIE"}
       => yield_await[running] /\ self_irq

GoesOnInv == RegistersKept /\ SpinsInYield

\* A step of a thread's or a handler's that neither puts to sleep nor terminates.
Spares ==
  \A t \in Threads \cup {Idle} : /\ state'[t] = "ZOMBIE" <=> state[t] = "ZOMBIE"
                                 /\ state'[t] = "BLOCKED" => state[t] = "BLOCKED"

\* ... and leaves the registers and the place where the core is alone.
LEMMA GoesOnSpared ==
  ASSUME RestTypeOK, GoesOnInv, Spares,
         UNCHANGED <<running, cpu, self_irq, inKernel, yield_await, after, ctx, regs>>
  PROVE  GoesOnInv'
<1>1. RegistersKept'
  BY Zenon DEF GoesOnInv, RegistersKept, Spares, RestTypeOK
<1>2. SpinsInYield'
  BY Zenon DEF GoesOnInv, SpinsInYield, Spares, RestTypeOK
<1> QED BY <1>1, <1>2, Zenon DEF GoesOnInv

\* Waking and signalling threads spares them all.
LEMMA EnqueueSpares ==
  ASSUME KTypeOK, NEW t \in Threads, NEW sig,
         SetK(enqueue_thread(KState, t, sig)) \/ SetK(send_signal(KState, t, sig))
  PROVE  Spares
<1>1. \/ state' = state
      \/ state' = [state EXCEPT ![t] = IF @ = "BLOCKED" THEN "READY" ELSE @]
  BY Zenon DEF SetK, enqueue_thread, send_signal, KState
<1> QED BY <1>1, Zenon DEF Spares, KTypeOK

\* Without stop signals the dispatcher leaves the threads' states alone.
LEMMA DispatchSpares ==
  ASSUME NoStops, "STOP" \notin Sigs, NEW t \in Threads,
         dispatch_pending_signal(t, KState, "check")
  PROVE  state' = state /\ (cpu' = "check" \/ (cpu' = "reap" /\ after' = "check"))
<1> DEFINE k1 == [KState EXCEPT !.enq[t] = NoSig]
           k2(sig) == [k1 EXCEPT !.pend[t] = @ \ {sig}]
<1>1. KState.pend[t] = pending_signals[t] /\ "STOP" \notin pending_signals[t]
  BY Zenon DEF KState, NoStops
<1>2. k1.state = state
  BY Zenon DEF KState
<1>3. ASSUME NEW sig PROVE k2(sig).state = k1.state
  <2> HIDE DEF k1
  <2> QED OBVIOUS
<1> HIDE DEF k1, k2
<1>4. \/ SetK(k1) /\ cpu' = "check"
      \/ \E sig \in pending_signals[t] :
           \/ SetK(k2(sig)) /\ cpu' = "check"
           \/ SetK(k2(sig)) /\ cpu' = "reap" /\ after' = "check"
           \/ sig = "STOP"
  BY <1>1, Zenon DEF dispatch_pending_signal, k1, k2
<1>5. \/ SetK(k1) /\ cpu' = "check"
      \/ \E sig : SetK(k2(sig)) /\ (cpu' = "check" \/ (cpu' = "reap" /\ after' = "check"))
  BY <1>1, <1>4, Zenon
<1>6. \A k : SetK(k) => state' = k.state
  BY Zenon DEF SetK
<1>7. state' = state
  BY <1>2, <1>3, <1>5, <1>6, Zenon
<1> QED BY <1>5, <1>7, Zenon

\* Every step preserves GoesOnInv, if no thread is ever stopped.
LEMMA GoesOnStep ==
  ASSUME SchedulerInv, GoesOnInv, "STOP" \notin Sigs, ~Exceptions, [Next]_vars
  PROVE  GoesOnInv'
<1>1. /\ KTypeOK /\ RestTypeOK /\ RunningState /\ NoStops /\ Idle \notin Threads
      /\ \A t \in Threads : state[t] # "STOPPED"
  BY SchedulerAssumption, TypeSplit, Zenon DEF SchedulerInv, NoStops
<1>2. CASE UNCHANGED vars
  BY <1>1, <1>2, GoesOnSpared, Zenon DEF vars, Spares
<1>3. ASSUME NEW t \in Threads, SyscallEnter(t) \/ YieldReturn(t)
      PROVE  GoesOnInv'
  <2>1. /\ cpu = "thread" /\ cpu' = "syscall" /\ inKernel' \in [Threads -> BOOLEAN]
        /\ \A u \in Threads : inKernel[u] => inKernel'[u]
        /\ UNCHANGED <<state, running, self_irq, yield_await, after, ctx, regs>>
    BY <1>1, <1>3, Zenon DEF SyscallEnter, InUser, YieldReturn, RestTypeOK
  <2> QED BY <1>1, <2>1, Zenon DEF GoesOnInv, RegistersKept, SpinsInYield
<1>4. ASSUME NEW t \in Threads, SyscallReturn(t)
      PROVE  GoesOnInv'
  <2>1. /\ cpu = "syscall" /\ cpu' = "thread" /\ running = t /\ state[t] = "RUNNING"
        /\ \A u \in Threads \ {t} : inKernel[u] => inKernel'[u]
        /\ UNCHANGED <<state, running, yield_await, after, ctx, regs>>
    BY <1>1, <1>4, Zenon DEF SyscallReturn, RestTypeOK, RunningState
  <2> QED BY <1>1, <2>1, Zenon DEF GoesOnInv, RegistersKept, SpinsInYield
<1>5. ASSUME NEW t \in Threads, EventWait(t)
      PROVE  GoesOnInv'
  <2>1. /\ cpu = "syscall" /\ cpu' = "thread" /\ running = t /\ inKernel[t]
        /\ state' \in [Threads \cup {Idle} -> States \cup {"BLOCKED"}]
        /\ state'[t] = "BLOCKED" /\ \A u \in (Threads \cup {Idle}) \ {t} : state'[u] = state[u]
        /\ yield_await'[t] /\ self_irq' /\ state[t] # "ZOMBIE"
        /\ UNCHANGED <<running, inKernel, after, ctx, regs>>
    BY <1>1, <1>5, Zenon DEF EventWait, yield, KTypeOK, RestTypeOK, RunningState
  <2> QED BY <1>1, <2>1, Zenon DEF GoesOnInv, RegistersKept, SpinsInYield
<1>6. ASSUME NEW t \in Threads, NEW u \in Threads, Clone(t, u)
      PROVE  GoesOnInv'
  <2>1. /\ state[u] = "NONE" /\ state'[u] = "READY"
        /\ \A x \in (Threads \cup {Idle}) \ {u} : state'[x] = state[x]
        /\ UNCHANGED <<running, cpu, self_irq, inKernel, yield_await, after, ctx, regs>>
    BY <1>1, <1>6, Zenon DEF Clone, KTypeOK
  <2>2. Spares
    BY <2>1, Zenon DEF Spares
  <2> QED BY <1>1, <2>1, <2>2, GoesOnSpared, Zenon
<1>7. CASE DeviceIrq \/ DeviceIrqReturn
  BY <1>1, <1>7, Zenon DEF DeviceIrq, DeviceIrqReturn, GoesOnInv, RegistersKept, SpinsInYield
<1>8. CASE SchedulerIsr
  BY <1>1, <1>8, Zenon DEF SchedulerIsr, GoesOnInv, RegistersKept, SpinsInYield
<1>9. ASSUME NEW u \in Threads, EnqueueThread(u)
      PROVE  GoesOnInv'
  <2>1. UNCHANGED <<running, cpu, self_irq, inKernel, yield_await, after, ctx, regs>>
    BY <1>9, Zenon DEF EnqueueThread
  <2>2. Spares
    BY <1>1, <1>9, EnqueueSpares, Zenon DEF EnqueueThread
  <2> QED BY <1>1, <2>1, <2>2, GoesOnSpared, Zenon
<1>10. ASSUME NEW u \in Threads, NEW sig \in Sigs, SendSignal(u, sig)
       PROVE  GoesOnInv'
  <2>1. UNCHANGED <<running, cpu, self_irq, inKernel, yield_await, after, ctx, regs>>
    BY <1>10, Zenon DEF SendSignal
  <2>2. Spares
    BY <1>1, <1>10, EnqueueSpares, Zenon DEF SendSignal
  <2> QED BY <1>1, <2>1, <2>2, GoesOnSpared, Zenon
<1>11. ASSUME NEW t \in Threads, Exit(t, TRUE) \/ Exit(t, FALSE)
       PROVE  GoesOnInv'
  <2>1. /\ cpu = "syscall" /\ cpu' = "reap"
        /\ UNCHANGED <<state, running, self_irq, inKernel, yield_await, ctx, regs>>
    BY <1>11, Zenon DEF Exit
  <2> QED BY <1>1, <2>1, Zenon DEF GoesOnInv, RegistersKept, SpinsInYield
<1>12. ASSUME NEW v \in Threads, Reap(v)
       PROVE  GoesOnInv'
  <2>1. /\ cpu = "reap" /\ state[v] # "STOPPED" /\ terminate_thread(v)
        /\ UNCHANGED <<running, cpu, self_irq, inKernel, yield_await, after, ctx, regs>>
    BY <1>1, <1>12, Zenon DEF Reap
  <2>2. \A u \in Threads \cup {Idle} : \/ state'[u] = state[u]
                                       \/ state[u] = "BLOCKED" /\ state'[u] = "READY"
                                       \/ u = v /\ state'[u] = "ZOMBIE"
    BY <2>1, TerminateOK, Zenon
  <2> QED BY <1>1, <2>1, <2>2, Zenon DEF GoesOnInv, RegistersKept, SpinsInYield
<1>13. CASE ReapDone
  <2>1. /\ cpu = "reap" /\ running \in Threads /\ after \in {"yield", "check"}
        /\ \/ after = "yield" /\ yield_await'[running] /\ self_irq' /\ cpu' = "thread"
           \/ after = "check" /\ cpu' = "check"
        /\ UNCHANGED <<state, running, inKernel, ctx, regs>>
    BY <1>1, <1>13, Zenon DEF ReapDone, yield, RestTypeOK, RunningState
  <2> QED BY <1>1, <2>1, Zenon DEF GoesOnInv, RegistersKept, SpinsInYield
<1>14. CASE IsrSwitch
  <2>1. /\ cpu = "isr" /\ cpu' = "picked" /\ ctx' = [ctx EXCEPT ![running] = regs]
        /\ UNCHANGED inKernel
    BY <1>14, Zenon DEF IsrSwitch, SaveRegisters
  <2>2. Spares
    <3>1. NextThread \in OnRunList \cup {Idle}
      BY NextThreadOnList, Zenon
    <3>2. ASSUME NEW u \in Threads \cup {Idle}
          PROVE  state'[u] = state[u] \/ (state[u] \in {"RUNNING", "STOPPED"} /\ state'[u] = "READY")
      BY <1>1, <1>14, <3>1, Zenon DEF IsrSwitch, KTypeOK, RestTypeOK, OnRunList
    <3> QED BY <3>2, Zenon DEF Spares
  <2>3. ASSUME NEW t \in Threads \cup {Idle}, state'[t] # "ZOMBIE" PROVE ctx'[t] = t
    <3>1. state[t] # "ZOMBIE"
      BY <2>2, <2>3, Zenon DEF Spares
    <3> QED BY <1>1, <2>1, <3>1, Zenon DEF GoesOnInv, RegistersKept, RestTypeOK
  <2> QED BY <2>1, <2>2, <2>3, Zenon DEF GoesOnInv, RegistersKept, SpinsInYield, Spares
<1>15. CASE IsrSignal
  <2>1. cpu = "picked" /\ UNCHANGED <<running, self_irq, inKernel, yield_await, ctx, regs>>
    BY <1>15, Zenon DEF IsrSignal
  <2>2. state' = state /\ (cpu' = "check" \/ (cpu' = "reap" /\ after' = "check"))
    <3>1. CASE running # Idle /\ dispatch_pending_signal(running, KState, "check")
      <4>1. running \in Threads
        BY <1>1, <3>1, Zenon DEF RestTypeOK
      <4> QED BY <1>1, <3>1, <4>1, DispatchSpares, Zenon
    <3>2. CASE cpu' = "check" /\ state' = state
      BY <3>2, Zenon
    <3> QED BY <1>15, <3>1, <3>2, Zenon DEF IsrSignal
  <2> QED BY <2>1, <2>2, Zenon DEF GoesOnInv, RegistersKept, SpinsInYield
<1>16. CASE IsrLeave
  <2>1. /\ cpu = "check" /\ UNCHANGED <<running, self_irq, inKernel, yield_await, after, ctx>>
        /\ running \in Threads \cup {Idle} /\ state[Idle] \in {"READY", "RUNNING"}
        /\ \/ cpu' = "isr" /\ state[running] \in {"ZOMBIE", "STOPPED"} /\ UNCHANGED <<state, regs>>
           \/ /\ cpu' = "thread" /\ state[running] # "ZOMBIE" /\ regs' = ctx[running]
              /\ state'[running] = "RUNNING"
              /\ \A u \in (Threads \cup {Idle}) \ {running} : state'[u] = state[u]
    BY <1>1, <1>16, Zenon DEF IsrLeave, KTypeOK, RestTypeOK, RunningState
  <2> QED BY <1>1, <2>1, Zenon DEF GoesOnInv, RegistersKept, SpinsInYield
<1>17. ASSUME NEW t \in Threads PROVE ~Exception(t)
  BY Zenon DEF Exception
<1> QED BY <1>2, <1>3, <1>4, <1>5, <1>6, <1>7, <1>8, <1>9, <1>10, <1>11, <1>12, <1>13,
           <1>14, <1>15, <1>16, <1>17, Zenon DEF Next, SyscallEnds, KernelStep

\* Without stop signals and exceptions a thread always goes on with its own registers
\* and never leaves yield() before it was switched to again (sched.cpp 690-701, 714).
THEOREM ThreadsGoOnWhereTheyStopped ==
  ASSUME "STOP" \notin Sigs, ~Exceptions
  PROVE  Spec => []GoesOnWhereItStopped
<1>1. Init => GoesOnInv
  BY SchedulerAssumption, Zenon DEF Init, GoesOnInv, RegistersKept, SpinsInYield
<1>2. Spec => []SchedulerInv
  BY SchedulerInvariant, Zenon DEF JobControlSafe
<1>3. SchedulerInv /\ GoesOnInv /\ [Next]_vars => GoesOnInv'
  BY GoesOnStep, Zenon
<1>4. GoesOnInv => GoesOnWhereItStopped
  BY Zenon DEF GoesOnInv, RegistersKept, SpinsInYield, GoesOnWhereItStopped, OwnRegisters,
         YieldWaitsForSwitch
<1> QED BY <1>1, <1>2, <1>3, <1>4, PTL DEF Spec
=============================================================================
