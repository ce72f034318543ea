--------------------------- MODULE WaitOpsProofs ---------------------------
(***************************************************************************)
(* What the operators of WaitOps do to the fields of an event state, for   *)
(* any set T of threads and any set E of events, as long as every thread   *)
(* waits for one event at a time: every listener then has the index 1.     *)
(***************************************************************************)
EXTENDS WaitOps, TLAPS

ThreadStates == {"active", "BLOCKED", "READY", "ZOMBIE"}

\* s is an event state.
IsWait(s, T, E) ==
  /\ s = [pending |-> s.pending, listeners |-> s.listeners, state |-> s.state,
          which |-> s.which, enq |-> s.enq, sig |-> s.sig]
  /\ s.pending \in [E -> Nat]
  /\ s.listeners \in [E -> SUBSET [thread : T, which : {1}]]
  /\ s.which \in [T -> Nat]
  /\ s.state \in [T -> ThreadStates]
  /\ s.enq \in [T -> BOOLEAN]
  /\ s.sig \in [T -> BOOLEAN]

\* What the steps of an event do to the states of the threads, to the reasons of
\* the woken ones and to the lists, from the state s to the state r.
Triggered(s, r, e, T, E) ==
  /\ IsWait(r, T, E)
  /\ \A x \in E : Listening(r, x) = Listening(s, x)
  /\ \A t \in T :
       /\ r.state[t] = IF t \in Listening(s, e) /\ s.state[t] = "BLOCKED" THEN "READY" ELSE s.state[t]
       /\ r.enq[t] <=> s.enq[t] /\ ~(t \in Listening(s, e) /\ s.state[t] = "BLOCKED")

Slept(s, r, t, e, T, E) ==
  /\ IsWait(r, T, E)
  /\ Listening(r, e) = Listening(s, e) \cup {t}
  /\ \A x \in E \ {e} : Listening(r, x) = Listening(s, x)
  /\ \A u \in T : /\ r.state[u] = IF u = t THEN "BLOCKED" ELSE s.state[u]
                  /\ r.enq[u] <=> s.enq[u]

Returned(s, r, t, T, E) ==
  /\ IsWait(r, T, E)
  /\ \A x \in E : Listening(r, x) = Listening(s, x) \ {t}
  /\ \A u \in T : /\ r.state[u] = IF u = t THEN "active" ELSE s.state[u]
                  /\ r.enq[u] <=> u # t /\ s.enq[u]

Signalled(s, r, t, T, E) ==
  /\ IsWait(r, T, E)
  /\ \A x \in E : Listening(r, x) = Listening(s, x)
  /\ \A u \in T :
       /\ r.state[u] = IF u = t /\ s.state[u] = "BLOCKED" THEN "READY" ELSE s.state[u]
       /\ r.enq[u] <=> s.enq[u] \/ (u = t /\ s.state[u] = "BLOCKED")

Dispatched(s, r, t, T, E) ==
  /\ IsWait(r, T, E)
  /\ \A x \in E : Listening(r, x) = Listening(s, x)
  /\ \A u \in T : r.state[u] = s.state[u] /\ (r.enq[u] <=> u # t /\ s.enq[u])

Terminated(s, r, t, T, E) ==
  /\ IsWait(r, T, E)
  /\ \A x \in E : Listening(r, x) = Listening(s, x)
  /\ \A u \in T : /\ r.state[u] = IF u = t THEN "ZOMBIE" ELSE s.state[u]
                  /\ r.enq[u] <=> s.enq[u]

-----------------------------------------------------------------------------
\* The event state of a new file: everybody is awake and nobody is listed.
Fresh(s, T, E) ==
  /\ IsWait(s, T, E)
  /\ \A t \in T : s.state[t] = "active"
  /\ \A e \in E : s.pending[e] = 0 /\ Listening(s, e) = {}

\* WaitState is such a state.
LEMMA NewWait ==
  ASSUME NEW T, NEW E, NEW s, s = WaitState(T, E)
  PROVE  Fresh(s, T, E)
BY Zenon DEF Fresh, WaitState, IsWait, ThreadStates, Listening

\* Event::trigger makes READY whoever sleeps and is listed, by nobody's signal.
LEMMA TriggerFacts ==
  ASSUME NEW T, NEW E, NEW s, IsWait(s, T, E), NEW e \in E, NEW drop \in BOOLEAN,
         NEW r, r = trigger(s, e, drop)
  PROVE  Triggered(s, r, e, T, E)
<1> DEFINE L == Listening(s, e)
           woken == {t \in L : s.state[t] = "BLOCKED"}
           pe == [s.pending EXCEPT ![e] = IF drop THEN @ ELSE @ + 1]
           pick(t) == CHOOSE i \in Hits(s, e, t) : \A j \in Hits(s, e, t) : j <= i
           wh == [t \in T |-> IF t \notin L THEN s.which[t] ELSE pick(t)]
           st == [t \in T |-> IF t \in woken THEN "READY" ELSE s.state[t]]
           en == [t \in T |-> IF t \in woken THEN FALSE ELSE s.enq[t]]
<1>1. CASE s.listeners[e] = {}
  <2>1. L = {}
    BY <1>1, Zenon DEF Listening
  <2>2. r = [s EXCEPT !.pending = pe]
    BY <1>1, Zenon DEF trigger, IsWait
  <2>3. pe \in [E -> Nat]
    BY DEF IsWait
  <2> HIDE DEF pe
  <2>4. /\ IsWait(r, T, E) /\ r.listeners = s.listeners /\ r.sig = s.sig
        /\ r.state = s.state /\ r.enq = s.enq
    BY <2>2, <2>3, Zenon DEF IsWait
  <2> QED BY <2>1, <2>4, Zenon DEF Listening, Triggered, IsWait
<1>2. CASE s.listeners[e] # {}
  <2>1. DOMAIN s.which = T /\ DOMAIN s.state = T /\ DOMAIN s.enq = T
    BY Zenon DEF IsWait
  <2>2. r = [s EXCEPT !.which = wh, !.state = st, !.enq = en]
    BY <1>2, <2>1, Zenon DEF trigger
  <2>3. st \in [T -> ThreadStates] /\ en \in [T -> BOOLEAN] /\ wh \in [T -> Nat]
    <3>1. ASSUME NEW t \in L PROVE pick(t) = 1
      <4>1. Hits(s, e, t) = {1}
        BY DEF Listening, Hits, IsWait
      <4>2. \E i \in Hits(s, e, t) : \A j \in Hits(s, e, t) : j <= i
        BY <4>1
      <4>3. pick(t) \in Hits(s, e, t)
        BY <4>2, Zenon
      <4> QED BY <4>1, <4>3, Zenon
    <3>2. wh \in [T -> Nat]
      <4> HIDE DEF pick, L
      <4> QED BY <3>1 DEF IsWait
    <3> QED BY <3>2, Zenon DEF IsWait, ThreadStates
  <2>4. \A t \in T : /\ st[t] = IF t \in L /\ s.state[t] = "BLOCKED" THEN "READY" ELSE s.state[t]
                     /\ en[t] <=> s.enq[t] /\ ~(t \in L /\ s.state[t] = "BLOCKED")
    BY Zenon
  <2> HIDE DEF wh, st, en
  <2>5. /\ IsWait(r, T, E) /\ r.listeners = s.listeners /\ r.sig = s.sig
        /\ r.state = st /\ r.enq = en
    BY <2>2, <2>3, Zenon DEF IsWait
  <2>6. \A x \in E : Listening(r, x) = Listening(s, x)
    BY <2>5, Zenon DEF Listening
  <2> QED BY <2>4, <2>5, <2>6, Zenon DEF Triggered
<1> QED BY <1>1, <1>2, Zenon

\* Using up the pending triggers of an event changes nothing else.
LEMMA DrainFacts ==
  ASSUME NEW T, NEW E, NEW s, IsWait(s, T, E), NEW e \in E,
         NEW r, r = drain(s, e)
  PROVE  /\ IsWait(r, T, E)
         /\ r.listeners = s.listeners /\ r.state = s.state /\ r.enq = s.enq /\ r.sig = s.sig
         /\ \A x \in E : Listening(r, x) = Listening(s, x)
<1>1. /\ IsWait(r, T, E)
      /\ r.listeners = s.listeners /\ r.state = s.state /\ r.enq = s.enq /\ r.sig = s.sig
  BY Zenon DEF drain, IsWait
<1> QED BY <1>1, Zenon DEF Listening

\* Event::wait on the one event e lists the thread there and nowhere else.
LEMMA SleepFacts ==
  ASSUME NEW T, NEW E, NEW s, IsWait(s, T, E), NEW e \in E, NEW t \in T,
         NEW r, r = sleep(s, t, <<e>>)
  PROVE  Slept(s, r, t, e, T, E)
<1> DEFINE new == [thread |-> t, which |-> 1]
           mine(x) == {[thread |-> t, which |-> i] : i \in {j \in DOMAIN <<e>> : <<e>>[j] = x}}
           ls == [x \in E |-> s.listeners[x] \cup mine(x)]
           st == [s.state EXCEPT ![t] = "BLOCKED"]
<1>1. mine(e) = {new} /\ \A x \in E : x # e => mine(x) = {}
  OBVIOUS
<1>2. new \in [thread : T, which : {1}] /\ new.thread = t
  BY Zenon
<1>3. r = [s EXCEPT !.listeners = ls, !.state = st]
  BY Zenon DEF sleep, IsWait
<1> HIDE DEF mine, new
<1>4. ls \in [E -> SUBSET [thread : T, which : {1}]]
  BY <1>1, <1>2, Zenon DEF IsWait
<1>5. \A x \in E : ls[x] = IF x = e THEN s.listeners[x] \cup {new} ELSE s.listeners[x]
  BY <1>1, Zenon
<1>6. st \in [T -> ThreadStates]
  BY Zenon DEF IsWait, ThreadStates
<1> HIDE DEF ls, st
<1>7. /\ IsWait(r, T, E) /\ r.listeners = ls /\ r.state = st
      /\ r.pending = s.pending /\ r.enq = s.enq /\ r.sig = s.sig
  BY <1>3, <1>4, <1>6, Zenon DEF IsWait
<1>8. ASSUME NEW x \in E
      PROVE  Listening(r, x) = IF x = e THEN Listening(s, x) \cup {t} ELSE Listening(s, x)
  <2>1. {l.thread : l \in s.listeners[x] \cup {new}} = {l.thread : l \in s.listeners[x]} \cup {t}
    BY <1>2, Zenon
  <2> QED BY <1>5, <1>7, <2>1, Zenon DEF Listening
<1>9. \A u \in T : st[u] = IF u = t THEN "BLOCKED" ELSE s.state[u]
  BY Zenon DEF st, IsWait
<1> QED BY <1>7, <1>8, <1>9, Zenon DEF Slept

\* The same after the pending triggers of e were used up.
LEMMA DrainedSleepFacts ==
  ASSUME NEW T, NEW E, NEW s, IsWait(s, T, E), NEW e \in E, NEW t \in T,
         NEW r, r = sleep(drain(s, e), t, <<e>>)
  PROVE  Slept(s, r, t, e, T, E)
<1>1. PICK d : d = drain(s, e)
  BY Zenon
<1>2. /\ IsWait(d, T, E) /\ d.state = s.state /\ d.enq = s.enq
      /\ \A x \in E : Listening(d, x) = Listening(s, x)
  BY <1>1, DrainFacts
<1>3. Slept(d, r, t, e, T, E)
  BY <1>1, <1>2, SleepFacts, Zenon
<1> QED BY <1>2, <1>3, Zenon DEF Slept

\* Event::wait returns: the thread is awake and listed nowhere.
LEMMA ReturnFacts ==
  ASSUME NEW T, NEW E, NEW s, IsWait(s, T, E), NEW t \in T,
         NEW r, r = settled(resume(s, t), t)
  PROVE  Returned(s, r, t, T, E)
<1> DEFINE ls == [x \in E |-> {l \in s.listeners[x] : l.thread # t}]
           st == [s.state EXCEPT ![t] = "active"]
           wh == [s.which EXCEPT ![t] = 0]
           en == [s.enq EXCEPT ![t] = FALSE]
<1>1. r = [s EXCEPT !.listeners = ls, !.state = st, !.which = wh, !.enq = en]
  BY Zenon DEF settled, resume, clear_listeners, IsWait
<1>2. ls \in [E -> SUBSET [thread : T, which : {1}]]
  BY Zenon DEF IsWait
<1>3. \A x \in E : ls[x] = {l \in s.listeners[x] : l.thread # t}
  BY Zenon
<1>4. st \in [T -> ThreadStates] /\ en \in [T -> BOOLEAN] /\ wh \in [T -> Nat]
  BY Zenon DEF IsWait, ThreadStates
<1> HIDE DEF ls, st, wh, en
<1>5. /\ IsWait(r, T, E) /\ r.listeners = ls /\ r.state = st /\ r.enq = en
      /\ r.pending = s.pending /\ r.sig = s.sig
  BY <1>1, <1>2, <1>4, Zenon DEF IsWait
<1>6. \A u \in T : /\ st[u] = IF u = t THEN "active" ELSE s.state[u]
                   /\ en[u] <=> u # t /\ s.enq[u]
  BY Zenon DEF st, en, IsWait
<1>7. \A x \in E : Listening(r, x) = Listening(s, x) \ {t}
  BY <1>3, <1>5, Zenon DEF Listening
<1> QED BY <1>5, <1>6, <1>7, Zenon DEF Returned

\* Thread::send_signal wakes a sleeper, and notes that it was a signal.
LEMMA SignalFacts ==
  ASSUME NEW T, NEW E, NEW s, IsWait(s, T, E), NEW t \in T, NEW masked \in BOOLEAN,
         NEW r, r = signal(s, t, masked)
  PROVE  Signalled(s, r, t, T, E)
<1> DEFINE st == [s.state EXCEPT ![t] = IF @ = "BLOCKED" THEN "READY" ELSE @]
           en == [s.enq EXCEPT ![t] = IF s.state[t] = "BLOCKED" THEN TRUE ELSE @]
           si == [s.sig EXCEPT ![t] = @ \/ ~masked]
<1>1. r = [s EXCEPT !.sig = si, !.enq = en, !.state = st]
  BY Zenon DEF signal, IsWait
<1>2. st \in [T -> ThreadStates] /\ en \in [T -> BOOLEAN]
  BY Zenon DEF IsWait, ThreadStates
<1>3. si \in [T -> BOOLEAN]
  BY Zenon DEF IsWait
<1> HIDE DEF st, en, si
<1>4. /\ IsWait(r, T, E) /\ r.listeners = s.listeners /\ r.pending = s.pending
      /\ r.state = st /\ r.enq = en
  BY <1>1, <1>2, <1>3, Zenon DEF IsWait
<1>5. \A u \in T : /\ st[u] = IF u = t /\ s.state[u] = "BLOCKED" THEN "READY" ELSE s.state[u]
                   /\ en[u] <=> s.enq[u] \/ (u = t /\ s.state[u] = "BLOCKED")
  BY Zenon DEF st, en, IsWait
<1>6. \A x \in E : Listening(r, x) = Listening(s, x)
  BY <1>4, Zenon DEF Listening
<1> QED BY <1>4, <1>5, <1>6, Zenon DEF Signalled

\* dispatch_pending_signal takes the signal away.
LEMMA DispatchFacts ==
  ASSUME NEW T, NEW E, NEW s, IsWait(s, T, E), NEW t \in T,
         NEW r, r = dispatch(s, t)
  PROVE  Dispatched(s, r, t, T, E)
<1>1. /\ IsWait(r, T, E) /\ r.listeners = s.listeners /\ r.state = s.state
      /\ \A u \in T : r.enq[u] <=> u # t /\ s.enq[u]
  BY Zenon DEF dispatch, IsWait
<1> QED BY <1>1, Zenon DEF Listening, Dispatched

\* ~Thread takes the thread off the lists and does nothing else.
LEMMA ClearFacts ==
  ASSUME NEW T, NEW E, NEW s, IsWait(s, T, E), NEW t \in T,
         NEW r, r = clear_listeners(s, t)
  PROVE  /\ IsWait(r, T, E) /\ r.state = s.state
         /\ \A x \in E : Listening(r, x) = Listening(s, x) \ {t}
<1> DEFINE ls == [x \in E |-> {l \in s.listeners[x] : l.thread # t}]
<1>1. r = [s EXCEPT !.listeners = ls]
  BY Zenon DEF clear_listeners, IsWait
<1>2. ls \in [E -> SUBSET [thread : T, which : {1}]]
  BY Zenon DEF IsWait
<1>3. \A x \in E : ls[x] = {l \in s.listeners[x] : l.thread # t}
  BY Zenon
<1> HIDE DEF ls
<1>4. IsWait(r, T, E) /\ r.listeners = ls /\ r.state = s.state
  BY <1>1, <1>2, Zenon DEF IsWait
<1> QED BY <1>3, <1>4, Zenon DEF Listening

\* terminate_thread leaves the lists alone.
LEMMA TerminateFacts ==
  ASSUME NEW T, NEW E, NEW s, IsWait(s, T, E), NEW t \in T,
         NEW r, r = terminate(s, t)
  PROVE  Terminated(s, r, t, T, E)
<1>1. /\ IsWait(r, T, E) /\ r.listeners = s.listeners /\ r.enq = s.enq
      /\ \A u \in T : r.state[u] = IF u = t THEN "ZOMBIE" ELSE s.state[u]
  BY Zenon DEF terminate, IsWait, ThreadStates
<1> QED BY <1>1, Zenon DEF Listening, Terminated

-----------------------------------------------------------------------------
\* What is left of a queue when its first element is taken.
LEMMA TailFacts ==
  ASSUME NEW S, NEW q \in Seq(S), q # <<>>
  PROVE  /\ Head(q) = q[1] /\ Head(q) \in S
         /\ Tail(q) \in Seq(S) /\ Len(q) \in Nat \ {0} /\ Len(Tail(q)) = Len(q) - 1
         /\ \A i \in 1..Len(Tail(q)) : i + 1 \in 1..Len(q) /\ Tail(q)[i] = q[i + 1]
OBVIOUS

\* A queue and an element behind it.
LEMMA AppendFacts ==
  ASSUME NEW S, NEW q \in Seq(S), NEW x \in S
  PROVE  /\ Append(q, x) \in Seq(S) /\ Len(Append(q, x)) = Len(q) + 1 /\ Len(q) \in Nat
         /\ Append(q, x)[Len(q) + 1] = x
         /\ \A i \in 1..Len(q) : Append(q, x)[i] = q[i]
OBVIOUS
=============================================================================
