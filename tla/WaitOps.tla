------------------------------ MODULE WaitOps ------------------------------
(***************************************************************************)
(* sched::Event for components that always wake every listener (trigger    *)
(* with the default max_to_wake): the order of the listeners then does not *)
(* matter and a set of [thread, which] is enough.  Module Event, which     *)
(* keeps the order, shows that its steps are these (UnorderedView).        *)
(* The fields of the state w are those of EventOps.                        *)
(***************************************************************************)
EXTENDS Integers, Sequences

CONSTANT Threads   \* the threads that call the component

WaitState(T, Events) ==
  [pending |-> [e \in Events |-> 0], listeners |-> [e \in Events |-> {}],
   state |-> [t \in T |-> "active"], which |-> [t \in T |-> 0],
   enq |-> [t \in T |-> FALSE], sig |-> [t \in T |-> FALSE]]

WaitTypes(T, Events) ==
  [pending : [Events -> Nat],
   listeners : [Events -> SUBSET [thread : T, which : Nat]],
   state : [T -> {"active", "BLOCKED", "READY", "ZOMBIE"}],
   which : [T -> Nat], enq : [T -> BOOLEAN], sig : [T -> BOOLEAN]]

Listening(w, e) == {l.thread : l \in w.listeners[e]}

\* Event::trigger(drop): every sleeping listener becomes READY.  A thread that
\* listens twice is told the later of its two indices.
Hits(w, e, t) == {l.which : l \in {x \in w.listeners[e] : x.thread = t}}

trigger(w, e, drop) ==
  IF w.listeners[e] = {}
  THEN [w EXCEPT !.pending[e] = IF drop THEN @ ELSE @ + 1]
  ELSE LET L == Listening(w, e)
           woken == {t \in L : w.state[t] = "BLOCKED"}
       IN  [w EXCEPT
              !.which = [t \in DOMAIN @ |-> IF t \notin L THEN @[t]
                           ELSE CHOOSE i \in Hits(w, e, t) : \A j \in Hits(w, e, t) : j <= i],
              !.state = [t \in DOMAIN @ |-> IF t \in woken THEN "READY" ELSE @[t]],
              !.enq = [t \in DOMAIN @ |-> IF t \in woken THEN FALSE ELSE @[t]]]

\* Event::wait goes to sleep: no signal and no event of evs is pending.
CanSleep(w, t, evs) == ~w.sig[t] /\ \A i \in DOMAIN evs : w.pending[evs[i]] = 0

sleep(w, t, evs) ==
  [w EXCEPT !.listeners = [e \in DOMAIN @ |-> @[e] \cup
                 {[thread |-> t, which |-> i] : i \in {j \in DOMAIN evs : evs[j] = e}}],
            !.state[t] = "BLOCKED"]

\* A loop around wait on the single event e whose condition does not change
\* first uses up the pending triggers and then sleeps.
drain(w, e) == [w EXCEPT !.pending[e] = 0]

clear_listeners(w, t) ==
  [w EXCEPT !.listeners = [e \in DOMAIN @ |-> {l \in @[e] : l.thread # t}]]

\* Event::wait returns after yield(); Interrupted says that it returns -EINTR.
resume(w, t) == [clear_listeners(w, t) EXCEPT !.state[t] = "active"]

Interrupted(w, t) == w.enq[t]

\* which_event and enqueued_by_signal are not read again before the next wake
\* writes them.
settled(w, t) == [w EXCEPT !.which[t] = 0, !.enq[t] = FALSE]

\* A bug: the sleeper is made READY without a note of why.
signal_NoReason(w, t, masked) ==
  [w EXCEPT !.sig[t] = @ \/ ~masked,
            !.state[t] = IF @ = "BLOCKED" THEN "READY" ELSE @]

\* Thread::send_signal: a sleeper is woken even by a signal that it masks.
signal(w, t, masked) ==
  [w EXCEPT !.sig[t] = @ \/ ~masked,
            !.enq[t] = IF w.state[t] = "BLOCKED" THEN TRUE ELSE @,
            !.state[t] = IF @ = "BLOCKED" THEN "READY" ELSE @]

\* dispatch_pending_signal when the last pending signal is delivered.
dispatch(w, t) == [w EXCEPT !.sig[t] = FALSE, !.enq[t] = FALSE]

\* terminate_thread: a sleeping thread keeps its listeners until ~Thread.
terminate(w, t) == [w EXCEPT !.state[t] = "ZOMBIE"]
=============================================================================
