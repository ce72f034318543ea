------------------------------ MODULE EventOps ------------------------------
(***************************************************************************)
(* sched::Event (sched/event.cpp) as operators on a kernel state k, shared *)
(* by every module whose system calls sleep:                               *)
(*   k.pending   [event  -> number of triggers nobody waited for]          *)
(*   k.listeners [event  -> sequence of [thread, which]]                   *)
(*   k.state     [thread -> "active" | "BLOCKED" | "READY" | "ZOMBIE"]     *)
(*   k.which     [thread -> which_event]                                   *)
(*   k.enq       [thread -> was it put on the run list by a signal]        *)
(*   k.sig       [thread -> has_pending_signals()]                         *)
(* "active" is any state outside Event::wait; a BLOCKED thread sleeps in   *)
(* it, a READY one was woken and has not gone on yet.  The scheduler       *)
(* (module Scheduler) lets any active or READY thread go on next.          *)
(***************************************************************************)
EXTENDS Integers, Sequences

EINTR == -4
EWOULDBLOCK == -11
INT_MAX == 2147483647

EventState(Threads, Events) ==
  [pending |-> [e \in Events |-> 0], listeners |-> [e \in Events |-> <<>>],
   state |-> [t \in Threads |-> "active"], which |-> [t \in Threads |-> 0],
   enq |-> [t \in Threads |-> FALSE], sig |-> [t \in Threads |-> FALSE]]

\* The indices of L that trigger visits before max_to_wake stops it.
Visited(L, max) == {i \in 1..Len(L) : i <= max}

\* enqueue_thread(thread, signal) for every thread of W.
enqueue(k, W, bySignal) ==
  LET woken == {t \in W : k.state[t] = "BLOCKED"} IN
  [k EXCEPT !.state = [t \in DOMAIN @ |-> IF t \in woken THEN "READY" ELSE @[t]],
            !.enq = [t \in DOMAIN @ |-> IF t \in woken THEN bySignal ELSE @[t]]]

trigger_KeepsWhich(k, e, drop, max) ==
  IF k.listeners[e] = <<>>
  THEN [k EXCEPT !.pending[e] = IF drop THEN @ ELSE @ + 1]
  ELSE enqueue(k, {k.listeners[e][i].thread : i \in Visited(k.listeners[e], max)}, FALSE)

\* Event::trigger.  Every visited listener counts, also one that is awake.
trigger(k, e, drop, max) ==
  LET L == k.listeners[e]
      V == Visited(L, max)
      hits(t) == {i \in V : L[i].thread = t}
      last(t) == CHOOSE i \in hits(t) : \A j \in hits(t) : j <= i
  IN  IF L = <<>>
      THEN [k EXCEPT !.pending[e] = IF drop THEN @ ELSE @ + 1]
      ELSE enqueue([k EXCEPT !.which = [t \in DOMAIN @ |->
                       IF hits(t) = {} THEN @[t] ELSE L[last(t)].which]],
                   {L[i].thread : i \in V}, FALSE)

num_woken_up(k, e, max) ==
  IF Len(k.listeners[e]) <= max THEN Len(k.listeners[e]) ELSE max

\* The outcome of Event::wait(events) before it sleeps: EINTR, the index of
\* the first event with a pending trigger, or 0 when it has to sleep.
FirstPending(k, evs) ==
  LET P == {i \in DOMAIN evs : k.pending[evs[i]] > 0} IN
  IF P = {} THEN 0 ELSE CHOOSE i \in P : \A j \in P : i <= j

wait_now(k, t, evs) == IF k.sig[t] THEN EINTR ELSE FirstPending(k, evs)

\* Event::wait returns at once with what wait_now said.
consume(k, t, evs) ==
  LET i == wait_now(k, t, evs) IN
  IF i > 0 THEN [k EXCEPT !.pending[evs[i]] = @ - 1] ELSE k

\* Event::wait goes to sleep: a listener per event, then dequeue_thread.
new_listeners(t, evs, e) ==
  LET I == SelectSeq([i \in DOMAIN evs |-> i], LAMBDA i : evs[i] = e)
  IN  [j \in DOMAIN I |-> [thread |-> t, which |-> I[j]]]

sleep(k, t, evs) ==
  [k EXCEPT !.listeners = [e \in DOMAIN @ |-> @[e] \o new_listeners(t, evs, e)],
            !.state[t] = "BLOCKED"]

unlisted(L, t) == SelectSeq(L, LAMBDA l : l.thread # t)

clear_listeners(k, t) ==
  [k EXCEPT !.listeners = [e \in DOMAIN @ |-> unlisted(@[e], t)]]

\* Event::wait goes on after yield(): its result and the state it leaves.
wait_result(k, t) == IF k.enq[t] THEN EINTR ELSE k.which[t]

resume(k, t) == [clear_listeners(k, t) EXCEPT !.state[t] = "active"]

\* Thread::send_signal: a sleeper is woken even by a signal that it masks.
signal(k, t, masked) == enqueue([k EXCEPT !.sig[t] = @ \/ ~masked], {t}, TRUE)

\* dispatch_pending_signal when the last pending signal is delivered.
dispatch(k, t) == [k EXCEPT !.sig[t] = FALSE, !.enq[t] = FALSE]

\* terminate_thread: a sleeping thread keeps its listeners until ~Thread.
terminate(k, t) == [k EXCEPT !.state[t] = "ZOMBIE"]
=============================================================================
