------------------------------- MODULE Event -------------------------------
(***************************************************************************)
(* Threads that wait for and trigger events: sched::Event's contract.      *)
(* hits is a history variable: the indices (of the events a thread waits   *)
(* for) that were triggered since it went to sleep.                        *)
(***************************************************************************)
EXTENDS EventOps, FiniteSets

CONSTANTS
  Threads, Events,
  WaitSets,     \* the non-empty event sequences system calls wait for
  MaxPending    \* bound on Event::pending

VARIABLES k, waits, hits

vars == <<k, waits, hits>>

Init ==
  /\ k = EventState(Threads, Events)
  /\ waits = [t \in Threads |-> <<>>]
  /\ hits = [t \in Threads |-> {}]

\* Event::wait returns without sleeping.
WaitReturns(t, evs, nonblocking) ==
  /\ k.state[t] = "active"
  /\ wait_now(k, t, evs) # 0 \/ nonblocking
  /\ k' = consume(k, t, evs)
  /\ UNCHANGED <<waits, hits>>

\* Event::wait goes to sleep.
WaitSleeps(t, evs) ==
  /\ k.state[t] = "active"
  /\ wait_now(k, t, evs) = 0
  /\ k' = sleep(k, t, evs)
  /\ waits' = [waits EXCEPT ![t] = evs]
  /\ hits' = [hits EXCEPT ![t] = {}]

\* Event::wait goes on after yield().
WaitResumes(t) ==
  /\ k.state[t] = "READY"
  /\ k' = resume(k, t)
  /\ waits' = [waits EXCEPT ![t] = <<>>]
  /\ hits' = [hits EXCEPT ![t] = {}]

\* Event::trigger, from a system call or an interrupt handler.
Trigger(e, drop, max) ==
  /\ k.pending[e] < MaxPending
  /\ k' = trigger(k, e, drop, max)
  /\ hits' = [t \in Threads |-> hits[t] \cup
                {k.listeners[e][i].which : i \in {j \in Visited(k.listeners[e], max) :
                                                  k.listeners[e][j].thread = t}}]
  /\ UNCHANGED waits

SendSignal(t, masked) ==
  /\ k.state[t] # "ZOMBIE"
  /\ k' = signal(k, t, masked)
  /\ UNCHANGED <<waits, hits>>

DispatchSignal(t) ==
  /\ k.state[t] = "active" /\ k.sig[t]
  /\ k' = dispatch(k, t)
  /\ UNCHANGED <<waits, hits>>

Terminate(t) ==
  /\ k.state[t] # "ZOMBIE"
  /\ k' = terminate(k, t)
  /\ UNCHANGED <<waits, hits>>

\* ~Thread, when the process is reaped.
DeleteThread(t) ==
  /\ k.state[t] = "ZOMBIE" /\ waits[t] # <<>>
  /\ k' = clear_listeners(k, t)
  /\ waits' = [waits EXCEPT ![t] = <<>>]
  /\ UNCHANGED hits

Next ==
  \/ \E t \in Threads :
       \/ \E evs \in WaitSets : WaitSleeps(t, evs)
       \/ \E evs \in WaitSets, nb \in BOOLEAN : WaitReturns(t, evs, nb)
       \/ \E masked \in BOOLEAN : SendSignal(t, masked)
       \/ WaitResumes(t) \/ DispatchSignal(t)
       \/ Terminate(t) \/ DeleteThread(t)
  \/ \E e \in Events, drop \in BOOLEAN, max \in {1, INT_MAX} : Trigger(e, drop, max)

Spec == Init /\ [][Next]_vars

-----------------------------------------------------------------------------
Listeners(t, e) == {i \in DOMAIN k.listeners[e] : k.listeners[e][i].thread = t}

\* A thread is listed once for every event it waits for and nowhere else, from
\* the moment it sleeps until its wait returns (or, if it dies asleep, until it
\* is deleted): no listener outlives its wait (event.cpp 51-68).
ListenersMatchWaits ==
  \A t \in Threads, e \in Events :
     {k.listeners[e][i].which : i \in Listeners(t, e)} = {i \in DOMAIN waits[t] : waits[t][i] = e}
     /\ Cardinality(Listeners(t, e)) = Cardinality({i \in DOMAIN waits[t] : waits[t][i] = e})

\* Nobody sleeps on an event that holds a pending trigger, so a trigger that
\* found no listener is never overlooked by a later wait (event.cpp 40-46, 81-85).
NoSleepOnPending ==
  \A e \in Events, t \in Threads :
     k.pending[e] > 0 /\ Listeners(t, e) # {} => k.state[t] # "BLOCKED"

\* A wait that returns an index returns the index of an event that was
\* triggered while it slept, never a stale which_event (event.cpp 70-72).
AnswerWasTriggered ==
  \A t \in Threads : k.state[t] = "READY" /\ ~k.enq[t] => k.which[t] \in hits[t]

-----------------------------------------------------------------------------
(* The view of components that wake every listener *)

W == INSTANCE WaitOps

Unordered(kk) ==
  [pending |-> kk.pending, state |-> kk.state, which |-> kk.which, enq |-> kk.enq,
   sig |-> kk.sig,
   listeners |-> [e \in Events |-> {kk.listeners[e][i] : i \in DOMAIN kk.listeners[e]}]]

\* Sleeping, resuming and triggering without a limit are WaitOps' operators on
\* the set of listeners: their order shows only when max_to_wake is used.
UnorderedView ==
  [][/\ \A e \in Events, drop \in BOOLEAN : Trigger(e, drop, INT_MAX) =>
            Unordered(k') = W!trigger(Unordered(k), e, drop)
     /\ \A t \in Threads :
          /\ WaitResumes(t) => Unordered(k') = W!resume(Unordered(k), t)
          /\ \A evs \in WaitSets : WaitSleeps(t, evs) =>
               /\ W!CanSleep(Unordered(k), t, evs)
               /\ Unordered(k') = W!sleep(Unordered(k), t, evs)]_vars
=============================================================================
