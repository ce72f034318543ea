------------------------------- MODULE Epoll -------------------------------
(***************************************************************************)
(* poll, select and epoll: a call asks every file whether it is ready,     *)
(* else waits on the events of all of them and on its timer, and asks      *)
(* again.  The list of events that epoll_wait waits on is part of the      *)
(* epoll object, and so is shared by the threads that call it.             *)
(***************************************************************************)
EXTENDS WaitOps, SequencesExt

CONSTANTS
  Pollers,    \* the threads that call poll
  Waiters,    \* the threads that call epoll_wait
  Signalled,  \* the threads that signals are sent to, and that set signal masks
  Files,      \* open files, each with its number, its description and its event
  MaxSlots,   \* bound on the length of EPoll::events
  MaxPending, \* bound on the triggers an event can have pending
  MaxCtl,     \* bound on the number of epoll_ctl calls
  Null

VARIABLES
  w,          \* threads, events of files and of timers, see WaitOps
  ready,      \* the files that VNode::poll says are ready
  open,       \* the files that still have their number
  slots,      \* EPoll::events: [file, et, old, id] or Null
  timeout,    \* wait_events[0]: the thread whose timer it is, or Null
  first_free_event,
  timer,      \* [thread -> "off", "armed" or "fired"]
  call,       \* [thread -> the call it sleeps in, or Null]
  pend,       \* the threads that have a signal pending
  mask,       \* [thread -> whether it blocks that signal]
  saved,      \* [thread -> poll_saved_signal_mask, Null when there is none]
  id          \* number of epoll_ctl calls

epoll == <<slots, first_free_event, id>>
signals == <<pend, mask, saved>>
vars == <<w, ready, open, epoll, timeout, timer, call, signals>>

Events == Files \cup Threads   \* a thread stands for the event of its timer

Init ==
  /\ w = WaitState(Threads, Events)
  /\ ready = {}
  /\ open = Files
  /\ slots = <<>>
  /\ timeout = Null
  /\ first_free_event = 0
  /\ timer = [t \in Threads |-> "off"]
  /\ call = [t \in Threads |-> Null]
  /\ pend = {}
  /\ mask = [t \in Threads |-> FALSE]
  /\ saved = [t \in Threads |-> Null]
  /\ id = 0

Running(t) == w.state[t] = "active" /\ call[t] = Null

\* A file gets something to report, and triggers its event; a read takes it.
MakeReady(f) ==
  /\ w.pending[f] < MaxPending
  /\ ready' = ready \cup {f}
  /\ w' = trigger(w, f, FALSE)
  /\ UNCHANGED <<open, epoll, timeout, timer, call, signals>>

Drain(f) ==
  /\ f \in ready
  /\ ready' = ready \ {f}
  /\ UNCHANGED <<w, open, epoll, timeout, timer, call, signals>>

\* close: the epoll object keeps the description, and nobody is woken.
Close(f) ==
  /\ f \in open
  /\ open' = open \ {f}
  /\ UNCHANGED <<w, ready, epoll, timeout, timer, call, signals>>

-----------------------------------------------------------------------------
(* epoll_ctl.  events[i] is slots[i + 1].                                    *)

IndexOf(f) == {i \in DOMAIN slots : slots[i] # Null /\ slots[i].file = f}
Unused == {i \in DOMAIN slots : slots[i] = Null /\ i > first_free_event}

ctl_add(t, f, et) ==
  LET new == [file |-> f, et |-> et, old |-> FALSE, id |-> id + 1] IN
  /\ Running(t) /\ f \in open /\ IndexOf(f) = {}
  /\ id < MaxCtl
  /\ \/ \E i \in Unused :
          /\ \A j \in Unused : i <= j
          /\ slots' = [slots EXCEPT ![i] = new]
          /\ first_free_event' = i
     \/ /\ Unused = {}
        /\ Len(slots) < MaxSlots
        /\ slots' = Append(slots, new)
        /\ first_free_event' = Len(slots)
  /\ id' = id + 1
  /\ UNCHANGED <<w, ready, open, timeout, timer, call, signals>>

ctl_mod(t, f, et) ==
  /\ Running(t) /\ f \in open
  /\ id < MaxCtl
  /\ \E i \in IndexOf(f) : slots' = [slots EXCEPT ![i].et = et, ![i].id = id + 1]
  /\ id' = id + 1
  /\ UNCHANGED <<w, ready, open, timeout, first_free_event, timer, call, signals>>

\* A bug: the hint is not lowered.
Hint_Kept(i) == first_free_event
Hint(i) == IF first_free_event > i - 1 THEN i - 1 ELSE first_free_event

ctl_del(t, f) ==
  /\ Running(t) /\ f \in open
  /\ id < MaxCtl
  /\ \E i \in IndexOf(f) :
       /\ slots' = [slots EXCEPT ![i] = Null]
       /\ first_free_event' = Hint(i)
  /\ id' = id + 1
  /\ UNCHANGED <<w, ready, open, timeout, timer, call, signals>>

-----------------------------------------------------------------------------
(* The waits.  A call is [kind, files, max, limit, regs, alone]: regs are    *)
(* the registrations that it went to sleep with, alone says that no other    *)
(* thread has called epoll_wait since it was made.                           *)

\* epoll_pwait2_impl asks the files in order until max have something to report;
\* an edge-triggered one reports only what it did not have the last time.
Reports(i) == slots[i] # Null /\ slots[i].file \in ready /\ ~(slots[i].et /\ slots[i].old)
ReportsUpTo(i) == Cardinality({j \in 1..i : Reports(j)})
Asked(max) == {i \in DOMAIN slots : slots[i] # Null /\ ReportsUpTo(i - 1) < max}

AskedSlots(max) ==
  [i \in DOMAIN slots |-> IF i \in Asked(max) THEN [slots[i] EXCEPT !.old = slots[i].file \in ready]
                          ELSE slots[i]]

\* poll looks every number up again: a closed one is POLLNVAL.
FoundOf(c) == IF c.kind = "poll" THEN \E f \in c.files : f \in ready \/ f \notin open
              ELSE \E i \in Asked(c.max) : Reports(i)

Registered == SelectSeq(slots, LAMBDA x : x # Null)

\* A bug: the events are counted before the timer is added.
EventsOf_NoTimer(t, c, slot0) ==
  IF c.kind = "poll" THEN SetToSeq(c.files)
  ELSE (IF slot0 = Null THEN <<>> ELSE <<slot0>>)
       \o [i \in 1..(Len(Registered) - 1) |-> Registered[i].file]

EventsOf(t, c, slot0) ==
  IF c.kind = "poll" THEN SetToSeq(c.files) \o (IF c.limit = "some" THEN <<t>> ELSE <<>>)
  ELSE (IF slot0 = Null THEN <<>> ELSE <<slot0>>)
       \o [i \in DOMAIN Registered |-> Registered[i].file]

\* The call of t is over: syscall_handler puts the signal mask back, and only then
\* looks for signals to deliver.
Leave(v, t, calls) ==
  LET own == IF saved[t] = Null THEN mask[t] ELSE saved[t] IN
  /\ w' = [v EXCEPT !.sig[t] = t \in pend /\ ~own]
  /\ timer' = [timer EXCEPT ![t] = "off"]
  /\ call' = [calls EXCEPT ![t] = Null]
  /\ mask' = [mask EXCEPT ![t] = own]
  /\ saved' = [saved EXCEPT ![t] = Null]

\* The loop from its head, in the state v of the threads: the call reports, gives
\* up, or uses up the pending triggers and sleeps with the signal mask m.
Look(v, t, c, calls, slot0, m) ==
  LET evs == EventsOf(t, c, slot0)
      dry == [v EXCEPT !.pending = [e \in Events |-> IF e \in Range(evs) THEN 0 ELSE @[e]]]
      deliverable == t \in pend /\ ~m
  IN
  /\ slots' = IF c.kind = "poll" THEN slots ELSE AskedSlots(c.max)
  /\ IF FoundOf(c) \/ c.limit = "zero" \/ deliverable
     THEN Leave(v, t, calls)
     ELSE /\ w' = sleep(dry, t, evs)
          /\ timer' = [timer EXCEPT ![t] = IF c.limit = "some" THEN "armed" ELSE "off"]
          /\ call' = [calls EXCEPT ![t] = [c EXCEPT !.regs = {x.id : x \in Range(Registered)}]]
          /\ saved' = [saved EXCEPT ![t] = IF m = mask[t] THEN @ ELSE mask[t]]
          /\ mask' = [mask EXCEPT ![t] = m]
  /\ UNCHANGED <<ready, open, first_free_event, id, pend>>

\* The sigmask of a call, Null if it has none.  One that lets a pending signal
\* through ends the call at once, and changes nothing.
Mask(t, sigmask) == IF sigmask = Null THEN mask[t] ELSE sigmask
LetsThrough(t, sigmask) == sigmask = FALSE /\ t \in pend

\* ppoll_impl; select builds the array of files for it.  limit is "none", "zero" or
\* "some".
Poll(t, files, limit, sigmask) ==
  /\ Running(t) /\ ~LetsThrough(t, sigmask)
  /\ Look(w, t, [kind |-> "poll", files |-> files, max |-> 0, limit |-> limit,
                 regs |-> {}, alone |-> TRUE], call, Null, Mask(t, sigmask))
  /\ UNCHANGED timeout

EpollWait(t, max, limit, sigmask) ==
  LET slot0 == IF limit = "some" THEN t ELSE Null
      others == [u \in Threads |-> IF call[u] = Null THEN Null
                                   ELSE [call[u] EXCEPT !.alone = FALSE]]
  IN
  /\ Running(t) /\ ~LetsThrough(t, sigmask)
  /\ Look(w, t, [kind |-> "epoll", files |-> {}, max |-> max, limit |-> limit,
                 regs |-> {}, alone |-> TRUE], others, slot0, Mask(t, sigmask))
  /\ timeout' = slot0

\* The timer interrupt
Fire(t) ==
  /\ timer[t] = "armed"
  /\ timer' = [timer EXCEPT ![t] = "fired"]
  /\ w' = trigger(w, t, FALSE)
  /\ UNCHANGED <<ready, open, epoll, timeout, call, signals>>

\* wait returns: -EINTR, or the timer has fired, or the files are asked again.  The
\* timer is gone with the call.
Resume(t) ==
  LET v == settled(resume(w, t), t) IN
  /\ w.state[t] = "READY"
  /\ IF Interrupted(w, t) \/ timer[t] = "fired"
     THEN /\ Leave([v EXCEPT !.pending[t] = 0], t, call)
          /\ UNCHANGED <<ready, open, epoll, pend>>
     ELSE Look(v, t, call[t], call, timeout, mask[t])
  /\ UNCHANGED timeout

Signal(t) ==
  /\ t \notin pend
  /\ pend' = pend \cup {t}
  /\ w' = signal(w, t, mask[t])
  /\ UNCHANGED <<ready, open, epoll, timeout, timer, call, mask, saved>>

Dispatch(t) ==
  /\ Running(t) /\ w.sig[t]
  /\ w' = dispatch(w, t)
  /\ pend' = pend \ {t}
  /\ UNCHANGED <<ready, open, epoll, timeout, timer, call, mask, saved>>

\* rt_sigprocmask
Block(t) ==
  /\ Running(t)
  /\ mask' = [mask EXCEPT ![t] = ~@]
  /\ w' = [w EXCEPT !.sig[t] = t \in pend /\ mask[t]]
  /\ UNCHANGED <<ready, open, epoll, timeout, timer, call, pend, saved>>

Limits == {"none", "zero", "some"}

Next ==
  \/ \E f \in Files : MakeReady(f) \/ Drain(f) \/ Close(f)
  \/ \E t \in Threads, f \in Files :
       \/ \E et \in BOOLEAN : ctl_add(t, f, et) \/ ctl_mod(t, f, et)
       \/ ctl_del(t, f)
  \/ \E t \in Threads, limit \in Limits, m \in BOOLEAN \cup {Null} :
       /\ m # Null => t \in Signalled
       /\ \/ \E files \in SUBSET Files : t \in Pollers /\ Poll(t, files, limit, m)
          \/ \E max \in 1..2 : t \in Waiters /\ EpollWait(t, max, limit, m)
  \/ \E t \in Threads : Fire(t) \/ Resume(t)
  \/ \E t \in Signalled : Signal(t) \/ Dispatch(t) \/ Block(t)

Spec == Init /\ [][Next]_vars

-----------------------------------------------------------------------------
(* Properties                                                                *)

\* allocate_events_index never appends a slot while one is free: no free slot is
\* below the hint first_free_event; and no file is registered twice.
SlotsFound ==
  /\ \A i \in DOMAIN slots : slots[i] = Null => i > first_free_event
  /\ \A f \in Files : Cardinality(IndexOf(f)) <= 1

\* A thread that sleeps in poll or epoll_wait has nothing to report: none of the
\* files it asked for is ready, and no signal that the mask of the call lets
\* through is pending.  For epoll this is said of the level-triggered
\* registrations that are as they were when it went to sleep.
NobodySleepsOnReady ==
  \A t \in Threads : w.state[t] = "BLOCKED" =>
    /\ t \in pend => mask[t]
    /\ call[t].kind = "poll" => call[t].files \cap ready = {}
    /\ call[t].kind = "epoll" =>
         \A x \in Range(Registered) :
           x.id \in call[t].regs /\ ~x.et => x.file \notin ready

\* The timeout of a call ends its sleep: a sleeper with a timeout listens to its
\* own timer, unless another epoll_wait has put its timer into wait_events since.
TimeoutIsHeard ==
  \A t \in Threads :
    w.state[t] = "BLOCKED" /\ call[t].limit = "some" /\ call[t].alone
    => timer[t] = "armed" /\ t \in Listening(w, t)
=============================================================================
