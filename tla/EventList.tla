----------------------------- MODULE EventList -----------------------------
(***************************************************************************)
(* sched::Event with its memory: listeners live in Thread::listeners, a    *)
(* klib::Vector that doubles its capacity and moves its elements when it   *)
(* is full, while the event's circular list points into it.  The bump      *)
(* allocator never reuses freed memory, so the moved-from cells stay as    *)
(* they were.  A cell is <<thread, capacity of its buffer, index>>; an     *)
(* event stands for its own listener_list_head.                            *)
(***************************************************************************)
EXTENDS EventOps, FiniteSets, SequencesExt

CONSTANTS
  Threads, Events, Null, WaitSets,
  InitCapacity,   \* capacity of every thread's vector in the initial state
  MaxCapacity,    \* at least the longest wait
  MaxPending

ASSUME EventListAssumption ==
  /\ InitCapacity \in Nat /\ MaxCapacity \in Nat
  /\ \A evs \in WaitSets : Len(evs) <= MaxCapacity

Cells == Threads \X (1..MaxCapacity) \X (1..MaxCapacity)
Nodes == Events \cup Cells

VARIABLES
  m,            \* next, prev, event and which of every cell; num_listeners of
                \* every event; capacity and size of every vector
  s,            \* the state of EventOps; s.listeners is what walking m's lists finds
  waits, hits   \* as in Event

vars == <<m, s, waits, hits>>

-----------------------------------------------------------------------------
add_before(mm, head, c) ==
  LET tail == mm.prev[head] IN
  [mm EXCEPT !.next = [@ EXCEPT ![tail] = c, ![c] = head],
             !.prev = [@ EXCEPT ![c] = tail, ![head] = c]]

remove_KeepsPrev(mm, c) ==
  [mm EXCEPT !.next = [@ EXCEPT ![mm.prev[c]] = mm.next[c], ![c] = Null], !.prev[c] = Null]

remove(mm, c) ==
  LET n == mm.next[c]
      p == mm.prev[c]
      p1 == [mm.prev EXCEPT ![n] = p]
      n1 == [mm.next EXCEPT ![p] = n]
  IN  [mm EXCEPT !.next = [n1 EXCEPT ![c] = Null], !.prev = [p1 EXCEPT ![c] = Null]]

\* Vector::increase_capacity: realloc copies the elements, links included.
increase_capacity(mm, t, size) ==
  LET old == mm.capacity[t]
      new == IF size <= old THEN old ELSE IF old = 0 THEN 1 ELSE 2 * old
      from(c) == IF c \in Cells /\ c[1] = t /\ c[2] = new /\ c[3] <= mm.size[t]
                 THEN <<t, old, c[3]>> ELSE c
  IN  IF new = old THEN mm
      ELSE [mm EXCEPT !.capacity[t] = new,
              !.next = [c \in Nodes |-> @[from(c)]], !.prev = [c \in Nodes |-> @[from(c)]],
              !.event = [c \in Cells |-> @[from(c)]], !.which = [c \in Cells |-> @[from(c)]]]

\* listeners.emplace_back(thread, event, i), then the event's add_before.
add_listener(mm, t, e, i) ==
  LET grown == increase_capacity(mm, t, mm.size[t] + 1)
      c == <<t, grown.capacity[t], mm.size[t] + 1>>
      placed == [grown EXCEPT !.size[t] = @ + 1, !.event[c] = e, !.which[c] = i,
                              !.num_listeners[e] = @ + 1]
  IN  add_before(placed, e, c)

add_listeners(mm, t, evs) ==
  FoldLeft(LAMBDA acc, i : add_listener(acc, t, evs[i], i), mm, [i \in DOMAIN evs |-> i])

clear_list_KeepsLinks(mm, t) == [mm EXCEPT !.size[t] = 0]

clear_list(mm, t) ==
  LET one(acc, j) ==
        LET c == <<t, acc.capacity[t], j>>
        IN  [remove(acc, c) EXCEPT !.num_listeners[acc.event[c]] = @ - 1]
      all == FoldLeft(one, mm, [j \in 1..mm.size[t] |-> j])
  IN  [all EXCEPT !.size[t] = 0]

\* The cells LIST_FOR_EACH visits from e's head; it can only follow links to
\* cells, and stops at the head.
walk(mm, e) ==
  LET path[n \in 0..Cardinality(Cells)] ==
        IF n = 0 THEN <<mm.next[e]>>
        ELSE LET p == path[n - 1] IN
             IF Last(p) \in Cells THEN Append(p, mm.next[Last(p)]) ELSE p
  IN  path[Cardinality(Cells)]

Sound(mm, e) == Last(walk(mm, e)) = e
ListOf(mm, e) == IF Sound(mm, e) THEN Front(walk(mm, e)) ELSE <<>>
Listeners(mm, e) ==
  LET l == ListOf(mm, e) IN
  [i \in DOMAIN l |-> [thread |-> l[i][1], which |-> mm.which[l[i]]]]
AllListeners(mm) == [e \in Events |-> Listeners(mm, e)]

\* Links can be followed only where the lists are not torn.
Usable == \A e \in Events : Sound(m, e)

-----------------------------------------------------------------------------
Init ==
  /\ m = [next |-> [x \in Nodes |-> IF x \in Events THEN x ELSE Null],
          prev |-> [x \in Nodes |-> IF x \in Events THEN x ELSE Null],
          event |-> [c \in Cells |-> Null], which |-> [c \in Cells |-> 0],
          num_listeners |-> [e \in Events |-> 0],
          capacity |-> [t \in Threads |-> InitCapacity],
          size |-> [t \in Threads |-> 0]]
  /\ s = EventState(Threads, Events)
  /\ waits = [t \in Threads |-> <<>>]
  /\ hits = [t \in Threads |-> {}]

WaitReturns(t, evs, nonblocking) ==
  /\ s.state[t] = "active"
  /\ wait_now(s, t, evs) # 0 \/ nonblocking
  /\ s' = consume(s, t, evs)
  /\ UNCHANGED <<m, waits, hits>>

WaitSleeps(t, evs) ==
  /\ s.state[t] = "active"
  /\ wait_now(s, t, evs) = 0
  /\ m' = add_listeners(m, t, evs)
  /\ s' = [s EXCEPT !.state[t] = "BLOCKED", !.listeners = AllListeners(m')]
  /\ waits' = [waits EXCEPT ![t] = evs]
  /\ hits' = [hits EXCEPT ![t] = {}]

WaitResumes(t) ==
  /\ s.state[t] = "READY"
  /\ m' = clear_list(m, t)
  /\ s' = [s EXCEPT !.state[t] = "active", !.listeners = AllListeners(m')]
  /\ waits' = [waits EXCEPT ![t] = <<>>]
  /\ hits' = [hits EXCEPT ![t] = {}]

\* num_listeners, not the list, decides whether there is anybody to wake.
Trigger(e, drop, max) ==
  /\ s.pending[e] < MaxPending
  /\ IF m.num_listeners[e] = 0
     THEN s' = [s EXCEPT !.pending[e] = IF drop THEN @ ELSE @ + 1]
     ELSE s' = [trigger(s, e, TRUE, max) EXCEPT !.pending = s.pending]
  /\ hits' = [t \in Threads |-> hits[t] \cup
                {s.listeners[e][i].which : i \in {j \in Visited(s.listeners[e], max) :
                                                  s.listeners[e][j].thread = t}}]
  /\ UNCHANGED <<m, waits>>

SendSignal(t, masked) ==
  /\ s.state[t] # "ZOMBIE"
  /\ s' = signal(s, t, masked)
  /\ UNCHANGED <<m, waits, hits>>

DispatchSignal(t) ==
  /\ s.state[t] = "active" /\ s.sig[t]
  /\ s' = dispatch(s, t)
  /\ UNCHANGED <<m, waits, hits>>

Terminate(t) ==
  /\ s.state[t] # "ZOMBIE"
  /\ s' = terminate(s, t)
  /\ UNCHANGED <<m, waits, hits>>

DeleteThread(t) ==
  /\ s.state[t] = "ZOMBIE" /\ waits[t] # <<>>
  /\ m' = clear_list(m, t)
  /\ s' = [s EXCEPT !.listeners = AllListeners(m')]
  /\ waits' = [waits EXCEPT ![t] = <<>>]
  /\ UNCHANGED hits

Next ==
  /\ Usable
  /\ \/ \E t \in Threads :
          \/ \E evs \in WaitSets : WaitSleeps(t, evs)
          \/ \E evs \in WaitSets, nb \in BOOLEAN : WaitReturns(t, evs, nb)
          \/ \E masked \in BOOLEAN : SendSignal(t, masked)
          \/ WaitResumes(t) \/ DispatchSignal(t)
          \/ Terminate(t) \/ DeleteThread(t)
     \/ \E e \in Events, drop \in BOOLEAN, max \in {1, INT_MAX} : Trigger(e, drop, max)

Spec == Init /\ [][Next]_vars

-----------------------------------------------------------------------------
Contract == INSTANCE Event WITH k <- s

\* The intrusive lists implement module Event's sequences of listeners, as
\* long as no vector has to grow while another thread is listed (event.cpp
\* 52-68, vector.hpp 12-18).
ImplementsEvent == Contract!Spec

\* A thread is listed once for every event it waits for and nowhere else, from
\* the moment it sleeps until its wait returns (or, if it dies asleep, until it
\* is deleted): no listener outlives its wait (event.cpp 51-68).
ListenersMatchWaits == Contract!ListenersMatchWaits

\* Nobody sleeps on an event that holds a pending trigger, so a trigger that
\* found no listener is never overlooked by a later wait (event.cpp 40-46, 81-85).
NoSleepOnPending == Contract!NoSleepOnPending

\* A wait that returns an index returns the index of an event that was
\* triggered while it slept, never a stale which_event (event.cpp 70-72).
AnswerWasTriggered == Contract!AnswerWasTriggered

\* Sleeping, resuming and triggering without a limit are WaitOps' operators on
\* the set of listeners: their order shows only when max_to_wake is used.
UnorderedView == Contract!UnorderedView

\* "if (num_listeners == 0) ASSERT(listener_list_head.is_empty())" (event.cpp
\* 100-101): the counter and the list agree that nobody listens.
NoListenersMeansEmptyList ==
  \A e \in Events : m.num_listeners[e] = 0 => m.next[e] = e
=============================================================================
