------------------------------ MODULE Eventfd ------------------------------
(***************************************************************************)
(* userland::EventFD (userland/eventfd.cpp): a counter whose readers wait  *)
(* while it is zero and whose writers wait while their addend does not     *)
(* fit.  Both sides sleep on one event, and triggers that find nobody      *)
(* listening are dropped.                                                  *)
(***************************************************************************)
EXTENDS WaitOps

CONSTANTS
  eventfd_event,
  COUNTER_MAX,     \* 2^64 - 2 in the code; an addend above it is refused
  Initvals         \* initval arguments of eventfd2

VARIABLES
  ew,              \* event and thread states, see WaitOps
  counter, is_semaphore,
  nonblock,        \* O_NONBLOCK of the description
  ecall            \* [thread -> NoCall, ReadCall, or the addend of its write]

evars == <<ew, counter, is_semaphore, nonblock, ecall>>

NoEventfdCall == -2
ReadCall == -1

\* eventfd_impl.  Its flags are (O_RDWR | nonblock) ? O_NONBLOCK : 0, so every
\* description starts with O_NONBLOCK; fcntl can clear it.
EventfdInit ==
  /\ ew = WaitState(Threads, {eventfd_event})
  /\ counter \in Initvals
  /\ is_semaphore \in BOOLEAN
  /\ nonblock = TRUE
  /\ ecall = [t \in Threads |-> NoEventfdCall]

\* The condition of the while loop of a call c: it may not go on yet.
EventfdWaits(c) == IF c = ReadCall THEN counter = 0 ELSE counter > COUNTER_MAX - c

\* What a call that need not wait leaves in the counter.
CounterAfter(c) ==
  IF c # ReadCall THEN counter + c
  ELSE IF is_semaphore THEN counter - 1 ELSE 0

\* read or write from the head of its loop, with event state s.
eventfd_loop(t, s, c) ==
  /\ UNCHANGED <<is_semaphore, nonblock>>
  /\ \/ /\ ~EventfdWaits(c)
        /\ counter' = CounterAfter(c)
        /\ ew' = trigger(s, eventfd_event, TRUE)
        /\ ecall' = [ecall EXCEPT ![t] = NoEventfdCall]
     \/ /\ EventfdWaits(c) /\ (nonblock \/ s.sig[t])        \* EWOULDBLOCK, EINTR
        /\ ew' = s
        /\ ecall' = [ecall EXCEPT ![t] = NoEventfdCall]
        /\ UNCHANGED counter
     \/ /\ EventfdWaits(c) /\ ~nonblock /\ ~s.sig[t]
        /\ ew' = sleep(s, t, <<eventfd_event>>)
        /\ ecall' = [ecall EXCEPT ![t] = c]
        /\ UNCHANGED counter

EventfdRead(t) == ew.state[t] = "active" /\ eventfd_loop(t, ew, ReadCall)

EventfdWrite(t, to_add) == ew.state[t] = "active" /\ eventfd_loop(t, ew, to_add)

\* Event::wait returns to the loop, or with EINTR.
EventfdResume(t) ==
  /\ ew.state[t] = "READY"
  /\ \/ ~Interrupted(ew, t) /\ eventfd_loop(t, settled(resume(ew, t), t), ecall[t])
     \/ /\ Interrupted(ew, t)
        /\ ew' = settled(resume(ew, t), t)
        /\ ecall' = [ecall EXCEPT ![t] = NoEventfdCall]
        /\ UNCHANGED <<counter, is_semaphore, nonblock>>

\* fcntl(F_SETFL).
SetFlags(b) ==
  /\ nonblock' = b
  /\ UNCHANGED <<ew, counter, is_semaphore, ecall>>

EventfdSignal(t, masked) ==
  /\ ew' = signal(ew, t, masked)
  /\ UNCHANGED <<counter, is_semaphore, nonblock, ecall>>

EventfdHandler(t) ==
  /\ ew.state[t] = "active" /\ ew.sig[t]
  /\ ew' = dispatch(ew, t)
  /\ UNCHANGED <<counter, is_semaphore, nonblock, ecall>>

EventfdNext ==
  \/ \E b \in BOOLEAN : SetFlags(b)
  \/ \E t \in Threads :
       \/ \E to_add \in 0..COUNTER_MAX : EventfdWrite(t, to_add)
       \/ \E masked \in BOOLEAN : EventfdSignal(t, masked)
       \/ EventfdRead(t) \/ EventfdResume(t) \/ EventfdHandler(t)

EventfdSpec == EventfdInit /\ [][EventfdNext]_evars

-----------------------------------------------------------------------------
\* Nobody sleeps for something that is already there: every change of the
\* counter wakes the sleepers of both sides, and although triggers without
\* listeners are dropped none of them was needed; and the counter never exceeds
\* COUNTER_MAX, whatever a writer added while another slept (eventfd.cpp 33, 50).
EventfdWakes ==
  /\ \A t \in Threads : ew.state[t] = "BLOCKED" => EventfdWaits(ecall[t])
  /\ counter <= COUNTER_MAX
=============================================================================
