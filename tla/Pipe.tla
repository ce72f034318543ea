-------------------------------- MODULE Pipe --------------------------------
(***************************************************************************)
(* userland::Pipe (userland/pipe.cpp): readers and writers that share one  *)
(* ring buffer and one event.  The order of the bytes is RingBuffer's      *)
(* business (module RingBuffer); here the buffer is the number of bytes in *)
(* it, data_count().  A system call runs with interrupts off, so it is one *)
(* step up to the point where it sleeps in Event::wait and one step after. *)
(***************************************************************************)
EXTENDS WaitOps

CONSTANTS
  pipe_event,
  Capacity,     \* Pipe::capacity
  Counts,       \* the byte counts threads ask for
  MaxWritten    \* bound on the bytes written

ASSUME PipeAssumption ==
  /\ Capacity \in Nat \ {0}
  /\ Counts \subseteq Nat
  /\ MaxWritten \in Nat

VARIABLES
  w,                  \* event and thread states, see WaitOps
  readers, writers,
  data_count,
  call,               \* [thread -> "none" | "read" | "write"]
  arg,                \* [thread -> the count of its call]
  written             \* bytes written so far, only used for the bound

vars == <<w, readers, writers, data_count, call, arg, written>>

Smaller(a, b) == IF a < b THEN a ELSE b

\* pipe_impl: one open description for each end.
Init ==
  /\ w = WaitState(Threads, {pipe_event})
  /\ readers = 1 /\ writers = 1
  /\ data_count = 0
  /\ call = [t \in Threads |-> "none"]
  /\ arg = [t \in Threads |-> 0]
  /\ written = 0

Return(t) ==
  /\ call' = [call EXCEPT ![t] = "none"]
  /\ arg' = [arg EXCEPT ![t] = 0]

\* pipe_event.wait() until the loop's condition changes: pending triggers only
\* make the loop go round again, a pending signal ends it.
Wait(t, s, name, count) ==
  /\ ~s.sig[t]
  /\ w' = sleep(drain(s, pipe_event), t, <<pipe_event>>)
  /\ call' = [call EXCEPT ![t] = name]
  /\ arg' = [arg EXCEPT ![t] = count]
  /\ UNCHANGED <<readers, writers, data_count, written>>

Unchanged(t, s) ==
  /\ w' = s
  /\ Return(t)
  /\ UNCHANGED <<readers, writers, data_count, written>>

\* Pipe::read from the head of its loop, with event state s.
read(t, s, count, nonblock) ==
  \/ /\ data_count = 0 /\ writers > 0 /\ ~nonblock
     /\ Wait(t, s, "read", count)
  \/ /\ data_count = 0
     /\ writers = 0 \/ nonblock \/ s.sig[t]      \* 0, EWOULDBLOCK, EINTR
     /\ Unchanged(t, s)
  \/ /\ data_count > 0
     /\ data_count' = data_count - Smaller(count, data_count)
     /\ w' = trigger(s, pipe_event, FALSE)
     /\ Return(t)
     /\ UNCHANGED <<readers, writers, written>>

\* Pipe::write from the head of its loop, with event state s.
write(t, s, count, nonblock) ==
  \/ /\ readers > 0 /\ data_count = Capacity /\ ~nonblock
     /\ Wait(t, s, "write", count)
  \/ /\ readers = 0 \/ (data_count = Capacity /\ (nonblock \/ s.sig[t]))
                                                 \* EPIPE, EWOULDBLOCK, EINTR
     /\ Unchanged(t, s)
  \/ /\ readers > 0 /\ data_count < Capacity
     /\ LET n == Smaller(count, Capacity - data_count)
        IN  data_count' = data_count + n /\ written' = written + n
     /\ w' = trigger(s, pipe_event, FALSE)
     /\ Return(t)
     /\ UNCHANGED <<readers, writers>>

\* A thread can only call read (write) through an open description of that end.
Read(t, count, nonblock) ==
  /\ w.state[t] = "active" /\ readers > 0
  /\ read(t, w, count, nonblock)

Write(t, count, nonblock) ==
  /\ w.state[t] = "active" /\ writers > 0
  /\ written + count <= MaxWritten
  /\ write(t, w, count, nonblock)

\* Event::wait returns to the loop, or with EINTR.
Resume(t) ==
  /\ w.state[t] = "READY"
  /\ LET s == settled(resume(w, t), t) IN
     \/ Interrupted(w, t) /\ Unchanged(t, s)
     \/ ~Interrupted(w, t) /\ call[t] = "read" /\ read(t, s, arg[t], FALSE)
     \/ ~Interrupted(w, t) /\ call[t] = "write" /\ write(t, s, arg[t], FALSE)

\* A bug: the readers are not told.
CloseWrite_Silent ==
  /\ writers > 0
  /\ writers' = writers - 1
  /\ UNCHANGED <<w, readers, data_count, call, arg, written>>

\* Pipe::close, when the last descriptor of a description is closed.
CloseRead ==
  /\ readers > 0
  /\ readers' = readers - 1
  /\ w' = trigger(w, pipe_event, FALSE)
  /\ UNCHANGED <<writers, data_count, call, arg, written>>

CloseWrite ==
  /\ writers > 0
  /\ writers' = writers - 1
  /\ w' = trigger(w, pipe_event, FALSE)
  /\ UNCHANGED <<readers, data_count, call, arg, written>>

SendSignal(t, masked) ==
  /\ w.state[t] # "ZOMBIE"
  /\ w' = signal(w, t, masked)
  /\ UNCHANGED <<readers, writers, data_count, call, arg, written>>

DispatchSignal(t) ==
  /\ w.state[t] = "active" /\ w.sig[t]
  /\ w' = dispatch(w, t)
  /\ UNCHANGED <<readers, writers, data_count, call, arg, written>>

\* exit_group or a fatal signal, also while the thread sleeps.
Terminate(t) ==
  /\ w.state[t] # "ZOMBIE"
  /\ w' = terminate(w, t)
  /\ UNCHANGED <<readers, writers, data_count, call, arg, written>>

\* ~Thread takes a thread that died asleep off the event's list.
DeleteThread(t) ==
  /\ w.state[t] = "ZOMBIE" /\ t \in Listening(w, pipe_event)
  /\ w' = clear_listeners(w, t)
  /\ UNCHANGED <<readers, writers, data_count, call, arg, written>>

ThreadStep(t) ==
  \/ \E count \in Counts, nonblock \in BOOLEAN :
       Read(t, count, nonblock) \/ Write(t, count, nonblock)
  \/ \E masked \in BOOLEAN : SendSignal(t, masked)
  \/ Resume(t) \/ DispatchSignal(t) \/ Terminate(t) \/ DeleteThread(t)

Next == CloseRead \/ CloseWrite \/ \E t \in Threads : ThreadStep(t)

Spec == Init /\ [][Next]_vars

\* The scheduler runs every READY thread in the end (ReadyEventuallyRuns of
\* module Scheduler).
FairSpec == Spec /\ \A t \in Threads : WF_vars(Resume(t))

-----------------------------------------------------------------------------
\* Every variable keeps the type the code gives it.
TypeOK ==
  /\ w \in WaitTypes(Threads, {pipe_event})
  /\ readers \in Nat /\ writers \in Nat
  /\ data_count \in 0..Capacity
  /\ call \in [Threads -> {"none", "read", "write"}]
  /\ arg \in [Threads -> Nat]
  /\ written \in Nat

\* Nobody sleeps for something that is already there: a sleeping reader means
\* that the buffer is empty and somebody can still write, a sleeping writer that
\* it is full and somebody can still read.  Every change of the buffer or of the
\* number of ends must wake the sleepers of both sides (pipe.cpp 26, 39, 55),
\* although readers and writers share one event and one pending counter.
NoLostWakeup ==
  \A t \in Threads : w.state[t] = "BLOCKED" =>
     \/ call[t] = "read" /\ data_count = 0 /\ writers > 0
     \/ call[t] = "write" /\ data_count = Capacity /\ readers > 0

\* Once the last writer has closed its end, a read in progress ends; once the
\* last reader has, so does a write (pipe.cpp 31-32, 45-46).
HangupEndsCalls ==
  \A t \in Threads :
     /\ (writers = 0 /\ call[t] = "read") ~> (call[t] # "read" \/ w.state[t] = "ZOMBIE")
     /\ (readers = 0 /\ call[t] = "write") ~> (call[t] # "write" \/ w.state[t] = "ZOMBIE")
=============================================================================
