----------------------------- MODULE Scheduler -----------------------------
(***************************************************************************)
(* The single-core scheduler of sched/sched.cpp: the intrusive run list,   *)
(* thread states, yield(), scheduler_isr, stop/continue/fatal signals and  *)
(* thread termination.                                                     *)
(*                                                                         *)
(* Kernel code runs with interrupts disabled except inside yield(), so one *)
(* step of this specification is one call of a sched.cpp function (or one  *)
(* iteration of its loop); "cpu" says which code the core is executing and *)
(* only cpu = "thread" has interrupts enabled.  What a system call does    *)
(* between entry and exit is any sequence of scheduler calls.              *)
(*                                                                         *)
(* Signal masks are all empty here.  ctx is a history variable: ctx[t] is  *)
(* the thread whose registers t's gpr_state holds, regs the owner of the   *)
(* register values in the interrupt frame.                                 *)
(***************************************************************************)
EXTENDS Naturals, FiniteSets

CONSTANTS
  Threads,      \* user threads
  Idle,         \* idle_thread, never linked
  ListHead,         \* sched_list_head
  Null,         \* nullptr
  Procs, InitProc,
  ProcOf,       \* [Threads -> Procs]: Thread::process
  MainOf,       \* [Procs -> Threads]: Process::get_main_thread
  Sigs,         \* the signals that kill/tgkill and the terminal may send
  SigNum,       \* [signal -> number]: dispatch takes the lowest number first
  NoCldStop,    \* processes whose SIGCHLD action has SA_NOCLDSTOP
  Exceptions,   \* TRUE: user code may raise CPU exceptions
  ContOnce      \* TRUE: nobody signals SIGCONT to, or terminates, a thread
                \*       that is continued but has not run yet

AllSigs == {"USR", "SEGV", "TERM", "CHLD", "CONT", "STOP"}

ASSUME SchedulerAssumption ==
  /\ Idle \notin Threads /\ ListHead \notin Threads /\ Null \notin Threads
  /\ Idle # ListHead /\ Idle # Null /\ ListHead # Null
  /\ InitProc \in Procs
  /\ ProcOf \in [Threads -> Procs]
  /\ MainOf \in [Procs -> Threads]
  /\ Sigs \subseteq AllSigs
  /\ SigNum \in [AllSigs -> Nat]
  /\ \A s1, s2 \in AllSigs : SigNum[s1] = SigNum[s2] => s1 = s2
  /\ NoCldStop \subseteq Procs
  /\ Exceptions \in BOOLEAN /\ ContOnce \in BOOLEAN

Nodes == Threads \cup {ListHead}
NoSig == "none"

VARIABLES
  links,        \* [next, prev]: the sched_link pointers
  state,        \* Thread::state
  running,      \* cpu->running_thread
  cpu,          \* what the core executes
  self_irq,     \* reschedule_self() was called, its interrupt is pending
  inKernel,     \* the thread's execution is inside a system call
  yield_await,
  enqueued_by_signal,
  pending_signals,
  entering_signal,
  parent,       \* Process::parent
  victims,      \* threads terminate_process still has to visit
  after,        \* what continues after the terminate loop
  ctx, regs

vars == <<links, state, running, cpu, self_irq, inKernel, yield_await,
          enqueued_by_signal, pending_signals, entering_signal, parent,
          victims, after, ctx, regs>>

sigVars == <<pending_signals, entering_signal>>

-----------------------------------------------------------------------------
(* klib/list.hpp *)

\* head.add_before(&entry->sched_link): entry becomes the tail of the list.
add_before(l, e) ==
  LET tail == l.prev[ListHead]
      n1 == [l.next EXCEPT ![tail] = e]
      p1 == [l.prev EXCEPT ![e] = tail]
  IN  [next |-> [n1 EXCEPT ![e] = ListHead], prev |-> [p1 EXCEPT ![ListHead] = e]]

remove_KeepsLink(l, e) ==
  [next |-> [l.next EXCEPT ![l.prev[e]] = l.next[e]],
   prev |-> [l.prev EXCEPT ![l.next[e]] = l.prev[e]]]

\* link.remove(): the neighbours are joined and the link is cleared.
remove(l, e) ==
  LET n == l.next[e]
      p == l.prev[e]
      p1 == [l.prev EXCEPT ![n] = p]
      n1 == [l.next EXCEPT ![p] = n]
  IN  [next |-> [n1 EXCEPT ![e] = Null], prev |-> [p1 EXCEPT ![e] = Null]]

-----------------------------------------------------------------------------
(* The part of the state enqueue_thread and send_signal change, as one     *)
(* value, so that a handler that makes several calls composes them.        *)

KState == [links |-> links, state |-> state, enq |-> enqueued_by_signal,
           pend |-> pending_signals]

SetK(k) == /\ links' = k.links
           /\ state' = k.state
           /\ enqueued_by_signal' = k.enq
           /\ pending_signals' = k.pend

Wakeable_AnySignal(k, t, sig) == k.state[t] \in {"BLOCKED", "STOPPED"}

\* The threads enqueue_thread acts on.
Wakeable(k, t, sig) ==
  \/ k.state[t] = "BLOCKED"
  \/ k.state[t] = "STOPPED" /\ sig = "CONT"

enqueue_thread(k, t, sig) ==
  IF Wakeable(k, t, sig)
  THEN [k EXCEPT !.enq[t] = sig,
                 !.links = add_before(k.links, t),
                 !.state[t] = IF @ = "BLOCKED" THEN "READY" ELSE @]
  ELSE k

\* Thread::send_signal; the trigger of signal_event is an EnqueueThread step.
send_signal(k, t, sig) ==
  enqueue_thread([k EXCEPT !.pend[t] = @ \cup {sig}], t, sig)

-----------------------------------------------------------------------------
Exists(t) == state[t] # "NONE"
LastLiving(t) == \A u \in Threads \ {t} :
                    ProcOf[u] = ProcOf[t] => state[u] \in {"NONE", "ZOMBIE"}
ProcThreads(p) == {t \in Threads : ProcOf[t] = p /\ Exists(t)}

\* A stopped thread that SIGCONT has put back on the run list.
Continued(t) == state[t] = "STOPPED" /\ enqueued_by_signal[t] = "CONT"

(* Boot: create_init_process has linked init's main thread; the core idles. *)
Init ==
  LET i == MainOf[InitProc] IN
  /\ links = [next |-> [x \in Nodes |-> IF x = ListHead THEN i
                                        ELSE IF x = i THEN ListHead ELSE Null],
              prev |-> [x \in Nodes |-> IF x = ListHead THEN i
                                        ELSE IF x = i THEN ListHead ELSE Null]]
  /\ state = [t \in Threads \cup {Idle} |->
                IF t = Idle THEN "RUNNING" ELSE IF t = i THEN "READY" ELSE "NONE"]
  /\ running = Idle
  /\ cpu = "thread"
  /\ self_irq = FALSE
  /\ inKernel = [t \in Threads |-> FALSE]
  /\ yield_await = [t \in Threads \cup {Idle} |-> FALSE]
  /\ enqueued_by_signal = [t \in Threads |-> NoSig]
  /\ pending_signals = [t \in Threads |-> {}]
  /\ entering_signal = [t \in Threads |-> FALSE]
  /\ parent = [p \in Procs |-> InitProc]
  /\ victims = {}
  /\ after = "none"
  /\ ctx = [t \in Threads \cup {Idle} |-> t]
  /\ regs = Idle

-----------------------------------------------------------------------------
(* System calls and yield() *)

InUser(t) == /\ cpu = "thread" /\ running = t /\ ~inKernel[t] /\ ~self_irq

\* The system call instruction; __syscall_handler disables interrupts.
SyscallEnter(t) ==
  /\ InUser(t)
  /\ cpu' = "syscall"
  /\ inKernel' = [inKernel EXCEPT ![t] = TRUE]
  /\ UNCHANGED <<links, state, running, self_irq, yield_await,
                 enqueued_by_signal, sigVars, parent, victims, after, ctx, regs>>

\* __syscall_handler's epilogue and sysret.
SyscallReturn(t) ==
  /\ cpu = "syscall" /\ running = t
  /\ cpu' = "thread"
  /\ inKernel' = [inKernel EXCEPT ![t] = FALSE]
  /\ LET deliver == ~entering_signal[t] /\ pending_signals[t] # {} IN
     /\ entering_signal' = [entering_signal EXCEPT ![t] = @ \/ deliver]
     /\ self_irq' = deliver
  /\ UNCHANGED <<links, state, running, yield_await, enqueued_by_signal,
                 pending_signals, parent, victims, after, ctx, regs>>

yield_NoSpin(t) == cpu' = "thread" /\ UNCHANGED <<yield_await, self_irq>>

\* yield() up to its spin loop: the self interrupt is pending and
\* interrupts are enabled.
yield(t) ==
  /\ yield_await' = [yield_await EXCEPT ![t] = TRUE]
  /\ self_irq' = TRUE
  /\ cpu' = "thread"

\* Event::wait on events without pending triggers: dequeue_thread and yield().
\* With a signal pending it returns -EINTR instead.
EventWait(t) ==
  /\ cpu = "syscall" /\ running = t
  /\ pending_signals[t] = {}
  /\ state[t] \in {"READY", "RUNNING"}
  /\ links' = remove(links, t)
  /\ state' = [state EXCEPT ![t] = "BLOCKED"]
  /\ yield(t)
  /\ UNCHANGED <<running, inKernel, enqueued_by_signal, sigVars, parent,
                 victims, after, ctx, regs>>

\* yield() leaves its spin loop: the system call goes on, interrupts off.
YieldReturn(t) ==
  /\ cpu = "thread" /\ running = t /\ inKernel[t] /\ ~yield_await[t]
  /\ ~self_irq
  /\ cpu' = "syscall"
  /\ UNCHANGED <<links, state, running, self_irq, inKernel, yield_await,
                 enqueued_by_signal, sigVars, parent, victims, after, ctx, regs>>

\* clone_impl: a thread of the caller's process, or a new process's main one.
Clone(t, u) ==
  /\ cpu = "syscall" /\ running = t
  /\ state[u] = "NONE"
  /\ \/ /\ ProcOf[u] = ProcOf[t]
        /\ UNCHANGED parent
     \/ /\ ProcThreads(ProcOf[u]) = {} /\ MainOf[ProcOf[u]] = u
        /\ parent' = [parent EXCEPT ![ProcOf[u]] = ProcOf[t]]
  /\ links' = add_before(links, u)
  /\ state' = [state EXCEPT ![u] = "READY"]
  /\ UNCHANGED <<running, cpu, self_irq, inKernel, yield_await,
                 enqueued_by_signal, sigVars, victims, after, ctx, regs>>

\* A device interrupt handler runs on top of the running thread.
DeviceIrq ==
  /\ cpu = "thread"
  /\ cpu' = "irq"
  /\ UNCHANGED <<links, state, running, self_irq, inKernel, yield_await,
                 enqueued_by_signal, sigVars, parent, victims, after, ctx, regs>>

DeviceIrqReturn ==
  /\ cpu = "irq"
  /\ cpu' = "thread"
  /\ UNCHANGED <<links, state, running, self_irq, inKernel, yield_await,
                 enqueued_by_signal, sigVars, parent, victims, after, ctx, regs>>

\* Event::trigger calls enqueue_thread for a listener.  Besides system calls
\* and interrupt handlers, the zombie, stopped and continued events of a
\* process and clear_child_tid's futex are triggered inside the scheduler.
EnqueueThread(u) ==
  /\ cpu \in {"syscall", "irq", "reap", "picked", "check"}
  /\ state[u] = "BLOCKED"
  /\ SetK(enqueue_thread(KState, u, NoSig))
  /\ UNCHANGED <<running, cpu, self_irq, inKernel, yield_await,
                 entering_signal, parent, victims, after, ctx, regs>>

\* kill, tgkill (which skip zombies), terminal signals.
SendSignal(u, sig) ==
  /\ cpu \in {"syscall", "irq"}
  /\ state[u] \notin {"NONE", "ZOMBIE"}
  /\ sig = "TERM" => ProcOf[u] # InitProc
  /\ sig = "CONT" /\ ContOnce => ~Continued(u)
  /\ SetK(send_signal(KState, u, sig))
  /\ UNCHANGED <<running, cpu, self_irq, inKernel, yield_await,
                 entering_signal, parent, victims, after, ctx, regs>>

-----------------------------------------------------------------------------
(* Termination *)

\* syscall_exit (all = FALSE) and syscall_exit_group enter terminate_self.
Exit(t, all) ==
  /\ cpu = "syscall" /\ running = t
  /\ ProcOf[t] # InitProc            \* init's death is a panic
  /\ victims' = IF all THEN ProcThreads(ProcOf[t]) ELSE {t}
  /\ after' = "yield"
  /\ cpu' = "reap"
  /\ UNCHANGED <<links, state, running, self_irq, inKernel, yield_await,
                 enqueued_by_signal, sigVars, parent, ctx, regs>>

Linked_Ready(v) == state[v] = "READY"

\* The states in which terminate_thread unlinks a thread.
Linked(v) == state[v] \in {"READY", "RUNNING"}

\* terminate_thread, with zombify when v is the last living thread: children
\* go to init and the parent's main thread is sent SIGCHLD.
terminate_thread(v) ==
  LET k == [KState EXCEPT !.links = IF Linked(v) THEN remove(@, v) ELSE @,
                          !.state[v] = "ZOMBIE"]
      p == ProcOf[v]
  IN  IF state[v] = "ZOMBIE"
      THEN SetK(KState) /\ UNCHANGED parent
      ELSE IF LastLiving(v)
      THEN /\ SetK(send_signal(k, MainOf[parent[p]], "CHLD"))
           /\ parent' = [q \in Procs |-> IF parent[q] = p THEN InitProc
                                         ELSE parent[q]]
      ELSE SetK(k) /\ UNCHANGED parent

\* One iteration of terminate_process's loop.
Reap(v) ==
  /\ cpu = "reap" /\ v \in victims
  /\ terminate_thread(v)
  /\ victims' = victims \ {v}
  /\ UNCHANGED <<running, cpu, self_irq, inKernel, yield_await,
                 entering_signal, after, ctx, regs>>

\* The loop is over: terminate_self yields, a dispatcher returns to its caller.
ReapDone ==
  /\ cpu = "reap" /\ victims = {}
  /\ after' = "none"
  /\ \/ /\ after = "yield"
        /\ yield(running)
     \/ /\ after \in {"check", "thread"}
        /\ cpu' = after
        /\ UNCHANGED <<self_irq, yield_await>>
  /\ UNCHANGED <<links, state, running, inKernel, enqueued_by_signal, sigVars,
                 parent, victims, ctx, regs>>

-----------------------------------------------------------------------------
(* dispatch_pending_signal: USR has a handler, SEGV and TERM terminate, STOP *)
(* stops, CONT and CHLD do nothing more.  "back" is where the caller goes on. *)

\* dequeue_thread with a stop signal: the parent's main thread gets SIGCHLD.
stop_thread(k, t) ==
  LET stopped == [k EXCEPT !.links = remove(@, t), !.state[t] = "STOPPED"]
      par == parent[ProcOf[t]]
  IN  IF par \in NoCldStop THEN stopped
      ELSE send_signal(stopped, MainOf[par], "CHLD")

dispatch_pending_signal(t, k0, back) ==
  LET accepted == k0.pend[t]
      k1 == [k0 EXCEPT !.enq[t] = NoSig]
  IN  /\ entering_signal' = [entering_signal EXCEPT ![t] = FALSE]
      /\ \/ /\ accepted = {}
            /\ SetK(k1) /\ cpu' = back /\ UNCHANGED <<victims, after>>
         \/ \E sig \in accepted :
              /\ \A s \in accepted : SigNum[sig] <= SigNum[s]
              /\ LET k2 == [k1 EXCEPT !.pend[t] = @ \ {sig}] IN
                 \/ /\ sig \in {"USR", "CONT", "CHLD"}
                    /\ SetK(k2) /\ cpu' = back /\ UNCHANGED <<victims, after>>
                 \/ /\ sig \in {"TERM", "SEGV"}
                    /\ SetK(k2) /\ cpu' = "reap"
                    /\ victims' = ProcThreads(ProcOf[t]) /\ after' = back
                 \/ /\ sig = "STOP"
                    /\ SetK(stop_thread(k2, t))
                    /\ cpu' = back /\ UNCHANGED <<victims, after>>

\* exception_handler for a fault in user mode: the thread signals itself,
\* dispatches at once and goes back to user mode whatever the dispatch did.
Exception(t) ==
  /\ Exceptions /\ InUser(t) /\ ProcOf[t] # InitProc
  /\ ctx' = [ctx EXCEPT ![t] = regs]
  /\ dispatch_pending_signal(t, send_signal(KState, t, "SEGV"), "thread")
  /\ UNCHANGED <<running, self_irq, inKernel, yield_await, parent, regs>>

-----------------------------------------------------------------------------
(* scheduler_isr *)

\* The timer, or the self interrupt of yield() and of signal delivery.
SchedulerIsr ==
  /\ cpu = "thread"
  /\ cpu' = "isr"
  /\ self_irq' = FALSE
  /\ UNCHANGED <<links, state, running, inKernel, yield_await,
                 enqueued_by_signal, sigVars, parent, victims, after, ctx, regs>>

NextThread_Head == IF links.next[ListHead] # ListHead THEN links.next[ListHead] ELSE Idle

\* "switch to the next thread"
NextThread ==
  LET n == IF running = Idle THEN Null ELSE links.next[running] IN
  IF n \notin {Null, ListHead} THEN n
  ELSE IF links.next[ListHead] # ListHead THEN links.next[ListHead]
  ELSE Idle

\* "copy the saved registers into the current thread"
SaveRegisters == [ctx EXCEPT ![running] = regs]

\* From the label retry to the SIGCONT test: save the registers of the
\* current thread, choose the next one and make it current.
IsrSwitch ==
  /\ cpu = "isr"
  /\ LET n == NextThread
         saved == [state EXCEPT ![running] = IF @ = "RUNNING" THEN "READY" ELSE @]
     IN  /\ saved[n] \notin {"BLOCKED", "ZOMBIE"}
         /\ running' = n
         /\ state' = [saved EXCEPT ![n] = IF @ = "STOPPED" /\ n # Idle
                                             /\ enqueued_by_signal[n] = "CONT"
                                          THEN "READY" ELSE @]
  /\ yield_await' = [yield_await EXCEPT ![running] = FALSE]
  /\ ctx' = SaveRegisters
  /\ cpu' = "picked"
  /\ UNCHANGED <<links, self_irq, inKernel, enqueued_by_signal, sigVars,
                 parent, victims, after, regs>>

\* A thread in user mode with entering_signal set dispatches its signal.
IsrSignal ==
  /\ cpu = "picked"
  /\ \/ /\ running # Idle /\ ~inKernel[running] /\ entering_signal[running]
        /\ dispatch_pending_signal(running, KState, "check")
     \/ /\ running # Idle => inKernel[running] \/ ~entering_signal[running]
        /\ cpu' = "check"
        /\ UNCHANGED <<links, state, enqueued_by_signal, sigVars, victims, after>>
  /\ UNCHANGED <<running, self_irq, inKernel, yield_await, parent, ctx, regs>>

\* goto retry, or load the registers and leave the interrupt.
IsrLeave ==
  /\ cpu = "check"
  /\ \/ /\ state[running] \in {"ZOMBIE", "STOPPED"}
        /\ cpu' = "isr"
        /\ UNCHANGED <<state, regs>>
     \/ /\ state[running] \notin {"ZOMBIE", "STOPPED"}
        /\ state' = [state EXCEPT ![running] = "RUNNING"]
        /\ regs' = ctx[running]
        /\ cpu' = "thread"
  /\ UNCHANGED <<links, running, self_irq, inKernel, yield_await,
                 enqueued_by_signal, sigVars, parent, victims, after, ctx>>

-----------------------------------------------------------------------------
SyscallEnds(t) == SyscallReturn(t) \/ EventWait(t) \/ Exit(t, TRUE) \/ Exit(t, FALSE)

KernelStep ==
  \/ DeviceIrqReturn \/ ReapDone \/ IsrSwitch \/ IsrSignal \/ IsrLeave
  \/ \E t \in Threads : Reap(t)

Next ==
  \/ \E t \in Threads : \/ SyscallEnter(t) \/ SyscallEnds(t) \/ YieldReturn(t)
                        \/ EnqueueThread(t) \/ Exception(t)
                        \/ \E u \in Threads : Clone(t, u)
                        \/ \E sig \in Sigs : SendSignal(t, sig)
  \/ DeviceIrq \/ SchedulerIsr \/ KernelStep

Spec == Init /\ [][Next]_vars

(* Kernel code with interrupts disabled runs to its end, a spinning yield()  *)
(* leaves its loop, and the timer or self interrupt stays pending in the     *)
(* local APIC until it is taken.                                             *)
Fairness ==
  /\ WF_vars(KernelStep)
  /\ WF_vars(\E t \in Threads : SyscallEnds(t))
  /\ SF_vars(SchedulerIsr)

FairSpec == Spec /\ Fairness

-----------------------------------------------------------------------------
(* Properties *)

States == {"NONE", "READY", "RUNNING", "BLOCKED", "STOPPED", "ZOMBIE"}

\* Every variable keeps the type the code gives it.
TypeOK ==
  /\ links \in [next : [Nodes -> Nodes \cup {Null}],
                prev : [Nodes -> Nodes \cup {Null}]]
  /\ state \in [Threads \cup {Idle} -> States]
  /\ running \in Threads \cup {Idle}
  /\ cpu \in {"thread", "syscall", "irq", "reap", "isr", "picked", "check"}
  /\ self_irq \in BOOLEAN
  /\ inKernel \in [Threads -> BOOLEAN]
  /\ yield_await \in [Threads \cup {Idle} -> BOOLEAN]
  /\ enqueued_by_signal \in [Threads -> AllSigs \cup {NoSig}]
  /\ pending_signals \in [Threads -> SUBSET AllSigs]
  /\ entering_signal \in [Threads -> BOOLEAN]
  /\ parent \in [Procs -> Procs]
  /\ victims \subseteq Threads
  /\ after \in {"none", "yield", "check", "thread"}
  /\ ctx \in [Threads \cup {Idle} -> Threads \cup {Idle}]
  /\ regs \in Threads \cup {Idle}

\* S are exactly the linked threads, the pointers of the list agree, and from
\* every member next leads to the head (no set of members is closed under it).
WellLinked(l, S) ==
  /\ \A x \in S \cup {ListHead} : /\ l.next[x] \in S \cup {ListHead}
                              /\ l.prev[x] \in S \cup {ListHead}
                              /\ l.prev[l.next[x]] = x
                              /\ l.next[l.prev[x]] = x
  /\ \A x \in Threads \ S : l.next[x] = Null /\ l.prev[x] = Null
  /\ \A C \in SUBSET S : (\A x \in C : l.next[x] \in C) => C = {}

OnRunList == {t \in Threads : state[t] \in {"READY", "RUNNING"} \/ Continued(t)}

\* The run list is a well formed circular list of exactly the threads that can
\* run: no interleaving of waits, wake-ups, stops, continues and terminations
\* loses a thread, links one twice or leaves a dead one (sched.cpp 626-670).
RunListInv == WellLinked(links, OnRunList)

\* scheduler_isr's ASSERT: the thread it switches to is neither blocked nor a
\* zombie (sched.cpp 734).
SwitchesToRunnable ==
  cpu = "isr" => state[NextThread] \notin {"BLOCKED", "ZOMBIE"}

\* dequeue_thread's ASSERT: a thread that makes a system call that may wait is
\* ready or running (sched.cpp 628).
WaiterIsRunnable == cpu = "syscall" => state[running] \in {"READY", "RUNNING"}

\* "copy the saved registers into the current thread" (sched.cpp 714): a thread
\* always goes on with its own registers, never with another thread's.
OwnRegisters == cpu = "thread" => regs = running

\* A thread leaves yield() only when it was switched to again: one whose
\* Event::wait put it to sleep returns after an enqueue_thread and spins between
\* dequeue_thread and the switch (sched.cpp 690-701), and one that exited never
\* reaches the klib::unreachable() after its last yield() (sched.cpp 686-687).
YieldWaitsForSwitch ==
  /\ \A t \in Threads : state[t] = "BLOCKED" => inKernel[t]
  /\ cpu = "thread" /\ running \in Threads /\ state[running] \in {"BLOCKED", "ZOMBIE"}
       => yield_await[running] /\ self_irq

\* A thread goes on where it stopped: with its own registers, never with another
\* thread's, and out of yield() only when it was switched to again (sched.cpp
\* 690-701, 714).
GoesOnWhereItStopped == OwnRegisters /\ YieldWaitsForSwitch

\* Every thread that is put on the run list is eventually taken by scheduler_isr
\* or terminated, although the search for the next thread starts over at the
\* head whenever the running thread has left the list (sched.cpp 727-732).
ReadyEventuallyRuns ==
  \A t \in Threads : state[t] = "READY" ~> state[t] # "READY"

-----------------------------------------------------------------------------
(* The inductive strengthening of RunListInv *)

\* Job control is used so that a continued thread runs before it is continued
\* again or terminated: no stop signals at all, or one thread per process and
\* no second SIGCONT.
JobControlSafe ==
  "STOP" \in Sigs => /\ ContOnce
                     /\ \A t, u \in Threads : ProcOf[t] = ProcOf[u] => t = u

\* Where the core is and what state the running thread can have there.
RunningState ==
  /\ state[Idle] \in {"READY", "RUNNING"}
  /\ cpu \in {"thread", "irq"} /\ running # Idle =>
       \/ state[running] = "RUNNING"
       \/ /\ inKernel[running] /\ yield_await[running]
          /\ state[running] \in {"READY", "BLOCKED", "ZOMBIE"}
  /\ cpu = "syscall" => /\ running # Idle /\ inKernel[running]
                        /\ state[running] = "RUNNING"
  /\ cpu = "picked" => state[running] \in {"READY", "RUNNING"}
  /\ cpu = "check" => state[running] \notin {"NONE", "BLOCKED"}
  /\ cpu = "reap" => /\ running # Idle
                     /\ state[running] \in {"READY", "RUNNING", "ZOMBIE"}
                     /\ \A v \in victims : state[v] # "STOPPED"
                     /\ after \in {"yield", "check"}
                     /\ after = "yield" => inKernel[running]

\* Without stop signals no thread is ever stopped.
NoStops ==
  "STOP" \notin Sigs => \A t \in Threads : /\ state[t] # "STOPPED"
                                           /\ "STOP" \notin pending_signals[t]

\* The run list, the running thread's state and the stopped threads together
\* are preserved by every step; this is what makes scheduler_isr's choice of
\* the next thread sound (sched.cpp 707-782).
SchedulerInv == TypeOK /\ RunListInv /\ RunningState /\ NoStops
=============================================================================
