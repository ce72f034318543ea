------------------------------- MODULE Timers -------------------------------
(***************************************************************************)
(* sched::Timer (sched/time.cpp), driven by the APIC timer's interrupt:    *)
(* clock_nanosleep, whose timer lies on the sleeper's kernel stack, and    *)
(* the process's itimer_real, whose callback sends SIGALRM.  A timer is on *)
(* the list of armed timers and on the list of the thread that armed it.   *)
(* The unit of time is the microsecond that the interrupt handler counts;  *)
(* itimer_real.event has no waiters and is left out.                       *)
(***************************************************************************)
EXTENDS WaitOps, TimeSpec

CONSTANTS
  Main,              \* the thread of main; Threads are those of one process
  itimer,            \* the name of itimer_real
  Null,
  Durations,         \* what threads ask for, TimeSpecs
  Intervals,         \* the interval of itimer_real
  Tick               \* the oneshot interval of the APIC timer

ASSUME TimersAssumption ==
  /\ Main \in Threads /\ itimer \notin Threads /\ Null \notin Threads
  /\ Tick \in Nat \ {0}
  /\ Durations \subseteq TimeSpecs /\ Intervals \subseteq TimeSpecs

\* A nanosleep's timer has the name of its thread.
Timer == Threads \cup {itimer}

VARIABLES
  w,                    \* event and thread states, see WaitOps
  remaining, interval,  \* [timer -> TimeSpec]
  fired,                \* [timer -> BOOLEAN]
  armed,                \* armed_timers_list
  owner,                \* [timer -> the thread on whose list it is, or Null]
  mapped,               \* threads whose kernel stack is mapped
  reaped,               \* the process is deleted
  since,                \* time since the last interrupt
  due                   \* [timer -> time until it should fire]

tvars == <<remaining, interval, fired, armed, owner, due>>
vars == <<w, remaining, interval, fired, armed, owner, mapped, reaped, since, due>>

Init ==
  /\ w = WaitState(Threads, Threads)
  /\ remaining = [x \in Timer |-> Zero]
  /\ interval = [x \in Timer |-> Zero]
  /\ fired = [x \in Timer |-> FALSE]
  /\ armed = {}
  /\ owner = [x \in Timer |-> Null]
  /\ mapped = Threads
  /\ reaped = FALSE
  /\ since = 0
  /\ due = [x \in Timer |-> 0]

\* Timer::arm by thread t.
arm(t, x, d) ==
  /\ remaining' = [remaining EXCEPT ![x] = d]
  /\ fired' = [fired EXCEPT ![x] = FALSE]
  /\ owner' = [owner EXCEPT ![x] = t]
  /\ armed' = armed \cup {x}
  /\ due' = [due EXCEPT ![x] = Nanos(d)]

\* Timer::disarm of every timer of X.
disarm(X) ==
  /\ remaining' = [x \in Timer |-> IF x \in X THEN Zero ELSE remaining[x]]
  /\ interval' = [x \in Timer |-> IF x \in X THEN Zero ELSE interval[x]]
  /\ owner' = [x \in Timer |-> IF x \in X THEN Null ELSE owner[x]]
  /\ armed' = armed \ X

\* clock_nanosleep_impl; with a signal pending it is all over in one step.
Nanosleep(t, d) ==
  /\ w.state[t] = "active" /\ CanSleep(w, t, <<t>>)
  /\ arm(t, t, d)
  /\ w' = sleep(w, t, <<t>>)
  /\ UNCHANGED <<interval, mapped, reaped, since>>

\* A bug: the timer is left on the list.
NanosleepReturns_Armed(t) ==
  /\ w.state[t] = "READY"
  /\ w' = drain(settled(resume(w, t), t), t)
  /\ UNCHANGED <<tvars, mapped, reaped, since>>

\* The wait is over: 0, or EINTR if a signal came first.
NanosleepReturns(t) ==
  /\ w.state[t] = "READY"
  /\ disarm({t})
  /\ w' = drain(settled(resume(w, t), t), t)
  /\ fired' = [fired EXCEPT ![t] = FALSE]
  /\ due' = [due EXCEPT ![t] = 0]
  /\ UNCHANGED <<mapped, reaped, since>>

\* setitimer_impl by any thread of the process.
Setitimer(t, value, i) ==
  /\ w.state[t] = "active"
  /\ IF value = Zero
     THEN disarm({itimer}) /\ UNCHANGED fired /\ due' = [due EXCEPT ![itimer] = 0]
     ELSE arm(t, itimer, value) /\ interval' = [interval EXCEPT ![itimer] = i]
  /\ UNCHANGED <<w, mapped, reaped, since>>

TimePasses ==
  /\ since < Tick
  /\ since' = since + 1
  /\ due' = [x \in Timer |-> IF due[x] = 0 THEN 0 ELSE due[x] - 1]
  /\ UNCHANGED <<w, remaining, interval, fired, armed, owner, mapped, reaped>>

\* update_time in the APIC timer's interrupt, which comes when the oneshot runs
\* out and whenever a thread yields.
Ticking == {x \in armed : ~fired[x]}
Left(x) == Minus(remaining[x], FromNanos(since))
RunOut == {x \in Ticking : Left(x) = Zero}
OneShot == {x \in RunOut : interval[x] = Zero}
\* The sleepers that the timers' events wake.
\* A bug: the event is triggered in the branch of the periodic timers.
Woken_Periodic == {t \in Threads \cap (RunOut \ OneShot) : w.state[t] = "BLOCKED"}
Woken == {t \in Threads \cap OneShot : w.state[t] = "BLOCKED"}

update_time(masked) ==
  /\ remaining' = [x \in Timer |->
        IF x \in RunOut \ OneShot THEN interval[x]
        ELSE IF x \in Ticking THEN Left(x) ELSE remaining[x]]
  /\ fired' = [x \in Timer |-> fired[x] \/ x \in OneShot]
  /\ armed' = armed \ OneShot
  /\ LET s == [w EXCEPT !.state = [t \in Threads |->
                                     IF t \in Woken THEN "READY" ELSE @[t]],
                        !.enq = [t \in Threads |-> IF t \in Woken THEN FALSE ELSE @[t]],
                        !.which = [t \in Threads |-> IF t \in OneShot THEN 1 ELSE @[t]]]
     IN  w' = IF itimer \in RunOut THEN signal(s, Main, masked) ELSE s
  /\ due' = [x \in Timer |->
        IF x \in RunOut \ OneShot THEN Nanos(interval[x]) ELSE due[x]]
  /\ UNCHANGED <<interval, owner>>

Interrupt(masked) ==
  /\ since' = 0
  /\ update_time(masked)
  /\ UNCHANGED <<mapped, reaped>>

SendSignal(t, masked) ==
  /\ w.state[t] # "ZOMBIE"
  /\ w' = signal(w, t, masked)
  /\ UNCHANGED <<tvars, mapped, reaped, since>>

DispatchSignal(t) ==
  /\ w.state[t] = "active" /\ w.sig[t]
  /\ w' = dispatch(w, t)
  /\ UNCHANGED <<tvars, mapped, reaped, since>>

\* syscall_exit of one thread, exit_group or a fatal signal for all.
Terminate(T) ==
  /\ \E t \in T : w.state[t] # "ZOMBIE"
  /\ w' = [w EXCEPT !.state = [t \in Threads |-> IF t \in T THEN "ZOMBIE" ELSE @[t]]]
  /\ UNCHANGED <<tvars, mapped, reaped, since>>

\* ~Thread of every thread, then ~Timer of itimer_real, in ~Process.
Owned(T) == {x \in Timer : owner[x] \in T}

DeleteProcess ==
  /\ ~reaped /\ \A t \in Threads : w.state[t] = "ZOMBIE"
  /\ w' = [w EXCEPT !.listeners = [e \in Threads |-> {}]]
  /\ disarm(Owned(Threads) \cup {itimer})
  /\ mapped' = {}
  /\ reaped' = TRUE
  /\ UNCHANGED <<fired, since, due>>

ThreadStep(t) ==
  \/ \E d \in Durations : Nanosleep(t, d)
  \/ \E d \in Durations \cup {Zero}, i \in Intervals \cup {Zero} : Setitimer(t, d, i)
  \/ \E masked \in BOOLEAN : SendSignal(t, masked)
  \/ NanosleepReturns(t) \/ DispatchSignal(t)
  \/ w.state[t] = "active" /\ Terminate({t})

Next ==
  \/ \E t \in Threads : ThreadStep(t)
  \/ TimePasses
  \/ \E masked \in BOOLEAN : Interrupt(masked)
  \/ Terminate(Threads)
  \/ DeleteProcess

Spec == Init /\ [][Next]_vars

\* The hardware counts on and interrupts when the oneshot has run out.
OneshotInterrupt == since = Tick /\ \E masked \in BOOLEAN : Interrupt(masked)

FairSpec == Spec /\ WF_vars(TimePasses) /\ WF_vars(OneshotInterrupt)

-----------------------------------------------------------------------------
\* ASSERT(timer.fired) in clock_nanosleep_impl (time.cpp 134): a sleep that does
\* not end with EINTR ends because its timer fired, whatever signals came in the
\* meantime and in whichever order.
FiredWhenWoken ==
  \A t \in Threads : w.state[t] = "READY" /\ ~Interrupted(w, t) => fired[t]

\* Every timer that is armed belongs to something that is there: whatever the
\* interrupt handler finds on the list of armed timers is the stack of a thread that
\* is not deleted, with the thread still inside clock_nanosleep, or the timer of a
\* process that is not reaped (time.cpp's lists of armed timers).
TimersBelong ==
  \A x \in armed :
     /\ owner[x] # Null
     /\ x = itimer => ~reaped
     /\ x \in Threads => x \in mapped /\ w.state[x] # "active" /\ owner[x] = x

\* A timer never has more left, by its own count, than it really has and what
\* the next interrupt will take off: it fires at the first interrupt at which it
\* is due, and a periodic one does not fall further behind than one interrupt.
NeverLate ==
  \A x \in Ticking : Nanos(remaining[x]) <= due[x] + since

\* A sleep that does not end with EINTR ends because its timer fired, as
\* ASSERT(timer.fired) says, and the timer fires at the first interrupt at which it
\* is due, whatever signals and other timers do in between (time.cpp 64-67, 134).
SleepsInTime == FiredWhenWoken /\ NeverLate

\* Every clock_nanosleep ends, whatever other timers and signals do (time.cpp 64-67).
NanosleepEnds ==
  \A t \in Threads : w.state[t] = "BLOCKED" ~> w.state[t] # "BLOCKED"
=============================================================================
