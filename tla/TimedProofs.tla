---------------------------- MODULE TimedProofs ----------------------------
(***************************************************************************)
(* Proofs for the calls that sleep on timers, nanosleep and setitimer in   *)
(* Timers and the timed waits of Futex: every sleep is in time, and every  *)
(* armed timer belongs to a call that is there.                            *)
(***************************************************************************)
EXTENDS Timers, WaitOpsProofs

CONSTANTS Words, PageOf, TidWord, Values, WakeCounts, Signals, Exits

VARIABLES k, val, call, timed, owes

F == INSTANCE Futex WITH armed <- timed

-----------------------------------------------------------------------------
(* TimeSpec.                                                               *)

\* A number of nanoseconds as a TimeSpec is as long as it says.
LEMMA FromNanosFacts ==
  ASSUME NEW n \in Nat
  PROVE  FromNanos(n) \in TimeSpecs /\ Nanos(FromNanos(n)) = n
<1>1. n \div Second \in Nat /\ n % Second \in 0..(Second - 1)
  BY SecondAssumption
<1>2. n = Second * (n \div Second) + (n % Second)
  BY SecondAssumption
<1>3. (n \div Second) * Second = Second * (n \div Second)
  BY <1>1, SecondAssumption
<1> QED BY <1>1, <1>2, <1>3, SecondAssumption, Zenon DEF FromNanos, TimeSpecs, Nanos

\* operator -= never leaves more than the difference.
LEMMA MinusFacts ==
  ASSUME NEW x \in TimeSpecs, NEW y \in TimeSpecs
  PROVE  /\ Minus(x, y) \in TimeSpecs
         /\ Minus(x, y) # Zero => Nanos(Minus(x, y)) <= Nanos(x) - Nanos(y)
<1>1. PICK a \in Nat, b \in 0..(Second - 1) : x = [s |-> a, ns |-> b]
  BY Zenon DEF TimeSpecs
<1>2. PICK c \in Nat, d \in 0..(Second - 1) : y = [s |-> c, ns |-> d]
  BY Zenon DEF TimeSpecs
<1>3. Zero \in TimeSpecs
  BY SecondAssumption DEF Zero, TimeSpecs
<1>4. CASE d > b
  <2>1. CASE a = 0 \/ c > a - 1
    BY <1>1, <1>2, <1>3, <1>4, <2>1, Zenon DEF Minus
  <2>2. CASE ~(a = 0 \/ c > a - 1)
    <3>1. Minus(x, y) = [s |-> a - 1 - c, ns |-> Second - 1 - (d - b)]
      BY <1>1, <1>2, <1>4, <2>2, Zenon DEF Minus
    <3>2. a - 1 - c \in Nat /\ Second - 1 - (d - b) \in 0..(Second - 1)
      BY <1>4, <2>2, SecondAssumption
    <3>3. (a - 1 - c) * Second = a * Second - c * Second - Second
      BY SecondAssumption
    <3>4. a * Second \in Int /\ c * Second \in Int
      BY SecondAssumption
    <3>5. Nanos(Minus(x, y)) = (a - 1 - c) * Second + (Second - 1 - (d - b))
      BY <3>1 DEF Nanos
    <3>6. Nanos(x) = a * Second + b /\ Nanos(y) = c * Second + d
      BY <1>1, <1>2, Zenon DEF Nanos
    <3>7. Nanos(Minus(x, y)) <= Nanos(x) - Nanos(y)
      BY <3>3, <3>4, <3>5, <3>6, SecondAssumption
    <3> QED BY <3>1, <3>2, <3>7 DEF TimeSpecs
  <2> QED BY <2>1, <2>2, Zenon
<1>5. CASE ~(d > b)
  <2>1. CASE c > a
    BY <1>1, <1>2, <1>3, <1>5, <2>1, Zenon DEF Minus
  <2>2. CASE ~(c > a)
    <3>1. Minus(x, y) = [s |-> a - c, ns |-> b - d]
      BY <1>1, <1>2, <1>5, <2>2, Zenon DEF Minus
    <3>2. a - c \in Nat /\ b - d \in 0..(Second - 1)
      BY <1>5, <2>2, SecondAssumption
    <3>3. (a - c) * Second = a * Second - c * Second
      BY SecondAssumption
    <3>4. a * Second \in Int /\ c * Second \in Int
      BY SecondAssumption
    <3>5. Nanos(Minus(x, y)) = (a - c) * Second + (b - d)
      BY <3>1 DEF Nanos
    <3>6. Nanos(x) = a * Second + b /\ Nanos(y) = c * Second + d
      BY <1>1, <1>2 DEF Nanos
    <3>7. Nanos(Minus(x, y)) <= Nanos(x) - Nanos(y)
      BY <3>3, <3>4, <3>5, <3>6, SecondAssumption
    <3> QED BY <3>1, <3>2, <3>7 DEF TimeSpecs
  <2> QED BY <2>1, <2>2, Zenon
<1> QED BY <1>4, <1>5, Zenon

\* The length of a TimeSpec is a number.
LEMMA NanosNat ==
  /\ Zero \in TimeSpecs
  /\ \A x \in TimeSpecs : Nanos(x) \in Nat
<1>1. Zero \in TimeSpecs
  BY SecondAssumption DEF Zero, TimeSpecs
<1>2. ASSUME NEW x \in TimeSpecs PROVE Nanos(x) \in Nat
  <2>1. x.s \in Nat /\ x.ns \in Nat
    BY SecondAssumption DEF TimeSpecs
  <2>2. x.s * Second \in Nat
    BY <2>1, SecondAssumption
  <2> QED BY <2>1, <2>2 DEF Nanos
<1> QED BY <1>1, <1>2, Zenon

-----------------------------------------------------------------------------
(* Timers.                                                                 *)

TimersType ==
  /\ IsWait(w, Threads, Threads)
  /\ remaining \in [Timer -> TimeSpecs] /\ interval \in [Timer -> TimeSpecs]
  /\ fired \in [Timer -> BOOLEAN] /\ armed \subseteq Timer
  /\ owner \in [Timer -> Threads \cup {Null}]
  /\ since \in Nat /\ due \in [Timer -> Nat]

\* Nothing is armed, and nobody lives, when the process has been deleted.
Deleted ==
  IF reaped THEN armed = {} /\ \A t \in Threads : w.state[t] = "ZOMBIE" ELSE mapped = Threads

\* An armed timer is on the list of a thread; a sleeper's on its own.
OnLists ==
  \A x \in armed : /\ owner[x] # Null
                   /\ x \in Threads => w.state[x] # "active" /\ owner[x] = x

TimersInv == TimersType /\ Deleted /\ OnLists /\ FiredWhenWoken /\ NeverLate

\* itimer_real is no thread's timer.
LEMMA TimerFacts ==
  /\ Threads \subseteq Timer /\ itimer \in Timer /\ itimer \notin Threads /\ Main \in Threads
  /\ \A x \in Timer : x \in Threads \/ x = itimer
  /\ Null \notin Threads
BY TimersAssumption, Zenon DEF Timer

\* Timer::arm of the timer x.
LEMMA ArmFacts ==
  ASSUME TimersType, NEW t \in Threads, NEW x \in Timer, NEW d \in TimeSpecs, arm(t, x, d)
  PROVE  /\ remaining' \in [Timer -> TimeSpecs] /\ fired' \in [Timer -> BOOLEAN]
         /\ owner' \in [Timer -> Threads \cup {Null}] /\ due' \in [Timer -> Nat]
         /\ armed' = armed \cup {x} /\ armed' \subseteq Timer
         /\ remaining'[x] = d /\ due'[x] = Nanos(d) /\ owner'[x] = t /\ ~fired'[x]
         /\ \A y \in Timer \ {x} :
              /\ remaining'[y] = remaining[y] /\ due'[y] = due[y] /\ owner'[y] = owner[y]
              /\ fired'[y] <=> fired[y]
<1>1. /\ remaining' \in [Timer -> TimeSpecs] /\ remaining'[x] = d
      /\ \A y \in Timer \ {x} : remaining'[y] = remaining[y]
  BY Zenon DEF arm, TimersType
<1>2. /\ due' \in [Timer -> Nat] /\ due'[x] = Nanos(d)
      /\ \A y \in Timer \ {x} : due'[y] = due[y]
  BY NanosNat, Zenon DEF arm, TimersType
<1>3. /\ owner' \in [Timer -> Threads \cup {Null}] /\ owner'[x] = t
      /\ \A y \in Timer \ {x} : owner'[y] = owner[y]
  BY Zenon DEF arm, TimersType
<1>4. /\ fired' \in [Timer -> BOOLEAN] /\ ~fired'[x]
      /\ \A y \in Timer \ {x} : fired'[y] <=> fired[y]
  BY Zenon DEF arm, TimersType
<1>5. armed' = armed \cup {x} /\ armed' \subseteq Timer
  BY Zenon DEF arm, TimersType
<1> QED BY <1>1, <1>2, <1>3, <1>4, <1>5, Zenon

\* Timer::disarm of the timers of X.
LEMMA DisarmFacts ==
  ASSUME TimersType, NEW X, disarm(X)
  PROVE  /\ remaining' \in [Timer -> TimeSpecs] /\ interval' \in [Timer -> TimeSpecs]
         /\ owner' \in [Timer -> Threads \cup {Null}]
         /\ armed' = armed \ X /\ armed' \subseteq Timer
         /\ \A y \in Timer \ X : remaining'[y] = remaining[y] /\ owner'[y] = owner[y]
BY NanosNat, Zenon DEF disarm, TimersType

\* New threads satisfy the invariant.
LEMMA TimersInit == Init => TimersInv
<1> SUFFICES ASSUME Init PROVE TimersInv
  BY Zenon
<1>1. /\ IsWait(w, Threads, Threads) /\ \A t \in Threads : w.state[t] = "active"
  <2>1. w = WaitState(Threads, Threads)
    BY Zenon DEF Init
  <2>2. Fresh(w, Threads, Threads)
    BY <2>1, NewWait, Zenon
  <2> QED BY <2>2, Zenon DEF Fresh
<1>2. TimersType
  BY <1>1, NanosNat, Zenon DEF Init, TimersType
<1> QED BY <1>1, <1>2, Zenon DEF Init, TimersInv, Deleted, OnLists, FiredWhenWoken, NeverLate, Ticking

\* What a step may do to the threads while the timers stay as they are.
ThreadsOnly ==
  /\ IsWait(w', Threads, Threads)
  /\ \A t \in Threads :
       /\ w.state[t] = "ZOMBIE" => w'.state[t] = "ZOMBIE"
       /\ w'.state[t] = "active" => w.state[t] = "active"
       /\ w'.state[t] = "READY" /\ ~w'.enq[t] => w.state[t] = "READY" /\ ~w.enq[t]

\* Such a step preserves the invariant.
LEMMA TimersUntouched ==
  ASSUME TimersInv, ThreadsOnly, UNCHANGED <<tvars, mapped, reaped, since>>
  PROVE  TimersInv'
<1> USE DEF tvars
<1>1. TimersType'
  BY Zenon DEF TimersInv, TimersType, ThreadsOnly
<1>2. Deleted'
  BY Zenon DEF TimersInv, Deleted, ThreadsOnly
<1>3. OnLists'
  BY Zenon DEF TimersInv, OnLists, ThreadsOnly
<1>4. FiredWhenWoken'
  BY Zenon DEF TimersInv, FiredWhenWoken, ThreadsOnly, Interrupted
<1>5. NeverLate'
  BY Zenon DEF TimersInv, NeverLate, Ticking
<1> QED BY <1>1, <1>2, <1>3, <1>4, <1>5, Zenon DEF TimersInv

\* clock_nanosleep arms the thread's own timer and sleeps.
LEMMA StepNanosleep ==
  ASSUME TimersInv, NEW t \in Threads, NEW d \in Durations, Nanosleep(t, d)
  PROVE  TimersInv'
<1>1. /\ arm(t, t, d) /\ w' = sleep(w, t, <<t>>) /\ UNCHANGED <<interval, mapped, reaped, since>>
      /\ w.state[t] = "active"
  BY Zenon DEF Nanosleep
<1>2. TimersType /\ t \in Timer /\ d \in TimeSpecs
  BY TimerFacts, TimersAssumption, Zenon DEF TimersInv
<1>3. /\ remaining' \in [Timer -> TimeSpecs] /\ fired' \in [Timer -> BOOLEAN]
      /\ owner' \in [Timer -> Threads \cup {Null}] /\ due' \in [Timer -> Nat]
      /\ armed' = armed \cup {t} /\ armed' \subseteq Timer
      /\ remaining'[t] = d /\ due'[t] = Nanos(d) /\ owner'[t] = t /\ ~fired'[t]
      /\ \A y \in Timer \ {t} :
           /\ remaining'[y] = remaining[y] /\ due'[y] = due[y] /\ owner'[y] = owner[y]
           /\ fired'[y] <=> fired[y]
  BY <1>1, <1>2, ArmFacts, Zenon
<1>4. PICK r : r = w'
  BY Zenon
<1>5. IsWait(w, Threads, Threads) /\ r = sleep(w, t, <<t>>)
  BY <1>1, <1>2, <1>4, Zenon DEF TimersType
<1>6. Slept(w, r, t, t, Threads, Threads)
  BY <1>5, SleepFacts, Zenon
<1>7. TimersType'
  BY <1>1, <1>2, <1>3, <1>4, <1>6, Zenon DEF TimersType, Slept
<1>8. Deleted'
  BY <1>1, Zenon DEF TimersInv, Deleted
<1>9. OnLists'
  <2> SUFFICES ASSUME NEW x \in armed'
               PROVE  owner'[x] # Null /\ (x \in Threads => w'.state[x] # "active" /\ owner'[x] = x)
    BY Zenon DEF OnLists
  <2>1. CASE x = t
    BY <1>3, <1>4, <1>6, <2>1, TimerFacts, Zenon DEF Slept
  <2>2. CASE x # t
    <3>1. x \in armed /\ x \in Timer /\ owner'[x] = owner[x]
      BY <1>3, <2>2, Zenon
    <3> QED BY <1>4, <1>6, <2>2, <3>1, Zenon DEF TimersInv, OnLists, Slept
  <2> QED BY <2>1, <2>2, Zenon
<1>10. FiredWhenWoken'
  BY <1>3, <1>4, <1>6, TimerFacts, Zenon DEF TimersInv, FiredWhenWoken, Interrupted, Slept
<1>11. NeverLate'
  <2> SUFFICES ASSUME NEW x \in armed', ~fired'[x] PROVE Nanos(remaining'[x]) <= due'[x] + since'
    BY Zenon DEF NeverLate, Ticking
  <2>1. since \in Nat /\ Nanos(d) \in Nat
    BY <1>2, NanosNat, Zenon DEF TimersType
  <2>2. CASE x = t
    BY <1>1, <1>3, <2>1, <2>2
  <2>3. CASE x # t
    BY <1>1, <1>3, <2>3, Zenon DEF TimersInv, NeverLate, Ticking
  <2> QED BY <2>2, <2>3, Zenon
<1> QED BY <1>7, <1>8, <1>9, <1>10, <1>11, Zenon DEF TimersInv

\* clock_nanosleep disarms the timer and returns.
LEMMA StepReturns ==
  ASSUME TimersInv, NEW t \in Threads, NanosleepReturns(t)
  PROVE  TimersInv'
<1>1. /\ disarm({t}) /\ w' = drain(settled(resume(w, t), t), t) /\ w.state[t] = "READY"
      /\ fired' = [fired EXCEPT ![t] = FALSE] /\ due' = [due EXCEPT ![t] = 0]
      /\ UNCHANGED <<mapped, reaped, since>>
  BY Zenon DEF NanosleepReturns
<1>2. TimersType /\ t \in Timer
  BY TimerFacts, Zenon DEF TimersInv
<1>3. /\ remaining' \in [Timer -> TimeSpecs] /\ interval' \in [Timer -> TimeSpecs]
      /\ owner' \in [Timer -> Threads \cup {Null}]
      /\ armed' = armed \ {t} /\ armed' \subseteq Timer
      /\ \A y \in Timer \ {t} : remaining'[y] = remaining[y] /\ owner'[y] = owner[y]
  BY <1>1, <1>2, DisarmFacts, Zenon
<1>4. /\ fired' \in [Timer -> BOOLEAN] /\ \A y \in Timer \ {t} : fired'[y] <=> fired[y]
  BY <1>1, <1>2, Zenon DEF TimersType
<1>5. /\ due' \in [Timer -> Nat] /\ \A y \in Timer \ {t} : due'[y] = due[y]
  BY <1>1, <1>2, Zenon DEF TimersType
<1>6. PICK v : v = settled(resume(w, t), t)
  BY Zenon
<1>7. IsWait(w, Threads, Threads)
  BY <1>2, Zenon DEF TimersType
<1>8. Returned(w, v, t, Threads, Threads)
  BY <1>6, <1>7, ReturnFacts, Zenon
<1>9. PICK r : r = drain(v, t)
  BY Zenon
<1>10. IsWait(v, Threads, Threads) /\ w' = r
  BY <1>1, <1>6, <1>8, <1>9, Zenon DEF Returned
<1>11. IsWait(r, Threads, Threads) /\ r.state = v.state /\ r.enq = v.enq
  BY <1>9, <1>10, DrainFacts
<1>12. /\ \A u \in Threads : /\ r.state[u] = IF u = t THEN "active" ELSE w.state[u]
                             /\ r.enq[u] <=> u # t /\ w.enq[u]
  BY <1>8, <1>11, Zenon DEF Returned
<1>13. TimersType'
  BY <1>1, <1>2, <1>3, <1>4, <1>5, <1>10, <1>11, Zenon DEF TimersType
<1>14. Deleted'
  BY <1>1, Zenon DEF TimersInv, Deleted
<1>15. OnLists'
  BY <1>3, <1>10, <1>12, Zenon DEF TimersInv, OnLists
<1>16. FiredWhenWoken'
  BY <1>4, <1>10, <1>12, TimerFacts, Zenon DEF TimersInv, FiredWhenWoken, Interrupted
<1>17. NeverLate'
  BY <1>1, <1>3, <1>4, <1>5, Zenon DEF TimersInv, NeverLate, Ticking
<1> QED BY <1>13, <1>14, <1>15, <1>16, <1>17, Zenon DEF TimersInv

\* setitimer arms or disarms itimer_real.
LEMMA StepSetitimer ==
  ASSUME TimersInv, NEW t \in Threads, NEW d \in Durations \cup {Zero},
         NEW i \in Intervals \cup {Zero}, Setitimer(t, d, i)
  PROVE  TimersInv'
<1>1. TimersType /\ itimer \in Timer /\ itimer \notin Threads /\ d \in TimeSpecs /\ i \in TimeSpecs
  BY TimerFacts, NanosNat, TimersAssumption, Zenon DEF TimersInv
<1>2. w.state[t] = "active" /\ UNCHANGED <<w, mapped, reaped, since>>
  BY Zenon DEF Setitimer
<1>3. CASE d = Zero
  <2>1. disarm({itimer}) /\ UNCHANGED fired /\ due' = [due EXCEPT ![itimer] = 0]
    BY <1>3, Zenon DEF Setitimer
  <2>2. /\ remaining' \in [Timer -> TimeSpecs] /\ interval' \in [Timer -> TimeSpecs]
        /\ owner' \in [Timer -> Threads \cup {Null}]
        /\ armed' = armed \ {itimer} /\ armed' \subseteq Timer
        /\ \A y \in Timer \ {itimer} : remaining'[y] = remaining[y] /\ owner'[y] = owner[y]
    BY <1>1, <2>1, DisarmFacts, Zenon
  <2>3. /\ due' \in [Timer -> Nat] /\ \A y \in Timer \ {itimer} : due'[y] = due[y]
    BY <1>1, <2>1, Zenon DEF TimersType
  <2>4. TimersType'
    BY <1>1, <1>2, <2>1, <2>2, <2>3, Zenon DEF TimersType
  <2>5. Deleted' /\ FiredWhenWoken'
    BY <1>2, <2>1, <2>2, Zenon DEF TimersInv, Deleted, FiredWhenWoken, Interrupted
  <2>6. OnLists' /\ NeverLate'
    BY <1>2, <2>1, <2>2, <2>3, Zenon DEF TimersInv, OnLists, NeverLate, Ticking
  <2> QED BY <2>4, <2>5, <2>6, Zenon DEF TimersInv
<1>4. CASE d # Zero
  <2>1. arm(t, itimer, d) /\ interval' = [interval EXCEPT ![itimer] = i]
    BY <1>4, Zenon DEF Setitimer
  <2>2. /\ remaining' \in [Timer -> TimeSpecs] /\ fired' \in [Timer -> BOOLEAN]
        /\ owner' \in [Timer -> Threads \cup {Null}] /\ due' \in [Timer -> Nat]
        /\ armed' = armed \cup {itimer} /\ armed' \subseteq Timer
        /\ remaining'[itimer] = d /\ due'[itimer] = Nanos(d) /\ owner'[itimer] = t /\ ~fired'[itimer]
        /\ \A y \in Timer \ {itimer} :
             /\ remaining'[y] = remaining[y] /\ due'[y] = due[y] /\ owner'[y] = owner[y]
             /\ fired'[y] <=> fired[y]
    BY <1>1, <2>1, ArmFacts, Zenon
  <2>3. TimersType'
    <3>1. interval' \in [Timer -> TimeSpecs]
      BY <1>1, <2>1, Zenon DEF TimersType
    <3> QED BY <1>1, <1>2, <2>2, <3>1, Zenon DEF TimersType
  <2>4. Deleted'
    BY <1>2, Zenon DEF TimersInv, Deleted
  <2>5. OnLists'
    BY <1>1, <1>2, <2>2, TimerFacts DEF TimersInv, OnLists
  <2>6. FiredWhenWoken'
    BY <1>1, <1>2, <2>2, TimerFacts, Zenon DEF TimersInv, FiredWhenWoken, Interrupted
  <2>7. NeverLate'
    <3> SUFFICES ASSUME NEW x \in armed', ~fired'[x] PROVE Nanos(remaining'[x]) <= due'[x] + since'
      BY Zenon DEF NeverLate, Ticking
    <3>1. since \in Nat /\ Nanos(d) \in Nat
      BY <1>1, NanosNat, Zenon DEF TimersType
    <3>2. CASE x = itimer
      BY <1>2, <2>2, <3>1, <3>2
    <3>3. CASE x # itimer
      BY <1>2, <2>2, <3>3, Zenon DEF TimersInv, NeverLate, Ticking
    <3> QED BY <3>2, <3>3, Zenon
  <2> QED BY <2>3, <2>4, <2>5, <2>6, <2>7, Zenon DEF TimersInv
<1> QED BY <1>3, <1>4, Zenon

\* The clock runs.
LEMMA StepTimePasses ==
  ASSUME TimersInv, TimePasses
  PROVE  TimersInv'
<1>1. /\ since' = since + 1 /\ due' = [x \in Timer |-> IF due[x] = 0 THEN 0 ELSE due[x] - 1]
      /\ UNCHANGED <<w, remaining, interval, fired, armed, owner, mapped, reaped>>
  BY Zenon DEF TimePasses
<1>2. TimersType
  BY Zenon DEF TimersInv
<1>3. /\ due' \in [Timer -> Nat] /\ since' \in Nat
      /\ \A x \in Timer : due[x] + since <= due'[x] + since'
  BY <1>1, <1>2 DEF TimersType
<1>4. TimersType'
  BY <1>1, <1>2, <1>3, Zenon DEF TimersType
<1>5. Deleted' /\ OnLists' /\ FiredWhenWoken'
  BY <1>1, Zenon DEF TimersInv, Deleted, OnLists, FiredWhenWoken, Interrupted
<1>6. NeverLate'
  <2> SUFFICES ASSUME NEW x \in armed, ~fired[x] PROVE Nanos(remaining[x]) <= due'[x] + since'
    BY <1>1, Zenon DEF NeverLate, Ticking
  <2>1. x \in Timer /\ Nanos(remaining[x]) \in Nat /\ due[x] \in Nat /\ since \in Nat
    BY <1>2, NanosNat, Zenon DEF TimersType
  <2>2. Nanos(remaining[x]) <= due[x] + since /\ due'[x] \in Nat
    BY <1>3, <2>1, Zenon DEF TimersInv, NeverLate, Ticking
  <2> QED BY <1>3, <2>1, <2>2
<1> QED BY <1>4, <1>5, <1>6, Zenon DEF TimersInv

\* What the timers that run out do to the threads: the sleepers among them wake,
\* and SIGALRM wakes the main thread with a note of why.
Expired(s, r) ==
  /\ IsWait(r, Threads, Threads)
  /\ \A t \in Threads :
       /\ s.state[t] = "ZOMBIE" => r.state[t] = "ZOMBIE"
       /\ r.state[t] = "active" => s.state[t] = "active"
       /\ r.state[t] = "READY" /\ ~r.enq[t] =>
            t \in OneShot \/ (s.state[t] = "READY" /\ ~s.enq[t])

expire(s, W, wh) ==
  [s EXCEPT !.state = [t \in Threads |-> IF t \in W THEN "READY" ELSE @[t]],
            !.enq = [t \in Threads |-> IF t \in W THEN FALSE ELSE @[t]],
            !.which = wh]

LEMMA ExpiredFacts ==
  ASSUME NEW s, IsWait(s, Threads, Threads), NEW W, W \subseteq OneShot,
         \A t \in W \cap Threads : s.state[t] = "BLOCKED", NEW wh \in [Threads -> Nat],
         NEW r, r = expire(s, W, wh)
  PROVE  Expired(s, r)
<1> DEFINE st == [t \in Threads |-> IF t \in W THEN "READY" ELSE s.state[t]]
           en == [t \in Threads |-> IF t \in W THEN FALSE ELSE s.enq[t]]
<1>1. r = [s EXCEPT !.state = st, !.enq = en, !.which = wh]
  BY Zenon DEF expire
<1>2. st \in [Threads -> ThreadStates]
  BY Zenon DEF IsWait, ThreadStates
<1>3. en \in [Threads -> BOOLEAN]
  BY Zenon DEF IsWait
<1>4. \A t \in Threads : /\ st[t] = IF t \in W THEN "READY" ELSE s.state[t]
                         /\ en[t] <=> t \notin W /\ s.enq[t]
  BY Zenon
<1> HIDE DEF st, en
<1>5. r.state = st /\ r.enq = en
  BY <1>1, Zenon DEF IsWait
<1>6. IsWait(r, Threads, Threads)
  BY <1>1, <1>2, <1>3, Zenon DEF IsWait
<1>7. ASSUME NEW t \in Threads
      PROVE  /\ s.state[t] = "ZOMBIE" => r.state[t] = "ZOMBIE"
             /\ r.state[t] = "active" => s.state[t] = "active"
             /\ r.state[t] = "READY" /\ ~r.enq[t] =>
                  t \in OneShot \/ (s.state[t] = "READY" /\ ~s.enq[t])
  BY <1>4, <1>5, Zenon
<1> QED BY <1>6, <1>7, Zenon DEF Expired

\* update_time in the interrupt of the APIC timer.
LEMMA StepInterrupt ==
  ASSUME TimersInv, NEW masked \in BOOLEAN, Interrupt(masked)
  PROVE  TimersInv'
<1>1. TimersType
  BY Zenon DEF TimersInv
<1>2. /\ since' = 0 /\ UNCHANGED <<mapped, reaped, interval, owner>> /\ armed' = armed \ OneShot
      /\ remaining' = [x \in Timer |-> IF x \in RunOut \ OneShot THEN interval[x]
                                       ELSE IF x \in Ticking THEN Left(x) ELSE remaining[x]]
      /\ due' = [x \in Timer |-> IF x \in RunOut \ OneShot THEN Nanos(interval[x]) ELSE due[x]]
  BY Zenon DEF Interrupt, update_time
<1>3. /\ fired' \in [Timer -> BOOLEAN]
      /\ \A x \in Timer : fired'[x] <=> fired[x] \/ x \in OneShot
  <2>1. fired' = [x \in Timer |-> fired[x] \/ x \in OneShot]
    BY Zenon DEF Interrupt, update_time
  <2> QED BY <2>1, Zenon
<1>4. IsWait(w, Threads, Threads)
  BY <1>1, Zenon DEF TimersType
<1>5. PICK wh \in [Threads -> Nat] : wh = [t \in Threads |-> IF t \in OneShot THEN 1 ELSE w.which[t]]
  BY <1>4, Zenon DEF IsWait
<1>6. PICK v : v = expire(w, Woken, wh)
  BY Zenon
<1>7. w' = v \/ w' = signal(v, Main, masked)
  BY <1>6, <1>5, Zenon DEF Interrupt, update_time, expire
<1>8. Expired(w, v)
  <2>1. Woken \subseteq OneShot /\ \A t \in Woken \cap Threads : w.state[t] = "BLOCKED"
    BY Zenon DEF Woken
  <2> QED BY <1>6, <1>4, <2>1, ExpiredFacts, Zenon
<1>9. PICK r : r = w'
  BY Zenon
<1>10. Expired(w, r)
  <2>1. CASE r = v
    BY <1>8, <2>1, Zenon
  <2>2. CASE r = signal(v, Main, masked)
    <3>1. IsWait(v, Threads, Threads) /\ Main \in Threads
      BY <1>8, TimerFacts, Zenon DEF Expired
    <3>2. Signalled(v, r, Main, Threads, Threads)
      BY <2>2, <3>1, SignalFacts, Zenon
    <3>3. ASSUME NEW t \in Threads
          PROVE  /\ w.state[t] = "ZOMBIE" => r.state[t] = "ZOMBIE"
                 /\ r.state[t] = "active" => w.state[t] = "active"
                 /\ r.state[t] = "READY" /\ ~r.enq[t] =>
                      t \in OneShot \/ (w.state[t] = "READY" /\ ~w.enq[t])
      <4>1. /\ r.state[t] = IF t = Main /\ v.state[t] = "BLOCKED" THEN "READY" ELSE v.state[t]
            /\ r.enq[t] <=> v.enq[t] \/ (t = Main /\ v.state[t] = "BLOCKED")
        BY <3>2, Zenon DEF Signalled
      <4>2. /\ w.state[t] = "ZOMBIE" => v.state[t] = "ZOMBIE"
            /\ v.state[t] = "active" => w.state[t] = "active"
            /\ v.state[t] = "READY" /\ ~v.enq[t] =>
                 t \in OneShot \/ (w.state[t] = "READY" /\ ~w.enq[t])
        BY <1>8, Zenon DEF Expired
      <4> QED BY <4>1, <4>2, Zenon
    <3>4. IsWait(r, Threads, Threads)
      BY <3>2, Zenon DEF Signalled
    <3> QED BY <3>3, <3>4, Zenon DEF Expired
  <2> QED BY <1>7, <1>9, <2>1, <2>2, Zenon
<1>11. FromNanos(since) \in TimeSpecs /\ Nanos(FromNanos(since)) = since /\ since \in Nat
  BY <1>1, FromNanosFacts, Zenon DEF TimersType
<1>12. ASSUME NEW x \in Ticking
       PROVE  /\ x \in Timer /\ Left(x) \in TimeSpecs
              /\ Left(x) # Zero => Nanos(Left(x)) <= Nanos(remaining[x]) - since
  <2>1. x \in Timer /\ remaining[x] \in TimeSpecs
    BY <1>1, Zenon DEF TimersType, Ticking
  <2> QED BY <1>11, <2>1, MinusFacts, Zenon DEF Left
<1>13. remaining' \in [Timer -> TimeSpecs] /\ due' \in [Timer -> Nat]
  BY <1>1, <1>2, <1>12, NanosNat, Zenon DEF TimersType
<1>14. TimersType'
  BY <1>1, <1>2, <1>3, <1>9, <1>10, <1>13, Zenon DEF TimersType, Expired
<1>15. Deleted'
  BY <1>2, <1>9, <1>10, Zenon DEF TimersInv, Deleted, Expired
<1>16. OnLists'
  BY <1>2, <1>9, <1>10, Zenon DEF TimersInv, OnLists, Expired
<1>17. FiredWhenWoken'
  <2> SUFFICES ASSUME NEW t \in Threads, w'.state[t] = "READY", ~w'.enq[t] PROVE fired'[t]
    BY Zenon DEF FiredWhenWoken, Interrupted
  <2>1. t \in OneShot \/ (w.state[t] = "READY" /\ ~w.enq[t])
    BY <1>9, <1>10, Zenon DEF Expired
  <2> QED BY <1>3, <2>1, TimerFacts, Zenon DEF TimersInv, FiredWhenWoken, Interrupted
<1>18. NeverLate'
  <2> SUFFICES ASSUME NEW x \in armed', ~fired'[x] PROVE Nanos(remaining'[x]) <= due'[x] + since'
    BY Zenon DEF NeverLate, Ticking
  <2>1. x \in Ticking /\ x \in Timer /\ x \notin OneShot
    BY <1>1, <1>2, <1>3, Zenon DEF Ticking, TimersType
  <2>2. CASE x \in RunOut
    <3>1. remaining'[x] = interval[x] /\ due'[x] = Nanos(interval[x]) /\ Nanos(interval[x]) \in Nat
      BY <1>1, <1>2, <2>1, <2>2, NanosNat, Zenon DEF TimersType
    <3> QED BY <1>2, <3>1
  <2>3. CASE x \notin RunOut
    <3>1. remaining'[x] = Left(x) /\ due'[x] = due[x] /\ Left(x) # Zero
      BY <1>2, <2>1, <2>3, Zenon DEF RunOut
    <3>2. Nanos(Left(x)) <= Nanos(remaining[x]) - since /\ Left(x) \in TimeSpecs
      BY <1>12, <2>1, <3>1, Zenon
    <3>3. Nanos(remaining[x]) <= due[x] + since
      BY <2>1, Zenon DEF TimersInv, NeverLate
    <3>4. Nanos(Left(x)) \in Nat /\ Nanos(remaining[x]) \in Nat /\ due[x] \in Nat
      BY <1>1, <2>1, <3>2, NanosNat, Zenon DEF TimersType
    <3> QED BY <1>2, <1>11, <3>1, <3>2, <3>3, <3>4
  <2> QED BY <2>2, <2>3, Zenon
<1> QED BY <1>14, <1>15, <1>16, <1>17, <1>18, Zenon DEF TimersInv

\* The threads and the timers of a process are deleted together.
LEMMA StepDelete ==
  ASSUME TimersInv, DeleteProcess
  PROVE  TimersInv'
<1>1. TimersType
  BY DEF TimersInv
<1>2. /\ \A t \in Threads : w.state[t] = "ZOMBIE"
      /\ disarm(Owned(Threads) \cup {itimer}) /\ reaped'
      /\ UNCHANGED <<fired, since, due>>
  BY Zenon DEF DeleteProcess
<1>3. PICK ls \in [Threads -> {{}}] : w' = [w EXCEPT !.listeners = ls]
  BY Zenon DEF DeleteProcess
<1>4. IsWait(w', Threads, Threads) /\ w'.state = w.state
  BY <1>1, <1>3, Zenon DEF TimersType, IsWait
<1>5. /\ remaining' \in [Timer -> TimeSpecs] /\ interval' \in [Timer -> TimeSpecs]
      /\ owner' \in [Timer -> Threads \cup {Null}]
      /\ armed' = armed \ (Owned(Threads) \cup {itimer}) /\ armed' \subseteq Timer
  BY <1>1, <1>2, DisarmFacts, Zenon
<1>6. armed' = {}
  <2>1. \A x \in armed : owner[x] \in Threads /\ x \in Timer
    BY <1>1, Zenon DEF TimersInv, OnLists, TimersType
  <2> QED BY <1>5, <2>1, Zenon DEF Owned
<1>7. TimersType'
  BY <1>1, <1>2, <1>4, <1>5, Zenon DEF TimersType
<1>8. Deleted' /\ OnLists' /\ NeverLate'
  BY <1>2, <1>4, <1>6, Zenon DEF Deleted, OnLists, NeverLate, Ticking
<1>9. FiredWhenWoken'
  BY <1>2, <1>4, Zenon DEF FiredWhenWoken
<1> QED BY <1>7, <1>8, <1>9, Zenon DEF TimersInv

\* Every step of the threads, the clock and the interrupt preserves the invariant.
LEMMA TimersStep == TimersInv /\ [Next]_vars => TimersInv'
<1> SUFFICES ASSUME TimersInv, [Next]_vars PROVE TimersInv'
  BY Zenon
<1>0. IsWait(w, Threads, Threads)
  BY Zenon DEF TimersInv, TimersType
<1>1. ASSUME NEW t \in Threads, NEW masked \in BOOLEAN, SendSignal(t, masked) PROVE TimersInv'
  <2>1. w' = signal(w, t, masked) /\ UNCHANGED <<tvars, mapped, reaped, since>>
    BY <1>1, Zenon DEF SendSignal
  <2>2. Signalled(w, w', t, Threads, Threads)
    BY <1>0, <2>1, SignalFacts, Zenon
  <2>3. ThreadsOnly
    BY <2>2, Zenon DEF Signalled, ThreadsOnly
  <2> QED BY <2>1, <2>3, TimersUntouched, Zenon
<1>2. ASSUME NEW t \in Threads, DispatchSignal(t) PROVE TimersInv'
  <2>1. /\ w' = dispatch(w, t) /\ UNCHANGED <<tvars, mapped, reaped, since>>
        /\ w.state[t] = "active"
    BY <1>2, Zenon DEF DispatchSignal
  <2>2. Dispatched(w, w', t, Threads, Threads)
    BY <1>0, <2>1, DispatchFacts, Zenon
  <2>3. ThreadsOnly
    BY <2>1, <2>2, Zenon DEF Dispatched, ThreadsOnly
  <2> QED BY <2>1, <2>3, TimersUntouched, Zenon
<1>3. ASSUME NEW T, Terminate(T) PROVE TimersInv'
  <2>1. UNCHANGED <<tvars, mapped, reaped, since>>
    BY <1>3, Zenon DEF Terminate
  <2>2. PICK st : st = [t \in Threads |-> IF t \in T THEN "ZOMBIE" ELSE w.state[t]]
    BY Zenon
  <2>3. w' = [w EXCEPT !.state = st]
    BY <1>3, <2>2, Zenon DEF Terminate
  <2>4. /\ st \in [Threads -> ThreadStates]
        /\ \A t \in Threads : st[t] = IF t \in T THEN "ZOMBIE" ELSE w.state[t]
    BY <1>0, <2>2, Zenon DEF IsWait, ThreadStates
  <2>5. IsWait(w', Threads, Threads) /\ w'.state = st /\ w'.enq = w.enq
    BY <1>0, <2>3, <2>4, Zenon DEF IsWait
  <2>6. ThreadsOnly
    BY <2>4, <2>5, Zenon DEF ThreadsOnly
  <2> QED BY <2>1, <2>6, TimersUntouched, Zenon
<1>4. CASE UNCHANGED vars
  <2>1. ThreadsOnly /\ UNCHANGED <<tvars, mapped, reaped, since>>
    BY <1>0, <1>4, Zenon DEF vars, tvars, ThreadsOnly
  <2> QED BY <2>1, TimersUntouched, Zenon
<1>5. ASSUME NEW t \in Threads, ThreadStep(t) PROVE TimersInv'
  BY <1>1, <1>2, <1>3, <1>5, StepNanosleep, StepSetitimer, StepReturns, Zenon DEF ThreadStep
<1> QED BY <1>3, <1>4, <1>5, StepTimePasses, StepInterrupt, StepDelete, Zenon DEF Next

-----------------------------------------------------------------------------
(* Futexes.  Of the events only the pending triggers and the states of the *)
(* threads matter here.                                                    *)

IsEvents(s, T, E) ==
  /\ s = [pending |-> s.pending, listeners |-> s.listeners, state |-> s.state,
          which |-> s.which, enq |-> s.enq, sig |-> s.sig]
  /\ s.pending \in [E -> Nat] /\ s.state \in [T -> ThreadStates]

\* From s to r nothing becomes pending and nobody goes on.
NobodyGoesOn(s, r, T, E) ==
  /\ IsEvents(r, T, E)
  /\ \A e \in E : r.pending[e] = s.pending[e]
  /\ \A t \in T : r.state[t] = "active" => s.state[t] = "active"

\* Event::trigger wakes some of the listeners; a trigger that nobody hears is
\* pending unless it may be dropped.
LEMMA TriggerWakes ==
  ASSUME NEW T, NEW E, NEW s, IsEvents(s, T, E), NEW e \in E, NEW drop \in BOOLEAN, NEW max,
         NEW r, r = F!trigger(s, e, drop, max)
  PROVE  /\ IsEvents(r, T, E)
         /\ drop => NobodyGoesOn(s, r, T, E)
         /\ \A x \in E \ {e} : r.pending[x] = s.pending[x]
         /\ \A t \in T : r.state[t] = "active" => s.state[t] = "active"
<1>1. CASE s.listeners[e] = <<>>
  <2> DEFINE pe == [s.pending EXCEPT ![e] = IF drop THEN @ ELSE @ + 1]
  <2>1. r = [s EXCEPT !.pending = pe]
    BY <1>1, Zenon DEF F!trigger, IsEvents
  <2>2. /\ pe \in [E -> Nat] /\ \A x \in E \ {e} : pe[x] = s.pending[x]
        /\ drop => \A x \in E : pe[x] = s.pending[x]
    BY DEF IsEvents
  <2> HIDE DEF pe
  <2>3. IsEvents(r, T, E) /\ r.pending = pe /\ r.state = s.state
    BY <2>1, <2>2, Zenon DEF IsEvents
  <2> QED BY <2>2, <2>3, Zenon DEF NobodyGoesOn
<1>2. CASE s.listeners[e] # <<>>
  <2>1. PICK wh, W : r = F!enqueue([s EXCEPT !.which = wh], W, FALSE)
    BY <1>2, ZenonT(30) DEF F!trigger
  <2>2. PICK st, en : /\ r = [s EXCEPT !.which = wh, !.state = st, !.enq = en]
                      /\ st = [t \in T |-> IF t \in {u \in W : s.state[u] = "BLOCKED"}
                                           THEN "READY" ELSE s.state[t]]
    BY <2>1, ZenonT(30) DEF F!enqueue, IsEvents
  <2>3. st \in [T -> ThreadStates] /\ \A t \in T : st[t] = "active" => s.state[t] = "active"
    BY <2>2, Zenon DEF IsEvents, ThreadStates
  <2>4. IsEvents(r, T, E) /\ r.pending = s.pending /\ r.state = st
    BY <2>2, <2>3, Zenon DEF IsEvents
  <2> QED BY <2>3, <2>4, Zenon DEF NobodyGoesOn
<1> QED BY <1>1, <1>2, Zenon

\* The other steps of a thread: it sleeps, is sent a signal, takes it, or dies.
LEMMA SleepStops ==
  ASSUME NEW T, NEW E, NEW s, IsEvents(s, T, E), NEW t \in T, NEW evs,
         NEW r, r = F!sleep(s, t, evs)
  PROVE  NobodyGoesOn(s, r, T, E) /\ r.state[t] = "BLOCKED"
<1> DEFINE st == [s.state EXCEPT ![t] = "BLOCKED"]
<1>1. PICK ls : r = [s EXCEPT !.listeners = ls, !.state = st]
  BY Zenon DEF F!sleep
<1>2. /\ st \in [T -> ThreadStates] /\ st[t] = "BLOCKED"
      /\ \A u \in T : st[u] = "active" => s.state[u] = "active"
  BY Zenon DEF IsEvents, ThreadStates
<1> HIDE DEF st
<1>3. IsEvents(r, T, E) /\ r.pending = s.pending /\ r.state = st
  BY <1>1, <1>2, Zenon DEF IsEvents
<1> QED BY <1>2, <1>3, Zenon DEF NobodyGoesOn

LEMMA SignalStops ==
  ASSUME NEW T, NEW E, NEW s, IsEvents(s, T, E), NEW t \in T, NEW masked \in BOOLEAN,
         NEW r, r = F!signal(s, t, masked)
  PROVE  NobodyGoesOn(s, r, T, E)
<1>1. PICK si, en, st : /\ r = [s EXCEPT !.sig = si, !.state = st, !.enq = en]
                        /\ st = [u \in T |-> IF u \in {v \in {t} : s.state[v] = "BLOCKED"}
                                             THEN "READY" ELSE s.state[u]]
  BY Zenon DEF F!signal, F!enqueue, IsEvents
<1>2. st \in [T -> ThreadStates] /\ \A u \in T : st[u] = "active" => s.state[u] = "active"
  BY <1>1, Zenon DEF IsEvents, ThreadStates
<1>3. IsEvents(r, T, E) /\ r.pending = s.pending /\ r.state = st
  BY <1>1, <1>2, Zenon DEF IsEvents
<1> QED BY <1>2, <1>3, Zenon DEF NobodyGoesOn

LEMMA DispatchStops ==
  ASSUME NEW T, NEW E, NEW s, IsEvents(s, T, E), NEW t, NEW r, r = F!dispatch(s, t)
  PROVE  NobodyGoesOn(s, r, T, E)
<1>1. PICK si, en : r = [s EXCEPT !.sig = si, !.enq = en]
  BY Zenon DEF F!dispatch
<1>2. IsEvents(r, T, E) /\ r.pending = s.pending /\ r.state = s.state
  BY <1>1, Zenon DEF IsEvents
<1> QED BY <1>2, Zenon DEF NobodyGoesOn

LEMMA TerminateStops ==
  ASSUME NEW T, NEW E, NEW s, IsEvents(s, T, E), NEW t \in T, NEW r, r = F!terminate(s, t)
  PROVE  NobodyGoesOn(s, r, T, E)
<1> DEFINE st == [s.state EXCEPT ![t] = "ZOMBIE"]
<1>1. r = [s EXCEPT !.state = st]
  BY Zenon DEF F!terminate
<1>2. st \in [T -> ThreadStates] /\ \A u \in T : st[u] = "active" => s.state[u] = "active"
  BY Zenon DEF IsEvents, ThreadStates
<1> HIDE DEF st
<1>3. IsEvents(r, T, E) /\ r.pending = s.pending /\ r.state = st
  BY <1>1, <1>2, Zenon DEF IsEvents
<1> QED BY <1>2, <1>3, Zenon DEF NobodyGoesOn

\* A wait that is over: its timer's event is gone, and the thread goes on.
returned(s, t) == [F!resume(s, t) EXCEPT !.pending[t] = 0, !.which[t] = 0, !.enq[t] = FALSE]

Freed(s, r, t, T, E) ==
  /\ IsEvents(r, T, E) /\ r.pending[t] = 0
  /\ \A e \in E \ {t} : r.pending[e] = s.pending[e]
  /\ \A u \in T \ {t} : r.state[u] = s.state[u]

LEMMA ResumeFrees ==
  ASSUME NEW T, NEW E, T \subseteq E, NEW s, IsEvents(s, T, E), NEW t \in T,
         NEW r, r = returned(s, t)
  PROVE  Freed(s, r, t, T, E)
<1> DEFINE st == [s.state EXCEPT ![t] = "active"]
           pe == [s.pending EXCEPT ![t] = 0]
<1>1. PICK ls : F!resume(s, t) = [s EXCEPT !.listeners = ls, !.state = st]
  BY Zenon DEF F!resume, F!clear_listeners, IsEvents
<1>2. PICK wh, en : r = [s EXCEPT !.listeners = ls, !.state = st, !.pending = pe, !.which = wh, !.enq = en]
  BY <1>1, Zenon DEF returned, IsEvents
<1>3. /\ st \in [T -> ThreadStates] /\ \A u \in T \ {t} : st[u] = s.state[u]
      /\ pe \in [E -> Nat] /\ pe[t] = 0 /\ \A e \in E \ {t} : pe[e] = s.pending[e]
  BY Zenon DEF IsEvents, ThreadStates
<1> HIDE DEF st, pe
<1>4. IsEvents(r, T, E) /\ r.pending = pe /\ r.state = st
  BY <1>2, <1>3, Zenon DEF IsEvents
<1> QED BY <1>3, <1>4, Zenon DEF Freed

\* A timer is armed, or its trigger pending, only while its thread is in the call.
FutexInv(T, E) ==
  /\ IsEvents(k, T, E) /\ call = [t \in T |-> call[t]]
  /\ \A t \in T : t \in timed \/ k.pending[t] > 0 => call[t] # Null /\ k.state[t] # "active"

\* Steps at which nobody goes on preserve the invariant.
LEMMA FutexKeeps ==
  ASSUME NEW T, NEW E, T \subseteq E, FutexInv(T, E), NobodyGoesOn(k, k', T, E),
         UNCHANGED <<call, timed>>
  PROVE  FutexInv(T, E)'
<1>1. IsEvents(k', T, E) /\ call' = [t \in T |-> call'[t]]
  BY Zenon DEF FutexInv, NobodyGoesOn
<1>2. ASSUME NEW t \in T, t \in timed' \/ k'.pending[t] > 0
      PROVE  call'[t] # Null /\ k'.state[t] # "active"
  <2>1. k'.pending[t] = k.pending[t] /\ (k'.state[t] = "active" => k.state[t] = "active")
    BY Zenon DEF NobodyGoesOn
  <2> QED BY <1>2, <2>1, Zenon DEF FutexInv
<1> QED BY <1>1, <1>2, Zenon DEF FutexInv

\* A wait begins.
LEMMA FutexSleeps ==
  ASSUME NEW T, NEW E, T \subseteq E, FutexInv(T, E), NobodyGoesOn(k, k', T, E), NEW t \in T,
         k'.state[t] = "BLOCKED", NEW c, c # Null, call' = [call EXCEPT ![t] = c],
         timed' \subseteq timed \cup {t}
  PROVE  FutexInv(T, E)'
<1>1. IsEvents(k', T, E) /\ call' = [u \in T |-> call'[u]]
  BY Zenon DEF FutexInv, NobodyGoesOn
<1>2. ASSUME NEW u \in T, u \in timed' \/ k'.pending[u] > 0
      PROVE  call'[u] # Null /\ k'.state[u] # "active"
  <2>1. k'.pending[u] = k.pending[u] /\ (k'.state[u] = "active" => k.state[u] = "active")
    BY Zenon DEF NobodyGoesOn
  <2>2. call'[u] = IF u = t THEN c ELSE call[u]
    BY Zenon DEF FutexInv
  <2> QED BY <1>2, <2>1, <2>2, Zenon DEF FutexInv
<1> QED BY <1>1, <1>2, Zenon DEF FutexInv

\* A wait is over.
LEMMA FutexReturns ==
  ASSUME NEW T, NEW E, T \subseteq E, FutexInv(T, E), NEW t \in T,
         k' = returned(k, t), call' = [call EXCEPT ![t] = Null], timed' = timed \ {t}
  PROVE  FutexInv(T, E)'
<1>0. IsEvents(k, T, E)
  BY Zenon DEF FutexInv
<1>1. Freed(k, k', t, T, E)
  BY <1>0, ResumeFrees, Zenon
<1>2. call' = [u \in T |-> call'[u]]
  BY Zenon DEF FutexInv
<1>3. ASSUME NEW u \in T, u \in timed' \/ k'.pending[u] > 0
      PROVE  call'[u] # Null /\ k'.state[u] # "active"
  <2>1. u # t
    BY <1>1, <1>3 DEF Freed
  <2>2. /\ k'.pending[u] = k.pending[u] /\ k'.state[u] = k.state[u] /\ call'[u] = call[u]
    BY <1>1, <2>1, Zenon DEF FutexInv, Freed
  <2> QED BY <1>3, <2>1, <2>2, Zenon DEF FutexInv
<1> QED BY <1>1, <1>2, <1>3, Zenon DEF FutexInv, Freed

\* A timer runs out.
LEMMA FutexTimesOut ==
  ASSUME NEW T, NEW E, T \subseteq E, FutexInv(T, E), NEW t \in T, t \in timed,
         NEW drop \in BOOLEAN, NEW max, k' = F!trigger(k, t, drop, max), UNCHANGED call,
         timed' = timed \ {t}
  PROVE  FutexInv(T, E)'
<1>0. IsEvents(k, T, E)
  BY Zenon DEF FutexInv
<1>1. /\ IsEvents(k', T, E)
      /\ \A x \in E \ {t} : k'.pending[x] = k.pending[x]
      /\ \A u \in T : k'.state[u] = "active" => k.state[u] = "active"
  BY <1>0, TriggerWakes
<1>2. ASSUME NEW u \in T, u \in timed' \/ k'.pending[u] > 0
      PROVE  call'[u] # Null /\ k'.state[u] # "active"
  <2>1. u \in timed \/ k.pending[u] > 0
    BY <1>1, <1>2, Zenon
  <2> QED BY <1>1, <2>1, Zenon DEF FutexInv
<1> QED BY <1>1, <1>2, Zenon DEF FutexInv

\* Every step preserves the invariant.
LEMMA FutexStep ==
  ASSUME F!FutexAssumption
  PROVE  FutexInv(Threads, F!Events) /\ [F!Next]_F!vars => FutexInv(Threads, F!Events)'
<1> SUFFICES ASSUME FutexInv(Threads, F!Events), [F!Next]_F!vars PROVE FutexInv(Threads, F!Events)'
  BY Zenon
<1>0. /\ Threads \subseteq F!Events /\ IsEvents(k, Threads, F!Events)
      /\ \A x \in Words : PageOf[x] \in F!Events
  BY Zenon DEF F!Events, F!Pages, FutexInv
<1>1. PICK dr \in BOOLEAN : dr = TRUE
  BY Zenon
<1>2. ASSUME NEW s, IsEvents(s, Threads, F!Events), NEW x \in Words, NEW max, NEW r,
             r = F!futex_wake(s, x, max)
      PROVE  NobodyGoesOn(s, r, Threads, F!Events)
  <2>1. r = F!trigger(s, PageOf[x], dr, max)
    BY <1>1, <1>2, Zenon DEF F!futex_wake
  <2> QED BY <1>0, <1>1, <1>2, <2>1, TriggerWakes, Zenon
<1>3. ASSUME NEW t \in Threads, NEW x \in Words, NEW v \in Values, NEW b \in BOOLEAN,
             F!FutexWait(t, x, v, b)
      PROVE  FutexInv(Threads, F!Events)'
  <2>1. PICK evs : k' = F!sleep(k, t, evs)
    BY <1>3, Zenon DEF F!FutexWait
  <2>2. NobodyGoesOn(k, k', Threads, F!Events) /\ k'.state[t] = "BLOCKED"
    BY <1>0, <2>1, SleepStops
  <2>3. PICK c : c = [word |-> x, expected |-> v]
    BY Zenon
  <2>4. /\ c # Null /\ call' = [call EXCEPT ![t] = c] /\ timed' \subseteq timed \cup {t}
    BY <1>3, <2>3, Zenon DEF F!FutexWait, F!FutexAssumption
  <2> QED BY <1>0, <2>2, <2>4, FutexSleeps, Zenon
<1>4. ASSUME NEW t \in Threads, NEW x \in Words, NEW v, F!Store(t, x, v)
      PROVE  FutexInv(Threads, F!Events)'
  <2>1. UNCHANGED <<k, call, timed>>
    BY <1>4, Zenon DEF F!Store
  <2>2. NobodyGoesOn(k, k', Threads, F!Events)
    BY <1>0, <2>1, Zenon DEF NobodyGoesOn
  <2> QED BY <1>0, <2>1, <2>2, FutexKeeps, Zenon
<1>5. ASSUME NEW t \in Threads, NEW x \in Words, NEW max, F!FutexWake(t, x, max)
      PROVE  FutexInv(Threads, F!Events)'
  <2>1. k' = F!futex_wake(k, x, max) /\ UNCHANGED <<call, timed>>
    BY <1>5, Zenon DEF F!FutexWake
  <2>2. NobodyGoesOn(k, k', Threads, F!Events)
    BY <1>0, <1>2, <2>1, Zenon
  <2> QED BY <1>0, <2>1, <2>2, FutexKeeps, Zenon
<1>6. ASSUME NEW t \in Threads, NEW x \in Words, NEW y \in Words, NEW v, NEW cmp,
             F!FutexWakeOp(t, x, y, v, cmp)
      PROVE  FutexInv(Threads, F!Events)'
  <2>1. PICK once, twice : /\ once = F!futex_wake(k, x, F!INT_MAX)
                           /\ twice = F!futex_wake(once, y, F!INT_MAX)
    BY Zenon
  <2>2. (k' = once \/ k' = twice) /\ UNCHANGED <<call, timed>>
    BY <1>6, <2>1, Zenon DEF F!FutexWakeOp
  <2>3. NobodyGoesOn(k, once, Threads, F!Events)
    BY <1>0, <1>2, <2>1, Zenon
  <2>4. IsEvents(once, Threads, F!Events)
    BY <2>3, Zenon DEF NobodyGoesOn
  <2>5. NobodyGoesOn(once, twice, Threads, F!Events)
    BY <1>2, <2>1, <2>4, Zenon
  <2>6. NobodyGoesOn(k, k', Threads, F!Events)
    BY <2>2, <2>3, <2>5, Zenon DEF NobodyGoesOn
  <2> QED BY <1>0, <2>2, <2>6, FutexKeeps, Zenon
<1>7. ASSUME NEW t \in Threads, NEW masked \in BOOLEAN, F!SendSignal(t, masked)
      PROVE  FutexInv(Threads, F!Events)'
  <2>1. k' = F!signal(k, t, masked) /\ UNCHANGED <<call, timed>>
    BY <1>7, Zenon DEF F!SendSignal
  <2>2. NobodyGoesOn(k, k', Threads, F!Events)
    BY <1>0, <2>1, SignalStops, Zenon
  <2> QED BY <1>0, <2>1, <2>2, FutexKeeps, Zenon
<1>8. ASSUME NEW t \in Threads, F!DispatchSignal(t) PROVE FutexInv(Threads, F!Events)'
  <2>1. k' = F!dispatch(k, t) /\ UNCHANGED <<call, timed>>
    BY <1>8, Zenon DEF F!DispatchSignal
  <2>2. NobodyGoesOn(k, k', Threads, F!Events)
    BY <1>0, <2>1, DispatchStops, Zenon
  <2> QED BY <1>0, <2>1, <2>2, FutexKeeps, Zenon
<1>9. ASSUME NEW t \in Threads, F!FutexResume(t) PROVE FutexInv(Threads, F!Events)'
  <2>1. /\ k' = returned(k, t)
        /\ call' = [call EXCEPT ![t] = Null] /\ timed' = timed \ {t}
    BY <1>9, Zenon DEF F!FutexResume, returned
  <2> QED BY <1>0, <2>1, FutexReturns, Zenon
<1>10. ASSUME NEW t \in Threads, F!TimerFires(t) PROVE FutexInv(Threads, F!Events)'
  <2>1. PICK drop \in BOOLEAN, max \in {F!INT_MAX} :
          t \in timed /\ k' = F!trigger(k, t, drop, max) /\ UNCHANGED call /\ timed' = timed \ {t}
    BY <1>10, Zenon DEF F!TimerFires
  <2> QED BY <1>0, <2>1, FutexTimesOut, Zenon
<1>11. ASSUME NEW t \in Threads, F!Exit(t) PROVE FutexInv(Threads, F!Events)'
  <2>1. PICK dead, woken : /\ dead = F!terminate(k, t)
                           /\ woken = F!futex_wake(dead, TidWord[t], 1)
    BY Zenon
  <2>2. /\ k' = dead \/ (k' = woken /\ TidWord[t] # Null)
        /\ UNCHANGED <<call, timed>>
    BY <1>11, <2>1, Zenon DEF F!Exit
  <2>3. NobodyGoesOn(k, dead, Threads, F!Events)
    BY <1>0, <2>1, TerminateStops, Zenon
  <2>4. CASE k' = dead
    BY <1>0, <2>2, <2>3, <2>4, FutexKeeps, Zenon
  <2>5. CASE k' = woken /\ TidWord[t] # Null
    <3>1. TidWord[t] \in Words
      BY <2>5, Zenon DEF F!FutexAssumption
    <3>2. IsEvents(dead, Threads, F!Events)
      BY <2>3, Zenon DEF NobodyGoesOn
    <3>3. NobodyGoesOn(dead, woken, Threads, F!Events)
      BY <1>2, <2>1, <3>1, <3>2, Zenon
    <3>4. NobodyGoesOn(k, k', Threads, F!Events)
      BY <2>3, <2>5, <3>3, Zenon DEF NobodyGoesOn
    <3> QED BY <1>0, <2>2, <3>4, FutexKeeps, Zenon
  <2> QED BY <2>2, <2>4, <2>5, Zenon
<1>12. CASE UNCHANGED F!vars
  <2>1. UNCHANGED <<k, call, timed>>
    BY <1>12, Zenon DEF F!vars
  <2>2. NobodyGoesOn(k, k', Threads, F!Events)
    BY <1>0, <2>1, Zenon DEF NobodyGoesOn
  <2> QED BY <1>0, <2>1, <2>2, FutexKeeps, Zenon
<1> QED BY <1>3, <1>4, <1>5, <1>6, <1>7, <1>8, <1>9, <1>10, <1>11, <1>12, Zenon DEF F!Next

\* Nobody waits at first.
LEMMA FutexInit == F!Init => FutexInv(Threads, F!Events)
<1> SUFFICES ASSUME F!Init PROVE FutexInv(Threads, F!Events)
  BY Zenon
<1>1. Threads \subseteq F!Events
  BY Zenon DEF F!Events
<1>2. k = F!EventState(Threads, F!Events) /\ call = [t \in Threads |-> Null] /\ timed = {}
  BY Zenon DEF F!Init
<1>3. IsEvents(k, Threads, F!Events) /\ \A t \in Threads : k.pending[t] = 0
  BY <1>1, <1>2, Zenon DEF F!EventState, IsEvents, ThreadStates
<1> QED BY <1>2, <1>3 DEF FutexInv

-----------------------------------------------------------------------------
\* The invariant of nanosleep and setitimer.
LEMMA TimersInvariant == Spec => []TimersInv
BY TimersInit, TimersStep, PTL DEF Spec

\* For any number of threads, any tick and any durations: a sleep that does not end
\* with EINTR ends because its timer fired, and no timer is ever later than the next
\* interrupt (time.cpp 64-67, 134).
THEOREM SleepsEndInTime == Spec => []SleepsInTime
<1>1. TimersInv => SleepsInTime
  BY Zenon DEF TimersInv, SleepsInTime
<1> QED BY <1>1, TimersInvariant, PTL

\* An armed timer is never one of a thread that went on or was deleted, or of a
\* process that was reaped (time.cpp's lists of armed timers).
THEOREM ArmedTimersBelong == Spec => []TimersBelong
<1>1. TimersInv => TimersBelong
  BY Zenon DEF TimersInv, Deleted, OnLists, TimersBelong
<1> QED BY <1>1, TimersInvariant, PTL

\* The timer of a futex_wait is armed, or its trigger pending, only during the call:
\* nothing refers to the timer on the stack when the thread goes on (futex.cpp 33-34).
THEOREM FutexTimersBelong ==
  ASSUME F!FutexAssumption
  PROVE  F!Spec => []F!TimerBelongsToCall
<1>1. FutexInv(Threads, F!Events) => F!TimerBelongsToCall
  BY Zenon DEF FutexInv, F!TimerBelongsToCall
<1> QED BY <1>1, FutexInit, FutexStep, PTL DEF F!Spec
=============================================================================
