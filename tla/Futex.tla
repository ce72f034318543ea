------------------------------- MODULE Futex -------------------------------
(***************************************************************************)
(* futex_wait, futex_wake and futex_wake_op (userland/futex.cpp), with the *)
(* timer of a timed wait and the word that terminate_thread clears.        *)
(* get_physical_addr drops the offset in the page, so the hash table has   *)
(* one event per page: all words of a page share their waiters.            *)
(* User code stores to a word and then wakes its waiters; the two are      *)
(* separate steps between which anything may run.                          *)
(***************************************************************************)
EXTENDS EventOps, FiniteSets

CONSTANTS
  Threads,
  Words, PageOf,     \* futex words and the physical page each lies in
  TidWord,           \* [thread -> clear_child_tid, one of Words, or Null]
  Null,
  Values,            \* values of a word; 0 is what clear_child_tid gets
  WakeCounts,        \* max_to_wake arguments
  Signals, Exits     \* whether signals are sent and threads exit

\* The event of a page, and a timed wait's own timer event, named by its thread.
Pages == {PageOf[f] : f \in Words}
Events == Pages \cup Threads

\* A thread's word is one of Words, and no wait is called Null.
FutexAssumption ==
  /\ \A t \in Threads : TidWord[t] \in Words \cup {Null}
  /\ \A f \in Words, v \in Values : [word |-> f, expected |-> v] # Null

VARIABLES
  k,        \* events and threads, see EventOps
  val,      \* [word -> value]
  call,     \* [thread -> the wait it is in, or Null]
  armed,    \* threads whose timer is on the armed list
  owes      \* [thread -> words it stored to and has not woken yet]

vars == <<k, val, call, armed, owes>>

\* The words that the kernel itself clears.  User code stores to none of them,
\* and at most one thread at a time, the joiner, waits for each.
TidWords == {TidWord[t] : t \in Threads} \ {Null}
MayJoin(t, f) ==
  f \in TidWords =>
    /\ TidWord[t] # f
    /\ \A u \in Threads \ {t} : call[u] # Null => call[u].word # f

Init ==
  /\ k = EventState(Threads, Events)
  /\ val = [f \in Words |-> 1]
  /\ call = [t \in Threads |-> Null]
  /\ armed = {}
  /\ owes = [t \in Threads |-> {}]

\* futex_wait: the value is compared and the thread listed in one step, since
\* interrupts are off.  A wrong value (EAGAIN) or a pending signal (EINTR)
\* changes nothing.
FutexWait(t, f, expected, timed) ==
  /\ k.state[t] = "active"
  /\ MayJoin(t, f)
  /\ val[f] = expected
  /\ ~k.sig[t]
  /\ k' = sleep(k, t, IF timed THEN <<PageOf[f], t>> ELSE <<PageOf[f]>>)
  /\ call' = [call EXCEPT ![t] = [word |-> f, expected |-> expected]]
  /\ armed' = IF timed THEN armed \cup {t} ELSE armed
  /\ UNCHANGED <<val, owes>>

\* The wait returns 0, ETIMEDOUT or EINTR; the timer goes with the call, and
\* which_event and enqueued_by_signal are not read again before the next wake.
FutexResume(t) ==
  /\ k.state[t] = "READY"
  /\ k' = [resume(k, t) EXCEPT !.pending[t] = 0, !.which[t] = 0, !.enq[t] = FALSE]
  /\ call' = [call EXCEPT ![t] = Null]
  /\ armed' = armed \ {t}
  /\ UNCHANGED <<val, owes>>

\* update_time: the timer of t runs out.
TimerFires(t) ==
  /\ t \in armed
  /\ k' = trigger(k, t, FALSE, INT_MAX)
  /\ armed' = armed \ {t}
  /\ UNCHANGED <<val, call, owes>>

Store(t, f, v) ==
  /\ k.state[t] = "active" /\ v # val[f] /\ f \notin TidWords
  /\ val' = [val EXCEPT ![f] = v]
  /\ owes' = [owes EXCEPT ![t] = @ \cup {f}]
  /\ UNCHANGED <<k, call, armed>>

\* A bug: only the first waiter is woken.
futex_wake_One(s, f, max) == trigger(s, PageOf[f], TRUE, 1)

futex_wake(s, f, max) == trigger(s, PageOf[f], TRUE, max)

FutexWake(t, f, max) ==
  /\ k.state[t] = "active"
  /\ k' = futex_wake(k, f, max)
  /\ owes' = IF max = INT_MAX THEN [owes EXCEPT ![t] = @ \ {f}] ELSE owes
  /\ UNCHANGED <<val, call, armed>>

\* futex_wake_op with FUTEX_OP_SET: stores to g, wakes f, and g if its old value
\* passes the comparison.
FutexWakeOp(t, f, g, v, cmp) ==
  /\ k.state[t] = "active" /\ g \notin TidWords
  /\ val' = [val EXCEPT ![g] = v]
  /\ LET once == futex_wake(k, f, INT_MAX)
     IN  k' = IF val[g] = cmp THEN futex_wake(once, g, INT_MAX) ELSE once
  /\ owes' = [owes EXCEPT ![t] = (@ \ {f}) \cup
                (IF v # val[g] /\ val[g] # cmp /\ g # f THEN {g} ELSE {})]
  /\ UNCHANGED <<call, armed>>

SendSignal(t, masked) ==
  /\ Signals /\ k.state[t] # "ZOMBIE"
  /\ k' = signal(k, t, masked)
  /\ UNCHANGED <<val, call, armed, owes>>

DispatchSignal(t) ==
  /\ k.state[t] = "active" /\ k.sig[t]
  /\ k' = dispatch(k, t)
  /\ UNCHANGED <<val, call, armed, owes>>

\* syscall_exit of one of several threads: terminate_thread clears the word that
\* a joiner waits for and wakes one waiter.
Exit(t) ==
  /\ Exits /\ k.state[t] = "active" /\ owes[t] = {}
  /\ Cardinality({u \in Threads : k.state[u] # "ZOMBIE"}) > 1
  /\ LET dead == terminate(k, t) IN
     IF TidWord[t] = Null THEN k' = dead /\ UNCHANGED val
     ELSE /\ val' = [val EXCEPT ![TidWord[t]] = 0]
          /\ k' = futex_wake(dead, TidWord[t], 1)
  /\ UNCHANGED <<call, armed, owes>>

Next ==
  \E t \in Threads :
    \/ \E f \in Words, v \in Values, b \in BOOLEAN : FutexWait(t, f, v, b)
    \/ \E f \in Words, v \in Values : Store(t, f, v)
    \/ \E f \in Words, max \in WakeCounts : FutexWake(t, f, max)
    \/ \E f, g \in Words, v, cmp \in Values : FutexWakeOp(t, f, g, v, cmp)
    \/ \E masked \in BOOLEAN : SendSignal(t, masked)
    \/ FutexResume(t) \/ TimerFires(t) \/ DispatchSignal(t) \/ Exit(t)

Spec == Init /\ [][Next]_vars

-----------------------------------------------------------------------------
Sleeping(t, f) == k.state[t] = "BLOCKED" /\ call[t].word = f

\* A thread that sleeps although its word has another value by now is still going
\* to be woken: the thread that stored has not called futex_wake yet.  No store
\* can slip in between the comparison and the sleep (futex.cpp 16-40).
NoMissedStore ==
  \A t \in Threads, f \in Words :
     Sleeping(t, f) /\ val[f] # call[t].expected /\ f \notin TidWords
       => \E u \in Threads : f \in owes[u]

\* A timer stays armed only for a call that is not over: when the thread is awake
\* again nothing refers to the timer on its stack (futex.cpp 33-34).
TimerBelongsToCall ==
  \A t \in Threads : t \in armed \/ k.pending[t] > 0 => call[t] # Null /\ k.state[t] # "active"

\* A joiner is not left behind: when the thread whose word it waits for to
\* become 0 is dead, it is not asleep any more (sched.cpp 665-668).
JoinerIsWoken ==
  \A t, u \in Threads :
     k.state[u] = "ZOMBIE" /\ TidWord[u] # Null
       => ~ (Sleeping(t, TidWord[u]) /\ call[t].expected # 0)
=============================================================================
