------------------------------ MODULE MCTimed ------------------------------
(* The calls that sleep on timers, on futexes and for datagrams.  A behaviour *)
(* exercises one of four instances, which part selects:                       *)
(*   "sleep"  nanosleep and itimer_real with two threads.  A second has two   *)
(*            units, so that a sleep of 1 s 1 needs a borrow on its way;      *)
(*   "futex"  two threads, signals, and two words of one page;                *)
(*   "join"   a third thread, exits, and a clear_child_tid in its own page;   *)
(*   "udp"    two threads, two UDP sockets, a port that bind names and one    *)
(*            that is allocated, with buffers of one datagram.                *)
EXTENDS Timers, Udp

CONSTANTS t2, t3, f, g, tid, page, page2

VARIABLES part, k, val, call, timed, owes

TwoWords == {f, g}
OnePage == [x \in TwoWords |-> page]
NoTid == [t \in Threads |-> Null]
OneOrAll == {1, 2147483647}

AllThreads == Threads \cup {t3}
JoinWords == {f, tid}
TwoPages == [x \in JoinWords |-> IF x = f THEN page ELSE page2]
JoinTid == [t \in AllThreads |-> IF t = t2 THEN tid ELSE Null]
All == {2147483647}

OneSleep == {[s |-> 1, ns |-> 1]}
OneInterval == {[s |-> 0, ns |-> 1]}

F == INSTANCE Futex WITH Words <- TwoWords, PageOf <- OnePage, TidWord <- NoTid,
       Values <- {0, 1}, WakeCounts <- OneOrAll, Signals <- TRUE, Exits <- FALSE,
       armed <- timed
J == INSTANCE Futex WITH Threads <- AllThreads, Words <- JoinWords, PageOf <- TwoPages,
       TidWord <- JoinTid, Values <- {0, 1}, WakeCounts <- All,
       Signals <- FALSE, Exits <- TRUE, armed <- timed

ASSUME TimedAssumption ==
  F!FutexAssumption /\ J!FutexAssumption /\ UdpAssumption

fvars == <<k, val, call, timed, owes>>
all == <<vars, part, fvars, uvars>>

TimedInit ==
  /\ Init /\ UdpInit
  /\ part \in {"sleep", "futex", "join", "udp"}
  /\ IF part = "join" THEN J!Init ELSE F!Init

Sleeps(A) == part = "sleep" /\ A /\ UNCHANGED <<part, fvars, uvars>>

TimedNext ==
  \/ Sleeps(Next)
  \/ part = "futex" /\ F!Next /\ UNCHANGED <<part, vars, uvars>>
  \/ part = "join" /\ J!Next /\ UNCHANGED <<part, vars, uvars>>
  \/ part = "udp" /\ UdpNext /\ UNCHANGED <<part, vars, fvars>>

\* The hardware counts on and interrupts when the oneshot has run out.
TimedSpec ==
  /\ TimedInit /\ [][TimedNext]_all
  /\ WF_all(Sleeps(TimePasses))
  /\ WF_all(Sleeps(OneshotInterrupt))

\* A thread that sleeps although its word has another value by now is still going
\* to be woken: the thread that stored has not called futex_wake yet.  No store
\* can slip in between the comparison and the sleep (futex.cpp 16-40).  A joiner is
\* not left behind: when the thread whose word it waits for to become 0 is dead, it
\* is not asleep any more (sched.cpp 665-668).  And when a thread is awake again
\* nothing refers to the timer of its wait (futex.cpp 33-34).
FutexWaitsAreSound ==
  /\ part = "futex" => F!NoMissedStore /\ F!TimerBelongsToCall
  /\ part = "join" => J!NoMissedStore /\ J!JoinerIsWoken /\ J!TimerBelongsToCall
=============================================================================
