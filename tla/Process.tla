------------------------------ MODULE Process ------------------------------
(***************************************************************************)
(* Processes from clone to the wait that deletes them: the family tree,    *)
(* process groups and sessions, stops and continues, exit, and waitid.     *)
(* Signals stand for their default action.  tids are never used again      *)
(* (first_free_tid only grows), so a process or thread is its tid.         *)
(***************************************************************************)
EXTENDS WaitOps, SequencesExt

CONSTANTS
  Procs, InitProc,
  ProcOf,            \* [thread -> process]
  MainOf,            \* [process -> its main thread, the one with tid = pid]
  Groups, InitGroup, \* ProcessGroup objects, each allocated once
  Sigs, Signalled,   \* the signals that processes send, and to which threads
  MayExec,           \* the processes that call execve
  Flags,             \* arguments of waitid: [opts : SUBSET Kinds, nohang, nowait : BOOLEAN]
  MaxPending,        \* bound on the triggers an event can have pending
  Null

Kinds == {"zombie", "stopped", "continued"}
Events == Procs \X Kinds

VARIABLES
  w,          \* threads and events, see WaitOps
  life,       \* [process -> "unborn", "alive", "zombie" or "deleted"]
  born,       \* threads that were created
  parent,     \* [process -> process]
  children,   \* [process -> children_list]
  wait_code,  \* [process -> "none" or the CLD_ code that waitid reports]
  pend,       \* [thread -> pending_signals]
  stop,       \* [thread -> "no", "STOPPED", or "linked": continued, has not run]
  group,      \* [process -> group]
  members,    \* [group -> process_list]
  leader,     \* [group -> leader_process]
  session,    \* [group -> leader_group of its session]
  execed,     \* processes with has_performed_execve
  call,       \* [thread -> the waitid it is in, or Null]
  crashed     \* a deleted process was deleted again

family == <<parent, children, group, members>>
jobs == <<leader, session, execed>>
vars == <<w, life, born, family, wait_code, pend, stop, jobs, call, crashed>>

Living(p) == {t \in born : ProcOf[t] = p /\ w.state[t] # "ZOMBIE"}

\* t executes user code, where it enters system calls and takes signals.
Running(t) ==
  t \in born /\ w.state[t] = "active" /\ stop[t] = "no" /\ call[t] = Null /\ ~crashed

\* create_init_process
Init ==
  /\ w = WaitState(Threads, Events)
  /\ life = [p \in Procs |-> IF p = InitProc THEN "alive" ELSE "unborn"]
  /\ born = {MainOf[InitProc]}
  /\ parent = [p \in Procs |-> IF p = InitProc THEN InitProc ELSE Null]
  /\ children = [p \in Procs |-> <<>>]
  /\ wait_code = [p \in Procs |-> "none"]
  /\ pend = [t \in Threads |-> {}]
  /\ stop = [t \in Threads |-> "no"]
  /\ group = [p \in Procs |-> IF p = InitProc THEN InitGroup ELSE Null]
  /\ members = [g \in Groups |-> {}]   \* init is not linked
  /\ leader = [g \in Groups |-> IF g = InitGroup THEN InitProc ELSE Null]
  /\ session = [g \in Groups |-> IF g = InitGroup THEN InitGroup ELSE Null]
  /\ execed = {InitProc}
  /\ call = [t \in Threads |-> Null]
  /\ crashed = FALSE

\* A bug: a process stays on the list of the group that it leaves.
add_processes_NoRemove(S, g) ==
  /\ group' = [p \in Procs |-> IF p \in S THEN g ELSE group[p]]
  /\ members' = [members EXCEPT ![g] = @ \cup S]

\* ProcessGroup::add_process for every process of S.
add_processes(S, g) ==
  /\ group' = [p \in Procs |-> IF p \in S THEN g ELSE group[p]]
  /\ members' = [h \in Groups |-> IF h = g THEN members[h] \cup S ELSE members[h] \ S]

\* clone_impl of a process: set_parent links the child behind its siblings and
\* adds it to its parent's group.
Fork(t, q) ==
  LET p == ProcOf[t] IN
  /\ Running(t)
  /\ life[q] = "unborn"
  /\ life' = [life EXCEPT ![q] = "alive"]
  /\ born' = born \cup {MainOf[q]}
  /\ parent' = [parent EXCEPT ![q] = p]
  /\ children' = [children EXCEPT ![p] = Append(@, q)]
  /\ add_processes({q}, group[p])
  /\ UNCHANGED <<w, wait_code, pend, stop, jobs, call, crashed>>

\* clone_impl of a thread
CloneThread(t, u) ==
  /\ Running(t)
  /\ u \notin born /\ ProcOf[u] = ProcOf[t]
  /\ born' = born \cup {u}
  /\ UNCHANGED <<w, life, family, wait_code, pend, stop, jobs, call, crashed>>

\* user_exec, as far as it concerns setpgid
Exec(t) ==
  /\ Running(t) /\ ProcOf[t] \in MayExec
  /\ execed' = execed \cup {ProcOf[t]}
  /\ UNCHANGED <<w, life, born, family, wait_code, pend, stop, leader, session, call, crashed>>

-----------------------------------------------------------------------------
(* Exit.                                                                     *)

\* Thread::send_signal; a stopped thread is linked again by SIGCONT only.
send_signal(v, t) == signal(v, t, FALSE)
Sent(t, sig) == pend' = [pend EXCEPT ![t] = @ \cup {sig}]

Orphans(p) == {c \in Procs : parent[c] = p /\ life[c] \in {"alive", "zombie"}}

\* A bug: only the signal tells the parent.
Tell_SignalOnly(v, p) == send_signal(v, MainOf[parent[p]])
\* A bug: the signal wakes the waiting parent before the event does.
Tell_SignalFirst(v, p) ==
  trigger(send_signal(v, MainOf[parent[p]]), <<p, "zombie">>, FALSE)
Tell(v, p) == send_signal(trigger(v, <<p, "zombie">>, FALSE), MainOf[parent[p]])

\* Process::zombify of p in the state v: the children go to init and into its
\* group, waiters are woken, the parent is sent SIGCHLD.
zombify(p, v, code) ==
  /\ life' = [life EXCEPT ![p] = "zombie"]
  /\ wait_code' = [wait_code EXCEPT ![p] = code]
  /\ parent' = [c \in Procs |-> IF c \in Orphans(p) THEN InitProc ELSE parent[c]]
  /\ add_processes(Orphans(p), group[InitProc])
  /\ children' = [children EXCEPT
                    ![p] = SelectSeq(@, LAMBDA c : c \notin Orphans(p)),
                    ![InitProc] = @ \o SelectSeq(children[p], LAMBDA c : c \in Orphans(p))]
  /\ w' = Tell(v, p)
  /\ Sent(MainOf[parent[p]], "CHLD")

\* terminate_thread for the threads S of p; init must not die.  The zombies'
\* calls and stops are over.
terminate_threads(p, S, code) ==
  LET v == [w EXCEPT !.state = [t \in Threads |-> IF t \in S THEN "ZOMBIE" ELSE @[t]]] IN
  /\ p # InitProc
  /\ IF S = Living(p) THEN zombify(p, v, code)
     ELSE w' = v /\ UNCHANGED <<life, family, wait_code, pend>>
  /\ call' = [t \in Threads |-> IF t \in S THEN Null ELSE call[t]]
  /\ stop' = [t \in Threads |-> IF t \in S THEN "no" ELSE stop[t]]
  /\ UNCHANGED <<born, jobs, crashed>>

\* exit: the status is ignored.
ExitThread(t) == Running(t) /\ terminate_threads(ProcOf[t], {t}, wait_code[ProcOf[t]])

\* exit_group
ExitGroup(t) == Running(t) /\ terminate_threads(ProcOf[t], Living(ProcOf[t]), "EXITED")

-----------------------------------------------------------------------------
(* Signals.                                                                  *)

\* kill and tgkill of the thread u.  Nobody kills init, which is a panic.
Kill(t, u, sig) ==
  /\ Running(t)
  /\ u \in born /\ w.state[u] # "ZOMBIE"
  /\ sig = "TERM" => ProcOf[u] # InitProc
  /\ w' = send_signal(w, u)
  /\ Sent(u, sig)
  /\ stop' = [stop EXCEPT ![u] = IF @ = "STOPPED" /\ sig = "CONT" THEN "linked" ELSE @]
  /\ UNCHANGED <<life, born, family, wait_code, jobs, call, crashed>>

\* kill of the group of the process p, which leads it: the main thread of every
\* member gets the signal, also that of a zombie.
KillGroup(t, p, sig) ==
  LET g == group[p]
      mains == {MainOf[q] : q \in members[g]}
  IN
  /\ Running(t)
  /\ life[p] = "alive" /\ w.state[MainOf[p]] # "ZOMBIE"
  /\ leader[g] = p
  /\ w' = FoldSet(LAMBDA u, v : send_signal(v, u), w, mains)
  /\ pend' = [u \in Threads |-> IF u \in mains THEN pend[u] \cup {sig} ELSE pend[u]]
  /\ stop' = [u \in Threads |->
                IF u \in mains /\ stop[u] = "STOPPED" /\ sig = "CONT" THEN "linked" ELSE stop[u]]
  /\ UNCHANGED <<life, born, family, wait_code, jobs, call, crashed>>

\* dispatch_pending_signal: the lowest number first.
Order == <<"USR", "TERM", "CHLD", "CONT", "STOP">>
Lowest(S) == Order[CHOOSE i \in 1..5 : Order[i] \in S /\ \A j \in 1..(i - 1) : Order[j] \notin S]

Taken(t) == pend[t] \ {Lowest(pend[t])}
Accepts(t) == [w EXCEPT !.enq[t] = FALSE, !.sig[t] = Taken(t) # {}]

\* A handler runs, or the signal is ignored.
DispatchHarmless(t) ==
  /\ Running(t) /\ pend[t] # {} /\ Lowest(pend[t]) \in {"USR", "CHLD", "CONT"}
  /\ w' = Accepts(t)
  /\ pend' = [pend EXCEPT ![t] = Taken(t)]
  /\ UNCHANGED <<life, born, family, wait_code, stop, jobs, call, crashed>>

DispatchTerm(t) ==
  /\ Running(t) /\ pend[t] # {} /\ Lowest(pend[t]) = "TERM"
  /\ terminate_threads(ProcOf[t], Living(ProcOf[t]), "KILLED")

\* dequeue_thread with a stop signal
DispatchStop(t) ==
  LET p == ProcOf[t]
      up == MainOf[parent[p]]
  IN
  /\ Running(t) /\ pend[t] # {} /\ Lowest(pend[t]) = "STOP"
  /\ w.pending[<<p, "stopped">>] < MaxPending
  /\ stop' = [stop EXCEPT ![t] = "STOPPED"]
  /\ wait_code' = [wait_code EXCEPT ![p] = "STOPPED"]
  /\ w' = send_signal(trigger(Accepts(t), <<p, "stopped">>, FALSE), up)
  /\ pend' = [u \in Threads |-> (IF u = t THEN Taken(t) ELSE pend[u])
                                 \cup (IF u = up THEN {"CHLD"} ELSE {})]
  /\ UNCHANGED <<life, born, family, jobs, call, crashed>>

\* scheduler_isr picks a continued thread.
Continue(t) ==
  LET p == ProcOf[t] IN
  /\ ~crashed
  /\ stop[t] = "linked"
  /\ w.pending[<<p, "continued">>] < MaxPending
  /\ stop' = [stop EXCEPT ![t] = "no"]
  /\ wait_code' = [wait_code EXCEPT ![p] = "CONTINUED"]
  /\ w' = trigger(w, <<p, "continued">>, FALSE)
  /\ UNCHANGED <<life, born, family, pend, jobs, call, crashed>>

-----------------------------------------------------------------------------
(* waitid and wait4.                                                         *)

\* The events of the children cs, in the order in which add_child adds them.
KindSeq == <<"zombie", "stopped", "continued">>
EventsOf(cs, opts) ==
  FlattenSeq([i \in DOMAIN cs |->
    [j \in 1..Len(SelectSeq(KindSeq, LAMBDA k : k \in opts)) |->
       <<cs[i], SelectSeq(KindSeq, LAMBDA k : k \in opts)[j]>>]])

\* The first target with something to report.  The memory of a deleted process
\* still has its wait_code.
Reported(cs) == {i \in DOMAIN cs : wait_code[cs[i]] # "none"
                                   /\ \A j \in 1..(i - 1) : wait_code[cs[j]] = "none"}

\* waitid_impl returns the child c.
Returns(v, t, c, nowait) ==
  /\ call' = [call EXCEPT ![t] = Null]
  /\ crashed' = (life[c] = "deleted")
  /\ IF nowait \/ life[c] = "deleted"
     THEN w' = v /\ UNCHANGED <<life, children, members, wait_code>>
     ELSE IF life[c] = "zombie"
     THEN /\ life' = [life EXCEPT ![c] = "deleted"]
          /\ children' = [children EXCEPT ![parent[c]] = SelectSeq(@, LAMBDA x : x # c)]
          /\ members' = [members EXCEPT ![group[c]] = @ \ {c}]
          /\ w' = [v EXCEPT !.listeners = [e \in Events |->
                              {l \in @[e] : ProcOf[l.thread] # c}]]
          /\ wait_code' = wait_code
     ELSE /\ wait_code' = [wait_code EXCEPT ![c] = "none"]
          /\ w' = v
          /\ UNCHANGED <<life, children, members>>

\* The loop of waitid_impl from its head, in the state v: it returns a child,
\* or gives up (WNOHANG, -EINTR), or uses up pending triggers and sleeps.
Look(v, t, cs, f) ==
  /\ UNCHANGED <<born, parent, group, pend, stop, jobs>>
  /\ \/ \E i \in Reported(cs) : Returns(v, t, cs[i], f.nowait)
     \/ /\ Reported(cs) = {}
        /\ UNCHANGED <<life, children, members, wait_code, crashed>>
        /\ IF f.nohang \/ v.sig[t]
           THEN w' = v /\ call' = [call EXCEPT ![t] = Null]
           ELSE LET evs == EventsOf(cs, f.opts)
                    dry == [v EXCEPT !.pending = [e \in Events |->
                               IF \E i \in DOMAIN evs : evs[i] = e THEN 0 ELSE @[e]]]
                IN  /\ w' = sleep(dry, t, evs)
                    /\ call' = [call EXCEPT ![t] = [cs |-> cs, f |-> f]]

\* id is a child, or Null for P_ALL.
Waitid(t, id, f) ==
  LET p == ProcOf[t] IN
  /\ Running(t)
  /\ f.opts # {}
  /\ IF id = Null THEN children[p] # <<>>
     ELSE life[id] \in {"alive", "zombie"} /\ parent[id] = p
  /\ Look(w, t, IF id = Null THEN children[p] ELSE <<id>>, f)

Resume(t) ==
  LET v == settled(resume(w, t), t) IN
  /\ ~crashed
  /\ w.state[t] = "READY"
  /\ IF Interrupted(w, t)
     THEN /\ w' = v /\ call' = [call EXCEPT ![t] = Null]
          /\ UNCHANGED <<life, born, family, wait_code, pend, stop, jobs, crashed>>
     ELSE Look(v, t, call[t].cs, call[t].f)

-----------------------------------------------------------------------------
(* Groups and sessions.                                                      *)

\* setpgid(q, 0) or setpgid(q, q): a group of its own.
SetpgidSelf(t, q, g) ==
  LET p == ProcOf[t] IN
  /\ Running(t)
  /\ life[q] \in {"alive", "zombie"}
  /\ q = p \/ parent[q] = p
  /\ ~(parent[q] = p /\ q \in execed)
  /\ leader[session[group[q]]] # q
  /\ leader[group[q]] # q
  /\ leader[g] = Null
  /\ leader' = [leader EXCEPT ![g] = q]
  /\ session' = [session EXCEPT ![g] = session[group[q]]]
  /\ add_processes({q}, g)
  /\ UNCHANGED <<w, life, born, parent, children, wait_code, pend, stop, execed, call, crashed>>

\* setpgid(q, r): into the group of the process r, of the same session.
SetpgidJoin(t, q, r) ==
  LET p == ProcOf[t] IN
  /\ Running(t)
  /\ life[q] \in {"alive", "zombie"} /\ life[r] \in {"alive", "zombie"} /\ q # r
  /\ q = p \/ parent[q] = p
  /\ ~(parent[q] = p /\ q \in execed)
  /\ leader[session[group[q]]] # q
  /\ session[group[r]] = session[group[q]]
  /\ add_processes({q}, group[r])
  /\ UNCHANGED <<w, life, born, parent, children, wait_code, pend, stop, jobs, call, crashed>>

Setsid(t, g) ==
  LET p == ProcOf[t] IN
  /\ Running(t)
  /\ leader[group[p]] # p
  /\ leader[g] = Null
  /\ leader' = [leader EXCEPT ![g] = p]
  /\ session' = [session EXCEPT ![g] = g]
  /\ add_processes({p}, g)
  /\ UNCHANGED <<w, life, born, parent, children, wait_code, pend, stop, execed, call, crashed>>

-----------------------------------------------------------------------------
Step(t) ==
  \/ \E q \in Procs : Fork(t, q)
  \/ \E u \in Threads : CloneThread(t, u)
  \/ Exec(t) \/ ExitThread(t) \/ ExitGroup(t)
  \/ \E u \in Signalled, sig \in Sigs : Kill(t, u, sig)
  \/ \E p \in Procs, sig \in Sigs : KillGroup(t, p, sig)
  \/ DispatchHarmless(t) \/ DispatchTerm(t) \/ DispatchStop(t) \/ Continue(t)
  \/ \E id \in Procs \cup {Null}, f \in Flags : Waitid(t, id, f)
  \/ Resume(t)
  \/ \E q \in Procs, g \in Groups : SetpgidSelf(t, q, g)
  \/ \E q, r \in Procs : SetpgidJoin(t, q, r)
  \/ \E g \in Groups : Setsid(t, g)

Next == \E t \in Threads : Step(t)

Spec == Init /\ [][Next]_vars

-----------------------------------------------------------------------------
Exists(p) == life[p] \in {"alive", "zombie"}

\* Every process that can still be waited for has a living parent, which it is
\* sent to when its first one dies before it, and is on the children_list of that
\* parent once and on no other (sched.cpp 199-205, 220-223, 135).
HasLivingParent ==
  \A p, c \in Procs :
     /\ Exists(c) => life[parent[c]] = "alive"
     /\ Cardinality({i \in DOMAIN children[p] : children[p][i] = c})
          = IF c # InitProc /\ Exists(c) /\ parent[c] = p THEN 1 ELSE 0

\* A process is on the list of its group and on no other, whatever forks, deaths
\* of parents, setpgid and setsid came before: the ASSERT of
\* ProcessGroup::send_signal (sched.cpp 194).
OnListOfGroup ==
  \A g \in Groups : members[g] = {p \in Procs \ {InitProc} : Exists(p) /\ group[p] = g}

\* Nobody sleeps in waitid although a child that it waits for has died, stopped or
\* continued and nobody was told of it yet.  Another thread may have taken the
\* status or the pending triggers in between (sched.cpp 1091-1133).  A child whose
\* last thread called exit(2) has no wait_code, so that waitid does not report it.
Due(c, opts) ==
  \/ "zombie" \in opts /\ life[c] = "zombie" /\ wait_code[c] # "none"
  \/ "stopped" \in opts /\ wait_code[c] = "STOPPED"
  \/ "continued" \in opts /\ wait_code[c] = "CONTINUED"

NoOversleep ==
  \A t \in Threads : w.state[t] = "BLOCKED" /\ ~crashed =>
     \A i \in DOMAIN call[t].cs : ~Due(call[t].cs[i], call[t].f.opts)

\* The death of a child ends the wait for it with the child's status: the SIGCHLD
\* that comes with it does not turn it into -EINTR (sched.cpp 231-232).
AnswersWait ==
  \A t \in Threads, c \in Procs :
     /\ w.state[t] = "BLOCKED" /\ [thread |-> t, which |-> 1] \in w.listeners[<<c, "zombie">>]
     /\ life[c] = "alive" /\ life'[c] = "zombie"
     => w'.state[t] = "READY" /\ ~w'.enq[t]
DeathAnswersWait == [][AnswersWait]_vars
=============================================================================
