------------------------------ MODULE FdTable ------------------------------
(***************************************************************************)
(* The descriptor tables of processes and the reference counts of the open *)
(* file descriptions they share: Process::allocate_fdnum, FileDescriptor   *)
(* and the system calls open, close, close_range, dup, dup2, dup3, fcntl,  *)
(* clone, execve and exit.  None of them sleeps while it works on a table. *)
(***************************************************************************)
EXTENDS Integers, FiniteSets

CONSTANTS
  Procs,        \* process slots; a slot is used once
  InitProc,
  Descs,        \* open file descriptions; the heap never reuses one
  NumStdio,     \* descriptors init starts with: 3 in the code
  Stdio,        \* [0..NumStdio - 1 -> their descriptions, all of the console]
  NoDesc,
  MaxFds,       \* bound on the size of a table
  Mins          \* arguments of F_DUPFD

ASSUME FdAssumption ==
  /\ InitProc \in Procs
  /\ NoDesc \notin Descs
  /\ NumStdio \in Nat
  /\ Stdio \in [0..(NumStdio - 1) -> Descs]
  /\ \A i, j \in 0..(NumStdio - 1) : Stdio[i] = Stdio[j] => i = j
  /\ MaxFds \in Nat /\ MaxFds >= NumStdio
  /\ Mins \subseteq Nat

Fds == 0..(MaxFds - 1)

VARIABLES
  alive,        \* the processes that run
  unborn,       \* the slots clone can still use
  desc,         \* [process -> [fd -> description, or NoDesc]]
  cloexec,      \* [process -> [fd -> FD_CLOEXEC]]
  slots,        \* [process -> file_descriptors.size()]
  num,          \* [process -> num_file_descriptors]
  first_free,   \* [process -> first_free_fdnum]
  refs,         \* [description -> ref_count]
  deleted,      \* the descriptions that were deleted
  unused        \* the descriptions that were not allocated yet

table == <<desc, cloexec, slots, num, first_free>>
fdvars == <<alive, unborn, desc, cloexec, slots, num, first_free, refs, deleted, unused>>

Used(p, fd) == desc[p][fd] # NoDesc
Users(p, d) == {fd \in Fds : desc[p][fd] = d}

\* create_init_process
FdTableInit ==
  /\ alive = {InitProc}
  /\ unborn = Procs \ {InitProc}
  /\ desc = [p \in Procs |-> [fd \in Fds |->
               IF p = InitProc /\ fd < NumStdio THEN Stdio[fd] ELSE NoDesc]]
  /\ cloexec = [p \in Procs |-> [fd \in Fds |-> FALSE]]
  /\ slots = [p \in Procs |-> IF p = InitProc THEN NumStdio ELSE 0]
  /\ num = [p \in Procs |-> IF p = InitProc THEN NumStdio ELSE 0]
  /\ first_free = [p \in Procs |-> IF p = InitProc THEN NumStdio ELSE 0]
  /\ refs = [d \in Descs |-> IF \E i \in 0..(NumStdio - 1) : Stdio[i] = d THEN 1 ELSE 0]
  /\ deleted = {}
  /\ unused = {d \in Descs : \A i \in 0..(NumStdio - 1) : Stdio[i] # d}

\* Process::allocate_fdnum(min): fd is the first free slot from begin on, or a
\* new slot at the end of the table.
Begin(p, min) == IF min < first_free[p] THEN first_free[p] ELSE min

Allocates(p, min, fd) ==
  /\ fd \in Fds
  /\ \A i \in Begin(p, min)..(slots[p] - 1) : i < fd => Used(p, i)
  /\ \/ fd = slots[p]
     \/ fd < slots[p] /\ fd >= Begin(p, min) /\ ~Used(p, fd)

\* A bug: F_DUPFD with a minimum moves the hint as well.
FirstFreeAfter_AnyMin(p, min, fd) == IF fd < slots[p] THEN fd + 1 ELSE slots[p]

FirstFreeAfter(p, min, fd) ==
  IF min < first_free[p] THEN (IF fd < slots[p] THEN fd + 1 ELSE slots[p]) ELSE first_free[p]

\* The table grows so that it has the slot fd.
Grow(p, fd) == slots' = [slots EXCEPT ![p] = IF fd < @ THEN @ ELSE fd + 1]

Shares(d) == refs' = [refs EXCEPT ![d] = @ + 1]

\* A descriptor for d at a number that allocate_fdnum chooses.
Install(p, min, d, flag) ==
  \E fd \in Fds :
     /\ Allocates(p, min, fd)
     /\ desc' = [desc EXCEPT ![p][fd] = d]
     /\ cloexec' = [cloexec EXCEPT ![p][fd] = flag]
     /\ Grow(p, fd)
     /\ num' = [num EXCEPT ![p] = @ + 1]
     /\ first_free' = [first_free EXCEPT ![p] = FirstFreeAfter(p, min, fd)]

\* FileDescriptor::close for every used fd of S, as a loop over a table does it.
\* A description whose last reference goes is deleted.
Dropped(p, S, d) == Cardinality({fd \in S : desc[p][fd] = d})

\* A bug: a close does not lower the hint.
LowersHint_Never(p, S) == first_free' = first_free

\* first_free_fdnum after the loop: the least of its old value and S.
LowersHint(p, S) ==
  \E ff \in {first_free[p]} \cup S :
     /\ \A fd \in {first_free[p]} \cup S : ff <= fd
     /\ first_free' = [first_free EXCEPT ![p] = ff]

\* A bug: reset() leaves the flags.
ResetFlags_Kept(p, S) == cloexec' = cloexec
ResetFlags(p, S) ==
  cloexec' = [cloexec EXCEPT ![p] = [fd \in Fds |-> @[fd] /\ fd \notin S]]

close(p, S) ==
  /\ desc' = [desc EXCEPT ![p] = [fd \in Fds |-> IF fd \in S THEN NoDesc ELSE @[fd]]]
  /\ ResetFlags(p, S)
  /\ num' = [num EXCEPT ![p] = @ - Cardinality(S)]
  /\ LowersHint(p, S)
  /\ refs' = [d \in Descs |-> refs[d] - Dropped(p, S, d)]
  /\ deleted' = deleted \cup {d \in Descs : refs[d] > 0 /\ refs[d] = Dropped(p, S, d)}
  /\ slots' = slots

\* openat, pipe, socket, eventfd...: a new description and a descriptor for it.
Open(p, flag) ==
  \E d \in unused :
     /\ Install(p, 0, d, flag)
     /\ refs' = [refs EXCEPT ![d] = 1]
     /\ unused' = unused \ {d}
     /\ UNCHANGED <<alive, unborn, deleted>>

\* close
Close(p, fd) ==
  /\ Used(p, fd)
  /\ close(p, {fd})
  /\ UNCHANGED <<alive, unborn, unused>>

\* close_range; with CLOSE_RANGE_CLOEXEC it only sets the flag.
InRange(p, first, last) == {fd \in first..last : fd \in Fds /\ Used(p, fd)}

CloseRange(p, first, last) ==
  /\ first <= last
  /\ close(p, InRange(p, first, last))
  /\ UNCHANGED <<alive, unborn, unused>>

CloseRangeCloexec(p, first, last) ==
  /\ first <= last
  /\ cloexec' = [cloexec EXCEPT ![p] = [fd \in Fds |-> @[fd] \/ fd \in InRange(p, first, last)]]
  /\ UNCHANGED <<alive, unborn, desc, slots, num, first_free, refs, deleted, unused>>

\* fcntl F_DUPFD and F_DUPFD_CLOEXEC; dup is F_DUPFD with 0.
DupFd(p, fd, min, flag) ==
  /\ Used(p, fd)
  /\ Install(p, min, desc[p][fd], flag)
  /\ Shares(desc[p][fd])
  /\ UNCHANGED <<alive, unborn, deleted, unused>>

\* dup3_impl: closes newfd if it is open, then makes it refer to oldfd's
\* description.  It never counts a new descriptor.
Dup3(p, old, new, flag) ==
  /\ Used(p, old) /\ old # new
  /\ LET d == desc[p][old]
         S == IF Used(p, new) THEN {new} ELSE {}
     IN  /\ desc' = [desc EXCEPT ![p][new] = d]
         /\ cloexec' = [cloexec EXCEPT ![p][new] = flag]
         /\ Grow(p, new)
         /\ num' = [num EXCEPT ![p] = @ - Cardinality(S)]
         /\ LowersHint(p, S)
         /\ refs' = [x \in Descs |-> refs[x] - Dropped(p, S, x) + (IF x = d THEN 1 ELSE 0)]
         /\ deleted' = deleted \cup {x \in Descs : refs[x] > 0 /\ refs[x] = Dropped(p, S, x)}
  /\ UNCHANGED <<alive, unborn, unused>>

\* fcntl F_SETFD, ioctl FIOCLEX and FIONCLEX.
SetFd(p, fd, flag) ==
  /\ Used(p, fd)
  /\ cloexec' = [cloexec EXCEPT ![p][fd] = flag]
  /\ UNCHANGED <<alive, unborn, desc, slots, num, first_free, refs, deleted, unused>>

\* clone_impl of a process: the child gets a copy of the table.
Fork(p, q) ==
  /\ q \in unborn
  /\ alive' = alive \cup {q} /\ unborn' = unborn \ {q}
  /\ desc' = [desc EXCEPT ![q] = desc[p]]
  /\ cloexec' = [cloexec EXCEPT ![q] = cloexec[p]]
  /\ slots' = [slots EXCEPT ![q] = slots[p]]
  /\ num' = [num EXCEPT ![q] = num[p]]
  /\ first_free' = [first_free EXCEPT ![q] = first_free[p]]
  /\ refs' = [d \in Descs |-> refs[d] + Cardinality(Users(p, d))]
  /\ UNCHANGED <<deleted, unused>>

\* user_exec closes every slot whose flag is set.
Exec(p) ==
  /\ close(p, {fd \in Fds : cloexec[p][fd]})
  /\ UNCHANGED <<alive, unborn, unused>>

\* zombify; init must not exit.
Exit(p) ==
  /\ p # InitProc
  /\ close(p, {fd \in Fds : Used(p, fd)})
  /\ alive' = alive \ {p}
  /\ UNCHANGED <<unborn, unused>>

Step(p) ==
  \/ \E flag \in BOOLEAN :
       \/ Open(p, flag)
       \/ \E fd \in Fds : SetFd(p, fd, flag)
       \/ \E fd \in Fds, min \in Mins : DupFd(p, fd, min, flag)
       \/ \E old, new \in Fds : Dup3(p, old, new, flag)
  \/ \E fd \in Fds : Close(p, fd)
  \/ \E first, last \in Fds : CloseRange(p, first, last) \/ CloseRangeCloexec(p, first, last)
  \/ \E q \in Procs : Fork(p, q)
  \/ Exec(p) \/ Exit(p)

FdTableNext == \E p \in alive : Step(p)

FdTableSpec == FdTableInit /\ [][FdTableNext]_fdvars

-----------------------------------------------------------------------------
\* first_free_fdnum is a valid hint: no slot below it is free.  Every way of
\* freeing a slot must lower it and no way of taking one may raise it past a
\* free slot, also after dup3 and F_DUPFD took slots out of order.
NoFreeBelowHint ==
  \A p \in alive : /\ first_free[p] <= slots[p]
                   /\ \A fd \in Fds : fd < first_free[p] => Used(p, fd)

\* open, dup and the other calls that take any descriptor return the lowest free
\* one (sched.cpp 68-84), whatever calls came before.
TakesLowest ==
  [][\A p \in alive, fd \in Fds :
       ~Used(p, fd) /\ desc'[p][fd] # NoDesc =>
         \/ \A i \in Fds : i < fd => Used(p, i)
         \/ ~ \E flag \in BOOLEAN : Open(p, flag) \/ \E old \in Fds : DupFd(p, old, 0, flag)]_fdvars

\* A description's reference count is the number of descriptors that refer to
\* it in all processes, so it is deleted exactly when the last one is closed.
RefCountExact ==
  /\ \A d \in Descs \ unused :
        refs[d] = Cardinality({x \in Procs \X Fds : desc[x[1]][x[2]] = d})
  /\ deleted = {d \in Descs \ unused : refs[d] = 0}

\* A free slot has no close-on-exec flag left over: execve closes every slot
\* with the flag and would follow a null description (sched.cpp 551-555).
FlagsOnlyOnUsed ==
  \A p \in Procs, fd \in Fds : cloexec[p][fd] => Used(p, fd)
=============================================================================
