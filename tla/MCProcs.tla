------------------------------ MODULE MCProcs ------------------------------
(* Processes and what they share.  A behaviour exercises one of six           *)
(* instances, which part selects:                                             *)
(*   "table"  descriptor tables: init with one console descriptor, one child  *)
(*            and one description to open; three slots, so that dup3 can      *)
(*            leave a hole;                                                   *)
(*   "wait"   a child that is stopped, continued and killed, and two threads  *)
(*            of init that wait for it;                                       *)
(*   "tree"   a child and a grandchild that exit, exec and change their group;*)
(*   "names"  calls on the paths a, b and a/b, symlinks to b included;        *)
(*   "dir"    a directory that is listed while its entries come and go;       *)
(*   "data"   two descriptions of one file, one of them with O_APPEND.        *)
EXTENDS FdTable

CONSTANTS console, Junk, Null

VARIABLES
  part,
  w, life, born, parent, children, wait_code, pend, stop, group, members,
  leader, session, execed, call, crashed,
  ent, kids, node, vrefs, cwd, fd, dead,
  storage, fsize, cursor, got, contents

MCStdio == [i \in {0} |-> console]

WaitThreads == {"main", "second", "a"}
TreeThreads == {"main", "a", "b"}
ProcOfThread(T) == [t \in T |-> IF t \in {"a", "b"} THEN t ELSE "init"]
MainOfProc(P) == [p \in P |-> IF p = "init" THEN "main" ELSE p]
Asks(opts, nohang, nowait) == [opts |-> opts, nohang |-> nohang, nowait |-> nowait]
AnyChange == {"zombie", "stopped", "continued"}

W == INSTANCE Process WITH Procs <- {"init", "a"}, InitProc <- "init", Threads <- WaitThreads,
       ProcOf <- ProcOfThread(WaitThreads), MainOf <- MainOfProc({"init", "a"}),
       Groups <- {"g"}, InitGroup <- "g", Sigs <- {"STOP", "CONT", "TERM"}, Signalled <- {"a"},
       MayExec <- {}, MaxPending <- 1,
       Flags <- {Asks({"zombie"}, FALSE, FALSE), Asks(AnyChange, FALSE, FALSE),
                 Asks(AnyChange, TRUE, FALSE), Asks({"zombie"}, FALSE, TRUE)}
T == INSTANCE Process WITH Procs <- {"init", "a", "b"}, InitProc <- "init", Threads <- TreeThreads,
       ProcOf <- ProcOfThread(TreeThreads), MainOf <- MainOfProc({"init", "a", "b"}),
       Groups <- {"g", "h"}, InitGroup <- "g", Sigs <- {}, Signalled <- {},
       MayExec <- {"a"}, MaxPending <- 1,
       Flags <- {Asks({"zombie"}, FALSE, FALSE), Asks({"zombie"}, TRUE, FALSE)}

Opens == {{"O_CREAT"}, {"O_CREAT", "O_EXCL"}, {"O_NOFOLLOW"}, {"O_DIRECTORY"}}
N == INSTANCE Vfs WITH Paths <- {<<"a">>, <<"b">>, <<"a", "b">>}, Targets <- {<<"b">>},
       OpenFlags <- {}, Fds <- {}, MaxEntries <- 4, MaxNodes <- 3, refs <- vrefs
D == INSTANCE Vfs WITH Paths <- {<<"a">>, <<"b">>}, Targets <- {},
       OpenFlags <- Opens, Fds <- {1}, MaxEntries <- 3, MaxNodes <- 3, refs <- vrefs

F == INSTANCE Tmpfs WITH Descriptions <- {1, 2}, Append_ <- {1}, MaxSize <- 3,
       Data <- {<<<<1>>>>, <<<<1>>, <<2>>>>}, size <- fsize

pvars == <<w, life, born, parent, children, wait_code, pend, stop, group, members,
           leader, session, execed, call, crashed>>
nvars == <<ent, kids, node, vrefs, cwd, fd, dead>>
dvars == <<storage, fsize, cursor, got, contents>>
all == <<part, fdvars, pvars, nvars, dvars>>

\* No operation reads num_file_descriptors: states that differ only in it are
\* explored once.
WithoutNum == <<part, alive, unborn, desc, cloexec, slots, first_free, refs, deleted, unused,
                pvars, nvars, dvars>>

\* The variables of the other parts
NoProcesses ==
  /\ w = Null /\ life = Null /\ born = Null /\ parent = Null /\ children = Null
  /\ wait_code = Null /\ pend = Null /\ stop = Null /\ group = Null /\ members = Null
  /\ leader = Null /\ session = Null /\ execed = Null /\ call = Null /\ crashed = Null
NoNames ==
  /\ ent = Null /\ kids = Null /\ node = Null /\ vrefs = Null
  /\ cwd = Null /\ fd = Null /\ dead = Null
NoData == storage = Null /\ fsize = Null /\ cursor = Null /\ got = Null /\ contents = Null

ProcsInit ==
  /\ part \in {"table", "wait", "tree", "names", "dir", "data"}
  /\ FdTableInit
  /\ CASE part = "wait" -> W!Init [] part = "tree" -> T!Init [] OTHER -> NoProcesses
  /\ CASE part = "names" -> N!Init [] part = "dir" -> D!Init [] OTHER -> NoNames
  /\ IF part = "data" THEN F!Init ELSE NoData

ProcsNext ==
  \/ part = "table" /\ FdTableNext /\ UNCHANGED <<part, pvars, nvars, dvars>>
  \/ part = "wait" /\ W!Next /\ UNCHANGED <<part, fdvars, nvars, dvars>>
  \/ part = "tree" /\ T!Next /\ UNCHANGED <<part, fdvars, nvars, dvars>>
  \/ part = "names" /\ N!Next /\ UNCHANGED <<part, fdvars, pvars, dvars>>
  \/ part = "dir" /\ D!Next /\ UNCHANGED <<part, fdvars, pvars, dvars>>
  \/ part = "data" /\ F!Next /\ UNCHANGED <<part, fdvars, pvars, nvars>>

ProcsSpec == ProcsInit /\ [][ProcsNext]_all

Processes(wait, tree) == (part = "wait" => wait) /\ (part = "tree" => tree)

\* The processes are a family tree and lists of group members, whatever forks,
\* deaths of parents and children, waits, setpgid and setsid came before: who can
\* still be waited for is once on the children_list of a living parent, and on
\* the list of its group and no other, as ProcessGroup::send_signal asserts
\* (sched.cpp 135, 194, 199-205, 220-223).
FamilyIsTree == Processes(W!HasLivingParent /\ W!OnListOfGroup, T!HasLivingParent /\ T!OnListOfGroup)

\* Nobody sleeps in waitid although a child that it waits for has died, stopped or
\* continued and nobody was told of it yet, also when two threads wait for one
\* child and the status changes again (sched.cpp 1091-1133).  A child whose last
\* thread called exit(2) has no wait_code and is excepted.
NoOversleep == Processes(W!NoOversleep, T!NoOversleep)

\* The death of a child ends the wait for it with the child's status: the SIGCHLD
\* that comes with it does not turn it into -EINTR (sched.cpp 231-232).
DeathAnswersWait == [][Processes(W!AnswersWait, T!AnswersWait)]_all

\* Links, renames over existing names, removals, failed lookups and closes in any
\* order keep the tree of names exact: the reference count of a node is the number
\* of its names and open files, no directory has two children of one name, and an
\* entry is only on the list of its parent (vfs.cpp 110-245, 608-620, 805-838).
\* Likewise the count of an open file is the number of descriptors that refer to it.
CountsExact ==
  /\ part = "table" => RefCountExact
  /\ part = "dir" => D!NodeRefsExact /\ D!NamesUnique
  /\ part = "names" => N!NodeRefsExact /\ N!NamesUnique

\* A directory that is listed to its end has shown every entry that was in it when
\* it was opened, in however many calls, unless something was removed from it:
\* names that are created or looked up meanwhile shift the position of the others
\* (vfs.cpp 598-606, tmpfs.cpp 66-89).
ListingComplete == part = "dir" => D!ListingComplete

\* A file is the sequence of bytes that its writers made of it, whatever the
\* cursors and the capacity of its storage do: see Tmpfs.
FileIsSequence == part = "data" => F!FileIsSequence
=============================================================================
