-------------------------------- MODULE Vfs --------------------------------
(***************************************************************************)
(* The tree of names of the virtual file system over tmpfs: entries with   *)
(* their lists of children, which also cache the names that do not exist,  *)
(* the nodes they name with their reference counts, and the directory      *)
(* position of open files.  A system call resolves its paths and changes   *)
(* the tree in one step.  "." and ".." are always the last two children    *)
(* and are left out; so are paths that use them.                           *)
(***************************************************************************)
EXTENDS Integers, Sequences, SequencesExt, FiniteSetsExt

CONSTANTS
  Paths,      \* paths that calls are given, sequences of names
  Targets,    \* the ones that symlinks are made with
  OpenFlags,  \* sets of flags that open is called with
  Fds,        \* bound on the number of open files: their numbers
  MaxEntries, \* bound on the number of entries ever constructed
  MaxNodes    \* bound on the number of nodes ever created

\* Entries and nodes are numbered from 1; 0 is nullptr, and the null_entry.
nullptr == 0
Root == 1
Closed == [entry |-> nullptr]

VARIABLES
  ent,   \* Seq([vnode, parent, name]), the entries
  kids,  \* [entry -> Seq(entry)], Entry::children_list
  node,  \* Seq([type, target]), the vnodes; target is the path in a symlink
  refs,  \* [node -> VNode::ref_count]
  cwd,   \* Process::cwd
  fd,    \* [Fds -> the open file, or Closed]
  dead   \* the kernel has used a null pointer or overrun its stack

vars == <<ent, kids, node, refs, cwd, fd, dead>>

\* vfs::init mounts a tmpfs on the root.
Init ==
  /\ ent = <<[vnode |-> 1, parent |-> nullptr, name |-> ""]>>
  /\ kids = <<<<>>>>
  /\ node = <<[type |-> "DIRECTORY", target |-> <<>>]>>
  /\ refs = <<0>>
  /\ cwd = Root
  /\ fd = [n \in Fds |-> Closed]
  /\ dead = FALSE

IsOpen(n) == fd[n].entry # nullptr

-----------------------------------------------------------------------------
(* Resolution of a path.  It constructs the entries that it misses, so it is *)
(* a function of the state s of the tree: [ent, kids, node, refs].           *)

Tree == [ent |-> ent, kids |-> kids, node |-> node, refs |-> refs]

TypeOf(s, e) == IF s.ent[e].vnode = nullptr THEN "none" ELSE s.node[s.ent[e].vnode].type

\* Entry::find_child: the first of that name
find_child(s, d, n) ==
  LET at == {i \in DOMAIN s.kids[d] : s.ent[s.kids[d][i]].name = n}
  IN  IF at = {} THEN nullptr ELSE s.kids[d][Min(at)]

\* Entry::add_child puts it first; its callers look whether the name is there.
add_child(s, d, e) ==
  IF find_child(s, d, s.ent[e].name) # nullptr THEN s ELSE [s EXCEPT !.kids[d] = <<e>> \o @]

\* vfs::lookup constructs an entry for a name that is not there, with no vnode.
lookup(s, d, n) ==
  LET e == Len(s.ent) + 1
      t == [s EXCEPT !.ent = Append(@, [vnode |-> nullptr, parent |-> d, name |-> n]),
                     !.kids = Append(@, <<>>)]
  IN  IF find_child(s, d, n) # nullptr THEN [s |-> s, e |-> find_child(s, d, n)]
      ELSE [s |-> add_child(t, d, e), e |-> e]

RECURSIVE walk(_, _, _, _, _)
\* path_to_entry from the entry cur; fuel bounds the symlinks it follows, which the
\* code does not: .loop is set when it would not end.
walk(s, cur, path, follow, fuel) ==
  LET l == lookup(s, cur, path[1])
      last == Len(path) = 1
  IN
  IF TypeOf(s, cur) # "DIRECTORY" THEN [s |-> s, e |-> nullptr, loop |-> FALSE]
  ELSE IF TypeOf(l.s, l.e) = "none"
  THEN [s |-> l.s, e |-> IF last THEN l.e ELSE nullptr, loop |-> FALSE]
  ELSE IF TypeOf(l.s, l.e) = "SYMLINK" /\ (~last \/ follow)
  THEN IF fuel = 0 THEN [s |-> l.s, e |-> nullptr, loop |-> TRUE]
       ELSE walk(l.s, cur, l.s.node[l.s.ent[l.e].vnode].target \o Tail(path), follow, fuel - 1)
  ELSE IF last THEN [s |-> l.s, e |-> l.e, loop |-> FALSE]
  ELSE walk(l.s, l.e, Tail(path), follow, fuel)

\* The empty path stands for "/" and ".".
path_to_entry(s, start, path, follow) ==
  IF path = <<>> THEN [s |-> s, e |-> start, loop |-> FALSE]
  ELSE walk(s, start, path, follow, MaxNodes)

-----------------------------------------------------------------------------
(* Entry::create and Entry::remove                                           *)

\* The entry e gets the vnode v: it is a child of its parent, and a reference.
Linked(s, e, v) ==
  LET t == add_child([s EXCEPT !.ent[e].vnode = v], s.ent[e].parent, e)
  IN  [t EXCEPT !.refs[v] = @ + 1]

\* tmpfs creates a node.
create(s, e, type, target) ==
  Linked([s EXCEPT !.node = Append(@, [type |-> type, target |-> target]),
                   !.refs = Append(@, 0)], e, Len(s.node) + 1)

\* remove keeps the vnode of the entry, and its children.
remove(s, e) ==
  [s EXCEPT !.kids[s.ent[e].parent] = SelectSeq(@, LAMBDA k : k # e),
            !.refs[s.ent[e].vnode] = @ - 1]

\* The step ends in the tree s; cut says of an open directory that something has
\* been removed from its list, or removed and put back by a rename.
Lost(s, d) == ~IsSuffix(kids[d], s.kids[d])
Ends(s) ==
  /\ Len(s.ent) <= MaxEntries /\ Len(s.node) <= MaxNodes
  /\ ent' = s.ent /\ kids' = s.kids /\ node' = s.node /\ refs' = s.refs

Cuts(s) == [n \in Fds |-> IF ~IsOpen(n) THEN Closed
                          ELSE [fd[n] EXCEPT !.cut = @ \/ Lost(s, fd[n].entry)]]

Starts == {cwd, Root}

-----------------------------------------------------------------------------
(* The system calls.  At is the resolution of a path; a call whose path ends *)
(* in a loop of symlinks overruns the stack.                                 *)

Crash == dead' = TRUE /\ UNCHANGED <<ent, kids, node, refs, cwd, fd>>

At(path, follow) == {path_to_entry(Tree, start, path, follow) : start \in Starts}

\* A call that only looks up a path: the tree may gain names that are not there.
LooksUp(path, follow) ==
  \E r \in At(path, follow) :
    \/ r.loop /\ Crash
    \/ ~r.loop /\ Ends(r.s) /\ UNCHANGED <<cwd, fd, dead>>

Stat(path, follow) == LooksUp(path, follow)
Readlink(path) == LooksUp(path, FALSE)
\* access, chown and chmod
Chattr(path, follow) == LooksUp(path, follow)

\* openat_impl: what the entry e, found in the tree s, makes of the flags
Refused(s, e, flags) ==
  \/ e = nullptr
  \/ TypeOf(s, e) = "none" /\ "O_CREAT" \notin flags
  \/ TypeOf(s, e) = "SYMLINK"
  \/ TypeOf(s, e) # "none" /\ "O_EXCL" \in flags
  \/ TypeOf(s, e) = "DIRECTORY" /\ flags \cap {"O_WRONLY", "O_CREAT"} # {}
  \/ TypeOf(s, e) \notin {"none", "DIRECTORY"} /\ "O_DIRECTORY" \in flags

Described(s, e) ==
  [entry |-> e, vnode |-> s.ent[e].vnode, cursor |-> 0, listed |-> {}, end |-> FALSE,
   stay |-> {k \in Range(s.kids[e]) : s.ent[k].vnode # nullptr}, cut |-> FALSE]

Open(n, path, flags) ==
  \E r \in At(path, "O_NOFOLLOW" \notin flags) :
    \/ r.loop /\ Crash
    \/ /\ ~r.loop
       /\ UNCHANGED <<cwd, dead>>
       /\ IF Refused(r.s, r.e, flags)
          THEN Ends(r.s) /\ UNCHANGED fd
          ELSE LET s == IF TypeOf(r.s, r.e) = "none" THEN create(r.s, r.e, "REGULAR", <<>>)
                        ELSE r.s
               IN  /\ ~IsOpen(n)
                   /\ Ends([s EXCEPT !.refs[s.ent[r.e].vnode] = @ + 1])
                   /\ fd' = [fd EXCEPT ![n] = Described(s, r.e)]

\* The last reference to a description
Close(n) ==
  /\ IsOpen(n)
  /\ refs' = [refs EXCEPT ![fd[n].vnode] = @ - 1]
  /\ fd' = [fd EXCEPT ![n] = Closed]
  /\ UNCHANGED <<ent, kids, node, cwd, dead>>

\* A node of the given type for a name that is not there
Make(path, type, target) ==
  \E r \in At(path, TRUE) :
    \/ r.loop /\ Crash
    \/ /\ ~r.loop
       /\ Ends(IF r.e # nullptr /\ TypeOf(r.s, r.e) = "none" THEN create(r.s, r.e, type, target)
               ELSE r.s)
       /\ UNCHANGED <<cwd, fd, dead>>

Mkdir(path) == Make(path, "DIRECTORY", <<>>)
Symlink(path, target) == Make(path, "SYMLINK", target)
\* A fifo or a device is not told from a regular file.
Mknod(path) == Make(path, "REGULAR", <<>>)

\* unlinkat_impl; with AT_REMOVEDIR even of a directory that has children
Unlink(path, removedir) ==
  \E r \in At(path, TRUE) :
    \/ r.loop /\ Crash
    \/ /\ ~r.loop
       /\ LET refused == r.e = nullptr \/ (r.e # nullptr /\
                           (TypeOf(r.s, r.e) = "none" \/ (TypeOf(r.s, r.e) = "DIRECTORY" /\ ~removedir)))
              s == IF refused THEN r.s ELSE remove(r.s, r.e)
          IN  Ends(s) /\ fd' = Cuts(s)
       /\ UNCHANGED <<cwd, dead>>

\* linkat_impl: a new entry for the node of old, directories included
Link(old, new) ==
  \E o \in At(old, TRUE) : \E start \in Starts :
    LET t == path_to_entry(o.s, start, new, TRUE)
        found == o.e # nullptr /\ TypeOf(o.s, o.e) # "none"
    IN
    \/ (o.loop \/ (found /\ (t.loop \/ t.e = nullptr))) /\ Crash
    \/ /\ ~o.loop
       /\ found => ~t.loop /\ t.e # nullptr
       /\ Ends(IF ~found THEN o.s
               ELSE IF TypeOf(t.s, t.e) # "none" THEN t.s
               ELSE Linked(t.s, t.e, t.s.ent[o.e].vnode))
       /\ UNCHANGED <<cwd, fd, dead>>

\* A bug: what was there under the new name is not removed.
Replaced_Kept(s, o, n) == remove(Linked(s, n, s.ent[o].vnode), o)

\* renameat_impl: the entry n takes the node of the entry o, and keeps the children
\* that it had; o is removed with its own.
Replaced(s, o, n) ==
  LET t == IF s.ent[n].vnode # nullptr THEN remove(s, n) ELSE s
  IN  remove(Linked(t, n, s.ent[o].vnode), o)

Rename(old, new) ==
  \E o \in At(old, TRUE) : \E start \in Starts :
    LET t == path_to_entry(o.s, start, new, TRUE)
        found == o.e # nullptr /\ TypeOf(o.s, o.e) # "none"
        s == IF found THEN Replaced(t.s, o.e, t.e) ELSE o.s
    IN
    \/ (o.loop \/ (found /\ (t.loop \/ t.e = nullptr))) /\ Crash
    \/ /\ ~o.loop
       /\ found => ~t.loop /\ t.e # nullptr
       /\ Ends(s)
       /\ fd' = Cuts(s)
       /\ UNCHANGED <<cwd, dead>>

Chdir(path) ==
  \E r \in At(path, TRUE) :
    \/ r.loop /\ Crash
    \/ /\ ~r.loop
       /\ Ends(r.s)
       /\ cwd' = IF r.e # nullptr /\ TypeOf(r.s, r.e) = "DIRECTORY" THEN r.e ELSE cwd
       /\ UNCHANGED <<fd, dead>>

\* A bug: the entry that did not fit is counted.
cursor_Past(f, upto) == Min({upto + 1, Len(kids[f.entry])})
\* The index of the first entry that did not fit
cursor(f, upto) == upto

\* getdents64: tmpfs::readdir lists the entries from the cursor on that have a node,
\* as many as fit.
Getdents(n, max) ==
  /\ IsOpen(n) /\ TypeOf(Tree, fd[n].entry) = "DIRECTORY"
  /\ LET f == fd[n]
         list == kids[f.entry]
         here == {i \in DOMAIN list : i > f.cursor /\ ent[list[i]].vnode # nullptr}
         fits == {i \in here : Cardinality({j \in here : j <= i}) <= max}
         upto == IF fits = here THEN Max({Len(list), f.cursor}) ELSE Min(here \ fits) - 1
     IN  fd' = [fd EXCEPT ![n] = [f EXCEPT !.cursor = cursor(f, upto),
                                           !.listed = @ \cup {list[i] : i \in fits},
                                           !.end = fits = {}]]
  /\ UNCHANGED <<ent, kids, node, refs, cwd, dead>>

Next ==
  /\ ~dead
  /\ \/ \E p \in Paths :
          \/ \E follow \in BOOLEAN : Stat(p, follow) \/ Chattr(p, follow)
          \/ Readlink(p) \/ Mkdir(p) \/ Mknod(p)
          \/ \E removedir \in BOOLEAN : Unlink(p, removedir)
          \/ \E q \in Paths : Link(p, q) \/ Rename(p, q)
          \/ \E q \in Targets : Symlink(p, q)
          \/ Chdir(p)
     \/ \E n \in Fds :
          \/ \E p \in Paths \cup {<<>>}, flags \in OpenFlags : Open(n, p, flags)
          \/ Close(n)
          \/ \E max \in 1..2 : Getdents(n, max)

Spec == Init /\ [][Next]_vars

-----------------------------------------------------------------------------
(* Properties                                                                *)

\* VNode::ref_count is the number of names that the node has in the lists of
\* children, and of open files: links, renames over an existing name, removals and
\* closes in any order keep it.
NodeRefsExact ==
  \A v \in DOMAIN node :
    refs[v] = Cardinality({e \in DOMAIN ent : ent[e].vnode = v /\ \E d \in DOMAIN kids : e \in Range(kids[d])})
              + Cardinality({n \in Fds : IsOpen(n) /\ fd[n].vnode = v})

\* An entry is on at most one list, once, and that is its parent's; and no two
\* children of a directory have the same name, names that do not exist included: a
\* create that follows a failed lookup or a removal uses the entry that is there.
NamesUnique ==
  \A d \in DOMAIN kids :
    /\ \A i, j \in DOMAIN kids[d] : i # j => ent[kids[d][i]].name # ent[kids[d][j]].name
    /\ \A i \in DOMAIN kids[d] : ent[kids[d][i]].parent = d

\* A directory that is listed to its end has shown every entry that was in it when it
\* was opened, in however many calls, unless something was removed from it or
\* replaced by a rename: names added and looked up meanwhile shift the position of
\* the others.
ListingComplete ==
  \A n \in Fds :
    IsOpen(n) /\ fd[n].end /\ ~fd[n].cut => fd[n].stay \subseteq fd[n].listed
=============================================================================
