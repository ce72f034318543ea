------------------------------- MODULE MCWaits ------------------------------
(* Threads, calls in which they wait for one of several things, and what they *)
(* type and see.  A behaviour exercises one of eight instances, which part    *)
(* selects:                                                                   *)
(*   "sched"  the scheduler with init's thread and the two threads of a       *)
(*            process, and signals that terminate or interrupt;               *)
(*   "ends"   two threads and the two local datagram sockets of a socketpair, *)
(*            with buffers of one datagram;                                   *)
(*   "ctl"    epoll_wait by one thread and three epoll_ctl on two files;      *)
(*   "pair"   epoll_wait by two threads on one epoll;                         *)
(*   "poll"   poll or epoll_wait by one thread, with signals and masks;       *)
(*   "keys"   two threads that read a PS/2 keyboard and the console;          *)
(*   "hid"    one thread, and a PS/2 mouse or a USB keyboard with two slots;  *)
(*   "screen" the terminal, of two lines of three characters, with tab stops  *)
(*            every two and control sequences of two arguments.               *)
EXTENDS MCScheduler, TLC

VARIABLES
  part,
  \* LocalDatagram
  dw, dring, connected, dcall, dwriters,
  \* Epoll
  pw, ready, popen, slots, timeout, first_free_event, timer, pcall, pend, mask, saved, id,
  \* Input
  dev, iw, key_status, extended, mouse_data, previous, buf, input, icall, view, iwild,
  \* Terminal
  screen, csi, twild

Q == INSTANCE LocalDatagram WITH Threads <- {ta, tb}, Socks <- {"a", "b"}, Names <- {},
       DgramCap <- 1, MaxPending <- 1

C == INSTANCE Epoll WITH Threads <- {ta, tb}, Pollers <- {}, Waiters <- {ta}, Signalled <- {},
       Files <- {"f", "g"}, MaxSlots <- 2, MaxPending <- 1, MaxCtl <- 3,
       w <- pw, open <- popen, call <- pcall
T == INSTANCE Epoll WITH Threads <- {ta, tb}, Pollers <- {}, Waiters <- {ta, tb},
       Signalled <- {}, Files <- {"f"}, MaxSlots <- 2, MaxPending <- 1, MaxCtl <- 2,
       w <- pw, open <- popen, call <- pcall
P == INSTANCE Epoll WITH Threads <- {ta, tb}, Pollers <- {ta}, Waiters <- {ta},
       Signalled <- {ta}, Files <- {"f", "g"}, MaxSlots <- 2, MaxPending <- 1, MaxCtl <- 1,
       w <- pw, open <- popen, call <- pcall

\* Two keys, one of which is an arrow key after the prefix.  The second instance has
\* room for the largest packet behind SYN_DROPPED.
ExtendedKeys == ("ctrl" :> "ctrl") @@ ("c" :> "up")
Characters == ("ctrl" :> 0) @@ ("c" :> 1) @@ ("up" :> 2) @@ ("none" :> 0)
K == INSTANCE Input WITH Threads <- {ta, tb}, Files <- {"f"}, Foreground <- {ta},
       Codes <- {"ctrl", "c"}, Extended <- ExtendedKeys, Buttons <- {"c"}, Ctrl <- "ctrl",
       Intr <- "c", Sends <- Characters, Slots <- 1, Counts <- {2}, Cap <- 4,
       InputCap <- 2, MaxPending <- 1, w <- iw, data <- mouse_data, call <- icall,
       wild <- iwild
H == INSTANCE Input WITH Threads <- {ta}, Files <- {"f"}, Foreground <- {ta},
       Codes <- {"ctrl", "c"}, Extended <- ExtendedKeys, Buttons <- {"c"}, Ctrl <- "ctrl",
       Intr <- "c", Sends <- Characters, Slots <- 2, Counts <- {2}, Cap <- 7,
       InputCap <- 2, MaxPending <- 1, w <- iw, data <- mouse_data, call <- icall,
       wild <- iwild

L == INSTANCE Terminal WITH width_chars <- 3, height_chars <- 2, Tab <- 2,
       max_csi_args <- 2, Chars <- {"a"}, Digits <- {0, 1, 2, 4}, MaxArg <- 4, wild <- twild

dvars == <<dw, dring, connected, dcall, dwriters>>
pvars == <<pw, ready, popen, slots, timeout, first_free_event, timer, pcall, pend, mask,
           saved, id>>
ivars == <<dev, iw, key_status, extended, mouse_data, previous, buf, input, icall, view,
           iwild>>
tvars == <<screen, csi, twild>>
all == <<part, vars, dvars, pvars, ivars, tvars>>

\* The variables of the parts that do not move
NoDatagrams ==
  /\ dw = Null /\ dring = Null /\ connected = Null /\ dcall = Null /\ dwriters = Null
NoPolls ==
  /\ pw = Null /\ ready = Null /\ popen = Null /\ slots = Null /\ timeout = Null
  /\ first_free_event = Null /\ timer = Null /\ pcall = Null /\ pend = Null
  /\ mask = Null /\ saved = Null /\ id = Null
NoInput ==
  /\ dev = Null /\ iw = Null /\ key_status = Null /\ extended = Null
  /\ mouse_data = Null /\ previous = Null /\ buf = Null /\ input = Null /\ icall = Null
  /\ view = Null /\ iwild = Null
NoScreen == screen = Null /\ csi = Null /\ twild = Null

WaitsInit ==
  /\ part \in {"sched", "ends", "ctl", "pair", "poll", "keys", "hid", "screen"}
  /\ Init
  /\ CASE part = "pair" -> T!Init [] part \in {"ctl", "poll"} -> C!Init [] OTHER -> NoPolls
  /\ IF part = "ends" THEN Q!DgramInit /\ connected["a"] = "b" ELSE NoDatagrams
  /\ CASE part = "keys" -> K!Init /\ dev = "ps2"
       [] part = "hid" -> H!Init /\ dev # "ps2"
       [] OTHER -> NoInput
  /\ IF part = "screen" THEN L!Init ELSE NoScreen

Polls ==
  \/ part = "ctl" /\ C!Next
  \/ part = "pair" /\ T!Next
  \/ part = "poll" /\ P!Next

WaitsNext ==
  /\ UNCHANGED part
  /\ \/ part = "sched" /\ Next /\ UNCHANGED <<dvars, pvars, ivars, tvars>>
     \/ part = "ends" /\ Q!DgramNext /\ UNCHANGED <<vars, pvars, ivars, tvars>>
     \/ Polls /\ UNCHANGED <<vars, dvars, ivars, tvars>>
     \/ part = "keys" /\ K!Next /\ UNCHANGED <<vars, dvars, pvars, tvars>>
     \/ part = "hid" /\ H!Next /\ UNCHANGED <<vars, dvars, pvars, tvars>>
     \/ part = "screen" /\ L!Next /\ UNCHANGED <<vars, dvars, pvars, ivars>>

WaitsSpec == WaitsInit /\ [][WaitsNext]_all

-----------------------------------------------------------------------------
\* allocate_events_index never appends a slot while one is free, and no file is
\* registered twice, in whatever order epoll_ctl adds, removes and adds again
\* (epoll.cpp 48-61, 78-131).
SlotsFound ==
  /\ part = "ctl" => C!SlotsFound
  /\ part = "pair" => T!SlotsFound
  /\ part = "poll" => P!SlotsFound

\* A thread that sleeps in poll or epoll_wait has nothing to report, for epoll of the
\* level-triggered files that were registered when it went to sleep, and the end of
\* its timeout will wake it unless another call took the place of its timer
\* (vfs.cpp 841-918, epoll.cpp 133-199); nobody sleeps in recvmsg or sendmsg of an
\* end of a socketpair for what is there (datagram.cpp 137, 164-169); and nobody
\* sleeps in a read of an input device or of the console that has something to read,
\* although all readers of a device wait for one event (input.cpp 53-61, console.cpp
\* 34-40), as long as no file was closed under its reader.
NobodySleepsOnReady ==
  /\ part = "ctl" => C!NobodySleepsOnReady /\ C!TimeoutIsHeard
  /\ part = "pair" => T!NobodySleepsOnReady /\ T!TimeoutIsHeard
  /\ part = "poll" => P!NobodySleepsOnReady /\ P!TimeoutIsHeard
  /\ part = "ends" => Q!DgramWakes
  /\ part = "keys" => K!NobodySleepsInVain
  /\ part = "hid" => H!NobodySleepsInVain

\* A client of an evdev file that has read all its events knows which keys are
\* down: whatever was dropped from its buffer, it is told (input.cpp 79-100).
ClientsAgree ==
  /\ part = "keys" => K!ClientsAgree
  /\ part = "hid" => H!ClientsAgree

\* The cursor stays on the screen, and what J, K, P, X and a shown character do to
\* the flat buffer is what they are for, line by line: nothing spills into another
\* line, and a full line leads to the next, scrolling at the end (terminal.cpp
\* 203-300, 365-383).  Insert mode, and P with the argument 0, are left out.
LinesAreEdited == part = "screen" => L!LinesAreEdited
=============================================================================
