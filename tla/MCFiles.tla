------------------------------ MODULE MCFiles ------------------------------
(* The files that threads block on, and the buffer inside them.  A behaviour  *)
(* exercises one of six instances, which part selects:                      *)
(*   "pipe"     two threads on a pipe of one byte;                            *)
(*   "ring"     a buffer of four elements whose indices wrap after eight,     *)
(*              with writes of up to three elements and one that cannot fit;  *)
(*   "eventfd"  two threads and a counter of at most two;                     *)
(*   "pty"      two threads and buffers of two characters;                    *)
(*   "stream"   two threads, a server, a client and the connection between    *)
(*              them, with buffers of one byte;                               *)
(*   "dgram"    two threads and three local datagram sockets, one of them     *)
(*              with a name, with buffers of one datagram.                    *)
EXTENDS Pipe, Files, LocalStream, RingBuffer

ASSUME StreamsAssumption == StreamAssumption

VARIABLE part

RingInputs == {<<>>, <<1>>, <<2>>, <<1, 2>>, <<2, 1, 2>>, <<1, 1, 2, 2, 1>>}

all == <<part, vars, ring_vars, evars, yvars, svars, dvars>>

FilesInit ==
  /\ part \in {"pipe", "ring", "eventfd", "pty", "stream", "dgram"}
  /\ Init /\ RingInit /\ EventfdInit /\ PtyInit /\ StreamInit /\ DgramInit
  /\ part # "ring" => data = [i \in 0..(size - 1) |-> 1]
  /\ part # "eventfd" => counter = 0 /\ ~is_semaphore
  /\ connected = [s \in Socks |-> Null]

InPipe(A) ==
  part = "pipe" /\ A /\ UNCHANGED <<part, ring_vars, evars, yvars, svars, dvars>>

FilesNext ==
  \/ InPipe(Next)
  \/ part = "ring" /\ RingNext /\ UNCHANGED <<part, vars, evars, yvars, svars, dvars>>
  \/ part = "eventfd" /\ EventfdNext /\ UNCHANGED <<part, vars, ring_vars, yvars, svars, dvars>>
  \/ part = "pty" /\ PtyNext /\ UNCHANGED <<part, vars, ring_vars, evars, svars, dvars>>
  \/ part = "stream" /\ StreamNext /\ UNCHANGED <<part, vars, ring_vars, evars, yvars, dvars>>
  \/ part = "dgram" /\ DgramNext /\ UNCHANGED <<part, vars, ring_vars, evars, yvars, svars>>

\* The scheduler runs every READY thread in the end.
FilesSpec ==
  FilesInit /\ [][FilesNext]_all /\ \A t \in Threads : WF_all(InPipe(Resume(t)))
=============================================================================
