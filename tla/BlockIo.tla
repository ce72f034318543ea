------------------------------ MODULE BlockIo ------------------------------
(***************************************************************************)
(* Reads and writes of a virtio disk: BlockDevNode calls klib::sync, the   *)
(* coroutines of BlockInterface issue one request per block, and the       *)
(* interrupt handler resumes them until the last one wakes the caller.     *)
(* System calls run with interrupts off until they sleep, so a coroutine   *)
(* runs from one suspension to the next in a single step.                  *)
(***************************************************************************)
EXTENDS VirtQueue, SequencesExt

CONSTANTS
  Threads,   \* user threads
  L,         \* Queue::length
  Requests,  \* the Request objects of requests_page
  Page,      \* PAGE_SIZE, in bytes
  Calls,     \* arguments: [dir, skew : buf_virt % PAGE_SIZE, count, offset,
             \*   bad : the bytes at which a page begins that cannot be mapped]
  MaxCalls,  \* bound on the calls of a thread
  Null

VARIABLES
  q,         \* the queue
  free_reqs, \* the free list from first_free_request
  chain,     \* [descriptor -> [req, page] of the chain it heads, or Null]
  callback,  \* [request -> the frame that its RequestCallback resumes, or Null]
  frame,     \* [thread -> coroutine frame of its call, or Null]
  st,        \* [thread -> "user", "asleep", "woken" or "eintr"]
  sig,       \* threads with a pending signal
  calls,     \* [thread -> calls so far]
  pages,     \* temporary pages: allocated and not freed
  wild       \* a completion resumed a frame that was destroyed

vars == <<q, free_reqs, chain, callback, frame, st, sig, calls, pages, wild>>

Init ==
  /\ q = QueueInit(L)
  /\ free_reqs = SetToSeq(Requests)
  /\ chain = [d \in 0..(L - 1) |-> Null]
  /\ callback = [r \in Requests |-> Null]
  /\ frame = [t \in Threads |-> Null]
  /\ st = [t \in Threads |-> "user"]
  /\ sig = {}
  /\ calls = [t \in Threads |-> 0]
  /\ pages = {}
  /\ wild = FALSE

-----------------------------------------------------------------------------
(* read_write and read_write_blocks: which blocks are transferred, through a *)
(* temporary page or straight to the buffer, and which bytes of the buffer   *)
(* (numbered from 0) each of them fills from which byte of the block.        *)

Least(a, b) == IF a < b THEN a ELSE b

Part(c, at, n) == [block |-> (c.offset + at) \div Page, tmp |-> TRUE, at |-> at, n |-> n]

\* A bug: a whole block is read from the block after it.
Whole_Next(c, at, k) ==
  [block |-> (c.offset + at) \div Page + k + 1, tmp |-> FALSE, at |-> at + k * Page, n |-> Page]
Whole(c, at, k) ==
  [block |-> (c.offset + at) \div Page + k, tmp |-> FALSE, at |-> at + k * Page, n |-> Page]

read_write(c) ==
  LET first == IF c.skew = 0 THEN 0 ELSE Least(Page - c.skew, c.count)
      full == (c.count - first) \div Page
      last == c.count - first - full * Page
  IN  (IF c.skew = 0 THEN <<>> ELSE <<Part(c, 0, first)>>)
      \o [k \in 1..full |-> Whole(c, first, k - 1)]
      \o (IF last = 0 THEN <<>> ELSE <<Part(c, first + full * Page, last)>>)

-----------------------------------------------------------------------------
(* The state s of a step: [q, free_reqs, chain, callback, frame, pages].      *)

Here == [q |-> q, free_reqs |-> free_reqs, chain |-> chain, callback |-> callback,
         frame |-> frame, pages |-> pages]

Becomes(s) ==
  /\ q' = s.q /\ free_reqs' = s.free_reqs /\ chain' = s.chain
  /\ callback' = s.callback /\ frame' = s.frame /\ pages' = s.pages

\* A frame is known by its thread and the number of its call.
Id(s, t) == [thread |-> t, n |-> s.frame[t].n]

\* read_write_block for the frame of t.  When a request or a descriptor is
\* missing, all that was taken is given back and the result is -ENOMEM.
Room(s) == s.free_reqs # <<>> /\ s.q.num >= 3

read_write_block(s, t, page) ==
  LET r == Head(s.free_reqs)
      d1 == s.q.free
      q1 == alloc_descriptor(s.q)
      d2 == q1.free
      q2 == alloc_descriptor(q1)
      d3 == q2.free
      q3 == [alloc_descriptor(q2) EXCEPT !.next[d1] = d2, !.next[d2] = d3]
  IN  [s EXCEPT !.free_reqs = Tail(@), !.q = submit_descriptor(q3, d1),
                !.chain[d1] = [req |-> r, page |-> page], !.callback[r] = Id(s, t)]

\* The coroutine goes on to its next block, or ends with its result: -EFAULT when
\* the page of a whole block cannot be mapped, which is looked up block by block.
advance(s, t) ==
  LET f == s.frame[t]
      tmp == Head(f.todo).tmp
      fault == ~tmp /\ Head(f.todo).at \in f.call.bad
  IN  IF f.todo = <<>> THEN [s EXCEPT !.frame[t].end = TRUE]
      ELSE IF fault \/ ~Room(s) THEN [s EXCEPT !.frame[t] = [f EXCEPT !.end = TRUE, !.err = TRUE]]
      ELSE [read_write_block(s, t, IF tmp THEN Id(s, t) ELSE Null) EXCEPT
              !.pages = IF tmp THEN @ \cup {Id(s, t)} ELSE @]

\* A block is there: the coroutine copies it if it went to the temporary page,
\* which it frees, and advances.
resume_frame(s, t) ==
  advance([s EXCEPT !.frame[t].done = Append(@, Head(s.frame[t].todo)),
                    !.frame[t].todo = Tail(@),
                    !.pages = @ \ {Id(s, t)}], t)

\* A bug: the descriptors of a chain are freed from its head on.
free_chain_HeadFirst(p, d) ==
  LET p1 == free_descriptor(p, d)
      p2 == free_descriptor(p1, p1.next[d])
  IN  free_descriptor(p2, p2.next[p2.next[d]])

free_chain(p, d) ==
  LET p1 == free_descriptor(p, p.next[p.next[d]])
      p2 == free_descriptor(p1, p1.next[d])
  IN  free_descriptor(p2, d)

\* The frame that the callback of the request r resumes still exists.
Alive(s, r) ==
  LET g == s.callback[r] IN s.frame[g.thread] # Null /\ s.frame[g.thread].n = g.n

\* BlockDevice::irq for one used descriptor: the callback, which may submit the
\* next request before this one is free.
complete(s, d) ==
  LET r == s.chain[d].req
      s1 == IF Alive(s, r) THEN resume_frame(s, s.callback[r].thread) ELSE s
  IN  [s1 EXCEPT !.free_reqs = <<r>> \o @, !.q = free_chain(@, d), !.chain[d] = Null,
                 !.callback[r] = Null]

-----------------------------------------------------------------------------
\* BlockDevNode::read and write: sync starts the coroutine and waits.  When it has
\* ended already the event is pending, and when a signal is pending the wait
\* returns at once: then the frame is destroyed with what it holds.
Call(t, c) ==
  LET f == [call |-> c, n |-> calls[t] + 1, todo |-> read_write(c), done |-> <<>>,
            end |-> FALSE, err |-> FALSE]
      s == advance([Here EXCEPT !.frame[t] = f], t)
  IN
  /\ ~wild /\ st[t] = "user" /\ calls[t] < MaxCalls
  /\ calls' = [calls EXCEPT ![t] = @ + 1]
  /\ st' = [st EXCEPT ![t] = IF t \in sig THEN "eintr"
                             ELSE IF s.frame[t].end THEN "woken" ELSE "asleep"]
  /\ Becomes(s)
  /\ UNCHANGED <<sig, wild>>

\* The device finishes requests in any order.
Device(d) ==
  /\ ~wild
  /\ \E i \in DOMAIN q.avail : q.avail[i] = d
  /\ q' = DeviceUses(q, d)
  /\ UNCHANGED <<free_reqs, chain, callback, frame, st, sig, calls, pages, wild>>

\* BlockDevice::irq.  A coroutine that ends triggers the event of its caller.
irq ==
  LET s == FoldLeft(complete, Here, Visible(q)) IN
  /\ ~wild /\ q.used # <<>>
  /\ Becomes([s EXCEPT !.q = seen(@)])
  /\ wild' = \E i \in DOMAIN Visible(q) : ~Alive(Here, chain[Visible(q)[i]].req)
  /\ st' = [t \in Threads |-> IF st[t] = "asleep" /\ s.frame[t].end THEN "woken" ELSE st[t]]
  /\ UNCHANGED <<sig, calls>>

Signal(t) ==
  /\ ~wild /\ t \notin sig
  /\ sig' = sig \cup {t}
  /\ st' = [st EXCEPT ![t] = IF @ = "asleep" THEN "eintr" ELSE @]
  /\ UNCHANGED <<q, free_reqs, chain, callback, frame, calls, pages, wild>>

\* sync returns and destroys the frame, finished or not; the system call returns
\* and the signal is dispatched.
Return(t) ==
  /\ ~wild /\ st[t] \in {"woken", "eintr"}
  /\ st' = [st EXCEPT ![t] = "user"]
  /\ frame' = [frame EXCEPT ![t] = Null]
  /\ pages' = pages \ {Id(Here, t)}
  /\ sig' = sig \ {t}
  /\ UNCHANGED <<q, free_reqs, chain, callback, calls, wild>>

Next ==
  \/ \E t \in Threads : (\E c \in Calls : Call(t, c)) \/ Signal(t) \/ Return(t)
  \/ \E d \in 0..(L - 1) : Device(d)
  \/ irq

Spec == Init /\ [][Next]_vars

-----------------------------------------------------------------------------
InFlight == {d \in 0..(L - 1) : chain[d] # Null}

\* No descriptor and no request is lost or in two places, whatever is submitted
\* from inside the completion of another request: the chains in flight are
\* disjoint, and with the free lists they are everything (virtio.cpp 106-123,
\* 185-187, 202-207).
Accounted ==
  LET links(d) == {d, q.next[d], q.next[q.next[d]]}
      held == {chain[d].req : d \in InFlight}
  IN  /\ \A d \in InFlight : Cardinality(links(d)) = 3 /\ links(d) \cap FreeList(q) = {}
      /\ \A d, e \in InFlight : d # e => links(d) \cap links(e) = {} /\ chain[d].req # chain[e].req
      /\ q.num = L - 3 * Cardinality(InFlight) /\ Cardinality(FreeList(q)) = q.num
      /\ held \cap Range(free_reqs) = {} /\ held \cup Range(free_reqs) = Requests

\* A call that ends without an error transferred what was asked for when its
\* buffer and its offset are aligned: each byte of the buffer once, from the byte
\* of the disk that belongs there (block.cpp 21-86).  A block that is only partly
\* written is excluded: its temporary page is filled after it was sent.
MovesWhatWasAsked ==
  \A t \in Threads : frame[t] # Null =>
     LET c == frame[t].call
         xs == frame[t].done
     IN  /\ frame[t].end /\ ~frame[t].err /\ c.skew = 0 /\ c.offset % Page = 0 =>
              \A b \in 0..(c.count - 1) :
                 \E i \in DOMAIN xs :
                    /\ \A j \in DOMAIN xs : b \in xs[j].at..(xs[j].at + xs[j].n - 1) <=> j = i
                    /\ xs[i].block * Page + (b - xs[i].at) = c.offset + b

\* sync returns unfinished work only to a thread that a signal woke
\* (async.hpp 265-272): the completion of an interrupted call is the only one that
\* finds its frame gone, and until then the page that the device fills is held.
FrameOutlivesRequest ==
  /\ \A t \in Threads : st[t] = "woken" => frame[t].end
  /\ \A d \in InFlight :
        Alive(Here, chain[d].req) /\ chain[d].page # Null => chain[d].page \in pages
  /\ \A t \in Threads : st[t] = "asleep" =>
        \E d \in InFlight : callback[chain[d].req] = Id(Here, t)
=============================================================================
