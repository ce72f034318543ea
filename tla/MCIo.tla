-------------------------------- MODULE MCIo --------------------------------
(* Events, and the three drivers that complete requests in interrupts: the    *)
(* virtio block device, the virtio network device with ARP and IP above it,   *)
(* and the xHCI controller.  They share no state, so a behaviour is of one    *)
(* part.                                                                      *)
EXTENDS MCEventList

CONSTANTS Io, ip, r1, r2, r3

VARIABLES
  part,  \* the part that moves
  \* BlockIo
  q, free_reqs, chain, callback, bframe, st, sig, calls, pages, bwild,
  \* Net
  tx, tx_callbacks, rx, packet, arp_cache, arp_request_callback, nframe, sends,
  tasks, io, arrived, cut, stuck, nwild,
  \* Xhci
  port, at, ring, hw, sent, events, posted, busy, pending, isr, free, inflight,
  trb_phy, co

\* A read of two blocks and a half, one of two bytes into memory that crosses a page,
\* and one of two blocks into memory whose second page cannot be mapped.
Reads == {[dir |-> "r", skew |-> 0, count |-> 5, offset |-> 2, bad |-> {}],
          [dir |-> "r", skew |-> 1, count |-> 2, offset |-> 0, bad |-> {}],
          [dir |-> "r", skew |-> 0, count |-> 4, offset |-> 0, bad |-> {2}]}
B == INSTANCE BlockIo WITH L <- 7, Requests <- {r1, r2, r3}, Page <- 2, Calls <- Reads,
       MaxCalls <- 1, frame <- bframe, wild <- bwild

N == INSTANCE Net WITH Ips <- {ip}, TxLength <- 2, RxLength <- 2, Lengths <- {8},
       MaxFragment <- 8, MaxSends <- 1, MaxIn <- 2, frame <- nframe, wild <- nwild

\* One connector with a USB 3 and a USB 2 port, and devices whose interfaces are
\* a keyboard, a keyboard behind another interface, and one without an endpoint.
Connector == <<[type |-> "USB3", offset |-> 0], [type |-> "USB2", offset |-> 0]>>
Devices == {<<"hid_interface", "hid", "endpoint">>,
            <<"interface", "endpoint", "hid_interface">>, <<"hid_interface">>}
X == INSTANCE Xhci WITH PortList <- Connector, Configs <- Devices, R <- 6, E <- 3,
       NumRequests <- 2

evars == <<m, s, waits, hits>>
bvars == <<q, free_reqs, chain, callback, bframe, st, sig, calls, pages, bwild>>
nvars == <<tx, tx_callbacks, rx, packet, arp_cache, arp_request_callback, nframe, sends,
           tasks, io, arrived, cut, stuck, nwild>>
xvars == <<port, at, ring, hw, sent, events, posted, busy, pending, isr, free, inflight,
           trb_phy, co>>
all == <<part, evars, bvars, nvars, xvars>>

\* The variables of the parts that do not move
NoBlock ==
  /\ q = Null /\ free_reqs = Null /\ chain = Null /\ callback = Null /\ bframe = Null
  /\ st = Null /\ sig = Null /\ calls = Null /\ pages = Null /\ bwild = Null
NoNet ==
  /\ tx = Null /\ tx_callbacks = Null /\ rx = Null /\ packet = Null /\ arp_cache = Null
  /\ arp_request_callback = Null /\ nframe = Null /\ sends = Null /\ tasks = Null
  /\ io = Null /\ arrived = Null /\ cut = Null /\ stuck = Null /\ nwild = Null
NoUsb ==
  /\ port = Null /\ at = Null /\ ring = Null /\ hw = Null /\ sent = Null
  /\ events = Null /\ posted = Null /\ busy = Null /\ pending = Null /\ isr = Null
  /\ free = Null /\ inflight = Null /\ trb_phy = Null /\ co = Null

IoInit ==
  /\ part \in {"events", "block", "net", "usb"}
  /\ Init
  /\ IF part = "block" THEN B!Init ELSE NoBlock
  /\ IF part = "net" THEN N!Init ELSE NoNet
  /\ IF part = "usb" THEN X!Init ELSE NoUsb

IoNext ==
  /\ UNCHANGED part
  /\ \/ part = "events" /\ Next /\ UNCHANGED <<bvars, nvars, xvars>>
     \/ part = "block" /\ B!Next /\ UNCHANGED <<evars, nvars, xvars>>
     \/ part = "net" /\ N!Next /\ UNCHANGED <<evars, bvars, xvars>>
     \/ part = "usb" /\ X!Next /\ UNCHANGED <<evars, bvars, nvars>>

IoSpec == IoInit /\ [][IoNext]_all

-----------------------------------------------------------------------------
\* No descriptor, request, temporary page or receive buffer is lost or is in two
\* places, whatever order the devices complete requests in and whichever calls a
\* signal ends (virtio.cpp's queues, virtio_blk_transfer_coroutine, the
\* IoService's tasks).
NothingLost == (part = "block" => B!Accounted) /\ (part = "net" => N!BuffersAccounted)

\* Whoever awaits a device has its answer to come, and that will find it: a
\* frame is there as long as its request is, every coroutine that is suspended is
\* in the slot that resumes it, and a request that setup_device awaits is in
\* flight with the command or transfer that completes it.  The ways in which the
\* code does lose an answer are excepted: a signal that ends klib::sync, a callback
\* set after the completion or overwritten by a second ARP lookup (stuck in Net),
\* and an endpoint that halts on an earlier stage (Xhci).
AnswersComeBack ==
  /\ part = "block" => B!FrameOutlivesRequest
  /\ part = "net" => N!AnswerIsToCome
  /\ part = "usb" => X!AnswerIsUnderWay

\* A read into a buffer and from an offset that begin with a page moves each byte
\* that was asked for once, to its place, whatever its length and whatever other
\* calls are in flight (BlockInterface::read_write); and the fragments of a datagram
\* are the datagram (net.cpp, ipv4_send).
DataIsWhatWasAsked ==
  /\ part = "block" => B!MovesWhatWasAsked
  /\ part = "net" => N!FragmentsAreTheDatagram

\* What the controller finds on a command or transfer ring is what was enqueued,
\* in order, and what dequeue finds on the event ring is what was posted, on
\* every lap (xhci.cpp, EnqueueRing and EventRing).
RingsAreQueues == part = "usb" => X!RingsAreQueues

\* A device is set up where it is: on a port that is reset, or that could not be
\* powered, and on one port of a connector only (xhci.cpp, init and reset_port).
SetUpWherePresent == part = "usb" => X!SetUpWherePresent
=============================================================================
