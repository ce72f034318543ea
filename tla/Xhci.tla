-------------------------------- MODULE Xhci --------------------------------
(***************************************************************************)
(* The xHCI driver: the rings that it shares with the controller, its      *)
(* requests, the interrupt handler, and the coroutine that sets a device   *)
(* up.  The controller works on while the handler runs.  The thread that   *)
(* initialises the driver has interrupts enabled, so the answer to the     *)
(* first request of a device can come before the coroutine waits for it;   *)
(* the later ones are made by the handler, which resumes the coroutine.    *)
(***************************************************************************)
EXTENDS Integers, Sequences, SequencesExt, FiniteSets

CONSTANTS
  PortList,    \* sequence of [type, offset], the ports as the capabilities list them
  Configs,     \* configurations a device may have: sequences of descriptors
  R,           \* TRBs of an enqueue ring, the link included; 256 in the code
  E,           \* TRBs of the event ring; 256 in the code
  NumRequests, \* requests in requests_page
  Null

VARIABLES
  port,     \* [port -> [active, reset]]; reset: how the last reset ended
  at,       \* <<"reset" or "setup", port>>, where init is; <<"end", 0>>
  ring,     \* [name -> [trb, enqueue_index, cycle_bit]]
  hw,       \* [name -> [deq, cycle, halted]], the controller's side of the rings
  sent,     \* [name -> the TRBs that were enqueued and not yet executed, in order]
  events,   \* the event ring: [trb, dequeue_index, cycle_bit, enq, cycle]
  posted,   \* the events that were posted and not yet taken, in order
  busy,     \* EVENT_HANDLER_BUSY, set by an interrupt and cleared by dequeue
  pending,  \* an interrupt is pending
  isr,      \* "off", "drain" or "ack"
  free,     \* free_requests_list
  inflight, \* in_flight_requests_list
  trb_phy,  \* [request -> Request::trb_phy]
  co        \* setup_device: [stage, state, ok, reports, usable]

requests == <<free, inflight, trb_phy>>
vars == <<port, at, ring, hw, sent, events, posted, busy, pending, isr, requests, co>>

Ports == DOMAIN PortList
Requests == 1..NumRequests
Command == <<"command", 0>>
Rings == {Command} \cup ({"control", "interrupt"} \X Ports)
NoTrb == [cycle |-> 0, kind |-> "none", request |-> Null]
NoEvent == [cycle |-> 0, kind |-> "none", param |-> Null, ok |-> FALSE]
Idle == [stage |-> "none", state |-> "none", ok |-> FALSE, reports |-> 0, usable |-> FALSE]

-----------------------------------------------------------------------------
(* Ports                                                                     *)

Pairs == {<<i, j>> \in Ports \X Ports : /\ PortList[i].offset = PortList[j].offset
                                        /\ PortList[i].type = "USB3" /\ PortList[j].type = "USB2"}
PairOf(i) == CHOOSE j \in Ports : <<i, j>> \in Pairs
HasPair(i) == \E p \in Pairs : i \in {p[1], p[2]}

\* A bug: the port that failed stays active.
Failed_Kept(i) == TRUE
Failed(i) == FALSE

\* How the reset of one port may end; a port that
\* cannot be powered on is given up without being made inactive.
Outcomes(i, active) == {[active |-> active, reset |-> "ok"], [active |-> active, reset |-> "unpowered"],
                        [active |-> Failed(i), reset |-> "failed"]}

\* reset_port: a USB3 port that does not come up is given up for its USB2 pair.
reset_port(i) ==
  \E o \in Outcomes(i, TRUE) :
    IF PortList[i].type = "USB3" /\ o.reset = "failed"
    THEN \E p \in Outcomes(PairOf(i), TRUE) : port' = [port EXCEPT ![i] = o, ![PairOf(i)] = p]
    ELSE port' = [port EXCEPT ![i] = o]

-----------------------------------------------------------------------------
(* Rings                                                                     *)

EnqueueRing ==
  [trb |-> [i \in 0..(R - 1) |-> IF i = R - 1 THEN [NoTrb EXCEPT !.cycle = 1, !.kind = "link"] ELSE NoTrb],
   enqueue_index |-> 0, cycle_bit |-> 1]
Consumer == [deq |-> 0, cycle |-> 1, halted |-> FALSE]

\* A bug: the cycle bit of the link is not brought up to date.
enqueue_StaleLink(r, t) ==
  LET s == [r EXCEPT !.trb[r.enqueue_index] = [t EXCEPT !.cycle = r.cycle_bit]]
  IN  IF r.enqueue_index + 1 < R - 1 THEN [s EXCEPT !.enqueue_index = @ + 1]
      ELSE [s EXCEPT !.enqueue_index = 0, !.cycle_bit = 1 - @]

\* EnqueueRing::enqueue
enqueue(r, t) ==
  LET s == [r EXCEPT !.trb[r.enqueue_index] = [t EXCEPT !.cycle = r.cycle_bit]]
  IN  IF r.enqueue_index + 1 < R - 1 THEN [s EXCEPT !.enqueue_index = @ + 1]
      ELSE [s EXCEPT !.trb[R - 1].cycle = r.cycle_bit, !.enqueue_index = 0, !.cycle_bit = 1 - @]

\* What the controller finds from where it is, with the link it follows
TrbAt(r, c, k) == r.trb[(c.deq + k) % (R - 1)]
CycleAt(c, k) == IF c.deq + k < R - 1 THEN c.cycle ELSE 1 - c.cycle
Found(r, c) ==
  {k \in 0..(R - 2) : \A j \in 0..k : /\ TrbAt(r, c, j).cycle = CycleAt(c, j)
                                      /\ c.deq + j >= R - 1 => r.trb[R - 1].cycle = c.cycle}
Ahead(r, c) == [k \in 1..Cardinality(Found(r, c)) |-> TrbAt(r, c, k - 1)]

Advance(c) == IF c.deq + 1 < R - 1 THEN [c EXCEPT !.deq = @ + 1]
              ELSE [c EXCEPT !.deq = 0, !.cycle = 1 - @]

EventRing == [trb |-> [i \in 0..(E - 1) |-> NoEvent], dequeue_index |-> 0, cycle_bit |-> 1,
              enq |-> 0, cycle |-> 1]

\* EventRing::has_unprocessed_events
has_unprocessed_events(e) == e.trb[e.dequeue_index].cycle = e.cycle_bit

\* EventRing::dequeue
dequeue(e) == [e EXCEPT !.dequeue_index = (@ + 1) % E,
                        !.cycle_bit = IF e.dequeue_index + 1 = E THEN 1 - @ ELSE @]

-----------------------------------------------------------------------------
Init ==
  /\ port = [i \in Ports |-> [active |-> ~HasPair(i) \/ PortList[i].type = "USB3", reset |-> "none"]]
  /\ at = <<"reset", 1>>
  /\ ring = [r \in Rings |-> EnqueueRing]
  /\ hw = [r \in Rings |-> Consumer]
  /\ sent = [r \in Rings |-> <<>>]
  /\ events = EventRing
  /\ posted = <<>>
  /\ busy = FALSE /\ pending = FALSE /\ isr = "off"
  /\ free = [i \in Requests |-> i]
  /\ inflight = <<>>
  /\ trb_phy = [i \in Requests |-> Null]
  /\ co = Idle

-----------------------------------------------------------------------------
(* The controller (external): it executes the TRBs of a ring in order, one   *)
(* event for a command, a report or an event data TRB, and one for the stage *)
(* of a transfer that fails, which halts the endpoint.                       *)

Post(kind, param, ok) ==
  LET ev == [cycle |-> events.cycle, kind |-> kind, param |-> param, ok |-> ok]
  IN  /\ (events.enq + 1) % E # events.dequeue_index
      /\ events' = [events EXCEPT !.trb[events.enq] = ev, !.enq = (@ + 1) % E,
                                  !.cycle = IF events.enq + 1 = E THEN 1 - @ ELSE @]
      /\ posted' = Append(posted, ev)
      /\ pending' = (pending \/ ~busy)
      /\ busy' = TRUE

Silent == UNCHANGED <<events, posted, pending, busy>>

Execute(r) ==
  LET ahead == Ahead(ring[r], hw[r])
      trb == Head(ahead)
      phy == <<r, hw[r].deq>>
  IN  /\ ahead # <<>> /\ ~hw[r].halted
      /\ \/ trb.kind = "command" /\ \E ok \in BOOLEAN : Post("command", phy, ok)
         \/ trb.kind = "stage" /\ Silent
         \/ trb.kind = "stage" /\ Post("transfer", phy, FALSE)
         \/ trb.kind = "event_data" /\ Post("event_data", trb.request, TRUE)
         \/ trb.kind = "normal" /\ Post("report", r[2], TRUE)
      /\ hw' = [hw EXCEPT ![r] = [Advance(@) EXCEPT !.halted = (trb.kind = "stage" /\ posted' # posted)]]
      /\ sent' = [sent EXCEPT ![r] = Tail(@)]
      /\ UNCHANGED <<port, at, ring, isr, requests, co>>

-----------------------------------------------------------------------------
(* Requests.  A state of the driver is [ring, sent, free, inflight, trb_phy, *)
(* co]; what is called inside a handler maps one to the next.                *)

Driver == [ring |-> ring, sent |-> sent, free |-> free, inflight |-> inflight,
           trb_phy |-> trb_phy, co |-> co]

Put(s, r, t) == LET trb == [cycle |-> s.ring[r].cycle_bit, kind |-> t[1], request |-> t[2]]
                IN  [s EXCEPT !.ring[r] = enqueue(@, trb), !.sent[r] = Append(@, trb)]

Commands == {"ENABLE_SLOT", "ADDRESS_DEVICE", "EVALUATE_CONTEXT", "CONFIGURE_ENDPOINT"}
NoData == {"SET_CONFIGURATION", "SET_PROTOCOL"}

\* The TRBs of send_usb_request and of send_usb_request_no_data
Transfer(stage, q) ==
  [i \in 1..(IF stage \in NoData THEN 2 ELSE 3) |-> <<"stage", Null>>] \o << <<"event_data", q>> >>

\* send_command, send_usb_request, send_usb_request_no_data: alloc_request, the
\* TRBs, trb_phy that of the last.  The awaitable has its result when there is
\* no request: a status that is not a success.  `how' is the state of the
\* coroutine afterwards.
send(s, stage, how) ==
  LET q == Head(s.free)
      r == IF stage \in Commands THEN Command ELSE <<"control", at[2]>>
      trbs == IF stage \in Commands THEN << <<"command", q>> >> ELSE Transfer(stage, q)
      last == (s.ring[r].enqueue_index + Len(trbs) - 1) % (R - 1)
  IN  IF s.free = <<>> THEN [s EXCEPT !.co.state = "end"]
      ELSE [FoldLeft(LAMBDA u, t : Put(u, r, t), s, trbs) EXCEPT
              !.free = Tail(@), !.inflight = Append(@, q), !.trb_phy[q] = <<r, last>>,
              !.co.stage = stage, !.co.state = how]

\* free_request
free_request(s, q) == [s EXCEPT !.inflight = SelectSeq(@, LAMBDA x : x # q), !.free = Append(@, q)]

request_usb_interrupt_report(s, p) == Put(s, <<"interrupt", p>>, <<"normal", Null>>)

-----------------------------------------------------------------------------
(* setup_device: the stages that may follow the one that was answered        *)

Identify(stage) ==
  CASE stage = "ENABLE_SLOT" -> {"ADDRESS_DEVICE"}
    [] stage = "ADDRESS_DEVICE" -> {"DEVICE_HEAD"}
    [] stage = "DEVICE_HEAD" -> {"EVALUATE_CONTEXT", "DEVICE"}
    [] stage = "EVALUATE_CONTEXT" -> {"DEVICE"}
    [] stage = "DEVICE" -> {"LANGUAGE"}
    [] OTHER -> {}

\* Each of the three strings is asked for when the device has it.
Describe(stage) ==
  LET order == <<"LANGUAGE", "MANUFACTURER", "PRODUCT", "SERIAL", "CONFIGURATION">>
  IN  {order[j] : j \in {k \in DOMAIN order : \E i \in 1..(k - 1) : order[i] = stage}}

\* The walk over the configuration.  An interface that is not a mouse or a
\* keyboard is skipped up to the next interface, and that one with it: the
\* length of the interface is added to ptr once more after the switch.
parse(config) ==
  FoldLeft(LAMBDA s, d :
             IF s.skip THEN [s EXCEPT !.skip = d \notin {"hid_interface", "interface"}]
             ELSE [s EXCEPT !.skip = d = "interface", !.hid = @ \/ d = "hid_interface",
                            !.endpoint = @ \/ d = "endpoint", !.reports = @ + (IF d = "hid" THEN 1 ELSE 0)],
           [skip |-> FALSE, hid |-> FALSE, endpoint |-> FALSE, reports |-> 0], config)

Configured(stage) ==
  CASE stage = "SET_CONFIGURATION" -> {"CONFIGURE_ENDPOINT"}
    [] stage = "CONFIGURE_ENDPOINT" -> {"SET_PROTOCOL"}
    [] OTHER -> {}

\* After the configuration: its string, the reports, then SET_CONFIGURATION
Continue(s, how) ==
  IF s.co.reports > 0 THEN send([s EXCEPT !.co.reports = @ - 1], "HID_REPORT", how)
  ELSE IF s.co.usable THEN send(s, "SET_CONFIGURATION", how)
  ELSE [s EXCEPT !.co.state = "end"]

\* What the coroutine does next, as a set of outcomes
resume(s, ok, how) ==
  LET stage == s.co.stage
      fixed == Identify(stage) \cup Describe(stage) \cup Configured(stage)
      end == [s EXCEPT !.co.state = "end"]
      read(c) == LET p == parse(c)
                 IN  [s EXCEPT !.co.reports = p.reports, !.co.usable = p.hid /\ p.endpoint]
  IN  IF ~ok /\ stage # "CONFIG_STRING" THEN {end}
      ELSE IF stage = "CONFIGURATION"
           THEN {end} \cup UNION {{send(read(c), "CONFIG_STRING", how), Continue(read(c), how)} : c \in Configs}
      ELSE IF stage \in {"CONFIG_STRING", "HID_REPORT"} THEN {Continue(s, how)}
      ELSE IF stage = "SET_PROTOCOL" THEN {request_usb_interrupt_report(end, at[2])}
      ELSE {send(s, t, how) : t \in fixed}

Becomes(s) ==
  /\ ring' = s.ring /\ sent' = s.sent /\ co' = s.co
  /\ free' = s.free /\ inflight' = s.inflight /\ trb_phy' = s.trb_phy

-----------------------------------------------------------------------------
(* init, in the kernel's thread, which the interrupt handler may interrupt   *)

After(i, what) == IF i < Len(PortList) THEN <<what, i + 1>>
                  ELSE IF what = "reset" THEN <<"setup", 1>> ELSE <<"end", 0>>

Reset ==
  /\ at[1] = "reset"
  /\ IF port[at[2]].active THEN reset_port(at[2]) ELSE UNCHANGED port
  /\ at' = After(at[2], "reset")
  /\ UNCHANGED <<ring, hw, sent, events, posted, busy, pending, isr, requests, co>>

\* klib::sync(setup_device(i)), up to the first request
Start ==
  /\ at[1] = "setup" /\ isr = "off" /\ co.state = "none" /\ port[at[2]].active
  /\ Becomes(send(Driver, "ENABLE_SLOT", "sent"))
  /\ UNCHANGED <<port, at, hw, events, posted, busy, pending, isr>>

\* co_await: await_ready, and then await_suspend
AwaitReady ==
  /\ isr = "off"
  /\ \/ co.state = "sent" /\ Becomes([Driver EXCEPT !.co.state = "checked"])
     \/ co.state = "answered" /\ \E s \in resume(Driver, co.ok, "sent") : Becomes(s)
  /\ UNCHANGED <<port, at, hw, events, posted, busy, pending, isr>>

AwaitSuspend ==
  /\ isr = "off" /\ co.state \in {"checked", "late"}
  /\ Becomes([Driver EXCEPT !.co.state = IF @ = "late" THEN "lost" ELSE "suspended"])
  /\ UNCHANGED <<port, at, hw, events, posted, busy, pending, isr>>

\* The coroutine ended, or the port is not active: the next port
NextPort ==
  /\ at[1] = "setup" /\ isr = "off"
  /\ co.state = "end" \/ (co.state = "none" /\ ~port[at[2]].active)
  /\ at' = After(at[2], "setup") /\ co' = Idle
  /\ UNCHANGED <<port, ring, hw, sent, events, posted, busy, pending, isr, requests>>

-----------------------------------------------------------------------------
(* The interrupt handler                                                     *)

\* RequestCallback::invoke: the coroutine goes on if it is suspended, and finds
\* the result if it has not yet looked for it.
invoke(s, ok) ==
  CASE s.co.state = "suspended" -> resume(s, ok, "suspended")
    [] s.co.state = "sent" -> {[s EXCEPT !.co.state = "answered", !.co.ok = ok]}
    [] s.co.state = "checked" -> {[s EXCEPT !.co.state = "late"]}
    [] OTHER -> {s}

\* The request of an event: the event says which, or its TRB is looked for.
RequestsOf(ev) == IF ev.kind = "event_data" THEN {ev.param}
                  ELSE {q \in ToSet(inflight) : trb_phy[q] = ev.param}

handle(ev) ==
  IF ev.kind = "report" THEN {request_usb_interrupt_report(Driver, ev.param)}
  ELSE IF RequestsOf(ev) = {} THEN {Driver}
  ELSE UNION {{free_request(s, q) : s \in invoke(Driver, ev.ok)} : q \in RequestsOf(ev)}

IrqEnter ==
  /\ pending /\ isr = "off"
  /\ pending' = FALSE /\ isr' = "drain"
  /\ UNCHANGED <<port, at, ring, hw, sent, events, posted, busy, requests, co>>

\* dequeue tells the controller that events up to here were handled; it
\* interrupts again if there are more.  A bug: it does not clear the flag.
Cleared_Not(e) == busy' = busy /\ UNCHANGED pending
Cleared(e) == busy' = has_unprocessed_events(e) /\ pending' = (pending \/ has_unprocessed_events(e))

IrqDequeue ==
  /\ isr = "drain" /\ has_unprocessed_events(events)
  /\ events' = dequeue(events) /\ posted' = Tail(posted)
  /\ Cleared(events')
  /\ \E s \in handle(events.trb[events.dequeue_index]) : Becomes(s)
  /\ UNCHANGED <<port, at, hw, isr>>

IrqLeave ==
  /\ isr = "drain" /\ ~has_unprocessed_events(events) /\ isr' = "ack"
  /\ UNCHANGED <<port, at, ring, hw, sent, events, posted, busy, pending, requests, co>>

\* acknowledge_irq and eoi
IrqAck ==
  /\ isr = "ack" /\ isr' = "off"
  /\ UNCHANGED <<port, at, ring, hw, sent, events, posted, busy, pending, requests, co>>

Next ==
  \/ Reset \/ Start \/ AwaitReady \/ AwaitSuspend \/ NextPort
  \/ IrqEnter \/ IrqDequeue \/ IrqLeave \/ IrqAck
  \/ \E r \in Rings : Execute(r)

Spec == Init /\ [][Next]_vars

-----------------------------------------------------------------------------
(* Properties                                                                *)

Shown(e) ==
  LET n == (e.enq - e.dequeue_index + E) % E
  IN  [k \in 1..n |-> e.trb[(e.dequeue_index + k - 1) % E]]

\* From the TRB that the controller reads next, the cycle bits lead through
\* exactly the TRBs that were enqueued and not executed, in their order, across
\* the link and however often the ring wrapped; and from the event that the
\* driver reads next, through exactly the events that were posted.
RingsAreQueues ==
  /\ \A r \in Rings : Ahead(ring[r], hw[r]) = sent[r]
  /\ Shown(events) = posted
  /\ has_unprocessed_events(events) <=> posted # <<>>

\* A coroutine that waits has one request in flight; every request in flight
\* has its last TRB on a ring or its event on the event ring, unless the
\* endpoint halted on an earlier stage; the others are free; and as long as
\* events are posted, an interrupt is pending or the handler will look again.
AnswerIsUnderWay ==
  /\ Len(free) + Len(inflight) = NumRequests /\ ToSet(free) \cup ToSet(inflight) = Requests
  /\ co.state \in {"sent", "checked", "suspended"} => Len(inflight) = 1
  /\ \A q \in ToSet(inflight) :
       LET r == trb_phy[q][1]
       IN  \/ hw[r].halted \/ \E t \in ToSet(sent[r]) : t.request = q
           \/ \E ev \in ToSet(posted) : ev.kind # "report" /\ q \in RequestsOf(ev)
  /\ posted # <<>> => pending \/ isr = "drain"

\* A device is set up on no port whose reset failed, and never on both halves
\* of a connector, though a port may be reset twice.
SetUpWherePresent ==
  /\ at[1] # "reset" => \A i \in Ports : port[i].active => port[i].reset \in {"ok", "unpowered"}
  /\ at[1] # "reset" => \A p \in Pairs : ~(port[p[1]].active /\ port[p[2]].active)
=============================================================================
