------------------------------- MODULE Input -------------------------------
(***************************************************************************)
(* Input devices (dev/input): a PS/2 keyboard, a PS/2 mouse or a USB       *)
(* keyboard, the buffers of the evdev files that are open on it, and the   *)
(* console, which listens to the keyboard.  All readers wait for the one   *)
(* event of the device.  A client of an evdev file keeps the state of the  *)
(* keys by the events that it reads, and asks for it again (EVIOCGKEY)     *)
(* when it opens the file and when it reads SYN_DROPPED.                   *)
(***************************************************************************)
EXTENDS WaitOps, SequencesExt, FiniteSets

CONSTANTS
  Files,
  Foreground,   \* threads of the foreground process group
  Codes,        \* scancodes of keys
  Extended,     \* [code -> key], after the prefix 0xE0; a code is a key without it
  Buttons,      \* keys that are the buttons of the mouse
  Ctrl, Intr,   \* keys: control, and the one that sends VINTR with it
  Sends,        \* [key -> number of characters that it sends to the console]
  Slots,        \* array items in the report of the USB keyboard
  Counts,       \* arguments of read
  Cap,          \* events in a listener's buffer; 128 in the code
  InputCap,     \* characters in the console's input_buffer
  MaxPending,   \* bound on the pending triggers of the event
  Null

VARIABLES
  dev,          \* "ps2", "mouse" or "usb"
  w,            \* event and thread states, see WaitOps
  key_status,
  extended,     \* the keyboard's prefix
  data,         \* the bytes of the mouse's packet so far
  previous,     \* [slot -> InputItem::previous_value]
  buf,          \* [file -> the listener's event_buffer, or Null]
  input,        \* number of characters in input_buffer
  call,         \* [thread -> the file that it reads, "console", or Null]
  view,         \* [file -> the keys that its client believes to be down]
  wild          \* a deleted listener is read

device == <<dev, key_status, extended, data, previous>>
vars == <<device, w, buf, input, call, view, wild>>

NoKey == "none"      \* KEY_RESERVED, what usage 0 stands for
Keys == Codes \cup {Extended[c] : c \in Codes} \cup {NoKey}
Least(a, b) == IF a < b THEN a ELSE b
Key(k, v) == [type |-> "key", code |-> k, value |-> v]
Rel == [type |-> "rel", code |-> NoKey, value |-> 1]
SYN_REPORT == [type |-> "syn", code |-> NoKey, value |-> 0]
SYN_DROPPED == [type |-> "dropped", code |-> NoKey, value |-> 0]

Init ==
  /\ dev \in {"ps2", "mouse", "usb"}
  /\ w = WaitState(Threads, {"event"})
  /\ key_status = {} /\ extended = FALSE /\ data = <<>>
  /\ previous = [s \in 1..Slots |-> NoKey]
  /\ buf = [f \in Files |-> Null] /\ input = 0
  /\ call = [t \in Threads |-> Null]
  /\ view = [f \in Files |-> {}] /\ wild = FALSE

-----------------------------------------------------------------------------
(* flush_events                                                              *)

\* A bug: the listener is not told that its events were dropped.
Dropped_Silent == <<>>
Dropped == <<SYN_DROPPED>>

\* What the buffer b of a listener becomes: RingBuffer::write stops when it is
\* full, and an overrun drops all that was there.
Stored(b, packet) ==
  LET s == IF Cap - Len(b) < Len(packet) THEN Dropped \o packet ELSE b \o packet
  IN  SubSeq(s, 1, Least(Len(s), Cap))

\* The console's callback reads its listener to the end: write_truncate of the
\* characters of each key, and the keys as they are now, not as they were when
\* the event was pushed.
Presses(events) == SelectSeq(events, LAMBDA e : e.type = "key" /\ e.value # 0)
Interrupts(e, status) == Ctrl \in status /\ e.code = Intr

write_truncate(count, n) ==
  LET kept == IF InputCap - count < n THEN count - Least(n, count) ELSE count
  IN  Least(kept + n, InputCap)

process_input_event(s, e, status) ==
  IF Interrupts(e, status)
  THEN [s EXCEPT !.w = FoldLeft(LAMBDA x, t : signal(x, t, FALSE), @, SetToSeq(Foreground))]
  ELSE [s EXCEPT !.input = write_truncate(@, Sends[e.code])]

flush_events(events, status) ==
  LET packet == IF events = <<>> THEN <<>> ELSE Append(events, SYN_REPORT)
      typed == FoldLeft(LAMBDA s, e : process_input_event(s, e, status),
                        [w |-> w, input |-> input],
                        IF dev = "mouse" THEN <<>> ELSE Presses(events))
  IN  /\ buf' = [f \in Files |-> IF buf[f] = Null THEN Null ELSE Stored(buf[f], packet)]
      /\ input' = typed.input
      /\ w' = trigger(typed.w, "event", FALSE)
      /\ w'.pending["event"] <= MaxPending
      /\ key_status' = status
      /\ UNCHANGED <<dev, call, view, wild>>

-----------------------------------------------------------------------------
(* The interrupt handlers of the devices                                     *)

\* Keyboard::irq, for the prefix and for a key
KeyboardPrefix ==
  /\ dev = "ps2" /\ ~extended /\ extended' = TRUE
  /\ UNCHANGED <<dev, key_status, data, previous, w, buf, input, call, view, wild>>

KeyboardIrq(code, release) ==
  LET k == IF extended THEN Extended[code] ELSE code
      repeat == ~release /\ k \in key_status
  IN  /\ dev = "ps2" /\ extended' = FALSE
      /\ flush_events(<<Key(k, IF repeat THEN 2 ELSE IF release THEN 0 ELSE 1)>>,
                      IF release THEN key_status \ {k} ELSE key_status \cup {k})
      /\ UNCHANGED <<data, previous>>

\* process_button, for each key of ks in turn: the ones in on are down.
process_button(status, ks, on) ==
  [status |-> (status \ ks) \cup (on \cap ks),
   events |-> LET changed == SelectSeq(SetToSeq(ks), LAMBDA k : (k \in status) # (k \in on))
              IN  [i \in DOMAIN changed |-> Key(changed[i], IF changed[i] \in on THEN 1 ELSE 0)]]

\* Mouse::irq: the first byte of a packet says which buttons are down and has a
\* bit that is always set; of the others only counts whether they are zero.
MouseIrq(byte) ==
  LET d == Append(data, byte)
      b == process_button(key_status, Buttons, d[1].buttons)
      moves == SelectSeq(Tail(d), LAMBDA m : m)
  IN  /\ dev = "mouse"
      /\ \/ /\ ~d[1].good \/ Len(d) < 3
            /\ data' = IF d[1].good THEN d ELSE <<>>
            /\ UNCHANGED <<dev, key_status, w, buf, input, call, view, wild>>
         \/ /\ d[1].good /\ Len(d) = 3
            /\ data' = <<>>
            /\ flush_events(b.events \o [i \in DOMAIN moves |-> Rel], b.status)
      /\ UNCHANGED <<extended, previous>>

\* usbhid's Device::event: Ctrl is a variable item, the others are in the array.
\* Every slot whose value changed presses the new key and releases the old one.
Slot(s, i, report) ==
  IF report[i] = previous[i] THEN s
  ELSE [status |-> (s.status \cup {report[i]}) \ {previous[i]},
        events |-> s.events \o <<Key(report[i], 1), Key(previous[i], 0)>>]

UsbReport(ctrl, report) ==
  LET s == FoldLeft(LAMBDA x, i : Slot(x, i, report),
                    process_button(key_status, {Ctrl}, IF ctrl THEN {Ctrl} ELSE {}),
                    [i \in 1..Slots |-> i])
  IN  /\ dev = "usb"
      /\ previous' = report
      /\ flush_events(s.events, s.status)
      /\ UNCHANGED <<extended, data>>

-----------------------------------------------------------------------------
(* Files                                                                     *)

Replay(v, events) ==
  FoldLeft(LAMBDA x, e : IF e.type # "key" THEN x
                         ELSE IF e.value = 0 THEN x \ {e.code} ELSE x \cup {e.code}, v, events)

\* EventDevNode::open, create_listener; the client asks for the state of the keys.
Open(f) ==
  /\ buf[f] = Null
  /\ buf' = [buf EXCEPT ![f] = <<>>] /\ view' = [view EXCEPT ![f] = key_status]
  /\ UNCHANGED <<device, w, input, call, wild>>

\* remove_listener: whoever sleeps in a read of the file will use it again.
Close(f) ==
  /\ buf[f] # Null
  /\ buf' = [buf EXCEPT ![f] = Null] /\ view' = [view EXCEPT ![f] = {}]
  /\ wild' = (\E t \in Threads : call[t] = f)
  /\ UNCHANGED <<device, w, input, call>>

Empty(f) == IF f = "console" THEN input = 0 ELSE buf[f] = <<>>

\* A read of n events or characters
Take(f, n) ==
  IF f = "console" THEN input' = input - Least(n, input) /\ UNCHANGED <<buf, view>>
  ELSE LET k == Least(n, Len(buf[f]))
           events == SubSeq(buf[f], 1, k)
       IN  /\ buf' = [buf EXCEPT ![f] = SubSeq(@, k + 1, Len(@))]
           /\ view' = [view EXCEPT ![f] = IF Contains(events, SYN_DROPPED) THEN key_status
                                          ELSE Replay(@, events)]
           /\ UNCHANGED input

\* InputListener::read and ConsoleDevNode::read, from the head of the loop
loop(t, s, f, n) ==
  /\ UNCHANGED <<device, wild>>
  /\ IF ~Empty(f) THEN Take(f, n) /\ w' = s /\ call' = [call EXCEPT ![t] = Null]
     ELSE /\ UNCHANGED <<buf, input, view>>
          /\ IF s.sig[t] THEN w' = s /\ call' = [call EXCEPT ![t] = Null]
             ELSE w' = sleep(drain(s, "event"), t, <<"event">>) /\ call' = [call EXCEPT ![t] = f]

Read(t, f, n) ==
  /\ w.state[t] = "active"
  /\ IF f = "console" THEN dev # "mouse" ELSE buf[f] # Null
  /\ loop(t, w, f, n)

Resume(t, n) ==
  /\ w.state[t] = "READY"
  /\ LET s == settled(resume(w, t), t)
     IN  IF Interrupted(w, t)
         THEN w' = s /\ call' = [call EXCEPT ![t] = Null] /\ UNCHANGED <<device, buf, input, view, wild>>
         ELSE loop(t, s, call[t], n)

Dispatch(t) ==
  /\ w.state[t] = "active" /\ w.sig[t]
  /\ w' = dispatch(w, t)
  /\ UNCHANGED <<device, buf, input, call, view, wild>>

Bytes == IF data = <<>> THEN [good : BOOLEAN, buttons : SUBSET Buttons] ELSE BOOLEAN
Reports == [1..Slots -> (Codes \ {Ctrl}) \cup {NoKey}]

Next ==
  /\ ~wild
  /\ \/ KeyboardPrefix
     \/ \E c \in Codes, release \in BOOLEAN : KeyboardIrq(c, release)
     \/ \E byte \in Bytes : MouseIrq(byte)
     \/ \E ctrl \in BOOLEAN, report \in Reports : UsbReport(ctrl, report)
     \/ \E f \in Files : Open(f) \/ Close(f)
     \/ \E t \in Threads, n \in Counts :
          Resume(t, n) \/ \E f \in Files \cup {"console"} : Read(t, f, n)
     \/ \E t \in Threads : Dispatch(t)

Spec == Init /\ [][Next]_vars

-----------------------------------------------------------------------------
(* Properties                                                                *)

\* A client that has read all its events knows which keys are down: whatever was
\* dropped from its buffer, it is told (input.cpp 79-100).
ClientsAgree ==
  \A f \in Files : buf[f] # Null /\ ~Contains(buf[f], SYN_DROPPED) => Replay(view[f], buf[f]) = key_status

\* Nobody sleeps in a read of a file or of the console that has something to read,
\* although all of them wait for one event, which also counts triggers that found
\* nobody, and the others may take what it announced (input.cpp 53-61, console.cpp
\* 34-40).
NobodySleepsInVain ==
  ~wild => \A t \in Threads : w.state[t] = "BLOCKED" => Empty(call[t])
=============================================================================
