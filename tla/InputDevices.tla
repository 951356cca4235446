---------------------------- MODULE InputDevices ----------------------------
(***************************************************************************)
(* Keyboards and mice: the bytes of the PS/2 controller as ps2_poll takes  *)
(* them apart (drivers/ps2.c), the queue of USB reports (drivers/usb.c)    *)
(* and the comparison of two reports (drivers/usb_hid.c).  The keys of the *)
(* model are one of each sort; their scan codes are the real ones.         *)
(***************************************************************************)
EXTENDS Integers, Sequences, FiniteSets

CONSTANTS
  Keys,       \* keys of the PS/2 keyboard
  UsbKeys,    \* keys of the USB keyboard
  QueueSize,  \* USB_REPORT_QUEUE_SIZE
  MaxPresses, \* presses of keys on each keyboard
  MaxMoves    \* packets of the mouse

ASSUME InputAssumption ==
  /\ Keys \subseteq {"a", "lshift", "lctrl", "rctrl", "alt", "altgr", "num", "up", "pause"}
  /\ QueueSize \in Nat \ {0, 1} /\ MaxPresses \in Nat /\ MaxMoves \in Nat

VARIABLES
  wire,   \* bytes in the output buffer of the PS/2 controller
  held,   \* keys held down on the PS/2 keyboard, presses so far
  ps2,    \* extended_scancode, the modifier and lock flags, keys reported
  mouse,  \* mouse_packet, mouse_packet_index, mouse_packet_size, packets reported
  usb,    \* the USB keyboard of machines that have one: keys held, presses
  report  \* report_queue, hid_protocol, prev_keys, caps_lock, what was lost, keys reported

inputVars == <<wire, held, ps2, mouse, usb, report>>

E0 == 224
E1 == 225
Brk == 128

\* Make codes (scan code set 1); up comes with the shift that keyboards fake
\* while Num Lock is on.
Make == [a |-> <<30>>, lshift |-> <<42>>, lctrl |-> <<29>>, rctrl |-> <<E0, 29>>, alt |-> <<56>>,
         altgr |-> <<E0, 56>>, num |-> <<69>>, up |-> <<E0, 42, E0, 72>>,
         pause |-> <<E1, 29, 69, E1, 157, 197>>]

\* Break codes; Pause has none.
Break == [a |-> <<30 + Brk>>, lshift |-> <<42 + Brk>>, lctrl |-> <<29 + Brk>>,
          rctrl |-> <<E0, 29 + Brk>>, alt |-> <<56 + Brk>>, altgr |-> <<E0, 56 + Brk>>,
          num |-> <<69 + Brk>>, up |-> <<E0, 72 + Brk, E0, 42 + Brk>>, pause |-> <<>>]

Kbd(bytes) == [i \in DOMAIN bytes |-> [from |-> "kbd", byte |-> bytes[i]]]
-----------------------------------------------------------------------------
(* The keyboard and the mouse.                                             *)

Press ==
  \E k \in Keys \ held.down :
    /\ ~usb.present /\ Len(held.typed) < MaxPresses /\ Len(wire) < 8
    /\ wire' = wire \o Kbd(Make[k])
    /\ held' = [down |-> held.down \cup {k}, typed |-> Append(held.typed, k)]
    /\ UNCHANGED <<ps2, mouse, usb, report>>

Release ==
  \E k \in held.down :
    /\ Len(wire) < 8
    /\ wire' = wire \o Kbd(Break[k])
    /\ held' = [held EXCEPT !.down = @ \ {k}]
    /\ UNCHANGED <<ps2, mouse, usb, report>>

\* A packet of the mouse; bit 3 is set in its first byte and may be in the others.
Move ==
  /\ ~usb.present /\ mouse.moves < MaxMoves /\ Len(wire) < 8
  /\ \E bits \in [2 .. mouse.size -> BOOLEAN] :
       wire' = wire \o [i \in 1 .. mouse.size |->
                          [from |-> "mouse", byte |-> mouse.moves + 1, part |-> i,
                           bit3 |-> i = 1 \/ bits[i]]]
  /\ mouse' = [mouse EXCEPT !.moves = @ + 1]
  /\ UNCHANGED <<held, ps2, usb, report>>
-----------------------------------------------------------------------------
(* ps2_poll.                                                               *)

\* 0xE1: the two codes that follow are skipped.
PausePrefix(s) == [s EXCEPT !.ext = 2]

\* Mutant: the release of an extended key keeps its prefix.
ReleasedKept(s, c) ==
  [s EXCEPT !.ctrl = @ /\ c # 29, !.alt = @ /\ c # 56, !.shift = @ /\ c # 42]

\* A break code clears its modifier; after a prefix those of the right-hand keys.
Released(s, c) ==
  IF s.ext # 0 THEN [s EXCEPT !.ext = 0, !.ctrl = @ /\ c # 29, !.altgr = @ /\ c # 56]
  ELSE [s EXCEPT !.shift = @ /\ c # 42, !.ctrl = @ /\ c # 29, !.alt = @ /\ c # 56]

Typed(s, k) == [s EXCEPT !.out = Append(@, k)]

\* A make code after a prefix.
Extended(s, c) ==
  LET t == [s EXCEPT !.ext = 0]
  IN  CASE c = 29 -> [t EXCEPT !.ctrl = TRUE]
        [] c = 56 -> [t EXCEPT !.altgr = TRUE]
        [] c = 72 -> Typed(t, "up")
        [] OTHER -> t

\* A make code on its own: modifiers, locks, or a key of the layout.
Plain(s, c) ==
  CASE c = 42 -> [s EXCEPT !.shift = TRUE]
    [] c = 29 -> [s EXCEPT !.ctrl = TRUE]
    [] c = 56 -> [s EXCEPT !.alt = TRUE]
    [] c = 69 -> [s EXCEPT !.num = ~@]
    [] c = 30 -> Typed(s, "a")
    [] OTHER -> s

KeyByte(s, b) ==
  CASE b = E0 -> [s EXCEPT !.ext = 1]
    [] b = E1 -> PausePrefix(s)
    [] b \notin {E0, E1} /\ s.ext = 2 -> [s EXCEPT !.ext = 1]
    [] b \notin {E0, E1} /\ s.ext # 2 /\ b >= Brk -> Released(s, b - Brk)
    [] b < Brk /\ s.ext = 1 -> Extended(s, b)
    [] b < Brk /\ s.ext = 0 -> Plain(s, b)

Complete(n) == n >= mouse.size

\* A byte of the mouse; a first byte without bit 3 is dropped.
MouseByte(m, b) ==
  LET packet == Append(m.packet, b)
  IN  IF Len(packet) = 1 /\ ~b.bit3 THEN m
      ELSE IF Complete(Len(packet)) THEN [m EXCEPT !.packet = <<>>, !.out = Append(@, packet)]
      ELSE [m EXCEPT !.packet = packet]

\* One turn of the loop in ps2_poll.
Ps2Poll ==
  /\ wire # <<>>
  /\ wire' = Tail(wire)
  /\ IF Head(wire).from = "mouse"
     THEN mouse' = MouseByte(mouse, Head(wire)) /\ UNCHANGED ps2
     ELSE ps2' = KeyByte(ps2, Head(wire).byte) /\ UNCHANGED mouse
  /\ UNCHANGED <<held, usb, report>>
-----------------------------------------------------------------------------
(* USB: a report lists the keys held; more than six make a rollover report.*)

Rollover == {"rollover"}

\* usb_submit_hid_report: when the queue is full the oldest report goes.
Queued(q, r) == IF Len(q) = QueueSize - 1 THEN Append(Tail(q), r) ELSE Append(q, r)

Submit(down, disturbed) ==
  report' = [report EXCEPT !.queue = Queued(@, down),
                           !.disturbed = @ \/ disturbed \/ Len(report.queue) = QueueSize - 1]

UsbPress ==
  \E k \in UsbKeys \ usb.down :
    /\ usb.present /\ Len(usb.typed) < MaxPresses
    /\ usb' = [usb EXCEPT !.down = @ \cup {k}, !.typed = Append(@, k)]
    /\ Submit(usb.down \cup {k}, FALSE)
    /\ UNCHANGED <<wire, held, ps2, mouse>>

UsbRelease ==
  \E k \in usb.down :
    /\ usb' = [usb EXCEPT !.down = @ \ {k}]
    /\ Submit(usb.down \ {k}, FALSE)
    /\ UNCHANGED <<wire, held, ps2, mouse>>

\* Too many keys at once: the keyboard cannot tell which.
UsbRollover ==
  /\ usb.down # {} /\ Len(usb.typed) < MaxPresses
  /\ Submit(Rollover, TRUE)
  /\ UNCHANGED <<wire, held, ps2, mouse, usb>>

\* usb_set_hid_boot_protocol: one protocol for all devices, that of the last one
\* enumerated, here a mouse plugged in later.
UsbMouse ==
  /\ usb.present /\ report.boot = "keyboard"
  /\ report' = [report EXCEPT !.boot = "mouse"]
  /\ UNCHANGED <<wire, held, ps2, mouse, usb>>

\* usb_poll: then every report is the mouse's, also one of the keyboard.
UsbPollPointer ==
  /\ report.queue # <<>> /\ report.boot = "mouse"
  /\ report' = [report EXCEPT !.queue = Tail(@)]
  /\ UNCHANGED <<wire, held, ps2, mouse, usb>>

NewKeys(r) == r \ report.prev

\* usb_hid_kbd_handle_report: a rollover forgets the keys held.
UsbPoll ==
  LET r == Head(report.queue)
      new == IF r = Rollover THEN {} ELSE NewKeys(r)
  IN  /\ report.queue # <<>> /\ report.boot = "keyboard"
      /\ \E order \in {<<>>} \cup {<<k>> : k \in new} \cup {<<k, l>> : k \in new, l \in new} :
           /\ {order[i] : i \in DOMAIN order} = new /\ Len(order) = Cardinality(new)
           /\ report' = [report EXCEPT !.queue = Tail(@), !.prev = IF r = Rollover THEN {} ELSE r,
                                       !.out = @ \o order,
                                       !.caps = IF "caps" \in new THEN ~@ ELSE @]
      /\ Len(report.out) <= 2 * MaxPresses
      /\ UNCHANGED <<wire, held, ps2, mouse, usb>>
-----------------------------------------------------------------------------
\* ps2_try_enable_wheel: the mouse has a wheel and says so, or the packets have 3 bytes.
WheelSizes == {3, 4}

\* ps2_init: buffers flushed, both devices enabled.
InputInit ==
  /\ wire = <<>>
  /\ held = [down |-> {}, typed |-> <<>>]
  /\ ps2 = [ext |-> 0, shift |-> FALSE, ctrl |-> FALSE, alt |-> FALSE, altgr |-> FALSE,
            num |-> FALSE, out |-> <<>>]
  /\ \E size \in WheelSizes : mouse = [packet |-> <<>>, size |-> size, moves |-> 0, out |-> <<>>]
  /\ \E present \in BOOLEAN : usb = [present |-> present, down |-> {}, typed |-> <<>>]
  /\ report = [queue |-> <<>>, prev |-> {}, caps |-> FALSE, disturbed |-> FALSE, out |-> <<>>,
               boot |-> "keyboard"]

InputNext ==
  \/ Press \/ Release \/ Move \/ Ps2Poll
  \/ UsbPress \/ UsbRelease \/ UsbRollover \/ UsbMouse \/ UsbPoll \/ UsbPollPointer
-----------------------------------------------------------------------------
(* Properties.                                                             *)

Count(s, k) == Cardinality({i \in DOMAIN s : s[i] = k})

\* Once all bytes are taken, no prefix is left over, the keys reported are the ones
\* typed, in order, and Num Lock has changed with its key and with no other, the
\* codes that Pause has in common with it included.
KeysAsTyped ==
  wire = <<>> =>
    /\ ps2.ext = 0
    /\ ps2.out = SelectSeq(held.typed, LAMBDA k : k \in {"a", "up"})
    /\ ps2.num = (Count(held.typed, "num") % 2 = 1)

\* Once all bytes are taken, the modifiers are those of the keys held, except that
\* either Ctrl key clears the flag the two share.
ModifiersFollow ==
  wire = <<>> =>
    /\ ps2.shift = ("lshift" \in held.down)
    /\ ps2.alt = ("alt" \in held.down)
    /\ ps2.altgr = ("altgr" \in held.down)
    /\ ps2.ctrl => held.down \cap {"lctrl", "rctrl"} # {}

\* However keyboard bytes are mixed in, every packet reported is one the mouse sent.
MouseInStep ==
  /\ \A i \in DOMAIN mouse.out : \A j \in DOMAIN mouse.out[i] :
       mouse.out[i][j].byte = i /\ mouse.out[i][j].part = j
  /\ wire = <<>> => Len(mouse.out) = mouse.moves

\* Unless the keyboard reported a rollover or the queue overflowed, every USB key
\* is reported once for each time it was pressed, in order; after a mouse is
\* plugged in keys get lost, but none is reported that was not pressed.
UsbKeysOnce ==
  ~report.disturbed =>
    /\ Len(report.out) <= Len(usb.typed)
    /\ \A i \in DOMAIN report.out : report.out[i] = usb.typed[i]
    /\ report.queue = <<>> /\ report.boot = "keyboard" => Len(report.out) = Len(usb.typed)

\* Keys arrive as typed, modifiers follow the keys held, and packets are cut
\* where the mouse cut them.
InputAgrees == KeysAsTyped /\ ModifiersFollow /\ MouseInStep /\ UsbKeysOnce
=============================================================================
