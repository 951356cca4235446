-------------------------------- MODULE Xhci --------------------------------
(***************************************************************************)
(* The xHCI driver of drivers/usb_xhci.c: the command ring with its cycle  *)
(* bit, the event ring every wait loop empties in its own way, the         *)
(* enumeration of a port, the interrupt transfers of the keyboard and the  *)
(* frames of a USB network adapter.  There is one enumeration, one         *)
(* keyboard and one adapter, all in the same globals (device_slot,         *)
(* intr_ep); devices come and go.  Transfer events are told apart by the   *)
(* endpoint alone, whatever the slot, and two devices may have the same    *)
(* endpoint.  What an adapter that was replaced still receives is left     *)
(* out.                                                                    *)
(***************************************************************************)
EXTENDS Integers, Sequences, FiniteSets

CONSTANTS
  Ports,       \* root ports, 1..n
  Endpoints,   \* DCIs of the IN endpoints devices have: 2 n + 1 for endpoint n
  RingLink,    \* XHCI_RING_LINK_INDEX: commands a ring has room for
  MaxPlugs,    \* devices plugged in in a behaviour
  MaxForced,   \* rescans asked for with usb_xhci_rescan
  MaxSends,    \* frames sent
  MaxTimeouts  \* waits that end too early

ASSUME XhciAssumption ==
  /\ Ports \subseteq Nat \ {0} /\ IsFiniteSet(Ports)
  /\ Endpoints \subseteq {2 * n + 1 : n \in 1 .. 15}
  /\ RingLink \in Nat \ {0} /\ MaxPlugs \in Nat /\ MaxForced \in Nat
  /\ MaxSends \in Nat /\ MaxTimeouts \in Nat

VARIABLES
  port,    \* what is plugged in and its IN endpoint, its change bit, xhci_port_attempted,
           \* whether it was set up (result 0, phase READY), what the last scan saw
  cmdRing, \* cmd_ring: the TRBs with their cycle bit, cmd_ring_idx, cmd_cycle
  hc,      \* the controller: where it reads, its cycle, what it executed
  events,  \* the event ring, oldest first
  dev,     \* device_slot, intr_ep, the slots handed out
  kb,      \* the keyboard: its slot and endpoint, TRBs its endpoint has
  net,     \* the adapter: usbnet_in_dci, usbnet_rx_pending, usbnet_rx_ready, TRBs it has
  job,     \* the enumeration or the send under way
  late,    \* waits that ended too early
  mistaken \* a wait took the answer of another command

xhciVars == <<port, cmdRing, hc, events, dev, kb, net, job, late, mistaken>>

Kinds == {"hid", "net", "other"}
\* The DCIs of endpoint 0 and of the adapter's OUT endpoint, which is even.
Ep0 == 1
NetOut == 4
NoJob == [step |-> "none", port |-> 0, slot |-> 0, saved |-> 0, asked |-> 0,
          kind |-> "none", ep |-> 0, there |-> FALSE]
-----------------------------------------------------------------------------
(* The command ring.                                                       *)

\* Mutant: the producer keeps its cycle bit when it wraps.
WrappedSame(r) == [r EXCEPT !.idx = 0]

\* The link TRB is written with the cycle of this lap, then the bit flips.
Wrapped(r) == [r EXCEPT !.idx = 0, !.cycle = 1 - @, !.link = r.cycle]

\* xhci_cmd_enqueue: command n, and the doorbell.
Enqueued(n) ==
  LET r == [cmdRing EXCEPT !.trb[cmdRing.idx] = [cycle |-> cmdRing.cycle, id |-> n], !.idx = @ + 1]
  IN  IF r.idx >= RingLink THEN Wrapped(r) ELSE r

\* Command numbers: how many were issued.
Issue(step) ==
  /\ cmdRing' = [Enqueued(cmdRing.issued + 1) EXCEPT !.issued = @ + 1]
  /\ job' = [job EXCEPT !.step = step, !.asked = cmdRing.issued + 1]

\* The controller executes the TRB at its position if the cycle bit says so.
HcExecutes ==
  LET at == hc.at
      t == cmdRing.trb[at]
  IN  /\ at < RingLink /\ t.cycle = hc.cycle
      /\ \E ok \in BOOLEAN :
           events' = Append(events, [type |-> "cmd", id |-> t.id, ok |-> ok, ep |-> Ep0])
      /\ hc' = [hc EXCEPT !.at = @ + 1, !.done = Append(@, t.id)]
      /\ UNCHANGED <<port, cmdRing, dev, kb, net, job, late, mistaken>>

\* It follows the link once the link TRB is of its lap, and flips its own bit.
HcFollowsLink ==
  /\ hc.at = RingLink /\ cmdRing.link = hc.cycle
  /\ hc' = [hc EXCEPT !.at = 0, !.cycle = 1 - @]
  /\ UNCHANGED <<port, cmdRing, events, dev, kb, net, job, late, mistaken>>
-----------------------------------------------------------------------------
(* Interrupt transfers of the keyboard, receive transfers of the adapter.  *)

\* xhci_queue_interrupt_in: a TRB, and the doorbell of device_slot and intr_ep.
QueuedInterrupt(k, d) ==
  [k EXCEPT !.trbs = @ + 1, !.rung = @ \/ (d.slot = k.slot /\ d.intrEp = k.ep)]

\* xhci_usbnet_arm_rx: one buffer, not while it is in use.
ArmedRx(n) ==
  IF n.ready /\ ~n.pending /\ ~n.full THEN [n EXCEPT !.pending = TRUE, !.trbs = @ + 1] ELSE n

\* xhci_usbnet_handle_rx_event: the transfer ended, with a frame or an error.
HandledRx(n, e) == [n EXCEPT !.pending = FALSE, !.full = e.ok]

IsRx(e) == e.type = "xfer" /\ net.ready /\ e.ep = net.dci /\ net.pending

\* A key is pressed or released; the endpoint has a TRB for the report.
KeyReport ==
  /\ kb.ready /\ kb.trbs > 0 /\ kb.rung /\ port[kb.port].dev = "hid"
  /\ \E ok \in BOOLEAN :
       events' = Append(events, [type |-> "xfer", id |-> 0, ok |-> ok, ep |-> kb.ep])
  /\ kb' = [kb EXCEPT !.trbs = @ - 1, !.rung = @ /\ kb.trbs > 1]
  /\ UNCHANGED <<port, cmdRing, hc, dev, net, job, late, mistaken>>

\* A frame arrives in the adapter's buffer.
FrameReport ==
  /\ net.ready /\ net.trbs > 0
  /\ \E ok \in BOOLEAN :
       events' = Append(events, [type |-> "xfer", id |-> 0, ok |-> ok, ep |-> net.dci])
  /\ net' = [net EXCEPT !.trbs = @ - 1]
  /\ UNCHANGED <<port, cmdRing, hc, dev, kb, job, late, mistaken>>

\* A report, good or not, is followed by the next TRB.
Answered(k, d, e) == QueuedInterrupt(k, d)

\* xhci_handle_event, from usb_xhci_poll and usb_xhci_net_recv_frame.
HandleEvent ==
  /\ job.step = "none" /\ events # <<>>
  /\ LET e == Head(events)
     IN  /\ net' = IF IsRx(e) THEN HandledRx(net, e) ELSE net
         /\ kb' = IF e.type = "xfer" /\ ~IsRx(e) /\ e.ep = dev.intrEp /\ kb.ready
                  THEN Answered(kb, dev, e) ELSE kb
  /\ events' = Tail(events)
  /\ UNCHANGED <<port, cmdRing, hc, dev, job, late, mistaken>>

\* usb_xhci_net_recv_frame: the frame is copied out and the buffer armed again.
RecvFrame ==
  /\ job.step = "none" /\ net.ready
  /\ net' = ArmedRx([net EXCEPT !.full = FALSE])
  /\ net' # net
  /\ UNCHANGED <<port, cmdRing, hc, events, dev, kb, job, late, mistaken>>

\* usb_xhci_net_send_frame: one frame on the OUT ring, then the wait.
SendFrame ==
  /\ job.step = "none" /\ net.ready /\ net.sent < MaxSends
  /\ net' = [net EXCEPT !.sent = @ + 1]
  /\ job' = [NoJob EXCEPT !.step = "send", !.saved = dev.slot]
  /\ UNCHANGED <<port, cmdRing, hc, events, dev, kb, late, mistaken>>
-----------------------------------------------------------------------------
(* Ports.                                                                  *)

Plug ==
  \E p \in Ports, k \in Kinds, ep \in Endpoints :
    /\ port[p].dev = "none" /\ dev.plugs < MaxPlugs
    /\ port' = [port EXCEPT ![p].dev = k, ![p].ep = ep, ![p].changed = TRUE]
    /\ dev' = [dev EXCEPT !.plugs = @ + 1]
    /\ UNCHANGED <<cmdRing, hc, events, kb, net, job, late, mistaken>>

Unplug ==
  \E p \in Ports :
    /\ port[p].dev # "none"
    /\ port' = [port EXCEPT ![p].dev = "none", ![p].ep = 0, ![p].changed = TRUE]
    /\ job' = [job EXCEPT !.there = @ /\ job.port # p]
    /\ UNCHANGED <<cmdRing, hc, events, dev, kb, net, late, mistaken>>

\* xhci_prepare_port: the change bits are cleared; an empty port may be tried again.
Prepared(p) ==
  [port[p] EXCEPT !.changed = FALSE,
                  !.attempted = @ /\ port[p].dev # "none",
                  !.ready = @ /\ port[p].dev # "none"]

Waiting(pp) == {p \in Ports : pp[p].dev # "none" /\ ~pp[p].attempted}

\* xhci_scan_ports_internal: all ports are prepared, the first one waiting is
\* enumerated; the command for its slot goes out.  A forced scan tries again
\* every port that is not READY.
ScanPorts(force) ==
  LET pp == [p \in Ports |-> [Prepared(p) EXCEPT !.attempted = @ /\ (force => port[p].ready),
                                              !.seen = port[p].dev]]
      first == CHOOSE p \in Waiting(pp) : \A q \in Waiting(pp) : p <= q
  IN  /\ job.step = "none"
      /\ IF Waiting(pp) = {} THEN port' = pp /\ UNCHANGED <<cmdRing, job>>
         ELSE /\ port' = [pp EXCEPT ![first].attempted = TRUE, ![first].ready = FALSE]
              /\ cmdRing' = [Enqueued(cmdRing.issued + 1) EXCEPT !.issued = @ + 1]
              /\ job' = [NoJob EXCEPT !.step = "enable", !.port = first, !.saved = dev.slot,
                                      !.asked = cmdRing.issued + 1, !.kind = pp[first].dev,
                                      !.ep = pp[first].ep, !.there = TRUE]
      /\ UNCHANGED <<hc, events, kb, net, late, mistaken>>

\* xhci_maybe_rescan_ports: a port changed, or one is still to be tried.
Rescan ==
  /\ \E p \in Ports : port[p].changed \/ p \in Waiting(port)
  /\ ScanPorts(FALSE)
  /\ UNCHANGED dev

\* usb_xhci_rescan, from the terminal, SSH and the USB report.
ForcedRescan ==
  /\ dev.forced < MaxForced
  /\ ScanPorts(TRUE)
  /\ dev' = [dev EXCEPT !.forced = @ + 1]
-----------------------------------------------------------------------------
(* The enumeration, xhci_setup_keyboard.                                   *)

Commands == {"enable", "address", "evaluate", "configure"}
Transfers == {"device", "config", "setconfig"}

\* Mutant: the globals of the enumeration stay.
AbandonedSlot == job' = NoJob /\ UNCHANGED dev

\* An early return: device_slot is the one from before.
Abandoned == job' = NoJob /\ dev' = [dev EXCEPT !.slot = job.saved]

\* xhci_ctrl_transfer: the TRBs of endpoint 0 and the doorbell.
Control(step) == job' = [job EXCEPT !.step = step, !.asked = 0] /\ UNCHANGED cmdRing

\* The device answers a control transfer, or stalls.
DeviceAnswers ==
  /\ job.step \in Transfers /\ job.asked = 0 /\ job.there
  /\ \E ok \in BOOLEAN :
       events' = Append(events, [type |-> "xfer", id |-> job.slot, ok |-> ok, ep |-> Ep0])
  /\ job' = [job EXCEPT !.asked = job.slot]
  /\ UNCHANGED <<port, cmdRing, hc, dev, kb, net, late, mistaken>>

\* The adapter takes the frame, or reports an error.
FrameLeaves ==
  /\ job.step = "send" /\ job.asked = 0
  /\ \E ok \in BOOLEAN :
       events' = Append(events, [type |-> "xfer", id |-> net.sent, ok |-> ok, ep |-> NetOut])
  /\ job' = [job EXCEPT !.asked = net.sent]
  /\ UNCHANGED <<port, cmdRing, hc, dev, kb, net, late, mistaken>>

\* xhci_setup_usb_net ends well; a keyboard that works gets one more TRB.
NetSetUp ==
  /\ job' = NoJob
  /\ net' = [net EXCEPT !.ready = TRUE]
  /\ kb' = IF kb.ready THEN QueuedInterrupt(kb, dev) ELSE kb
  /\ UNCHANGED <<cmdRing, dev>>

\* The end of xhci_setup_keyboard, and the first interrupt transfer.
KeyboardSetUp ==
  /\ job' = NoJob
  /\ kb' = QueuedInterrupt([ready |-> TRUE, port |-> job.port, slot |-> job.slot,
                            ep |-> dev.intrEp, trbs |-> 0, rung |-> FALSE], dev)
  /\ UNCHANGED <<cmdRing, dev, net>>

\* A command or a transfer went well: what the enumeration does next.
Advance ==
  CASE job.step = "enable" ->
         \/ /\ cmdRing' = [Enqueued(cmdRing.issued + 1) EXCEPT !.issued = @ + 1]
            /\ job' = [job EXCEPT !.step = "address", !.slot = dev.slots + 1, !.asked = cmdRing.issued + 1]
            /\ dev' = [dev EXCEPT !.slot = dev.slots + 1, !.slots = @ + 1]
            /\ UNCHANGED <<kb, net>>
         \/ \* No memory for the contexts: device_slot stays at the new slot.
            /\ job' = NoJob
            /\ dev' = [dev EXCEPT !.slot = dev.slots + 1, !.slots = @ + 1, !.nomem = TRUE]
            /\ UNCHANGED <<cmdRing, kb, net>>
    [] job.step = "address" -> Control("device") /\ UNCHANGED <<dev, kb, net>>
    [] job.step = "device" -> Issue("evaluate") /\ UNCHANGED <<dev, kb, net>>
    [] job.step = "evaluate" -> Control("config") /\ UNCHANGED <<dev, kb, net>>
    [] job.step = "config" /\ job.kind = "net" -> Control("setconfig") /\ UNCHANGED <<dev, kb, net>>
    [] job.step = "config" /\ job.kind = "hid" /\ ~kb.ready ->
         Control("setconfig") /\ dev' = [dev EXCEPT !.intrEp = job.ep] /\ UNCHANGED <<kb, net>>
    [] job.step = "config" /\ job.kind = "hid" /\ kb.ready ->
         \* xhci_parse_hid has overwritten intr_ep; the slot is put back.
         /\ job' = NoJob
         /\ dev' = [dev EXCEPT !.intrEp = job.ep, !.slot = job.saved]
         /\ kb' = QueuedInterrupt(kb, dev')
         /\ UNCHANGED <<cmdRing, net>>
    [] job.step = "config" /\ job.kind = "other" -> Abandoned /\ UNCHANGED <<cmdRing, kb, net>>
    [] job.step = "send" -> job' = NoJob /\ UNCHANGED <<cmdRing, dev, kb, net>>
    [] job.step = "setconfig" /\ job.kind = "net" ->
         \* The rings and the buffer are new ones.
         /\ Issue("configure")
         /\ net' = [net EXCEPT !.dci = job.ep, !.pending = FALSE, !.full = FALSE, !.trbs = 0,
                               !.setups = @ + 1]
         /\ UNCHANGED <<dev, kb>>
    [] job.step = "setconfig" /\ job.kind = "hid" -> Issue("configure") /\ UNCHANGED <<dev, kb, net>>
    [] job.step = "configure" /\ job.kind = "net" -> NetSetUp
    [] job.step = "configure" /\ job.kind = "hid" -> KeyboardSetUp

\* What xhci_wait_for_cmd takes for its answer: the next completion, whichever.
IsCompletion(e) == e.type = "cmd"

\* xhci_wait_for_transfer_detail: by the endpoint.
IsAnswer(e) ==
  IF job.step \in Commands THEN IsCompletion(e)
  ELSE e.type = "xfer" /\ e.ep = IF job.step = "send" THEN NetOut ELSE Ep0

\* The wait loops: an event that is not the answer is dropped, a received frame kept.
WaitTakes ==
  LET e == Head(events)
  IN  /\ job.step # "none" /\ events # <<>>
      /\ events' = Tail(events)
      /\ IF IsAnswer(e)
         THEN /\ mistaken' = (mistaken \/ e.id # job.asked)
              /\ IF e.ok THEN Advance ELSE Abandoned /\ UNCHANGED <<cmdRing, kb, net>>
         ELSE /\ net' = IF job.step \notin Commands /\ IsRx(e) THEN HandledRx(net, e) ELSE net
              /\ UNCHANGED <<cmdRing, dev, kb, job, mistaken>>
      \* The port of a device that is set up is READY.
      /\ port' = IF job.step = "configure" /\ IsAnswer(e) /\ e.ok
                 THEN [port EXCEPT ![job.port].ready = TRUE] ELSE port
      /\ UNCHANGED <<hc, late>>

\* The controller or the device is slower than the loop, or it is gone.
WaitTimesOut ==
  /\ job.step # "none"
  /\ IF job.step \in Transfers /\ ~job.there /\ events = <<>> THEN UNCHANGED late
     ELSE late < MaxTimeouts /\ late' = late + 1
  /\ Abandoned
  /\ UNCHANGED <<port, cmdRing, hc, events, kb, net, mistaken>>
-----------------------------------------------------------------------------
XhciInit ==
  /\ port = [p \in Ports |-> [dev |-> "none", ep |-> 0, changed |-> FALSE, attempted |-> FALSE,
                            ready |-> FALSE, seen |-> "none"]]
  /\ cmdRing = [trb |-> [i \in 0 .. RingLink - 1 |-> [cycle |-> 0, id |-> 0]], idx |-> 0,
                cycle |-> 1, link |-> 1, issued |-> 0]
  /\ hc = [at |-> 0, cycle |-> 1, done |-> <<>>]
  /\ events = <<>>
  /\ dev = [slot |-> 0, intrEp |-> 0, slots |-> 0, plugs |-> 0, forced |-> 0, nomem |-> FALSE]
  /\ kb = [ready |-> FALSE, port |-> 0, slot |-> 0, ep |-> 0, trbs |-> 0, rung |-> FALSE]
  /\ net = [ready |-> FALSE, dci |-> 0, pending |-> FALSE, full |-> FALSE, trbs |-> 0, setups |-> 0, sent |-> 0]
  /\ job = NoJob /\ late = 0 /\ mistaken = FALSE

XhciDriver == HandleEvent \/ RecvFrame \/ SendFrame \/ Rescan \/ ForcedRescan \/ WaitTakes
XhciHardware == HcExecutes \/ HcFollowsLink \/ DeviceAnswers \/ FrameLeaves \/ KeyReport \/ FrameReport

XhciNext == XhciDriver \/ XhciHardware \/ Plug \/ Unplug \/ WaitTimesOut
-----------------------------------------------------------------------------
(* Properties.                                                             *)

\* The controller executes the commands once each and in the order they were
\* queued, lap after lap of the ring, and never stops before the last one.
CommandsOnceInOrder ==
  /\ \A i \in DOMAIN hc.done : hc.done[i] = i
  /\ Len(hc.done) <= cmdRing.issued
  /\ Len(hc.done) < cmdRing.issued =>
       hc.cycle = IF hc.at < RingLink THEN cmdRing.trb[hc.at].cycle ELSE cmdRing.link

\* As long as no wait ended too early, what a wait takes for the answer is the
\* answer to what it asked: one command or transfer is out at a time.
AnswersAreOwn == late = 0 => ~mistaken

\* The keyboard answers on the adapter's endpoint: a report of one is taken for
\* a frame of the other.
EndpointShared == kb.ready /\ kb.ep = net.dci

\* While one adapter was set up, and the keyboard does not share its endpoint,
\* the adapter's buffer has one owner: an unread frame is not overwritten, and
\* the controller has the buffer at most once.
RxBufferHasOneOwner ==
  net.setups <= 1 /\ ~EndpointShared =>
  /\ net.full => net.trbs = 0
  /\ net.trbs <= 1

\* A keyboard that is the only device ever plugged in has a TRB to answer into,
\* or a report on the way: it never goes deaf.
LoneKeyboardListens ==
  kb.ready /\ dev.plugs = 1 =>
    \/ kb.trbs = 1 /\ kb.rung
    \/ kb.trbs = 0 /\ \E i \in DOMAIN events : events[i].ep = kb.ep

\* After an enumeration that failed or found nothing new, device_slot is the
\* keyboard's again, unless memory ran out.
SlotIsPutBack ==
  (job.step = "none" /\ kb.ready /\ ~net.ready /\ ~dev.nomem) => dev.slot = kb.slot

\* A device plugged into a port that the last scan found empty, and left there,
\* is enumerated.
PortsAreTried ==
  \A p \in Ports : (port[p].dev # "none" /\ port[p].seen = "none") ~>
                     (job.port = p \/ port[p].dev = "none")

\* Rings in step with the controller: commands and transfers run once and in
\* order, an answer belongs to its question, a buffer has one owner.
RingsInStep == CommandsOnceInOrder /\ AnswersAreOwn /\ RxBufferHasOneOwner

\* A device that fails half way leaves device_slot to the keyboard; and the only
\* device ever plugged in, a keyboard, is never left without a transfer, however
\* often the ports are scanned.  (With a second device the wait loops drop the
\* keyboard's reports; nothing is promised of it then.)
DevicesKept == LoneKeyboardListens /\ SlotIsPutBack
=============================================================================
