------------------------------ MODULE NetRings ------------------------------
(***************************************************************************)
(* The Ethernet drivers of drivers/net.c: the choice of a controller, and  *)
(* the receive and transmit rings of the e1000, of virtio-net and of the   *)
(* RTL8139, each with its own way of telling who owns a buffer.  Frames    *)
(* are numbered as they arrive and as the stack sends them; USB adapters   *)
(* are in module Xhci.                                                     *)
(***************************************************************************)
EXTENDS Integers, Sequences, FiniteSets

CONSTANTS
  RxDesc,    \* NET_RX_DESC_COUNT, VIRTIO_RX_DESC_COUNT
  TxDesc,    \* NET_TX_DESC_COUNT, VIRTIO_TX_DESC_COUNT, RTL8139_TX_DESC_COUNT
  RtlRing,   \* bytes of the RTL8139 receive ring, 8192 in the code
  Lengths,   \* bytes of a frame on that ring
  MaxFrames  \* frames in each direction

ASSUME NetRingsAssumption ==
  /\ RxDesc \in Nat \ {0, 1} /\ TxDesc \in Nat \ {0, 1} /\ MaxFrames \in Nat
  /\ RtlRing \in Nat \ {0} /\ RtlRing % 4 = 0 /\ Lengths \subseteq Nat \ {0}

VARIABLES
  nic,       \* net_driver_kind, initialized and link_up
  rx,        \* the receive ring
  tx,        \* the transmit ring
  delivered, \* frames the controller put into a buffer, in order
  received,  \* frames the driver took out of a buffer, in order
  accepted,  \* frames net_send_ethernet accepted
  onWire     \* frames that left

netRingVars == <<nic, rx, tx, delivered, received, accepted, onWire>>

RxSlots == 0 .. RxDesc - 1
TxSlots == 0 .. TxDesc - 1
Is(kind) == nic.kind = kind
-----------------------------------------------------------------------------
(* Set-up.                                                                 *)

\* e1000_setup_rx: the controller may fill all buffers but one; rtl8139_init_device:
\* the byte ring, read and written from offset 0; virtio_net_seed_rx: all buffers.
EmptyRx ==
  [buf |-> [i \in RxSlots |-> 0], dd |-> [i \in RxSlots |-> FALSE], next |-> 0,
   head |-> 0, tail |-> RxDesc - 1, avail |-> [i \in 1 .. RxDesc |-> i - 1], used |-> <<>>,
   packets |-> <<>>, offset |-> 0, cbr |-> 0]

\* e1000_setup_tx, virtio_net_init_modern_device: every buffer is the driver's.
EmptyTx ==
  [buf |-> [i \in TxSlots |-> 0], free |-> [i \in TxSlots |-> TRUE], tail |-> 0,
   queue |-> <<>>, used |-> <<>>]

\* net_init: an Intel controller before virtio, virtio before the RTL8139, which is
\* tried too when virtio does not come up.
Chosen(present, virtioWorks) ==
  CASE "e1000" \in present -> "e1000"
    [] "e1000" \notin present /\ "virtio" \in present /\ virtioWorks -> "virtio"
    [] "e1000" \notin present /\ "rtl8139" \in present /\ ~("virtio" \in present /\ virtioWorks) -> "rtl8139"
    [] OTHER -> "none"

\* virtio_net_init_legacy_device, else virtio_net_init_modern_device: features
\* and both queues, or the device is marked failed.
VirtioUp == BOOLEAN

NetInit ==
  /\ nic.kind = "none"
  /\ \E present \in SUBSET {"e1000", "virtio", "rtl8139"}, works \in VirtioUp, link \in BOOLEAN :
       LET k == Chosen(present, works)
       IN  k # "none" /\ nic' = [kind |-> k, link |-> link \/ k = "virtio"]
  /\ UNCHANGED <<rx, tx, delivered, received, accepted, onWire>>

\* e1000_refresh_link, rtl8139_refresh_link; virtio is always up.
LinkChanges ==
  /\ nic.kind \in {"e1000", "rtl8139"}
  /\ nic' = [nic EXCEPT !.link = ~@]
  /\ UNCHANGED <<rx, tx, delivered, received, accepted, onWire>>
-----------------------------------------------------------------------------
(* Receiving.                                                              *)

NewFrame == Len(delivered) + 1
Taken(id) == received' = Append(received, id)

\* The controller has descriptors from its head up to the tail register.
E1000Fills ==
  /\ Is("e1000") /\ NewFrame <= MaxFrames /\ rx.head # rx.tail
  /\ rx' = [rx EXCEPT !.buf[rx.head] = NewFrame, !.dd[rx.head] = TRUE, !.head = (@ + 1) % RxDesc]
  /\ delivered' = Append(delivered, NewFrame)
  /\ UNCHANGED <<nic, tx, received, accepted, onWire>>

\* Mutant: the tail is moved past the buffer that follows.
TailAhead == (rx.next + 1) % RxDesc

\* The tail becomes the buffer that was just read.
TailAfter == rx.next

E1000Recv ==
  /\ Is("e1000") /\ rx.dd[rx.next]
  /\ Taken(rx.buf[rx.next])
  /\ rx' = [rx EXCEPT !.dd[rx.next] = FALSE, !.tail = TailAfter, !.next = (@ + 1) % RxDesc]
  /\ UNCHANGED <<nic, tx, delivered, accepted, onWire>>

\* virtio: a buffer made available is filled and listed as used.
VirtioFills ==
  /\ Is("virtio") /\ NewFrame <= MaxFrames /\ rx.avail # <<>>
  /\ rx' = [rx EXCEPT !.buf[Head(rx.avail)] = NewFrame, !.used = Append(@, Head(rx.avail)),
                      !.avail = Tail(@)]
  /\ delivered' = Append(delivered, NewFrame)
  /\ UNCHANGED <<nic, tx, received, accepted, onWire>>

\* virtio_net_recv_ethernet: the buffer is made available again, whatever was in it.
GivenBack(id, good) == Append(rx.avail, id)

VirtioRecv ==
  /\ Is("virtio") /\ rx.used # <<>>
  /\ Taken(rx.buf[Head(rx.used)])
  /\ \E good \in BOOLEAN :
       rx' = [rx EXCEPT !.used = Tail(@), !.avail = GivenBack(Head(rx.used), good)]
  /\ UNCHANGED <<nic, tx, delivered, accepted, onWire>>

\* A packet takes a header of 4 bytes, its bytes, and the rest of a word.
RtlAdvance(offset, len) == (((offset + len + 4 + 3) \div 4) * 4) % RtlRing

\* net_recv_ethernet: rtl_rx_offset after a packet.
RtlNext(offset, len) ==
  LET o == ((offset + len + 4 + 3) \div 4) * 4
  IN  IF o >= RtlRing THEN o - RtlRing ELSE o

\* Bytes of packets the driver has not passed.
RtlBytes == (rx.cbr - rx.offset + RtlRing) % RtlRing

RtlFills ==
  /\ Is("rtl8139") /\ NewFrame <= MaxFrames
  /\ \E len \in Lengths :
       /\ RtlBytes + len + 8 < RtlRing
       /\ rx' = [rx EXCEPT !.packets = Append(@, [at |-> rx.cbr, len |-> len, id |-> NewFrame]),
                           !.cbr = RtlAdvance(rx.cbr, len)]
  /\ delivered' = Append(delivered, NewFrame)
  /\ UNCHANGED <<nic, tx, received, accepted, onWire>>

\* The packets but the i-th.
PacketsWithout(i) ==
  [j \in 1 .. Len(rx.packets) - 1 |-> rx.packets[IF j < i THEN j ELSE j + 1]]

\* The header at rtl_rx_offset is the packet's, unless the offset is out of step.
RtlRecv ==
  LET here == {i \in DOMAIN rx.packets : rx.packets[i].at = rx.offset}
      i == CHOOSE i \in here : TRUE
      p == rx.packets[i]
  IN  /\ Is("rtl8139") /\ rx.packets # <<>>
      /\ IF here = {} THEN Taken(0) /\ UNCHANGED rx
         ELSE /\ Taken(p.id)
              /\ rx' = [rx EXCEPT !.offset = RtlNext(rx.offset, p.len),
                                  !.packets = PacketsWithout(i)]
      /\ Len(received) < MaxFrames
      /\ UNCHANGED <<nic, tx, delivered, accepted, onWire>>
-----------------------------------------------------------------------------
(* Sending.                                                                *)

NextSent == Len(accepted) + 1

\* e1000 and RTL8139 use the buffer at the tail once it has gone out, virtio the
\* first one that is not in flight, from virtio_tx_next on, after reclaiming.
SendSlots ==
  IF Is("virtio")
  THEN {s \in TxSlots : /\ tx.free[s]
                        /\ \A t \in TxSlots : tx.free[t] =>
                             (s - tx.tail + TxDesc) % TxDesc <= (t - tx.tail + TxDesc) % TxDesc}
  ELSE {s \in {tx.tail} : tx.free[s]}

\* virtio_net_reclaim_tx: what the device has listed as used is free again.
Reclaim ==
  /\ Is("virtio") /\ tx.used # <<>>
  /\ tx' = [tx EXCEPT !.free[Head(tx.used)] = TRUE, !.used = Tail(@)]
  /\ UNCHANGED <<nic, rx, delivered, received, accepted, onWire>>

\* The frame is in the buffer of the slot, which the controller now has.
HandedOver(s) ==
  [tx EXCEPT !.buf[s] = NextSent, !.free[s] = FALSE, !.queue = Append(@, s),
             !.tail = (s + 1) % TxDesc]

\* net_send_ethernet: copied into the buffer, handed over.
Send ==
  /\ nic.kind # "none" /\ nic.link /\ NextSent <= MaxFrames
  /\ Is("virtio") => tx.used = <<>>
  /\ \E s \in SendSlots : tx' = HandedOver(s)
  /\ accepted' = Append(accepted, NextSent)
  /\ UNCHANGED <<nic, rx, delivered, received, onWire>>

\* The controller takes the oldest buffer and sends what it holds.  The e1000 has
\* descriptors from its head up to the tail register: if the driver hands over all
\* of them before one is sent, head and tail agree and the ring looks empty for ever.
Transmit ==
  /\ tx.queue # <<>> /\ (Is("e1000") => Head(tx.queue) # tx.tail)
  /\ onWire' = Append(onWire, tx.buf[Head(tx.queue)])
  /\ tx' = [tx EXCEPT !.queue = Tail(@),
                      !.free = IF Is("virtio") THEN @ ELSE [@ EXCEPT ![Head(tx.queue)] = TRUE],
                      !.used = IF Is("virtio") THEN Append(@, Head(tx.queue)) ELSE @]
  /\ UNCHANGED <<nic, rx, delivered, received, accepted>>
-----------------------------------------------------------------------------
NetRingsInit ==
  /\ nic = [kind |-> "none", link |-> FALSE]
  /\ rx = EmptyRx /\ tx = EmptyTx
  /\ delivered = <<>> /\ received = <<>> /\ accepted = <<>> /\ onWire = <<>>

NetController == E1000Fills \/ VirtioFills \/ RtlFills \/ Transmit
NetDriver == NetInit \/ E1000Recv \/ VirtioRecv \/ RtlRecv \/ Reclaim \/ Send

NetRingsNext == NetController \/ NetDriver \/ LinkChanges
-----------------------------------------------------------------------------
(* Properties.                                                             *)

\* The driver takes the frames in the order they came, each once, none of them
\* overwritten before it was read and none skipped, at every wrap of a ring.
RxInOrder ==
  Len(received) <= Len(delivered) /\ \A i \in DOMAIN received : received[i] = delivered[i]

\* No receive buffer is lost: those the controller may fill and those it has filled
\* are always the same number.
RxBuffersKept ==
  /\ Is("e1000") => ((rx.tail - rx.head + RxDesc) % RxDesc) + Cardinality({i \in RxSlots : rx.dd[i]}) = RxDesc - 1
  /\ Is("virtio") => Len(rx.avail) + Len(rx.used) = RxDesc

\* Frames leave as they were accepted: in order, once, with what the stack put in.
TxInOrder ==
  Len(onWire) <= Len(accepted) /\ \A i \in DOMAIN onWire : onWire[i] = accepted[i]

\* Frames pass both rings once, whole and in order, and no buffer gets lost.
RingsKeepFrames == RxInOrder /\ RxBuffersKept /\ TxInOrder
=============================================================================
