----------------------------- MODULE TcpServer -----------------------------
(***************************************************************************)
(* The one-connection TCP server of drivers/netstack.c, as operators on    *)
(* the record netstack_tcp_server_t.  Sequence numbers are relative to     *)
(* the initial ones of either side: a SYN has number 0, the first unit of  *)
(* data number 1.  Addresses and ports of the other side are one value,    *)
(* its peer; checksums and lengths of headers are left out.                *)
(***************************************************************************)
EXTENDS Integers, Sequences

CONSTANTS Peers, NoPeer     \* remote address and port pairs

ASSUME PeersAssumption == NoPeer \notin Peers

Flags == {"SYN", "ACK", "FIN", "RST"}

\* A segment as parse_ipv4_tcp returns it: len units of data from seq on.
Segments == [peer : Peers, flags : SUBSET Flags, seq : Nat, ack : Nat, len : Nat]

TcpServers ==
  [enabled : BOOLEAN, state : {"CLOSED", "LISTEN", "SYN_RCVD", "ESTABLISHED"},
   peer : Peers \cup {NoPeer}, seq : Nat, ack : Nat, connections : Nat]

NoServer ==
  [enabled |-> FALSE, state |-> "CLOSED", peer |-> NoPeer, seq |-> 0, ack |-> 0,
   connections |-> 0]

ServerInit == [NoServer EXCEPT !.enabled = TRUE, !.state = "LISTEN"]

ResetPeer(srv) ==
  [srv EXCEPT !.state = IF srv.enabled THEN "LISTEN" ELSE "CLOSED",
              !.peer = NoPeer, !.seq = 0, !.ack = 0]

\* The FIN that is sent first leaves no trace: the numbers are cleared.
ServerClose(srv) == ResetPeer([srv EXCEPT !.enabled = FALSE])

\* tx_len units go out in one segment, or the driver refuses it.
ServerSend(srv, tx_len) == [srv EXCEPT !.seq = @ + tx_len]

PeerMatches(srv, seg) == srv.peer = seg.peer

\* What the poll returns besides the new record: the code, and how many
\* units of the segment are handed to the caller.
Outcome(srv, code, taken) == [srv |-> srv, code |-> code, taken |-> taken]

\* LISTEN: only a SYN is looked at; sent says whether the SYN+ACK went out.
AcceptSyn(srv, seg, sent) ==
  LET half == [srv EXCEPT !.peer = seg.peer, !.seq = 0, !.ack = seg.seq + 1,
                          !.connections = @ + 1, !.state = "SYN_RCVD"]
  IN  IF "SYN" \notin seg.flags THEN Outcome(srv, "none", 0)
      ELSE IF sent THEN Outcome(half, "syn", 0)
      ELSE Outcome(ResetPeer(half), "error", 0)

\* SYN_RCVD: a repeated SYN is answered again, the right ACK opens.
CompleteHandshake(srv, seg) ==
  IF "SYN" \in seg.flags /\ "ACK" \notin seg.flags THEN Outcome(srv, "syn", 0)
  ELSE IF "ACK" \in seg.flags /\ seg.ack = srv.seq + 1
       THEN Outcome([srv EXCEPT !.seq = @ + 1, !.state = "ESTABLISHED"], "open", 0)
       ELSE Outcome(srv, "none", 0)

\* ESTABLISHED: a FIN ends the connection, the next data in order is taken.
TakeData(srv, seg) ==
  IF "FIN" \in seg.flags THEN Outcome(ResetPeer(srv), "fin", 0)
  ELSE IF seg.len > 0 /\ seg.seq = srv.ack
       THEN Outcome([srv EXCEPT !.ack = @ + seg.len], "data", seg.len)
       ELSE Outcome(srv, "ack", 0)

\* netstack_tcp_server_poll with nothing to send and a segment received.
ServerPoll(srv, seg, sent) ==
  IF srv.state = "LISTEN" THEN AcceptSyn(srv, seg, sent)
  ELSE IF ~PeerMatches(srv, seg) THEN Outcome(srv, "none", 0)
  ELSE IF "RST" \in seg.flags THEN Outcome(ResetPeer(srv), "reset", 0)
  ELSE IF srv.state = "SYN_RCVD" THEN CompleteHandshake(srv, seg)
  ELSE TakeData(srv, seg)
=============================================================================
