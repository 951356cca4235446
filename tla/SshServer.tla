----------------------------- MODULE SshServer -----------------------------
(***************************************************************************)
(* The SSH server of system/ssh.c on top of TcpServer: ssh_poll, the       *)
(* negotiation, the authentication, one session channel, and the commands  *)
(* of the console that change the service.  The other side is a client     *)
(* that follows the protocol, behind a network that may lose, repeat,      *)
(* reorder and cut up its segments, and may lose ours.                     *)
(*                                                                         *)
(* A packet of the client is two units of its stream, so that a segment    *)
(* can end in the middle of one.  Names, keys and texts are left out: an   *)
(* encrypted packet carries the position of the cipher stream it was made  *)
(* at, and the text of a command is counted in chunks of CHANNEL_DATA.     *)
(***************************************************************************)
EXTENDS TcpServer, SequencesExt, FiniteSetsExt

CONSTANTS
  MaxPackets,      \* packets a client writes in one connection
  MaxUnits,        \* units of the stream in one segment
  Window,          \* units the client writes ahead of what was acknowledged
  IdleTimeout,     \* SSH_SESSION_IDLE_TIMEOUT_TICKS
  ClosePolls,      \* polls between a staged disconnect and the close
  MaxAttempts,     \* auth_max_attempts
  LockoutTicks,    \* auth_lockout_seconds
  TextCap,         \* SSH_CHANNEL_TEXT_BUF, in chunks
  MaxChunks,       \* the longest text of a command, in chunks
  MaxConnections,  \* SYNs the listener counts before it is opened again
  MaxCommands,     \* commands given at the console
  Chats            \* what the client may say on the channel

ASSUME SshAssumption ==
  /\ {MaxPackets, MaxUnits, Window, ClosePolls, MaxConnections} \subseteq Nat \ {0}
  /\ {MaxAttempts, LockoutTicks, TextCap} \subseteq Nat \ {0}
  /\ {IdleTimeout, MaxChunks, MaxCommands} \subseteq Nat
  /\ Chats \subseteq {"EXEC", "PTY", "SHELL", "LINE", "EXIT", "EOF"}

VARIABLES
  given,   \* commands given at the console so far
  host,    \* srv: the TCP server; svc: the service; ssh: the negotiation
  wire,    \* what the server sent on its connection, and how much arrived
  cli      \* the client: its connection and what it wrote on it

sshVars == <<given, host, wire, cli>>
-----------------------------------------------------------------------------
(* State of the service.                                                   *)

\* Everything ssh_reset_negotiation clears.
Negotiation0 ==
  [server_kexinit_sent |-> FALSE, client_kexinit_seen |-> FALSE, algorithms |-> FALSE,
   ecdh_ready |-> FALSE, ecdh_reply_sent |-> FALSE, newkeys_sent |-> FALSE,
   client_newkeys_seen |-> FALSE, disconnect_sent |-> FALSE,
   in_encrypted |-> FALSE, out_encrypted |-> FALSE, seq_in |-> 0, seq_out |-> 0,
   ctr_s2c |-> 0, service_accept |-> FALSE, service_accept_sent |-> FALSE,
   authenticated |-> FALSE, auth_failure |-> FALSE, auth_success |-> FALSE,
   open_confirm |-> FALSE, success |-> FALSE, failure |-> FALSE,
   shell_ready |-> FALSE, data |-> FALSE, tx_len |-> 0, tx_off |-> 0,
   exit_status |-> FALSE, close |-> FALSE, close_sent |-> FALSE,
   binary_rx |-> <<>>, encrypted_rx |-> <<>>]

\* What outlives a connection.
Service0 ==
  [enabled |-> FALSE, seen |-> 0, banner_sent |-> FALSE, client_banner_seen |-> FALSE,
   close_polls |-> 0, idle |-> 0, auth_configured |-> TRUE, failures |-> 0, lockout |-> 0]

Host0 == [srv |-> NoServer, svc |-> Service0, ssh |-> Negotiation0]

ResetNegotiation(h) == [h EXCEPT !.ssh = Negotiation0]

Connected(h) == h.svc.enabled /\ h.srv.state = "ESTABLISHED"

HasPendingTx(h) ==
  \/ h.ssh.service_accept \/ h.ssh.auth_failure \/ h.ssh.auth_success
  \/ h.ssh.open_confirm \/ h.ssh.success \/ h.ssh.failure \/ h.ssh.data
  \/ h.ssh.exit_status \/ h.ssh.close \/ h.svc.close_polls > 0

\* Mutant: the keys and flags of the connection before are kept.
RefreshStateKeeps(h) ==
  IF h.srv.connections = h.svc.seen THEN h
  ELSE [h EXCEPT !.svc.seen = h.srv.connections, !.svc.idle = 0, !.svc.close_polls = 0,
                 !.svc.banner_sent = FALSE, !.svc.client_banner_seen = FALSE]

\* ssh_refresh_state: a connection counted since the last look starts afresh.
RefreshState(h) ==
  IF h.srv.connections = h.svc.seen THEN h
  ELSE [ResetNegotiation(h) EXCEPT
          !.svc.seen = h.srv.connections, !.svc.idle = 0, !.svc.close_polls = 0,
          !.svc.banner_sent = FALSE, !.svc.client_banner_seen = FALSE]

\* The listener after netstack_tcp_server_init, shared by those below.
Listening(h) ==
  [ResetNegotiation(h) EXCEPT !.srv = ServerInit, !.svc.seen = 0, !.svc.close_polls = 0]

ReopenListener(h) == RefreshState([Listening(h) EXCEPT !.svc.idle = 0])

EnsureListenerAlive(h) ==
  IF h.srv.enabled /\ h.srv.state # "CLOSED" THEN h ELSE ReopenListener(h)
-----------------------------------------------------------------------------
(* What the server sends: ssh_poll takes the first kind that is due.       *)

\* Mutant: the status is sent before the text.
TxOrderStatusFirst ==
  <<"BANNER", "KEXINIT", "DISCONNECT", "ECDH_REPLY", "NEWKEYS", "SERVICE_ACCEPT",
    "AUTH_SUCCESS", "AUTH_FAILURE", "OPEN_CONFIRM", "SUCCESS", "FAILURE",
    "EXIT_STATUS", "DATA", "CLOSE">>

TxOrder ==
  <<"BANNER", "KEXINIT", "DISCONNECT", "ECDH_REPLY", "NEWKEYS", "SERVICE_ACCEPT",
    "AUTH_SUCCESS", "AUTH_FAILURE", "OPEN_CONFIRM", "SUCCESS", "FAILURE", "DATA",
    "EXIT_STATUS", "CLOSE">>

Due(h) ==
  LET s == h.ssh
  IN  [BANNER |-> ~h.svc.banner_sent,
       KEXINIT |-> h.svc.client_banner_seen /\ ~s.server_kexinit_sent,
       DISCONNECT |-> /\ s.server_kexinit_sent /\ s.client_kexinit_seen
                      /\ ~s.algorithms /\ ~s.disconnect_sent,
       ECDH_REPLY |-> s.ecdh_ready /\ ~s.ecdh_reply_sent,
       NEWKEYS |-> s.ecdh_reply_sent /\ ~s.newkeys_sent,
       SERVICE_ACCEPT |-> /\ s.newkeys_sent /\ s.client_newkeys_seen
                          /\ s.service_accept /\ ~s.service_accept_sent,
       AUTH_SUCCESS |-> s.auth_success, AUTH_FAILURE |-> s.auth_failure,
       OPEN_CONFIRM |-> s.open_confirm, SUCCESS |-> s.success, FAILURE |-> s.failure,
       DATA |-> s.data, EXIT_STATUS |-> s.exit_status, CLOSE |-> s.close]

TxKind(h) ==
  LET due == {i \in DOMAIN TxOrder : Connected(h) /\ Due(h)[TxOrder[i]]}
  IN  IF due = {} THEN "NONE" ELSE TxOrder[Min(due)]

PlainKinds == {"BANNER", "KEXINIT", "DISCONNECT", "ECDH_REPLY", "NEWKEYS"}

\* A plain packet is always built; an encrypted one needs the keys.
Builds(h, kind) == kind \in PlainKinds \/ h.ssh.out_encrypted

\* The packet as the client gets it: its number goes into the MAC, and the
\* cipher starts from ctr_s2c, which moves only when the packet was sent.
Packet(h, kind) ==
  [kind |-> kind, seq |-> h.ssh.seq_out,
   ctr |-> IF kind \in PlainKinds THEN 0 ELSE h.ssh.ctr_s2c + 1]

\* The flags that a packet sent changes.
SentFlags(h, kind) ==
  CASE kind = "BANNER" -> [h EXCEPT !.svc.banner_sent = TRUE]
    [] kind = "KEXINIT" -> [h EXCEPT !.ssh.server_kexinit_sent = TRUE]
    [] kind = "DISCONNECT" -> [h EXCEPT !.ssh.disconnect_sent = TRUE,
                                        !.svc.close_polls = ClosePolls]
    [] kind = "ECDH_REPLY" -> [h EXCEPT !.ssh.ecdh_reply_sent = TRUE]
    [] kind = "NEWKEYS" -> [h EXCEPT !.ssh.newkeys_sent = TRUE, !.ssh.out_encrypted = TRUE]
    [] kind = "SERVICE_ACCEPT" -> [h EXCEPT !.ssh.service_accept_sent = TRUE,
                                            !.ssh.service_accept = FALSE]
    [] kind = "AUTH_SUCCESS" -> [h EXCEPT !.ssh.auth_success = FALSE]
    [] kind = "AUTH_FAILURE" -> [h EXCEPT !.ssh.auth_failure = FALSE]
    [] kind = "OPEN_CONFIRM" -> [h EXCEPT !.ssh.open_confirm = FALSE]
    [] kind = "SUCCESS" -> [h EXCEPT !.ssh.success = FALSE]
    [] kind = "FAILURE" -> [h EXCEPT !.ssh.failure = FALSE]
    [] kind = "DATA" -> IF h.ssh.tx_off + 1 < h.ssh.tx_len
                        THEN [h EXCEPT !.ssh.tx_off = @ + 1]
                        ELSE [h EXCEPT !.ssh.data = FALSE, !.ssh.tx_len = 0, !.ssh.tx_off = 0]
    [] kind = "EXIT_STATUS" -> [h EXCEPT !.ssh.exit_status = FALSE]
    [] kind = "CLOSE" -> [h EXCEPT !.ssh.close = FALSE, !.ssh.close_sent = TRUE]

\* Mutant: the counter of the cipher is not moved by the last chunk of a text.
SentCountersStuck(h, kind) ==
  [h EXCEPT !.ssh.seq_out = IF kind = "BANNER" THEN @ ELSE @ + 1,
            !.ssh.ctr_s2c = IF kind \in PlainKinds \cup {"DATA"} THEN @ ELSE @ + 1,
            !.svc.idle = 0]

\* The counters that a packet sent moves; the banner is not a packet.
SentCounters(h, kind) ==
  [h EXCEPT !.ssh.seq_out = IF kind = "BANNER" THEN @ ELSE @ + 1,
            !.ssh.ctr_s2c = IF kind \in PlainKinds THEN @ ELSE @ + 1,
            !.svc.idle = 0]

Sent(h, kind) == SentFlags(SentCounters(h, kind), kind)
-----------------------------------------------------------------------------
(* What the server does with a packet of the client; c is the length of    *)
(* the text a command answers with.                                        *)

\* ssh_queue_channel_text: append to what is pending, cut at the buffer.
QueueText(s, c) ==
  LET start == IF s.data THEN s.tx_len ELSE 0
  IN  IF c = 0 \/ start >= TextCap THEN s
      ELSE [s EXCEPT !.tx_off = IF s.data THEN @ ELSE 0,
                     !.tx_len = Min({start + c, TextCap}), !.data = TRUE]

ProcessKexinit(h, m) ==
  [h EXCEPT !.ssh.client_kexinit_seen = TRUE, !.ssh.algorithms = (m = "KEXINIT")]

ProcessKexdhInit(h) == [h EXCEPT !.ssh.ecdh_ready = TRUE]

ProcessNewkeys(h) ==
  [h EXCEPT !.ssh.client_newkeys_seen = TRUE, !.ssh.in_encrypted = TRUE]

ProcessService(h) == [h EXCEPT !.ssh.service_accept = TRUE]

\* ssh_note_auth_failure: the attempt that reaches the limit locks.
NoteAuthFailure(h) ==
  LET n == h.svc.failures + 1
  IN  [h EXCEPT !.ssh.auth_failure = TRUE,
                !.svc.failures = IF n >= MaxAttempts THEN 0 ELSE n,
                !.svc.lockout = IF n >= MaxAttempts THEN LockoutTicks ELSE @]

NoteAuthSuccess(h) ==
  [h EXCEPT !.ssh.authenticated = TRUE, !.ssh.auth_success = TRUE,
            !.svc.failures = 0, !.svc.lockout = 0]

ProcessUserauth(h, m) ==
  IF h.svc.lockout > 0 \/ ~h.svc.auth_configured THEN [h EXCEPT !.ssh.auth_failure = TRUE]
  ELSE IF m = "AUTH_GOOD" THEN NoteAuthSuccess(h) ELSE NoteAuthFailure(h)

\* A session channel starts with nothing of an earlier one.
ProcessChannelOpen(h) ==
  IF ~h.ssh.authenticated THEN [h EXCEPT !.ssh.failure = TRUE]
  ELSE [h EXCEPT !.ssh.shell_ready = FALSE, !.ssh.success = FALSE, !.ssh.failure = FALSE,
                 !.ssh.data = FALSE, !.ssh.exit_status = FALSE, !.ssh.close = FALSE,
                 !.ssh.close_sent = FALSE, !.ssh.tx_len = 0, !.ssh.tx_off = 0,
                 !.ssh.open_confirm = TRUE]

\* ssh_remote_exec_execute: the text, then the status, then the close.
ExecExecute(h, c) ==
  [h EXCEPT !.ssh = [QueueText(@, c) EXCEPT !.exit_status = TRUE, !.close = TRUE]]

\* ssh_remote_shell_execute: the echo, the text and the prompt, or the end.
ShellExecute(h, m, c) ==
  IF m = "EXIT" THEN ExecExecute(h, 1)
  ELSE [h EXCEPT !.ssh = QueueText(@, 1 + c)]

ProcessChannelRequest(h, m, c) ==
  IF ~h.ssh.authenticated THEN h
  ELSE LET ok == [h EXCEPT !.ssh.success = TRUE]
       IN  CASE m = "PTY" -> ok
             [] m = "SHELL" -> [ok EXCEPT !.ssh = [QueueText(@, 1) EXCEPT !.shell_ready = TRUE]]
             [] m = "EXEC" -> ExecExecute(ok, c)

ProcessChannelData(h, m, c) ==
  IF h.ssh.shell_ready THEN ShellExecute(h, m, c) ELSE h

ProcessChannelEof(h) ==
  IF h.ssh.close_sent THEN h ELSE [h EXCEPT !.ssh.close = TRUE]

ProcessPacket(h, m, c) ==
  CASE m \in {"KEXINIT", "KEXINIT_NONE"} -> ProcessKexinit(h, m)
    [] m = "NEWKEYS" -> ProcessNewkeys(h)
    [] m = "ECDH" -> ProcessKexdhInit(h)
    [] m = "SERVICE" -> ProcessService(h)
    [] m \in {"AUTH_GOOD", "AUTH_BAD"} -> ProcessUserauth(h, m)
    [] m = "OPEN" -> ProcessChannelOpen(h)
    [] m \in {"PTY", "SHELL", "EXEC"} -> ProcessChannelRequest(h, m, c)
    [] m \in {"LINE", "EXIT"} -> ProcessChannelData(h, m, c)
    [] m = "EOF" -> ProcessChannelEof(h)
-----------------------------------------------------------------------------
(* How segments become packets again.  A unit is its number in the stream. *)

PacketOf(u) == (u + 1) \div 2

Whole(rx) == Len(rx) >= 2 /\ rx[2] = rx[1] + 1 /\ rx[1] % 2 = 1

\* The packets after the client's NEWKEYS are encrypted.
IsEncrypted(k) == \E i \in 1 .. k - 1 : cli.out[i] = "NEWKEYS"

\* The MAC of an encrypted packet covers its number; the banner has none.
MacAgrees(h, k) == IsEncrypted(k) /\ h.ssh.seq_in = k - 2

Processed(h, k, c) == [ProcessPacket(h, cli.out[k], c) EXCEPT !.ssh.seq_in = @ + 1]

\* ssh_drain_binary_packets: bytes that are no packet empty the buffer, and
\* what follows a NEWKEYS is left for the cipher.
DrainBinary(h, c) ==
  LET rx == h.ssh.binary_rx
      k == PacketOf(rx[1])
      next == [Processed(h, k, c) EXCEPT !.ssh.binary_rx = Tail(Tail(rx))]
  IN  IF Len(rx) < 2 \/ h.ssh.in_encrypted THEN h
      ELSE IF ~Whole(rx) \/ IsEncrypted(k) THEN [h EXCEPT !.ssh.binary_rx = <<>>]
      ELSE next

DrainEncrypted(h, c) ==
  LET rx == h.ssh.encrypted_rx
      k == PacketOf(rx[1])
  IN  IF Len(rx) < 2 THEN h
      ELSE IF ~Whole(rx) \/ ~MacAgrees(h, k) THEN [h EXCEPT !.ssh.encrypted_rx = <<>>]
      ELSE [Processed(h, k, c) EXCEPT !.ssh.encrypted_rx = Tail(Tail(rx))]

\* The loops of the two: a segment and what was left before it hold at most
\* this many packets.
Rounds == (MaxUnits + 1) \div 2

CaptureEncrypted(h, units, c) ==
  LET after[i \in 0 .. Rounds] ==
        IF i = 0 THEN [h EXCEPT !.ssh.encrypted_rx = @ \o units]
        ELSE DrainEncrypted(after[i - 1], c)
  IN  after[Rounds]

CaptureBinary(h, units, c) ==
  LET after[i \in 0 .. Rounds] ==
        IF i = 0 THEN [h EXCEPT !.ssh.binary_rx = @ \o units]
        ELSE DrainBinary(after[i - 1], c)
      out == after[Rounds]
  IN  IF out.ssh.in_encrypted /\ out.ssh.binary_rx # <<>>
      THEN CaptureEncrypted([out EXCEPT !.ssh.binary_rx = <<>>], out.ssh.binary_rx, c)
      ELSE out

\* ssh_capture_client_data: the first line is the banner, its end is unit 2.
CaptureClientData(h, units, c) ==
  LET banner == h.svc.client_banner_seen \/ 2 \in Range(units)
      rest == IF h.svc.client_banner_seen THEN units ELSE SubSeq(units, 4 - units[1], Len(units))
      g == [h EXCEPT !.svc.client_banner_seen = banner, !.svc.idle = 0]
  IN  IF ~banner \/ rest = <<>> THEN g
      ELSE IF g.ssh.in_encrypted THEN CaptureEncrypted(g, rest, c)
      ELSE CaptureBinary(g, rest, c)
-----------------------------------------------------------------------------
(* The client and the network: external.                                   *)

Packets ==
  {"BANNER", "KEXINIT", "KEXINIT_NONE", "ECDH", "NEWKEYS", "SERVICE", "AUTH_GOOD",
   "AUTH_BAD", "OPEN", "EXEC", "PTY", "SHELL", "LINE", "EXIT", "EOF"}

\* What the client has received: the packets before the first that was lost.
Received == IF wire.peer = cli.peer THEN {wire.sent[i].kind : i \in 1 .. wire.got} ELSE {}

Wrote == Range(cli.out)
Times(kinds) == Cardinality({i \in DOMAIN cli.out : cli.out[i] \in kinds})
Answers(kind) ==
  IF wire.peer # cli.peer THEN 0
  ELSE Cardinality({i \in 1 .. wire.got : wire.sent[i].kind = kind})

\* When a client that follows the protocol may write a packet.
MayWrite(m) ==
  CASE m = "BANNER" -> cli.out = <<>>
    [] m \in {"KEXINIT", "KEXINIT_NONE"} -> cli.out = <<"BANNER">>
    [] m = "ECDH" -> /\ "KEXINIT" \in Wrote /\ "KEXINIT" \in Received
                     /\ "ECDH" \notin Wrote
    [] m = "NEWKEYS" -> "ECDH_REPLY" \in Received /\ "NEWKEYS" \notin Wrote
    [] m = "SERVICE" -> "NEWKEYS" \in Wrote /\ "SERVICE" \notin Wrote
    [] m \in {"AUTH_GOOD", "AUTH_BAD"} ->
         /\ "SERVICE_ACCEPT" \in Received /\ "AUTH_SUCCESS" \notin Received
         /\ Times({"AUTH_GOOD", "AUTH_BAD"}) = Answers("AUTH_FAILURE")
    [] m = "OPEN" -> "AUTH_SUCCESS" \in Received /\ "OPEN" \notin Wrote
    [] m = "EXEC" -> "OPEN_CONFIRM" \in Received /\ Last(cli.out) = "OPEN"
    [] m = "PTY" -> "OPEN_CONFIRM" \in Received /\ Last(cli.out) = "OPEN"
    [] m = "SHELL" -> /\ "OPEN_CONFIRM" \in Received
                      /\ Wrote \cap {"EXEC", "SHELL"} = {}
    [] m \in {"LINE", "EXIT"} -> "SHELL" \in Wrote /\ "EOF" \notin Wrote
    [] m = "EOF" -> Wrote \cap {"EXEC", "SHELL"} # {} /\ "EOF" \notin Wrote

NoWire == [peer |-> NoPeer, sent |-> <<>>, got |-> 0, opened |-> FALSE]

\* The connection whose packets are on the wire is the one the server has.
WireOf(srv) ==
  IF srv.peer = wire.peer THEN wire
  ELSE [NoWire EXCEPT !.peer = srv.peer]

NoClient == [peer |-> NoPeer, state |-> "none", out |-> <<>>]

ClientConnects ==
  \E p \in Peers :
    /\ \/ cli.state = "none"
       \/ cli.state \in {"gone", "ended"} /\ p # cli.peer /\ host.srv.peer # p
    /\ cli' = [peer |-> p, state |-> "syn", out |-> <<>>]
    /\ UNCHANGED <<given, host, wire>>

ClientOpens ==
  /\ cli.state = "syn" /\ host.srv.state = "SYN_RCVD" /\ host.srv.peer = cli.peer
  /\ cli' = [cli EXCEPT !.state = "open"] /\ wire' = [wire EXCEPT !.opened = TRUE]
  /\ UNCHANGED <<given, host>>

ClientWrites ==
  \E m \in (Packets \ {"EXEC", "PTY", "SHELL", "LINE", "EXIT", "EOF"}) \cup Chats :
    /\ cli.state = "open" /\ Len(cli.out) < MaxPackets /\ MayWrite(m)
    /\ host.srv.peer = cli.peer => 2 * Len(cli.out) + 2 <= host.srv.ack + Window
    /\ cli' = [cli EXCEPT !.out = Append(@, m)]
    /\ UNCHANGED <<given, host, wire>>

\* It closes, resets, or is cut off; a server that gave up is given up too.
ClientLeaves ==
  /\ \/ /\ cli.state = "open"
        /\ \E how \in {"fin", "rst", "gone"} :
             cli' = [cli EXCEPT !.state = how, !.out = IF how = "fin" THEN @ ELSE <<>>]
     \/ /\ cli.state \in {"open", "fin", "rst"} /\ host.srv.peer # cli.peer
        /\ cli' = [cli EXCEPT !.state = "ended", !.out = <<>>]
  /\ UNCHANGED <<given, host, wire>>

\* Segments of the client the network may deliver now: the next part of what
\* it wrote, an old part again, or one that overtook what is missing.  They
\* acknowledge the server's numbers of the connection the client opened.
InFlight ==
  LET units == 2 * Len(cli.out)
      seg(flags, seq, len) ==
        [peer |-> cli.peer, flags |-> flags, seq |-> seq, len |-> len,
         ack |-> IF wire.opened THEN 1 ELSE 0]
      data == {d \in {seg({"ACK"}, a, n) : a \in {1, host.srv.ack, host.srv.ack + 1},
                                          n \in 1 .. MaxUnits} : d.seq + d.len <= units + 1}
  IN  CASE cli.state = "syn" -> {seg({"SYN"}, 0, 0)}
        [] cli.state = "open" -> {seg({"SYN"}, 0, 0), seg({"ACK"}, 1, 0)} \cup data
        [] cli.state = "fin" -> {seg({"ACK", "FIN"}, units + 1, 0)} \cup data
        [] cli.state = "rst" -> {seg({"RST"}, units + 1, 0)}
        [] OTHER -> {}
-----------------------------------------------------------------------------
(* ssh_poll and the commands of the console.                               *)

\* The state in which a poll decides what to do.
Woken == RefreshState(EnsureListenerAlive(host))

Watchdog(h) == Connected(h) /\ ~HasPendingTx(h) /\ h.svc.idle > IdleTimeout

\* The idle connection is dropped and the listener opened again.
PollWatchdog ==
  /\ host.svc.enabled /\ Watchdog(Woken)
  /\ host' = ReopenListener(Woken)
  /\ wire' = WireOf(host'.srv)
  /\ UNCHANGED <<given, cli>>

\* A packet is due and the driver takes it; the network may lose it.
PollSend ==
  LET kind == TxKind(Woken) IN
  /\ host.svc.enabled /\ ~Watchdog(Woken) /\ kind # "NONE" /\ Builds(Woken, kind)
  /\ host' = RefreshState([Sent(Woken, kind) EXCEPT !.srv = ServerSend(@, 1)])
  /\ \E arrives \in BOOLEAN :
       wire' = [wire EXCEPT !.sent = Append(@, Packet(Woken, kind)),
                            !.got = IF arrives /\ @ = Len(wire.sent) THEN @ + 1 ELSE @]
  /\ UNCHANGED <<given, cli>>

\* A packet is due and the driver refuses it: everything stays as it was.
PollSendFails ==
  /\ host.svc.enabled /\ ~Watchdog(Woken)
  /\ TxKind(Woken) # "NONE" /\ Builds(Woken, TxKind(Woken))
  /\ host' = RefreshState(Woken)
  /\ UNCHANGED <<given, wire, cli>>

\* Nothing can be sent; a staged disconnect counts down meanwhile.
Waiting(h) ==
  IF TxKind(h) = "NONE" /\ h.svc.close_polls > 0
  THEN [h EXCEPT !.svc.close_polls = @ - 1] ELSE h

Idle == TxKind(Woken) = "NONE" \/ ~Builds(Woken, TxKind(Woken))

StagedClose(h) == h.svc.close_polls = 0 /\ Woken.svc.close_polls > 0

PollStagedClose ==
  /\ host.svc.enabled /\ ~Watchdog(Woken) /\ Idle /\ StagedClose(Waiting(Woken))
  /\ host' = RefreshState(Listening(Waiting(Woken)))
  /\ wire' = WireOf(host'.srv)
  /\ UNCHANGED <<given, cli>>

\* A segment is taken from the driver; reply says whether ours goes out.
PollReceive ==
  \E seg \in InFlight, reply \in BOOLEAN, c \in 0 .. MaxChunks :
    LET h == Waiting(Woken)
        o == ServerPoll(h.srv, seg, reply)
        units == [i \in 1 .. o.taken |-> seg.seq + i - 1]
        g == [h EXCEPT !.srv = o.srv]
    IN  /\ host.svc.enabled /\ ~Watchdog(Woken) /\ Idle /\ ~StagedClose(h)
        /\ host' = RefreshState(IF o.taken > 0 THEN CaptureClientData(g, units, c) ELSE g)
        /\ o.srv.connections <= MaxConnections
        /\ wire' = WireOf(host'.srv)
        /\ UNCHANGED <<given, cli>>

\* No segment has arrived.
PollQuiet ==
  /\ host.svc.enabled /\ ~Watchdog(Woken) /\ Idle /\ ~StagedClose(Waiting(Woken))
  /\ host' = RefreshState(Waiting(Woken))
  /\ UNCHANGED <<given, wire, cli>>

\* The service is stopped: ssh_poll returns at once.
PollStopped == ~host.svc.enabled /\ UNCHANGED sshVars

Poll == \/ PollStopped \/ PollWatchdog \/ PollSend \/ PollSendFails \/ PollStagedClose
        \/ PollReceive \/ PollQuiet

\* The timer: the idle time and the lockout.
SshTick ==
  /\ \/ host.srv.state = "ESTABLISHED" /\ host.svc.idle <= IdleTimeout
     \/ host.svc.lockout > 0
  /\ host' = [host EXCEPT !.svc.idle = Min({@ + 1, IdleTimeout + 1}),
                          !.svc.lockout = Max({0, @ - 1})]
  /\ UNCHANGED <<given, wire, cli>>

SshStart ==
  /\ ~host.svc.enabled
  /\ host' = [Listening(host) EXCEPT !.svc.enabled = TRUE, !.svc.banner_sent = FALSE,
                                     !.svc.client_banner_seen = FALSE, !.svc.idle = 0]
  /\ UNCHANGED <<wire, cli>>

SshStop ==
  /\ host.svc.enabled
  /\ host' = [ResetNegotiation(host) EXCEPT
                !.srv = ServerClose(@), !.svc.enabled = FALSE, !.svc.close_polls = 0,
                !.svc.banner_sent = FALSE, !.svc.client_banner_seen = FALSE]
  /\ wire' = WireOf(host'.srv)
  /\ UNCHANGED cli

\* ssh_set_password and ssh_disable_password; a disabled password ends the
\* authentication of the session, not the session.
SetPassword ==
  /\ host' = [host EXCEPT !.svc.auth_configured = TRUE, !.svc.failures = 0, !.svc.lockout = 0]
  /\ UNCHANGED <<wire, cli>>

DisablePassword ==
  /\ host' = [host EXCEPT !.svc.auth_configured = FALSE, !.ssh.authenticated = FALSE,
                          !.svc.failures = 0, !.svc.lockout = 0]
  /\ UNCHANGED <<wire, cli>>

ClearLockout ==
  /\ host' = [host EXCEPT !.svc.failures = 0, !.svc.lockout = 0]
  /\ UNCHANGED <<wire, cli>>

Console ==
  /\ given < MaxCommands /\ given' = given + 1
  /\ SshStart \/ SshStop \/ SetPassword \/ DisablePassword \/ ClearLockout

SshInit == given = 0 /\ host = Host0 /\ wire = NoWire /\ cli = NoClient

SshNext ==
  \/ Poll \/ SshTick \/ Console
  \/ ClientConnects \/ ClientOpens \/ ClientWrites \/ ClientLeaves

SshSpec == SshInit /\ [][SshNext]_sshVars
-----------------------------------------------------------------------------
(* Properties.                                                             *)

SshTypeOK ==
  /\ host.srv \in TcpServers
  /\ DOMAIN host.svc = DOMAIN Service0 /\ DOMAIN host.ssh = DOMAIN Negotiation0
  /\ host.svc.idle \in 0 .. IdleTimeout + 1 /\ host.svc.close_polls \in 0 .. ClosePolls
  /\ host.svc.failures \in 0 .. MaxAttempts - 1 /\ host.svc.lockout \in 0 .. LockoutTicks
  /\ 0 <= host.ssh.tx_off /\ host.ssh.tx_off <= host.ssh.tx_len /\ host.ssh.tx_len <= TextCap
  /\ Range(cli.out) \subseteq Packets /\ wire.got \in 0 .. Len(wire.sent)

\* Every packet of a connection can be decoded by the client: its number is
\* its place among the packets, it is encrypted exactly after our NEWKEYS,
\* and its cipher position is its place among the encrypted ones, whatever
\* sends the driver refused before it (ssh_build_encrypted_packet keeps the
\* new counter apart until ssh_poll knows that the packet went out).
WireDecodable ==
  \A i \in DOMAIN wire.sent :
    LET p == wire.sent[i]
        before == {j \in 1 .. i - 1 : wire.sent[j].ctr > 0}
        keyed == \E j \in 1 .. i - 1 : wire.sent[j].kind = "NEWKEYS"
    IN  /\ p.kind # "BANNER" => p.seq = i - 2
        /\ p.ctr = IF keyed THEN Cardinality(before) + 1 ELSE 0

\* What the server holds of the client's stream is the next part of it, with
\* nothing missing, repeated or out of order: the units not yet processed
\* follow the packets that were, up to the acknowledged position.
StreamInOrder ==
  LET rx == host.ssh.binary_rx \o host.ssh.encrypted_rx
      done == IF host.svc.client_banner_seen THEN 2 + 2 * host.ssh.seq_in ELSE 0
  IN  host.srv.state = "ESTABLISHED" /\ host.svc.client_banner_seen =>
        /\ \A i \in DOMAIN rx : rx[i] = done + i
        /\ host.srv.ack = done + Len(rx) + 1

\* A connection starts with nothing left of the one before: while its
\* handshake runs, and until the first byte either way, the negotiation is
\* the one ssh_reset_negotiation leaves.
FreshConnection ==
  \/ host.srv.state = "SYN_RCVD"
  \/ host.srv.state = "ESTABLISHED" /\ wire.sent = <<>> /\ host.srv.ack = 1
  => /\ [host.ssh EXCEPT !.authenticated = FALSE] = Negotiation0
     /\ ~host.ssh.authenticated
     /\ ~host.svc.banner_sent /\ ~host.svc.client_banner_seen /\ host.svc.close_polls = 0

\* The answer to an exec request: its text, then the status, then the close,
\* and nothing on the channel after that.
ExecAnswerOrder ==
  \A i, j \in DOMAIN wire.sent :
    i < j /\ wire.peer = cli.peer /\ "EXEC" \in Range(cli.out) =>
      /\ wire.sent[i].kind = "EXIT_STATUS" => wire.sent[j].kind = "CLOSE"
      /\ wire.sent[i].kind # "CLOSE"

\* No answer can wedge the session: while one is pending on an established
\* connection, ssh_poll can send something or is counting down to the close.
\* Otherwise the watchdog, which spares a session with an answer pending,
\* would never open the listener again.
PendingIsSendable ==
  Connected(host) /\ HasPendingTx(host) =>
    \/ host.svc.close_polls > 0
    \/ TxKind(host) # "NONE" /\ Builds(host, TxKind(host))

\* Whatever is lost, repeated, refused or cut short, both ends of a session
\* can read what the other one sent, and the state of the service is in range.
SessionIsReadable == SshTypeOK /\ WireDecodable /\ StreamInOrder

\* An answer is complete and in order, and nothing prepared gets stuck: what
\* ssh_poll would send next can be built.
AnswersComplete == ExecAnswerOrder /\ PendingIsSendable
=============================================================================
