----------------------------- MODULE TcpClient -----------------------------
(***************************************************************************)
(* The TCP client of drivers/netstack.c and the calls made of it: the      *)
(* connection probe, the plain HTTP request and the HTTPS range request,   *)
(* which goes through a TLS handshake first.  Nothing is sent twice: what  *)
(* the network loses of ours is lost, and shows as a timeout.  The server  *)
(* sends again what was not acknowledged, so its segments arrive repeated, *)
(* late and in any order, also those of a connection given up before.      *)
(*                                                                         *)
(* The server's stream is counted in units: the two of its first flight,   *)
(* its Finished, and the records of the answer.  A request is numbered     *)
(* after its local port.                                                   *)
(***************************************************************************)
EXTENDS Integers, Sequences, FiniteSets

CONSTANTS
  MaxPorts,   \* connections made in a behaviour
  Records,    \* records of the answer
  Room        \* units a receive buffer holds

ASSUME ClientAssumption == {MaxPorts, Records, Room} \subseteq Nat \ {0}

VARIABLES
  port,     \* tcp_next_port: the port of the last connection
  call,     \* the call under way
  heard     \* for each port, how many of our segments the server took in order

tcpVars == <<port, call, heard>>

Kinds == {"probe", "http", "range"}

\* Where a call is: connecting, before a send or in a receive loop, or back.
Stages ==
  {"idle", "syn", "sendHello", "recvHello", "sendKey", "sendFinished", "recvFinished",
   "sendGet", "recvReply"}

NoCall == [kind |-> "none", stage |-> "idle", ack |-> 0, sent |-> 0, buf |-> <<>>,
           cut |-> FALSE, result |-> "none", body |-> <<>>]

\* The units of the server's stream, by what it has to hear first.
Handshake == {"range"}
FirstUnit(kind) == IF kind \in Handshake THEN 4 ELSE 1
LastUnit(kind) == FirstUnit(kind) + Records - 1

Available(kind, n) ==
  IF kind \in Handshake
  THEN (IF n >= 1 THEN 1 .. 2 ELSE {}) \cup (IF n >= 3 THEN {3} ELSE {})
       \cup (IF n >= 4 THEN 4 .. LastUnit(kind) ELSE {})
  ELSE IF n >= 1 THEN 1 .. LastUnit(kind) ELSE {}

\* A segment that may arrive: of this connection or of an earlier one.
Arriving ==
  {[port |-> p, unit |-> u, fin |-> f] :
     p \in 1 .. port, u \in 1 .. 3 + Records + 1, f \in BOOLEAN}

\* The server sends it: data it has, its FIN with the last data or after it.
Sends(seg) ==
  LET h == heard[seg.port]
      last == LastUnit(h.kind)
      open == last \in Available(h.kind, h.n)
  IN  \/ seg.unit \in Available(h.kind, h.n) /\ (seg.fin => open /\ seg.unit = last)
      \/ seg.fin /\ open /\ seg.unit = last + 1

\* Mutant: the port of the segment is not compared.
AcceptsAny(seg) == TRUE

\* The addresses of the segment are those of the connection.
Accepts(seg) == seg.port = port

Return(r) == [call EXCEPT !.stage = "idle", !.result = r]
-----------------------------------------------------------------------------
(* Sending: a segment reaches the server, or the network loses it, or the  *)
(* driver refuses it.                                                      *)

\* The server takes our segment number n if it has the ones before it.
Heard(kind, n, arrives) ==
  heard' = [heard EXCEPT ![port] =
              [kind |-> kind, n |-> IF arrives /\ @.n = n - 1 THEN n ELSE @.n]]

\* tcp_connect: a new port, the route, then the SYN.
TcpConnect ==
  \E kind \in Kinds :
    /\ call.stage = "idle" /\ port < MaxPorts
    /\ port' = port + 1
    /\ call' = [NoCall EXCEPT !.kind = kind, !.stage = "syn"]
    /\ heard' = heard

\* No route, no answer to the ARP request, a refused SYN, RST or the deadline.
ConnectFails ==
  /\ call.stage = "syn"
  /\ call' = Return("failed")
  /\ UNCHANGED <<port, heard>>

\* The SYN+ACK for this SYN: the ACK goes out, and the probe is done.
Connected2 ==
  /\ call.stage = "syn"
  /\ call' = IF call.kind = "probe" THEN Return("connected")
             ELSE [call EXCEPT !.ack = 1,
                               !.stage = IF call.kind = "range" THEN "sendHello" ELSE "sendGet"]
  /\ heard' = [heard EXCEPT ![port] = [kind |-> call.kind, n |-> 0]]
  /\ UNCHANGED port

\* tcp_send_data and what the call does next.
AfterSend ==
  [sendHello |-> "recvHello", sendKey |-> "sendFinished",
   sendFinished |-> "recvFinished", sendGet |-> "recvReply"]

TcpSendData ==
  /\ call.stage \in DOMAIN AfterSend
  /\ call' = [call EXCEPT !.stage = AfterSend[call.stage], !.sent = @ + 1,
                          !.buf = IF AfterSend[call.stage] = "sendFinished" THEN @ ELSE <<>>]
  /\ \E arrives \in BOOLEAN : Heard(call.kind, call.sent + 1, arrives)
  /\ UNCHANGED port

SendRefused ==
  /\ call.stage \in DOMAIN AfterSend
  /\ call' = Return("failed")
  /\ UNCHANGED <<port, heard>>
-----------------------------------------------------------------------------
(* Receiving: tcp_recv_all for plain HTTP, tcp_recv_bytes for TLS.         *)

\* Only the next unit is taken, as far as the buffer has room.
Take(c, seg) ==
  IF seg.unit # c.ack THEN c
  ELSE [c EXCEPT !.ack = @ + 1,
                 !.buf = IF Len(@) < Room THEN Append(@, <<seg.port, seg.unit>>) ELSE @,
                 !.cut = @ \/ Len(c.buf) = Room]

\* tls_records_have_message: the ServerHelloDone is complete.
HelloDone(buf) == \E i \in DOMAIN buf : buf[i][2] = 2

\* What a receive loop is left with when it ends, and where the call goes.
\* The range request checks the certificate, then the Finished, then decrypts.
\* With nothing received tcp_recv_all succeeds when a FIN ended it.
Received1(c, fin) ==
  CASE c.stage = "recvHello" -> IF Len(c.buf) = 2 THEN [c EXCEPT !.stage = "sendKey"]
                                ELSE [c EXCEPT !.stage = "idle", !.result = "failed"]
    [] c.stage = "recvFinished" -> IF c.buf # <<>> THEN [c EXCEPT !.stage = "sendGet"]
                                   ELSE [c EXCEPT !.stage = "idle", !.result = "failed"]
    [] c.stage = "recvReply" -> [c EXCEPT !.stage = "idle", !.body = c.buf,
                                   !.result = IF c.buf # <<>> \/ (fin /\ c.kind = "http")
                                              THEN "ok" ELSE "failed"]

Receiving == call.stage \in {"recvHello", "recvFinished", "recvReply"}

\* The loop is over: it holds the ServerHelloDone or, for TLS, it is full.
LoopEnds(c) ==
  \/ c.stage = "recvHello" /\ HelloDone(c.buf)
  \/ c.kind = "range" /\ Len(c.buf) = Room

TcpReceive ==
  \E seg \in Arriving :
    LET data == heard[port].kind = call.kind /\ seg.unit <= LastUnit(call.kind)
        c == IF data THEN Take(call, seg) ELSE call
    IN  /\ Receiving /\ Sends(seg) /\ Accepts(seg)
        /\ call' = IF seg.fin \/ (c # call /\ LoopEnds(c)) THEN Received1(c, seg.fin) ELSE c
        /\ UNCHANGED <<port, heard>>

\* The deadline: what has arrived so far is returned.
TcpDeadline ==
  /\ Receiving
  /\ call' = Received1(call, FALSE)
  /\ UNCHANGED <<port, heard>>

TcpReset ==
  /\ Receiving
  /\ call' = Return("failed")
  /\ UNCHANGED <<port, heard>>

TcpInit ==
  /\ port = 0 /\ call = NoCall
  /\ heard = [p \in 1 .. MaxPorts |-> [kind |-> "http", n |-> 0]]

TcpNext ==
  \/ TcpConnect \/ ConnectFails \/ Connected2 \/ TcpSendData \/ SendRefused
  \/ TcpReceive \/ TcpDeadline \/ TcpReset
-----------------------------------------------------------------------------
\* What a receive loop has collected is the next part of the stream of this
\* connection, without gap, repetition or units of an earlier connection.
ReceivedInOrder ==
  LET n == Len(call.buf)
      first == IF call.cut THEN call.buf[1][2] ELSE call.ack - n
  IN  Receiving => \A i \in 1 .. n : call.buf[i] = <<port, first + i - 1>>

\* The answer handed to the caller is a prefix of what was asked for, and not
\* of another request: short when the deadline or an early FIN ended it, empty
\* only for a plain request whose FIN came first, but never wrong.  The update code relies on that to go on where it ended.
AnswerIsPrefix ==
  call.result = "ok" =>
    /\ Len(call.body) \in 0 .. Records
    /\ call.body = <<>> => call.kind = "http"
    /\ \A i \in DOMAIN call.body : call.body[i] = <<port, FirstUnit(call.kind) + i - 1>>

\* The request was answered, so the server had all of the handshake before
\* it: no answer is taken from a connection whose segments got lost.
AnsweredHandshake ==
  call.result = "ok" => heard[port].n = IF call.kind = "range" THEN 4 ELSE 1

\* A caller gets a prefix of the answer to its own request, never bytes of
\* another connection and never bytes out of order.
StreamsKept == ReceivedInOrder /\ AnswerIsPrefix /\ AnsweredHandshake
=============================================================================
