----------------------------- MODULE TlsClient -----------------------------
(***************************************************************************)
(* The TLS 1.2 client of netstack_https_range_get in drivers/netstack.c.   *)
(* Nothing is parsed while it arrives: each of the server's three flights  *)
(* is received first, as far as it came (TcpClient), and then read in one  *)
(* pass that fills tls_parse_info_t.  The passes are the operators below,  *)
(* the calls between them the actions.                                     *)
(*                                                                         *)
(* A record is [type, msgs, whole]; the last one of a flight may be cut.   *)
(* A digest stands for the messages hashed, a secret for the digest it was *)
(* derived from; an encrypted record carries the number it was sealed with.*)
(***************************************************************************)
EXTENDS Integers, Sequences, SequencesExt

CONSTANT PlainRoom   \* data units tls_app_plain_buf holds

ASSUME RoomAssumption == PlainRoom \in Nat \ {0}

VARIABLES
  tls,      \* where the call is, and its result
  info,     \* tls_parse_info_t
  server    \* what the server does in this behaviour

tlsVars == <<tls, info, server>>

NoInfo ==
  [hello |-> FALSE, chain |-> <<>>, keyReady |-> FALSE, done |-> FALSE, partial |-> FALSE,
   script |-> <<"clientHello">>, master |-> <<>>, ccs |-> FALSE, verified |-> FALSE, seq |-> 0]

Hello == [kind |-> "serverHello"]
KeyExchange == {[kind |-> "keyExchange", x25519 |-> b] : b \in BOOLEAN}
Done == [kind |-> "done"]
Cert(chain) == [kind |-> "certificate", chain |-> chain]

\* A certificate: its names have the host, its issuer is the next one's
\* subject (of the second: the root's), and that one signed it.
Good == [host |-> TRUE, link |-> TRUE, signed |-> TRUE]
Chains == {<<Good>>, <<Good, Good>>, <<Good, Good, Good>>,
           <<[Good EXCEPT !.host = FALSE], Good>>, <<[Good EXCEPT !.link = FALSE], Good>>,
           <<[Good EXCEPT !.signed = FALSE], Good>>, <<Good, [Good EXCEPT !.link = FALSE]>>,
           <<Good, [Good EXCEPT !.signed = FALSE]>>,
           <<Good, [Good EXCEPT !.link = FALSE], Good>>}

\* The messages of the first flight and the ways to put them into records.
FirstMessages == {<<Hello, Cert(c), k, Done>> : c \in Chains, k \in KeyExchange}
Plain(msgs) == [type |-> 22, msgs |-> msgs, whole |-> TRUE]
Packed(m) ==
  {<<Plain(m)>>, [i \in DOMAIN m |-> Plain(<<m[i]>>)],
   <<Plain(<<m[1], m[2]>>), Plain(<<m[3], m[4]>>)>>}

\* As received: up to a record, which may be cut.
Received(records) ==
  {SubSeq(records, 1, n) : n \in 0 .. Len(records)}
  \cup {Append(SubSeq(records, 1, n - 1), [records[n] EXCEPT !.whole = FALSE]) :
          n \in 1 .. Len(records)}
-----------------------------------------------------------------------------
(* tls_parse_records: the first flight.                                    *)

\* One handshake message, in whatever order it comes.
HandshakeMessage(in, m) ==
  [in EXCEPT
     !.script = Append(@, m.kind),
     !.hello = @ \/ m.kind = "serverHello",
     !.chain = IF m.kind = "certificate" THEN m.chain ELSE @,
     !.keyReady = @ \/ (m.kind = "keyExchange" /\ m.x25519),
     !.done = @ \/ m.kind = "done"]

\* A record that is not whole ends the pass; an alert changes nothing.
ParseRecord(in, r) ==
  IF in.partial THEN in
  ELSE IF ~r.whole THEN [in EXCEPT !.partial = TRUE]
  ELSE IF r.type = 22 THEN FoldLeft(HandshakeMessage, in, r.msgs)
  ELSE in

\* tls_prepare_key_schedule: only over a complete flight.
KeySchedule(in) ==
  IF ~in.partial /\ in.keyReady /\ in.done
  THEN [in EXCEPT !.master = Append(in.script, "clientKey")]
  ELSE in

ParseRecords(records) == KeySchedule(FoldLeft(ParseRecord, NoInfo, records))

\* tls_policy_failure: the host, every link of the chain that was summarised,
\* the leaf's signature and the issuer's by the root.
PolicyHolds(in) ==
  LET c == in.chain
  IN  /\ c # <<>> /\ c[1].host
      /\ Len(c) >= 2
      /\ \A i \in 1 .. Len(c) - 1 : c[i].link
      /\ c[1].signed /\ c[2].link /\ c[2].signed
-----------------------------------------------------------------------------
(* The second flight: [ticket] ChangeCipherSpec Finished.                  *)

Ticket == Plain(<<[kind |-> "ticket"]>>)
ChangeCipher == [type |-> 20, msgs |-> <<>>, whole |-> TRUE]
Sealed(type, n, msgs) == [type |-> type, msgs |-> msgs, whole |-> TRUE, sealed |-> n]
Finished(script) == [kind |-> "finished", script |-> script]

\* What the server has hashed when it sends its Finished.
ServerScript(first, ticket) ==
  <<"clientHello">> \o [i \in DOMAIN first |-> first[i].kind]
  \o <<"clientKey", "clientFinished">> \o (IF ticket THEN <<"ticket">> ELSE <<>>)

SecondFlight(first, ticket) ==
  (IF ticket THEN <<Ticket>> ELSE <<>>)
  \o <<ChangeCipher, Sealed(22, 0, <<Finished(ServerScript(first, ticket))>>)>>

SecureMessage(in, m) ==
  [in EXCEPT !.verified = @ \/ (m.kind = "finished" /\ m.script = in.script),
             !.script = Append(@, m.kind)]

\* tls_decrypt_aes_gcm_record: the number sealed with is the one expected.
Opens(in, r) == "sealed" \in DOMAIN r /\ r.sealed = in.seq

SecureRecord(in, r) ==
  CASE ~r.whole -> in
    [] r.whole /\ r.type = 22 /\ ~in.ccs -> FoldLeft(SecureMessage, in, r.msgs)
    [] r.whole /\ r.type = 20 -> [in EXCEPT !.ccs = TRUE]
    [] r.whole /\ in.ccs /\ r.type \in {21, 22} /\ Opens(in, r) ->
         FoldLeft(SecureMessage, [in EXCEPT !.seq = @ + 1], r.msgs)
    [] OTHER -> in

\* Mutant: the client's Finished is left out of the digest.
SecureReplyWithout(in, records) ==
  FoldLeft(SecureRecord, [in EXCEPT !.script = Append(@, "clientKey")], records)

SecureReply(in, records) ==
  FoldLeft(SecureRecord, [in EXCEPT !.script = @ \o <<"clientKey", "clientFinished">>], records)
-----------------------------------------------------------------------------
(* tls_decrypt_server_http_reply: the answer, data unit by data unit.      *)

\* A record that does not open, or does not fit, leaves the number as it is,
\* so that no later one opens either.
HttpRecord(acc, r) ==
  LET fits == r.type # 23 \/ Len(acc.plain) + Len(r.msgs) <= PlainRoom
  IN  IF acc.stop \/ ~r.whole THEN [acc EXCEPT !.stop = TRUE]
      ELSE IF Opens(acc, r) /\ fits
      THEN [acc EXCEPT !.plain = IF r.type = 23 THEN @ \o r.msgs ELSE @, !.seq = @ + 1]
      ELSE acc

HttpReply(in, records) ==
  FoldLeft(HttpRecord, [plain |-> <<>>, seq |-> in.seq, stop |-> FALSE], records).plain

\* The body after the header, which is the first data unit; status unread.
Answers ==
  {<<<<23, <<"header", 1>>>>, <<23, <<2>>>>, <<21, <<>>>>>>,
   <<<<23, <<"header">>>>, <<23, <<1, 2>>>>, <<23, <<3>>>>>>,
   <<<<22, <<>>>>, <<23, <<"header", 1, 2>>>>, <<23, <<3, 4>>>>, <<23, <<5>>>>>>}
AnswerRecords(a) == [i \in DOMAIN a |-> Sealed(a[i][1], i, a[i][2])]
-----------------------------------------------------------------------------
TlsReturn(rc) == [tls EXCEPT !.stage = "idle", !.rc = rc]

RecvHello ==
  \E records \in Packed(server.first) : \E got \in Received(records) :
    /\ tls.stage = "hello"
    /\ info' = ParseRecords(got)
    /\ tls' = IF ~PolicyHolds(info') THEN TlsReturn(-18)
              ELSE IF info'.master = <<>> THEN TlsReturn(-7)
              ELSE [tls EXCEPT !.stage = "finished"]
    /\ UNCHANGED server

RecvFinished ==
  \E got \in Received(SecondFlight(server.first, server.ticket)) :
    /\ tls.stage = "finished"
    /\ info' = SecureReply(info, got)
    /\ tls' = IF info'.verified THEN [tls EXCEPT !.stage = "answer"] ELSE TlsReturn(-12)
    /\ UNCHANGED server

RecvAnswer ==
  \E got \in Received(AnswerRecords(server.answer)) :
    LET plain == HttpReply(info, got)
    IN  /\ tls.stage = "answer"
        /\ tls' = IF Len(plain) < 2 THEN TlsReturn(-17)
                  ELSE [TlsReturn(0) EXCEPT !.body = Tail(plain)]
        /\ UNCHANGED <<info, server>>

ServersSeen == [first : FirstMessages, ticket : BOOLEAN, answer : Answers]

TlsInit ==
  /\ tls = [stage |-> "hello", rc |-> 1, body |-> <<>>] /\ info = NoInfo
  /\ server \in ServersSeen

TlsNext == RecvHello \/ RecvFinished \/ RecvAnswer
-----------------------------------------------------------------------------
\* The request leaves only over a connection whose chain holds in every part
\* and whose server has proved that it saw the same handshake.
RequestIsProtected ==
  (tls.stage = "answer" \/ tls.rc = 0) =>
    LET c == server.first[2].chain
    IN  /\ c[1] = Good /\ Len(c) >= 2 /\ c[2].link /\ c[2].signed
        /\ server.first[3].x25519 /\ info.verified

\* A server that follows the protocol is believed whenever its flights came in
\* whole, with a session ticket or without one: the two digests agree.
FinishedAgrees ==
  info.ccs /\ info.seq = 1 => info.verified

\* The body is made of the first data units of the answer, in their order,
\* whatever of it was cut, did not fit, or was not data.
BodyIsPrefix == \A i \in DOMAIN tls.body : tls.body[i] = i

\* No request leaves before the handshake is agreed on, and no body is reported
\* that the server did not send.
TlsKept == RequestIsProtected /\ FinishedAgrees /\ BodyIsPrefix
=============================================================================
