--------------------------- MODULE ServiceProofs ---------------------------
(***************************************************************************)
(* Proofs about the network client: the IPv4 configuration, the TCP        *)
(* streams and the downloads of an upgrade, for any number of attempts,    *)
(* queries, connections, records and versions.                             *)
(***************************************************************************)
EXTENDS MC_Services, FiniteSetTheorems, TLAPS

-----------------------------------------------------------------------------
(* NetConfig *)

Confs == [ready : BOOLEAN, by : {"none", "static", "dhcp"}, ip : Nat, gw : Nat,
          dns : Nat, xid : Nat]
Leases == [server : Nat, router : Nat, dns : Nat]
NetJobs == [stage : {"idle", "offer", "ack", "arp", "answer"}, lease : Leases,
            tries : Nat, name : Names \cup {"none"}, hop : Nat,
            asked : Names \cup {"none"}, frame : [hop : Nat, mac : Nat]]

NetTypeOK ==
  /\ conf \in Confs
  /\ job \in NetJobs
  /\ arp \in Nat /\ xid \in Nat /\ ident \in Nat

\* What was broadcast or asked: transactions and servers of their kind.
SentKnown ==
  \A q \in sent : \/ \E xi \in Nat : q = <<"discover", xi>>
                  \/ \E xi \in Nat, s \in Servers : q = <<"request", xi, s>>
                  \/ \E i \in Nat, n \in Names : q = <<"query", i, n>>

\* The identifier of a query belongs to the call under way alone.
IdentIsOwn ==
  \A q \in sent : q[1] = "query" =>
    /\ q[2] <= ident
    /\ job.name # "none" /\ job.stage \in {"offer", "ack", "arp"} => q[2] # ident
    /\ job.stage = "answer" /\ q[2] = ident => q[3] = job.name

\* A call that waits for the ARP entry or for the answer has the next hop of
\* the configuration in use and a name to ask for.
HopIsNext ==
  job.stage \in {"arp", "answer"} =>
    job.hop = NextHop(conf, conf.dns) /\ job.name # "none"

\* The inductive invariant behind ConfigKept.
NetInv == NetTypeOK /\ SentKnown /\ IdentIsOwn /\ HopIsNext /\ ConfigKept

LEMMA NetTypes ==
  /\ NoConf \in Confs /\ StaticConf \in Confs /\ NoLease \in Leases /\ NoJob \in NetJobs
  /\ NoConf.by = "none" /\ StaticConf.by = "static"
  /\ NoJob.stage = "idle" /\ NoJob.name = "none"
  BY DEF NoConf, Confs, StaticConf, StaticIp, Remote, NoLease, Leases, NoJob, NetJobs

LEMMA NetInitInv == NetInit => NetInv
  BY NetTypes DEF NetInit, NetInv, NetTypeOK, SentKnown, IdentIsOwn, HopIsNext, ConfigKept,
     LeaseWasGranted, QueryToNextHop, ResolvedNameIsAnswered, NoName

\* What the parts of the invariant expand to.
LEMMA ConfiguredJob ==
  ASSUME NEW c \in Confs, NEW j \in NetJobs
  PROVE  LET k == Configured(c, j)
         IN  /\ k \in NetJobs
             /\ k.stage = "idle" \/ (k.stage = "arp" /\ k.hop = NextHop(c, c.dns)
                                     /\ k.name = j.name /\ j.name # "none")
  <1>1. CASE j.name = "none"
    BY <1>1, NetTypes DEF Configured
  <1>2. CASE j.name # "none"
    <2>1. NextHop(c, c.dns) \in Nat
      BY DEF NextHop, Confs
    <2>2. QED
      BY <1>2, <2>1 DEF Configured, NetJobs
  <1>3. QED
    BY <1>1, <1>2

\* A call that starts, or a new attempt of one, leaves no query of its own
\* behind and no configuration.
LEMMA DiscoverKeeps ==
  ASSUME NetInv, NEW j \in NetJobs, Discover(j)
  PROVE  /\ job' \in NetJobs /\ xid' \in Nat /\ SentKnown'
         /\ job'.stage = "offer" /\ job'.name = j.name
         /\ sent \subseteq sent'
         /\ \A q \in sent' : q[1] = "query" => q \in sent
  <1>1. xid \in Nat /\ SentKnown
    BY DEF NetInv, NetTypeOK
  <1>2. job' \in NetJobs /\ job'.stage = "offer" /\ job'.name = j.name
    BY NetTypes DEF Discover, NetJobs
  <1>3. SentKnown'
    BY <1>1 DEF SentKnown, Discover
  <1>4. QED
    BY <1>1, <1>2, <1>3 DEF Discover

LEMMA ResolveKeeps == NetInv /\ Resolve => NetInv'
  <1> SUFFICES ASSUME NetInv, NEW name \in Names, job.stage = "idle", ident' = ident + 1,
                      LET j == [NoJob EXCEPT !.name = name]
                      IN  IF conf.ready THEN job' = Configured(conf, j) /\ UNCHANGED <<sent, xid>>
                          ELSE Discover(j),
                      UNCHANGED <<conf, arp, file, found>>
               PROVE  NetInv'
    BY DEF Resolve
  <1> DEFINE j == [NoJob EXCEPT !.name = name]
  <1>1. j \in NetJobs /\ j.name # "none"
    BY NetTypes DEF NetJobs, Names
  <1> HIDE DEF j
  <1>2. /\ job' \in NetJobs /\ xid' \in Nat /\ SentKnown'
        /\ sent \subseteq sent'
        /\ \A q \in sent' : q[1] = "query" => q \in sent
        /\ job'.stage \in {"idle", "offer", "arp"}
        /\ job'.stage = "arp" => job'.hop = NextHop(conf, conf.dns) /\ job'.name # "none"
    <2>1. CASE conf.ready
      BY <1>1, <2>1, ConfiguredJob DEF NetInv, NetTypeOK, SentKnown, j
    <2>2. CASE ~conf.ready
      BY <1>1, <2>2, DiscoverKeeps DEF j
    <2>3. QED
      BY <2>1, <2>2
  <1>3. IdentIsOwn'
    BY <1>2 DEF NetInv, NetTypeOK, IdentIsOwn, SentKnown
  <1>4. QED
    BY <1>2, <1>3 DEF NetInv, NetTypeOK, HopIsNext, NextHop, ConfigKept, LeaseWasGranted,
       QueryToNextHop, ResolvedNameIsAnswered

LEMMA RenewKeeps == NetInv /\ Renew => NetInv'
  <1> SUFFICES ASSUME NetInv, Renew PROVE NetInv'
    OBVIOUS
  <1> DEFINE j == [NoJob EXCEPT !.tries = 1]
  <1>1. j \in NetJobs /\ j.name = "none"
    BY NetTypes DEF NetJobs
  <1>2. Discover(j)
    BY DEF Renew
  <1> HIDE DEF j
  <1>3. /\ job' \in NetJobs /\ xid' \in Nat /\ SentKnown'
        /\ job'.stage = "offer" /\ job'.name = "none"
        /\ \A q \in sent' : q[1] = "query" => q \in sent
    BY <1>1, <1>2, DiscoverKeeps
  <1>4. QED
    BY <1>3, NetTypes DEF Renew, NetInv, NetTypeOK, IdentIsOwn, HopIsNext, ConfigKept,
       LeaseWasGranted, QueryToNextHop, ResolvedNameIsAnswered, NoName

LEMMA DhcpFailsKeeps == NetInv /\ DhcpFails => NetInv'
  <1> SUFFICES ASSUME NetInv, DhcpFails PROVE NetInv'
    OBVIOUS
  <1>1. /\ job \in NetJobs /\ job.stage \in {"offer", "ack"} /\ ident' = ident /\ file' = file
        /\ conf \in Confs
    BY DEF DhcpFails, NetInv, NetTypeOK
  <1>2. CASE /\ conf' = StaticConf /\ arp' = 0 /\ job' = Configured(StaticConf, job)
             /\ UNCHANGED <<sent, xid, found>>
    <2>1. /\ job' \in NetJobs
          /\ job'.stage = "idle" \/ (job'.stage = "arp" /\ job'.hop = NextHop(conf', conf'.dns)
                                     /\ job'.name = job.name /\ job.name # "none")
      BY <1>1, <1>2, ConfiguredJob, NetTypes
    <2>2. QED
      BY <1>1, <1>2, <2>1, NetTypes DEF NetInv, NetTypeOK, IdentIsOwn, HopIsNext, ConfigKept,
         SentKnown, LeaseWasGranted, QueryToNextHop, ResolvedNameIsAnswered
  <1>3. CASE /\ job.tries > 0
             /\ Discover([job EXCEPT !.tries = @ - 1])
             /\ conf' = NoConf /\ arp' = 0 /\ found' = NoName
    <2> DEFINE j == [job EXCEPT !.tries = @ - 1]
    <2>1. j \in NetJobs /\ j.name = job.name
      BY <1>1, <1>3 DEF NetJobs
    <2>2. Discover(j)
      BY <1>3
    <2> HIDE DEF j
    <2>3. /\ job' \in NetJobs /\ xid' \in Nat /\ SentKnown'
          /\ job'.stage = "offer" /\ job'.name = job.name
          /\ \A q \in sent' : q[1] = "query" => q \in sent
      BY <2>1, <2>2, DiscoverKeeps
    <2>4. QED
      BY <1>1, <1>3, <2>3, NetTypes DEF NetInv, NetTypeOK, IdentIsOwn, HopIsNext, ConfigKept,
         LeaseWasGranted, QueryToNextHop, ResolvedNameIsAnswered, NoName
  <1>4. CASE job' = NoJob /\ UNCHANGED <<conf, arp, sent, xid, found>>
    BY <1>1, <1>4, NetTypes DEF NetInv, NetTypeOK, IdentIsOwn, HopIsNext, ConfigKept, SentKnown,
       LeaseWasGranted, QueryToNextHop, ResolvedNameIsAnswered
  <1>5. QED
    BY <1>2, <1>3, <1>4 DEF DhcpFails

\* A reply answers something that was sent, and an acknowledgement names the
\* server that was asked.
LEMMA ReplyKnown ==
  ASSUME SentKnown, NEW m \in Replies
  PROVE  /\ m.server \in Nat /\ m.router \in Nat /\ m.dns \in Nat /\ m.ip \in Nat
         /\ m.server \in Servers
         /\ m.type = "ack" => /\ <<"request", m.xid, m.router>> \in sent
                              /\ m.ip = 10 + m.router /\ m.router # 0
  <1>1. CASE m \in {Reply("offer", q[2], s) : q \in {r \in sent : r[1] = "discover"}, s \in Servers}
    BY <1>1 DEF Reply, Servers, Remote
  <1>2. CASE m \in {Reply(t, q[2], q[3]) : t \in {"ack", "nak"}, q \in {r \in sent : r[1] = "request"}}
    <2>1. PICK t \in {"ack", "nak"}, q \in sent : q[1] = "request" /\ m = Reply(t, q[2], q[3])
      BY <1>2
    <2>2. PICK xi \in Nat, s \in Servers : q = <<"request", xi, s>>
      BY <2>1 DEF SentKnown
    <2>3. m = Reply(t, xi, s) /\ <<"request", xi, s>> \in sent
      BY <2>1, <2>2
    <2>4. QED
      BY <2>3 DEF Reply, Servers, Remote
  <1>3. QED
    BY <1>1, <1>2 DEF Replies

LEMMA WaitDhcpKeeps == NetInv /\ WaitDhcp => NetInv'
  <1> SUFFICES ASSUME NetInv, WaitDhcp PROVE NetInv'
    OBVIOUS
  <1>1. PICK m \in Replies :
          LET lease == Merge(job.lease, m)
              j == [job EXCEPT !.lease = lease]
          IN  /\ job.stage \in {"offer", "ack"} /\ OfTransaction(m)
              /\ \/ m.type # job.stage /\ job' = j /\ UNCHANGED <<conf, arp, sent>>
                 \/ /\ m.type = job.stage /\ m.type = "offer"
                    /\ job' = [j EXCEPT !.stage = "ack"]
                    /\ sent' = sent \cup {<<"request", xid, lease.server>>}
                    /\ UNCHANGED <<conf, arp>>
                 \/ /\ m.type = job.stage /\ m.type = "ack"
                    /\ conf' = LeaseConf(lease, m.ip) /\ arp' = 0
                    /\ job' = Configured(conf', j)
                    /\ UNCHANGED sent
              /\ UNCHANGED <<file, xid, ident, found>>
    BY DEF WaitDhcp
  <1> DEFINE lease == Merge(job.lease, m)
             j == [job EXCEPT !.lease = lease]
  <1>2. /\ job \in NetJobs /\ conf \in Confs /\ xid \in Nat /\ SentKnown
        /\ UNCHANGED <<file, xid, ident, found>> /\ job.stage \in {"offer", "ack"}
    BY <1>1 DEF NetInv, NetTypeOK
  <1>3. /\ m.server \in Nat /\ m.router \in Nat /\ m.dns \in Nat /\ m.ip \in Nat
        /\ m.server \in Servers
        /\ m.type = "ack" => /\ <<"request", m.xid, m.router>> \in sent
                             /\ m.ip = 10 + m.router /\ m.router # 0
    BY <1>2, ReplyKnown
  <1>4. lease \in Leases /\ lease.server = m.server /\ (m.router # 0 => lease.router = m.router)
    BY <1>2, <1>3 DEF Merge, Leases, NetJobs
  <1>5. j \in NetJobs /\ j.stage = job.stage /\ j.name = job.name
    <2> HIDE DEF lease
    <2>1. QED
      BY <1>2, <1>4 DEF NetJobs
  <1>6. CASE job' = j /\ UNCHANGED <<conf, arp, sent>>
    <2> HIDE DEF j
    <2>1. QED
      BY <1>2, <1>5, <1>6 DEF NetInv, NetTypeOK, IdentIsOwn, HopIsNext, ConfigKept, SentKnown,
         LeaseWasGranted, QueryToNextHop, ResolvedNameIsAnswered
  <1>7. CASE /\ job' = [j EXCEPT !.stage = "ack"]
             /\ sent' = sent \cup {<<"request", xid, lease.server>>}
             /\ UNCHANGED <<conf, arp>>
    <2> HIDE DEF j, lease
    <2>1. job' \in NetJobs /\ job'.stage = "ack" /\ job'.name = job.name
      BY <1>5, <1>7 DEF NetJobs
    <2>2. SentKnown' /\ \A q \in sent' : q[1] = "query" => q \in sent
      BY <1>2, <1>3, <1>4, <1>7 DEF SentKnown
    <2>3. QED
      BY <1>2, <1>7, <2>1, <2>2 DEF NetInv, NetTypeOK, IdentIsOwn, HopIsNext, ConfigKept,
         LeaseWasGranted, QueryToNextHop, ResolvedNameIsAnswered
  <1>8. CASE /\ m.type = "ack"
             /\ conf' = LeaseConf(lease, m.ip) /\ arp' = 0
             /\ job' = Configured(conf', j)
             /\ UNCHANGED sent
    <2>1. m.xid = xid
      BY <1>1 DEF OfTransaction
    <2> HIDE DEF j, lease
    <2>2. conf' \in Confs /\ LeaseWasGranted'
      BY <1>2, <1>3, <1>4, <1>8, <2>1 DEF LeaseConf, Confs, Leases, LeaseWasGranted
    <2>3. /\ job' \in NetJobs
          /\ job'.stage = "idle" \/ (job'.stage = "arp" /\ job'.hop = NextHop(conf', conf'.dns)
                                     /\ job'.name = job.name /\ job.name # "none")
      BY <1>5, <1>8, <2>2, ConfiguredJob
    <2>4. QED
      BY <1>2, <1>8, <2>2, <2>3 DEF NetInv, NetTypeOK, IdentIsOwn, HopIsNext, ConfigKept,
         SentKnown, QueryToNextHop, ResolvedNameIsAnswered
  <1>9. QED
    BY <1>1, <1>6, <1>7, <1>8

LEMMA SendQueryKeeps == NetInv /\ SendQuery => NetInv'
  <1> SUFFICES ASSUME NetInv, SendQuery PROVE NetInv'
    OBVIOUS
  <1>1. /\ job \in NetJobs /\ job.stage = "arp" /\ job.name # "none"
        /\ job.hop = NextHop(conf, conf.dns) /\ arp = job.hop
    BY DEF SendQuery, NetInv, NetTypeOK, HopIsNext, Resolved
  <1>2. /\ job' \in NetJobs /\ job'.stage = "answer" /\ job'.name = job.name
        /\ job'.hop = job.hop /\ job'.frame = [hop |-> job.hop, mac |-> job.hop]
    BY <1>1 DEF SendQuery, NetInv, NetTypeOK, NetJobs
  <1>3. SentKnown'
    BY <1>1 DEF SendQuery, NetInv, NetTypeOK, SentKnown, NetJobs
  <1>4. IdentIsOwn'
    BY <1>1, <1>2 DEF SendQuery, NetInv, NetTypeOK, IdentIsOwn
  <1>5. QED
    BY <1>1, <1>2, <1>3, <1>4 DEF SendQuery, NetInv, NetTypeOK, HopIsNext, ConfigKept,
       LeaseWasGranted, QueryToNextHop, ResolvedNameIsAnswered, NextHop

LEMMA OtherNetKeeps ==
  NetInv /\ (ConfigureStatic \/ SaveDhcpConfig \/ HandleArp \/ WaitAnswer \/ ResolveFails) => NetInv'
  <1> SUFFICES ASSUME NetInv PROVE
        ConfigureStatic \/ SaveDhcpConfig \/ HandleArp \/ WaitAnswer \/ ResolveFails => NetInv'
    OBVIOUS
  <1> USE NetTypes DEF NetInv, NetTypeOK, SentKnown, IdentIsOwn, HopIsNext, ConfigKept,
       LeaseWasGranted, QueryToNextHop, ResolvedNameIsAnswered
  <1>1. CASE ConfigureStatic
    BY <1>1 DEF ConfigureStatic
  <1>2. CASE SaveDhcpConfig
    BY <1>2 DEF SaveDhcpConfig
  <1>3. CASE HandleArp
    BY <1>3 DEF HandleArp, Servers
  <1>4. CASE WaitAnswer
    <2>1. PICK m \in sent : /\ job.stage = "answer" /\ m[1] = "query" /\ OfQuery(m)
                            /\ found' = [name |-> job.name, answer |-> m[3]]
      BY <1>4 DEF WaitAnswer
    <2>2. m[3] = job.name
      BY <2>1 DEF OfQuery
    <2>3. QED
      BY <1>4, <2>1, <2>2 DEF WaitAnswer
  <1>5. CASE ResolveFails
    BY <1>5 DEF ResolveFails
  <1>6. QED
    BY <1>1, <1>2, <1>3, <1>4, <1>5

\* The addresses, next hops and names that the network client uses come from
\* the replies that grant them, for any number of DHCP attempts and queries and
\* whatever late, repeated or foreign replies its receive loops meet.
THEOREM ConfigurationIsGranted == ServicesSpec => []ConfigKept
  <1>1. ServicesInit => NetInv
    BY NetInitInv DEF ServicesInit
  <1>2. NetInv /\ [ServicesNext]_serviceVars => NetInv'
    <2> SUFFICES ASSUME NetInv, [ServicesNext]_serviceVars PROVE NetInv'
      OBVIOUS
    <2>1. CASE NetNext
      BY <2>1, ResolveKeeps, RenewKeeps, DhcpFailsKeeps, WaitDhcpKeeps, SendQueryKeeps,
         OtherNetKeeps DEF NetNext
    <2>2. CASE UNCHANGED netVars
      BY <2>2 DEF netVars, NetInv, NetTypeOK, SentKnown, IdentIsOwn, HopIsNext, ConfigKept,
         LeaseWasGranted, QueryToNextHop, ResolvedNameIsAnswered
    <2>3. QED
      BY <2>1, <2>2 DEF ServicesNext, serviceVars
  <1>3. NetInv => ConfigKept
    BY DEF NetInv
  <1>4. QED
    BY <1>1, <1>2, <1>3, PTL DEF ServicesSpec

-----------------------------------------------------------------------------
(* TcpClient *)

Calls ==
  [kind : Kinds \cup {"none"}, stage : Stages, ack : Nat, sent : Nat, buf : Seq(Nat \X Nat),
   cut : BOOLEAN, result : {"none", "failed", "connected", "ok"}, body : Seq(Nat \X Nat)]

TcpTypeOK ==
  /\ port \in Nat /\ port <= MaxPorts
  /\ call \in Calls
  /\ heard \in [1 .. MaxPorts -> [kind : Kinds, n : Nat]]

\* The segments sent before a stage, and the unit its receive loop starts at.
SentAt(kind, stage) ==
  CASE stage \in {"syn", "sendHello"} -> 0
    [] stage \in {"recvHello", "sendKey"} -> 1
    [] stage = "sendFinished" -> 2
    [] stage = "recvFinished" -> 3
    [] stage = "sendGet" -> IF kind = "range" THEN 3 ELSE 0
    [] stage = "recvReply" -> IF kind = "range" THEN 4 ELSE 1

StartAt(kind, stage) ==
  CASE stage \in {"sendHello", "recvHello"} -> 1
    [] stage \in {"sendKey", "sendFinished", "recvFinished"} -> 3
    [] stage \in {"sendGet", "recvReply"} -> FirstUnit(kind)

\* Only the range request goes through a handshake.
StageOfKind(kind, stage) ==
  /\ stage = "syn" => kind \in Kinds
  /\ stage \in {"sendGet", "recvReply"} => kind \in {"http", "range"}
  /\ stage \notin {"idle", "syn", "sendGet", "recvReply"} => kind = "range"

\* The call c on port p has sent what its stage says, holds no answer yet, and
\* the server has heard no more than that.
Underway(c, p, h) ==
  /\ p >= 1 /\ StageOfKind(c.kind, c.stage)
  /\ c.sent = SentAt(c.kind, c.stage)
  /\ c.result = "none"
  /\ c.stage # "syn" => h.kind = c.kind /\ h.n <= c.sent

\* A buffer holds the stream of port p from unit first on; only a plain
\* request drops what has no room.
Stream(buf, kind, cut, ack, p, first) ==
  /\ first + Len(buf) <= ack
  /\ cut => kind = "http" /\ Len(buf) = Room
  /\ ~cut => first + Len(buf) = ack
  /\ \A i \in 1 .. Len(buf) : buf[i] = <<p, first + i - 1>>

Collected(c, p, first) == Stream(c.buf, c.kind, c.cut, c.ack, p, first)

\* What the buffer holds is available, so a reply means that all was heard.
Answered(c, h) ==
  /\ c.stage = "recvReply" /\ c.buf # <<>> => h.n = SentAt(c.kind, "recvReply")
  /\ c.stage = "recvReply" => c.ack <= LastUnit(c.kind) + 1
  /\ c.stage = "recvFinished" => c.ack <= 4

InLoop(c, p, h) ==
  c.stage \in {"recvHello", "recvFinished", "recvReply"} =>
    /\ Collected(c, p, StartAt(c.kind, c.stage))
    /\ Len(c.buf) <= Room /\ (c.kind = "range" => Len(c.buf) < Room)
    /\ Answered(c, h)

BeforeSend(c) ==
  /\ c.stage \in {"sendHello", "sendKey", "sendFinished", "sendGet"} =>
       c.ack = StartAt(c.kind, c.stage) /\ ~c.cut
  /\ c.stage = "syn" => ~c.cut

\* The inductive invariant behind StreamsKept.
TcpInv ==
  /\ TcpTypeOK
  /\ call.stage # "idle" =>
       /\ Underway(call, port, heard[port])
       /\ InLoop(call, port, heard[port])
       /\ BeforeSend(call)
  /\ AnswerIsPrefix /\ AnsweredHandshake

LEMMA NoCallKnown ==
  /\ NoCall \in Calls /\ NoCall.stage = "idle" /\ NoCall.result = "none" /\ NoCall.sent = 0
  /\ NoCall.cut = FALSE
  <1>1. <<>> \in Seq(Nat \X Nat)
    OBVIOUS
  <1>2. QED
    BY <1>1 DEF NoCall, Calls, Kinds, Stages

LEMMA TcpInitInv == TcpInit => TcpInv
  <1> SUFFICES ASSUME TcpInit PROVE TcpInv
    OBVIOUS
  <1>1. TcpTypeOK
    BY NoCallKnown, ClientAssumption DEF TcpInit, TcpTypeOK, Kinds
  <1>2. QED
    BY <1>1, NoCallKnown DEF TcpInit, TcpInv, AnswerIsPrefix, AnsweredHandshake

\* The units that may arrive are what the server makes of what it has heard.
LEMMA ArrivingIsAvailable ==
  ASSUME TcpInv, NEW seg \in Arriving, Sends(seg), Accepts(seg), Receiving,
         seg.unit <= LastUnit(call.kind)
  PROVE  /\ seg.port = port /\ seg.unit \in Nat
         /\ call.stage = "recvFinished" => seg.unit <= 3
         /\ call.stage = "recvReply" /\ seg.unit >= StartAt(call.kind, "recvReply") =>
              heard[port].n = SentAt(call.kind, "recvReply")
  <1>1. /\ seg.port = port /\ seg.unit \in 1 .. 3 + Records + 1
        /\ Records \in Nat \ {0}
    BY ClientAssumption DEF Arriving, Accepts
  <1>2. /\ call \in Calls /\ port \in 1 .. MaxPorts /\ heard[port].n \in Nat
        /\ Underway(call, port, heard[port])
        /\ call.stage \in {"recvHello", "recvFinished", "recvReply"}
    <2>1. call \in Calls /\ call.stage \in {"recvHello", "recvFinished", "recvReply"}
      BY DEF TcpInv, TcpTypeOK, Receiving
    <2>2. Underway(call, port, heard[port])
      BY <2>1 DEF TcpInv
    <2>3. port \in Nat /\ port <= MaxPorts /\ port >= 1
      BY <2>2 DEF TcpInv, TcpTypeOK, Underway
    <2>4. port \in 1 .. MaxPorts
      BY <2>3, ClientAssumption
    <2>5. heard[port].n \in Nat
      BY <2>4 DEF TcpInv, TcpTypeOK
    <2>6. QED
      BY <2>1, <2>2, <2>4, <2>5
  <1>3. /\ heard[port].kind = call.kind /\ heard[port].n <= SentAt(call.kind, call.stage)
        /\ call.kind \in {"http", "range"}
        /\ call.stage # "recvReply" => call.kind = "range"
    BY <1>2 DEF Underway, StageOfKind
  <1>4. seg.unit \in Available(call.kind, heard[port].n)
    BY <1>1, <1>3 DEF Sends, LastUnit, FirstUnit, Handshake, Available
  <1>5. QED
    BY <1>1, <1>2, <1>3, <1>4 DEF Available, Handshake, SentAt, StartAt, LastUnit, FirstUnit

\* The server closes the connection of a plain request after it has heard it.
LEMMA FinIsLate ==
  ASSUME TcpInv, NEW seg \in Arriving, Sends(seg), Accepts(seg), Receiving
  PROVE  seg.fin /\ call.kind = "http" => heard[port].n = 1
  <1> SUFFICES ASSUME seg.fin, call.kind = "http" PROVE heard[port].n = 1
    OBVIOUS
  <1>1. /\ TcpTypeOK /\ Underway(call, port, heard[port])
        /\ call.stage \in {"recvHello", "recvFinished", "recvReply"}
    BY DEF TcpInv, Receiving
  <1>2. port \in 1 .. MaxPorts
    BY <1>1, ClientAssumption DEF TcpTypeOK, Underway
  <1>3. heard[port].kind = "http" /\ heard[port].n \in Nat /\ heard[port].n <= 1
    BY <1>1, <1>2 DEF TcpTypeOK, Underway, StageOfKind, SentAt
  <1>4. LastUnit("http") \in Available("http", heard[port].n)
    BY <1>3 DEF Sends, Accepts
  <1>5. QED
    BY <1>3, <1>4 DEF Available, Handshake

LEMMA CallFields ==
  ASSUME NEW c \in Calls, NEW a \in Nat, NEW b \in Seq(Nat \X Nat), NEW f \in BOOLEAN
  PROVE  [c EXCEPT !.ack = a, !.buf = b, !.cut = f] \in Calls
  <1> DEFINE S == Seq(Nat \X Nat)
  <1> HIDE DEF S
  <1>1. b \in S
    BY DEF S
  <1>2. Calls = [kind : Kinds \cup {"none"}, stage : Stages, ack : Nat, sent : Nat, buf : S,
          cut : BOOLEAN, result : {"none", "failed", "connected", "ok"}, body : S]
    BY DEF Calls, S
  <1>3. QED
    BY <1>1, <1>2

\* One segment into the buffer.
LEMMA TakeCollects ==
  ASSUME NEW c \in Calls, NEW seg, NEW p \in Nat, NEW first \in Nat,
         seg.unit = c.ack, seg.port = p, Collected(c, p, first),
         c.kind = "range" => Len(c.buf) < Room, Len(c.buf) <= Room,
         c.kind \in {"http", "range"}
  PROVE  LET d == Take(c, seg)
         IN  /\ d \in Calls /\ d.kind = c.kind /\ d.stage = c.stage /\ d.sent = c.sent
             /\ d.result = c.result /\ d.ack = c.ack + 1
             /\ Collected(d, p, first)
             /\ Len(d.buf) <= Room
  <1> DEFINE b == IF Len(c.buf) < Room THEN Append(c.buf, <<seg.port, seg.unit>>) ELSE c.buf
             d == Take(c, seg)
  <1>1. /\ c.buf \in Seq(Nat \X Nat) /\ c.ack \in Nat /\ c.cut \in BOOLEAN /\ Len(c.buf) \in Nat
        /\ Room \in Nat
    BY ClientAssumption DEF Calls
  <1>2. b \in Seq(Nat \X Nat)
    BY <1>1
  <1> DEFINE full == c.cut \/ Len(c.buf) = Room
  <1>3. d = [c EXCEPT !.ack = c.ack + 1, !.buf = b, !.cut = full]
    BY DEF Take
  <1>4. /\ d \in Calls /\ d.kind = c.kind /\ d.stage = c.stage /\ d.sent = c.sent
        /\ d.result = c.result /\ d.ack = c.ack + 1 /\ d.buf = b
        /\ d.cut = full
    <2>1. full \in BOOLEAN
      BY <1>1
    <2> HIDE DEF b, d, full
    <2>2. d \in Calls
      <3>1. c.ack + 1 \in Nat
        BY <1>1
      <3>2. [c EXCEPT !.ack = c.ack + 1, !.buf = b, !.cut = full] \in Calls
        BY <1>2, <2>1, <3>1, CallFields
      <3>3. QED
        BY <1>3, <3>2
    <2>3. /\ d.kind = c.kind /\ d.stage = c.stage /\ d.sent = c.sent
          /\ d.result = c.result /\ d.ack = c.ack + 1
      BY <1>3 DEF Calls
    <2>4. d.buf = b
      BY <1>3 DEF Calls
    <2>5. d.cut = full
      BY <1>3 DEF Calls
    <2>6. QED
      BY <2>2, <2>3, <2>4, <2>5
  <1>5. Stream(b, c.kind, full, c.ack + 1, p, first) /\ Len(b) <= Room
    <2>1. CASE Len(c.buf) < Room
      <3>1. /\ Len(b) = Len(c.buf) + 1
            /\ b[Len(c.buf) + 1] = <<p, c.ack>>
            /\ \A i \in 1 .. Len(c.buf) : b[i] = c.buf[i]
        BY <1>1, <2>1
      <3>2. ~c.cut /\ ~full /\ c.ack = first + Len(c.buf)
        BY <1>1, <2>1 DEF Collected, Stream
      <3> HIDE DEF b, full
      <3>3. \A i \in 1 .. Len(b) : b[i] = <<p, first + i - 1>>
        <4> SUFFICES ASSUME NEW i \in 1 .. Len(b) PROVE b[i] = <<p, first + i - 1>>
          OBVIOUS
        <4>1. CASE i = Len(c.buf) + 1
          BY <1>1, <3>1, <3>2, <4>1
        <4>2. CASE i \in 1 .. Len(c.buf)
          BY <3>1, <4>2 DEF Collected, Stream
        <4>3. QED
          BY <1>1, <3>1, <4>1, <4>2
      <3>4. QED
        BY <1>1, <2>1, <3>1, <3>2, <3>3 DEF Stream
    <2>2. CASE Len(c.buf) = Room
      <3>1. b = c.buf /\ full /\ c.kind = "http"
        BY <1>1, <2>2
      <3> HIDE DEF b, full
      <3>2. QED
        BY <1>1, <2>2, <3>1 DEF Collected, Stream
    <2>3. QED
      BY <1>1, <2>1, <2>2
  <1>6. Collected(d, p, first) /\ Len(d.buf) <= Room
    <2> HIDE DEF b, d, full
    <2>1. QED
      BY <1>4, <1>5 DEF Collected
  <1>7. QED
    BY <1>4, <1>6

\* A call that ends without an answer.
LEMMA EndsWithout ==
  ASSUME TcpTypeOK, NEW c \in Calls, NEW r \in {"failed", "connected"},
         call' = [c EXCEPT !.stage = "idle", !.result = r], port' = port,
         heard' \in [1 .. MaxPorts -> [kind : Kinds, n : Nat]]
  PROVE  TcpInv'
  <1>1. call' \in Calls /\ call'.stage = "idle" /\ call'.result = r
    BY DEF Calls, Stages
  <1>2. QED
    BY <1>1 DEF TcpInv, TcpTypeOK, AnswerIsPrefix, AnsweredHandshake

\* What a receive loop is left with when it ends.
LEMMA ReceivedKeeps ==
  ASSUME TcpInv, NEW c \in Calls, c.stage \in {"recvHello", "recvFinished", "recvReply"},
         Underway(c, port, heard[port]), Collected(c, port, StartAt(c.kind, c.stage)),
         Answered(c, heard[port]), UNCHANGED <<port, heard>>,
         NEW fin \in BOOLEAN, fin /\ c.kind = "http" => heard[port].n = 1,
         call' = Received1(c, fin)
  PROVE  TcpInv'
  <1>1. /\ TcpTypeOK /\ port \in Nat /\ port >= 1 /\ c.buf \in Seq(Nat \X Nat) /\ c.ack \in Nat
        /\ Len(c.buf) \in Nat /\ heard' \in [1 .. MaxPorts -> [kind : Kinds, n : Nat]]
        /\ Stream(c.buf, c.kind, c.cut, c.ack, port, StartAt(c.kind, c.stage))
    BY DEF TcpInv, TcpTypeOK, Calls, Underway, Collected
  <1>2. CASE call' = [c EXCEPT !.stage = "idle", !.result = "failed"]
    BY <1>1, <1>2, EndsWithout
  <1>3. CASE c.stage = "recvHello" /\ Len(c.buf) = 2 /\ call' = [c EXCEPT !.stage = "sendKey"]
    <2>1. call' \in Calls /\ call'.stage = "sendKey" /\ call'.kind = c.kind /\ call'.ack = c.ack
          /\ call'.sent = c.sent /\ call'.result = c.result /\ call'.cut = c.cut
      BY <1>3 DEF Calls, Stages
    <2>2. c.kind = "range" /\ c.sent = 1 /\ c.result = "none"
      BY <1>3 DEF Underway, StageOfKind, SentAt
    <2>3. ~c.cut /\ c.ack = 3
      BY <1>1, <1>3, <2>2 DEF Stream, StartAt
    <2>4. Underway(call', port', heard'[port'])
      BY <1>1, <1>3, <2>1, <2>2 DEF Underway, StageOfKind, SentAt
    <2>5. InLoop(call', port', heard'[port']) /\ BeforeSend(call')
      BY <2>1, <2>3 DEF InLoop, BeforeSend, StartAt
    <2>6. QED
      BY <1>1, <2>1, <2>2, <2>4, <2>5 DEF TcpInv, TcpTypeOK, AnswerIsPrefix, AnsweredHandshake
  <1>4. CASE c.stage = "recvFinished" /\ c.buf # <<>> /\ call' = [c EXCEPT !.stage = "sendGet"]
    <2>1. call' \in Calls /\ call'.stage = "sendGet" /\ call'.kind = c.kind /\ call'.ack = c.ack
          /\ call'.sent = c.sent /\ call'.result = c.result /\ call'.cut = c.cut
      BY <1>4 DEF Calls, Stages
    <2>2. c.kind = "range" /\ c.sent = 3 /\ c.result = "none"
      BY <1>4 DEF Underway, StageOfKind, SentAt
    <2>3. Len(c.buf) >= 1
      BY <1>1, <1>4
    <2>4. ~c.cut /\ c.ack = 4
      BY <1>1, <1>4, <2>2, <2>3 DEF Stream, StartAt, Answered
    <2>5. Underway(call', port', heard'[port'])
      BY <1>1, <1>4, <2>1, <2>2 DEF Underway, StageOfKind, SentAt
    <2>6. InLoop(call', port', heard'[port']) /\ BeforeSend(call')
      BY <2>1, <2>2, <2>4 DEF InLoop, BeforeSend, StartAt, FirstUnit, Handshake
    <2>7. QED
      BY <1>1, <2>1, <2>2, <2>5, <2>6 DEF TcpInv, TcpTypeOK, AnswerIsPrefix, AnsweredHandshake
  <1>5. CASE /\ c.stage = "recvReply" /\ (c.buf # <<>> \/ (fin /\ c.kind = "http"))
             /\ call' = [c EXCEPT !.stage = "idle", !.body = c.buf, !.result = "ok"]
    <2>1. call' \in Calls /\ call'.stage = "idle" /\ call'.kind = c.kind /\ call'.body = c.buf
      <3> DEFINE S == Seq(Nat \X Nat)
      <3> HIDE DEF S
      <3>1. c.buf \in S
        BY <1>1 DEF S
      <3>2. Calls = [kind : Kinds \cup {"none"}, stage : Stages, ack : Nat, sent : Nat, buf : S,
              cut : BOOLEAN, result : {"none", "failed", "connected", "ok"}, body : S]
        BY DEF Calls, S
      <3>3. QED
        BY <1>5, <3>1, <3>2 DEF Stages
    <2>2. c.buf = <<>> => c.kind = "http" /\ heard[port].n = 1
      BY <1>5
    <2>3. /\ c.kind \in {"http", "range"}
          /\ c.ack <= FirstUnit(c.kind) + Records
          /\ heard[port].n = IF c.kind = "range" THEN 4 ELSE 1
      BY <1>1, <1>5, <2>2, ClientAssumption DEF Answered, Underway, StageOfKind, LastUnit, SentAt,
         FirstUnit
    <2> DEFINE first == FirstUnit(c.kind)
    <2>4. /\ first \in Nat /\ first + Len(c.buf) <= c.ack
          /\ \A i \in 1 .. Len(c.buf) : c.buf[i] = <<port, first + i - 1>>
      BY <1>1, <1>5 DEF Stream, StartAt, FirstUnit
    <2> HIDE DEF first
    <2>5. Len(c.buf) \in 0 .. Records
      BY <1>1, <2>3, <2>4, ClientAssumption DEF first
    <2>6. AnswerIsPrefix'
      <3>1. DOMAIN c.buf = 1 .. Len(c.buf)
        BY <1>1
      <3>2. QED
        BY <2>1, <2>2, <2>4, <2>5, <3>1 DEF AnswerIsPrefix, first
    <2>7. QED
      BY <1>1, <2>1, <2>3, <2>6 DEF TcpInv, TcpTypeOK, AnsweredHandshake
  <1>6. CASE /\ c.stage = "recvReply" /\ ~(c.buf # <<>> \/ (fin /\ c.kind = "http"))
             /\ call' = [c EXCEPT !.stage = "idle", !.body = c.buf, !.result = "failed"]
    <2> DEFINE d == [c EXCEPT !.body = c.buf]
    <2>1. d \in Calls
      BY <1>1 DEF Calls
    <2>2. call' = [d EXCEPT !.stage = "idle", !.result = "failed"]
      BY <1>6 DEF Calls
    <2> HIDE DEF d
    <2>3. QED
      BY <1>1, <2>1, <2>2, EndsWithout
  <1>7. QED
    BY <1>2, <1>3, <1>4, <1>5, <1>6 DEF Received1

LEMMA TcpReceiveKeeps == TcpInv /\ TcpReceive => TcpInv'
  <1> SUFFICES ASSUME TcpInv, TcpReceive PROVE TcpInv'
    OBVIOUS
  <1>1. PICK seg \in Arriving :
          LET data == heard[port].kind = call.kind /\ seg.unit <= LastUnit(call.kind)
              c == IF data THEN Take(call, seg) ELSE call
          IN  /\ Receiving /\ Sends(seg) /\ Accepts(seg)
              /\ call' = IF seg.fin \/ (c # call /\ LoopEnds(c)) THEN Received1(c, seg.fin) ELSE c
              /\ UNCHANGED <<port, heard>>
    BY DEF TcpReceive
  <1> DEFINE data == heard[port].kind = call.kind /\ seg.unit <= LastUnit(call.kind)
             c == IF data THEN Take(call, seg) ELSE call
             first == StartAt(call.kind, call.stage)
  <1>2. /\ TcpTypeOK /\ call \in Calls /\ port \in Nat /\ call.ack \in Nat
        /\ call.stage \in {"recvHello", "recvFinished", "recvReply"}
        /\ Underway(call, port, heard[port]) /\ InLoop(call, port, heard[port])
    BY <1>1 DEF TcpInv, TcpTypeOK, Receiving, Calls
  <1>3. /\ call.kind \in {"http", "range"} /\ first \in Nat
        /\ call.kind # "range" => call.stage = "recvReply"
    BY <1>2 DEF Underway, StageOfKind, StartAt, FirstUnit
  <1>4. /\ Collected(call, port, first) /\ Len(call.buf) <= Room
        /\ call.kind = "range" => Len(call.buf) < Room
        /\ Answered(call, heard[port])
    BY <1>2 DEF InLoop
  <1>5. /\ c \in Calls /\ c.stage = call.stage /\ c.kind = call.kind
        /\ Underway(c, port, heard[port]) /\ Collected(c, port, first)
        /\ Answered(c, heard[port]) /\ Len(c.buf) <= Room
    <2>1. CASE c = call
      BY <1>2, <1>4, <2>1
    <2>2. CASE c # call
      <3>1. data /\ seg.unit = call.ack /\ c = Take(call, seg)
        BY <2>2 DEF Take
      <3>2. seg.port = port /\ seg.unit \in Nat
        BY <1>1, <3>1, ArrivingIsAvailable
      <3> HIDE DEF c, first
      <3>3. /\ c \in Calls /\ c.kind = call.kind /\ c.stage = call.stage /\ c.sent = call.sent
            /\ c.result = call.result /\ c.ack = call.ack + 1
            /\ Collected(c, port, first)
            /\ Len(c.buf) <= Room
        BY <1>2, <1>3, <1>4, <3>1, <3>2, TakeCollects
      <3>4. Underway(c, port, heard[port])
        BY <1>2, <3>3 DEF Underway
      <3>5. first <= call.ack
        <4>1. call.buf \in Seq(Nat \X Nat) /\ Len(call.buf) \in Nat
          BY <1>2 DEF Calls
        <4>2. QED
          BY <1>2, <1>3, <1>4, <4>1 DEF Collected, Stream
      <3>6. Answered(c, heard[port])
        <4>1. CASE call.stage = "recvFinished"
          <5>1. call.ack <= 3
            BY <1>1, <3>1, <4>1, ArrivingIsAvailable
          <5>2. QED
            BY <1>2, <3>3, <4>1, <5>1 DEF Answered
        <4>2. CASE call.stage = "recvReply"
          <5>1. heard[port].n = SentAt(call.kind, "recvReply")
            BY <1>1, <3>1, <3>5, <4>2, ArrivingIsAvailable DEF first
          <5>2. call.ack <= LastUnit(call.kind) /\ LastUnit(call.kind) \in Nat
            BY <1>3, <3>1, ClientAssumption DEF LastUnit, FirstUnit
          <5>3. QED
            BY <1>2, <3>3, <4>2, <5>1, <5>2 DEF Answered
        <4>3. QED
          BY <1>2, <3>3, <4>1, <4>2 DEF Answered
      <3>7. QED
        BY <3>3, <3>4, <3>6
    <2>3. QED
      BY <2>1, <2>2
  <1>6. CASE seg.fin \/ (c # call /\ LoopEnds(c))
    <2>1. call' = Received1(c, seg.fin) /\ UNCHANGED <<port, heard>> /\ seg.fin \in BOOLEAN
      BY <1>1, <1>6 DEF Arriving
    <2>4. seg.fin /\ c.kind = "http" => heard[port].n = 1
      BY <1>1, <1>2, <1>5, FinIsLate
    <2> HIDE DEF c
    <2>2. Collected(c, port, StartAt(c.kind, c.stage))
      BY <1>5
    <2> HIDE DEF first
    <2>3. QED
      BY <1>2, <1>5, <2>1, <2>2, <2>4, ReceivedKeeps
  <1>7. CASE ~(seg.fin \/ (c # call /\ LoopEnds(c)))
    <2>1. call' = c /\ UNCHANGED <<port, heard>>
      BY <1>1, <1>7
    <2>2. c.kind = "range" => Len(c.buf) < Room
      <3>1. CASE c = call
        BY <1>4, <3>1
      <3>2. CASE c # call
        <4>1. ~LoopEnds(c)
          BY <1>7, <3>2
        <4> HIDE DEF c, first
        <4>2. c.buf \in Seq(Nat \X Nat) /\ Len(c.buf) \in Nat
          BY <1>5 DEF Calls
        <4>3. QED
          BY <1>5, <4>1, <4>2, ClientAssumption DEF LoopEnds
      <3>3. QED
        BY <3>1, <3>2
    <2> HIDE DEF c
    <2>3. InLoop(c, port, heard[port]) /\ BeforeSend(c)
      BY <1>2, <1>5, <2>2 DEF InLoop, BeforeSend
    <2>4. c.result = "none"
      BY <1>5 DEF Underway
    <2>5. QED
      BY <1>2, <1>5, <2>1, <2>3, <2>4 DEF TcpInv, TcpTypeOK, AnswerIsPrefix, AnsweredHandshake
  <1>8. QED
    BY <1>6, <1>7

LEMMA TcpSendKeeps == TcpInv /\ TcpSendData => TcpInv'
  <1> SUFFICES ASSUME TcpInv, TcpSendData PROVE TcpInv'
    OBVIOUS
  <1>1. /\ TcpTypeOK /\ call \in Calls /\ port \in Nat
        /\ call.stage \in {"sendHello", "sendKey", "sendFinished", "sendGet"}
        /\ Underway(call, port, heard[port]) /\ BeforeSend(call)
    BY DEF TcpInv, TcpTypeOK, TcpSendData, AfterSend
  <1>2. port \in 1 .. MaxPorts
    BY <1>1, ClientAssumption DEF TcpTypeOK, Underway
  <1> DEFINE next == AfterSend[call.stage]
             b == IF next = "sendFinished" THEN call.buf ELSE <<>>
  <1>3. /\ next \in {"recvHello", "sendFinished", "recvFinished", "recvReply"}
        /\ call.stage = "sendHello" => next = "recvHello"
        /\ call.stage = "sendKey" => next = "sendFinished"
        /\ call.stage = "sendFinished" => next = "recvFinished"
        /\ call.stage = "sendGet" => next = "recvReply"
    BY <1>1 DEF AfterSend
  <1>4. /\ b \in Seq(Nat \X Nat) /\ (next # "sendFinished" => b = <<>>)
        /\ call.sent \in Nat /\ call.cut = FALSE
        /\ call' = [call EXCEPT !.stage = next, !.sent = @ + 1, !.buf = b]
    BY <1>1 DEF Calls, TcpSendData, BeforeSend
  <1> HIDE DEF b, next
  <1>5. /\ call'.stage = next /\ call'.sent = call.sent + 1 /\ call'.buf = b
        /\ call'.kind = call.kind /\ call'.ack = call.ack /\ call'.result = call.result
        /\ call'.cut = call.cut
    BY <1>1, <1>4 DEF Calls
  <1>6. call' \in Calls
    <2> DEFINE S == Seq(Nat \X Nat)
    <2> HIDE DEF S
    <2>1. b \in S
      BY <1>4 DEF S
    <2>2. Calls = [kind : Kinds \cup {"none"}, stage : Stages, ack : Nat, sent : Nat, buf : S,
            cut : BOOLEAN, result : {"none", "failed", "connected", "ok"}, body : S]
      BY DEF Calls, S
    <2>3. next \in Stages /\ call.sent + 1 \in Nat
      BY <1>3, <1>4 DEF Stages
    <2>4. call' = [call EXCEPT !.stage = next, !.sent = call.sent + 1, !.buf = b]
      BY <1>4
    <2> HIDE DEF next, b
    <2>5. QED
      BY <1>1, <2>1, <2>2, <2>3, <2>4
  <1>7. PICK arrives \in BOOLEAN : Heard(call.kind, call.sent + 1, arrives) /\ port' = port
    BY DEF TcpSendData
  <1>8. /\ heard' \in [1 .. MaxPorts -> [kind : Kinds, n : Nat]]
        /\ heard'[port].kind = call.kind /\ heard'[port].n <= call.sent + 1
    <2>1. /\ heard \in [1 .. MaxPorts -> [kind : Kinds, n : Nat]]
          /\ heard[port].n \in Nat /\ heard[port].n <= call.sent
          /\ call.kind \in Kinds
      BY <1>1, <1>2 DEF TcpTypeOK, Underway, StageOfKind, Kinds
    <2>2. PICK m \in {call.sent + 1, heard[port].n} :
            heard' = [heard EXCEPT ![port] = [kind |-> call.kind, n |-> m]]
      <3>1. CASE arrives /\ heard[port].n = call.sent + 1 - 1
        BY <1>7, <3>1 DEF Heard
      <3>2. CASE ~(arrives /\ heard[port].n = call.sent + 1 - 1)
        BY <1>7, <3>2 DEF Heard
      <3>3. QED
        BY <3>1, <3>2
    <2>3. m \in Nat /\ m <= call.sent + 1
      BY <1>4, <2>1, <2>2
    <2>4. QED
      BY <1>2, <2>1, <2>2, <2>3
  <1>9. Underway(call', port', heard'[port'])
    BY <1>1, <1>3, <1>5, <1>7, <1>8 DEF Underway, StageOfKind, SentAt
  <1>10. BeforeSend(call')
    BY <1>1, <1>3, <1>5 DEF BeforeSend, StartAt
  <1>11. InLoop(call', port', heard'[port'])
    <2> SUFFICES ASSUME next # "sendFinished" PROVE InLoop(call', port', heard'[port'])
      BY <1>5 DEF InLoop
    <2> DEFINE first == StartAt(call.kind, next)
    <2>1. call.ack = StartAt(call.kind, call.stage) /\ call.kind \in {"http", "range"}
      BY <1>1 DEF BeforeSend, Underway, StageOfKind
    <2>2. first = call.ack /\ first \in Nat
      BY <1>1, <1>3, <2>1 DEF StartAt, FirstUnit
    <2>3. call'.buf = <<>> /\ Len(call'.buf) = 0
      BY <1>4, <1>5
    <2> HIDE DEF first
    <2>4. Collected(call', port', first)
      BY <1>4, <1>5, <2>2, <2>3 DEF Collected, Stream
    <2>5. Len(call'.buf) < Room /\ Len(call'.buf) <= Room
      BY <2>3, ClientAssumption
    <2>6. call.ack <= LastUnit(call.kind) + 1 \/ next # "recvReply"
      BY <1>1, <1>3, <2>1, ClientAssumption DEF StartAt, LastUnit, FirstUnit
    <2>7. next = "recvFinished" => call.ack = 3
      BY <1>1, <1>3, <2>1 DEF StartAt
    <2>8. Answered(call', heard'[port'])
      BY <1>5, <2>3, <2>6, <2>7 DEF Answered
    <2>9. QED
      BY <1>5, <2>4, <2>5, <2>8 DEF InLoop, first
  <1>12. call'.result = "none"
    BY <1>1, <1>5 DEF Underway
  <1>13. QED
    BY <1>1, <1>6, <1>7, <1>8, <1>9, <1>10, <1>11, <1>12 DEF TcpInv, TcpTypeOK, AnswerIsPrefix,
       AnsweredHandshake

LEMMA OtherTcpKeeps ==
  TcpInv /\ (TcpConnect \/ ConnectFails \/ Connected2 \/ SendRefused \/ TcpDeadline \/ TcpReset)
    => TcpInv'
  <1> SUFFICES ASSUME TcpInv
               PROVE  TcpConnect \/ ConnectFails \/ Connected2 \/ SendRefused \/ TcpDeadline
                        \/ TcpReset => TcpInv'
    OBVIOUS
  <1>1. TcpTypeOK /\ call \in Calls /\ heard \in [1 .. MaxPorts -> [kind : Kinds, n : Nat]]
        /\ port \in Nat
    BY DEF TcpInv, TcpTypeOK
  <1>2. CASE TcpConnect
    <2>1. PICK kind \in Kinds : /\ port < MaxPorts /\ port' = port + 1 /\ heard' = heard
                                /\ call' = [NoCall EXCEPT !.kind = kind, !.stage = "syn"]
      BY <1>2 DEF TcpConnect
    <2>2. call' \in Calls /\ call'.kind = kind /\ call'.stage = "syn" /\ call'.sent = 0
          /\ call'.result = "none" /\ call'.cut = FALSE
      BY <2>1, NoCallKnown DEF Calls, Stages
    <2>3. Underway(call', port', heard'[port'])
      BY <1>1, <2>1, <2>2 DEF Underway, StageOfKind, SentAt
    <2>4. InLoop(call', port', heard'[port']) /\ BeforeSend(call')
      BY <2>2 DEF InLoop, BeforeSend
    <2>5. QED
      BY <1>1, <2>1, <2>2, <2>3, <2>4, ClientAssumption DEF TcpInv, TcpTypeOK, AnswerIsPrefix,
         AnsweredHandshake
  <1>3. CASE ConnectFails \/ SendRefused \/ TcpReset
    BY <1>1, <1>3, EndsWithout DEF ConnectFails, SendRefused, TcpReset, Return
  <1>4. CASE Connected2
    <2>1. /\ call.stage = "syn" /\ Underway(call, port, heard[port]) /\ BeforeSend(call)
          /\ port' = port
      BY <1>4 DEF Connected2, TcpInv
    <2>2. /\ port \in 1 .. MaxPorts /\ call.kind \in Kinds /\ call.sent = 0 /\ ~call.cut
          /\ call.result = "none"
      BY <1>1, <2>1, ClientAssumption DEF Underway, StageOfKind, SentAt, TcpTypeOK, BeforeSend
    <2>3. /\ heard' = [heard EXCEPT ![port] = [kind |-> call.kind, n |-> 0]]
          /\ heard' \in [1 .. MaxPorts -> [kind : Kinds, n : Nat]]
          /\ heard'[port] = [kind |-> call.kind, n |-> 0]
      BY <1>1, <1>4, <2>2 DEF Connected2
    <2>4. CASE call.kind = "probe"
      BY <1>1, <1>4, <2>1, <2>3, <2>4, EndsWithout DEF Connected2, Return
    <2>5. CASE call.kind # "probe"
      <3> DEFINE s == IF call.kind = "range" THEN "sendHello" ELSE "sendGet"
      <3>1. call' = [call EXCEPT !.ack = 1, !.stage = s]
        BY <1>4, <2>5 DEF Connected2
      <3>2. call' \in Calls /\ call'.stage = s /\ call'.ack = 1 /\ call'.kind = call.kind
            /\ call'.sent = 0 /\ call'.result = "none" /\ ~call'.cut
        BY <1>1, <2>2, <3>1 DEF Calls, Stages
      <3>3. Underway(call', port', heard'[port'])
        BY <1>1, <2>1, <2>2, <2>3, <2>5, <3>2 DEF Underway, StageOfKind, SentAt, Kinds
      <3>4. InLoop(call', port', heard'[port']) /\ BeforeSend(call')
        BY <2>2, <2>5, <3>2 DEF InLoop, BeforeSend, StartAt, FirstUnit, Handshake, Kinds
      <3>5. QED
        BY <1>1, <2>1, <2>3, <3>2, <3>3, <3>4 DEF TcpInv, TcpTypeOK, AnswerIsPrefix,
           AnsweredHandshake
    <2>6. QED
      BY <2>4, <2>5
  <1>5. CASE TcpDeadline
    <2>1. /\ call.stage \in {"recvHello", "recvFinished", "recvReply"}
          /\ call' = Received1(call, FALSE) /\ UNCHANGED <<port, heard>>
      BY <1>5 DEF TcpDeadline, Receiving
    <2>2. /\ Underway(call, port, heard[port]) /\ Answered(call, heard[port])
          /\ Collected(call, port, StartAt(call.kind, call.stage))
      BY <2>1 DEF TcpInv, InLoop
    <2>3. QED
      BY <1>1, <2>1, <2>2, ReceivedKeeps
  <1>6. QED
    BY <1>2, <1>3, <1>4, <1>5

\* The buffer of a receive loop is the stream from where the loop started.
LEMMA LoopInOrder == TcpInv => ReceivedInOrder
  <1> SUFFICES ASSUME TcpInv, Receiving PROVE ReceivedInOrder
    BY DEF ReceivedInOrder
  <1> DEFINE first == StartAt(call.kind, call.stage)
             n == Len(call.buf)
  <1>1. /\ call \in Calls /\ call.stage \in {"recvHello", "recvFinished", "recvReply"}
        /\ Stream(call.buf, call.kind, call.cut, call.ack, port, first)
        /\ Underway(call, port, heard[port])
    BY DEF TcpInv, TcpTypeOK, Receiving, InLoop, Collected
  <1>2. call.buf \in Seq(Nat \X Nat) /\ n \in Nat /\ call.ack \in Nat /\ first \in Nat
    BY <1>1 DEF Calls, StartAt, FirstUnit, Underway, StageOfKind
  <1> HIDE DEF first
  <1>3. CASE call.cut
    <2>1. n = Room /\ \A i \in 1 .. n : call.buf[i] = <<port, first + i - 1>>
      BY <1>1, <1>3 DEF Stream
    <2>2. call.buf[1] = <<port, first>>
      BY <1>2, <2>1, ClientAssumption
    <2>3. QED
      BY <1>3, <2>1, <2>2 DEF ReceivedInOrder
  <1>4. CASE ~call.cut
    <2>1. first = call.ack - n /\ \A i \in 1 .. n : call.buf[i] = <<port, first + i - 1>>
      BY <1>1, <1>2, <1>4 DEF Stream
    <2>2. QED
      BY <1>4, <2>1 DEF ReceivedInOrder
  <1>5. QED
    BY <1>3, <1>4

\* A caller of the TCP client gets a prefix of the answer to its own request,
\* never bytes of another connection and never bytes out of order, for any
\* number of connections, length of the answer and size of the buffer.
THEOREM CallersGetTheirStream == ServicesSpec => []StreamsKept
  <1>1. ServicesInit => TcpInv
    BY TcpInitInv DEF ServicesInit
  <1>2. TcpInv /\ [ServicesNext]_serviceVars => TcpInv'
    <2> SUFFICES ASSUME TcpInv, [ServicesNext]_serviceVars PROVE TcpInv'
      OBVIOUS
    <2>1. CASE TcpNext
      BY <2>1, TcpReceiveKeeps, TcpSendKeeps, OtherTcpKeeps DEF TcpNext
    <2>2. CASE UNCHANGED tcpVars
      BY <2>2 DEF tcpVars, TcpInv, TcpTypeOK, AnswerIsPrefix, AnsweredHandshake
    <2>3. QED
      BY <2>1, <2>2 DEF ServicesNext, serviceVars
  <1>3. TcpInv => StreamsKept
    BY LoopInOrder DEF TcpInv, StreamsKept
  <1>4. QED
    BY <1>1, <1>2, <1>3, PTL DEF ServicesSpec

-----------------------------------------------------------------------------
(* UpdateDownload *)

FileBlocks == Seq(Nat)
CacheFiles == [ArtifactNames -> FileBlocks]
ArtifactStages == {"open", "single", "chunks", "verify"}
Fetches ==
  [stage : ArtifactStages \cup {"idle", "manifest", "signature", "packages", "esp"}, tries : Nat,
   text : Nat, version : Nat, item : Nat, dst : FileBlocks, taken : CacheFiles, early : BOOLEAN]

DlTypeOK ==
  /\ published \in Nat \ {0} /\ calm \in BOOLEAN /\ running \in Nat /\ failed \in Nat
  /\ cache \in CacheFiles /\ disk.cache \in CacheFiles
  /\ fetch \in Fetches

\* A beginning of the file of version v, which more of v makes whole.
Clean(s, v) == Len(s) <= Size(v) /\ \A i \in 1 .. Len(s) : s[i] = v

\* The cache files that are not, and how many.
Dirty(c, v) == {a \in ArtifactNames : ~Clean(c[a], v)}
Dirt(c, v) == Cardinality(Dirty(c, v))

\* An upgrade counts as failed only if it was started on a calm channel.
CountedLate ==
  /\ ~calm => failed = 0
  /\ fetch.early => failed = 0
  /\ fetch.stage # "idle" /\ ~fetch.early => calm

\* Such an upgrade is one to the version on the channel.
LateIsCurrent ==
  ~fetch.early =>
    /\ fetch.stage = "signature" => fetch.text = published
    /\ fetch.stage \notin {"idle", "manifest", "signature"} => fetch.version = published

\* The artifact i is that of the version, or the running one already is.
Taken(i) ==
  \/ fetch.taken[Artifacts[i]] = File(fetch.version)
  \/ i # IndexItem /\ running = fetch.version

\* The artifacts before the current one are those of the version.
TakenSoFar ==
  /\ fetch.stage \in ArtifactStages =>
       /\ fetch.item \in 1 .. IndexItem
       /\ \A i \in 1 .. IndexItem : i < fetch.item => Taken(i)
  /\ fetch.stage \in {"packages", "esp"} => \A i \in 1 .. IndexItem : Taken(i)

\* What is put together is short of the file until it is verified, and spoilt
\* only by what the cache had.
PutTogether ==
  /\ fetch.stage = "chunks" => Len(fetch.dst) < Size(fetch.version)
  /\ fetch.stage = "verify" => Len(fetch.dst) = Size(fetch.version)
  /\ fetch.stage \in {"chunks", "verify"} /\ ~fetch.early =>
       (Clean(cache[Artifact], published) => Clean(fetch.dst, published))

\* Every counted failure has cleaned a cache file.
FailuresClean == failed + Dirt(cache, published) <= Cardinality(ArtifactNames)

\* The inductive invariant behind DownloadsSound.
DlInv ==
  DlTypeOK /\ CountedLate /\ LateIsCurrent /\ TakenSoFar /\ PutTogether /\ FailuresClean

\* There are finitely many artifacts.
LEMMA ArtifactsKnown ==
  /\ IndexItem \in Nat \ {0} /\ DOMAIN Artifacts = 1 .. IndexItem
  /\ \A i \in 1 .. IndexItem : Artifacts[i] \in ArtifactNames
  /\ IsFiniteSet(ArtifactNames) /\ Cardinality(ArtifactNames) \in Nat
  <1>1. /\ IndexItem \in Nat \ {0} /\ DOMAIN Artifacts = 1 .. IndexItem
        /\ \A i \in 1 .. IndexItem : Artifacts[i] \in ArtifactNames
        /\ \A a \in ArtifactNames : \E i \in 1 .. IndexItem : Artifacts[i] = a
    BY DownloadAssumption DEF IndexItem, ArtifactNames
  <1> DEFINE f == [i \in 1 .. IndexItem |-> Artifacts[i]]
  <1>2. f \in Surjection(1 .. IndexItem, ArtifactNames)
    BY <1>1 DEF Surjection
  <1>3. IsFiniteSet(1 .. IndexItem)
    BY <1>1, FS_Interval
  <1> HIDE DEF f
  <1>4. IsFiniteSet(ArtifactNames)
    BY <1>2, <1>3, FS_Surjection
  <1>5. QED
    BY <1>1, <1>4, FS_CardinalityType

LEMMA SizeKnown == ASSUME NEW v \in Nat PROVE Size(v) \in Nat /\ Size(v) >= 1
  <1>1. (v + 1) % 2 \in 0 .. 1
    OBVIOUS
  <1>2. QED
    BY <1>1 DEF Size

LEMMA FileKnown ==
  ASSUME NEW v \in Nat
  PROVE  File(v) \in FileBlocks /\ Len(File(v)) = Size(v) /\ Clean(File(v), v)
  BY SizeKnown DEF File, FileBlocks, Clean

LEMMA WholeIsFile ==
  ASSUME NEW v \in Nat, NEW s \in FileBlocks, Clean(s, v), Len(s) = Size(v)
  PROVE  s = File(v)
  <1>1. s = [i \in 1 .. Len(s) |-> s[i]]
    BY DEF FileBlocks
  <1>2. QED
    BY <1>1, SizeKnown DEF Clean, File, FileBlocks

LEMMA CleanAppend ==
  ASSUME NEW v \in Nat, NEW s \in FileBlocks, NEW b \in FileBlocks, Clean(s, v),
         Len(s) + Len(b) <= Size(v), \A i \in 1 .. Len(b) : b[i] = v
  PROVE  Clean(s \o b, v)
  <1>1. /\ Len(s) \in Nat /\ Len(b) \in Nat /\ Len(s \o b) = Len(s) + Len(b)
        /\ \A i \in 1 .. Len(s) : (s \o b)[i] = s[i]
        /\ \A i \in 1 .. Len(s) + Len(b) : i > Len(s) => (s \o b)[i] = b[i - Len(s)]
    BY DEF FileBlocks
  <1>2. ASSUME NEW i \in 1 .. Len(s) + Len(b) PROVE (s \o b)[i] = v
    <2>1. CASE i <= Len(s)
      BY <1>1, <2>1 DEF Clean
    <2>2. CASE i > Len(s)
      <3>1. i - Len(s) \in 1 .. Len(b)
        BY <1>1, <2>2
      <3>2. QED
        BY <1>1, <2>2, <3>1
    <2>3. QED
      BY <1>1, <2>1, <2>2
  <1>3. QED
    BY <1>1, <1>2 DEF Clean

LEMMA BodyKnown ==
  ASSUME NEW v \in Nat, NEW from \in Nat \ {0}, NEW to \in Nat, from <= to,
         NEW body \in Body(v, from, to)
  PROVE  /\ body \in FileBlocks
         /\ calm /\ to <= Size(v) =>
              Len(body) = to - from + 1 /\ \A i \in 1 .. Len(body) : body[i] = v
  <1> DEFINE upto == IF to < Size(v) THEN to ELSE Size(v)
             full == [i \in 1 .. upto - from + 1 |-> v]
  <1>1. Size(v) \in Nat /\ Page \in Nat /\ <<Page>> \in FileBlocks
    BY SizeKnown DEF Page, FileBlocks
  <1>2. CASE from > Size(v)
    BY <1>1, <1>2 DEF Body
  <1>3. CASE from <= Size(v)
    <2>1. /\ upto \in Nat /\ upto - from + 1 \in Nat /\ (to <= Size(v) => upto = to)
      BY <1>1, <1>3
    <2> DEFINE n == upto - from + 1
    <2> HIDE DEF upto
    <2>2. /\ full \in FileBlocks /\ Len(full) = n /\ \A i \in 1 .. Len(full) : full[i] = v
      BY <2>1 DEF FileBlocks
    <2>3. body \in IF calm THEN {full}
                   ELSE {SubSeq(full, 1, k) : k \in 1 .. Len(full)} \cup {<<Page>>}
      BY <1>1, <1>3 DEF Body, upto
    <2> HIDE DEF full
    <2>4. body \in FileBlocks
      <3>1. \A k \in 1 .. Len(full) : SubSeq(full, 1, k) \in FileBlocks
        BY <2>2 DEF FileBlocks
      <3>2. QED
        BY <1>1, <2>2, <2>3, <3>1
    <2>5. QED
      BY <2>1, <2>2, <2>3, <2>4
  <1>4. QED
    BY <1>1, <1>2, <1>3

LEMMA DirtBound ==
  ASSUME NEW c, NEW v
  PROVE  /\ IsFiniteSet(Dirty(c, v)) /\ Dirt(c, v) \in 0 .. Cardinality(ArtifactNames)
  <1>1. Dirty(c, v) \in SUBSET ArtifactNames
    BY DEF Dirty
  <1>2. IsFiniteSet(Dirty(c, v)) /\ Dirt(c, v) <= Cardinality(ArtifactNames)
    BY <1>1, ArtifactsKnown, FS_Subset DEF Dirt
  <1>3. QED
    BY <1>2, ArtifactsKnown, FS_CardinalityType DEF Dirt

\* Writing a cache file.
LEMMA CacheSet ==
  ASSUME NEW c \in CacheFiles, NEW a \in ArtifactNames, NEW s \in FileBlocks, NEW v
  PROVE  /\ [c EXCEPT ![a] = s] \in CacheFiles
         /\ [c EXCEPT ![a] = s][a] = s
         /\ (Clean(c[a], v) => Clean(s, v)) => Dirt([c EXCEPT ![a] = s], v) <= Dirt(c, v)
  <1> DEFINE d == [c EXCEPT ![a] = s]
  <1>1. /\ d \in CacheFiles /\ d[a] = s
        /\ \A b \in ArtifactNames : b # a => d[b] = c[b]
    BY DEF CacheFiles
  <1> HIDE DEF d
  <1>2. ASSUME Clean(c[a], v) => Clean(s, v) PROVE Dirt(d, v) <= Dirt(c, v)
    <2>1. Dirty(d, v) \in SUBSET Dirty(c, v)
      BY <1>1, <1>2 DEF Dirty
    <2>2. QED
      BY <2>1, DirtBound, FS_Subset DEF Dirt
  <1>3. QED
    BY <1>1, <1>2 DEF d

LEMMA CacheCleaned ==
  ASSUME NEW c \in CacheFiles, NEW a \in ArtifactNames, NEW s \in FileBlocks, NEW v \in Nat,
         ~Clean(c[a], v), Clean(s, v), NEW d, d = [c EXCEPT ![a] = s]
  PROVE  Dirt(d, v) = Dirt(c, v) - 1
  <1>1. /\ d[a] = s
        /\ \A b \in ArtifactNames : b # a => d[b] = c[b]
    BY DEF CacheFiles
  <1>2. Dirty(d, v) = Dirty(c, v) \ {a} /\ a \in Dirty(c, v)
    BY <1>1 DEF Dirty
  <1>3. Cardinality(Dirty(c, v) \ {a}) = Cardinality(Dirty(c, v)) - 1
    BY <1>2, DirtBound, FS_RemoveElement
  <1>4. QED
    BY <1>2, <1>3 DEF Dirt

\* The save at the end of a step leaves caches on the disk.
LEMMA SavesKeeps ==
  ASSUME DlInv, Saves, cache' \in CacheFiles
  PROVE  disk'.cache \in CacheFiles
  BY DEF Saves, Tree, Refuse, DlInv, DlTypeOK

\* What a write of a cache file leaves: those blocks, or nothing if it was
\* refused, which it is not when the channel is calm.
LEMMA SetCacheKeeps ==
  ASSUME DlInv, NEW s \in FileBlocks, SetCache(s), Artifact \in ArtifactNames
  PROVE  /\ cache' \in CacheFiles /\ disk'.cache \in CacheFiles
         /\ \/ cache' = [cache EXCEPT ![Artifact] = s]
            \/ ~calm
  <1>1. cache \in CacheFiles /\ <<>> \in FileBlocks
    BY DEF DlInv, DlTypeOK, FileBlocks
  <1>2. CASE Cached(s) /\ Saves
    BY <1>1, <1>2, SavesKeeps DEF Cached, CacheFiles
  <1>3. CASE Cached(<<>>) /\ disk' = Tree' /\ Refuse
    <2>1. cache' \in CacheFiles
      BY <1>1, <1>3 DEF Cached, CacheFiles
    <2>2. disk'.cache = cache' /\ ~calm
      BY <1>3 DEF Tree, Refuse
    <2>3. QED
      BY <2>1, <2>2
  <1>4. QED
    BY <1>2, <1>3 DEF SetCache

LEMMA NoFetchKnown ==
  /\ NoFetch \in Fetches /\ NoFetch.stage = "idle" /\ NoFetch.early = FALSE
  <1>1. <<>> \in FileBlocks /\ [a \in ArtifactNames |-> <<>>] \in CacheFiles /\ Page \in Nat
    BY DEF FileBlocks, CacheFiles, Page
  <1>2. QED
    BY <1>1 DEF NoFetch, Fetches

LEMMA DlInitInv == DlInit => DlInv
  <1> SUFFICES ASSUME DlInit PROVE DlInv
    OBVIOUS
  <1>1. [a \in ArtifactNames |-> <<>>] \in CacheFiles
    BY DEF FileBlocks, CacheFiles
  <1>2. DlTypeOK
    <2>1. cache \in CacheFiles /\ disk.cache \in CacheFiles
      BY <1>1 DEF DlInit, Tree
    <2>2. fetch \in Fetches
      BY NoFetchKnown DEF DlInit
    <2>3. calm \in BOOLEAN
      BY DEF DlInit
    <2>4. published \in Nat \ {0} /\ running \in Nat /\ failed \in Nat
      BY DEF DlInit
    <2>5. QED
      BY <2>1, <2>2, <2>3, <2>4 DEF DlTypeOK
  <1>3. QED
    BY <1>2, NoFetchKnown, DirtBound DEF DlInit, DlInv, CountedLate, LateIsCurrent, TakenSoFar,
       PutTogether, FailuresClean, ArtifactStages

\* The end of an upgrade.
LEMMA LeaveKeeps ==
  ASSUME DlInv, UNCHANGED <<published, calm>>, fetch' = NoFetch, disk'.cache \in CacheFiles,
         cache' \in CacheFiles, failed' \in Nat, running' \in Nat, ~calm => failed' = 0,
         failed' + Dirt(cache', published) <= Cardinality(ArtifactNames)
  PROVE  DlInv'
  BY NoFetchKnown DEF DlInv, DlTypeOK, CountedLate, LateIsCurrent, TakenSoFar,
     PutTogether, FailuresClean, ArtifactStages

\* The steps that put nothing together: the manifest, its signature, the
\* packages.
LEMMA ManifestKeeps == DlInv /\ (FullUpgrade \/ GetManifest \/ GetSignature) => DlInv'
  <1> SUFFICES ASSUME DlInv, FullUpgrade \/ GetManifest \/ GetSignature PROVE DlInv'
    OBVIOUS
  <1>1. /\ DlTypeOK /\ published \in Nat /\ fetch \in Fetches
        /\ UNCHANGED <<published, calm, cache, running, failed>> /\ Saves
        /\ disk'.cache \in CacheFiles
    <2>1. /\ DlTypeOK /\ published \in Nat /\ fetch \in Fetches /\ cache \in CacheFiles
          /\ UNCHANGED <<published, calm, cache, running, failed>> /\ Saves
      BY DEF DlInv, DlTypeOK, FullUpgrade, GetManifest, GetSignature
    <2>2. QED
      BY <2>1, SavesKeeps
  <1>2. FailuresClean' /\ (~calm => failed = 0)
    BY <1>1 DEF DlInv, FailuresClean, CountedLate
  <1>3. CASE FullUpgrade
    <2> DEFINE e == ~calm
    <2>1. e \in BOOLEAN
      OBVIOUS
    <2>2. fetch' = [NoFetch EXCEPT !.stage = "manifest", !.early = e]
      BY <1>3 DEF FullUpgrade
    <2> HIDE DEF e
    <2>3. fetch' \in Fetches /\ fetch'.stage = "manifest"
      BY <2>1, <2>2, NoFetchKnown DEF Fetches
    <2>4. fetch'.early = e
      BY <2>2, NoFetchKnown DEF Fetches
    <2>5. CountedLate'
      BY <1>1, <1>2, <2>3, <2>4 DEF CountedLate, e
    <2>6. QED
      BY <1>1, <1>2, <2>3, <2>5 DEF DlInv, DlTypeOK, LateIsCurrent, TakenSoFar, PutTogether,
         ArtifactStages
  <1>4. CASE GetManifest
    <2>1. PICK text \in Texts :
            fetch' = [fetch EXCEPT !.stage = "signature", !.text = text] /\ fetch.stage = "manifest"
      BY <1>4 DEF GetManifest
    <2>2. text \in Nat /\ (calm => text = published)
      BY <1>1, <2>1 DEF Texts, Page
    <2>3. fetch' \in Fetches /\ fetch'.stage = "signature" /\ fetch'.text = text
      BY <1>1, <2>1, <2>2 DEF Fetches
    <2>4. fetch'.early = fetch.early
      BY <1>1, <2>1 DEF Fetches
    <2>5. CountedLate'
      BY <1>1, <2>1, <2>4 DEF CountedLate, DlInv
    <2>6. LateIsCurrent'
      BY <1>1, <2>1, <2>2, <2>3, <2>4 DEF LateIsCurrent, CountedLate, DlInv
    <2>7. QED
      BY <1>1, <1>2, <2>3, <2>5, <2>6 DEF DlInv, DlTypeOK, TakenSoFar, PutTogether, ArtifactStages
  <1>5. CASE GetSignature
    <2> DEFINE k == IF running = fetch.text THEN IndexItem ELSE 1
    <2>1. /\ fetch' = [fetch EXCEPT !.version = fetch.text, !.stage = "open", !.item = k]
          /\ fetch.stage = "signature"
      BY <1>5 DEF GetSignature
    <2>7. k \in 1 .. IndexItem /\ k \in Nat /\ (k # 1 => running = fetch.text /\ k = IndexItem)
      BY ArtifactsKnown
    <2> HIDE DEF k
    <2>2. /\ fetch' \in Fetches /\ fetch'.stage = "open" /\ fetch'.version = fetch.text
          /\ fetch'.item = k
      BY <1>1, <2>1, <2>7 DEF Fetches, ArtifactStages
    <2>3. fetch'.early = fetch.early
      BY <1>1, <2>1 DEF Fetches
    <2>4. CountedLate' /\ LateIsCurrent'
      BY <1>1, <2>1, <2>2, <2>3 DEF CountedLate, LateIsCurrent, DlInv
    <2>5. TakenSoFar' /\ PutTogether'
      <3>1. \A i \in 1 .. IndexItem : i < k => Taken(i)'
        <4> SUFFICES ASSUME NEW i \in 1 .. IndexItem, i < k PROVE Taken(i)'
          OBVIOUS
        <4>1. k = IndexItem /\ running = fetch.text /\ i # IndexItem
          BY <2>7, ArtifactsKnown
        <4>2. running' = fetch'.version
          BY <1>1, <2>2, <4>1
        <4>3. QED
          BY <4>1, <4>2 DEF Taken, IndexItem
      <3>2. QED
        BY <1>1, <2>2, <2>7, <3>1 DEF TakenSoFar, PutTogether, ArtifactStages, IndexItem
    <2>6. QED
      BY <1>1, <1>2, <2>2, <2>4, <2>5 DEF DlInv, DlTypeOK
  <1>6. QED
    BY <1>3, <1>4, <1>5

LEMMA MetaFailsKeeps == DlInv /\ MetaFails => DlInv'
  <1> SUFFICES ASSUME DlInv, MetaFails PROVE DlInv'
    OBVIOUS
  <1>1. /\ DlTypeOK /\ published \in Nat \ {0} /\ fetch \in Fetches /\ failed \in Nat
        /\ UNCHANGED <<published, calm, cache, running>> /\ cache \in CacheFiles
        /\ fetch.stage \in {"manifest", "signature"} /\ running \in Nat
    BY DEF DlInv, DlTypeOK, MetaFails
  <1>2. FailuresClean /\ (~calm => failed = 0) /\ (fetch.early => failed = 0)
        /\ (~fetch.early => calm)
    BY <1>1 DEF DlInv, FailuresClean, CountedLate
  <1>3. fetch.early \/ ~calm
    <2> SUFFICES ASSUME ~fetch.early, calm PROVE FALSE
      OBVIOUS
    <2>1. fetch.stage = "signature" /\ \E sig \in Texts : ~Signed(sig)
      BY DEF MetaFails
    <2>2. fetch.text = published
      BY <2>1 DEF DlInv, LateIsCurrent
    <2>3. QED
      BY <1>1, <2>1, <2>2 DEF Texts, Signed, Page
  <1>4. CASE /\ fetch' = [fetch EXCEPT !.stage = "manifest", !.tries = @ + 1, !.text = Page]
             /\ Saves /\ UNCHANGED failed
    <2>5. disk'.cache \in CacheFiles
      BY <1>1, <1>4, SavesKeeps
    <2>1. fetch' \in Fetches /\ fetch'.stage = "manifest"
      <3>1. fetch.tries + 1 \in Nat /\ Page \in Nat
        BY <1>1 DEF Fetches, Page
      <3>2. QED
        BY <1>1, <1>4, <3>1 DEF Fetches
    <2>2. fetch'.early = fetch.early
      BY <1>1, <1>4 DEF Fetches
    <2>3. CountedLate'
      BY <1>1, <1>2, <1>4, <2>2 DEF CountedLate
    <2>4. QED
      BY <1>1, <1>2, <1>4, <2>1, <2>3, <2>5 DEF DlInv, DlTypeOK, LateIsCurrent, TakenSoFar,
         PutTogether, ArtifactStages, FailuresClean
  <1>5. CASE Leave(FALSE)
    <2>1. fetch' = NoFetch /\ disk'.cache \in CacheFiles /\ failed' = failed
      BY <1>1, <1>3, <1>5, SavesKeeps DEF Leave, Gone
    <2>2. QED
      BY <1>1, <1>2, <2>1, LeaveKeeps DEF FailuresClean
  <1>6. QED
    BY <1>4, <1>5 DEF MetaFails

LEMMA EndsKeep ==
  ASSUME DlInv, ChunkFails \/ PackageFails \/ EspFails \/ Complete \/ PowerFails
  PROVE  DlInv'
  <1>1. /\ DlTypeOK /\ fetch \in Fetches /\ failed \in Nat /\ fetch.version \in Nat
        /\ cache \in CacheFiles /\ disk.cache \in CacheFiles /\ running \in Nat
        /\ FailuresClean /\ (~calm => failed = 0)
    BY DEF DlInv, DlTypeOK, FailuresClean, CountedLate, Fetches
  <1>2. CASE ChunkFails \/ PackageFails \/ EspFails
    <2>3. /\ ~calm /\ UNCHANGED <<published, calm, cache, running>> /\ Saves /\ Gone(FALSE)
      BY <1>2 DEF ChunkFails, PackageFails, EspFails, Leave
    <2>1. fetch' = NoFetch /\ disk'.cache \in CacheFiles /\ failed' = failed
          /\ ~calm /\ UNCHANGED <<published, calm, cache, running>>
      BY <1>1, <2>3, SavesKeeps DEF Gone
    <2>2. QED
      BY <1>1, <2>1, LeaveKeeps DEF FailuresClean
  <1>3. CASE Complete
    <2>1. /\ UNCHANGED <<published, calm, cache>> /\ fetch' = NoFetch
          /\ disk'.cache \in CacheFiles /\ failed' = failed /\ running' = fetch.version
      BY <1>1, <1>3, SavesKeeps DEF Complete, Leave, Gone
    <2>2. QED
      BY <1>1, <2>1, LeaveKeeps DEF FailuresClean
  <1>4. CASE PowerFails
    <2>1. /\ ~calm /\ UNCHANGED <<published, calm, disk, running, failed>> /\ fetch' = NoFetch
          /\ cache' = disk.cache
      BY <1>4 DEF PowerFails
    <2>2. failed' + Dirt(cache', published) <= Cardinality(ArtifactNames)
      BY <1>1, <2>1, DirtBound
    <2>3. QED
      BY <1>1, <2>1, <2>2, LeaveKeeps
  <1>5. QED
    BY <1>2, <1>3, <1>4

LEMMA ChannelKeeps == DlInv /\ (Publish \/ CalmDown \/ InstallPackage) => DlInv'
  <1> SUFFICES ASSUME DlInv, Publish \/ CalmDown \/ InstallPackage PROVE DlInv'
    OBVIOUS
  <1>1. /\ DlTypeOK /\ fetch \in Fetches /\ failed \in Nat /\ published \in Nat \ {0}
    BY DEF DlInv, DlTypeOK
  <1>2. CASE Publish
    <2>1. /\ ~calm /\ published' = published + 1
          /\ UNCHANGED <<calm, cache, disk, running, fetch, failed>>
      BY <1>2 DEF Publish
    <2>2. failed = 0 /\ (fetch.stage # "idle" => fetch.early)
      BY <2>1 DEF DlInv, CountedLate
    <2>3. FailuresClean'
      BY <2>1, <2>2, DirtBound DEF FailuresClean
    <2>4. CountedLate' /\ TakenSoFar' /\ LateIsCurrent'
      BY <2>1, <2>2 DEF DlInv, CountedLate, TakenSoFar, Taken, LateIsCurrent
    <2>5. PutTogether'
      BY <2>1, <2>2 DEF DlInv, PutTogether, Artifact
    <2>6. QED
      BY <1>1, <2>1, <2>3, <2>4, <2>5 DEF DlInv, DlTypeOK
  <1>3. CASE CalmDown
    <2>1. /\ ~calm /\ calm' /\ calm' \in BOOLEAN
          /\ UNCHANGED <<published, cache, disk, running, fetch, failed>>
      BY <1>3 DEF CalmDown
    <2>2. CountedLate' /\ TakenSoFar' /\ LateIsCurrent'
      BY <2>1 DEF DlInv, CountedLate, TakenSoFar, Taken, LateIsCurrent
    <2>3. FailuresClean' /\ PutTogether'
      BY <2>1 DEF DlInv, PutTogether, Artifact, FailuresClean
    <2>4. QED
      BY <1>1, <2>1, <2>2, <2>3 DEF DlInv, DlTypeOK
  <1>4. CASE InstallPackage
    <2> DEFINE s == IF fetch.item + 1 \in Packages THEN fetch.stage ELSE "esp"
    <2>1. /\ fetch' = [fetch EXCEPT !.item = @ + 1, !.stage = s] /\ fetch.stage = "packages"
          /\ UNCHANGED <<published, calm, cache, running, failed>> /\ Saves
      BY <1>4 DEF InstallPackage
    <2>8. disk'.cache \in CacheFiles
      BY <1>1, <2>1, SavesKeeps DEF DlTypeOK
    <2>2. s \in {"packages", "esp"}
      BY <2>1
    <2> HIDE DEF s
    <2>3. /\ fetch' \in Fetches /\ fetch'.stage = s /\ fetch'.version = fetch.version
          /\ fetch'.taken = fetch.taken
      <3>1. fetch.item + 1 \in Nat
        BY <1>1 DEF Fetches
      <3>2. QED
        BY <1>1, <2>1, <2>2, <3>1 DEF Fetches
    <2>4. fetch'.early = fetch.early
      BY <1>1, <2>1 DEF Fetches
    <2>5. CountedLate' /\ LateIsCurrent'
      BY <2>1, <2>2, <2>3, <2>4 DEF DlInv, CountedLate, LateIsCurrent
    <2>6. TakenSoFar' /\ PutTogether'
      BY <2>1, <2>2, <2>3 DEF DlInv, TakenSoFar, Taken, PutTogether, ArtifactStages
    <2>7. QED
      BY <1>1, <2>1, <2>3, <2>5, <2>6, <2>8 DEF DlInv, DlTypeOK, FailuresClean
  <1>5. QED
    BY <1>2, <1>3, <1>4

\* The artifact at hand.
LEMMA ArtifactKnown ==
  ASSUME DlInv, fetch.stage \in ArtifactStages
  PROVE  /\ Artifact \in ArtifactNames /\ fetch.version \in Nat /\ Served \in Nat
         /\ ~fetch.early => calm /\ fetch.version = published /\ Served = published
         /\ Expected = File(fetch.version) /\ Len(Expected) = Size(fetch.version)
         /\ cache[Artifact] \in FileBlocks
  <1>1. /\ fetch.item \in 1 .. IndexItem /\ fetch.version \in Nat /\ cache \in CacheFiles
        /\ published \in Nat
    BY DEF DlInv, DlTypeOK, TakenSoFar, Fetches
  <1>2. Artifact \in ArtifactNames
    BY <1>1, ArtifactsKnown DEF Artifact
  <1>3. ~fetch.early => calm /\ fetch.version = published
    BY DEF DlInv, LateIsCurrent, CountedLate, ArtifactStages
  <1>4. Served \in Nat /\ (~fetch.early => Served = published)
    BY <1>1, <1>3 DEF Served
  <1>5. QED
    BY <1>1, <1>2, <1>3, <1>4, FileKnown DEF Expected, CacheFiles

LEMMA EmptyIsClean ==
  <<>> \in FileBlocks /\ Len(<<>>) = 0 /\ \A v \in Nat : Clean(<<>>, v) /\ 0 < Size(v)
  BY SizeKnown DEF FileBlocks, Clean

LEMMA VerifiedKeeps ==
  ASSUME DlInv, fetch.stage \in ArtifactStages, NEW dst, dst = Expected, fetch' = Verified(dst),
         cache' \in CacheFiles, ~fetch.early => Dirt(cache', published) <= Dirt(cache, published),
         disk'.cache \in CacheFiles, UNCHANGED <<published, calm, running, failed>>
  PROVE  DlInv'
  <1>1. /\ DlTypeOK /\ fetch \in Fetches /\ failed \in Nat /\ fetch.item \in 1 .. IndexItem
        /\ fetch.taken \in CacheFiles
    BY DEF DlInv, DlTypeOK, TakenSoFar, Fetches
  <1>2. /\ Artifact \in ArtifactNames /\ fetch.version \in Nat
        /\ dst = File(fetch.version) /\ dst \in FileBlocks
    BY ArtifactKnown, FileKnown
  <1> DEFINE t == [fetch.taken EXCEPT ![Artifact] = dst]
             i == IF fetch.item = IndexItem THEN 1 ELSE fetch.item + 1
             s == IF fetch.item = IndexItem THEN "packages" ELSE "open"
             e == <<>>
  <1>3. fetch' = [fetch EXCEPT !.taken = t, !.dst = e, !.item = i, !.stage = s]
    BY DEF Verified
  <1>4. t \in CacheFiles /\ i \in Nat /\ s \in {"packages", "open"} /\ e \in FileBlocks
    <2>1. t \in CacheFiles
      BY <1>1, <1>2, CacheSet
    <2>2. i \in Nat /\ s \in {"packages", "open"}
      BY <1>1, ArtifactsKnown
    <2>3. QED
      BY <2>1, <2>2, EmptyIsClean
  <1>5. /\ t[Artifact] = File(fetch.version)
        /\ \A a \in ArtifactNames : a # Artifact => t[a] = fetch.taken[a]
    BY <1>1, <1>2 DEF CacheFiles
  <1>6. /\ s = "packages" => fetch.item = IndexItem
        /\ s = "open" => i = fetch.item + 1 /\ i \in 1 .. IndexItem
    BY <1>1, ArtifactsKnown
  <1> HIDE DEF t, i, s, e
  <1>9. /\ fetch' \in Fetches /\ fetch'.taken = t /\ fetch'.item = i /\ fetch'.stage = s
        /\ fetch'.version = fetch.version
    BY <1>1, <1>3, <1>4 DEF Fetches, ArtifactStages
  <1>10. fetch'.early = fetch.early
    BY <1>1, <1>3 DEF Fetches
  <1>11. CountedLate' /\ LateIsCurrent'
    BY <1>4, <1>9, <1>10 DEF DlInv, CountedLate, LateIsCurrent, ArtifactStages
  <1>7. ASSUME NEW j \in 1 .. IndexItem, j <= fetch.item
        PROVE  t[Artifacts[j]] = File(fetch.version) \/ (j # IndexItem /\ running = fetch.version)
    <2>1. CASE Artifacts[j] = Artifact
      BY <1>5, <2>1
    <2>2. CASE Artifacts[j] # Artifact
      <3>1. j # fetch.item /\ j < fetch.item
        BY <1>1, <1>7, <2>2 DEF Artifact
      <3>2. Taken(j) /\ Artifacts[j] \in ArtifactNames
        BY <3>1, ArtifactsKnown DEF DlInv, TakenSoFar
      <3>3. QED
        BY <1>5, <2>2, <3>2 DEF Taken
    <2>3. QED
      BY <2>1, <2>2
  <1>8. \A j \in 1 .. IndexItem : j <= fetch.item => Taken(j)'
    BY <1>7, <1>9 DEF Taken, IndexItem
  <1>12. TakenSoFar'
    <2>1. CASE s = "packages"
      BY <1>6, <1>8, <1>9, <2>1 DEF TakenSoFar, ArtifactStages, IndexItem
    <2>2. CASE s = "open"
      <3>1. \A j \in 1 .. IndexItem : j < i => Taken(j)'
        BY <1>1, <1>6, <1>8, <2>2
      <3>2. QED
        BY <1>6, <1>9, <2>2, <3>1 DEF TakenSoFar, ArtifactStages, IndexItem
    <2>3. QED
      BY <1>4, <2>1, <2>2
  <1>15. PutTogether'
    BY <1>4, <1>9 DEF PutTogether
  <1>13. FailuresClean'
    <2>1. CASE fetch.early
      BY <1>1, <2>1, DirtBound DEF DlInv, CountedLate, FailuresClean
    <2>2. CASE ~fetch.early
      BY <1>1, <2>2, DirtBound, ArtifactsKnown DEF DlInv, FailuresClean
    <2>3. QED
      BY <2>1, <2>2
  <1>14. QED
    BY <1>1, <1>9, <1>11, <1>12, <1>13, <1>15 DEF DlInv, DlTypeOK

\* Another stage for the same artifact.
LEMMA StageKeeps ==
  ASSUME DlInv, fetch.stage \in ArtifactStages, NEW s \in {"single", "chunks", "verify"},
         NEW dst \in FileBlocks,
         fetch' = [fetch EXCEPT !.stage = s, !.dst = dst],
         cache' \in CacheFiles, ~fetch.early => Dirt(cache', published) <= Dirt(cache, published),
         s = "chunks" => Len(dst) < Size(fetch.version),
         s = "verify" => Len(dst) = Size(fetch.version),
         ~fetch.early /\ s # "single" =>
           (Clean(cache'[Artifact], published) => Clean(dst, published)),
         disk'.cache \in CacheFiles, UNCHANGED <<published, calm, running, failed>>
  PROVE  DlInv'
  <1>1. DlTypeOK /\ fetch \in Fetches /\ failed \in Nat
    BY DEF DlInv, DlTypeOK
  <1>2. /\ fetch' \in Fetches /\ fetch'.stage = s /\ fetch'.dst = dst
        /\ fetch'.version = fetch.version /\ fetch'.item = fetch.item /\ fetch'.taken = fetch.taken
    BY <1>1 DEF Fetches, ArtifactStages
  <1>3. fetch'.early = fetch.early
    BY <1>1 DEF Fetches
  <1>4. CountedLate' /\ LateIsCurrent'
    BY <1>2, <1>3 DEF DlInv, CountedLate, LateIsCurrent, ArtifactStages
  <1>5. TakenSoFar'
    BY <1>2 DEF DlInv, TakenSoFar, Taken, ArtifactStages
  <1>6. PutTogether'
    BY <1>2, <1>3 DEF PutTogether, Artifact
  <1>7. FailuresClean'
    <2>1. CASE fetch.early
      BY <1>1, <2>1, DirtBound DEF DlInv, CountedLate, FailuresClean
    <2>2. CASE ~fetch.early
      BY <1>1, <2>2, DirtBound, ArtifactsKnown DEF DlInv, FailuresClean
    <2>3. QED
      BY <2>1, <2>2
  <1>8. QED
    BY <1>1, <1>2, <1>4, <1>5, <1>6, <1>7 DEF DlInv, DlTypeOK

LEMMA OpenCacheKeeps == DlInv /\ OpenCache => DlInv'
  <1> SUFFICES ASSUME DlInv, OpenCache PROVE DlInv'
    OBVIOUS
  <1> DEFINE c == cache[Artifact]
  <1>1. /\ fetch.stage = "open" /\ UNCHANGED <<published, calm, running, failed>>
        /\ fetch.stage \in ArtifactStages
        /\ fetch \in Fetches /\ cache \in CacheFiles /\ published \in Nat
        /\ fetch.version \in Nat
    BY DEF OpenCache, ArtifactStages, DlInv, DlTypeOK, Fetches
  <1>2. Artifact \in ArtifactNames /\ c \in FileBlocks /\ Len(Expected) = Size(fetch.version)
        /\ Size(fetch.version) \in Nat
    BY <1>1, ArtifactKnown, SizeKnown
  <1>3. CASE c = Expected /\ fetch' = Verified(c) /\ UNCHANGED cache /\ Saves
    BY <1>1, <1>3, VerifiedKeeps, SavesKeeps, DirtBound
  <1>4. CASE /\ Len(c) \in 1 .. Len(Expected) - 1
             /\ fetch' = [fetch EXCEPT !.stage = "chunks", !.dst = c] /\ UNCHANGED cache /\ Saves
    <2>1. Len(c) < Size(fetch.version)
      BY <1>2, <1>4
    <2>2. cache'[Artifact] = c /\ Dirt(cache', published) <= Dirt(cache, published)
      BY <1>4, DirtBound
    <2>4. disk'.cache \in CacheFiles
      BY <1>1, <1>4, SavesKeeps
    <2> HIDE DEF c
    <2>3. QED
      BY <1>1, <1>2, <1>4, <2>1, <2>2, <2>4, StageKeeps
  <1>5. CASE fetch' = [fetch EXCEPT !.stage = "single"] /\ SetCache(<<>>)
    <2>4. <<>> \in FileBlocks /\ Clean(<<>>, published) /\ (~fetch.early => calm)
      BY <1>1, EmptyIsClean, ArtifactKnown
    <2>5. /\ cache' \in CacheFiles /\ disk'.cache \in CacheFiles
          /\ cache' = [cache EXCEPT ![Artifact] = <<>>] \/ ~calm
      BY <1>2, <1>5, <2>4, SetCacheKeeps
    <2>1. /\ cache' \in CacheFiles /\ disk'.cache \in CacheFiles
          /\ ~fetch.early => Dirt(cache', published) <= Dirt(cache, published)
      BY <1>1, <1>2, <2>4, <2>5, CacheSet
    <2>2. fetch' = [fetch EXCEPT !.stage = "single", !.dst = fetch.dst] /\ fetch.dst \in FileBlocks
      BY <1>1, <1>5 DEF Fetches
    <2>3. QED
      BY <1>1, <2>1, <2>2, StageKeeps
  <1>6. QED
    BY <1>3, <1>4, <1>5 DEF OpenCache

LEMMA GetSingleKeeps == DlInv /\ GetSingle => DlInv'
  <1> SUFFICES ASSUME DlInv, GetSingle PROVE DlInv'
    OBVIOUS
  <1>1. /\ fetch.stage = "single" /\ UNCHANGED <<published, calm, cache, running, failed>>
        /\ Saves
        /\ fetch.stage \in ArtifactStages
        /\ fetch \in Fetches /\ cache \in CacheFiles /\ published \in Nat
        /\ fetch.version \in Nat 
    BY DEF GetSingle, ArtifactStages, DlInv, DlTypeOK, Fetches
  <1>6. /\ ~fetch.early => calm /\ fetch.version = published /\ Served = published
        /\ Served \in Nat /\ disk'.cache \in CacheFiles
    BY <1>1, ArtifactKnown, SavesKeeps
  <1>2. Len(Expected) = Size(fetch.version) /\ Size(fetch.version) \in Nat \ {0}
        /\ Dirt(cache', published) <= Dirt(cache, published)
    <2>1. Dirt(cache', published) = Dirt(cache, published) /\ Dirt(cache, published) \in Nat
      BY <1>1, DirtBound, ArtifactsKnown
    <2>2. Size(fetch.version) \in Nat \ {0}
      BY <1>1, SizeKnown
    <2>3. QED
      BY <1>1, <2>1, <2>2, ArtifactKnown
  <1>3. CASE fetch' = [fetch EXCEPT !.stage = "chunks", !.dst = <<>>]
    <2>1. Len(<<>>) < Size(fetch.version) /\ Clean(<<>>, published) /\ <<>> \in FileBlocks
      BY <1>1, EmptyIsClean
    <2>2. QED
      BY <1>1, <1>2, <1>3, <1>6, <2>1, StageKeeps
  <1>4. ASSUME NEW body \in Body(Served, 1, Len(Expected)), Len(body) = Len(Expected),
               fetch' = [fetch EXCEPT !.stage = "verify", !.dst = body]
        PROVE  DlInv'
    <2>1. /\ body \in FileBlocks
          /\ calm /\ Len(Expected) <= Size(Served) => \A i \in 1 .. Len(body) : body[i] = Served
      <3> DEFINE n == Len(Expected)
      <3>1. n \in Nat /\ 1 <= n /\ body \in Body(Served, 1, n)
        BY <1>2, <1>4
      <3> HIDE DEF n
      <3>2. /\ body \in FileBlocks
            /\ calm /\ n <= Size(Served) => \A i \in 1 .. Len(body) : body[i] = Served
        BY <1>6, <3>1, BodyKnown
      <3>3. QED
        BY <3>2 DEF n
    <2>2. ~fetch.early => Clean(body, published)
      BY <1>1, <1>2, <1>4, <1>6, <2>1 DEF Clean
    <2>3. QED
      BY <1>1, <1>2, <1>4, <1>6, <2>1, <2>2, StageKeeps
  <1>5. QED
    BY <1>3, <1>4 DEF GetSingle

LEMMA GetChunkKeeps == DlInv /\ GetChunk => DlInv'
  <1> SUFFICES ASSUME DlInv, GetChunk PROVE DlInv'
    OBVIOUS
  <1> DEFINE done == Len(fetch.dst)
             wanted == IF Len(Expected) - done > Chunk THEN Chunk ELSE Len(Expected) - done
  <1>1. /\ fetch.stage = "chunks" /\ UNCHANGED <<published, calm, running, failed>>
        /\ fetch.stage \in ArtifactStages
        /\ fetch \in Fetches /\ cache \in CacheFiles /\ published \in Nat /\ fetch.dst \in FileBlocks
        /\ fetch.version \in Nat 
    BY DEF GetChunk, ArtifactStages, DlInv, DlTypeOK, Fetches
  <1>12. /\ ~fetch.early => calm /\ fetch.version = published /\ Served = published
         /\ Served \in Nat
    BY <1>1, ArtifactKnown
  <1>2. PICK body \in Body(Served, done + 1, done + wanted) :
          /\ Len(body) <= wanted
          /\ fetch' = [fetch EXCEPT !.dst = @ \o body,
                         !.stage = IF done + Len(body) = Len(Expected) THEN "verify" ELSE @]
          /\ SetCache(fetch.dst \o body)
    BY DEF GetChunk
  <1> DEFINE s == IF done + Len(body) = Len(Expected) THEN "verify" ELSE "chunks"
             d == fetch.dst \o body
  <1>3. fetch' = [fetch EXCEPT !.stage = s, !.dst = d]
    BY <1>1, <1>2 DEF Fetches
  <1>4. /\ Len(Expected) = Size(fetch.version) /\ Size(fetch.version) \in Nat \ {0}
        /\ Artifact \in ArtifactNames /\ done \in Nat /\ done < Size(fetch.version)
        /\ wanted \in Nat \ {0} /\ done + wanted <= Size(fetch.version)
    <2>1. done \in Nat /\ done < Size(fetch.version)
      BY <1>1 DEF DlInv, PutTogether, FileBlocks
    <2>2. /\ Len(Expected) = Size(fetch.version) /\ Size(fetch.version) \in Nat \ {0}
          /\ Artifact \in ArtifactNames
      BY <1>1, ArtifactKnown, SizeKnown
    <2>3. QED
      BY <2>1, <2>2, DownloadAssumption
  <1>5. /\ body \in FileBlocks /\ Len(body) \in Nat
        /\ calm /\ done + wanted <= Size(Served) => \A i \in 1 .. Len(body) : body[i] = Served
    <2> HIDE DEF wanted, done
    <2>1. done + 1 \in Nat \ {0} /\ done + wanted \in Nat /\ done + 1 <= done + wanted
      BY <1>4
    <2>2. /\ body \in FileBlocks
          /\ calm /\ done + wanted <= Size(Served) => \A i \in 1 .. Len(body) : body[i] = Served
      BY <1>12, <1>2, <2>1, BodyKnown
    <2>3. QED
      BY <2>2 DEF FileBlocks
  <1>6. d \in FileBlocks /\ Len(d) = done + Len(body)
    BY <1>1, <1>5 DEF FileBlocks
  <1>7. ASSUME ~fetch.early, Clean(cache[Artifact], published)
        PROVE  Clean(d, published)
    <2>1. Clean(fetch.dst, published)
      BY <1>1, <1>7 DEF DlInv, PutTogether
    <2> HIDE DEF d
    <2>2. Len(fetch.dst) + Len(body) <= Size(published) /\ \A i \in 1 .. Len(body) : body[i] = published
      BY <1>1, <1>2, <1>4, <1>5, <1>7, <1>12
    <2>3. QED
      BY <1>1, <1>5, <2>1, <2>2, CleanAppend DEF d
  <1>8. /\ cache' \in CacheFiles /\ disk'.cache \in CacheFiles
        /\ cache' = [cache EXCEPT ![Artifact] = d] \/ ~calm
    BY <1>2, <1>4, <1>6, SetCacheKeeps
  <1>9. /\ s = "chunks" => Len(d) < Size(fetch.version)
        /\ s = "verify" => Len(d) = Size(fetch.version)
        /\ s \in {"chunks", "verify"}
    BY <1>2, <1>4, <1>5, <1>6
  <1> HIDE DEF d, s, wanted, done
  <1>10. ~fetch.early => /\ cache'[Artifact] = d
                         /\ Dirt(cache', published) <= Dirt(cache, published)
    <2> SUFFICES ASSUME ~fetch.early
                 PROVE  cache'[Artifact] = d /\ Dirt(cache', published) <= Dirt(cache, published)
      OBVIOUS
    <2>1. cache' = [cache EXCEPT ![Artifact] = d]
      BY <1>8, <1>12
    <2>2. QED
      BY <1>1, <1>4, <1>6, <1>7, <2>1, CacheSet
  <1>11. QED
    BY <1>1, <1>3, <1>6, <1>7, <1>8, <1>9, <1>10, StageKeeps

LEMMA VerifyHashKeeps == DlInv /\ VerifyHash => DlInv'
  <1> SUFFICES ASSUME DlInv, VerifyHash PROVE DlInv'
    OBVIOUS
  <1>1. /\ fetch.stage = "verify" /\ UNCHANGED <<published, calm, running>>
        /\ fetch.stage \in ArtifactStages /\ running \in Nat /\ failed \in Nat
        /\ fetch \in Fetches /\ cache \in CacheFiles /\ published \in Nat /\ fetch.dst \in FileBlocks
        /\ fetch.version \in Nat /\ (~fetch.early => calm /\ fetch.version = published)
        /\ Len(fetch.dst) = Size(fetch.version)
    BY DEF VerifyHash, ArtifactStages, DlInv, DlTypeOK, Fetches, LateIsCurrent, CountedLate,
       PutTogether
  <1>2. Artifact \in ArtifactNames /\ Expected = File(fetch.version)
    BY <1>1, ArtifactKnown
  <1>3. CASE fetch.dst = Expected
    <2>1. SetCache(fetch.dst) /\ fetch' = Verified(fetch.dst) /\ UNCHANGED failed
      BY <1>3 DEF VerifyHash, HashAgrees
    <2>2. /\ cache' \in CacheFiles /\ disk'.cache \in CacheFiles
          /\ cache' = [cache EXCEPT ![Artifact] = fetch.dst] \/ ~calm
      BY <1>1, <1>2, <2>1, SetCacheKeeps
    <2>3. CASE ~fetch.early
      <3>1. Clean(fetch.dst, published)
        BY <1>1, <1>2, <1>3, <2>3, FileKnown
      <3>2. Dirt(cache', published) <= Dirt(cache, published)
        BY <1>1, <1>2, <2>2, <2>3, <3>1, CacheSet
      <3>3. QED
        BY <1>1, <1>3, <2>1, <2>2, <3>2, VerifiedKeeps
    <2>4. CASE fetch.early
      BY <1>1, <1>3, <2>1, <2>2, <2>4, VerifiedKeeps
    <2>5. QED
      BY <2>3, <2>4
  <1>4. CASE fetch.dst # Expected
    <2>1. /\ SetCache(<<>>) /\ fetch' = NoFetch
          /\ failed' = IF ~calm \/ fetch.early \/ failed = MaxFailed THEN failed ELSE failed + 1
      BY <1>4 DEF VerifyHash, HashAgrees, Gone
    <2>2. /\ <<>> \in FileBlocks /\ Clean(<<>>, published)
      BY <1>1, EmptyIsClean
    <2>3. /\ cache' \in CacheFiles /\ disk'.cache \in CacheFiles /\ failed' \in Nat
          /\ cache' = [cache EXCEPT ![Artifact] = <<>>] \/ ~calm
      BY <1>1, <1>2, <2>1, <2>2, SetCacheKeeps
    <2>4. (~calm => failed = 0) /\ (fetch.early => failed = 0)
      BY DEF DlInv, CountedLate
    <2>5. failed' + Dirt(cache', published) <= Cardinality(ArtifactNames)
      <3>1. CASE fetch.early \/ ~calm
        BY <2>1, <2>4, <3>1, DirtBound
      <3>2. CASE ~fetch.early /\ calm
        <4>1. ~Clean(fetch.dst, published)
          BY <1>1, <1>2, <1>4, <3>2, WholeIsFile
        <4>2. ~Clean(cache[Artifact], published)
          BY <1>1, <3>2, <4>1 DEF DlInv, PutTogether
        <4>3. Dirt(cache', published) = Dirt(cache, published) - 1
          <5> DEFINE e == <<>>
          <5>1. e \in FileBlocks /\ Clean(e, published) /\ cache' = [cache EXCEPT ![Artifact] = e]
            BY <2>2, <2>3, <3>2
          <5> HIDE DEF e
          <5>2. cache \in CacheFiles /\ published \in Nat /\ Artifact \in ArtifactNames
            BY <1>1, <1>2
          <5>3. QED
            BY <4>2, <5>1, <5>2, CacheCleaned, Zenon
        <4>4. /\ failed + Dirt(cache, published) <= Cardinality(ArtifactNames)
              /\ Dirt(cache, published) \in 0 .. Cardinality(ArtifactNames)
              /\ Cardinality(ArtifactNames) \in Nat
          BY DirtBound, ArtifactsKnown DEF DlInv, FailuresClean
        <4>5. failed' <= failed + 1
          BY <1>1, <2>1
        <4>6. QED
          BY <1>1, <2>3, <4>3, <4>4, <4>5
      <3>3. QED
        BY <3>1, <3>2
    <2>6. ~calm => failed' = 0
      BY <2>1, <2>4
    <2>7. QED
      BY <1>1, <2>1, <2>3, <2>5, <2>6, LeaveKeeps
  <1>5. QED
    BY <1>3, <1>4

\* An upgrade takes, artifact by artifact, the file of the one version that its
\* verified manifest names, and what it leaves behind in the cache when it
\* fails, or power failed after any of its writes, costs at most one more failed
\* upgrade for each cached file, for any list of artifacts, any number of versions
\* and refused writes and any size of a chunk.
THEOREM UpgradesTakeOneVersion == ServicesSpec => []DownloadsSound
  <1>1. ServicesInit => DlInv
    BY DlInitInv DEF ServicesInit
  <1>2. DlInv /\ [ServicesNext]_serviceVars => DlInv'
    <2> SUFFICES ASSUME DlInv, [ServicesNext]_serviceVars PROVE DlInv'
      OBVIOUS
    <2>1. CASE DlNext
      BY <2>1, ManifestKeeps, MetaFailsKeeps, EndsKeep, ChannelKeeps, OpenCacheKeeps,
         GetSingleKeeps, GetChunkKeeps, VerifyHashKeeps DEF DlNext, DlProgress
    <2>2. CASE UNCHANGED dlVars
      BY <2>2 DEF dlVars, DlInv, DlTypeOK, CountedLate, LateIsCurrent, TakenSoFar, Taken,
         PutTogether, FailuresClean, Artifact
    <2>3. QED
      BY <2>1, <2>2 DEF ServicesNext, serviceVars
  <1>3. DlInv => DownloadsSound
    <2> SUFFICES ASSUME DlInv PROVE DownloadsSound
      OBVIOUS
    <2>1. TakenIsOneVersion
      BY ArtifactsKnown DEF DlInv, TakenSoFar, Taken, TakenIsOneVersion
    <2>2. CacheHeals
      BY ArtifactsKnown, DirtBound DEF DlInv, DlTypeOK, FailuresClean, CacheHeals
    <2>3. QED
      BY <2>1, <2>2 DEF DownloadsSound
  <1>4. QED
    BY <1>1, <1>2, <1>3, PTL DEF ServicesSpec
=============================================================================
