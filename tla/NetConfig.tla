----------------------------- MODULE NetConfig -----------------------------
(***************************************************************************)
(* The IPv4 configuration of drivers/netstack.c: DHCP with the static      *)
(* configuration of /system/network.conf behind it, the renewal, the ARP   *)
(* cache of one entry and the DNS query.  Every call blocks in a receive   *)
(* loop of its own until its answer or its deadline; what arrives in the   *)
(* meantime may be late, repeated, or meant for a call given up before.    *)
(*                                                                         *)
(* DHCP server s leases address 10 + s and names itself the router; only   *)
(* server 2 names a DNS server, Remote, which lies outside the subnet.     *)
(***************************************************************************)
EXTENDS Integers, FiniteSets

CONSTANTS
  MaxXid,     \* DHCP attempts in a behaviour
  MaxQueries  \* DNS queries in a behaviour

ASSUME ConfigAssumption == {MaxXid, MaxQueries} \subseteq Nat \ {0}

VARIABLES
  conf,   \* stack_status: the configuration in use
  arp,    \* arp_cached_ip and the owner of arp_cached_mac, 0 if none
  file,   \* the mode in the configuration file
  job,    \* the call under way
  sent,   \* what was broadcast or asked, as far as somebody may answer it
  xid,    \* the transaction of the last DHCP attempt
  ident,  \* dns_ident
  found   \* last_host and last_resolved_ip, the answer named by its host

netVars == <<conf, arp, file, job, sent, xid, ident, found>>

Servers == {1, 2}
Remote == 9
StaticIp == 13
Names == {"manifest", "package"}

NoConf == [ready |-> FALSE, by |-> "none", ip |-> 0, gw |-> 0, dns |-> 0, xid |-> 0]
NoLease == [server |-> 0, router |-> 0, dns |-> 0]
NoJob == [stage |-> "idle", lease |-> NoLease, tries |-> 0, name |-> "none",
          hop |-> 0, asked |-> "none", frame |-> [hop |-> 0, mac |-> 0]]
NoName == [name |-> "none", answer |-> "none"]

\* The reply of server s, with the options it sets.
Reply(type, x, s) ==
  [type |-> type, xid |-> x, ip |-> 10 + s, server |-> s,
   router |-> IF type = "nak" THEN 0 ELSE s,
   dns |-> IF type # "nak" /\ s = 2 THEN Remote ELSE 0]

Replies ==
  {Reply("offer", m[2], s) : m \in {q \in sent : q[1] = "discover"}, s \in Servers}
  \cup {Reply(t, m[2], m[3]) : t \in {"ack", "nak"}, m \in {q \in sent : q[1] = "request"}}
-----------------------------------------------------------------------------
(* Applying a configuration; both ways forget the ARP entry.               *)

StaticConf ==
  [ready |-> TRUE, by |-> "static", ip |-> StaticIp, gw |-> 1, dns |-> Remote, xid |-> 0]

LeaseConf(lease, ip) ==
  [ready |-> TRUE, by |-> "dhcp", ip |-> ip, gw |-> lease.router,
   dns |-> IF lease.dns # 0 THEN lease.dns ELSE lease.router, xid |-> xid]

\* netstack_configure_ipv4_dhcp up to the DISCOVER.
Discover(j) ==
  /\ xid < MaxXid
  /\ xid' = xid + 1
  /\ sent' = sent \cup {<<"discover", xid + 1>>}
  /\ job' = [j EXCEPT !.stage = "offer", !.lease = NoLease]

\* same_subnet and the next hop.
NextHop(c, ip) == IF ip = Remote THEN c.gw ELSE ip

\* The call goes on once there is a configuration: a query is sent by send_udp.
Configured(c, j) ==
  IF j.name = "none" THEN NoJob
  ELSE [j EXCEPT !.stage = "arp", !.hop = NextHop(c, c.dns)]

\* netstack_resolve_a, netstack_ping: a new query, the configuration first.
Resolve ==
  \E name \in Names :
    LET j == [NoJob EXCEPT !.name = name]
    IN  /\ job.stage = "idle" /\ ident < MaxQueries
        /\ ident' = ident + 1
        /\ IF conf.ready THEN job' = Configured(conf, j) /\ UNCHANGED <<sent, xid>>
           ELSE Discover(j)
        /\ UNCHANGED <<conf, arp, file, found>>

\* netstack_renew_ipv4: reset, then at most two attempts.
Renew ==
  /\ job.stage = "idle"
  /\ Discover([NoJob EXCEPT !.tries = 1])
  /\ conf' = NoConf /\ arp' = 0 /\ found' = NoName
  /\ UNCHANGED <<file, ident>>

\* net config: the file is written and the configuration applied, or not.
ConfigureStatic ==
  /\ job.stage = "idle"
  /\ file' = "static"
  /\ \E linked \in BOOLEAN :
       /\ conf' = IF linked THEN StaticConf ELSE conf
       /\ arp' = IF linked THEN 0 ELSE arp
  /\ UNCHANGED <<job, sent, xid, ident, found>>

SaveDhcpConfig ==
  /\ job.stage = "idle" /\ file # "dhcp"
  /\ file' = "dhcp"
  /\ UNCHANGED <<conf, arp, job, sent, xid, ident, found>>

\* DHCP failed: the static configuration, another attempt, or the call fails.
DhcpFails ==
  /\ job.stage \in {"offer", "ack"}
  /\ \/ /\ file = "static"
        /\ conf' = StaticConf /\ arp' = 0 /\ job' = Configured(StaticConf, job)
        /\ UNCHANGED <<sent, xid, found>>
     \/ /\ file # "static" /\ job.tries > 0
        /\ Discover([job EXCEPT !.tries = @ - 1])
        /\ conf' = NoConf /\ arp' = 0 /\ found' = NoName
     \/ /\ file # "static" /\ job.tries = 0
        /\ job' = NoJob
        /\ UNCHANGED <<conf, arp, sent, xid, found>>
  /\ UNCHANGED <<file, ident>>
-----------------------------------------------------------------------------
(* The receive loops.                                                      *)

\* Mutant: the transaction is not compared.
OfAnyTransaction(m) == TRUE

\* wait_dhcp takes the replies of its own transaction.
OfTransaction(m) == m.xid = xid

\* parse_dhcp_options: what the reply has overwrites, wanted type or not.
Merge(lease, m) ==
  [server |-> m.server,
   router |-> IF m.router # 0 THEN m.router ELSE lease.router,
   dns |-> IF m.dns # 0 THEN m.dns ELSE lease.dns]

WaitDhcp ==
  \E m \in Replies :
    LET lease == Merge(job.lease, m)
        j == [job EXCEPT !.lease = lease]
    IN  /\ job.stage \in {"offer", "ack"} /\ OfTransaction(m)
        /\ CASE m.type # job.stage ->
                  job' = j /\ UNCHANGED <<conf, arp, sent>>
             [] m.type = job.stage /\ m.type = "offer" ->
                  /\ job' = [j EXCEPT !.stage = "ack"]
                  /\ sent' = sent \cup {<<"request", xid, lease.server>>}
                  /\ UNCHANGED <<conf, arp>>
             [] m.type = job.stage /\ m.type = "ack" ->
                  /\ conf' = LeaseConf(lease, m.ip) /\ arp' = 0
                  /\ job' = Configured(conf', j)
                  /\ UNCHANGED sent
        /\ UNCHANGED <<file, xid, ident, found>>

\* handle_arp: any reply replaces the entry; every receive loop calls it.
HandleArp ==
  \E h \in Servers :
    /\ job.stage # "idle" /\ arp # h
    /\ arp' = h
    /\ UNCHANGED <<conf, file, job, sent, xid, ident, found>>

\* arp_resolve ends when the entry is the address asked for.
Resolved(hop) == arp = hop

\* The query goes out to the owner of the cached address.
SendQuery ==
  /\ job.stage = "arp" /\ Resolved(job.hop)
  /\ job' = [job EXCEPT !.stage = "answer", !.asked = job.name,
                        !.frame = [hop |-> job.hop, mac |-> arp]]
  /\ sent' = sent \cup {<<"query", ident, job.name>>}
  /\ UNCHANGED <<conf, arp, file, xid, ident, found>>

\* The answer has the identifier, the ports and the server of the query.
OfQuery(m) == m[2] = ident

WaitAnswer ==
  \E m \in sent :
    /\ job.stage = "answer" /\ m[1] = "query" /\ OfQuery(m)
    /\ found' = [name |-> job.name, answer |-> m[3]]
    /\ job' = NoJob
    /\ UNCHANGED <<conf, arp, file, sent, xid, ident>>

\* The deadline, a name error, or a send that fails.
ResolveFails ==
  /\ job.stage \in {"arp", "answer"}
  /\ job' = NoJob
  /\ UNCHANGED <<conf, arp, file, sent, xid, ident, found>>

NetInit ==
  /\ conf = NoConf /\ arp = 0 /\ file \in {"none", "static"} /\ job = NoJob
  /\ sent = {} /\ xid = 0 /\ ident = 0 /\ found = NoName

NetNext ==
  \/ Resolve \/ Renew \/ ConfigureStatic \/ SaveDhcpConfig \/ DhcpFails
  \/ WaitDhcp \/ HandleArp \/ SendQuery \/ WaitAnswer \/ ResolveFails
-----------------------------------------------------------------------------
\* The lease in use was granted by a server for a REQUEST of the attempt that
\* took it, and the router is that server's: the late replies of other servers
\* and of attempts given up before leave no trace in them.  (The DNS server may
\* be another server's, if the granting one names none.)
LeaseWasGranted ==
  conf.by = "dhcp" =>
    /\ <<"request", conf.xid, conf.gw>> \in sent
    /\ conf.ip = 10 + conf.gw

\* A query left for the machine that is its next hop, whatever ARP replies
\* arrived in between and whichever configuration was in use before.
QueryToNextHop ==
  job.stage = "answer" =>
    job.frame = [hop |-> NextHop(conf, conf.dns), mac |-> NextHop(conf, conf.dns)]

\* The address kept for a name is the answer to a query for that name.
ResolvedNameIsAnswered == found.name = found.answer

\* Addresses, next hops and names in use come from the replies that grant them.
ConfigKept == LeaseWasGranted /\ QueryToNextHop /\ ResolvedNameIsAnswered
=============================================================================
