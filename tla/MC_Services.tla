---------------------------- MODULE MC_Services ----------------------------
(***************************************************************************)
(* The network client, the package manager and the arithmetic that keys    *)
(* and signatures rest on, one part in each behaviour: the IPv4            *)
(* configuration, the connections, TLS, the downloads of an upgrade,       *)
(* packages, arithmetic.                                                   *)
(***************************************************************************)
EXTENDS TcpClient, TlsClient, NetConfig, UpdateDownload, MC_Packages, MC_Crypto

\* Two of the boot artifacts and the package index.
MCArtifacts == <<"kernel", "efi", "index">>

VARIABLE part

serviceVars == <<part, tcpVars, tlsVars, netVars, dlVars, pkgVars, cryptoVars>>

ServicesInit ==
  /\ part \in {"config", "connections", "tls", "downloads", "packages", "arithmetic"}
  /\ TcpInit /\ TlsInit /\ NetInit /\ DlInit /\ PkgInit /\ CryptoInit
  \* The parts that stand still are in one initial state.
  /\ part # "tls" => server = CHOOSE s \in ServersSeen : TRUE
  /\ part # "config" => file = "none"

ServicesNext ==
  /\ UNCHANGED part
  /\ \/ part = "connections" /\ TcpNext /\ UNCHANGED <<tlsVars, netVars, dlVars, pkgVars, cryptoVars>>
     \/ part = "tls" /\ TlsNext /\ UNCHANGED <<tcpVars, netVars, dlVars, pkgVars, cryptoVars>>
     \/ part = "config" /\ NetNext /\ UNCHANGED <<tcpVars, tlsVars, dlVars, pkgVars, cryptoVars>>
     \/ part = "downloads" /\ DlNext /\ UNCHANGED <<tcpVars, tlsVars, netVars, pkgVars, cryptoVars>>
     \/ part = "packages" /\ PkgNext /\ UNCHANGED <<tcpVars, tlsVars, netVars, dlVars, cryptoVars>>
     \/ part = "arithmetic" /\ CryptoNext /\ UNCHANGED <<tcpVars, tlsVars, netVars, dlVars, pkgVars>>

\* The user retries an upgrade that failed, and one that runs goes on.
Retried == /\ part = "downloads" /\ DlProgress
           /\ UNCHANGED <<part, tcpVars, tlsVars, netVars, pkgVars, cryptoVars>>

ServicesSpec == ServicesInit /\ [][ServicesNext]_serviceVars /\ WF_serviceVars(Retried)
=============================================================================
