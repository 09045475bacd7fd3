----------------------------- MODULE MCInternet -----------------------------
(***************************************************************************)
(* The protocols of the internet stack and the web application above them, *)
(* on small instances.  They share no state; part says which of them a     *)
(* behaviour is about, so that one run checks them side by side without    *)
(* multiplying their states.                                               *)
(***************************************************************************)
EXTENDS Tcp, Arp, Ndisc, IpFragments, IpDuplicates, Rip, Http, UdpSockets, MCSpf

MCWrites == [e \in Ends |-> 1]
MCLengths == <<3, 2>>
MCLinks == {{ra, rb}, {rb, rc}, {ra, rc}}
MCDistance == [r \in Routers |-> IF r = Owner THEN 1 ELSE 2]

VARIABLE part

InternetVars == <<tcpVars, arpVars, ndVars, ipVars, dupVars, ripVars, httpVars, udpVars, spfVars, part>>

InternetInit ==
  /\ part \in {"tcp", "arp", "ndisc", "fragments", "duplicates", "rip", "http", "udp",
               "spf"}
  /\ part # "udp" => mode = "UDP"
  /\ part # "spf" => m_metric = MCTopology([e \in MCPairs |-> 0], {})
  /\ TcpInit /\ ArpInit /\ NdInit /\ IpInit /\ DupInit /\ RipInit /\ HttpInit
  /\ UdpInit /\ SpfInit

InternetNext ==
  \/ part = "tcp" /\ TcpNext
     /\ UNCHANGED <<arpVars, ndVars, ipVars, dupVars, ripVars, httpVars, udpVars, spfVars, part>>
  \/ part = "arp" /\ ArpNext
     /\ UNCHANGED <<tcpVars, ndVars, ipVars, dupVars, ripVars, httpVars, udpVars, spfVars, part>>
  \/ part = "ndisc" /\ NdNext
     /\ UNCHANGED <<tcpVars, arpVars, ipVars, dupVars, ripVars, httpVars, udpVars, spfVars, part>>
  \/ part = "fragments" /\ IpNext
     /\ UNCHANGED <<tcpVars, arpVars, ndVars, dupVars, ripVars, httpVars, udpVars, spfVars, part>>
  \/ part = "duplicates" /\ DupNext
     /\ UNCHANGED <<tcpVars, arpVars, ndVars, ipVars, ripVars, httpVars, udpVars, spfVars, part>>
  \/ part = "rip" /\ RipNext
     /\ UNCHANGED <<tcpVars, arpVars, ndVars, ipVars, dupVars, httpVars, udpVars, spfVars, part>>
  \/ part = "http" /\ HttpNext
     /\ UNCHANGED <<tcpVars, arpVars, ndVars, ipVars, dupVars, ripVars, udpVars, spfVars, part>>
  \/ part = "udp" /\ UdpNext
     /\ UNCHANGED <<tcpVars, arpVars, ndVars, ipVars, dupVars, ripVars, httpVars, spfVars, part>>
  \/ part = "spf" /\ SpfNext
     /\ UNCHANGED <<tcpVars, arpVars, ndVars, ipVars, dupVars, ripVars, httpVars, udpVars, part>>

InternetSpec == InternetInit /\ [][InternetNext]_InternetVars

\* The type invariants of the protocols.
InternetTypesOK ==
  /\ TcpTypeOK
  /\ ArpTypeOK
  /\ NdTypeOK
  /\ IpTypeOK
  /\ RipTypeOK
  /\ HttpTypeOK
  /\ UdpTypeOK
  /\ SpfTypeOK
=============================================================================
