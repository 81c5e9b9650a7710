------------------------------- MODULE Scitun -------------------------------
(***************************************************************************)
(* The Python translator scitun.py: a loop that waits for packets from a   *)
(* TUN device and for SCION packets from a UDP socket, translates each and *)
(* sends it on, with a cache of the paths the daemon gave.  One packet is  *)
(* dealt with at a time, so a handler is one step.  Exceptions, but for    *)
(* the one of Ctrl-C, are caught nowhere: those of the daemon, of the      *)
(* socket and the TUN device, and of map_ipv4 end the program.             *)
(*                                                                         *)
(* A host address in a SCION header has a version, 4 or 6.  A frame is the *)
(* packet in the network: kind "ip", an IPv6 packet as it is, or "scion",  *)
(* a SCION packet in UDP.  "at" is the AS it is in, "hop" the underlay     *)
(* address it goes to, "pkt" the packet of the application in it.          *)
(***************************************************************************)
EXTENDS AddressMapping, HeaderWord

CONSTANTS
  Hosts,        \* hosts that run a translator
  PythonHosts,  \* those that run scitun.py; the others run the eBPF programs
  Ia,           \* Ia[h]: ISD-AS of h
  HostIp,       \* HostIp[h]: the address of h in its AS
  RouterV,      \* RouterV[h]: IP version of the border routers h is told of
  Strangers,    \* SCION hosts without a translator: their AS and address
  Unknown       \* an AS is not in the path cache

V4(ip4) == [v |-> 4, ip |-> ip4]
V6(a) == [v |-> 6, ip |-> a]
Ias == {Ia[h] : h \in Hosts}

\* The AS and the host an address stands for.
IaOf(a) == LET u == UnmapIpv6(a) IN [isd |-> u.isd, asn |-> u.asn]
HostOf(a) == IF UnmapIpv6(a).ip4 THEN V4(<<a[7], a[8]>>) ELSE V6(a)

(***************************************************************************)
(* A host has an IPv4 address and is in an AS that can be encoded, or has  *)
(* an IPv6 address of its AS that is not taken for an IPv4 address, as     *)
(* scion2ip makes them.  In an AS an address is given once.                *)
(***************************************************************************)
ASSUME HostAssumption ==
  /\ PythonHosts \subseteq Hosts
  /\ \A h \in Hosts :
       /\ Ia[h].isd \in Nat /\ Ia[h].isd < 4096
       /\ Ia[h].asn \in AsNumber /\ Encodable(Ia[h].asn)
       /\ Ia[h] = [isd |-> Ia[h].isd, asn |-> Ia[h].asn]
       /\ RouterV[h] \in {4, 6}
       /\ LET ip == HostIp[h].ip
          IN  \/ h \in PythonHosts /\ HostIp[h] = V4(ip) /\ ip \in Ipv4
              \/ /\ HostIp[h] = V6(ip) /\ ip \in Address /\ InScionNetwork(ip)
                 /\ IaOf(ip) = Ia[h] /\ HostOf(ip) = V6(ip)
  /\ \A g, h \in Hosts : Ia[g] = Ia[h] /\ HostIp[g] = HostIp[h] => g = h

\* Strangers have no SCION-mapped address: one of IPv4 in an AS that cannot be
\* encoded, or one of IPv6 outside fc00::/8.
ASSUME StrangerAssumption ==
  \A x \in Strangers :
    \/ x.host.v = 4 /\ ~(x.ia.isd < 4096 /\ Encodable(x.ia.asn))
    \/ x.host.v = 6 /\ ~InScionNetwork(x.host.ip)

VARIABLES
  running,   \* does the program of a host run?
  paths,     \* PathCache.paths of each scitun.py
  wire,      \* frames in the network
  received   \* what reached a host's applications: <<host, IP packet>>

\* The SCION-mapped address of h: an IPv6 host has none but this.
TunIp(h) == IF HostIp[h].v = 4 THEN MapIpv4(Ia[h].isd, Ia[h].asn, HostIp[h].ip)
            ELSE HostIp[h].ip

\* A packet as the application's IP stack makes it.
IpPacket(p) ==
  [src |-> TunIp(p.src), dst |-> TunIp(p.dst), proto |-> p.proto,
   hdr |-> IpHeader(p.class, p.label), pkt |-> p]

\* "local", the empty path within the AS; or a path, or none, to another.
Answers(h, ia) == IF ia = Ia[h] THEN {"local"} ELSE {"path", "none"}
NothingCached == [ia \in Ias |-> Unknown]

\* The program ends, and what it cached is gone.
Ends(h) ==
  /\ running' = [running EXCEPT ![h] = FALSE]
  /\ paths' = [paths EXCEPT ![h] = NothingCached]

----------------------------------------------------------------------------
(***************************************************************************)
(* translate_egress                                                        *)
(***************************************************************************)

\* icmp_to_scmp and scmp_to_icmp.  The other names are the same in both.
Translated == {"TCP", "UDP", "EchoRequest", "EchoReply"}
ToScion(proto) ==
  CASE proto = "EchoRequest" -> "ScmpEchoRequest"
    [] proto = "EchoReply" -> "ScmpEchoReply"
    [] OTHER -> proto

\* Faulty variant: what is no request is a reply.
ToIpTwoWay(next) ==
  CASE next = "ScmpEchoRequest" -> "EchoRequest"
    [] next \in {"TCP", "UDP"} -> next
    [] OTHER -> "EchoRequest"

ToIp(next) ==
  CASE next = "ScmpEchoRequest" -> "EchoRequest"
    [] next = "ScmpEchoReply" -> "EchoReply"
    [] OTHER -> next

\* The first word of the headers scapy makes: flow label 1, no class.
ScapyWord == {0}

Length(host) == IF host.v = 6 THEN Bytes16 ELSE Bytes4

\* A border router in the network of h; the destination itself if the path is
\* empty.
NextHop(h, q, path) ==
  IF path = "local" THEN HostOf(q.dst) ELSE [v |-> RouterV[h], ip |-> <<>>]

\* The packet for the network, without its UDP and IP header.
ScionPacket(h, q, path) ==
  [kind |-> "scion", at |-> Ia[h], hop |-> NextHop(h, q, path),
   dst |-> IaOf(q.dst), dstHost |-> HostOf(q.dst),
   src |-> Ia[h], srcHost |-> HostIp[h],
   haddr |-> Haddr(Length(HostOf(q.dst)), Length(HostIp[h])),
   next |-> ToScion(q.proto), word |-> ScapyWord, pkt |-> q.pkt]

\* Faulty variant: the socket's IP version is not looked at.
ScitunEgressAnyHop(h, q, path) ==
  IF path # "none" /\ q.proto \in Translated THEN {ScionPacket(h, q, path)} ELSE {}

\* The frame that goes out, if one does: there is a path, the protocol has a
\* counterpart, and (run_translation) the socket has the next hop's version.
ScitunEgress(h, q, path) ==
  IF /\ path # "none"
     /\ q.proto \in Translated
     /\ NextHop(h, q, path).v = HostIp[h].v
  THEN {ScionPacket(h, q, path)} ELSE {}

\* What PathCache.lookup may return: it asks for an AS once and keeps the
\* answer, also if it is empty.
Lookup(h, ia) ==
  IF paths[h][ia] = Unknown THEN Answers(h, ia) ELSE {paths[h][ia]}

\* A packet from the TUN device.
FromTun(h, q) ==
  /\ running[h]
  /\ \E path \in Lookup(h, IaOf(q.dst)) :
       /\ paths' = [paths EXCEPT ![h][IaOf(q.dst)] = path]
       /\ wire' = wire \union ScitunEgress(h, q, path)
  /\ UNCHANGED <<running, received>>

\* The daemon does not answer, or sendto fails: the packet is lost.
FromTunRaises(h, q) ==
  /\ running[h]
  /\ \/ paths[h][IaOf(q.dst)] = Unknown
     \/ \E path \in Lookup(h, IaOf(q.dst)) : ScitunEgress(h, q, path) # {}
  /\ Ends(h)
  /\ UNCHANGED <<wire, received>>

----------------------------------------------------------------------------
(***************************************************************************)
(* translate_ingress                                                       *)
(***************************************************************************)

\* The SCION-mapped address of a host in the SCION header with an address
\* length; Error if it has none.
MappedAddress(ia, length, host) ==
  IF length = Bytes4 THEN MapIpv4(ia.isd, ia.asn, host.ip)
  ELSE IF length = Bytes16 THEN host.ip
  ELSE Error

\* The packet as the applications get it; scapy makes a new IPv6 header.
FromScion(f) ==
  [src |-> MappedAddress(f.src, GetHaddr(f.haddr, 0), f.srcHost),
   dst |-> MappedAddress(f.dst, GetHaddr(f.haddr, 4), f.dstHost),
   proto |-> ToIp(f.next), hdr |-> IpHeader({}, {}), pkt |-> f.pkt]

\* Both addresses are IP addresses, the destination is the TUN device's, an
\* IPv6 source is SCION-mapped, and the protocol has a counterpart.
ScitunIngress(h, f) ==
  LET q == FromScion(f)
  IN  IF /\ GetHaddr(f.haddr, 6) = IP /\ GetHaddr(f.haddr, 2) = IP
         /\ q.dst = TunIp(h)
         /\ q.src # Error /\ InScionNetwork(q.src)
         /\ q.proto \in Translated
      THEN {<<h, q>>} ELSE {}

\* map_ipv4 raises InvalidArgument: the destination, or when that is the TUN
\* device's the source, is an IPv4 host of an AS that cannot be encoded.
NotMapped(h, f) ==
  LET q == FromScion(f)
  IN  /\ GetHaddr(f.haddr, 6) = IP
      /\ \/ GetHaddr(f.haddr, 4) = Bytes4 /\ q.dst = Error
         \/ /\ q.dst = TunIp(h) /\ GetHaddr(f.haddr, 2) = IP
            /\ GetHaddr(f.haddr, 0) = Bytes4 /\ q.src = Error

\* A packet from the UDP socket.
FromUdp(h, f) ==
  /\ running[h]
  /\ ~NotMapped(h, f)
  /\ received' = received \union ScitunIngress(h, f)
  /\ UNCHANGED <<running, paths, wire>>

\* map_ipv4 or the write to the TUN device fails: the packet is lost.
FromUdpRaises(h, f) ==
  /\ running[h]
  /\ NotMapped(h, f) \/ ScitunIngress(h, f) # {}
  /\ Ends(h)
  /\ UNCHANGED <<wire, received>>

\* A packet of a stranger, as it reaches h.
StrangerPacket(h, x) ==
  [kind |-> "scion", at |-> Ia[h], hop |-> HostIp[h],
   dst |-> Ia[h], dstHost |-> HostIp[h], src |-> x.ia, srcHost |-> x.host,
   haddr |-> Haddr(Length(HostIp[h]), Length(x.host)),
   next |-> "UDP", word |-> ScapyWord, pkt |-> x]

\* Ctrl-C.
Interrupt(h) ==
  /\ running[h]
  /\ Ends(h)
  /\ UNCHANGED <<wire, received>>

\* The operator starts the program again.
Restart(h) ==
  /\ ~running[h]
  /\ running' = [running EXCEPT ![h] = TRUE]
  /\ UNCHANGED <<paths, wire, received>>
=============================================================================
