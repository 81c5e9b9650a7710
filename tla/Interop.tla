------------------------------ MODULE Interop ------------------------------
(***************************************************************************)
(* Hosts with the eBPF programs and hosts with scitun.py in one SCION      *)
(* network, with IPv4 and IPv6 underlays: what the one translator sends,   *)
(* the other must understand.  The parts of a packet that matter here are  *)
(* addresses, protocol, traffic class and flow label; for lengths see      *)
(* Tunnel, for the eBPF path cache EgressCache.                            *)
(***************************************************************************)
EXTENDS Scitun, FiniteSets

CONSTANTS
  Little,   \* hosts with a little-endian machine
  Outers,   \* class and label of the underlay's IPv6 headers that arrive
  Traffic,  \* packets the applications may send
  MaxSent,  \* bound on how many of them they send
  MaxDown   \* bound on how many scitun.py do not run at the same time

Protocols == Translated \union {"OtherIcmp"}
Icmp == Protocols \ {"TCP", "UDP"}

ASSUME TrafficAssumption ==
  /\ \A p \in Traffic :
       /\ p.src \in Hosts /\ p.dst \in Hosts /\ p.src # p.dst
       /\ p.proto \in Protocols
       /\ p.class \subseteq 0..7 /\ p.label \subseteq 0..19

\* The underlay's header may have any class and label.
ASSUME OuterAssumption ==
  \A o \in Outers : o.class \subseteq 0..7 /\ o.label \subseteq 0..19

VARIABLE sent   \* packets the applications sent
vars == <<running, paths, wire, received, sent>>

IsLittle(h) == h \in Little
EbpfHosts == Hosts \ PythonHosts

----------------------------------------------------------------------------
(***************************************************************************)
(* scion_egress                                                            *)
(***************************************************************************)

\* ICMPv6 and traffic within the AS is not translated.
Untouched(q) ==
  q.proto \in Icmp \/ ScionAddr(q.dst) = ScionAddr(q.src)

Plain(h, q) == [kind |-> "ip", at |-> Ia[h], hop |-> V6(q.dst), packet |-> q, pkt |-> q.pkt]

\* The header from the cache, for the AS the path service asked for, with the
\* fields scion_egress fills in.  The addresses have 16 bytes.
EbpfPacket(h, q) ==
  [kind |-> "scion", at |-> Ia[h], hop |-> [v |-> 6, ip |-> <<>>],
   dst |-> QueriedIa(ScionAddr(q.dst)), dstHost |-> V6(q.dst),
   src |-> Ia[h], srcHost |-> V6(q.src),
   haddr |-> Haddr(Bytes16, Bytes16), next |-> q.proto,
   word |-> Htonl(Word(q.hdr, {}, IsLittle(h)), IsLittle(h)), pkt |-> q.pkt]

\* The frames that may leave: none if there is no path.
EbpfEgress(h, q) ==
  IF Untouched(q) THEN {{Plain(h, q)}} ELSE {{}, {EbpfPacket(h, q)}}

----------------------------------------------------------------------------
(***************************************************************************)
(* scion_ingress                                                           *)
(***************************************************************************)

\* 16 bytes each are taken for the destination and for the source.
At16(ip, length) == IF length = Bytes16 THEN ip ELSE <<>>

\* The packet keeps the underlay's IPv6 header, that of a router or of the host
\* of scitun.py, with new addresses and protocol; the label is or-ed into it.
Unwrapped(h, f, o) ==
  [src |-> At16(f.srcHost.ip, GetHaddr(f.haddr, 0)),
   dst |-> At16(f.dstHost.ip, GetHaddr(f.haddr, 4)),
   proto |-> f.next,
   hdr |-> Restored(IpHeader(o.class, o.label), Htonl(f.word, IsLittle(h))),
   pkt |-> f.pkt]

\* UDP without a SCION header is cut up all the same.
Mangled(q) == [q EXCEPT !.src = <<>>, !.dst = <<>>, !.proto = "none"]

EbpfIngress(h, f, o) ==
  IF f.kind = "scion" THEN Unwrapped(h, f, o)
  ELSE IF f.packet.proto = "UDP" THEN Mangled(f.packet)
  ELSE f.packet

----------------------------------------------------------------------------
Init ==
  /\ running = [h \in Hosts |-> TRUE]
  /\ paths = [h \in PythonHosts |-> NothingCached]
  /\ wire = {} /\ received = {} /\ sent = {}

Sends(p) ==
  /\ sent' = sent \union {p}
  /\ Cardinality(sent') <= MaxSent

FewDown == Cardinality({h \in PythonHosts : ~running'[h]}) <= MaxDown

ScitunSends(p) ==
  /\ p.src \in PythonHosts
  /\ Sends(p)
  /\ FromTun(p.src, IpPacket(p)) \/ FromTunRaises(p.src, IpPacket(p))
  /\ FewDown

EbpfSends(p) ==
  /\ p.src \in EbpfHosts
  /\ Sends(p)
  /\ \E fs \in EbpfEgress(p.src, IpPacket(p)) : wire' = wire \union fs
  /\ UNCHANGED <<running, paths, received>>

\* The routers carry a SCION packet to the host it names in the AS it names.
Forward(f) ==
  /\ f.kind = "scion" /\ f.hop.ip = <<>>
  /\ \E h \in Hosts : Ia[h] = f.dst /\ HostIp[h] = f.dstHost
  /\ wire' = wire \union {[f EXCEPT !.at = f.dst, !.hop = f.dstHost]}
  /\ UNCHANGED <<running, paths, received, sent>>

\* A frame reaches the host in its AS that has the address it goes to; an
\* IPv6 packet for a host with scitun.py its applications.
Arrives(h, f) == Ia[h] = f.at /\ HostIp[h] = f.hop

ScitunReceives(h, f) ==
  /\ h \in PythonHosts /\ Arrives(h, f)
  /\ IF f.kind = "scion" THEN FromUdp(h, f) \/ FromUdpRaises(h, f)
     ELSE received' = received \union {<<h, f.packet>>} /\ UNCHANGED <<running, paths, wire>>
  /\ FewDown
  /\ UNCHANGED sent

EbpfReceives(h, f) ==
  /\ h \in EbpfHosts /\ Arrives(h, f)
  /\ \E o \in Outers : received' = received \union {<<h, EbpfIngress(h, f, o)>>}
  /\ UNCHANGED <<running, paths, wire, sent>>

StrangerReaches(h, x) ==
  /\ FromUdp(h, StrangerPacket(h, x)) \/ FromUdpRaises(h, StrangerPacket(h, x))
  /\ FewDown
  /\ UNCHANGED sent

ScitunStops(h) == Interrupt(h) /\ FewDown /\ UNCHANGED sent
ScitunRestarts(h) == Restart(h) /\ UNCHANGED sent

\* A frame that is never delivered is lost, one that is delivered again is
\* duplicated.
Next ==
  \/ \E p \in Traffic : ScitunSends(p) \/ EbpfSends(p)
  \/ \E f \in wire : Forward(f)
  \/ \E h \in Hosts, f \in wire : ScitunReceives(h, f) \/ EbpfReceives(h, f)
  \/ \E h \in PythonHosts, x \in Strangers : StrangerReaches(h, x)
  \/ \E h \in PythonHosts : ScitunStops(h) \/ ScitunRestarts(h)

Spec == Init /\ [][Next]_vars

----------------------------------------------------------------------------
Paths == {"local", "path", "none", Unknown}

TypeOK ==
  /\ running \in [Hosts -> BOOLEAN]
  /\ paths \in [PythonHosts -> [Ias -> Paths]]
  /\ sent \subseteq Traffic

\* f is what the translator of p's source makes of p: scitun.py for a next hop
\* that its socket can reach, with the empty path within the AS and no other
\* there; the eBPF programs as it is or with a SCION header.
Emitted(f, p) ==
  LET h == p.src
      q == IpPacket(p)
  IN  IF h \in PythonHosts
      THEN \E path \in {"local", "path"} :
             /\ f = ScionPacket(h, q, path) /\ f.hop.v = HostIp[h].v
             /\ p.proto \in Translated
             /\ path = "local" <=> IaOf(q.dst) = Ia[h]
      ELSE f = IF Untouched(q) THEN Plain(h, q) ELSE EbpfPacket(h, q)

\* f, where the routers carry it.
Carried(f) == [f EXCEPT !.at = f.dst, !.hop = f.dstHost]

\* Every frame in the network is traced to a packet that was sent.
FramesTraced ==
  \A f \in wire :
    /\ f.pkt \in sent
    /\ \/ Emitted(f, f.pkt)
       \/ \E g \in wire : g.kind = "scion" /\ Emitted(g, f.pkt) /\ f = Carried(g)

Inv == TypeOK /\ FramesTraced

InterAs(p) == Ia[p.src] # Ia[p.dst]

\* g is the packet p, at the host it was sent to.
AsSent(h, g, p) ==
  /\ p \in sent /\ h = p.dst
  /\ g.src = TunIp(p.src) /\ g.dst = TunIp(p.dst) /\ g.proto = p.proto

\* What scitun.py gives to its applications was sent to them as it arrives,
\* whichever translator sent it, over IPv4 or IPv6, within the AS or from
\* another: addresses that were unmapped are mapped back to the same ones.
ScitunFaithful ==
  \A r \in received : r[1] \in PythonHosts => AsSent(r[1], r[2], r[2].pkt)

\* An eBPF host gets TCP and UDP packets of IPv6 hosts with scitun.py as they
\* were sent, within the AS too, and those of eBPF hosts from other ASes.
\* (Echo packets arrive as SCMP, packets of IPv4 hosts with addresses of 4
\* bytes, which scion_ingress does not expect.)
EbpfFaithful ==
  \A r \in received :
    LET p == r[2].pkt
    IN  /\ r[1] \in EbpfHosts /\ p.proto \in {"TCP", "UDP"}
        /\ HostIp[p.src].v = 6
        /\ p.src \in PythonHosts \/ InterAs(p)
        => AsSent(r[1], r[2], p)

\* The AS that PathService asks for instead of 2:m:n, as it takes the bit that
\* marks these numbers for one of the number.
Misread(ia) == [isd |-> ia.isd, asn |-> <<0, ia.asn[2] + 8, ia.asn[3]>>]

\* A SCION packet names the AS that the application's address stands for, all
\* but those of eBPF hosts to the ASes 2:0:0 to 2:7:ffff: these name an AS with
\* a BGP number from 2^19 on, so they never reach the host that was meant.
AsMeant ==
  \A f \in wire : f.kind = "scion" =>
    LET meant == Ia[f.pkt.dst]
    IN  f.dst = IF f.pkt.src \in EbpfHosts /\ meant.asn[1] = 2
                THEN Misread(meant) ELSE meant

----------------------------------------------------------------------------
FromEbpf(f) == f.kind = "scion" /\ f.pkt.src \in EbpfHosts

\* The SCION header has version 0 and the packet's flow label where a router
\* looks for them (write_scionhdr), although the three macros clear and set
\* bits of the word in the machine's order.
FlowLabelCarried ==
  \A f \in wire : FromEbpf(f) =>
    GetVer(f.word, FALSE) = {} /\ GetFlow(f.word, FALSE) = f.pkt.label

ClassCarried(f) == GetQos(f.word, FALSE) = f.pkt.class

\* "8b copy traffic class from IP header" (egress.bpf.c:50): a router finds
\* the packet's traffic class in the SCION header.
TrafficClassCarried == \A f \in wire : FromEbpf(f) => ClassCarried(f)

\* Where the order in which the macros convert and shift does not matter, on
\* big-endian machines, a router finds the traffic class too, and scion_ingress
\* restores the flow label, but for the upper four bits: there it adds those of
\* the label that the underlay's header arrived with (ingress.bpf.c:85).
BigEndianFaithful ==
  /\ \A f \in wire : FromEbpf(f) /\ f.pkt.src \notin Little => ClassCarried(f)
  /\ \A r \in received :
       LET p == r[2].pkt
       IN  /\ {r[1], p.src} \subseteq EbpfHosts \ Little
           /\ InterAs(p) /\ r[2].proto \in {"TCP", "UDP"}
           => \E o \in Outers :
                FlowLabel(r[2].hdr) = p.label \union (o.label \intersect (16..19))
=============================================================================
