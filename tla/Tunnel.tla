------------------------------- MODULE Tunnel -------------------------------
(***************************************************************************)
(* The packet path between hosts that run both eBPF programs.              *)
(*                                                                         *)
(* scion_egress puts an underlay UDP header and a SCION header between the *)
(* IPv6 header of an outgoing packet and its payload and readdresses it to *)
(* a border router.  SCION routers carry the packet to the AS and the host *)
(* named in the SCION header.  scion_ingress moves addresses, protocol and *)
(* length back into the IPv6 header and cuts the two headers out.  Between *)
(* the hosts frames are lost, duplicated and reordered.                    *)
(*                                                                         *)
(* A frame is described by its IPv6 header, the number of bytes behind it, *)
(* the two inserted headers when they are there (kind "scion"), and the    *)
(* transport segment.  Lengths are in bytes, in the width of their fields. *)
(* The path cache is taken to answer with one complete entry for the       *)
(* packet's AS, which is what EgressCache shows.                           *)
(***************************************************************************)
EXTENDS Naturals, FiniteSets

CONSTANTS
  Hosts,      \* hosts with an IPv6-mapped SCION address
  AsOf,       \* AsOf[h]: the ISD-AS in the address of h
  Router,     \* a border router; not a SCION-mapped address
  RouterPort, \* the router's underlay port
  PathWords,  \* lengths of paths, in words of 4 bytes
  Lengths,    \* lengths of transport segments, header included
  SrcPorts,   \* source ports of applications
  Mtu,        \* of every link
  MaxSent,    \* bound on the packets the applications send
  None        \* no header

(***************************************************************************)
(* A SCION header has at most 255 words, 15 of them are not path.  Neither *)
(* the MTU nor the longest packet make the 16-bit lengths overflow.        *)
(***************************************************************************)
ASSUME TunnelAssumption ==
  /\ Router \notin Hosts
  /\ \A w \in PathWords : w \in Nat /\ w <= 240
  /\ Mtu \in Nat /\ Mtu <= 64000
  /\ \A n \in Lengths : n \in Nat /\ n > 0 /\ n + 40 <= Mtu
  /\ \A s \in SrcPorts : s \in Nat /\ s < 65536

UDP == 17
TCP == 6
ICMPV6 == 58
Protocols == {UDP, TCP, ICMPV6}
SCION_DISPATCHER_PORT == 30041

UdpBytes == 8      \* sizeof(struct udphdr)
AddrBytes == 60    \* sizeof(struct scionhdr) and two host addresses
U8(n) == n % 256
U16(n) == n % 65536

VARIABLES
  sent,      \* packets the applications sent
  wire,      \* frames on their way
  received   \* frames scion_ingress passed up, with the host they arrived at
vars == <<sent, wire, received>>

\* An application's packet.  The contents of a segment never change and are
\* not modelled beyond the port.
Packets == [src : Hosts, dst : Hosts, next : Protocols, len : Lengths,
            port : SrcPorts]

\* The same packet as a frame that only IP has seen.
Plain(p) ==
  [kind |-> "ip", src |-> p.src, dst |-> p.dst, next |-> p.next,
   plen |-> p.len, bytes |-> p.len, under |-> None, sci |-> None, segment |-> p]

----------------------------------------------------------------------------
(***************************************************************************)
(* scion_egress                                                            *)
(***************************************************************************)

\* The entry pathToMapEntry builds for a path of w words to an AS.
Entry(as, w) ==
  [as |-> as, len |-> U8((AddrBytes + 4 * w) \div 4), words |-> U8(w),
   router |-> Router, port |-> RouterPort]

\* Frames that leave as they are: ICMPv6, traffic within the AS, packets too
\* short for a UDP header.  (Packets to addresses that are not SCION-mapped
\* have no part in the model.)
Untouched(f) ==
  \/ f.next = ICMPV6
  \/ AsOf[f.dst] = AsOf[f.src]
  \/ f.bytes < UdpBytes

\* bpf_check_mtu(ctx, 0, &len, -new_hdrs_size, 0): the size that is compared
\* with the MTU is the one after removing the new headers.
MtuCheckFails(f, growth) == 40 + f.bytes > Mtu + growth

\* The 16-bit htons of a value that is already in network order.
Swap16(p) == (p % 256) * 256 + p \div 256

\* Faulty variant: the last word has to lie before the packet's old payload.
CopiesWholePathOrLess(e, bytes) ==
  \A i \in 0..(e.words - 1) : UdpBytes + AddrBytes + 4 * (i + 1) + UdpBytes < bytes

\* Does the copy loop, whose second bound is the end of the packet, reach the
\* last word of the path?
CopiesWholePath(e, bytes) ==
  \A i \in 0..(e.words - 1) : UdpBytes + AddrBytes + 4 * (i + 1) < bytes

\* Faulty variant: the host addresses are written source first.
ScionHeaderSwapped(f, e, bytes) ==
  [dstAs |-> e.as, dstHost |-> f.src, srcHost |-> f.dst, next |-> f.next,
   len |-> e.len, payload |-> f.plen, words |-> e.words,
   whole |-> CopiesWholePath(e, bytes)]

\* The SCION header: prefilled part of the entry, protocol and payload length
\* of the packet, host addresses, path.
ScionHeader(f, e, bytes) ==
  [dstAs |-> e.as, dstHost |-> f.dst, srcHost |-> f.src, next |-> f.next,
   len |-> e.len, payload |-> f.plen, words |-> e.words,
   whole |-> CopiesWholePath(e, bytes)]

\* Length of the underlay UDP datagram, for both the UDP and the IP header.
UnderlayLength(h) == U16(UdpBytes + 4 * h.len + h.payload)

Rewritten(f, e) ==
  LET bytes == f.bytes + UdpBytes + 4 * e.len
      h == ScionHeader(f, e, bytes)
  IN  [kind |-> "scion", src |-> f.src, dst |-> e.router, next |-> UDP,
       plen |-> UnderlayLength(h), bytes |-> bytes,
       under |-> [sport |-> Swap16(f.segment.port), dport |-> e.port,
                  len |-> UnderlayLength(h)],
       sci |-> h, segment |-> f.segment]

\* The frames scion_egress may let out for f; none if it drops it.
Egress(f, e) ==
  IF Untouched(f) THEN {f}
  ELSE IF MtuCheckFails(f, UdpBytes + 4 * e.len) THEN {}
  ELSE {Rewritten(f, e)}

----------------------------------------------------------------------------
(***************************************************************************)
(* scion_ingress                                                           *)
(***************************************************************************)

\* Frames that are passed up as they are.  Whether what follows the UDP
\* header is a SCION header cannot be told.
PassedUp(f) ==
  \/ f.next = ICMPV6
  \/ f.dst \notin Hosts
  \/ f.bytes < UdpBytes + AddrBytes
  \/ f.next = TCP

\* Faulty variant: the length of the outer header stays.
UnwrappedOldLength(f) ==
  [kind |-> "ip", src |-> f.sci.srcHost, dst |-> f.sci.dstHost,
   next |-> f.sci.next, plen |-> f.plen,
   bytes |-> f.bytes - (UdpBytes + 4 * f.sci.len),
   under |-> None, sci |-> None, segment |-> f.segment]

\* The frame without underlay and SCION header.
Unwrapped(f) ==
  [kind |-> "ip", src |-> f.sci.srcHost, dst |-> f.sci.dstHost,
   next |-> f.sci.next, plen |-> f.sci.payload,
   bytes |-> f.bytes - (UdpBytes + 4 * f.sci.len),
   under |-> None, sci |-> None, segment |-> f.segment]

\* A frame without SCION header is cut up all the same: addresses, protocol,
\* length and the end of the "header" are bytes of its payload.
Mangled(f) == [f EXCEPT !.next = None, !.plen = None, !.bytes = None]

\* The frames scion_ingress may pass up for f; none if it drops it.
Ingress(f) ==
  IF PassedUp(f) THEN {f}
  ELSE IF f.kind = "ip" THEN {Mangled(f)}
  ELSE IF UdpBytes + 4 * f.sci.len > f.bytes THEN {}
  ELSE {Unwrapped(f)}

----------------------------------------------------------------------------
Init == sent = {} /\ wire = {} /\ received = {}

\* An application sends a packet; the cache holds a path of w words.
Send(p, w) ==
  /\ p.src # p.dst
  /\ Cardinality(sent) < MaxSent
  /\ sent' = sent \union {p}
  /\ wire' = wire \union Egress(Plain(p), Entry(AsOf[p.dst], w))
  /\ UNCHANGED received

Fits(f) == 40 + f.bytes <= Mtu

\* The frame as the last router sends it to the host over the underlay.
Forwarded(f) ==
  [kind |-> f.kind, src |-> Router, dst |-> f.sci.dstHost, next |-> f.next,
   plen |-> f.plen, bytes |-> f.bytes,
   under |-> [sport |-> RouterPort, dport |-> SCION_DISPATCHER_PORT,
              len |-> f.under.len],
   sci |-> f.sci, segment |-> f.segment]

\* The border routers carry a SCION frame to the AS and the host it names.
Forward(f) ==
  /\ f \in wire /\ Fits(f)
  /\ f.dst = Router /\ f.kind = "scion"
  /\ f.sci.whole
  /\ AsOf[f.sci.dstHost] = f.sci.dstAs
  /\ wire' = wire \union {Forwarded(f)}
  /\ UNCHANGED <<sent, received>>

\* A frame for a host reaches it: a translated one from the router, another
\* one only within the AS.
Deliver(f) ==
  /\ f \in wire /\ Fits(f)
  /\ f.dst \in Hosts
  /\ f.kind = "ip" => AsOf[f.src] = AsOf[f.dst]
  /\ received' = received \union {<<f.dst, g>> : g \in Ingress(f)}
  /\ UNCHANGED <<sent, wire>>

\* Frames stay on the wire after delivery, so they may be duplicated and
\* overtaken, and they may be lost.
Lose(f) ==
  /\ f \in wire
  /\ wire' = wire \ {f}
  /\ UNCHANGED <<sent, received>>

Next ==
  \/ \E p \in Packets, w \in PathWords : Send(p, w)
  \/ \E f \in wire : Forward(f)
  \/ \E f \in wire : Deliver(f)
  \/ \E f \in wire : Lose(f)

Spec == Init /\ [][Next]_vars

----------------------------------------------------------------------------
\* All length fields of a frame agree with each other, with the number of
\* bytes behind the IPv6 header and with the path, although five places
\* compute them: pathToMapEntry the header length, scion_egress the growth,
\* the underlay length and the end of the copied path, the application the
\* payload length.
LengthsAgree(f) ==
  /\ f.plen = f.bytes
  /\ f.kind = "ip" => f.bytes = f.segment.len
  /\ f.kind = "scion" =>
       /\ f.under.len = f.bytes
       /\ f.sci.len \in Nat /\ f.sci.len < 256
       /\ f.sci.words \in Nat /\ 4 * f.sci.len = AddrBytes + 4 * f.sci.words
       /\ f.bytes = UdpBytes + 4 * f.sci.len + f.sci.payload
       /\ f.sci.payload = f.segment.len
       /\ f.sci.whole

WireWellFormed == \A f \in wire : LengthsAgree(f)

\* A frame on the wire carries a segment that was sent.  Unless it was left
\* alone by scion_egress its SCION header names the segment's hosts and
\* protocol, and it goes to a border router or to the destination host.
Carries(f, p) ==
  \/ f = Plain(p)
  \/ /\ f.kind = "scion" /\ f.segment = p
     /\ AsOf[p.src] # AsOf[p.dst]
     /\ f.next = UDP /\ f.dst \in {Router, p.dst}
     /\ f.sci.srcHost = p.src /\ f.sci.dstHost = p.dst /\ f.sci.next = p.next

WireFaithful == \A f \in wire : f.segment \in sent /\ Carries(f, f.segment)

\* What host h gets, g, is the packet p as it was sent to h.
AsSent(h, g, p) == g = Plain(p) /\ h = p.dst

\* A packet between two ASes arrives as it was sent: the header fields that
\* scion_egress moves into the SCION header are the ones scion_ingress takes
\* out of it, whichever path and router the packet took.
InterAsFaithful ==
  \A r \in received :
    LET p == r[2].segment
    IN  AsOf[p.src] # AsOf[p.dst] => p \in sent /\ AsSent(r[1], r[2], p)

\* The inductive invariant behind WireWellFormed and InterAsFaithful.
TunnelInv ==
  /\ sent \subseteq Packets
  /\ \A p \in sent : p.src # p.dst
  /\ \A r \in received : r[2].segment \in sent
  /\ WireWellFormed
  /\ WireFaithful
  /\ InterAsFaithful

\* "Do not translate intra-AS traffic" (egress.bpf.c:160, ingress.bpf.c:59): a
\* packet within an AS arrives as it was sent.
IntraAsFaithful ==
  \A r \in received :
    LET p == r[2].segment
    IN  AsOf[p.src] = AsOf[p.dst] => AsSent(r[1], r[2], p)

\* "Check if we can fit the additional header into the packet"
\* (egress.bpf.c:209): what scion_egress lets out fits the link.
OutputFits == \A f \in wire : Fits(f)

\* What arrived at r[1]: a packet as it was sent to that host, or else None,
\* which is no packet.
Arrived(r) == IF AsSent(r[1], r[2], r[2].segment) THEN r[2].segment ELSE None

\* IP as the applications see it, between hosts of different ASes.
InterAs(p) == AsOf[p.src] # AsOf[p.dst]
Ip == INSTANCE IpService WITH
  sent <- {p \in sent : InterAs(p)},
  received <- {Arrived(r) : r \in {q \in received : InterAs(q[2].segment)}}

\* Between hosts of different ASes the two programs together implement plain
\* IP: what arrives was sent, unchanged, to the host where it arrives.
ImplementsIpService == Ip!Spec
=============================================================================
