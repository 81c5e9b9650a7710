---------------------------- MODULE Tunnel_proofs ----------------------------
(***************************************************************************)
(* Proofs about Tunnel for any hosts, ASes, packet lengths and MTU, and    *)
(* for every length of path that a SCION header can hold.                  *)
(***************************************************************************)
EXTENDS Tunnel, TLAPS

\* The header length pathToMapEntry computes is the length of the address
\* headers and the path, in the 8 bits of the field.
LEMMA EntryLength ==
  ASSUME NEW as, NEW w \in PathWords
  PROVE  /\ Entry(as, w).words = w /\ w \in Nat /\ w <= 240
         /\ Entry(as, w).len = 15 + w
<1>1. w \in Nat /\ w <= 240
  BY TunnelAssumption
<1>2. (60 + 4 * w) \div 4 = 15 + w /\ (15 + w) % 256 = 15 + w /\ w % 256 = w
  BY <1>1
<1>3. Entry(as, w).words = U8(w) /\ Entry(as, w).len = U8((60 + 4 * w) \div 4)
  BY DEF Entry, AddrBytes
<1> QED
  BY <1>1, <1>2, <1>3 DEF U8

\* scion_egress makes a well-formed frame of every packet it rewrites: the
\* path is copied to its last word because at least a UDP header follows it.
LEMMA RewrittenWellFormed ==
  ASSUME NEW p \in Packets, NEW w \in PathWords, ~Untouched(Plain(p))
  PROVE  LET f == Rewritten(Plain(p), Entry(AsOf[p.dst], w))
         IN  /\ LengthsAgree(f) /\ f.segment = p /\ Carries(f, p)
<1> DEFINE e == Entry(AsOf[p.dst], w)
           f == Rewritten(Plain(p), e)
<1>1. p.len >= UdpBytes /\ AsOf[p.src] # AsOf[p.dst]
  <2>1. p.len \in Nat
    BY TunnelAssumption DEF Packets
  <2> QED
    BY <2>1 DEF Untouched, Plain, UdpBytes
<1>0. p.len \in Nat /\ p.len + 40 <= 64000
  <2>1. p.len \in Lengths
    BY DEF Packets
  <2>2. p.len \in Nat /\ p.len + 40 <= Mtu /\ Mtu \in Nat /\ Mtu <= 64000
    BY <2>1, TunnelAssumption
  <2> QED
    BY <2>2
<1>2. e.words = w /\ w \in Nat /\ w <= 240 /\ e.len = 15 + w /\ e.router = Router
  BY EntryLength DEF Entry
<1> HIDE DEF e
<1>3. /\ f.kind = "scion" /\ f.segment = p /\ f.next = UDP /\ f.dst = Router
      /\ f.bytes = p.len + 8 + 4 * e.len
      /\ f.sci = ScionHeader(Plain(p), e, p.len + 8 + 4 * e.len)
      /\ f.plen = UnderlayLength(f.sci) /\ f.under.len = UnderlayLength(f.sci)
  BY <1>2 DEF Rewritten, Plain, UdpBytes
<1>4. /\ f.sci.len = e.len /\ f.sci.payload = p.len /\ f.sci.words = e.words
      /\ f.sci.srcHost = p.src /\ f.sci.dstHost = p.dst /\ f.sci.next = p.next
      /\ f.sci.whole = CopiesWholePath(e, p.len + 8 + 4 * e.len)
  BY <1>3 DEF ScionHeader, Plain
<1>5. UnderlayLength(f.sci) = 8 + 4 * e.len + p.len
  BY <1>0, <1>2, <1>4 DEF UnderlayLength, U16, UdpBytes
<1>6. CopiesWholePath(e, p.len + 8 + 4 * e.len)
  BY <1>0, <1>1, <1>2 DEF CopiesWholePath, UdpBytes, AddrBytes
<1>7. LengthsAgree(f)
  BY <1>0, <1>2, <1>3, <1>4, <1>5, <1>6 DEF LengthsAgree, UdpBytes, AddrBytes
<1>8. Carries(f, p)
  BY <1>1, <1>3, <1>4 DEF Carries
<1> QED
  BY <1>3, <1>7, <1>8 DEF e

\* scion_ingress gives back the packet whose frame it receives, if that was
\* rewritten, and one that was not rewritten did not leave its AS.
LEMMA IngressFaithful ==
  ASSUME TunnelInv, NEW f \in wire, f.dst \in Hosts, NEW g \in Ingress(f),
         f.kind = "ip" => AsOf[f.src] = AsOf[f.dst]
  PROVE  /\ g.segment = f.segment
         /\ AsOf[g.segment.src] # AsOf[g.segment.dst] => AsSent(f.dst, g, g.segment)
<1> DEFINE p == f.segment
<1>1. p \in sent /\ p \in Packets /\ Carries(f, p) /\ LengthsAgree(f)
  BY DEF TunnelInv, WireFaithful, WireWellFormed
<1>2. CASE f = Plain(p)
  <2>1. AsOf[p.src] = AsOf[p.dst]
    BY <1>2 DEF Plain
  <2>2. g = f \/ g = Mangled(f)
    BY <1>2 DEF Ingress, Plain
  <2>3. g.segment = p
    BY <2>2, <1>2 DEF Mangled, Plain
  <2> QED
    BY <2>1, <2>3
<1>3. CASE f # Plain(p)
  <2>1. /\ f.kind = "scion" /\ f.next = UDP /\ f.dst = p.dst
        /\ f.sci.srcHost = p.src /\ f.sci.dstHost = p.dst /\ f.sci.next = p.next
    BY <1>1, <1>3, TunnelAssumption DEF Carries
  <2>2. p.len \in Nat
    <3>1. p.len \in Lengths
      BY <1>1 DEF Packets
    <3> QED
      BY <3>1, TunnelAssumption
  <2>3. /\ f.sci.len \in Nat /\ f.sci.len < 256 /\ f.bytes = 8 + 4 * f.sci.len + p.len
        /\ f.sci.payload = p.len /\ 60 <= 4 * f.sci.len
    BY <1>1, <2>1, <2>2 DEF LengthsAgree, UdpBytes, AddrBytes
  <2>4. ~PassedUp(f)
    BY <2>1, <2>2, <2>3 DEF PassedUp, UDP, TCP, ICMPV6, UdpBytes, AddrBytes
  <2>5. g = Unwrapped(f)
    BY <2>1, <2>4 DEF Ingress
  <2>6. f.bytes - (8 + 4 * f.sci.len) = p.len
    BY <2>2, <2>3
  <2>7. g = Plain(p)
    BY <2>1, <2>3, <2>5, <2>6 DEF Unwrapped, Plain, UdpBytes
  <2> QED
    BY <2>1, <2>7 DEF AsSent, Plain
<1> QED
  BY <1>2, <1>3
----------------------------------------------------------------------------
(***************************************************************************)
(* TunnelInv is inductive: one lemma per action.                           *)
(***************************************************************************)

LEMMA InitInv == Init => TunnelInv
BY DEF Init, TunnelInv, WireWellFormed, WireFaithful, InterAsFaithful

\* A new packet enters the wire as it is or rewritten, or not at all.
LEMMA SendInv ==
  ASSUME TunnelInv, NEW p \in Packets, NEW w \in PathWords, Send(p, w)
  PROVE  TunnelInv'
<1> DEFINE e == Entry(AsOf[p.dst], w)
<1>1. ASSUME NEW f \in Egress(Plain(p), e)
      PROVE  LengthsAgree(f) /\ f.segment = p /\ Carries(f, p)
  <2>1. CASE Untouched(Plain(p))
    <3>1. f = Plain(p)
      BY <1>1, <2>1 DEF Egress
    <3> QED
      BY <3>1 DEF Plain, LengthsAgree, Carries
  <2>2. CASE ~Untouched(Plain(p))
    <3>1. f = Rewritten(Plain(p), e)
      BY <1>1, <2>2 DEF Egress
    <3> QED
      BY <2>2, <3>1, RewrittenWellFormed
  <2> QED
    BY <2>1, <2>2
<1>2. /\ sent' = sent \union {p} /\ p.src # p.dst
      /\ wire' = wire \union Egress(Plain(p), e)
      /\ received' = received
  BY DEF Send
<1> HIDE DEF e
<1>3. WireWellFormed'
  BY <1>1, <1>2 DEF TunnelInv, WireWellFormed
<1>4. WireFaithful'
  BY <1>1, <1>2 DEF TunnelInv, WireFaithful
<1>5. InterAsFaithful'
  BY <1>2 DEF TunnelInv, InterAsFaithful
<1> QED
  BY <1>2, <1>3, <1>4, <1>5 DEF TunnelInv

\* A forwarded frame differs from the one that was sent in the addresses and
\* ports of the underlay only.
LEMMA ForwardInv ==
  ASSUME TunnelInv, NEW f \in wire, Forward(f)
  PROVE  TunnelInv'
<1> DEFINE g == Forwarded(f)
           p == f.segment
<1>1. f.kind = "scion" /\ f.dst = Router
  BY DEF Forward
<1>2. p \in sent /\ p \in Packets /\ Carries(f, p) /\ LengthsAgree(f)
  BY DEF TunnelInv, WireFaithful, WireWellFormed
<1>3. /\ g.kind = "scion" /\ g.segment = p /\ g.next = f.next
      /\ g.plen = f.plen /\ g.bytes = f.bytes /\ g.under.len = f.under.len
      /\ g.sci = f.sci /\ g.dst = f.sci.dstHost
  BY <1>1 DEF Forwarded
<1>4. LengthsAgree(g)
  BY <1>1, <1>2, <1>3 DEF LengthsAgree
<1>5. f # Plain(p)
  BY <1>1 DEF Plain
<1>6. Carries(g, p)
  BY <1>2, <1>3, <1>5 DEF Carries
<1>7. wire' = wire \union {g} /\ UNCHANGED <<sent, received>>
  BY DEF Forward
<1>8. g.segment \in sent
  BY <1>2, <1>3
<1> HIDE DEF g
<1>9. WireWellFormed'
  BY <1>4, <1>7 DEF TunnelInv, WireWellFormed
<1>10. WireFaithful'
  BY <1>3, <1>6, <1>7, <1>8 DEF TunnelInv, WireFaithful
<1>11. InterAsFaithful'
  BY <1>7 DEF TunnelInv, InterAsFaithful
<1> QED
  BY <1>7, <1>9, <1>10, <1>11 DEF TunnelInv

\* Delivery adds what scion_ingress passes up.
LEMMA DeliverInv ==
  ASSUME TunnelInv, NEW f \in wire, Deliver(f)
  PROVE  TunnelInv'
<1>1. f.dst \in Hosts /\ (f.kind = "ip" => AsOf[f.src] = AsOf[f.dst])
  BY DEF Deliver
<1>2. /\ received' = received \union {<<f.dst, g>> : g \in Ingress(f)}
      /\ sent' = sent /\ wire' = wire
  BY DEF Deliver
<1>3. f.segment \in sent
  BY DEF TunnelInv, WireFaithful
<1>4. ASSUME NEW r \in received', r \notin received
      PROVE  /\ r[2].segment \in sent
             /\ AsOf[r[2].segment.src] # AsOf[r[2].segment.dst] =>
                  AsSent(r[1], r[2], r[2].segment)
  <2>1. PICK g \in Ingress(f) : r = <<f.dst, g>>
    BY <1>2, <1>4
  <2> QED
    BY <1>1, <1>3, <2>1, IngressFaithful
<1>5. \A r \in received' : r[2].segment \in sent'
  BY <1>2, <1>4 DEF TunnelInv
<1>6. InterAsFaithful'
  BY <1>2, <1>4 DEF TunnelInv, InterAsFaithful
<1> QED
  BY <1>2, <1>5, <1>6 DEF TunnelInv, WireWellFormed, WireFaithful

LEMMA LoseInv ==
  ASSUME TunnelInv, NEW f \in wire, Lose(f)
  PROVE  TunnelInv'
<1>1. wire' \subseteq wire /\ UNCHANGED <<sent, received>>
  BY DEF Lose
<1> QED
  BY <1>1 DEF TunnelInv, WireWellFormed, WireFaithful, InterAsFaithful

\* The frames between the hosts are well-formed and carry packets that were
\* sent, whatever is lost, duplicated or overtaken.
THEOREM TunnelInvariance == Spec => []TunnelInv
<1>1. TunnelInv /\ [Next]_vars => TunnelInv'
  <2> SUFFICES ASSUME TunnelInv, [Next]_vars PROVE TunnelInv'
    OBVIOUS
  <2>1. CASE UNCHANGED vars
    BY <2>1 DEF vars, TunnelInv, WireWellFormed, WireFaithful, InterAsFaithful
  <2>2. ASSUME NEW p \in Packets, NEW w \in PathWords, Send(p, w)
        PROVE  TunnelInv'
    BY <2>2, SendInv
  <2>3. ASSUME NEW f \in wire, Forward(f) PROVE TunnelInv'
    BY <2>3, ForwardInv
  <2>4. ASSUME NEW f \in wire, Deliver(f) PROVE TunnelInv'
    BY <2>4, DeliverInv
  <2>5. ASSUME NEW f \in wire, Lose(f) PROVE TunnelInv'
    BY <2>5, LoseInv
  <2> QED
    BY <2>1, <2>2, <2>3, <2>4, <2>5 DEF Next
<1> QED
  BY <1>1, InitInv, PTL DEF Spec

\* All length fields of every frame agree, for every length of packet and
\* path (pathToMapEntry, scion_egress).
THEOREM FramesWellFormed == Spec => []WireWellFormed
<1>1. TunnelInv => WireWellFormed
  BY DEF TunnelInv
<1> QED
  BY <1>1, TunnelInvariance, PTL

\* A packet between two ASes arrives as it was sent (scion_egress,
\* scion_ingress).
THEOREM InterAsDelivery == Spec => []InterAsFaithful
<1>1. TunnelInv => InterAsFaithful
  BY DEF TunnelInv
<1> QED
  BY <1>1, TunnelInvariance, PTL

----------------------------------------------------------------------------
\* The packet of a frame that is delivered arrives, if it comes from another
\* AS and scion_ingress does not drop the frame.
LEMMA DeliverMaps ==
  ASSUME TunnelInv, NEW f \in wire, Deliver(f), NEW g \in Ingress(f), InterAs(f.segment)
  PROVE  InterAs(g.segment) /\ Arrived(<<f.dst, g>>) = f.segment
<1>1. g.segment = f.segment /\ AsSent(f.dst, g, g.segment)
  BY IngressFaithful DEF Deliver, InterAs
<1> QED
  BY <1>1 DEF Arrived

\* Between hosts of different ASes scion_egress, the SCION network and
\* scion_ingress together implement plain IP.
THEOREM TunnelIsIp == Spec => ImplementsIpService
<1> DEFINE out == {p \in sent : InterAs(p)}
           fromAfar == {q \in received : InterAs(q[2].segment)}
           up == {Arrived(r) : r \in fromAfar}
<1>1. Init => Ip!Init
  BY DEF Init, Ip!Init
<1>2. TunnelInv /\ [Next]_vars => [Ip!Next]_<<out, up>>
  <2> SUFFICES ASSUME TunnelInv, [Next]_vars
               PROVE  [Ip!Next]_<<out, up>>
    OBVIOUS
  <2>1. ASSUME fromAfar' = fromAfar PROVE up' = up
    BY <2>1 DEF Arrived
  <2>2. ASSUME sent' = sent, received' = received PROVE UNCHANGED <<out, up>>
    BY <2>1, <2>2
  <2>3. CASE UNCHANGED vars
    BY <2>2, <2>3 DEF vars
  <2>4. ASSUME NEW p \in Packets, NEW w \in PathWords, Send(p, w)
        PROVE  [Ip!Next]_<<out, up>>
    <3>1. sent' = sent \union {p} /\ up' = up
      BY <2>1, <2>4 DEF Send
    <3>2. CASE InterAs(p)
      <4>1. out' = out \union {p}
        BY <3>1, <3>2
      <4>2. Ip!Send(p)
        BY <3>1, <4>1 DEF Ip!Send
      <4> QED
        BY <4>2 DEF Ip!Next
    <3>3. CASE ~InterAs(p)
      BY <3>1, <3>3
    <3> QED
      BY <3>2, <3>3
  <2>5. ASSUME NEW f \in wire, Forward(f) \/ Lose(f)
        PROVE  UNCHANGED <<out, up>>
    BY <2>2, <2>5 DEF Forward, Lose
  <2>6. ASSUME NEW f \in wire, Deliver(f)
        PROVE  [Ip!Next]_<<out, up>>
    <3> DEFINE p == f.segment
               new == {<<f.dst, g>> : g \in Ingress(f)}
    <3>1. p \in sent /\ p \in Packets
      BY DEF TunnelInv, WireFaithful
    <3>2. received' = received \union new /\ sent' = sent
      BY <2>6 DEF Deliver
    <3>3. CASE ~InterAs(p) \/ Ingress(f) = {}
      <4>1. \A r \in new : ~InterAs(r[2].segment)
        BY <2>6, <3>3, IngressFaithful DEF Deliver
      <4>2. fromAfar' = fromAfar
        BY <3>2, <4>1
      <4> QED
        BY <2>1, <3>2, <4>2
    <3>4. CASE InterAs(p) /\ Ingress(f) # {}
      <4>1. \A r \in new : InterAs(r[2].segment) /\ Arrived(r) = p
        BY <2>6, <3>4, DeliverMaps
      <4>2. fromAfar' = fromAfar \union new
        BY <3>2, <4>1
      <4>3. up' = {Arrived(r) : r \in fromAfar'}
        BY DEF Arrived
      <4>4. new # {}
        BY <3>4
      <4>5. up' = up \union {p}
        BY <4>1, <4>2, <4>3, <4>4
      <4>6. p \in out /\ out' = out
        BY <3>1, <3>2, <3>4
      <4>7. Ip!Receive(p)
        BY <4>5, <4>6 DEF Ip!Receive
      <4> QED
        BY <3>1, <4>7 DEF Ip!Next
    <3> QED
      BY <3>3, <3>4
  <2> QED
    BY <2>3, <2>4, <2>5, <2>6 DEF Next
<1> QED
  BY <1>1, <1>2, TunnelInvariance, PTL DEF Spec, ImplementsIpService, Ip!Spec
=============================================================================
