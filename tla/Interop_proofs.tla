---------------------------- MODULE Interop_proofs ----------------------------
(***************************************************************************)
(* The two translators understand each other, for any number of hosts and  *)
(* ASes, any addresses that scion2ip makes, and any number of packets.     *)
(***************************************************************************)
EXTENDS Interop, AddressMapping_proofs

(***************************************************************************)
(* Addresses                                                               *)
(***************************************************************************)

\* The ISD-AS of an address, whichever way it is looked at.
LEMMA IaOfIs ==
  ASSUME NEW a
  PROVE  IaOf(a) = [isd |-> IsdOf(a), asn |-> Decoded(EncodedOf(a))]
  BY DEF IaOf, UnmapIpv6

LEMMA HostOfMapped ==
  ASSUME NEW a, LooksMapped(InterfaceOf(a)), LocalOf(a) = 0
  PROVE  HostOf(a) = V4(<<a[7], a[8]>>)
<1>1. UnmapIpv6(a).ip4 = (LooksMapped(InterfaceOf(a)) /\ LocalOf(a) = 0)
  BY DEF UnmapIpv6
<1>2. UnmapIpv6(a).ip4
  BY <1>1, Zenon
<1> QED
  BY <1>2, Zenon DEF HostOf

\* The address scitun.py makes for an IPv4 host stands for that host.
LEMMA MapUnmap ==
  ASSUME NEW isd \in Nat, isd < 4096, NEW asn \in AsNumber, Encodable(asn), NEW ip4 \in Ipv4
  PROVE  LET a == MapIpv4(isd, asn, ip4)
         IN  /\ a \in Address /\ InScionNetwork(a)
             /\ IaOf(a) = [isd |-> isd, asn |-> asn]
             /\ HostOf(a) = V4(ip4)
<1> DEFINE x == Mapped4(ip4)
           e == Encoded(asn)
           a == Upper(isd, e, 0) \o x
           fits == isd < 4096 /\ Encodable(asn)
<1>1. MapIpv4(isd, asn, ip4) = IF fits THEN a ELSE Error
  BY DEF MapIpv4
<1>2. fits
  OBVIOUS
<1>3. x \in Interface /\ LooksMapped(x) /\ ip4 = <<x[3], x[4]>>
  BY MappedIpv4
<1>4. e \in Nat /\ e < 1048576 /\ Decoded(e) = asn
  BY DecodedEncoded
<1>5. 0 \in Nat /\ 0 < 16777216
  OBVIOUS
<1> HIDE DEF fits, x, e, a
<1>6. MapIpv4(isd, asn, ip4) = a
  BY <1>1, <1>2
<1>7. /\ a \in Address /\ InScionNetwork(a)
      /\ IsdOf(a) = isd /\ EncodedOf(a) = e /\ LocalOf(a) = 0 /\ InterfaceOf(a) = x
  BY <1>3, <1>4, <1>5, UpperFields DEF a
<1>8. IaOf(a) = [isd |-> isd, asn |-> asn]
  BY <1>4, <1>7, IaOfIs
<1>9. HostOf(a) = V4(ip4)
  <2>1. a[7] = x[3] /\ a[8] = x[4]
    BY <1>7 DEF InterfaceOf
  <2>2. HostOf(a) = V4(<<a[7], a[8]>>)
    BY <1>3, <1>7, HostOfMapped
  <2> QED
    BY <1>3, <2>1, <2>2
<1> QED
  BY <1>6, <1>7, <1>8, <1>9

\* The address of a host, and what it stands for.
HasAddress(h) ==
  /\ TunIp(h) \in Address /\ InScionNetwork(TunIp(h))
  /\ IaOf(TunIp(h)) = Ia[h] /\ HostOf(TunIp(h)) = HostIp[h]
  /\ Ia[h].asn \in AsNumber /\ Encodable(Ia[h].asn)
  /\ \/ /\ h \in PythonHosts /\ HostIp[h] = V4(HostIp[h].ip) /\ HostIp[h].ip \in Ipv4
        /\ TunIp(h) = MapIpv4(Ia[h].isd, Ia[h].asn, HostIp[h].ip)
     \/ HostIp[h] = V6(TunIp(h))

LEMMA HostAddress ==
  ASSUME NEW h \in Hosts
  PROVE  HasAddress(h)
<1> DEFINE ip == HostIp[h].ip
           ia == Ia[h]
<1>1. /\ ia.isd \in Nat /\ ia.isd < 4096 /\ ia.asn \in AsNumber /\ Encodable(ia.asn)
      /\ ia = [isd |-> ia.isd, asn |-> ia.asn]
      /\ \/ h \in PythonHosts /\ HostIp[h] = V4(ip) /\ ip \in Ipv4
         \/ /\ HostIp[h] = V6(ip) /\ ip \in Address /\ InScionNetwork(ip)
            /\ IaOf(ip) = ia /\ HostOf(ip) = V6(ip)
  BY HostAssumption
<1>2. CASE h \in PythonHosts /\ HostIp[h] = V4(ip) /\ ip \in Ipv4
  <2>1. TunIp(h) = MapIpv4(ia.isd, ia.asn, ip)
    BY <1>2 DEF TunIp, V4
  <2>2. LET a == MapIpv4(ia.isd, ia.asn, ip)
        IN  /\ a \in Address /\ InScionNetwork(a)
            /\ IaOf(a) = [isd |-> ia.isd, asn |-> ia.asn]
            /\ HostOf(a) = V4(ip)
    BY <1>1, <1>2, MapUnmap
  <2> QED
    BY <1>1, <1>2, <2>1, <2>2 DEF HasAddress
<1>3. CASE /\ HostIp[h] = V6(ip) /\ ip \in Address /\ InScionNetwork(ip)
           /\ IaOf(ip) = ia /\ HostOf(ip) = V6(ip)
  <2>1. TunIp(h) = ip
    BY <1>3 DEF TunIp, V6
  <2> QED
    BY <1>1, <1>3, <2>1 DEF HasAddress
<1> QED
  BY <1>1, <1>2, <1>3

\* Hosts whose addresses have the same key are in the same AS.
LEMMA KeyOfHosts ==
  ASSUME NEW g \in Hosts, NEW h \in Hosts, ScionAddr(TunIp(g)) = ScionAddr(TunIp(h))
  PROVE  Ia[g] = Ia[h]
<1> DEFINE a == TunIp(g)
           b == TunIp(h)
<1>1. a \in Address /\ b \in Address /\ IaOf(a) = Ia[g] /\ IaOf(b) = Ia[h]
  BY HostAddress DEF HasAddress
<1> HIDE DEF a, b
<1>2. IsdOf(a) = IsdOf(b) /\ EncodedOf(a) = EncodedOf(b)
  <2> DEFINE e == EncodedOf(a)
             f == EncodedOf(b)
  <2>1. /\ ScionAddr(a) = <<IsdOf(a) * 16 + e \div 65536, e % 65536>>
        /\ ScionAddr(a)[1] \div 16 = IsdOf(a) /\ ScionAddr(a)[1] % 16 = e \div 65536
        /\ e \in Nat
    BY <1>1, KeyOfAddress
  <2>2. /\ ScionAddr(b) = <<IsdOf(b) * 16 + f \div 65536, f % 65536>>
        /\ ScionAddr(b)[1] \div 16 = IsdOf(b) /\ ScionAddr(b)[1] % 16 = f \div 65536
        /\ f \in Nat
    BY <1>1, KeyOfAddress
  <2>3. ScionAddr(a) = ScionAddr(b)
    BY DEF a, b
  <2>4. IsdOf(a) = IsdOf(b) /\ e \div 65536 = f \div 65536 /\ e % 65536 = f % 65536
    BY <2>1, <2>2, <2>3
  <2> HIDE DEF e, f
  <2>5. e = (e \div 65536) * 65536 + (e % 65536) /\ f = (f \div 65536) * 65536 + (f % 65536)
    BY <2>1, <2>2
  <2>6. e = f
    BY <2>4, <2>5
  <2> QED
    BY <2>4, <2>6 DEF e, f
<1> QED
  BY <1>1, <1>2, IaOfIs

\* The AS PathService asks for.
LEMMA QueriedHost ==
  ASSUME NEW h \in Hosts
  PROVE  QueriedIa(ScionAddr(TunIp(h))) = IF Ia[h].asn[1] = 2 THEN Misread(Ia[h]) ELSE Ia[h]
<1> DEFINE a == TunIp(h)
           n == Ia[h].asn
<1>1. a \in Address /\ n \in AsNumber /\ Encodable(n) /\ IaOf(a) = Ia[h]
  BY HostAddress DEF HasAddress
<1>2. n = Decoded(EncodedOf(a)) /\ Ia[h] = [isd |-> IsdOf(a), asn |-> n]
  BY <1>1, IaOfIs
<1> HIDE DEF a
<1> DEFINE q == QueriedIa(ScionAddr(a))
<1>3. /\ q.isd = IsdOf(a)
      /\ n[1] = 0 => q = [isd |-> IsdOf(a), asn |-> n]
      /\ n[1] = 2 => q.asn = <<0, n[2] + 8, n[3]>>
  BY <1>1, <1>2, QueriedOfAddress
<1>4. q = [isd |-> q.isd, asn |-> q.asn]
  BY DEF QueriedIa
<1>5. n[1] \in {0, 2}
  BY <1>1 DEF Encodable
<1> HIDE DEF q, n
<1>6. CASE n[1] = 2
  <2>1. q = [isd |-> IsdOf(a), asn |-> <<0, n[2] + 8, n[3]>>]
    BY <1>3, <1>4, <1>6
  <2>2. q = Misread(Ia[h])
    BY <1>2, <2>1 DEF Misread
  <2> QED
    BY <1>6, <2>2 DEF a, q, n
<1>7. CASE n[1] = 0
  <2>1. q = Ia[h] /\ n[1] # 2
    BY <1>2, <1>3, <1>7
  <2> QED
    BY <2>1 DEF a, q, n
<1> QED
  BY <1>5, <1>6, <1>7

\* No host has the address of another: neither the same in its AS, nor the
\* other's SCION-mapped one as its own.
LEMMA OneHost ==
  ASSUME NEW g \in Hosts, NEW h \in Hosts, HostIp[h] = V6(TunIp(g))
  PROVE  g = h
<1>1. TunIp(h) = TunIp(g)
  <2>1. HasAddress(h)
    BY HostAddress
  <2>2. CASE HostIp[h] = V4(HostIp[h].ip)
    BY <2>2 DEF V4, V6
  <2>3. CASE HostIp[h] = V6(TunIp(h))
    BY <2>3 DEF V6
  <2> QED
    BY <2>1, <2>2, <2>3 DEF HasAddress
<1>2. Ia[g] = Ia[h] /\ HostIp[g] = HostIp[h]
  BY <1>1, HostAddress DEF HasAddress
<1> QED
  BY <1>2, HostAssumption

LEMMA NotEmpty ==
  ASSUME NEW h \in Hosts
  PROVE  HostIp[h].ip # <<>> /\ TunIp(h) # Error
<1>1. TunIp(h) # Error
  BY HostAddress, Groups DEF HasAddress
<1>2. CASE HostIp[h].ip \in Ipv4
  <2>1. Len(HostIp[h].ip) = 2
    BY <1>2 DEF Ipv4
  <2> QED
    BY <1>1, <2>1
<1>3. CASE HostIp[h] = V6(TunIp(h))
  BY <1>1, <1>3 DEF V6, Error
<1> QED
  BY <1>2, <1>3, HostAddress DEF HasAddress

(***************************************************************************)
(* The header                                                              *)
(***************************************************************************)

Lengths == {Bytes4, Bytes16}

\* The types and lengths of the addresses are read as they were written.
LEMMA HaddrRead ==
  ASSUME NEW dl \in Lengths, NEW sl \in Lengths
  PROVE  /\ GetHaddr(Haddr(dl, sl), 0) = sl /\ GetHaddr(Haddr(dl, sl), 4) = dl
         /\ GetHaddr(Haddr(dl, sl), 2) = IP /\ GetHaddr(Haddr(dl, sl), 6) = IP
<1> DEFINE b == {i + 4 : i \in dl} \union sl
<1>1. Haddr(dl, sl) = b
  BY DEF Haddr, SetHaddr, Clear, Lengths, Bytes4, Bytes16, IP
<1>2. GetHaddr(b, 0) = sl
  BY DEF GetHaddr, Lengths, Bytes4, Bytes16
<1>3. GetHaddr(b, 4) = dl
  BY DEF GetHaddr, Lengths, Bytes4, Bytes16
<1>4. GetHaddr(b, 2) = {} /\ GetHaddr(b, 6) = {}
  BY DEF GetHaddr, Lengths, Bytes4, Bytes16
<1> HIDE DEF b
<1> QED
  BY <1>1, <1>2, <1>3, <1>4 DEF IP

\* Values of 32 bits are equal if their bits are.
LEMMA SameBits ==
  ASSUME NEW x \in SUBSET (0..31), NEW y \in SUBSET (0..31),
         \A i \in 0..31 : i \in x <=> i \in y
  PROVE  x = y
  OBVIOUS

\* A flow label in three parts.
LEMMA LabelParts ==
  ASSUME NEW l \in SUBSET (0..19), NEW high,
         \A i \in 0..31 : i \in high <=> i \in 16..19 /\ i \in l,
         high \in SUBSET (0..31)
  PROVE  high \union Shl(Low(Shr(l, 8), 8), 8) \union Low(l, 8) = l
<1> DEFINE x == Shl(Low(Shr(l, 8), 8), 8)
           y == Low(l, 8)
<1>1. high \union x \union y \in SUBSET (0..31) /\ l \in SUBSET (0..31)
  <2>1. l \in SUBSET (0..31)
    OBVIOUS
  <2>2. x \in SUBSET (0..31)
    BY DEF Shl
  <2>3. y \in SUBSET (0..31)
    BY <2>1 DEF Low
  <2> QED
    BY <2>1, <2>2, <2>3
<1>2. ASSUME NEW i \in 0..31
      PROVE  i \in x <=> i \in 8..15 /\ i \in l
  BY DEF Shl, Shr, Low
<1>3. ASSUME NEW i \in 0..31
      PROVE  i \in y <=> i \in 0..7 /\ i \in l
  BY DEF Low
<1> HIDE DEF x, y
<1>4. \A i \in 0..31 : i \in high \union x \union y <=> i \in l
  BY <1>2, <1>3
<1>5. high \union x \union y = l
  BY <1>1, <1>4, SameBits
<1> QED
  BY <1>5 DEF x, y

\* The IPv6 header's fields.
LEMMA IpFields ==
  ASSUME NEW c \in SUBSET (0..7), NEW l \in SUBSET (0..19)
  PROVE  TrafficClass(IpHeader(c, l)) = c /\ FlowLabel(IpHeader(c, l)) = l
<1> DEFINE h == IpHeader(c, l)
<1>1. /\ h.priority = Low(Shr(c, 4), 4)
      /\ h.flow_lbl[1] = Shl(Low(c, 4), 4) \union Shr(l, 16)
      /\ h.flow_lbl[2] = Low(Shr(l, 8), 8) /\ h.flow_lbl[3] = Low(l, 8)
  BY DEF IpHeader
<1>2. Shl(Low(Shr(c, 4), 4), 4) \union Shr(Shl(Low(c, 4), 4) \union Shr(l, 16), 4) = c
  <2> DEFINE x == Shl(Low(Shr(c, 4), 4), 4)
             y == Shr(Shl(Low(c, 4), 4) \union Shr(l, 16), 4)
  <2>1. x \union y \in SUBSET (0..31) /\ c \in SUBSET (0..31)
    BY DEF Shl, Shr
  <2>2. ASSUME NEW i \in 0..31
        PROVE  i \in x <=> i \in 4..7 /\ i \in c
    BY DEF Shl, Shr, Low
  <2>3. ASSUME NEW i \in 0..31
        PROVE  i \in y <=> i \in 0..3 /\ i \in c
    BY DEF Shl, Shr, Low
  <2> HIDE DEF x, y
  <2>4. \A i \in 0..31 : i \in x \union y <=> i \in c
    BY <2>2, <2>3
  <2>5. x \union y = c
    BY <2>1, <2>4, SameBits
  <2> QED
    BY <2>5 DEF x, y
<1>3. Shl(Low(Shl(Low(c, 4), 4) \union Shr(l, 16), 4), 16)
        \union Shl(Low(Shr(l, 8), 8), 8) \union Low(l, 8) = l
  <2> DEFINE high == Shl(Low(Shl(Low(c, 4), 4) \union Shr(l, 16), 4), 16)
  <2>1. ASSUME NEW i \in 0..31
        PROVE  i \in high <=> i \in 16..19 /\ i \in l
    BY DEF Shl, Shr, Low
  <2>2. high \in SUBSET (0..31)
    BY DEF Shl
  <2> HIDE DEF high
  <2>3. high \union Shl(Low(Shr(l, 8), 8), 8) \union Low(l, 8) = l
    BY <2>1, <2>2, LabelParts
  <2> QED
    BY <2>3 DEF high
<1> HIDE DEF h
<1>4. TrafficClass(h) = c /\ FlowLabel(h) = l
  BY <1>1, <1>2, <1>3 DEF TrafficClass, FlowLabel
<1> QED
  BY <1>4 DEF h

\* The word of a packet that arrives in network order, on either machine.
LEMMA WordOf ==
  ASSUME NEW c \in SUBSET (0..7), NEW l \in SUBSET (0..19), NEW little \in BOOLEAN
  PROVE  Htonl(Word(IpHeader(c, l), {}, little), little) =
           IF little THEN l ELSE Shl(c, 20) \union l
<1> DEFINE w == Word(IpHeader(c, l), {}, little)
<1>1. w = SetFlow(SetQos(SetVer({}, {}, little), c, little), l, little)
  BY IpFields DEF Word
<1>2. CASE little
  <2>1. Htonl({}, TRUE) = {} /\ SetVer({}, {}, TRUE) = {}
    BY DEF SetVer, Clear, Shl, Htonl
  <2>2. \A i \in Htonl(c, TRUE) : i \in 24..31
    BY DEF Htonl
  <2>3. Shl(Htonl(c, TRUE), 20) = {}
    <3>1. ASSUME NEW i \in 0..31, i - 20 \in Htonl(c, TRUE)
          PROVE  FALSE
      <4>1. i - 20 \in 24..31
        BY <2>2, <3>1
      <4> QED
        BY <4>1
    <3> QED
      BY <3>1 DEF Shl
  <2>4. SetQos({}, c, TRUE) = {}
    BY <2>3 DEF SetQos, Clear
  <2>5. w = Htonl(l, TRUE)
    BY <1>1, <1>2, <2>1, <2>4 DEF SetFlow, Clear
  <2>6. \A i \in 0..19 : LET j == 8 * (3 - (i \div 8)) + (i % 8)
                         IN  8 * (3 - (j \div 8)) + (j % 8) = i
    OBVIOUS
  <2>7. Htonl(Htonl(l, TRUE), TRUE) = l
    <3> DEFINE Turned(i) == 8 * (3 - (i \div 8)) + (i % 8)
               t == Htonl(l, TRUE)
    <3>1. t = {Turned(i) : i \in l} /\ Htonl(t, TRUE) = {Turned(j) : j \in t}
      BY DEF Htonl
    <3>2. \A i \in l : Turned(Turned(i)) = i
      BY <2>6
    <3> HIDE DEF Turned, t
    <3>3. ASSUME NEW i \in l
          PROVE  i \in Htonl(t, TRUE)
      <4>1. Turned(i) \in t
        BY <3>1
      <4> QED
        BY <3>1, <3>2, <4>1
    <3>4. ASSUME NEW k \in Htonl(t, TRUE)
          PROVE  k \in l
      <4>1. PICK j \in t : k = Turned(j)
        BY <3>1
      <4>2. PICK i \in l : j = Turned(i)
        BY <3>1
      <4> QED
        BY <3>2, <4>1, <4>2
    <3>5. Htonl(t, TRUE) = l
      BY <3>3, <3>4
    <3> QED
      BY <3>5 DEF t
  <2> QED
    BY <1>2, <2>5, <2>7
<1>3. CASE ~little
  <2>1. SetVer({}, {}, FALSE) = {}
    BY DEF SetVer, Clear, Shl, Htonl
  <2>2. SetQos({}, c, FALSE) = Shl(c, 20)
    BY DEF SetQos, Clear, Htonl
  <2>3. SetFlow(Shl(c, 20), l, FALSE) = Shl(c, 20) \union l
    <3>1. Clear(Shl(c, 20), 0, 20) = Shl(c, 20)
      BY DEF Clear, Shl
    <3> QED
      BY <3>1 DEF SetFlow, Htonl
  <2> QED
    BY <1>1, <1>3, <2>1, <2>2, <2>3 DEF Htonl
<1> QED
  BY <1>2, <1>3

\* What a router reads of it.
LEMMA WordRead ==
  ASSUME NEW c \in SUBSET (0..7), NEW l \in SUBSET (0..19), NEW little \in BOOLEAN
  PROVE  LET w == Htonl(Word(IpHeader(c, l), {}, little), little)
         IN  /\ GetVer(w, FALSE) = {} /\ GetFlow(w, FALSE) = l
             /\ ~little => GetQos(w, FALSE) = c
<1> DEFINE w == Htonl(Word(IpHeader(c, l), {}, little), little)
<1>1. w = IF little THEN l ELSE Shl(c, 20) \union l
  BY WordOf
<1> HIDE DEF w
<1> DEFINE v == Shl(c, 20) \union l
<1>2. GetVer(l, FALSE) = {} /\ GetFlow(l, FALSE) = l
  <2>1. ASSUME NEW i \in 0..31, i + 28 \in l
        PROVE  FALSE
    BY <2>1
  <2>2. Shr(l, 28) = {}
    BY <2>1 DEF Shr
  <2>3. l \subseteq 0..(20 - 1)
    OBVIOUS
  <2>4. Low(l, 20) = l
    BY <2>3 DEF Low
  <2> QED
    BY <2>2, <2>4 DEF GetVer, GetFlow, Htonl
<1>3. Shr(v, 28) = {}
  BY DEF Shr, Shl
<1>4. Low(v, 20) = l
  <2>0. l \subseteq 0..(20 - 1)
    OBVIOUS
  <2>1. \A i \in v : i \in 20..31 \/ i \in l
    BY DEF Shl
  <2>2. l \subseteq v
    OBVIOUS
  <2> HIDE DEF v
  <2> QED
    <3>1. ASSUME NEW i \in v, i \in 0..(20 - 1)
          PROVE  i \in l
      <4>1. i \notin 20..31
        BY <3>1
      <4> QED
        BY <2>1, <4>1
    <3>2. l \subseteq Low(v, 20)
      BY <2>0, <2>2 DEF Low
    <3> QED
      BY <3>1, <3>2 DEF Low
<1>5. Low(Shr(v, 20), 8) = c
  <2>1. c \in SUBSET (0..31) /\ Low(Shr(v, 20), 8) \in SUBSET (0..31)
    <3>1. Shr(v, 20) \in SUBSET (0..31)
      BY DEF Shr
    <3> HIDE DEF v
    <3> QED
      BY <3>1 DEF Low
  <2>2. ASSUME NEW i \in 0..31
        PROVE  i \in Low(Shr(v, 20), 8) <=> i \in c
    BY DEF Shr, Shl, Low
  <2> QED
    BY <2>1, <2>2, SameBits
<1>6. GetVer(v, FALSE) = {} /\ GetFlow(v, FALSE) = l /\ GetQos(v, FALSE) = c
  BY <1>3, <1>4, <1>5 DEF GetVer, GetFlow, GetQos, Htonl
<1> QED
  BY <1>1, <1>2, <1>6 DEF w

\* What scion_ingress makes of it on a big-endian machine, in a header that
\* arrived with class d and label m: the upper four bits are or-ed.
LEMMA LabelRestored ==
  ASSUME NEW c \in SUBSET (0..7), NEW l \in SUBSET (0..19),
         NEW d \in SUBSET (0..7), NEW m \in SUBSET (0..19)
  PROVE  FlowLabel(Restored(IpHeader(d, m), Shl(c, 20) \union l))
           = l \union (m \intersect (16..19))
<1> DEFINE w == Shl(c, 20) \union l
           first == Shl(Low(d, 4), 4) \union Shr(m, 16)
           h == Restored(IpHeader(d, m), w)
           both == l \union (m \intersect (16..19))
<1>1. /\ h.flow_lbl[1] = first \union Low(Shr(w, 16), 4)
      /\ h.flow_lbl[2] = Low(Shr(w, 8), 8) /\ h.flow_lbl[3] = Low(w, 8)
  BY DEF Restored, IpHeader
<1>2. both \in SUBSET (0..19)
  OBVIOUS
<1>3. Low(w, 8) = Low(both, 8)
  BY DEF Shl, Low
<1>4. Low(Shr(w, 8), 8) = Low(Shr(both, 8), 8)
  BY DEF Shl, Shr, Low
<1> DEFINE high == Shl(Low(first \union Low(Shr(w, 16), 4), 4), 16)
<1>5. ASSUME NEW i \in 0..31
      PROVE  i \in high <=> i \in 16..19 /\ i \in both
  BY DEF Shl, Shr, Low
<1>6. high \in SUBSET (0..31)
  BY DEF Shl
<1>7. FlowLabel(h) = high \union Shl(Low(Shr(w, 8), 8), 8) \union Low(w, 8)
  <2>1. FlowLabel(h) =
          Shl(Low(h.flow_lbl[1], 4), 16) \union Shl(h.flow_lbl[2], 8) \union h.flow_lbl[3]
    BY DEF FlowLabel
  <2> HIDE DEF h, w, first
  <2> QED
    BY <1>1, <2>1
<1> HIDE DEF high, w, both, h, first
<1>8. high \union Shl(Low(Shr(both, 8), 8), 8) \union Low(both, 8) = both
  BY <1>2, <1>5, <1>6, LabelParts
<1>9. FlowLabel(h) = both
  BY <1>3, <1>4, <1>7, <1>8
<1> QED
  BY <1>9 DEF h, w, both

(***************************************************************************)
(* Frames                                                                  *)
(***************************************************************************)

\* f stands for p, where the translator put it or where the routers did.
Traced(f, p) == Emitted(f, p) \/ \E g : g.kind = "scion" /\ Emitted(g, p) /\ f = Carried(g)

\* f is what scitun.py makes of p, wherever it is.
ByPython(f, p) ==
  /\ f.kind = "scion" /\ f.pkt = p /\ p.proto \in Translated
  /\ f.dst = Ia[p.dst] /\ f.dstHost = HostIp[p.dst]
  /\ f.src = Ia[p.src] /\ f.srcHost = HostIp[p.src]
  /\ f.haddr = Haddr(Length(HostIp[p.dst]), Length(HostIp[p.src]))
  /\ f.next = ToScion(p.proto)

\* f is what scion_egress makes of p if it adds a header.
ByEbpf(f, p) ==
  LET q == IpPacket(p)
  IN  /\ f.kind = "scion" /\ f.pkt = p /\ ~Untouched(q)
      /\ f.dst = QueriedIa(ScionAddr(q.dst)) /\ f.dstHost = V6(q.dst)
      /\ f.src = Ia[p.src] /\ f.srcHost = V6(q.src)
      /\ f.haddr = Haddr(Bytes16, Bytes16) /\ f.next = p.proto
      /\ f.word = Htonl(Word(q.hdr, {}, IsLittle(p.src)), IsLittle(p.src))

\* Where f is: on its way to a router, which no host is, or where it goes to.
Placed(f) == f.hop.ip = <<>> \/ (f.at = f.dst /\ f.hop = f.dstHost)

LEMMA PacketIs ==
  ASSUME NEW p
  PROVE  LET q == IpPacket(p)
         IN  /\ q.src = TunIp(p.src) /\ q.dst = TunIp(p.dst) /\ q.proto = p.proto
             /\ q.hdr = IpHeader(p.class, p.label) /\ q.pkt = p
  BY DEF IpPacket

LEMMA PythonEmits ==
  ASSUME NEW p \in Traffic, p.src \in PythonHosts, NEW f, Emitted(f, p)
  PROVE  ByPython(f, p) /\ Placed(f)
<1> DEFINE h == p.src
           q == IpPacket(p)
<1>1. p.src \in Hosts /\ p.dst \in Hosts
  BY TrafficAssumption
<1>2. IaOf(q.dst) = Ia[p.dst] /\ HostOf(q.dst) = HostIp[p.dst]
  BY <1>1, PacketIs, HostAddress DEF HasAddress
<1>3. PICK path \in {"local", "path"} :
        /\ f = ScionPacket(h, q, path) /\ f.hop.v = HostIp[h].v
        /\ p.proto \in Translated
        /\ path = "local" <=> IaOf(q.dst) = Ia[h]
  BY DEF Emitted
<1>4. q.proto = p.proto /\ q.pkt = p
  BY PacketIs
<1> HIDE DEF q
<1>5. /\ f.kind = "scion" /\ f.at = Ia[h] /\ f.hop = NextHop(h, q, path)
      /\ f.dst = Ia[p.dst] /\ f.dstHost = HostIp[p.dst]
      /\ f.src = Ia[h] /\ f.srcHost = HostIp[h]
      /\ f.haddr = Haddr(Length(HostIp[p.dst]), Length(HostIp[h]))
      /\ f.next = ToScion(p.proto) /\ f.pkt = p
  BY <1>2, <1>3, <1>4 DEF ScionPacket
<1>6. ByPython(f, p)
  BY <1>3, <1>5 DEF ByPython
<1>7. CASE path = "local"
  <2>1. f.hop = f.dstHost
    BY <1>2, <1>5, <1>7 DEF NextHop
  <2>2. f.at = f.dst
    BY <1>2, <1>3, <1>5, <1>7
  <2> QED
    BY <1>6, <2>1, <2>2 DEF Placed
<1>8. CASE path = "path"
  <2>1. f.hop.ip = <<>>
    BY <1>5, <1>8 DEF NextHop
  <2> QED
    BY <1>6, <2>1 DEF Placed
<1> QED
  BY <1>3, <1>7, <1>8

LEMMA EbpfEmits ==
  ASSUME NEW p \in Traffic, p.src \notin PythonHosts, NEW f, Emitted(f, p)
  PROVE  \/ ByEbpf(f, p) /\ Placed(f)
         \/ Untouched(IpPacket(p)) /\ f = Plain(p.src, IpPacket(p))
<1> DEFINE q == IpPacket(p)
<1>1. f = IF Untouched(q) THEN Plain(p.src, q) ELSE EbpfPacket(p.src, q)
  BY DEF Emitted
<1>2. q.pkt = p /\ q.proto = p.proto
  BY PacketIs
<1> HIDE DEF q
<1>3. CASE ~Untouched(q)
  <2>1. ByEbpf(f, p)
    BY <1>1, <1>2, <1>3 DEF EbpfPacket, ByEbpf, q
  <2>2. f.hop.ip = <<>>
    BY <1>1, <1>3 DEF EbpfPacket
  <2> QED
    BY <2>1, <2>2 DEF Placed
<1> QED
  BY <1>1, <1>3 DEF q

LEMMA CarriedIs ==
  ASSUME NEW p \in Traffic, NEW g, g.kind = "scion", Emitted(g, p), NEW f, f = Carried(g)
  PROVE  /\ Placed(f)
         /\ p.src \in PythonHosts => ByPython(f, p)
         /\ p.src \notin PythonHosts => ByEbpf(f, p)
<1> DEFINE q == IpPacket(p)
<1>1. \/ \E path \in {"local", "path"} : g = ScionPacket(p.src, q, path)
      \/ g = EbpfPacket(p.src, q) \/ g = Plain(p.src, q)
  BY DEF Emitted
<1>2. g # Plain(p.src, q)
  BY DEF Plain
<1> HIDE DEF q
<1>3. /\ f.at = g.dst /\ f.hop = g.dstHost /\ f.dst = g.dst /\ f.dstHost = g.dstHost
      /\ f.kind = g.kind /\ f.pkt = g.pkt /\ f.src = g.src /\ f.srcHost = g.srcHost
      /\ f.haddr = g.haddr /\ f.next = g.next /\ f.word = g.word
  BY <1>1, <1>2 DEF Carried, ScionPacket, EbpfPacket
<1>4. Placed(f)
  BY <1>3 DEF Placed
<1>5. ASSUME p.src \in PythonHosts
      PROVE  ByPython(f, p)
  <2>1. ByPython(g, p)
    BY <1>5, PythonEmits
  <2> QED
    BY <1>3, <2>1 DEF ByPython
<1>6. ASSUME p.src \notin PythonHosts
      PROVE  ByEbpf(f, p)
  <2>1. ByEbpf(g, p)
    BY <1>2, <1>6, EbpfEmits DEF q
  <2> QED
    BY <1>3, <2>1 DEF ByEbpf
<1> QED
  BY <1>4, <1>5, <1>6

\* What a frame in the network can be.
LEMMA TracedIs ==
  ASSUME NEW p \in Traffic, NEW f, Traced(f, p)
  PROVE  \/ p.src \in PythonHosts /\ ByPython(f, p) /\ Placed(f)
         \/ p.src \notin PythonHosts /\ ByEbpf(f, p) /\ Placed(f)
         \/ /\ p.src \notin PythonHosts
            /\ Untouched(IpPacket(p)) /\ f = Plain(p.src, IpPacket(p))
<1>1. CASE Emitted(f, p)
  <2>1. CASE p.src \in PythonHosts
    BY <1>1, <2>1, PythonEmits
  <2>2. CASE p.src \notin PythonHosts
    BY <1>1, <2>2, EbpfEmits
  <2> QED
    BY <2>1, <2>2
<1>2. CASE \E g : g.kind = "scion" /\ Emitted(g, p) /\ f = Carried(g)
  BY <1>2, CarriedIs
<1> QED
  BY <1>1, <1>2 DEF Traced

\* Only the host a packet was sent to gets it.
LEMMA Arrival ==
  ASSUME NEW p \in Traffic, NEW f, Traced(f, p), NEW h \in Hosts, Arrives(h, f)
  PROVE  h = p.dst
<1>1. p.src \in Hosts /\ p.dst \in Hosts
  BY TrafficAssumption
<1>2. IpPacket(p).dst = TunIp(p.dst)
  BY PacketIs
<1>3. ASSUME Placed(f)
      PROVE  Ia[h] = f.dst /\ HostIp[h] = f.dstHost
  <2>1. HostIp[h].ip # <<>>
    BY NotEmpty
  <2> QED
    BY <1>3, <2>1 DEF Placed, Arrives
<1>4. CASE ByPython(f, p) /\ Placed(f)
  <2>1. Ia[h] = Ia[p.dst] /\ HostIp[h] = HostIp[p.dst]
    BY <1>3, <1>4 DEF ByPython
  <2> QED
    BY <1>1, <2>1, HostAssumption
<1>5. CASE ByEbpf(f, p) /\ Placed(f)
  <2>1. HostIp[h] = V6(TunIp(p.dst))
    BY <1>2, <1>3, <1>5 DEF ByEbpf
  <2> QED
    BY <1>1, <2>1, OneHost
<1>6. CASE f = Plain(p.src, IpPacket(p))
  <2>1. HostIp[h] = V6(TunIp(p.dst))
    BY <1>2, <1>6 DEF Plain, Arrives
  <2> QED
    BY <1>1, <2>1, OneHost
<1> QED
  BY <1>4, <1>5, <1>6, TracedIs

(***************************************************************************)
(* Translation back                                                        *)
(***************************************************************************)

\* g is the packet p, at the host h it was sent to.
Intact(h, g, p) ==
  /\ h = p.dst /\ g.pkt = p
  /\ g.src = TunIp(p.src) /\ g.dst = TunIp(p.dst) /\ g.proto = p.proto

LEMMA ProtocolBack ==
  ASSUME NEW proto \in Translated
  PROVE  ToIp(ToScion(proto)) = proto
  BY DEF Translated, ToIp, ToScion

\* scitun.py gets the source's address back out of both translators' packets.
LEMMA SourceBack ==
  ASSUME NEW p \in Traffic, NEW f, ByPython(f, p) \/ ByEbpf(f, p)
  PROVE  FromScion(f).src = TunIp(p.src)
<1> DEFINE h == p.src
<1>1. p.src \in Hosts /\ p.dst \in Hosts
  BY TrafficAssumption
<1>2. FromScion(f).src = MappedAddress(f.src, GetHaddr(f.haddr, 0), f.srcHost)
  BY DEF FromScion
<1>3. CASE ByPython(f, p)
  <2>1. Length(HostIp[h]) \in Lengths /\ Length(HostIp[p.dst]) \in Lengths
    BY DEF Length, Lengths
  <2>2. GetHaddr(f.haddr, 0) = Length(HostIp[h])
    BY <1>3, <2>1, HaddrRead DEF ByPython
  <2>3. f.src = Ia[h] /\ f.srcHost = HostIp[h]
    BY <1>3 DEF ByPython
  <2>4. CASE /\ HostIp[h] = V4(HostIp[h].ip)
             /\ TunIp(h) = MapIpv4(Ia[h].isd, Ia[h].asn, HostIp[h].ip)
    <3>1. Length(HostIp[h]) = Bytes4
      BY <2>4 DEF Length, V4
    <3> QED
      BY <1>2, <2>2, <2>3, <2>4, <3>1 DEF MappedAddress
  <2>5. CASE HostIp[h] = V6(TunIp(h))
    <3>1. Length(HostIp[h]) = Bytes16 /\ HostIp[h].ip = TunIp(h)
      BY <2>5 DEF Length, V6
    <3>2. Bytes16 # Bytes4
      BY DEF Bytes16, Bytes4
    <3> QED
      BY <1>2, <2>2, <2>3, <3>1, <3>2 DEF MappedAddress
  <2> QED
    BY <1>1, <2>4, <2>5, HostAddress DEF HasAddress
<1>4. CASE ByEbpf(f, p)
  <2>1. GetHaddr(f.haddr, 0) = Bytes16
    <3>1. Bytes16 \in Lengths
      BY DEF Lengths
    <3> QED
      BY <1>4, <3>1, HaddrRead DEF ByEbpf
  <2>2. f.srcHost = V6(TunIp(h))
    BY <1>4, PacketIs DEF ByEbpf
  <2>3. Bytes16 # Bytes4
    BY DEF Bytes16, Bytes4
  <2> QED
    BY <1>2, <2>1, <2>2, <2>3 DEF MappedAddress, V6
<1> QED
  BY <1>3, <1>4

LEMMA EbpfProtocol ==
  ASSUME NEW p \in Traffic, ~Untouched(IpPacket(p))
  PROVE  p.proto \in {"TCP", "UDP"}
<1>1. p.proto \in Protocols
  BY TrafficAssumption
<1>2. p.proto \notin Icmp
  BY PacketIs DEF Untouched
<1> QED
  BY <1>1, <1>2 DEF Icmp

\* What scitun.py gives to its applications.
LEMMA ScitunGets ==
  ASSUME NEW p \in Traffic, NEW f, Traced(f, p), NEW h \in Hosts, Arrives(h, f),
         f.kind = "scion", NEW r \in ScitunIngress(h, f)
  PROVE  r[1] = h /\ Intact(h, r[2], p)
<1> DEFINE g == FromScion(f)
<1>1. h = p.dst
  BY Arrival
<1>2. r = <<h, g>> /\ g.dst = TunIp(h)
  BY DEF ScitunIngress
<1>3. ByPython(f, p) \/ ByEbpf(f, p)
  BY TracedIs DEF Plain
<1>4. g.src = TunIp(p.src)
  BY <1>3, SourceBack
<1>5. g.proto = ToIp(f.next) /\ g.pkt = f.pkt
  BY DEF FromScion
<1>6. CASE ByPython(f, p)
  <2>1. g.proto = p.proto /\ g.pkt = p
    BY <1>5, <1>6, ProtocolBack DEF ByPython
  <2> QED
    BY <1>1, <1>2, <1>4, <2>1 DEF Intact
<1>7. CASE ByEbpf(f, p)
  <2>1. p.proto \in {"TCP", "UDP"} /\ f.next = p.proto /\ f.pkt = p
    BY <1>7, EbpfProtocol DEF ByEbpf
  <2>2. g.proto = p.proto
    BY <1>5, <2>1 DEF ToIp
  <2> QED
    BY <1>1, <1>2, <1>4, <1>5, <2>1, <2>2 DEF Intact
<1> QED
  BY <1>3, <1>6, <1>7

\* What arrives without a SCION header.
LEMMA PlainGets ==
  ASSUME NEW p \in Traffic, NEW f, Traced(f, p), NEW h \in Hosts, Arrives(h, f),
         f.kind # "scion"
  PROVE  /\ f.packet = IpPacket(p) /\ Untouched(IpPacket(p)) /\ p.src \notin PythonHosts
         /\ Intact(h, f.packet, p)
<1>1. Untouched(IpPacket(p)) /\ f = Plain(p.src, IpPacket(p)) /\ p.src \notin PythonHosts
  BY TracedIs DEF ByPython, ByEbpf
<1>2. f.packet = IpPacket(p)
  BY <1>1 DEF Plain
<1> QED
  BY <1>1, <1>2, Arrival, PacketIs DEF Intact

\* What scion_ingress makes of a packet with a SCION header: what was sent,
\* if both addresses have 16 bytes and the protocol's name is the same.
LEMMA UnwrappedIs ==
  ASSUME NEW p \in Traffic, NEW f, ByPython(f, p) \/ ByEbpf(f, p), NEW h \in Hosts,
         p.proto \in {"TCP", "UDP"}, HostIp[p.src].v = 6, HostIp[p.dst].v = 6, h = p.dst,
         NEW o
  PROVE  Intact(h, Unwrapped(h, f, o), p)
<1> DEFINE g == Unwrapped(h, f, o)
<1>1. p.src \in Hosts /\ p.dst \in Hosts
  BY TrafficAssumption
<1>2. HostIp[p.src] = V6(TunIp(p.src)) /\ HostIp[p.dst] = V6(TunIp(p.dst))
  <2>1. ASSUME NEW k \in Hosts, HostIp[k].v = 6
        PROVE  HostIp[k] = V6(TunIp(k))
    <3>1. HasAddress(k)
      BY HostAddress
    <3>2. HostIp[k] # V4(HostIp[k].ip)
      BY <2>1 DEF V4
    <3> QED
      BY <3>1, <3>2 DEF HasAddress
  <2> QED
    BY <1>1, <2>1
<1>3. /\ f.haddr = Haddr(Bytes16, Bytes16) /\ f.pkt = p /\ f.next = p.proto
      /\ f.srcHost = V6(TunIp(p.src)) /\ f.dstHost = V6(TunIp(p.dst))
  <2>1. CASE ByPython(f, p)
    <3>1. Length(HostIp[p.src]) = Bytes16 /\ Length(HostIp[p.dst]) = Bytes16
      BY DEF Length
    <3>2. ToScion(p.proto) = p.proto
      BY DEF ToScion
    <3> QED
      BY <1>2, <2>1, <3>1, <3>2 DEF ByPython
  <2>2. CASE ByEbpf(f, p)
    BY <2>2, PacketIs DEF ByEbpf
  <2> QED
    BY <2>1, <2>2
<1>4. GetHaddr(f.haddr, 0) = Bytes16 /\ GetHaddr(f.haddr, 4) = Bytes16
  <2>1. Bytes16 \in Lengths
    BY DEF Lengths
  <2> QED
    BY <1>3, <2>1, HaddrRead
<1>5. /\ g.src = At16(f.srcHost.ip, Bytes16) /\ g.dst = At16(f.dstHost.ip, Bytes16)
      /\ g.proto = f.next /\ g.pkt = f.pkt
  BY <1>4 DEF Unwrapped
<1>6. g.src = TunIp(p.src) /\ g.dst = TunIp(p.dst)
  BY <1>3, <1>5 DEF At16, V6
<1> HIDE DEF g
<1>7. Intact(h, g, p)
  BY <1>3, <1>5, <1>6 DEF Intact
<1> QED
  BY <1>7 DEF g

\* What an eBPF host gets.
LEMMA EbpfGets ==
  ASSUME NEW p \in Traffic, NEW f, Traced(f, p), NEW h \in Hosts, h \notin PythonHosts,
         Arrives(h, f), NEW o \in Outers
  PROVE  LET g == EbpfIngress(h, f, o)
         IN  /\ g.pkt = p
             /\ /\ p.proto \in {"TCP", "UDP"} /\ HostIp[p.src].v = 6
                /\ p.src \in PythonHosts \/ InterAs(p)
                => Intact(h, g, p)
             /\ /\ p.src \notin PythonHosts /\ {h, p.src} \cap Little = {}
                /\ InterAs(p) /\ g.proto \in {"TCP", "UDP"}
                => FlowLabel(g.hdr) = p.label \union (o.label \intersect (16..19))
<1> DEFINE g == EbpfIngress(h, f, o)
<1>1. h = p.dst /\ p.src \in Hosts /\ p.dst \in Hosts
  BY Arrival, TrafficAssumption
<1>2. CASE f.kind = "scion"
  <2>1. g = Unwrapped(h, f, o)
    BY <1>2 DEF EbpfIngress
  <2>2. ByPython(f, p) \/ ByEbpf(f, p)
    BY <1>2, TracedIs DEF Plain
  <2>3. g.pkt = p
    BY <2>1, <2>2 DEF Unwrapped, ByPython, ByEbpf
  <2>4. HostIp[p.dst].v = 6
    <3>1. HasAddress(h) /\ h = p.dst
      BY <1>1, HostAddress
    <3> QED
      BY <3>1 DEF HasAddress, V6
  <2>5. ASSUME p.proto \in {"TCP", "UDP"}, HostIp[p.src].v = 6
        PROVE  Intact(h, g, p)
    BY <1>1, <2>1, <2>2, <2>4, <2>5, UnwrappedIs
  <2>6. ASSUME p.src \notin PythonHosts, {h, p.src} \cap Little = {}
        PROVE  FlowLabel(g.hdr) = p.label \union (o.label \intersect (16..19))
    <3>1. ByEbpf(f, p)
      BY <1>2, <2>6, TracedIs DEF Plain
    <3>2. IsLittle(h) = FALSE /\ IsLittle(p.src) = FALSE
      BY <2>6 DEF IsLittle
    <3>3. p.class \in SUBSET (0..7) /\ p.label \in SUBSET (0..19)
      BY TrafficAssumption
    <3> DEFINE w == Shl(p.class, 20) \union p.label
    <3>4. f.word = Htonl(Word(IpHeader(p.class, p.label), {}, FALSE), FALSE)
      BY <3>1, <3>2, PacketIs DEF ByEbpf
    <3>5. f.word = w
      BY <3>3, <3>4, WordOf
    <3>6. g.hdr = Restored(IpHeader(o.class, o.label), Htonl(f.word, FALSE))
      <4>1. g.hdr = Restored(IpHeader(o.class, o.label), Htonl(f.word, IsLittle(h)))
        BY <2>1 DEF Unwrapped
      <4> HIDE DEF g
      <4> QED
        BY <3>2, <4>1, Zenon
    <3>7. Htonl(f.word, FALSE) = f.word
      BY DEF Htonl
    <3>8. FlowLabel(Restored(IpHeader(o.class, o.label), w))
            = p.label \union (o.label \intersect (16..19))
      BY <3>3, OuterAssumption, LabelRestored
    <3> HIDE DEF g, w
    <3> QED
      BY <3>5, <3>6, <3>7, <3>8
  <2> QED
    BY <2>3, <2>5, <2>6
<1>3. CASE f.kind # "scion"
  <2>1. /\ f.packet = IpPacket(p) /\ Untouched(IpPacket(p)) /\ p.src \notin PythonHosts
        /\ f.packet.pkt = p /\ f.packet.proto = p.proto
    BY <1>3, PlainGets DEF Intact
  <2>2. g = IF f.packet.proto = "UDP" THEN Mangled(f.packet) ELSE f.packet
    BY <1>3 DEF EbpfIngress
  <2>3. g.pkt = p /\ (p.proto = "UDP" => g.proto = "none") /\ (p.proto # "UDP" => g.proto = p.proto)
    BY <2>1, <2>2 DEF Mangled, IpPacket
  <2>4. ASSUME p.proto \notin Icmp
        PROVE  ~InterAs(p)
    <3>1. ScionAddr(TunIp(p.dst)) = ScionAddr(TunIp(p.src))
      BY <2>1, <2>4, PacketIs DEF Untouched
    <3> QED
      BY <1>1, <3>1, KeyOfHosts DEF InterAs
  <2>5. p.proto \in {"TCP", "UDP"} => p.proto \notin Icmp
    BY DEF Icmp
  <2>6. g.proto \in {"TCP", "UDP"} => p.proto \in {"TCP", "UDP"}
    BY <2>3
  <2> HIDE DEF g
  <2>7. g.proto \in {"TCP", "UDP"} \/ p.proto \in {"TCP", "UDP"} => ~InterAs(p)
    BY <2>4, <2>5, <2>6
  <2> QED
    BY <2>1, <2>3, <2>7 DEF g
<1> QED
  BY <1>2, <1>3

(***************************************************************************)
(* The invariant                                                           *)
(***************************************************************************)

\* The cache holds what the daemon may answer.
PathsAnswered ==
  \A h \in PythonHosts, ia \in Ias : paths[h][ia] \in Answers(h, ia) \union {Unknown}

\* r is what the translator of its host makes of f.
Got(r, f) ==
  IF r[1] \in PythonHosts
  THEN \/ f.kind = "scion" /\ r \in ScitunIngress(r[1], f)
       \/ f.kind # "scion" /\ r = <<r[1], f.packet>>
  ELSE \E o \in Outers : r = <<r[1], EbpfIngress(r[1], f, o)>>

\* Everything received came in a frame; the network forgets none.
ReceivedTraced ==
  \A r \in received :
    r[1] \in Hosts /\ \E f \in wire : Arrives(r[1], f) /\ Got(r, f)

IInv == Inv /\ PathsAnswered /\ ReceivedTraced

LEMMA FramesKept ==
  ASSUME FramesTraced, wire \subseteq wire', sent \subseteq sent',
         \A f \in wire' \ wire :
           /\ f.pkt \in sent'
           /\ \/ Emitted(f, f.pkt)
              \/ \E g \in wire' : g.kind = "scion" /\ Emitted(g, f.pkt) /\ f = Carried(g)
  PROVE  FramesTraced'
<1>1. ASSUME NEW f \in wire'
      PROVE  /\ f.pkt \in sent'
             /\ \/ Emitted(f, f.pkt)
                \/ \E g \in wire' : g.kind = "scion" /\ Emitted(g, f.pkt) /\ f = Carried(g)
  BY <1>1 DEF FramesTraced
<1> QED
  BY <1>1 DEF FramesTraced

LEMMA ReceivedKept ==
  ASSUME ReceivedTraced, wire \subseteq wire',
         \A r \in received' \ received :
           r[1] \in Hosts /\ \E f \in wire' : Arrives(r[1], f) /\ Got(r, f)
  PROVE  ReceivedTraced'
<1>1. ASSUME NEW r \in received'
      PROVE  r[1] \in Hosts /\ \E f \in wire' : Arrives(r[1], f) /\ Got(r, f)
  BY <1>1 DEF ReceivedTraced
<1> QED
  BY <1>1 DEF ReceivedTraced

\* What the translators send.
LEMMA EgressEmits ==
  ASSUME NEW p \in Traffic, p.src \in PythonHosts,
         NEW path \in Answers(p.src, IaOf(IpPacket(p).dst)),
         NEW f \in ScitunEgress(p.src, IpPacket(p), path)
  PROVE  Emitted(f, p) /\ f.pkt = p
<1> DEFINE h == p.src
           q == IpPacket(p)
<1>1. /\ path # "none" /\ q.proto \in Translated /\ NextHop(h, q, path).v = HostIp[h].v
      /\ f = ScionPacket(h, q, path)
  BY DEF ScitunEgress
<1>2. path \in {"local", "path"} /\ (path = "local" <=> IaOf(q.dst) = Ia[h])
  BY <1>1 DEF Answers
<1>3. f.hop = NextHop(h, q, path) /\ f.pkt = q.pkt
  BY <1>1 DEF ScionPacket
<1>4. q.proto = p.proto /\ q.pkt = p
  BY PacketIs
<1>5. Emitted(f, p)
  BY <1>1, <1>2, <1>3, <1>4 DEF Emitted
<1> QED
  BY <1>3, <1>4, <1>5

LEMMA EbpfEgressEmits ==
  ASSUME NEW p \in Traffic, p.src \notin PythonHosts,
         NEW fs \in EbpfEgress(p.src, IpPacket(p)), NEW f \in fs
  PROVE  Emitted(f, p) /\ f.pkt = p
<1> DEFINE q == IpPacket(p)
<1>1. f = IF Untouched(q) THEN Plain(p.src, q) ELSE EbpfPacket(p.src, q)
  BY DEF EbpfEgress
<1>2. Emitted(f, p)
  BY <1>1 DEF Emitted
<1>3. f.pkt = q.pkt
  BY <1>1 DEF Plain, EbpfPacket
<1> QED
  BY <1>2, <1>3, PacketIs

LEMMA InitInvariant ==
  ASSUME Init
  PROVE  IInv
<1>1. TypeOK
  BY DEF Init, TypeOK, NothingCached, Paths
<1>2. PathsAnswered
  BY DEF Init, PathsAnswered, NothingCached
<1>3. FramesTraced /\ ReceivedTraced
  BY DEF Init, FramesTraced, ReceivedTraced
<1> QED
  BY <1>1, <1>2, <1>3 DEF IInv, Inv

\* The AS scitun.py looks up is the destination's.
LEMMA LookedUp ==
  ASSUME NEW p \in Traffic
  PROVE  IaOf(IpPacket(p).dst) = Ia[p.dst] /\ Ia[p.dst] \in Ias
<1>1. p.dst \in Hosts
  BY TrafficAssumption
<1>2. HasAddress(p.dst) /\ IpPacket(p).dst = TunIp(p.dst)
  BY <1>1, HostAddress, PacketIs
<1> QED
  BY <1>1, <1>2 DEF HasAddress, Ias

\* The parts of the invariant about scitun.py, in a step that lets it be.
LEMMA ScitunKept ==
  ASSUME IInv, UNCHANGED <<running, paths>>, sent' \subseteq Traffic
  PROVE  TypeOK' /\ PathsAnswered'
<1>1. TypeOK'
  BY DEF IInv, Inv, TypeOK
<1>2. PathsAnswered'
  BY DEF IInv, PathsAnswered
<1> QED
  BY <1>1, <1>2

\* The same parts, when a scitun.py ends.
LEMMA EndsKeeps ==
  ASSUME IInv, NEW h \in PythonHosts, Ends(h), sent' \subseteq Traffic
  PROVE  TypeOK' /\ PathsAnswered'
<1>1. /\ running' = [running EXCEPT ![h] = FALSE]
      /\ paths' = [paths EXCEPT ![h] = NothingCached]
  BY DEF Ends
<1>2. /\ running \in [Hosts -> BOOLEAN] /\ paths \in [PythonHosts -> [Ias -> Paths]]
      /\ h \in Hosts
  BY HostAssumption DEF IInv, Inv, TypeOK
<1>3. NothingCached \in [Ias -> Paths] /\ \A ia \in Ias : NothingCached[ia] = Unknown
  BY DEF NothingCached, Paths
<1>4. TypeOK'
  BY <1>1, <1>2, <1>3 DEF TypeOK
<1>5. ASSUME NEW g \in PythonHosts, NEW ia \in Ias
      PROVE  paths'[g][ia] \in Answers(g, ia) \union {Unknown}
  BY <1>1, <1>2, <1>3 DEF IInv, PathsAnswered
<1>6. PathsAnswered'
  BY <1>5 DEF PathsAnswered
<1> QED
  BY <1>4, <1>6

LEMMA FromTunKeeps ==
  ASSUME IInv, NEW p \in Traffic, p.src \in PythonHosts, FromTun(p.src, IpPacket(p)),
         sent' = sent \union {p}
  PROVE  IInv'
<1> DEFINE h == p.src
           q == IpPacket(p)
           ia == Ia[p.dst]
<1>1. IaOf(q.dst) = ia /\ ia \in Ias /\ sent' \subseteq Traffic
  BY LookedUp DEF IInv, Inv, TypeOK
<1>2. PICK path \in Lookup(h, ia) :
        /\ paths' = [paths EXCEPT ![h][ia] = path]
        /\ wire' = wire \union ScitunEgress(h, q, path)
  BY <1>1 DEF FromTun
<1>3. path \in Answers(h, ia)
  BY <1>1, <1>2 DEF IInv, PathsAnswered, Lookup
<1>4. running' = running /\ received' = received
  BY DEF FromTun
<1>5. TypeOK'
  <2>1. path \in Paths
    BY <1>3 DEF Answers, Paths
  <2> QED
    BY <1>1, <1>2, <1>4, <2>1 DEF IInv, Inv, TypeOK
<1>6. PathsAnswered'
  <2>1. paths \in [PythonHosts -> [Ias -> Paths]]
    BY DEF IInv, Inv, TypeOK
  <2> QED
    BY <1>1, <1>2, <1>3, <2>1 DEF IInv, PathsAnswered
<1>7. FramesTraced'
  <2>1. ASSUME NEW f \in wire' \ wire
        PROVE  f.pkt \in sent' /\ Emitted(f, f.pkt)
    <3>1. f \in ScitunEgress(h, q, path)
      BY <1>2, <2>1
    <3>2. Emitted(f, p) /\ f.pkt = p
      BY <1>1, <1>3, <3>1, EgressEmits
    <3> QED
      BY <3>2
  <2> QED
    BY <1>2, <2>1, FramesKept DEF IInv, Inv
<1>8. ReceivedTraced'
  BY <1>2, <1>4, ReceivedKept DEF IInv
<1> QED
  BY <1>5, <1>6, <1>7, <1>8 DEF IInv, Inv

LEMMA ScitunSendsKeeps ==
  ASSUME IInv, NEW p \in Traffic, ScitunSends(p)
  PROVE  IInv'
<1>1. p.src \in PythonHosts /\ sent' = sent \union {p}
  BY DEF ScitunSends, Sends
<1>2. CASE FromTun(p.src, IpPacket(p))
  BY <1>1, <1>2, FromTunKeeps
<1>3. CASE FromTunRaises(p.src, IpPacket(p))
  <2>1. Ends(p.src) /\ wire' = wire /\ received' = received
    BY <1>3 DEF FromTunRaises
  <2>2. sent' \subseteq Traffic
    BY <1>1 DEF IInv, Inv, TypeOK
  <2>3. TypeOK' /\ PathsAnswered'
    BY <1>1, <2>1, <2>2, EndsKeeps
  <2>4. FramesTraced'
    BY <1>1, <2>1, FramesKept DEF IInv, Inv
  <2>5. ReceivedTraced'
    BY <2>1, ReceivedKept DEF IInv
  <2> QED
    BY <2>3, <2>4, <2>5 DEF IInv, Inv
<1> QED
  BY <1>2, <1>3 DEF ScitunSends

LEMMA EbpfSendsKeeps ==
  ASSUME IInv, NEW p \in Traffic, EbpfSends(p)
  PROVE  IInv'
<1>1. PICK fs \in EbpfEgress(p.src, IpPacket(p)) : wire' = wire \union fs
  BY DEF EbpfSends
<1>2. sent' = sent \union {p} /\ sent' \subseteq Traffic /\ p.src \notin PythonHosts
  BY DEF IInv, Inv, TypeOK, EbpfSends, Sends, EbpfHosts
<1>3. UNCHANGED <<running, paths, received>>
  BY DEF EbpfSends
<1>4. TypeOK' /\ PathsAnswered'
  BY <1>2, <1>3, ScitunKept
<1>5. FramesTraced'
  <2>1. ASSUME NEW f \in wire' \ wire
        PROVE  f.pkt \in sent' /\ Emitted(f, f.pkt)
    <3>1. f \in fs
      BY <1>1, <2>1
    <3>2. Emitted(f, p) /\ f.pkt = p
      BY <1>2, <3>1, EbpfEgressEmits
    <3> QED
      BY <1>2, <3>2
  <2> QED
    BY <1>1, <1>2, <2>1, FramesKept DEF IInv, Inv
<1>6. ReceivedTraced'
  BY <1>1, <1>3, ReceivedKept DEF IInv
<1> QED
  BY <1>4, <1>5, <1>6 DEF IInv, Inv

\* What was carried already is where the routers carry it.
LEMMA CarriedOnce ==
  ASSUME NEW p \in Traffic, NEW g, g.kind = "scion", Emitted(g, p)
  PROVE  /\ Carried(Carried(g)) = Carried(g) /\ Carried(g).pkt = g.pkt
         /\ Carried(g).kind = "scion"
<1> DEFINE q == IpPacket(p)
<1>1. \/ \E path \in {"local", "path"} : g = ScionPacket(p.src, q, path)
      \/ g = EbpfPacket(p.src, q) \/ g = Plain(p.src, q)
  BY DEF Emitted
<1>2. g # Plain(p.src, q)
  BY DEF Plain
<1> HIDE DEF q
<1> QED
  BY <1>1, <1>2 DEF Carried, ScionPacket, EbpfPacket

LEMMA ForwardKeeps ==
  ASSUME IInv, NEW f \in wire, Forward(f)
  PROVE  IInv'
<1>1. UNCHANGED <<running, paths, received, sent>> /\ wire' = wire \union {Carried(f)}
  BY DEF Forward, Carried
<1>2. f.kind = "scion" /\ sent \subseteq Traffic
  BY DEF Forward, IInv, Inv, TypeOK
<1>3. TypeOK' /\ PathsAnswered'
  BY <1>1, <1>2, ScitunKept
<1>4. f.pkt \in sent /\ f.pkt \in Traffic
  BY <1>2 DEF IInv, Inv, FramesTraced
<1>5. PICK g \in wire : g.kind = "scion" /\ Emitted(g, f.pkt) /\ (g = f \/ f = Carried(g))
  BY <1>2 DEF IInv, Inv, FramesTraced
<1>6. Carried(f) = Carried(g) /\ Carried(f).pkt = f.pkt
  BY <1>4, <1>5, CarriedOnce
<1>7. FramesTraced'
  <2>1. ASSUME NEW c \in wire' \ wire
        PROVE  /\ c.pkt \in sent'
               /\ \E d \in wire' : d.kind = "scion" /\ Emitted(d, c.pkt) /\ c = Carried(d)
    BY <1>1, <1>4, <1>5, <1>6, <2>1
  <2> QED
    BY <1>1, <2>1, FramesKept DEF IInv, Inv
<1>8. ReceivedTraced'
  BY <1>1, ReceivedKept DEF IInv
<1> QED
  BY <1>3, <1>7, <1>8 DEF IInv, Inv

\* scitun.py ends, or what it gives to its applications came in a frame.
LEMMA ScitunReceivesKeeps ==
  ASSUME IInv, NEW h \in Hosts, NEW f \in wire, ScitunReceives(h, f)
  PROVE  IInv'
<1>1. wire' = wire /\ sent' = sent /\ sent' \subseteq Traffic
  BY DEF ScitunReceives, FromUdp, FromUdpRaises, IInv, Inv, TypeOK
<1>2. h \in PythonHosts /\ Arrives(h, f)
  BY DEF ScitunReceives
<1>3. TypeOK' /\ PathsAnswered'
  <2>1. CASE UNCHANGED <<running, paths>>
    BY <1>1, <2>1, ScitunKept
  <2>2. CASE Ends(h)
    BY <1>1, <1>2, <2>2, EndsKeeps
  <2> QED
    BY <2>1, <2>2 DEF ScitunReceives, FromUdp, FromUdpRaises
<1>4. ASSUME NEW r \in received' \ received
      PROVE  r[1] = h /\ Got(r, f)
  <2>1. CASE f.kind = "scion"
    <3>1. r \in ScitunIngress(h, f)
      BY <1>4, <2>1 DEF ScitunReceives, FromUdp, FromUdpRaises
    <3>2. r[1] = h
      BY <3>1 DEF ScitunIngress
    <3> QED
      BY <1>2, <2>1, <3>1, <3>2 DEF Got
  <2>2. CASE f.kind # "scion"
    <3>1. r = <<h, f.packet>>
      BY <1>4, <2>2 DEF ScitunReceives
    <3> QED
      BY <1>2, <2>2, <3>1 DEF Got
  <2> QED
    BY <2>1, <2>2
<1>5. FramesTraced'
  BY <1>1, FramesKept DEF IInv, Inv
<1>6. ReceivedTraced'
  BY <1>1, <1>2, <1>4, ReceivedKept DEF IInv
<1> QED
  BY <1>3, <1>5, <1>6 DEF IInv, Inv

LEMMA EbpfReceivesKeeps ==
  ASSUME IInv, NEW h \in Hosts, NEW f \in wire, EbpfReceives(h, f)
  PROVE  IInv'
<1>1. UNCHANGED <<running, paths, wire, sent>>
  BY DEF EbpfReceives
<1>2. h \notin PythonHosts /\ Arrives(h, f)
  BY DEF EbpfReceives, EbpfHosts
<1>3. ASSUME NEW r \in received' \ received
      PROVE  r[1] = h /\ Got(r, f)
  <2>1. PICK o \in Outers : r = <<h, EbpfIngress(h, f, o)>>
    BY <1>3 DEF EbpfReceives
  <2>2. r[1] = h
    BY <2>1
  <2> QED
    BY <1>2, <2>1, <2>2 DEF Got
<1>4. sent \subseteq Traffic
  BY DEF IInv, Inv, TypeOK
<1>5. TypeOK' /\ PathsAnswered'
  BY <1>1, <1>4, ScitunKept
<1>6. FramesTraced'
  BY <1>1, FramesKept DEF IInv, Inv
<1>7. ReceivedTraced'
  BY <1>1, <1>2, <1>3, ReceivedKept DEF IInv
<1> QED
  BY <1>5, <1>6, <1>7 DEF IInv, Inv

\* A stranger has no SCION-mapped address, so scitun.py drops its packets or
\* ends over them.
LEMMA StrangersDropped ==
  ASSUME NEW h \in PythonHosts, NEW x \in Strangers
  PROVE  ScitunIngress(h, StrangerPacket(h, x)) = {}
<1> DEFINE f == StrangerPacket(h, x)
           q == FromScion(f)
<1>1. /\ f.haddr = Haddr(Length(HostIp[h]), Length(x.host))
      /\ f.src = x.ia /\ f.srcHost = x.host
  BY DEF StrangerPacket
<1>2. q.src = MappedAddress(f.src, GetHaddr(f.haddr, 0), f.srcHost)
  BY DEF FromScion
<1>3. Length(HostIp[h]) \in Lengths /\ Length(x.host) \in Lengths
  BY DEF Length, Lengths
<1>4. GetHaddr(f.haddr, 0) = Length(x.host)
  BY <1>1, <1>3, HaddrRead
<1> HIDE DEF f
<1>5. q.src = MappedAddress(x.ia, Length(x.host), x.host)
  BY <1>1, <1>2, <1>4
<1> HIDE DEF q
<1>6. q.src = Error \/ ~InScionNetwork(q.src)
  <2>1. CASE x.host.v = 4 /\ ~(x.ia.isd < 4096 /\ Encodable(x.ia.asn))
    <3>1. Length(x.host) = Bytes4
      BY <2>1 DEF Length
    <3>2. MapIpv4(x.ia.isd, x.ia.asn, x.host.ip) = Error
      BY <2>1 DEF MapIpv4
    <3> QED
      BY <1>5, <3>1, <3>2 DEF MappedAddress
  <2>2. CASE x.host.v = 6 /\ ~InScionNetwork(x.host.ip)
    <3>1. Length(x.host) = Bytes16 /\ Bytes16 # Bytes4
      BY <2>2 DEF Length, Bytes16, Bytes4
    <3>2. q.src = x.host.ip
      BY <1>5, <3>1 DEF MappedAddress
    <3> QED
      BY <2>2, <3>2
  <2> QED
    BY <2>1, <2>2, StrangerAssumption
<1>7. ScitunIngress(h, f) = {}
  BY <1>6 DEF ScitunIngress, q
<1> QED
  BY <1>7 DEF f

LEMMA StrangerKeeps ==
  ASSUME IInv, NEW h \in PythonHosts, NEW x \in Strangers, StrangerReaches(h, x)
  PROVE  IInv'
<1>1. wire' = wire /\ sent' = sent /\ sent' \subseteq Traffic
  BY DEF StrangerReaches, FromUdp, FromUdpRaises, IInv, Inv, TypeOK
<1>2. received' = received
  BY StrangersDropped DEF StrangerReaches, FromUdp, FromUdpRaises
<1>3. TypeOK' /\ PathsAnswered'
  <2>1. CASE UNCHANGED <<running, paths>>
    BY <1>1, <2>1, ScitunKept
  <2>2. CASE Ends(h)
    BY <1>1, <2>2, EndsKeeps
  <2> QED
    BY <2>1, <2>2 DEF StrangerReaches, FromUdp, FromUdpRaises
<1>4. FramesTraced'
  BY <1>1, FramesKept DEF IInv, Inv
<1>5. ReceivedTraced'
  BY <1>1, <1>2, ReceivedKept DEF IInv
<1> QED
  BY <1>3, <1>4, <1>5 DEF IInv, Inv

LEMMA StopKeeps ==
  ASSUME IInv, NEW h \in PythonHosts, ScitunStops(h)
  PROVE  IInv'
<1>1. /\ Ends(h) /\ wire' = wire /\ received' = received /\ sent' = sent
      /\ sent' \subseteq Traffic
  BY DEF ScitunStops, Interrupt, IInv, Inv, TypeOK
<1>2. TypeOK' /\ PathsAnswered'
  BY <1>1, EndsKeeps
<1>3. FramesTraced'
  BY <1>1, FramesKept DEF IInv, Inv
<1>4. ReceivedTraced'
  BY <1>1, ReceivedKept DEF IInv
<1> QED
  BY <1>2, <1>3, <1>4 DEF IInv, Inv

LEMMA RestartKeeps ==
  ASSUME IInv, NEW h \in PythonHosts, ScitunRestarts(h)
  PROVE  IInv'
<1>1. /\ running' = [running EXCEPT ![h] = TRUE] /\ paths' = paths
      /\ wire' = wire /\ received' = received /\ sent' = sent
  BY DEF ScitunRestarts, Restart
<1>2. TypeOK' /\ PathsAnswered'
  BY <1>1 DEF IInv, Inv, TypeOK, PathsAnswered
<1>3. FramesTraced'
  BY <1>1, FramesKept DEF IInv, Inv
<1>4. ReceivedTraced'
  BY <1>1, ReceivedKept DEF IInv
<1> QED
  BY <1>2, <1>3, <1>4 DEF IInv, Inv

LEMMA StutterKeeps ==
  ASSUME IInv, UNCHANGED vars
  PROVE  IInv'
<1>1. UNCHANGED <<running, paths, wire, received, sent>> /\ sent \subseteq Traffic
  BY DEF vars, IInv, Inv, TypeOK
<1>2. TypeOK' /\ PathsAnswered'
  BY <1>1, ScitunKept
<1>3. FramesTraced'
  BY <1>1, FramesKept DEF IInv, Inv
<1>4. ReceivedTraced'
  BY <1>1, ReceivedKept DEF IInv
<1> QED
  BY <1>2, <1>3, <1>4 DEF IInv, Inv

\* Every frame is what a translator made of a packet that was sent, where that
\* translator put it or where the routers did; whatever a host received, its
\* translator made of such a frame.
THEOREM InteropInvariant == Spec => []IInv
<1>1. Init => IInv
  BY InitInvariant
<1>2. IInv /\ [Next]_vars => IInv'
  <2> SUFFICES ASSUME IInv, [Next]_vars
               PROVE  IInv'
    OBVIOUS
  <2>1. CASE \E p \in Traffic : ScitunSends(p) \/ EbpfSends(p)
    BY <2>1, ScitunSendsKeeps, EbpfSendsKeeps
  <2>2. CASE \E f \in wire : Forward(f)
    BY <2>2, ForwardKeeps
  <2>3. CASE \E h \in Hosts, f \in wire : ScitunReceives(h, f) \/ EbpfReceives(h, f)
    BY <2>3, ScitunReceivesKeeps, EbpfReceivesKeeps
  <2>4. CASE \E h \in PythonHosts, x \in Strangers : StrangerReaches(h, x)
    BY <2>4, StrangerKeeps
  <2>5. CASE \E h \in PythonHosts : ScitunStops(h) \/ ScitunRestarts(h)
    BY <2>5, StopKeeps, RestartKeeps
  <2>6. CASE UNCHANGED vars
    BY <2>6, StutterKeeps
  <2> QED
    BY <2>1, <2>2, <2>3, <2>4, <2>5, <2>6 DEF Next
<1> QED
  BY <1>1, <1>2, PTL DEF Spec

(***************************************************************************)
(* What the invariant says of the two translators                          *)
(***************************************************************************)

LEMMA WireTraced ==
  ASSUME IInv, NEW f \in wire
  PROVE  f.pkt \in sent /\ f.pkt \in Traffic /\ Traced(f, f.pkt)
<1>1. f.pkt \in sent /\ sent \subseteq Traffic
  BY DEF IInv, Inv, TypeOK, FramesTraced
<1>2. Traced(f, f.pkt)
  BY DEF IInv, Inv, FramesTraced, Traced
<1> QED
  BY <1>1, <1>2

\* A packet that was received came in a frame that stands for one sent.
LEMMA CameFrom ==
  ASSUME IInv, NEW r \in received
  PROVE  /\ r[1] \in Hosts
         /\ \E f \in wire, p \in sent :
              p \in Traffic /\ Traced(f, p) /\ Arrives(r[1], f) /\ Got(r, f)
<1>1. PICK f \in wire : r[1] \in Hosts /\ Arrives(r[1], f) /\ Got(r, f)
  BY DEF IInv, ReceivedTraced
<1>2. f.pkt \in sent /\ f.pkt \in Traffic /\ Traced(f, f.pkt)
  BY WireTraced
<1> QED
  BY <1>1, <1>2

LEMMA InvScitunFaithful ==
  ASSUME IInv
  PROVE  ScitunFaithful
<1> SUFFICES ASSUME NEW r \in received, r[1] \in PythonHosts
             PROVE  AsSent(r[1], r[2], r[2].pkt)
  BY DEF ScitunFaithful
<1>1. r[1] \in Hosts
  BY CameFrom
<1>2. PICK f \in wire, p \in sent :
        p \in Traffic /\ Traced(f, p) /\ Arrives(r[1], f) /\ Got(r, f)
  BY CameFrom
<1>3. Intact(r[1], r[2], p)
  <2>1. CASE f.kind = "scion" /\ r \in ScitunIngress(r[1], f)
    BY <1>1, <1>2, <2>1, ScitunGets
  <2>2. CASE f.kind # "scion" /\ r = <<r[1], f.packet>>
    <3>1. Intact(r[1], f.packet, p)
      BY <1>1, <1>2, <2>2, PlainGets
    <3>2. r[2] = f.packet
      BY <2>2
    <3> QED
      BY <3>1, <3>2
  <2> QED
    BY <1>2, <2>1, <2>2 DEF Got
<1> QED
  BY <1>2, <1>3 DEF Intact, AsSent

\* What an eBPF host got, with the packet it stands for.
LEMMA EbpfGot ==
  ASSUME IInv, NEW r \in received, r[1] \notin PythonHosts
  PROVE  LET p == r[2].pkt
         IN  /\ p \in sent
             /\ /\ p.proto \in {"TCP", "UDP"} /\ HostIp[p.src].v = 6
                /\ p.src \in PythonHosts \/ InterAs(p)
                => Intact(r[1], r[2], p)
             /\ /\ p.src \notin PythonHosts /\ {r[1], p.src} \cap Little = {}
                /\ InterAs(p) /\ r[2].proto \in {"TCP", "UDP"}
                => \E o \in Outers :
                     FlowLabel(r[2].hdr) = p.label \union (o.label \intersect (16..19))
<1>1. r[1] \in Hosts
  BY CameFrom
<1>2. PICK f \in wire, p \in sent :
        p \in Traffic /\ Traced(f, p) /\ Arrives(r[1], f) /\ Got(r, f)
  BY CameFrom
<1>3. PICK o \in Outers : r[2] = EbpfIngress(r[1], f, o)
  BY <1>2 DEF Got
<1>4. /\ r[2].pkt = p
      /\ /\ p.proto \in {"TCP", "UDP"} /\ HostIp[p.src].v = 6
         /\ p.src \in PythonHosts \/ InterAs(p)
         => Intact(r[1], r[2], p)
      /\ /\ p.src \notin PythonHosts /\ {r[1], p.src} \cap Little = {}
         /\ InterAs(p) /\ r[2].proto \in {"TCP", "UDP"}
         => FlowLabel(r[2].hdr) = p.label \union (o.label \intersect (16..19))
  BY <1>1, <1>2, <1>3, EbpfGets
<1> QED
  BY <1>2, <1>4

LEMMA InvEbpfFaithful ==
  ASSUME IInv
  PROVE  EbpfFaithful
<1> SUFFICES ASSUME NEW r \in received, r[1] \in EbpfHosts,
                    r[2].pkt.proto \in {"TCP", "UDP"}, HostIp[r[2].pkt.src].v = 6,
                    r[2].pkt.src \in PythonHosts \/ InterAs(r[2].pkt)
             PROVE  AsSent(r[1], r[2], r[2].pkt)
  BY DEF EbpfFaithful
<1>1. r[1] \notin PythonHosts
  BY DEF EbpfHosts
<1>2. r[2].pkt \in sent /\ Intact(r[1], r[2], r[2].pkt)
  BY <1>1, EbpfGot
<1> QED
  BY <1>2 DEF Intact, AsSent

LEMMA InvAsMeant ==
  ASSUME IInv
  PROVE  AsMeant
<1> SUFFICES ASSUME NEW f \in wire, f.kind = "scion"
             PROVE  LET meant == Ia[f.pkt.dst]
                    IN  f.dst = IF f.pkt.src \in EbpfHosts /\ meant.asn[1] = 2
                                THEN Misread(meant) ELSE meant
  BY DEF AsMeant
<1> DEFINE p == f.pkt
           meant == Ia[p.dst]
<1>1. p \in Traffic /\ Traced(f, p)
  BY WireTraced
<1>2. p.src \in Hosts /\ p.dst \in Hosts
  BY <1>1, TrafficAssumption
<1>3. \/ p.src \in PythonHosts /\ ByPython(f, p)
      \/ p.src \notin PythonHosts /\ ByEbpf(f, p)
  BY <1>1, TracedIs DEF Plain
<1>4. CASE p.src \in PythonHosts /\ ByPython(f, p)
  BY <1>4 DEF ByPython, EbpfHosts
<1>5. CASE p.src \notin PythonHosts /\ ByEbpf(f, p)
  <2>1. f.dst = QueriedIa(ScionAddr(TunIp(p.dst)))
    BY <1>5, PacketIs DEF ByEbpf
  <2>2. p.src \in EbpfHosts
    BY <1>2, <1>5 DEF EbpfHosts
  <2>3. f.dst = IF meant.asn[1] = 2 THEN Misread(meant) ELSE meant
    BY <1>2, <2>1, QueriedHost
  <2> QED
    BY <2>2, <2>3
<1> QED
  BY <1>3, <1>4, <1>5

\* What a router reads in the first word of a header of scion_egress.
LEMMA RouterReads ==
  ASSUME IInv, NEW f \in wire, FromEbpf(f)
  PROVE  /\ GetVer(f.word, FALSE) = {} /\ GetFlow(f.word, FALSE) = f.pkt.label
         /\ f.pkt.src \notin Little => ClassCarried(f)
<1> DEFINE p == f.pkt
           little == IsLittle(p.src)
<1>1. p \in Traffic /\ Traced(f, p) /\ p.src \notin PythonHosts /\ f.kind = "scion"
  BY WireTraced DEF FromEbpf, EbpfHosts
<1>2. ByEbpf(f, p)
  BY <1>1, TracedIs DEF Plain
<1>3. f.word = Htonl(Word(IpHeader(p.class, p.label), {}, little), little)
  BY <1>2, PacketIs DEF ByEbpf
<1>4. p.class \in SUBSET (0..7) /\ p.label \in SUBSET (0..19) /\ little \in BOOLEAN
  BY <1>1, TrafficAssumption DEF IsLittle
<1>5. /\ GetVer(f.word, FALSE) = {} /\ GetFlow(f.word, FALSE) = p.label
      /\ ~little => GetQos(f.word, FALSE) = p.class
  <2> DEFINE w == Htonl(Word(IpHeader(p.class, p.label), {}, little), little)
  <2>1. /\ GetVer(w, FALSE) = {} /\ GetFlow(w, FALSE) = p.label
        /\ ~little => GetQos(w, FALSE) = p.class
    <3> HIDE DEF p, little
    <3> QED
      BY <1>4, WordRead
  <2>2. f.word = w
    BY <1>3
  <2> HIDE DEF w, p, little
  <2> QED
    BY <2>1, <2>2
<1>6. p.src \notin Little => ~little
  BY DEF IsLittle
<1> HIDE DEF little
<1> QED
  BY <1>5, <1>6 DEF ClassCarried

LEMMA InvBigEndianFaithful ==
  ASSUME IInv
  PROVE  BigEndianFaithful
<1>1. ASSUME NEW f \in wire, FromEbpf(f), f.pkt.src \notin Little
      PROVE  ClassCarried(f)
  BY <1>1, RouterReads
<1>2. ASSUME NEW r \in received, {r[1], r[2].pkt.src} \subseteq EbpfHosts \ Little,
             InterAs(r[2].pkt), r[2].proto \in {"TCP", "UDP"}
      PROVE  \E o \in Outers :
               FlowLabel(r[2].hdr) = r[2].pkt.label \union (o.label \intersect (16..19))
  <2>1. /\ r[1] \notin PythonHosts /\ r[2].pkt.src \notin PythonHosts
        /\ {r[1], r[2].pkt.src} \cap Little = {}
    BY <1>2 DEF EbpfHosts
  <2> QED
    BY <1>2, <2>1, EbpfGot
<1> QED
  BY <1>1, <1>2 DEF BigEndianFaithful

\* Whatever scitun.py gives to its applications was sent to them, by either
\* translator, and has the addresses it was sent with: mapping and unmapping
\* undo each other (translate_egress, translate_ingress, scion_egress).
THEOREM ScitunGetsWhatWasSent == Spec => []ScitunFaithful
  BY InteropInvariant, InvScitunFaithful, PTL

\* TCP and UDP packets of IPv6 hosts reach an eBPF host as they were sent
\* (translate_egress, scion_egress, scion_ingress).
THEOREM EbpfGetsWhatWasSent == Spec => []EbpfFaithful
  BY InteropInvariant, InvEbpfFaithful, PTL

\* A SCION packet names the AS that the application meant, also after the 32
\* bits of the path cache's key; only the eBPF programs' to 2:0:0 to 2:7:ffff
\* name another, and which one that is (get_scion_addr, getPaths).
THEOREM AsIsMeant == Spec => []AsMeant
  BY InteropInvariant, InvAsMeant, PTL

\* Routers read version 0 and the packet's flow label in a header that
\* write_scionhdr made, on a machine of either byte order.
THEOREM FlowLabelReachesRouters == Spec => []FlowLabelCarried
<1>1. IInv => FlowLabelCarried
  BY RouterReads DEF FlowLabelCarried
<1> QED
  BY <1>1, InteropInvariant, PTL

\* Between big-endian machines the traffic class reaches the routers and the
\* flow label the receiver, its upper four bits or-ed with those of the label
\* in whatever header the underlay delivered (write_scionhdr, scion_ingress).
THEOREM BigEndianIsFaithful == Spec => []BigEndianFaithful
  BY InteropInvariant, InvBigEndianFaithful, PTL

\* Variables have their types, and every frame in the network is traced to a
\* packet that was sent.
THEOREM FramesAreTraced == Spec => []Inv
<1>1. IInv => Inv
  BY DEF IInv
<1> QED
  BY <1>1, InteropInvariant, PTL
=============================================================================
