------------------------ MODULE AddressMapping_proofs ------------------------
(***************************************************************************)
(* What is put into a SCION-mapped address is found there again, for every *)
(* ISD of 12 bits, every AS number that can be encoded, every prefix,      *)
(* subnet and interface.                                                   *)
(***************************************************************************)
EXTENDS AddressMapping, SequenceTheorems, TLAPS

\* The encoding of AS numbers in 20 bits is undone.
LEMMA DecodedEncoded ==
  ASSUME NEW n \in AsNumber, Encodable(n)
  PROVE  /\ Encoded(n) \in Nat /\ Encoded(n) < 1048576
         /\ Decoded(Encoded(n)) = n
<1>0. n[1] \in Nat /\ n[2] \in Nat /\ n[3] \in Nat /\ n[3] < 65536
  BY DEF AsNumber, Group
<1>1. n = <<n[1], n[2], n[3]>>
  BY DEF AsNumber
<1>2. (n[1] = 0 \/ n[1] = 2) /\ n[2] < 8
  BY DEF Encodable
<1> DEFINE low == n[2] * 65536 + n[3]
<1>3. /\ low \in Nat /\ low < 524288
      /\ low \div 65536 = n[2] /\ low % 65536 = n[3]
  BY <1>0, <1>2
<1> HIDE DEF low
<1>4. CASE n[1] = 0
  <2>1. Encoded(n) = low
    BY <1>0, <1>4 DEF Encoded, low
  <2>2. low % 524288 = low /\ ~(low >= 524288)
    BY <1>3
  <2>3. Decoded(low) = <<0, n[2], n[3]>>
    BY <1>3, <2>2 DEF Decoded
  <2> QED
    BY <1>1, <1>3, <1>4, <2>1, <2>3
<1>5. CASE n[1] = 2
  <2>1. Encoded(n) = 524288 + low
    BY <1>0, <1>5 DEF Encoded, low
  <2>2. (524288 + low) % 524288 = low /\ 524288 + low >= 524288
        /\ (524288 + low) % 65536 = low % 65536
    BY <1>3
  <2>3. Decoded(524288 + low) = <<2, n[2], n[3]>>
    BY <1>3, <2>2 DEF Decoded
  <2> QED
    BY <1>1, <1>3, <1>5, <2>1, <2>3
<1> QED
  BY <1>2, <1>4, <1>5

\* The groups of an address.
LEMMA Groups ==
  ASSUME NEW a \in Address
  PROVE  /\ \A i \in 1..8 : a[i] \in Nat /\ a[i] < 65536
         /\ Len(a) = 8 /\ a # Error
<1>1. Len(a) = 8
  BY DEF Address
<1>2. \A i \in 1..8 : a[i] \in Group
  BY DEF Address
<1>3. a # Error
  BY DEF Address, Error
<1> QED
  BY <1>1, <1>2, <1>3 DEF Group

\* Four groups and four groups are eight.
LEMMA Quad ==
  ASSUME NEW p \in Nat, NEW q \in Nat, NEW r \in Nat, NEW s \in Nat
  PROVE  <<p, q, r, s>> \in Seq(Nat) /\ Len(<<p, q, r, s>>) = 4
  OBVIOUS

LEMMA Halves ==
  ASSUME NEW u \in Seq(Nat), NEW x \in Seq(Nat), Len(u) = 4, Len(x) = 4
  PROVE  LET a == u \o x
         IN  /\ a[1] = u[1] /\ a[2] = u[2] /\ a[3] = u[3] /\ a[4] = u[4]
             /\ a[5] = x[1] /\ a[6] = x[2] /\ a[7] = x[3] /\ a[8] = x[4]
             /\ Len(a) = 8 /\ a \in Seq(Nat)
<1>1. /\ u \o x \in Seq(Nat)
      /\ Len(u \o x) = Len(u) + Len(x)
      /\ \A i \in 1 .. Len(u) + Len(x) :
            (u \o x)[i] = IF i <= Len(u) THEN u[i] ELSE x[i - Len(u)]
  BY ConcatProperties, Zenon
<1> DEFINE a == u \o x
<1>2. /\ a \in Seq(Nat) /\ Len(a) = 8
      /\ \A i \in 1..8 : a[i] = IF i <= 4 THEN u[i] ELSE x[i - 4]
  BY <1>1
<1> HIDE DEF a
<1>3. a[1] = u[1] /\ a[2] = u[2] /\ a[3] = u[3] /\ a[4] = u[4]
  BY <1>2
<1>4. a[5] = x[1] /\ a[6] = x[2] /\ a[7] = x[3] /\ a[8] = x[4]
  BY <1>2
<1> QED
  BY <1>2, <1>3, <1>4 DEF a

LEMMA InterfaceIsSeq ==
  ASSUME NEW x \in Interface
  PROVE  /\ x \in Seq(Nat) /\ Len(x) = 4 /\ x = <<x[1], x[2], x[3], x[4]>>
         /\ \A i \in 1..4 : x[i] \in Nat /\ x[i] < 65536
<1>1. x = <<x[1], x[2], x[3], x[4]>> /\ Len(x) = 4
  BY DEF Interface
<1>2. \A i \in 1..4 : x[i] \in Nat /\ x[i] < 65536
  BY DEF Interface, Group
<1>3. x \in [1..4 -> Nat]
  BY DEF Interface, Group
<1>4. x \in UNION {[1..n -> Nat] : n \in Nat}
  BY <1>3
<1>5. x \in Seq(Nat)
  BY <1>4, SeqDef, Zenon
<1> QED
  BY <1>1, <1>2, <1>5

LEMMA Pairs ==
  ASSUME NEW m \in Nat, NEW n \in Nat, NEW p \in Nat, NEW q \in Nat
  PROVE  <<m, n>> \o <<p, q>> = <<m, n, p, q>>
<1> DEFINE u == <<m, n>>
           x == <<p, q>>
           r == <<m, n, p, q>>
<1>1. u \in Seq(Nat) /\ Len(u) = 2 /\ u[1] = m /\ u[2] = n
  OBVIOUS
<1>2. x \in Seq(Nat) /\ Len(x) = 2 /\ x[1] = p /\ x[2] = q
  OBVIOUS
<1>3. r \in Seq(Nat) /\ Len(r) = 4 /\ r[1] = m /\ r[2] = n /\ r[3] = p /\ r[4] = q
  OBVIOUS
<1> HIDE DEF u, x, r
<1>4. /\ u \o x \in Seq(Nat)
      /\ Len(u \o x) = Len(u) + Len(x)
      /\ \A i \in 1 .. Len(u) + Len(x) :
            (u \o x)[i] = IF i <= Len(u) THEN u[i] ELSE x[i - Len(u)]
  BY <1>1, <1>2, ConcatProperties, Zenon
<1> DEFINE c == u \o x
<1>5. /\ c \in Seq(Nat) /\ Len(c) = 4
      /\ \A i \in 1..4 : c[i] = IF i <= 2 THEN u[i] ELSE x[i - 2]
  BY <1>1, <1>2, <1>4
<1> HIDE DEF c
<1>6. c[1] = m /\ c[2] = n /\ c[3] = p /\ c[4] = q
  BY <1>1, <1>2, <1>5
<1>7. \A i \in 1..4 : c[i] = r[i]
  BY <1>3, <1>6
<1>8. c = r
  BY <1>3, <1>5, <1>7, SeqEqual
<1> QED
  BY <1>8 DEF c, u, x, r

\* An interface that is an IPv4 address.
LEMMA MappedIpv4 ==
  ASSUME NEW ip4 \in Ipv4
  PROVE  LET x == Mapped4(ip4)
         IN  x \in Interface /\ LooksMapped(x) /\ ip4 = <<x[3], x[4]>>
<1>1. ip4[1] \in Nat /\ ip4[2] \in Nat /\ ip4[1] < 65536 /\ ip4[2] < 65536
  BY DEF Ipv4, Group
<1>2. ip4 = <<ip4[1], ip4[2]>>
  BY DEF Ipv4
<1>3. PICK p \in Nat, q \in Nat : p < 65536 /\ q < 65536 /\ ip4 = <<p, q>>
  BY <1>1, <1>2
<1>4. Mapped4(ip4) = <<0, 65535, p, q>>
  BY <1>3, Pairs DEF Mapped4
<1>5. <<0, 65535, p, q>> \in Interface
  BY <1>3 DEF Interface, Group
<1> QED
  BY <1>3, <1>4, <1>5 DEF LooksMapped

\* The fields of the upper half, with any interface.
LEMMA UpperFields ==
  ASSUME NEW isd \in Nat, isd < 4096, NEW e \in Nat, e < 1048576,
         NEW local \in Nat, local < 16777216, NEW x \in Interface
  PROVE  LET a == Upper(isd, e, local) \o x
         IN  /\ a \in Address
             /\ IsdOf(a) = isd /\ EncodedOf(a) = e /\ LocalOf(a) = local
             /\ InterfaceOf(a) = x /\ InScionNetwork(a)
<1> DEFINE p == 64512 + isd \div 16
           q == (isd % 16) * 4096 + e \div 256
           r == (e % 256) * 256 + local \div 65536
           s == local % 65536
           u == <<p, q, r, s>>
           a == u \o x
<1>1. Upper(isd, e, local) = u
  <2>1. isd \div 4096 = 0 /\ isd % 4096 = isd /\ isd \div 16 \in Nat
    OBVIOUS
  <2>2. (252 + (0 % 4)) * 256 = 64512
    OBVIOUS
  <2> QED
    BY <2>1, <2>2 DEF Upper
<1> SUFFICES /\ a \in Address
             /\ IsdOf(a) = isd /\ EncodedOf(a) = e /\ LocalOf(a) = local
             /\ InterfaceOf(a) = x /\ InScionNetwork(a)
  BY <1>1
<1>2. /\ isd \div 16 \in Nat /\ isd \div 16 < 256
      /\ isd % 16 \in Nat /\ isd % 16 < 16
      /\ e \div 256 \in Nat /\ e \div 256 < 4096
      /\ e % 256 \in Nat /\ e % 256 < 256
      /\ local \div 65536 \in Nat /\ local \div 65536 < 256
      /\ local % 65536 \in Nat /\ local % 65536 < 65536
      /\ (isd \div 16) * 16 + (isd % 16) = isd
      /\ (e \div 256) * 256 + (e % 256) = e
      /\ (local \div 65536) * 65536 + (local % 65536) = local
  OBVIOUS
<1>3. /\ p \in Nat /\ p < 65536 /\ q \in Nat /\ q < 65536
      /\ r \in Nat /\ r < 65536 /\ s \in Nat /\ s < 65536
  BY <1>2
<1>4. x = <<x[1], x[2], x[3], x[4]>> /\ \A i \in 1..4 : x[i] \in Nat /\ x[i] < 65536
  BY InterfaceIsSeq
<1>5. /\ a[1] = p /\ a[2] = q /\ a[3] = r /\ a[4] = s
      /\ a[5] = x[1] /\ a[6] = x[2] /\ a[7] = x[3] /\ a[8] = x[4]
      /\ Len(a) = 8 /\ a \in Seq(Nat)
  <2> HIDE DEF p, q, r, s
  <2>1. u \in Seq(Nat) /\ Len(u) = 4
    BY <1>3, Quad
  <2>2. x \in Seq(Nat) /\ Len(x) = 4
    BY InterfaceIsSeq
  <2>3. u[1] = p /\ u[2] = q /\ u[3] = r /\ u[4] = s
    OBVIOUS
  <2> HIDE DEF u
  <2> QED
    BY <2>1, <2>2, <2>3, Halves
<1> HIDE DEF p, q, r, s, a
<1>6. a \in Address
  BY <1>3, <1>4, <1>5 DEF Address, Group
<1>7. p % 256 = isd \div 16 /\ p \div 256 = 252
  BY <1>2 DEF p
<1>8. q \div 4096 = isd % 16 /\ q % 4096 = e \div 256
  BY <1>2 DEF q
<1>9. r \div 256 = e % 256 /\ r % 256 = local \div 65536
  BY <1>2 DEF r
<1>10. IsdOf(a) = isd /\ EncodedOf(a) = e /\ LocalOf(a) = local
  <2>1. a[1] = p /\ a[2] = q /\ a[3] = r /\ a[4] = local % 65536
    BY <1>5 DEF s
  <2>2. IsdOf(a) = (isd \div 16) * 16 + (isd % 16)
    BY <2>1, <1>7, <1>8 DEF IsdOf
  <2>3. EncodedOf(a) = (e \div 256) * 256 + (e % 256)
    BY <2>1, <1>8, <1>9 DEF EncodedOf
  <2>4. LocalOf(a) = (local \div 65536) * 65536 + (local % 65536)
    BY <2>1, <1>9 DEF LocalOf
  <2> QED
    BY <2>2, <2>3, <2>4
<1>11. InterfaceOf(a) = x /\ InScionNetwork(a)
  BY <1>4, <1>5, <1>7 DEF InterfaceOf, InScionNetwork
<1> QED
  BY <1>6, <1>10, <1>11

\* The key of the path cache is the ISD and the encoded AS number: the prefix
\* is left out.
LEMMA KeyOfAddress ==
  ASSUME NEW a \in Address
  PROVE  LET key == ScionAddr(a)
         IN  /\ key = <<IsdOf(a) * 16 + EncodedOf(a) \div 65536, EncodedOf(a) % 65536>>
             /\ key[1] \div 16 = IsdOf(a)
             /\ key[1] % 16 = EncodedOf(a) \div 65536
             /\ IsdOf(a) \in Nat /\ IsdOf(a) < 4096
             /\ EncodedOf(a) \in Nat /\ EncodedOf(a) < 1048576
<1>1. /\ a[1] \in Nat /\ a[1] < 65536 /\ a[2] \in Nat /\ a[2] < 65536
      /\ a[3] \in Nat /\ a[3] < 65536
  BY Groups
<1> DEFINE p == a[1] % 256
           h == a[2] \div 4096
           l == a[2] % 4096
           b == a[3] \div 256
           e == l * 256 + b
<1>2. /\ p \in Nat /\ p < 256 /\ h \in Nat /\ h < 16 /\ l \in Nat /\ l < 4096
      /\ b \in Nat /\ b < 256 /\ a[2] = h * 4096 + l
  BY <1>1
<1>3. IsdOf(a) = p * 16 + h /\ EncodedOf(a) = e
  BY DEF IsdOf, EncodedOf
<1> HIDE DEF p, h, l, b
<1>4. a[2] \div 256 = h * 16 + (l \div 256) /\ a[2] % 256 = l % 256
  <2>1. (h * 4096 + l) \div 256 = h * 16 + (l \div 256)
    BY <1>2
  <2>2. (h * 4096 + l) % 256 = l % 256
    BY <1>2
  <2> QED
    BY <1>2, <2>1, <2>2
<1>5. e \div 65536 = l \div 256 /\ e % 65536 = (l % 256) * 256 + b
  BY <1>2
<1>6. ScionAddr(a) = <<p * 256 + (h * 16 + l \div 256), (l % 256) * 256 + b>>
  BY <1>4 DEF ScionAddr, p, b
<1>7. p * 256 + (h * 16 + l \div 256) = (p * 16 + h) * 16 + e \div 65536
  BY <1>2, <1>5
<1>8. e \in Nat /\ e < 1048576 /\ e \div 65536 \in Nat /\ e \div 65536 < 16
      /\ p * 16 + h \in Nat /\ p * 16 + h < 4096
  BY <1>2
<1> HIDE DEF e
<1>9. /\ ((p * 16 + h) * 16 + e \div 65536) \div 16 = p * 16 + h
      /\ ((p * 16 + h) * 16 + e \div 65536) % 16 = e \div 65536
  BY <1>8
<1>10. ScionAddr(a) = <<(p * 16 + h) * 16 + e \div 65536, e % 65536>>
  BY <1>5, <1>6, <1>7
<1> QED
  BY <1>3, <1>8, <1>9, <1>10

\* PathService asks for the AS of an address exactly if the encoding is the
\* number itself.
LEMMA QueriedOfAddress ==
  ASSUME NEW a \in Address, NEW n \in AsNumber, Encodable(n), n = Decoded(EncodedOf(a))
  PROVE  LET q == QueriedIa(ScionAddr(a))
         IN  /\ q.isd = IsdOf(a)
             /\ n[1] = 0 => q = [isd |-> IsdOf(a), asn |-> n]
             /\ n[1] = 2 => q.asn = <<0, n[2] + 8, n[3]>> /\ q.asn # n
<1> DEFINE e == EncodedOf(a)
           isd == IsdOf(a)
<1>1. e \in Nat /\ e < 1048576
  BY KeyOfAddress
<1>2. QueriedIa(ScionAddr(a)) = [isd |-> isd, asn |-> <<0, e \div 65536, e % 65536>>]
  BY KeyOfAddress DEF QueriedIa
<1>3. n = <<IF e >= 524288 THEN 2 ELSE 0, (e % 524288) \div 65536, e % 65536>>
  BY DEF Decoded
<1> HIDE DEF e, isd
<1>4. CASE n[1] = 0
  <2>1. ~(e >= 524288)
    BY <1>3, <1>4
  <2>2. e % 524288 = e
    BY <1>1, <2>1
  <2>3. n = <<0, e \div 65536, e % 65536>>
    BY <1>3, <2>1, <2>2
  <2> QED
    BY <1>2, <1>4, <2>3 DEF isd
<1>5. CASE n[1] = 2
  <2>1. e >= 524288
    BY <1>3, <1>5
  <2>2. (e % 524288) \div 65536 + 8 = e \div 65536
    BY <1>1, <2>1
  <2>3. <<0, e \div 65536, e % 65536>> = <<0, n[2] + 8, n[3]>>
    BY <1>3, <2>2
  <2>4. <<0, n[2] + 8, n[3]>> # n
    BY <1>5
  <2> QED
    BY <1>2, <1>5, <2>3, <2>4 DEF isd
<1> QED
  BY <1>2, <1>4, <1>5 DEF isd, Encodable
=============================================================================
