--------------------------- MODULE Converter_proofs ---------------------------
(***************************************************************************)
(* scion2ip and ip2scion undo each other, and the translators agree with   *)
(* them, for everything that scion2ip may be given.                        *)
(***************************************************************************)
EXTENDS Converter, AddressMapping_proofs

\* A subnet of n bits and the prefix before it fill 24 bits.
Share(n) ==
  2^n \in Nat /\ 2^n > 0 /\ 2^(24 - n) \in Nat /\ 2^n * 2^(24 - n) = 16777216

LEMMA Shares0 == Share(0) /\ Share(1) /\ Share(2) /\ Share(3) /\ Share(4) /\ Share(5)
  BY DEF Share

LEMMA Shares6 == Share(6) /\ Share(7) /\ Share(8) /\ Share(9) /\ Share(10) /\ Share(11)
  BY DEF Share

LEMMA Shares12 == Share(12) /\ Share(13) /\ Share(14) /\ Share(15) /\ Share(16) /\ Share(17)
  BY DEF Share

LEMMA Shares18 == /\ Share(18) /\ Share(19) /\ Share(20) /\ Share(21) /\ Share(22)
                  /\ Share(23) /\ Share(24)
  BY DEF Share

LEMMA Shares ==
  ASSUME NEW b \in 0..24
  PROVE  Share(b)
<1>1. \/ b = 0 \/ b = 1 \/ b = 2 \/ b = 3 \/ b = 4 \/ b = 5 \/ b = 6
      \/ b = 7 \/ b = 8 \/ b = 9 \/ b = 10 \/ b = 11 \/ b = 12
      \/ b = 13 \/ b = 14 \/ b = 15 \/ b = 16 \/ b = 17 \/ b = 18
      \/ b = 19 \/ b = 20 \/ b = 21 \/ b = 22 \/ b = 23 \/ b = 24
  OBVIOUS
<1> QED
  BY <1>1, Shares0, Shares6, Shares12, Shares18

\* A local number of 24 bits that is made of this prefix and this subnet.
Holds(local, b, prefix, subnet) ==
  /\ local \in Nat /\ local < 16777216
  /\ local \div 2^b = prefix /\ local % 2^b = subnet
  /\ local = 0 <=> prefix = 0 /\ subnet = 0

\* Prefix and subnet of any lengths fill 24 bits and are found there again.
LEMMA LocalFields ==
  ASSUME NEW b \in 0..24, NEW prefix \in Nat, prefix < 2^(24 - b),
         NEW subnet \in Nat, subnet < 2^b
  PROVE  Holds(prefix * 2^b + subnet, b, prefix, subnet)
<1> DEFINE S == 2^b
           P == 2^(24 - b)
<1>1. S \in Nat /\ S > 0 /\ P \in Nat /\ S * P = 16777216 /\ prefix < P /\ subnet < S
  <2>1. Share(b)
    BY Shares
  <2> QED
    BY <2>1 DEF Share
<1> HIDE DEF S, P
<1>2. prefix * S + subnet \in Nat
  BY <1>1
<1>3. prefix * S + subnet < 16777216
  <2>1. prefix + 1 <= P
    BY <1>1
  <2>2. (prefix + 1) * S <= P * S
    BY <1>1, <2>1
  <2>3. (prefix + 1) * S = prefix * S + S
    BY <1>1
  <2> QED
    BY <1>1, <2>2, <2>3
<1>4. (prefix * S + subnet) \div S = prefix /\ (prefix * S + subnet) % S = subnet
  BY <1>1
<1>5. prefix * S + subnet = 0 <=> prefix = 0 /\ subnet = 0
  BY <1>1
<1> QED
  BY <1>2, <1>3, <1>4, <1>5 DEF S, Holds

\* An interface of 64 bits, with an IPv4 address if that was given.
FullInterface(x) == IF Len(x) = 2 THEN Mapped4(x) ELSE x

\* It is an IPv4 address again just if it was one or looks like one.
Extended(x) ==
  /\ FullInterface(x) \in Interface
  /\ Len(x) = 2 \/ Len(x) = 4
  /\ Len(x) = 2 => /\ LooksMapped(FullInterface(x))
                   /\ x = <<FullInterface(x)[3], FullInterface(x)[4]>>
  /\ Len(x) = 4 => FullInterface(x) = x
  /\ Len(x) = 4 /\ LooksMapped(x) => Mapped4(<<x[3], x[4]>>) = x

LEMMA Interfaces ==
  ASSUME NEW x \in Ipv4 \union Interface
  PROVE  Extended(x)
<1>1. CASE x \in Ipv4
  <2>1. Len(x) = 2
    BY <1>1 DEF Ipv4
  <2> QED
    BY <1>1, <2>1, MappedIpv4 DEF FullInterface, Extended
<1>2. CASE x \in Interface
  <2>1. Len(x) = 4 /\ x = <<x[1], x[2], x[3], x[4]>>
    BY <1>2, InterfaceIsSeq
  <2>2. x[3] \in Nat /\ x[4] \in Nat
    BY <1>2, InterfaceIsSeq
  <2>3. Mapped4(<<x[3], x[4]>>) = <<0, 65535, x[3], x[4]>>
    BY <2>2, Pairs DEF Mapped4
  <2> QED
    BY <1>2, <2>1, <2>3 DEF FullInterface, LooksMapped, Extended
<1> QED
  BY <1>1, <1>2

----------------------------------------------------------------------------
LocalNumber(c) == c.prefix * 2^c.bits + c.subnet

\* What scion2ip may be given, and what it checks.
LEMMA Checked ==
  ASSUME NEW c \in Conversions, AddressOf(c) # Error
  PROVE  /\ c.isd \in Nat /\ c.asn \in AsNumber /\ Encodable(c.asn)
         /\ c.interface \in Ipv4 \union Interface /\ c.bits \in 0..24
         /\ c.prefix \in Nat /\ c.prefix < 2^(24 - c.bits)
         /\ c.subnet \in Nat /\ c.subnet < 2^c.bits
         /\ Len(c.interface) = 2 => c.prefix = 0 /\ c.subnet = 0
         /\ AddressOf(c) = Upper(c.isd, Encoded(c.asn), LocalNumber(c))
                             \o FullInterface(c.interface)
<1>1. /\ c.isd \in Nat /\ c.asn \in AsNumber /\ c.interface \in Ipv4 \union Interface
      /\ c.bits \in 0..24 /\ c.prefix \in Nat /\ c.subnet \in Nat
  BY ConversionAssumption DEF Group
<1>2. /\ Encodable(c.asn) /\ c.prefix < 2^(24 - c.bits) /\ c.subnet < 2^c.bits
      /\ Len(c.interface) = 2 => c.prefix = 0 /\ c.subnet = 0
  BY DEF AddressOf, S2ip
<1>3. AddressOf(c) = Upper(c.isd, Encoded(c.asn), LocalNumber(c))
                      \o FullInterface(c.interface)
  BY <1>2 DEF AddressOf, S2ip, LocalNumber, FullInterface
<1> QED
  BY <1>1, <1>2, <1>3

\* The parts of which scion2ip makes an address.
LEMMA Parts ==
  ASSUME NEW c \in Conversions, AddressOf(c) # Error
  PROVE  /\ c.isd \in Nat
         /\ Encoded(c.asn) \in Nat /\ Encoded(c.asn) < 1048576
         /\ Decoded(Encoded(c.asn)) = c.asn
         /\ Holds(LocalNumber(c), c.bits, c.prefix, c.subnet)
         /\ Extended(c.interface)
<1>1. c.isd \in Nat /\ c.asn \in AsNumber /\ Encodable(c.asn)
  BY Checked
<1>2. c.interface \in Ipv4 \union Interface
  BY Checked
<1>3. /\ c.bits \in 0..24 /\ c.prefix \in Nat /\ c.prefix < 2^(24 - c.bits)
      /\ c.subnet \in Nat /\ c.subnet < 2^c.bits
  BY Checked
<1>4. Extended(c.interface)
  BY <1>2, Interfaces, Zenon
<1>5. Holds(LocalNumber(c), c.bits, c.prefix, c.subnet)
  BY <1>3, LocalFields, Zenon DEF LocalNumber
<1>6. /\ Encoded(c.asn) \in Nat /\ Encoded(c.asn) < 1048576
      /\ Decoded(Encoded(c.asn)) = c.asn
  BY <1>1, DecodedEncoded
<1> QED
  BY <1>1, <1>4, <1>5, <1>6

\* The fields of an address made by scion2ip.
LEMMA MappedFields ==
  ASSUME NEW c \in Conversions, AddressOf(c) # Error, c.isd < 4096
  PROVE  LET a == AddressOf(c)
         IN  /\ a \in Address /\ InScionNetwork(a)
             /\ IsdOf(a) = c.isd /\ Decoded(EncodedOf(a)) = c.asn
             /\ LocalOf(a) = LocalNumber(c)
             /\ LocalOf(a) \div 2^c.bits = c.prefix /\ LocalOf(a) % 2^c.bits = c.subnet
             /\ LocalOf(a) = 0 <=> c.prefix = 0 /\ c.subnet = 0
             /\ InterfaceOf(a) = FullInterface(c.interface)
<1> DEFINE a == AddressOf(c)
           e == Encoded(c.asn)
           x == FullInterface(c.interface)
           l == LocalNumber(c)
<1>1. c.isd \in Nat /\ e \in Nat /\ e < 1048576 /\ Decoded(e) = c.asn
  BY Parts
<1>2. Holds(l, c.bits, c.prefix, c.subnet)
  BY Parts
<1>3. x \in Interface
  <2>1. Extended(c.interface)
    BY Parts
  <2> QED
    BY <2>1 DEF Extended
<1>4. a = Upper(c.isd, e, l) \o x
  BY Checked
<1> HIDE DEF a, e, x, l
<1>5. /\ a \in Address /\ InScionNetwork(a) /\ IsdOf(a) = c.isd
      /\ EncodedOf(a) = e /\ LocalOf(a) = l /\ InterfaceOf(a) = x
  BY <1>1, <1>2, <1>3, <1>4, UpperFields DEF Holds
<1>6. Decoded(EncodedOf(a)) = c.asn
  BY <1>1, <1>5
<1>7. /\ LocalOf(a) \div 2^c.bits = c.prefix /\ LocalOf(a) % 2^c.bits = c.subnet
      /\ LocalOf(a) = 0 <=> c.prefix = 0 /\ c.subnet = 0
  BY <1>2, <1>5 DEF Holds
<1> QED
  BY <1>5, <1>6, <1>7 DEF a, x, l

\* What may be shown of c, and what address it may have.
ShownOf(c) ==
  {Tuple(c)} \union
  {t \in {[Tuple(c) EXCEPT !.interface = <<c.interface[3], c.interface[4]>>]} :
     ShownAsIpv4(c.interface)}

AddressesOf(c) ==
  {AddressOf(c)} \union
  {a \in {Error} : ShownAsIpv4(c.interface) /\ (c.prefix # 0 \/ c.subnet # 0)}

LEMMA ShownAgain ==
  ASSUME NEW c \in Conversions, AddressOf(c) # Error, c.isd < 4096
  PROVE  Ip2s(AddressOf(c), c.bits) \in ShownOf(c)
<1> DEFINE a == AddressOf(c)
           x == FullInterface(c.interface)
<1>1. /\ IsdOf(a) = c.isd /\ Decoded(EncodedOf(a)) = c.asn
      /\ LocalOf(a) \div 2^c.bits = c.prefix /\ LocalOf(a) % 2^c.bits = c.subnet
      /\ InterfaceOf(a) = x
  BY MappedFields
<1>2. a[7] = x[3] /\ a[8] = x[4]
  BY <1>1 DEF InterfaceOf
<1>3. Ip2s(a, c.bits) =
        [isd |-> c.isd, asn |-> c.asn, prefix |-> c.prefix, subnet |-> c.subnet,
         interface |-> IF LooksMapped(x) THEN <<x[3], x[4]>> ELSE x]
  BY <1>1, <1>2 DEF Ip2s
<1>4. Extended(c.interface)
  BY Parts
<1>5. CASE Len(c.interface) = 2
  <2>1. LooksMapped(x) /\ <<x[3], x[4]>> = c.interface
    BY <1>4, <1>5 DEF Extended
  <2> QED
    BY <1>3, <2>1 DEF ShownOf, Tuple
<1>6. CASE Len(c.interface) = 4
  <2>1. x = c.interface
    BY <1>4, <1>6 DEF Extended
  <2> QED
    BY <1>3, <1>6, <2>1 DEF ShownOf, Tuple, ShownAsIpv4
<1> QED
  BY <1>4, <1>5, <1>6 DEF Extended

LEMMA MadeAgain ==
  ASSUME NEW c \in Conversions, AddressOf(c) # Error, NEW t \in ShownOf(c)
  PROVE  S2ip(t.isd, t.asn, t.prefix, t.subnet, t.interface, c.bits) \in AddressesOf(c)
<1>1. CASE t = Tuple(c)
  BY <1>1 DEF AddressesOf, AddressOf, Tuple
<1>2. CASE /\ ShownAsIpv4(c.interface)
           /\ t = [Tuple(c) EXCEPT !.interface = <<c.interface[3], c.interface[4]>>]
  <2> DEFINE y == <<c.interface[3], c.interface[4]>>
  <2>1. /\ t.isd = c.isd /\ t.asn = c.asn /\ t.prefix = c.prefix /\ t.subnet = c.subnet
        /\ t.interface = y
    BY <1>2 DEF Tuple
  <2>2. Len(y) = 2
    OBVIOUS
  <2>3. Mapped4(y) = c.interface /\ Len(c.interface) = 4
    BY <1>2, Parts DEF ShownAsIpv4, Extended
  <2> HIDE DEF y
  <2>4. CASE c.prefix = 0 /\ c.subnet = 0
    <3>1. S2ip(c.isd, c.asn, c.prefix, c.subnet, y, c.bits)
            = S2ip(c.isd, c.asn, c.prefix, c.subnet, c.interface, c.bits)
      BY <2>2, <2>3, <2>4 DEF S2ip
    <3> QED
      BY <2>1, <3>1 DEF AddressesOf, AddressOf
  <2>5. CASE c.prefix # 0 \/ c.subnet # 0
    <3>1. S2ip(c.isd, c.asn, c.prefix, c.subnet, y, c.bits) = Error
      BY <2>2, <2>5 DEF S2ip
    <3> QED
      BY <1>2, <2>1, <2>5, <3>1 DEF AddressesOf
  <2> QED
    BY <2>4, <2>5
<1> QED
  BY <1>1, <1>2 DEF ShownOf

----------------------------------------------------------------------------
\* What scion2ip was given, and what was made of it.
ConverterInv ==
  /\ given = None \/ given \in Conversions
  /\ Mapped => shown \in ShownOf(given) /\ address \in AddressesOf(given)

LEMMA InvGives == ConverterInv => ConvertedBack
  BY DEF ConverterInv, ConvertedBack, ShownOf, AddressesOf

LEMMA ConverterInvariant == ConverterSpec => []ConverterInv
<1>1. ConverterInit => ConverterInv
  BY DEF ConverterInit, ConverterInv, Mapped
<1>2. ConverterInv /\ [ConverterNext]_converterVars => ConverterInv'
  <2> SUFFICES ASSUME ConverterInv, [ConverterNext]_converterVars
               PROVE  ConverterInv'
    OBVIOUS
  <2>1. ASSUME NEW c \in Conversions, Convert(c)
        PROVE  ConverterInv'
    BY <2>1 DEF Convert, ConverterInv, ShownOf, AddressesOf
  <2>2. CASE ConvertBack
    <3>1. /\ given \in Conversions /\ address # Error
          /\ shown' = Ip2s(address, given.bits)
          /\ given' = given /\ address' = address
      BY <2>2 DEF ConvertBack, ConverterInv
    <3>2. SUFFICES ASSUME Mapped
                   PROVE  shown' \in ShownOf(given) /\ address' \in AddressesOf(given)
      BY <3>1 DEF ConverterInv, Mapped
    <3>3. address = AddressOf(given) /\ AddressOf(given) # Error /\ given.isd < 4096
      BY <3>1, <3>2 DEF ConverterInv, AddressesOf, Mapped
    <3>4. Ip2s(address, given.bits) \in ShownOf(given)
      BY <3>1, <3>3, ShownAgain
    <3> QED
      BY <3>1, <3>2, <3>4 DEF ConverterInv
  <2>3. CASE ConvertAgain
    <3>1. /\ given \in Conversions /\ given' = given /\ shown' = shown
          /\ address' = S2ip(shown.isd, shown.asn, shown.prefix, shown.subnet,
                             shown.interface, given.bits)
      BY <2>3 DEF ConvertAgain, ConverterInv
    <3>2. SUFFICES ASSUME Mapped
                   PROVE  shown' \in ShownOf(given) /\ address' \in AddressesOf(given)
      BY <3>1 DEF ConverterInv, Mapped
    <3>3. shown \in ShownOf(given) /\ AddressOf(given) # Error
      BY <3>2 DEF ConverterInv, Mapped
    <3>4. address' \in AddressesOf(given)
      BY <3>1, <3>3, MadeAgain
    <3> QED
      BY <3>1, <3>3, <3>4
  <2>4. CASE UNCHANGED converterVars
    BY <2>4 DEF converterVars, ConverterInv, Mapped
  <2> QED
    BY <2>1, <2>2, <2>3, <2>4 DEF ConverterNext
<1> QED
  BY <1>1, <1>2, PTL DEF ConverterSpec

\* Whatever scion2ip is given, ip2scion shows it again, however often both are
\* called, but for interfaces that look like IPv4 addresses.
THEOREM ConversionUndone == ConverterSpec => []ConvertedBack
  BY ConverterInvariant, InvGives, PTL

\* The same IPv4 address or none, the same AS, the same subnet of 8 bits.
LEMMA Agreement ==
  ASSUME ConverterInv
  PROVE  TranslatorAgrees
<1> SUFFICES ASSUME Mapped PROVE TranslatorAgrees
  BY DEF TranslatorAgrees
<1> DEFINE c == given
           a == AddressOf(c)
           u == UnmapIpv6(a)
           x == FullInterface(c.interface)
<1>1. c \in Conversions /\ AddressOf(c) # Error /\ c.isd < 4096
  BY DEF ConverterInv, Mapped
<1>2. /\ InScionNetwork(a) /\ IsdOf(a) = c.isd /\ Decoded(EncodedOf(a)) = c.asn
      /\ LocalOf(a) \div 2^c.bits = c.prefix /\ LocalOf(a) % 2^c.bits = c.subnet
      /\ LocalOf(a) = 0 <=> c.prefix = 0 /\ c.subnet = 0
      /\ InterfaceOf(a) = x /\ LocalOf(a) = LocalNumber(c)
  BY <1>1, MappedFields
<1>3. /\ u.isd = c.isd /\ u.asn = c.asn
      /\ u.prefix = LocalOf(a) \div 256 /\ u.subnet = LocalOf(a) % 256
  BY <1>2 DEF UnmapIpv6
<1>0. u.ip4 <=> LooksMapped(x) /\ c.prefix = 0 /\ c.subnet = 0
  <2>1. u.ip4 = (LooksMapped(InterfaceOf(a)) /\ LocalOf(a) = 0)
    BY DEF UnmapIpv6
  <2> HIDE DEF u
  <2> QED
    BY <1>2, <2>1
<1>4. c.bits = 8 => u.prefix = c.prefix /\ u.subnet = c.subnet
  <2>1. 2^8 = 256
    OBVIOUS
  <2> QED
    BY <1>2, <1>3, <2>1
<1>5. Extended(c.interface) /\ (Len(c.interface) = 2 => c.prefix = 0 /\ c.subnet = 0)
  BY <1>1, Parts, Checked
<1>6. u.ip4 <=> \/ Len(c.interface) = 2
                \/ LooksMapped(c.interface) /\ c.prefix = 0 /\ c.subnet = 0
  <2> HIDE DEF u, x
  <2>1. CASE Len(c.interface) = 2
    BY <1>0, <1>5, <2>1 DEF Extended, x
  <2>2. CASE Len(c.interface) = 4
    BY <1>0, <1>5, <2>2 DEF Extended, x
  <2> QED
    BY <1>5, <2>1, <2>2 DEF Extended
<1>7. ASSUME u.ip4
      PROVE  a = MapIpv4(u.isd, u.asn, <<a[7], a[8]>>)
  <2>1. x \in Interface /\ LooksMapped(x) /\ c.prefix = 0 /\ c.subnet = 0
    BY <1>0, <1>5, <1>7 DEF Extended
  <2>2. a[7] = x[3] /\ a[8] = x[4]
    BY <1>2 DEF InterfaceOf
  <2>3. Mapped4(<<x[3], x[4]>>) = x
    <3>1. Extended(x) /\ Len(x) = 4
      BY <2>1, Interfaces, InterfaceIsSeq
    <3> QED
      BY <2>1, <3>1 DEF Extended
  <2>4. a = Upper(c.isd, Encoded(c.asn), LocalNumber(c)) \o x /\ Encodable(c.asn)
    BY <1>1, Checked
  <2>5. LocalNumber(c) = 0
    BY <1>2, <2>1
  <2> HIDE DEF a, x, u
  <2>6. Mapped4(<<a[7], a[8]>>) = x
    BY <2>2, <2>3
  <2>7. MapIpv4(c.isd, c.asn, <<a[7], a[8]>>)
          = Upper(c.isd, Encoded(c.asn), 0) \o Mapped4(<<a[7], a[8]>>)
    <3> DEFINE fits == c.isd < 4096 /\ Encodable(c.asn)
               m == Upper(c.isd, Encoded(c.asn), 0) \o Mapped4(<<a[7], a[8]>>)
    <3>1. MapIpv4(c.isd, c.asn, <<a[7], a[8]>>) = IF fits THEN m ELSE Error
      BY DEF MapIpv4
    <3>2. fits
      BY <1>1, <2>4
    <3> HIDE DEF fits, m
    <3>3. MapIpv4(c.isd, c.asn, <<a[7], a[8]>>) = m
      BY <3>1, <3>2, Zenon
    <3> QED
      BY <3>3 DEF m
  <2> QED
    BY <1>3, <2>4, <2>5, <2>6, <2>7
<1> QED
  BY <1>2, <1>3, <1>4, <1>6, <1>7 DEF TranslatorAgrees

\* scitun.py and scion2ip agree on every address scion2ip makes.
THEOREM TranslatorsAgree == ConverterSpec => []TranslatorAgrees
  BY ConverterInvariant, Agreement, PTL

\* The key stands for the AS that was meant, and PathService asks for that one
\* just if it has a BGP number.
LEMMA KeyOfConversion ==
  ASSUME ConverterInv
  PROVE  KeyIsAs
<1> SUFFICES ASSUME Mapped PROVE KeyIsAs
  BY DEF KeyIsAs
<1> DEFINE c == given
           a == AddressOf(c)
           key == ScionAddr(a)
           e == EncodedOf(a)
           ia == [isd |-> c.isd, asn |-> c.asn]
<1>1. c \in Conversions /\ AddressOf(c) # Error /\ c.isd < 4096
  BY DEF ConverterInv, Mapped
<1>2. a \in Address /\ IsdOf(a) = c.isd /\ Decoded(e) = c.asn
  BY <1>1, MappedFields
<1>3. c.asn \in AsNumber /\ Encodable(c.asn)
  BY <1>1, Checked
<1>4. /\ key = <<IsdOf(a) * 16 + e \div 65536, e % 65536>>
      /\ key[1] \div 16 = IsdOf(a) /\ key[1] % 16 = e \div 65536
      /\ e \in Nat /\ e < 1048576
  BY <1>2, KeyOfAddress
<1>5. (key[1] % 16) * 65536 + key[2] = e
  <2>1. key[1] % 16 = e \div 65536 /\ key[2] = e % 65536 /\ e \in Nat
    BY <1>4
  <2>2. (e \div 65536) * 65536 + (e % 65536) = e
    BY <2>1
  <2> QED
    BY <2>1, <2>2
<1>6. ia = [isd |-> key[1] \div 16, asn |-> Decoded((key[1] % 16) * 65536 + key[2])]
  BY <1>2, <1>4, <1>5
<1>7. /\ QueriedIa(key).isd = c.isd
      /\ c.asn[1] = 0 => QueriedIa(key) = ia
      /\ c.asn[1] = 2 => /\ QueriedIa(key).asn = <<0, c.asn[2] + 8, c.asn[3]>>
                         /\ QueriedIa(key).asn # c.asn
  BY <1>2, <1>3, QueriedOfAddress
<1>8. c.asn[1] = 0 \/ c.asn[1] = 2
  BY <1>3 DEF Encodable
<1>9. QueriedIa(key) = ia <=> c.asn[1] = 0
  BY <1>7, <1>8
<1>10. c.asn[1] = 2 => QueriedIa(key) = [ia EXCEPT !.asn = <<0, c.asn[2] + 8, c.asn[3]>>]
  BY <1>7 DEF QueriedIa
<1> QED
  BY <1>6, <1>9, <1>10 DEF KeyIsAs

\* What the path cache and PathService make of an address of scion2ip.
THEOREM KeyMeansAs == ConverterSpec => []KeyIsAs
  BY ConverterInvariant, KeyOfConversion, PTL
=============================================================================
