--------------------------- MODULE AddressMapping ---------------------------
(***************************************************************************)
(* SCION-mapped IPv6 addresses: a prefix of 8 bits, the ISD in 12, the AS  *)
(* in 20, local prefix and subnet in 24 and the interface in 64 bits.      *)
(* scion2ip and scitun.py make and take apart such addresses, the eBPF     *)
(* programs take a key out of them and PathService an AS out of the key.   *)
(*                                                                         *)
(* Numbers wider than 31 bits are sequences of 16-bit groups, the highest  *)
(* first: an address has eight, an IPv4 address two, an interface four,    *)
(* an AS number three, a key two.                                          *)
(***************************************************************************)
EXTENDS Integers, Sequences

Group == {n \in Nat : n < 65536}
AsNumber == [1..3 -> Group]
Ipv4 == [1..2 -> Group]
Interface == [1..4 -> Group]
Address == [1..8 -> Group]
Error == <<>>

\* Half the AS numbers of 20 bits stand for themselves, the other half for
\* 2:0:0 to 2:7:ffff.
Encodable(n) == n[1] \in {0, 2} /\ n[2] < 8

Encoded(n) == (IF n[1] = 2 THEN 524288 ELSE 0) + n[2] * 65536 + n[3]

Decoded(e) ==
  <<IF e >= 524288 THEN 2 ELSE 0, (e % 524288) \div 65536, e % 65536>>

\* The upper half of an address.  An ISD of more than 12 bits is or-ed into
\* the prefix.
Upper(isd, e, local) ==
  <<(252 + ((isd \div 4096) % 4)) * 256 + (isd % 4096) \div 16,
    (isd % 16) * 4096 + e \div 256,
    (e % 256) * 256 + local \div 65536,
    local % 65536>>

\* An interface that is an IPv4 address.
Mapped4(ip4) == <<0, 65535>> \o ip4
LooksMapped(interface) == interface[1] = 0 /\ interface[2] = 65535

IsdOf(a) == (a[1] % 256) * 16 + a[2] \div 4096
EncodedOf(a) == (a[2] % 4096) * 256 + a[3] \div 256
LocalOf(a) == (a[3] % 256) * 65536 + a[4]
InterfaceOf(a) == <<a[5], a[6], a[7], a[8]>>

\* Is the address in fc00::/8?
InScionNetwork(a) == a[1] \div 256 = 252

----------------------------------------------------------------------------
(***************************************************************************)
(* scitun.py                                                               *)
(***************************************************************************)

MapIpv4(isd, asn, ip4) ==
  IF isd < 4096 /\ Encodable(asn)
  THEN Upper(isd, Encoded(asn), 0) \o Mapped4(ip4)
  ELSE Error

\* Faulty variant: the local prefix is not looked at.
UnmapIpv6Prefix(a) ==
  [isd |-> IsdOf(a), asn |-> Decoded(EncodedOf(a)),
   prefix |-> LocalOf(a) \div 256, subnet |-> LocalOf(a) % 256,
   ip4 |-> LooksMapped(InterfaceOf(a)) /\ LocalOf(a) % 256 = 0]

\* unmap_ipv6 with the default of 8 bits for the subnet, for an address in
\* fc00::/8.  ip4: the interface is returned as an IPv4 address.
UnmapIpv6(a) ==
  [isd |-> IsdOf(a), asn |-> Decoded(EncodedOf(a)),
   prefix |-> LocalOf(a) \div 256, subnet |-> LocalOf(a) % 256,
   ip4 |-> LooksMapped(InterfaceOf(a)) /\ LocalOf(a) = 0]

----------------------------------------------------------------------------
(***************************************************************************)
(* scion2ip.  The interface is two groups, an IPv4 address, or four.       *)
(***************************************************************************)

\* Faulty variant: it is not checked that the subnet has no more bits than given.
S2ipWideSubnet(isd, asn, prefix, subnet, interface, subnetBits) ==
  IF /\ Encodable(asn) /\ prefix < 2^(24 - subnetBits)
     /\ Len(interface) = 2 => prefix = 0 /\ subnet = 0
  THEN Upper(isd, Encoded(asn), prefix * 2^subnetBits + subnet)
         \o (IF Len(interface) = 2 THEN Mapped4(interface) ELSE interface)
  ELSE Error

\* The ISD is not checked: the exception for one that does not fit is
\* created and not raised.
S2ip(isd, asn, prefix, subnet, interface, subnetBits) ==
  IF /\ Encodable(asn)
     /\ prefix < 2^(24 - subnetBits) /\ subnet < 2^subnetBits
     /\ Len(interface) = 2 => prefix = 0 /\ subnet = 0
  THEN Upper(isd, Encoded(asn), prefix * 2^subnetBits + subnet)
         \o (IF Len(interface) = 2 THEN Mapped4(interface) ELSE interface)
  ELSE Error

Ip2s(a, subnetBits) ==
  [isd |-> IsdOf(a), asn |-> Decoded(EncodedOf(a)),
   prefix |-> LocalOf(a) \div 2^subnetBits, subnet |-> LocalOf(a) % 2^subnetBits,
   interface |-> IF LooksMapped(InterfaceOf(a)) THEN <<a[7], a[8]>> ELSE InterfaceOf(a)]

----------------------------------------------------------------------------
(***************************************************************************)
(* The eBPF prototype                                                      *)
(***************************************************************************)

\* Faulty variant: the second word is shifted by two bytes.
ScionAddrShort(a) ==
  <<(a[1] % 256) * 256 + a[2] \div 256, (a[2] % 256) * 256 + a[3] \div 4096>>

\* get_scion_addr: the 32 bits behind the prefix.
ScionAddr(a) ==
  <<(a[1] % 256) * 256 + a[2] \div 256, (a[2] % 256) * 256 + a[3] \div 256>>

\* Faulty variant: the ISD is looked for four bits higher.
QueriedIaShifted(key) ==
  [isd |-> key[1] \div 256, asn |-> <<0, key[1] % 16, key[2]>>]

\* The ISD-AS PathService::getPaths asks for: the lower 20 bits of the key are
\* taken for the AS number.
QueriedIa(key) ==
  [isd |-> key[1] \div 16, asn |-> <<0, key[1] % 16, key[2]>>]

=============================================================================
