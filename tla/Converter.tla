------------------------------ MODULE Converter ------------------------------
(***************************************************************************)
(* scion2ip and ip2scion, called one after the other: an address made of   *)
(* what a user gave is taken apart, put together again from what was       *)
(* shown, and so on.  What the other programs make of the address is       *)
(* compared with what the user meant.                                      *)
(***************************************************************************)
EXTENDS AddressMapping

CONSTANTS
  Conversions,  \* what scion2ip may be given
  None          \* it has not been called

ASSUME ConversionAssumption ==
  /\ None \notin Conversions
  /\ \A c \in Conversions :
       /\ c.isd \in Group /\ c.asn \in AsNumber /\ c.interface \in Ipv4 \union Interface
       /\ c.bits \in 0..24 /\ c.prefix \in Nat /\ c.subnet \in Nat

VARIABLES
  given,     \* what scion2ip was called with first
  address,   \* the address it made last, or Error
  shown      \* what ip2scion showed last; at first what was given
converterVars == <<given, address, shown>>

AddressOf(c) == S2ip(c.isd, c.asn, c.prefix, c.subnet, c.interface, c.bits)
Tuple(c) ==
  [isd |-> c.isd, asn |-> c.asn, prefix |-> c.prefix, subnet |-> c.subnet,
   interface |-> c.interface]

ConverterInit == given = None /\ address = Error /\ shown = None

Convert(c) ==
  /\ given' = c /\ address' = AddressOf(c) /\ shown' = Tuple(c)

ConvertBack ==
  /\ given # None /\ address # Error
  /\ shown' = Ip2s(address, given.bits)
  /\ UNCHANGED <<given, address>>

ConvertAgain ==
  /\ given # None /\ address # Error
  /\ address' = S2ip(shown.isd, shown.asn, shown.prefix, shown.subnet, shown.interface,
                     given.bits)
  /\ UNCHANGED <<given, shown>>

ConverterNext ==
  \/ given = None /\ \E c \in Conversions : Convert(c)
  \/ ConvertBack
  \/ ConvertAgain
ConverterSpec == ConverterInit /\ [][ConverterNext]_converterVars

----------------------------------------------------------------------------
\* The ISD that was given has 12 bits, which is not checked, and the rest could
\* be converted.
Mapped == given # None /\ given.isd < 4096 /\ AddressOf(given) # Error

\* An interface of 64 bits that is shown as an IPv4 address.
ShownAsIpv4(interface) == Len(interface) = 4 /\ LooksMapped(interface)

\* What was given is shown again, whatever the length of the subnet, and the
\* address stays the same, however often it is converted.  Only an interface
\* that looks like an IPv4 address becomes one (ip2s), and with a prefix or
\* subnet that is refused afterwards (s2ip).
ConvertedBack ==
  Mapped =>
    /\ \/ shown = Tuple(given)
       \/ /\ ShownAsIpv4(given.interface)
          /\ shown = [Tuple(given) EXCEPT
                        !.interface = <<given.interface[3], given.interface[4]>>]
    /\ \/ address = AddressOf(given)
       \/ /\ address = Error /\ ShownAsIpv4(given.interface)
          /\ given.prefix # 0 \/ given.subnet # 0

\* scitun.py and scion2ip mean the same by an address: the same AS, the same
\* subnet if it has 8 bits, the same IPv4 address.  An interface that looks like
\* one is none for scitun.py if there is a prefix or subnet.
TranslatorAgrees ==
  Mapped =>
    LET a == AddressOf(given)
        u == UnmapIpv6(a)
    IN  /\ InScionNetwork(a)
        /\ u.isd = given.isd /\ u.asn = given.asn
        /\ given.bits = 8 => u.prefix = given.prefix /\ u.subnet = given.subnet
        /\ u.ip4 <=> \/ Len(given.interface) = 2
                     \/ /\ LooksMapped(given.interface)
                        /\ given.prefix = 0 /\ given.subnet = 0
        /\ u.ip4 => a = MapIpv4(u.isd, u.asn, <<a[7], a[8]>>)

\* The key of the eBPF programs' path cache (get_scion_addr) stands for one
\* ISD-AS.  PathService asks for that one if it has a BGP number; the others
\* it takes for numbers between 2^19 and 2^20, which are of other ASes.
KeyIsAs ==
  Mapped =>
    LET key == ScionAddr(AddressOf(given))
        ia == [isd |-> given.isd, asn |-> given.asn]
    IN  /\ ia = [isd |-> key[1] \div 16,
                 asn |-> Decoded((key[1] % 16) * 65536 + key[2])]
        /\ QueriedIa(key) = ia <=> given.asn[1] = 0
        /\ given.asn[1] = 2 =>
             QueriedIa(key) = [ia EXCEPT !.asn = <<0, given.asn[2] + 8, given.asn[3]>>]
=============================================================================
