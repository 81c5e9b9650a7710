------------------------------ MODULE MCInterop ------------------------------
EXTENDS Interop, Converter, AsnText

CONSTANTS e1, e2, e3, s6, s4a, s4c

\* ISD-ASes 1-64512 and 1-64513 with IPv6 routers, and 1-2:0:5 with IPv4 ones.
A == [isd |-> 1, asn |-> <<0, 0, 64512>>]
B == [isd |-> 1, asn |-> <<0, 0, 64513>>]
C == [isd |-> 1, asn |-> <<2, 0, 5>>]

Ases ==
  [h \in Hosts |-> IF h \in {e1, s4a} THEN A ELSE IF h \in {e2, e3, s6} THEN B ELSE C]

\* Two IPv4 hosts in different ASes have the same address.
Ip6(ia, i) == V6(S2ip(ia.isd, ia.asn, 0, 1, <<0, 65535, 0, i>>, 8))
Ips ==
  [h \in Hosts |-> CASE h \in {s4a, s4c} -> V4(<<2560, 1>>)
                     [] h = e1 -> Ip6(A, 1)
                     [] h = e2 -> Ip6(B, 1) [] h = e3 -> Ip6(B, 2) [] h = s6 -> Ip6(B, 3)]
Routers == [h \in Hosts |-> IF Ases[h] = C THEN 4 ELSE 6]

\* An IPv4 host in 19-ffaa:1:1, which cannot be encoded, and 2001:db8::1.
SomeStrangers ==
  {[ia |-> [isd |-> 19, asn |-> <<65450, 1, 1>>], host |-> V4(<<2560, 9>>)],
   [ia |-> B, host |-> V6(<<8193, 3512, 0, 0, 0, 0, 0, 1>>)]}

\* A header without class and label, and one with bits in both halves of each.
SomeOuters ==
  {[class |-> {}, label |-> {}], [class |-> {3, 4}, label |-> {3, 17}]}

\* Classes and labels with no bit, with bits at both ends of their fields and
\* bytes, and with all bits, as every operation works on each bit for itself.
Marks == {<<{}, {}>>, <<{0, 4}, {0, 8, 16}>>, <<{3, 7}, {7, 15, 19}>>, <<0..7, 0..19>>}

\* Half of the hosts ask, the others answer; messages that are not translated
\* come from the first.  "Marked" packets go from an eBPF host of either byte
\* order to a big-endian one, in another AS and in the same.
Asking == {e1, s6, s4a}
AllTraffic ==
  {p \in [src : Hosts \ {e3}, dst : Hosts \ {e3}, proto : Protocols, class : {{}}, label : {{}}] :
     /\ p.src # p.dst
     /\ p.proto \in IF p.src \in Asking THEN {"TCP", "EchoRequest", "OtherIcmp"}
                                        ELSE {"UDP", "EchoReply"}}
  \union
  {[src |-> h, dst |-> e1, proto |-> "UDP", class |-> m[1], label |-> m[2]] :
     h \in {e2, e3}, m \in Marks}
  \union
  {[src |-> e3, dst |-> e2, proto |-> "UDP", class |-> {0}, label |-> {19}]}

\* What a little-endian eBPF host sends to another AS.
LittleTraffic == {p \in AllTraffic : p.src = e3 /\ p.dst = e1}
----------------------------------------------------------------------------
\* The network, the converter and the texts share no state: a behaviour is one
\* of one of the three.
MCInit == Init /\ ConverterInit /\ TextInit
MCNext ==
  \/ /\ given = None /\ text = NoText
     /\ Next /\ UNCHANGED <<converterVars, textVars>>
  \/ /\ sent = {} /\ text = NoText
     /\ ConverterNext /\ UNCHANGED <<vars, textVars>>
  \/ /\ sent = {} /\ given = None
     /\ TextNext /\ UNCHANGED <<vars, converterVars>>
MCSpec == MCInit /\ [][MCNext]_<<vars, converterVars, textVars>>

----------------------------------------------------------------------------
\* Groups of up to two characters; longer ones at the limits: 65535 and 65536
\* in hexadecimal and in decimal, 2^32 - 1, 2^32, 2^48 - 1, 2^48, 2^64.
Short == UNION {[1..k -> {0, 2, 10, 16}] : k \in 0..2}
Long ==
  {<<15, 15, 15, 15>>, <<1, 0, 0, 0, 0>>, <<0, 0, 0, 0, 15>>,
   <<6, 5, 5, 3, 5>>, <<6, 5, 5, 3, 6>>,
   <<4, 2, 9, 4, 9, 6, 7, 2, 9, 5>>, <<4, 2, 9, 4, 9, 6, 7, 2, 9, 6>>,
   <<2, 8, 1, 4, 7, 4, 9, 7, 6, 7, 1, 0, 6, 5, 5>>,
   <<2, 8, 1, 4, 7, 4, 9, 7, 6, 7, 1, 0, 6, 5, 6>>,
   <<1, 8, 4, 4, 6, 7, 4, 4, 0, 7, 3, 7, 0, 9, 5, 5, 1, 6, 1, 6>>}
SomeGroups == Short \union Long
SomeIsds == {<<>>, <<1>>, <<6, 5, 5, 3, 5>>, <<6, 5, 5, 3, 6>>}
PartGroups ==
  {<<>>, <<0>>, <<2>>, <<16>>, <<2, 10>>, <<10, 2>>, <<15, 15, 15, 15>>, <<1, 0, 0, 0, 0>>}
SomeTexts ==
  [1..1 -> SomeGroups] \union [1..2 -> PartGroups] \union [1..3 -> PartGroups]
    \union [1..4 -> {<<0>>, <<2>>}]

Parts == {0, 1, 2, 9, 10, 272, 32767, 65280, 65535}
\* TLC's integers have 31 bits: decimal numbers stay below 2^31.
SomeNumbers ==
  {n \in {0} \X Parts \X Parts \X Parts : n[2] = 0 => n[3] <= 32767}

\* Numbers at the limits of their fields; subnets of no bits, the usual 8, 16
\* and all 24; ISDs and AS numbers that do not fit.
SomeConversions ==
  {c \in [isd : {0, 2748, 4095, 4096, 16385},
          asn : {0, 1, 2} \X {0, 5, 7, 8} \X {0, 65535},
          prefix : {0, 1, 255, 65535}, subnet : {0, 1, 255, 65535},
          interface : {<<2560, 1>>, <<0, 65535, 2560, 1>>, <<0, 0, 0, 1>>, <<65535, 65535, 0, 0>>},
          bits : {0, 8, 16, 24}] :
     c.prefix = 0 \/ c.subnet < 2 \/ c.isd = 2748}
=============================================================================
