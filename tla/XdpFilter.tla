------------------------------ MODULE XdpFilter ------------------------------
(***************************************************************************)
(* scion_filter, the XDP program of the VPP data plane: which packets from *)
(* the host interface go to VPP and which to the kernel.                   *)
(*                                                                         *)
(* A packet is described by its length, its number of VLAN tags, what is   *)
(* behind them, its destination (the configuration whose host address it   *)
(* is, or anything else), the chain of its IP extension headers up to the  *)
(* transport protocol, and its receive queue.  Every packet is complete,   *)
(* so that the bounds checks of the program pass wherever the program is   *)
(* at a header, and fail at worst where it is not.                         *)
(***************************************************************************)
EXTENDS Naturals, Sequences, SequencesExt

CONSTANTS
  Queues,    \* receive queues for which VPP has an AF_XDP socket
  NoHeader   \* the walk along the headers leaves the packet

Extensions == {"HOPOPTS", "DSTOPTS", "ROUTING", "MH", "AH", "FRAGMENT"}
Protocols == {"UDP", "ICMP", "ICMPV6", "TCP"}

MIN_PACKET_SIZE == 14 + 20 + 8 + (8 + 12 + 48)
VLAN_MAX_DEPTH == 4
IPV6_MAX_ESTENSIONS == 6

\* The protocol after at most VLAN_MAX_DEPTH tags.
ParseEthernet(p) == IF p.tags <= VLAN_MAX_DEPTH THEN p.type ELSE "vlan"

----------------------------------------------------------------------------
(***************************************************************************)
(* parse_ipv6.  The walk is at header number s.at, whose kind s.next the   *)
(* header before has named.  The length of an authentication header counts *)
(* from its third word on, the walk counts from the second: behind an AH   *)
(* the walk is lost, and what it reads as a header is payload.             *)
(***************************************************************************)
Lost == 0

\* Faulty variant: a fragment header ends the walk.
StepNotOverFragment(p, s) ==
  CASE s.next \notin Extensions \ {"FRAGMENT"} -> {s}
    [] s.next \in Extensions /\ s.at = Lost ->
         [next : Extensions \union Protocols \union {NoHeader}, at : {Lost}]
    [] OTHER -> {[next |-> p.headers[s.at + 1],
                  at |-> IF s.next = "AH" THEN Lost ELSE s.at + 1]}

\* One turn of the loop.
Step(p, s) ==
  CASE s.next \notin Extensions -> {s}
    [] s.next \in Extensions /\ s.at = Lost ->
         [next : Extensions \union Protocols \union {NoHeader}, at : {Lost}]
    [] OTHER -> {[next |-> p.headers[s.at + 1],
                  at |-> IF s.next = "AH" THEN Lost ELSE s.at + 1]}

\* Where the walk may be after each turn.
Walk(p) ==
  LET walk[turn \in 0..(IPV6_MAX_ESTENSIONS - 1)] ==
        IF turn = 0 THEN {[next |-> p.headers[1], at |-> 1]}
                    ELSE UNION {Step(p, s) : s \in walk[turn - 1]}
  IN  walk

\* The protocols it may find.  The last turn only looks at what the one before
\* has read; an extension header there makes it fail.
ParseIpv6(p) == {s.next : s \in Walk(p)[IPV6_MAX_ESTENSIONS - 1]}

----------------------------------------------------------------------------
NextHeaders(p) ==
  CASE ParseEthernet(p) = "ipv4" -> {p.headers[1]}
    [] ParseEthernet(p) = "ipv6" -> ParseIpv6(p)
    [] OTHER -> {}

\* Faulty variant: the destination of an IPv6 packet is not compared.
ToFilterIpv4Only(p, filter) == ParseEthernet(p) = "ipv6" \/ p.dst = filter

\* The packet's destination is the one in the map scion_ip.
ToFilter(p, filter) == p.dst = filter

\* May scion_filter redirect p to VPP?  Without a socket for its queue
\* bpf_redirect_map passes p to the kernel.
MayRedirect(p, filter) ==
  /\ p.bytes >= MIN_PACKET_SIZE
  /\ ToFilter(p, filter)
  /\ \E nh \in NextHeaders(p) : nh \in {"ICMP", "UDP"}
  /\ p.queue \in Queues

\* May it pass p to the kernel?
MayPass(p, filter) ==
  \/ p.bytes < MIN_PACKET_SIZE
  \/ ~ToFilter(p, filter)
  \/ NextHeaders(p) = {}
  \/ \E nh \in NextHeaders(p) : nh \notin {"ICMP", "UDP"}
  \/ p.queue \notin Queues

----------------------------------------------------------------------------
\* What the headers really say: the transport protocol is the end of the
\* chain, as far as the program can follow it: it walks along the extension
\* headers of IPv6 only.
Transport(p) == Last(p.headers)
Followed(p) ==
  /\ p.tags <= VLAN_MAX_DEPTH
  /\ Len(p.headers) <= IF p.type = "ipv6" THEN IPV6_MAX_ESTENSIONS ELSE 1
  /\ \A i \in 1..(Len(p.headers) - 2) : p.headers[i] # "AH"
=============================================================================
