---------------------------- MODULE MCHostTraffic ----------------------------
EXTENDS HostTraffic

CONSTANTS a, b, c, scion0, scion1, elsewhere

\* Two configurations for the same tap and one for another.
TwoTaps == [x \in {a, b, c} |-> IF x = c THEN scion1 ELSE scion0]

Destinations == {a, b, c, elsewhere}

\* Up to six extension headers of one kind, with an authentication header and
\* a fragment header anywhere among them.
Chains == UNION {[1..n -> {"DSTOPTS", "AH", "FRAGMENT"}] : n \in 0..6}
FewAuthenticated ==
  {s \in Chains : \A i, j \in DOMAIN s : s[i] # "DSTOPTS" /\ s[i] = s[j] => i = j}

\* Every chain, and for the plain ones every other dimension of a packet.
AllTraffic ==
  [bytes : {MIN_PACKET_SIZE}, tags : {0}, type : {"ipv6"}, dst : {a, elsewhere},
   headers : {Append(s, nh) : s \in FewAuthenticated, nh \in Protocols}, queue : {0}]
  \union
  [bytes : {MIN_PACKET_SIZE - 1, MIN_PACKET_SIZE}, tags : {0, 4, 5},
   type : {"ipv4", "ipv6", "other"}, dst : Destinations,
   headers : {<<nh>> : nh \in Protocols}, queue : {0, 1}]
=============================================================================
