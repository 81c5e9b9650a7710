----------------------------- MODULE HostTraffic -----------------------------
(***************************************************************************)
(* The path manager together with the XDP program it has VPP load.  They   *)
(* share the pinned map scion_ip: the path manager writes the translator's *)
(* addresses into it, and its cleanup may remove it, while the program of  *)
(* the run that succeeded decides with it about every packet that arrives. *)
(***************************************************************************)
EXTENDS PathManager, XdpFilter

CONSTANT Traffic   \* the packets that may arrive at the host interface

\* A packet has a length, and its headers are any chain of extensions with a transport
\* protocol at its end.
ASSUME TrafficAssumption ==
  \A p \in Traffic :
    /\ p.bytes \in Nat
    /\ p.headers \in Seq(Extensions \union Protocols) /\ p.headers # <<>>
    /\ \A i \in DOMAIN p.headers : p.headers[i] \in Protocols <=> i = Len(p.headers)

\* The packets the program may, and the ones it may not hold back from VPP,
\* when the map holds the address of f.
Filters == Configs \union {None}
Redirected == [f \in Filters |-> {p \in Traffic : MayRedirect(p, f)}]
Surely == [f \in Filters |-> {p \in Traffic : ~MayPass(p, f)}]

\* Is the XDP program of this project in place?
Filtering == up # None /\ up.custom

\* The SCION traffic of a translator with the address of f, as far as its
\* headers can be followed, and the traffic that is not that translator's:
\* other destinations and other protocols.
ScionTraffic ==
  [f \in Filters |-> {p \in Traffic : /\ p.dst = f /\ p.type \in {"ipv4", "ipv6"}
                                      /\ Transport(p) = "UDP" /\ Followed(p)
                                      /\ p.bytes >= MIN_PACKET_SIZE /\ p.queue \in Queues}]
OtherTraffic ==
  [f \in Filters |-> {p \in Traffic : \/ p.dst # f
                                      \/ Transport(p) = "TCP" /\ Followed(p)}]

\* Once a run has succeeded with its addresses in the map, the translator's
\* packets reach VPP, whatever extension headers they have and whatever later
\* runs of the path manager do to the map (initScionIpMap, unpinScionIpMap).
TranslatorReached ==
  Filtering /\ up.filter = up.cfg => ScionTraffic[up.cfg] \subseteq Surely[env.filter]

\* The host keeps the traffic that is not the translator's: neither the walk
\* along the headers nor a later run's addresses in the map take it away.  The
\* one exception: the run took a pinned map in which an earlier run's addresses
\* were left, and nobody looked at the result of initScionIpMap when it failed
\* (main.cpp:86).  Then packets to those addresses, and no others, go to VPP.
HostKeepsRest ==
  Filtering =>
    \A p \in OtherTraffic[up.cfg] \intersect Redirected[env.filter] :
      up.filter # up.cfg /\ p \notin OtherTraffic[up.filter]
=============================================================================
