----------------------------- MODULE HeaderWord -----------------------------
(***************************************************************************)
(* Version, traffic class and flow label: the first word of the IPv6 and   *)
(* of the SCION header, as scion_egress copies them from the one to the    *)
(* other and scion_ingress copies them back; and the byte of the SCION     *)
(* header with the types and lengths of the host addresses.                *)
(*                                                                         *)
(* An unsigned value is the set of its bits that are 1, bit 0 the lowest.  *)
(* ver_qos_flow is a 32-bit variable that the packet holds in the byte     *)
(* order of the machine, and whose meaning is that of its bytes in network *)
(* order; the IPv6 header has bytes and bit fields.  The argument little   *)
(* is the byte order of the machine.                                       *)
(***************************************************************************)
EXTENDS Integers

Shl(x, n) == {i \in 0..31 : i - n \in x}
Shr(x, n) == {i \in 0..31 : i + n \in x}
Low(x, n) == x \intersect (0..(n - 1))
Clear(x, at, n) == x \ (at..(at + n - 1))

\* bpf_htonl, and ntohl.
Htonl(x, little) ==
  IF little THEN {8 * (3 - (i \div 8)) + (i % 8) : i \in x} ELSE x

\* struct ipv6hdr of a packet with traffic class c and flow label l.
IpHeader(c, l) ==
  [priority |-> Low(Shr(c, 4), 4),
   flow_lbl |-> <<Shl(Low(c, 4), 4) \union Shr(l, 16), Low(Shr(l, 8), 8), Low(l, 8)>>]

\* The flow label in an IPv6 header.
FlowLabel(h) ==
  Shl(Low(h.flow_lbl[1], 4), 16) \union Shl(h.flow_lbl[2], 8) \union h.flow_lbl[3]

\* The traffic class in an IPv6 header, as write_scionhdr puts it together.
TrafficClass(h) == Shl(h.priority, 4) \union Shr(h.flow_lbl[1], 4)

----------------------------------------------------------------------------
\* SC_SET_VER, SC_SET_QOS, SC_SET_FLOW.
SetVer(w, v, little) == Clear(w, 28, 4) \union Shl(Htonl(v, little), 28)
SetQos(w, v, little) == Clear(w, 20, 8) \union Shl(Htonl(v, little), 20)
SetFlow(w, v, little) == Clear(w, 0, 20) \union Htonl(v, little)

\* SC_GET_VER, SC_GET_QOS, SC_GET_FLOW: what a SCION router reads.
GetVer(w, little) == Shr(Htonl(w, little), 28)
GetQos(w, little) == Low(Shr(Htonl(w, little), 20), 8)
GetFlow(w, little) == Low(Htonl(w, little), 20)

\* Faulty variant: the flow label is written first.
WordFlowFirst(h, w, little) ==
  SetQos(SetFlow(SetVer(w, {}, little), FlowLabel(h), little), TrafficClass(h), little)

\* The word write_scionhdr makes of the entry's.
Word(h, w, little) ==
  SetFlow(SetQos(SetVer(w, {}, little), TrafficClass(h), little), FlowLabel(h), little)

\* Faulty variant: the upper bits of the label are forgotten.
RestoredLow(h, w) ==
  [h EXCEPT !.flow_lbl[2] = Low(Shr(w, 8), 8), !.flow_lbl[3] = Low(w, 8)]

\* The IPv6 header after scion_ingress; the traffic class stays.
Restored(h, w) ==
  [h EXCEPT !.flow_lbl[1] = @ \union Low(Shr(w, 16), 4),
            !.flow_lbl[2] = Low(Shr(w, 8), 8),
            !.flow_lbl[3] = Low(w, 8)]

----------------------------------------------------------------------------
\* A two-bit field of haddr at bit "at": SC_SET_DT (6), SC_SET_DL (4),
\* SC_SET_ST (2), SC_SET_SL (0), and SC_GET_DT to SC_GET_SL.
SetHaddr(b, at, v) == Clear(b, at, 2) \union {i + at : i \in v}
GetHaddr(b, at) == {i \in 0..1 : i + at \in b}

IP == {}           \* SC_ADDR_TYPE_IP
Bytes4 == {}       \* an address of 4 bytes
Bytes16 == {0, 1}  \* an address of 16 bytes

\* Faulty variant: the source length is set where its type is.
HaddrShifted(dl, sl) ==
  SetHaddr(SetHaddr(SetHaddr(SetHaddr({}, 6, IP), 4, dl), 2, IP), 2, sl)

\* The four fields as pathToMapEntry writes them one after the other.
Haddr(dl, sl) ==
  SetHaddr(SetHaddr(SetHaddr(SetHaddr({}, 6, IP), 4, dl), 2, IP), 0, sl)
=============================================================================
