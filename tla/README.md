# Verification of the SCION-IP translator

TLA+ models of the translator in this repository, TLC runs that check them on
small instances, and TLAPS proofs of the main results for every instance.

    tlc -workers 2 -config EgressCacheCpus.cfg MCEgressCache.tla
    tlapm EgressCache_proofs.tla

`PROJECT.json` lists the runs, the lines of code each definition stands for, the
hazards with the properties that cover them, the theorems, and for each property
a faulty variant of the code that breaks it. The faulty variants stand in the
modules, marked as such, in front of the definition they replace.

## The system

The translator lets unmodified IPv6 applications use the SCION network. An
address in `fc00::/8` encodes ISD, AS and host; a packet to such an address gets
an underlay UDP header and a SCION header between its IPv6 header and its payload,
and loses them again at the destination. The repository holds this three times,
in eBPF, in Python and (the plugin itself is elsewhere) in VPP:

| part | where | state | operations |
|---|---|---|---|
| egress program | `ebpf-prototype/bpf/egress.bpf.c` | `path_map` (hash map, never deleted from), `path_req` (ring buffer), the packet | one run per outgoing packet on every CPU: pass, look up, request and drop, or rewrite |
| ingress program | `ebpf-prototype/bpf/ingress.bpf.c` | the packet | one run per incoming packet: pass, drop, or unwrap |
| path service | `ebpf-prototype/src/PathService.cxx` | the ring buffer's consumer position | take a request, query the daemon (100 ms), convert the first path, update `path_map` |
| loader | `main.cxx`, `EgressLoader.cxx`, `IngressLoader.cxx` | XDP link, clsact qdisc, TC filter, `hook_created`, `exiting` | start, attach, serve, SIGINT, destructors |
| header fields | `scion_types.h`, `write_scionhdr` | a 32-bit word, a byte | set and get version, traffic class, flow label; types and lengths of addresses |
| address mapping | `bpf/scion.h`, `PathService.cxx:113` | none | key of an address, ISD-AS of a key |
| VPP path manager | `vpp/vpp-path-manager/src` | VPP interfaces, pinned map `scion_ip`, host routes, the interface indices | start-up, cleanup after a failure |
| VPP XDP filter | `vpp/vpp-path-manager/bpf/af_xdp.c` | reads `scion_ip`, `xsks_map` | redirect to VPP or pass to the kernel |
| ISD-AS parsing | `vpp/.../isd_asn.hpp` | none | parse ISD, ASN, ISD-AS; write them |
| Python translator | `prototype/scitun.py` | path cache, TUN device, sockets | look up, translate in both directions, ICMP and SCMP, map and unmap addresses |
| address converter | `scion2ip/scion2ip` | none | SCION address to IPv6 and back |
| bootstrap server | `bootstrap-server/bootstrap-server.py` | files read at start | serve topology and TRCs |

How they interact. The egress program and the path service share `path_map` (a
lookup returns a pointer into it) and `path_req`. The service calls the SCION
daemon. The loader puts both programs into the kernel, where the TC filter
outlives it, and runs the service in a thread. The egress program of one host
and the ingress program of another exchange packets through SCION routers, and a
host with the Python translator may be at either end. All of them, and the
converter with which users make addresses, have to mean the same by an address. The
path manager sends requests to VPP and to netlink, and passes the translator's
addresses to the XDP filter in a pinned map.

What is hard, and what makes each part correct:

- *Path cache.* Several CPUs read entries through pointers while the service
  replaces them; requests are lost when the ring buffer is full; queries fail;
  the map fills up. Correct: a packet is built from one entry for its own AS;
  what is cached is the last answer for that AS; an AS whose packets keep missing
  comes into the cache.
- *Packet rewriting.* Five places compute lengths that have to agree. Correct:
  lengths agree, and egress followed by ingress is the identity whatever the
  network does in between.
- *Loader.* Kernel objects with lifetimes of their own, and a second instance.
  Correct: who has got his filter keeps it; only a crash leaves anything behind;
  other programs' filters stay; the translator comes back after crashes and failures
  of its service; an interrupted instance ends.
- *Header fields.* Conversions to network order mixed with shifts. Correct: a
  router finds what the application sent.
- *Python translator.* IPv4 and IPv6 underlays, hosts in the same AS or in others,
  a cache that keeps every answer, exceptions that end the program, packets of hosts
  that have no SCION-mapped address, and peers that run the other translator. Correct: what an application gets was sent
  to it, by the host its source address stands for.
- *Addresses and names.* Three programs make and take apart the same 128 bits,
  two read and write the same texts, each with code of its own. Correct: they
  mean the same AS and host, and a conversion and its inverse undo each other.
- *Path manager.* A dozen steps that can fail, one cleanup for all of them, and
  earlier runs whose work is still there. Correct: a failed run takes back what
  it did, and nothing else.
- *XDP filter.* Loops with bounds over VLAN tags and extension headers, and a
  map that later runs of the path manager may write. Correct: the translator's
  packets reach VPP, all others the host.

## Modules

| module | models | used by |
|---|---|---|
| `EgressCache` | `scion_egress` from lookup to send, `path_map`, `path_req`, `PathService` | `MCEgressCache`, `EgressCache_proofs` |
| `PathCache` | the abstract cache that `EgressCache` implements | instance in `EgressCache` |
| `Tunnel` | `scion_egress`, `pathToMapEntry`, SCION routers, `scion_ingress` | `MCTunnel`, `Tunnel_proofs` |
| `IpService` | plain IP, which `Tunnel` implements between ASes | instance in `Tunnel` |
| `Loader` | `main`, `EgressLoader`, `IngressLoader`, several instances | `MCLoader`, `Loader_proofs` |
| `HeaderWord` | the `SC_SET_*`, `SC_GET_*` macros, `write_scionhdr`, `scion_ingress`: operators on bits | `Scitun` |
| `AddressMapping` | the bits of an address: `s2ip`, `ip2s`, `map_ipv4`, `unmap_ipv6`, `get_scion_addr`, `getPaths` | `Scitun`, `Converter`, `AddressMapping_proofs` |
| `Scitun` | the handlers of `scitun.py` | `Interop` |
| `Interop` | hosts with either translator in one network | `MCInterop`, `Interop_proofs` |
| `Converter` | `scion2ip` and `ip2scion` called one after the other | `MCInterop`, `Converter_proofs` |
| `AsnText` | `Isd::Parse`, `Asn::Parse`, `IsdAsn::Parse`, `operator<<`, `ASN.__init__`, `ASN.__str__` | `MCInterop`, `AsnText_proofs` |
| `PathManager` | `main.cpp`, `dataplane.cpp`, `ebpf.cpp`, `netlink.cpp` | `HostTraffic` |
| `XdpFilter` | `scion_filter` with its header walk, as operators | `HostTraffic` |
| `HostTraffic` | the path manager and the XDP filter, which share the pinned map | `MCHostTraffic`, `HostTraffic_proofs` |

**EgressCache.** The program of one CPU is `pc[c]`, `dst[c]`, `held[c]`:
`Hit` or `Miss` is `bpf_map_lookup_elem` (egress.bpf.c:185), `RequestPath` the
ring buffer output and `TC_ACT_SHOT` (192-199), `CopyPart` the reading of one part
of the entry through the pointer (204-276), `Send` the end. The service is
`psPc`: `TakeRequest`, `QueryAnswered` or `QueryFails`, `InsertRefused` or
`BeginUpdate` and `FinishUpdate`. libbpf frees a record only after the handler
returned, so the ring's head stays until `Return`. `path_map` is preallocated;
the kernel side (external) has one spare element per CPU: an update of a cached
key writes into the spare of its CPU and keeps the replaced element as next
spare. A reader that holds a replaced element is therefore safe during one
further update and not during the second. `overlap[c]` counts them and is a
history variable, as is `answer`.

**Tunnel.** A frame is a record of header fields, byte counts and the segment it
carries. `Egress` is `scion_egress` with its early returns (`Untouched`), the MTU
check as it is written (`MtuCheckFails`), the header (`ScionHeader`), the
bounds of the copy loop (`CopiesWholePath`) and the lengths in the width of their
fields. `Ingress` is `scion_ingress`. `Forward`, `Deliver` and `Lose` are the
network. The path cache appears as "one complete entry for the AS", which is what
`EgressCache` establishes.

**Loader.** One process per instance with its step in `pc[p]`; `link`,
`clsact`, `filter`, `others` are the kernel's state per interface. `thread[p]` is
the path service's thread: `StartService` starts it, `ServiceThrows` is an exception
that `PathService::run` lets out, after which main leaves its loop too (main.cxx:143-148),
and `Join` the destructor of the jthread. `Kill` takes the process away without
destructors.

**HeaderWord, AddressMapping.** Operators without state. A value is the set of its
bits that are 1 in the one, a sequence of 16-bit groups in the other (TLC's
integers have 31 bits). `Htonl` moves bits; the argument `little` is the byte
order of a machine. An address is prefix, ISD, AS, subnet and interface as the
code shifts them together (`Upper`).

**Scitun.** `running[h]` and `paths[h]` are the process and its `PathCache`. The
program handles one packet at a time, so each handler is one action: `FromTun`
(`PathCache.lookup`, `translate_egress`, the socket's IP version), `FromUdp`
(`translate_ingress` with its early returns), `Interrupt` (Ctrl-C), `Restart`. Nothing
catches another exception than that of Ctrl-C: `FromTunRaises` is one of the daemon or of
`sendto`, `FromUdpRaises` one of `map_ipv4` (`NotMapped`) or of the TUN device. Strangers are
SCION hosts without a translator, whose packets reach the UDP socket as well
(`StrangerPacket`): one of IPv6 outside fc00::/8 is dropped, one of IPv4 in an AS that cannot be encoded ends
the program.

**Interop.** Adds the hosts with the eBPF programs and the network. A frame says
where it is (`at`, `hop`), what its SCION header says, and for the properties
which packet it stands for (`pkt`, which no action looks into). `Forward` is the
routers: the frame appears at the host its header names. Frames stay in `wire`,
so one that is delivered twice is duplicated, one that never is is lost, and the
order is any. What either translator makes of the other's packets follows from
the same operators as for its own. scion_ingress keeps the underlay's IPv6 header, so
that may have any class and label (`Outers`).

**Converter, AsnText.** `Converter` applies the two directions of scion2ip in turn,
starting from what a user gave. `AsnText` writes an ISD-AS, or lets a program
write one, and compares what both programs read. A text is a sequence of groups of
characters. `Scan` reads a group character by character, in a number of four
16-bit groups; `FromChars` is `std::from_chars` on top of it with what it stores,
`PythonInt` Python's `int`. `Digits` writes a number by repeated division, as an
output stream does. Both are recursive functions, not operators, so that
they can be proved about.

**PathManager.** `env` is what the program changes in VPP and in the kernel,
`held` what it knows of: the interface indices and the open map. Every request
may be refused (`InitFails`), or take effect while its reply is lost (`lost`).
Cleanup goes `DestroyXdp`, `DestroyTap`, `Unpin`, and ends early if a
`destroy()` throws (`CleanupThrows`). After a success the program exits and the
next run starts from that `env`.

**XdpFilter, HostTraffic.** The filter changes nothing, so it is a function:
which packets it may redirect and which it may pass (`MayRedirect`, `MayPass`)
when the map holds a given configuration's addresses. `Step` is one turn of the
loop over IPv6 extension headers; behind an authentication header, whose length
the code takes one word too short, the walk is lost and reads anything.
`Walk` is the loop as a recursive function of the turns that are left. The
properties are about chains the program can follow (`Followed`): up to five
extension headers of an IPv6 packet, none behind an authentication header, and
none in an IPv4 packet.
`HostTraffic` evaluates it with the map as the path manager's runs leave it.

## Runs

| run | instance | shows |
|---|---|---|
| `cache_cpus` | 2 CPUs, 2 ASes, 2 paths, 4 elements (2 of them spares), ring of 2; symmetric CPUs, paths, elements | `TypeOK`, `CacheSound`, `OneEntryPerPacket`, the inductive invariant `IInv`, and that the map implements `PathCache` |
| `cache_live` | 1 CPU, 3 ASes, room for 2, ring of 1 | `EventuallyCached`, `RingGetsRoom` |
| `cache_stale` | 1 CPU, 1 AS, 2 paths | a violation of `PathsRefreshed` |
| `tunnel` | 3 hosts in 2 ASes, 2 packets, paths of 9 and 240 words, segments of 7, 8, 68, 1460 bytes, MTU 1500 | `WireWellFormed`, `InterAsFaithful`, `TunnelInv`, and that the tunnel implements `IpService` |
| `tunnel_intra_as` | as above, 1 packet | a violation of `IntraAsFaithful` |
| `tunnel_mtu` | as above, 1 packet | a violation of `OutputFits` |
| `loader` | 4 instances (two on the same interfaces, one with `-e` only, one with `-i` only), 1 crash, one shared qdisc | `ServiceHasFilter`, `LeftByCrash`, `OthersKept`, `LoaderInv`, `CleanupInv` |
| `loader_restart` | 2 instances, 2 crashes | `EventuallyServing` |
| `loader_stop` | 1 instance | a violation of `ShutsDown` |
| `interop` | 6 hosts in 3 ASes, 3 with eBPF (one of them little-endian) and 3 with scitun.py (2 with IPv4), 2 strangers, 2 underlay headers; any 2 packets, 1 scitun.py down at a time; 21504 conversions, 623 texts with 4 ISDs and 711 numbers, at their limits | `Inv`, `ScitunFaithful`, `EbpfFaithful`, `AsMeant`, `FlowLabelCarried`, `BigEndianFaithful`; `ConvertedBack`, `TranslatorAgrees`, `KeyIsAs`; `DocumentedRead`, `ConverterTextsAccepted`, `PrintedReadBack` |
| `header_class` | one packet from the little-endian host | a violation of `TrafficClassCarried` |
| `path_manager` | 3 configurations for 2 tap names, 3 runs, 576 packets without extension headers and 952 with up to 6 | `PathManagerInv`, `UpStays`, `FailureUndone`, `TranslatorReached`, `HostKeepsRest` |

Why the bounds are enough to be interesting. In `cache_cpus` the map has room
for two ASes and one spare for each CPU, so replaced elements are recycled, two
updates can overlap one packet, and duplicate requests queue behind each other;
`cache_live` has one AS more than fits, so refused insertions occur, and with
one record the ring buffer overflows whenever a request is being served. In `tunnel` the lengths stand on both
sides of the limits in the code: 7 and 8 of `sizeof(struct udphdr)`, 68 of the
two headers scion_ingress asks for, 1460 of the MTU; 240 words is the longest
path a SCION header can have. `loader` has every combination of `-i` and `-e`
and a collision. In `interop` there are IPv4 and IPv6 hosts with scitun.py, two
with the same IPv4 address in two ASes, IPv4 and IPv6 routers, two hosts of one
kind and of different kinds in an AS, and ASes with a BGP number and one without. Three hosts
send what asks (TCP, echo requests, other ICMP), the others what answers (UDP, echo replies),
each to all the others but one; labels and classes with no, some and all bits come from hosts of
both byte orders, in underlay headers with and without a label of their own (every operation
treats bits independently). Two packets are
enough for a cached answer to meet another packet, and for packets to be told
apart; no translator relates more than that. `MaxDown` only bounds how many scitun.py
are down at the same time: each of them ends and is started again in any state, and none looks at another. Conversions, texts and numbers lie on both sides of
the limits of each field: 12 bits of ISD, 2^19 AS numbers, 16, 32, 48 and 64
bits of a group or number, subnets of 0, 8, 16, 24 bits; decimal numbers that are
written stay below 2^31, which TLC's integers end at (the theorem has no such limit). The network, the
converter and the texts share no state, so a behaviour is one of one of them.
`path_manager` has room for a success and
two later runs, with the same tap name and with another; its packets have up to
six extension headers, one more than the walk follows, up to five VLAN tags,
and lengths on both sides of `MIN_PACKET_SIZE`. Runs with
`CHECK_DEADLOCK FALSE` stop because the number of packets (`MaxSent`) or runs
(`MaxRuns`) is bounded and nothing else happens then.

Fairness. `cache_live`: a run of the TC program ends, the kernel schedules the
service thread, a query ends within its timeout. An update waits for the
current packet of its CPU; packets do not follow each other without a gap in
which the thread runs, hence strong fairness there. A daemon that goes on having
a path does not let every query for it time out (strong fairness of
`QueryAnswered` per AS). No fairness for packets: `EventuallyCached` assumes that
packets to the AS go on missing the cache. It does not assume that their requests get into the ring
buffer: that they do in the end is part of what it shows. The other ASes may be unreachable
for as long as they like, but not for ever while they are asked for: a request of
such an AS could then refill the buffer each time just before the packet to
the reachable one, which nothing in the code prevents. `loader_restart`: processes run, the operator
starts an instance whenever there is none, and a step that can succeed again and
again does not fail each time. Nothing makes `ServiceThrows` happen or stop: the
first part of `EventuallyServing` holds however often it does, the second from when it does no
more. Crashes are bounded there by `MaxKills`, as the
property is about what follows the last one. `interop` states none: its
properties are about what may never happen. `cache_stale` and `loader_stop` are
violated under the same fairness, so their counterexamples are not idle systems.

## What the runs found

- `cache_stale`: the design document wants paths refreshed proactively; the
  service answers misses only, and a cached AS has none. An entry stays for ever.
- `tunnel_intra_as`: the comment in both programs says that traffic within an AS
  is not translated. The check in `scion_ingress` is commented out, so a UDP
  packet of 68 bytes or more from a neighbour is cut up.
- `tunnel_mtu`: the MTU check passes the negative of the size of the new headers,
  so it compares a smaller size than the packet will have.
- `loader_stop`: `PathService::run` has no exit but an exception; the jthread's destructor joins it
  before the loaders' destructors run. The prototype's README knows the symptom.
- `header_class`: `SC_SET_QOS` converts before it shifts; on a little-endian
  machine the traffic class is lost.

The models also show limits that contradict no document, or that the properties
name as their exceptions.

- *Path cache.* A full map refuses new ASes for good. Two overlapping updates can
  give a packet parts of two entries. Unreachable ASes that are asked for again and again
  can keep a reachable one out (`EventuallyCached` says when they do not).
- *Packets.* The flow label that `scion_ingress` restores is right on big-endian
  machines only, and there its upper four bits are or-ed with those of the router's
  own header (`BigEndianFaithful`). The source port of the
  underlay header is byte-swapped (`Swap16`).
- *Addresses.* `PathService` takes the lower 20 bits of the key for the AS number,
  although scion2ip (and its README, lines 25-27) encodes 2:0:x as 2^19 + x:
  the daemon is asked for the AS 2^19 + x, so an eBPF host reaches none of
  these (`AsMeant` and `KeyIsAs` name the AS that is asked for). scion2ip creates the exception for an ISD of more than 12
  bits and does not raise it; the ISD goes into the prefix (`Mapped` excludes
  it). An interface with 0:ffff in front is an IPv4 address for ip2scion
  always, for scitun.py only without prefix and subnet, and what ip2scion
  then shows scion2ip refuses (`ConvertedBack`, `TranslatorAgrees`).
- *Names.* `Asn::Parse` reads 2:0:0, the example of scion2ip's README, as 2:0:2:
  the attempt to read a decimal number leaves its digits in the variable the
  groups are or-ed into (`DocumentedRead` and `PrintedReadBack` exclude texts that
  start like that). It also takes two groups for three, groups with more than
  four digits if the first are 0, decimal numbers above `MAX_BGP_VALUE`, and 0
  for numbers that do not fit into 64 bits.
- *Two translators.* eBPF hosts get echo packets of scitun.py as SCMP, and those of
  IPv4 hosts garbled, as they expect addresses of 16 bytes (`EbpfFaithful` is
  about the others). scitun.py's headers carry neither traffic class nor flow label.
- *scitun.py.* An empty answer of the daemon is cached for ever, like every other.
  Every exception ends the program, also that of a packet from an IPv4 host of an AS that
  cannot be encoded (scitun.py:284,297). What the properties say holds across such ends.
- *Loader, path manager.* With different `-i` for the same `-e`, a failing start takes
  the filter of a running instance away (`ServiceHasFilter` excludes it by
  `OneIngress`). The XDP filter cannot follow an extension header behind an
  authentication header (`Followed` excludes such chains), and passes ICMPv6 for
  the translator to the kernel while it redirects ICMP (af_xdp.c:189). If a
  `destroy()` of the path manager throws, the rest of the cleanup is skipped.
  If addresses of a failed run stay in the pinned map that way, and the next run's
  `initScionIpMap` fails, which is not looked at (main.cpp:86), the run succeeds and the
  filter takes UDP and ICMP packets to the old addresses from the host. `HostKeepsRest` says
  that no others are taken; the run reaches such a state.
  `OthersKept` speaks of filters on a qdisc that existed before: one
  the loader created itself is flushed with all filters on it.

## What is proved

All theorems hold for every value of the constants that satisfies the `ASSUME`
of the module: any number of CPUs, ASes, paths, elements, hosts, instances,
configurations, and any addresses. TLC evaluates those assumptions in every run.

- `EgressCache_proofs`: `TypeCorrect`, `CacheIsSound`, `PacketsAreConsistent` from
  the inductive invariant `IInv` (`Invariance`). `OneEntryPerPacket` alone is not
  inductive: that the element a run holds is not written to needs to know that
  elements are partitioned into linked, free and spare ones
  (`ElementsPartitioned`), that an update writes to an unlinked one
  (`ServiceConsistent`), and that until the first overlapping update has ended the
  held element is still the linked one (`RunsConsistent`). `Refinement` shows that
  each step is one of `PathCache` or a stutter; the linearisation point of an
  update is `FinishUpdate`.
- `Tunnel_proofs`: `WireWellFormed`, `InterAsFaithful` from `TunnelInv`, and the
  refinement of `IpService`. The invariant adds `WireFaithful`: a translated frame
  names the hosts and protocol of its segment, wherever it is on its way. The
  assumptions bound the MTU and the path, so that no 8- or 16-bit length
  overflows; the proof of `LengthsAgree` needs exactly these.
- `Loader_proofs`: `FilterStays` from `LoaderInv`, whose core is `LinkHeld`: the XDP
  link, taken first, is the lock that keeps a second instance from the TC hook.
  `NoLeftovers` and `OthersStay` from `CleanupInv`.
- `HostTraffic_proofs`: `DataplaneStays` and `FailuresUndone` from
  `PathManagerInv`. The invariant says that the indices tell how far init() came
  (`IndicesFollow`), that without lost replies the difference between `env` and
  what the run found is what the indices stand for (`ChangesKnown`), and that
  after a success no run gets beyond creating a tap of another name
  (`NoFurther`), which is why the shared cleanup cannot hurt.
  `ScionTrafficReachesVpp` and `OtherTrafficStays` add the XDP filter, for packets with
  any headers and tags; the second with the exception of stale addresses that `HostKeepsRest` names. `DataplaneStays` leaves the map to the run that succeeded
  (`FilterStays`); the rest is about one packet. After each of its turns
  the walk is at the header it takes itself to be at, or has found the transport
  protocol (`OnTheWay`): one turn goes from an extension header to the next
  (`StepOnTheWay`), so after the last turn a chain that can be followed
  has no other outcome than its transport protocol (`TransportFound`). `WalkUnfolds` is the
  existence of the recursive function.
  `TrafficAssumption` says what a packet is: a chain of headers that
  ends with its only transport protocol.
- `Interop_proofs`: `ScitunFaithful`, `EbpfFaithful`, `AsMeant`, `FlowLabelCarried` and
  `BigEndianFaithful` from `IInv` (`InteropInvariant`). `Inv` says what each
  frame in the network is (`FramesTraced`); `IInv` adds that the caches hold what the
  daemon may answer (`PathsAnswered`; without it a frame of scitun.py might have
  the empty path to another AS) and that what was received is what a translator made
  of a frame in the network (`ReceivedTraced`); that strangers' packets never get that far
  is `StrangersDropped`. The rest is about single frames:
  only the host a packet was sent to gets it (`Arrival`), because by
  `HostAssumption` an address is given once in an AS and an IPv6 address
  names its AS (`OneHost`); both translators' headers lead scitun.py back to the
  source's address (`SourceBack`); and the word of `write_scionhdr` has label and, on big-endian
  machines, class in their places for all 2^28 values (`WordOf`, `WordRead`, bit by bit).
  `LabelRestored` is for any class and label of the header it is restored into.
- `Converter_proofs`: `ConvertedBack`, `TranslatorAgrees`, `KeyIsAs` for all fields,
  where the run tries those at the limits. `ConverterInv`: while nothing
  is lost, what is shown is one of at most two tuples and the address one of at
  most two (`ShownOf`, `AddressesOf`), each of which the other direction maps
  into the other set.
- `AddressMapping_proofs`: the arithmetic of both: what is encoded is decoded,
  the fields of an address are those it was made of, and the 32 bits of the
  key are ISD and encoded AS.
- `AsnText_proofs`: `DocumentedRead`, `ConverterTextsAccepted`, `PrintedReadBack`, for
  texts of any length and all AS numbers of 48 bits. `TextInv` says where a text may come from;
  what the programs make of it follows from how digits are read and written.
  `ScanReads`: a scan reads the digits at the beginning of a text and no more.
  `AppendedGroups`: as long as a value fits into 32 bits, appending a digit
  to its groups is appending it to the value, carries included; `DigitsReadBack`
  follows by going through the digits that repeated division wrote.
  That `Asn::Parse` accepts what scion2ip accepts needs that the decimal number it tried
  to read first never gets beyond the lowest group: the decimal value
  of a text's beginning is at most its hexadecimal value (`DecimalIsGroup`), and a value
  above 2^16 never gets below it again (`StaysLarge`). And that nothing is lost by
  or-ing into the variable is `OrWithZero`.

TLAPS has no induction over data, because the library's induction theorems take
an operator as a parameter. `AsnText_proofs` uses a form without one: `SetInduction` says that a
set that holds 0, and with each number the next one, holds all numbers. It
follows from `WFMin` of the library, with the set as the argument. The existence of the recursive
functions follows from it too (`ScanUnfolds`, `QuotientsUnfold`).

Only model-checked: the liveness properties (fairness and ENABLED are out of
TLAPS's reach).

## Assumptions about what is not in the repository

The kernel's preallocated hash map (`Preempts`, `Readable`, `NewElements`, `Link`),
BPF links, TC filters and qdiscs, VPP's refusal of a second interface with the
same name or host interface, libbpf's pinning, routes that go with their
interface, the SCION daemon and the border routers are modelled from how the code
uses them, and marked external in the map; so are applications and their IP stack,
`std::from_chars` and Python's `int`. A host has one address (`HostAssumption`): an
IPv4 address if it runs scitun.py, or an IPv6 address as scion2ip makes them. Strangers
have no such address (`StrangerAssumption`), and an underlay's IPv6 header has a class of 8 and a
label of 20 bits (`OuterAssumption`). VPP is not restarted. All
configurations of the path manager name one host interface.

## Not modelled

- The contents of segments and checksums (left to the hardware, or to scapy),
  Ethernet addresses, packets that are not IPv6, segmentation offload.
- The TUN device of scitun.py and its routes, packets larger than its receive
  buffer or that scapy cannot parse, a choice among several paths (it takes the first).
- Strangers' packets to hosts with the eBPF programs: scion_ingress keeps no state, and what
  it makes of a SCION header does not depend on who sent it.
- `parse_hex`, `format_hex` and the command line of scion2ip.
- The queries' protocol: generated code and the library scion-cpp, a submodule.
- The VPP plugin itself: it is not in this repository.
- The parsing of the path manager's configuration apart from ISD-ASes.
- The bootstrap server: it reads its files once and answers each request for
  itself. (`parse_trc_name` keeps the last digit of each number only, so TRCs
  whose numbers end alike take each other's place.)
- Topologies, demos, evaluation scripts, build files. `vmlinux.h` is the output
  of bpftool, the types of one kernel; it has no behaviour of its own, but is most of
  the repository's lines.

## Plan

Done, in this order: `EgressCache` with `PathCache`, `Tunnel` with `IpService`,
`Loader`, `HeaderWord`, `PathManager`, `XdpFilter` with `HostTraffic`,
`AddressMapping`, `Scitun` with `Interop`, `Converter`, `AsnText`. What would come next:

1. A composition of `EgressCache` and `Tunnel`: egress with entries that may be
   torn by two updates, and what the network then does with the frame.
2. Proofs: the composition's invariant and its refinement.
