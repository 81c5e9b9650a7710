---------------------------- MODULE EgressCache ----------------------------
(***************************************************************************)
(* The path cache of the eBPF translator.                                  *)
(*                                                                         *)
(* Three parties share it.  The TC program scion_egress runs once per      *)
(* outgoing packet, on every CPU at the same time: it looks the packet's   *)
(* destination AS up in path_map and either copies the entry it found into *)
(* the packet, part by part, through the pointer the lookup returned, or   *)
(* puts the AS into the ring buffer path_req and drops the packet.  The    *)
(* thread of the PathService takes the requests out of the ring buffer one *)
(* after the other, asks the SCION daemon for paths and writes the first   *)
(* one into path_map.  Nothing ever deletes an entry.                      *)
(*                                                                         *)
(* path_map is a preallocated hash map.  Its kernel side is modelled from  *)
(* the way the two programs use it: there are max_entries elements plus    *)
(* one spare element per CPU; an update of a cached key writes into the    *)
(* spare of the CPU it runs on, links it and keeps the replaced element as *)
(* that CPU's next spare, so a program that still holds a pointer to the   *)
(* replaced element is not protected from the update after that.           *)
(***************************************************************************)
EXTENDS Naturals, Sequences, Functions

CONSTANTS
  Cpus,     \* the CPUs that run the TC program and the update system call
  Keys,     \* ISD-AS pairs, the keys of path_map (scion_addr)
  Paths,    \* paths the daemon may offer
  Slots,    \* elements of path_map: max_entries and one spare per CPU
  RingCap,  \* requests that fit into path_req
  None      \* no key, no path, no slot

ASSUME ConstantsAssumption ==
  /\ RingCap \in Nat \ {0}
  /\ None \notin Keys \union Paths \union Slots
  /\ None \notin [key : Keys, path : Paths]

VARIABLES
  daemon,   \* daemon[k]: the path the daemon would answer for k now, or None
  answer,   \* answer[k]: the last path the daemon did answer for k (history)
  ring,     \* path_req: requested keys, the oldest first
  psPc,     \* where the PathService thread is
  psKey,    \* reqHandler's addr
  psPath,   \* reqHandler's paths[0]
  psCpu,    \* CPU of the update system call
  psSlot,   \* element the update is writing
  slot,     \* contents of the elements of path_map
  bucket,   \* bucket[k]: the element linked for key k, or None
  free,     \* elements that were never linked
  spare,    \* spare[c]: the spare element of CPU c
  pc,       \* pc[c]: where the run of scion_egress on CPU c is
  dst,      \* dst[c]: its key
  held,     \* held[c]: the element its pointer `path` refers to
  got,      \* got[c]: the entries whose parts it has copied so far
  overlap   \* overlap[c]: updates of path_map that overlap it, 2 for 2 or more

psVars == <<psPc, psKey, psPath, psCpu, psSlot>>
mapVars == <<slot, bucket, free, spare>>
runVars == <<pc, dst, held, got, overlap>>
vars == <<daemon, answer, ring, psVars, mapVars, runVars>>

\* A path_map_entry, reduced to the AS it was built for and the path.
Entries == [key : Keys, path : Paths]
PathToMapEntry(k, p) == [key |-> k, path |-> p]

\* The parts of an entry and the order in which scion_egress copies them:
\* header.len, router_port, header, path with path_len, router_addr.
Parts == {"len", "port", "header", "path", "addr"}
NextPart(p) == CASE p = "len"    -> "port"
                 [] p = "port"   -> "header"
                 [] p = "header" -> "path"
                 [] p = "path"   -> "addr"
                 [] p = "addr"   -> "send"

Running(c) == pc[c] \in Parts \union {"send"}
Writing == psPc = "write"
Cached(k) == bucket[k] # None
Asked(k) == \E c \in Cpus : pc[c] = "miss" /\ dst[c] = k

----------------------------------------------------------------------------
\* All elements are free, but one spare for each CPU; no path was asked for.
Init ==
  /\ daemon \in [Keys -> Paths \union {None}]
  /\ answer = [k \in Keys |-> None]
  /\ ring = << >>
  /\ psPc = "poll"
  /\ psKey = None /\ psPath = None /\ psCpu = None /\ psSlot = None
  /\ slot = [s \in Slots |-> None]
  /\ bucket = [k \in Keys |-> None]
  /\ spare \in Injection(Cpus, Slots)
  /\ free = Slots \ Range(spare)
  /\ pc = [c \in Cpus |-> "idle"]
  /\ dst = [c \in Cpus |-> None]
  /\ held = [c \in Cpus |-> None]
  /\ got = [c \in Cpus |-> {}]
  /\ overlap = [c \in Cpus |-> 0]

\* The control plane finds another path to k, or loses its last one.
DaemonChanges(k) ==
  /\ \E p \in (Paths \union {None}) \ {daemon[k]} :
       daemon' = [daemon EXCEPT ![k] = p]
  /\ UNCHANGED <<answer, ring, psVars, mapVars, runVars>>

----------------------------------------------------------------------------
(***************************************************************************)
(* scion_egress.  Packets it leaves alone never come to the lookup and do  *)
(* not appear here.  A run is not preempted on its own CPU, where the      *)
(* update system call holds the bucket lock with interrupts off, so the    *)
(* two exclude each other on one CPU; other CPUs go on.                    *)
(***************************************************************************)
Preempts(c) == Writing /\ psCpu = c

\* The lookup finds the element linked for k.
Hit(c, k) ==
  /\ pc[c] = "idle" /\ ~Preempts(c)
  /\ Cached(k)
  /\ pc' = [pc EXCEPT ![c] = "len"]
  /\ dst' = [dst EXCEPT ![c] = k]
  /\ held' = [held EXCEPT ![c] = bucket[k]]
  /\ overlap' = [overlap EXCEPT ![c] = IF Writing THEN 1 ELSE 0]
  /\ UNCHANGED <<daemon, answer, ring, psVars, mapVars, got>>

\* The lookup returns NULL.
Miss(c, k) ==
  /\ pc[c] = "idle" /\ ~Preempts(c)
  /\ ~Cached(k)
  /\ pc' = [pc EXCEPT ![c] = "miss"]
  /\ dst' = [dst EXCEPT ![c] = k]
  /\ UNCHANGED <<daemon, answer, ring, psVars, mapVars, held, got, overlap>>

\* The run on c ends with TC_ACT_OK or TC_ACT_SHOT.
Leave(c) ==
  /\ pc' = [pc EXCEPT ![c] = "idle"]
  /\ dst' = [dst EXCEPT ![c] = None]
  /\ held' = [held EXCEPT ![c] = None]
  /\ got' = [got EXCEPT ![c] = {}]
  /\ overlap' = [overlap EXCEPT ![c] = 0]

\* bpf_ringbuf_output fails when the buffer is full; nobody looks at its
\* result.
Output(k) == ring' = IF Len(ring) < RingCap THEN Append(ring, k) ELSE ring

RequestPath(c) ==
  /\ pc[c] = "miss"
  /\ Output(dst[c])
  /\ Leave(c)
  /\ UNCHANGED <<daemon, answer, psVars, mapVars>>

\* Faulty variant: the entry is looked up again for every part.
SourceLookedUpAgain(c) == bucket[dst[c]]

\* The element through which the run reads the entry.
Source(c) == held[c]

\* What a read of element s can return while an update may be writing it.
Readable(s) ==
  IF Writing /\ psSlot = s THEN {slot[s], PathToMapEntry(psKey, psPath)}
                           ELSE {slot[s]}

\* The run copies the next part of the entry.
CopyPart(c) ==
  /\ pc[c] \in Parts
  /\ \E e \in Readable(Source(c)) : got' = [got EXCEPT ![c] = @ \union {e}]
  /\ pc' = [pc EXCEPT ![c] = NextPart(@)]
  /\ UNCHANGED <<daemon, answer, ring, psVars, mapVars, dst, held, overlap>>

\* bpf_check_mtu or bpf_skb_adjust_room refuses the size computed from
\* header.len.
NoRoom(c) ==
  /\ pc[c] = "port"
  /\ Leave(c)
  /\ UNCHANGED <<daemon, answer, ring, psVars, mapVars>>

\* The packet is complete and leaves towards the border router.
Send(c) ==
  /\ pc[c] = "send"
  /\ Leave(c)
  /\ UNCHANGED <<daemon, answer, ring, psVars, mapVars>>

----------------------------------------------------------------------------
(***************************************************************************)
(* PathService.  run() polls the ring buffer for ever; libbpf passes each  *)
(* record to reqHandler and frees it only when reqHandler has returned.    *)
(***************************************************************************)
TakeRequest ==
  /\ psPc = "poll"
  /\ ring # << >>
  /\ psKey' = Head(ring)
  /\ psPc' = "query"
  /\ UNCHANGED <<daemon, answer, ring, psPath, psCpu, psSlot, mapVars, runVars>>

\* reqHandler returns.
Return ==
  /\ ring' = Tail(ring)
  /\ psPc' = "poll"
  /\ psKey' = None /\ psPath' = None /\ psCpu' = None /\ psSlot' = None

\* queryPaths succeeds within its 100 ms.
QueryAnswered ==
  /\ psPc = "query"
  /\ daemon[psKey] # None
  /\ psPath' = daemon[psKey]
  /\ answer' = [answer EXCEPT ![psKey] = daemon[psKey]]
  /\ psPc' = "insert"
  /\ UNCHANGED <<daemon, ring, psKey, psCpu, psSlot, mapVars, runVars>>

\* Faulty variant: the empty result is not noticed before the insertion.
QueryFailsButInserts ==
  /\ psPc = "query"
  /\ psPc' = "insert"
  /\ UNCHANGED <<daemon, answer, ring, psKey, psPath, psCpu, psSlot, mapVars, runVars>>

\* Faulty variant: a request that was not answered is tried again and again.
QueryFailsAndRetries ==
  /\ psPc = "query"
  /\ psPc' = "poll" /\ psKey' = None
  /\ UNCHANGED <<daemon, answer, ring, psPath, psCpu, psSlot, mapVars, runVars>>

\* queryPaths fails, times out or finds nothing: no path is inserted.
QueryFails ==
  /\ psPc = "query"
  /\ Return
  /\ UNCHANGED <<daemon, answer, mapVars, runVars>>

\* Faulty variant: BPF_NOEXIST, the update only creates keys.
InsertableOnce(k) == ~Cached(k) /\ free # {}

\* BPF_ANY: the update creates the key or replaces its entry.
Insertable(k) == Cached(k) \/ free # {}

\* The map is full (E2BIG): the error is printed and the path is lost.
InsertRefused ==
  /\ psPc = "insert"
  /\ ~Insertable(psKey)
  /\ Return
  /\ UNCHANGED <<daemon, answer, mapVars, runVars>>

\* The elements into which an update on CPU c may write the entry of k.
NewElements(c, k) == IF Cached(k) THEN {spare[c]} ELSE free

\* Another update overlaps the runs that hold an entry.
CountOverlap ==
  overlap' = [c \in Cpus |-> IF Running(c) THEN IF overlap[c] = 0 THEN 1 ELSE 2
                                           ELSE overlap[c]]

\* Faulty variant: the old entry is deleted before the new one is inserted.
BeginUpdateDeletes(c) ==
  /\ psPc = "insert"
  /\ Insertable(psKey)
  /\ pc[c] = "idle"
  /\ psSlot' \in NewElements(c, psKey)
  /\ psCpu' = c
  /\ psPc' = "write"
  /\ CountOverlap
  /\ bucket' = [bucket EXCEPT ![psKey] = None]
  /\ UNCHANGED <<daemon, answer, ring, psKey, psPath, slot, free, spare, pc, dst,
                 held, got>>

\* The update system call, on CPU c, takes an element and starts copying.
BeginUpdate(c) ==
  /\ psPc = "insert"
  /\ Insertable(psKey)
  /\ pc[c] = "idle"
  /\ psSlot' \in NewElements(c, psKey)
  /\ psCpu' = c
  /\ psPc' = "write"
  /\ CountOverlap
  /\ UNCHANGED <<daemon, answer, ring, psKey, psPath, mapVars, pc, dst, held, got>>

\* The new element is linked, a replaced one becomes the CPU's spare.
Link(s, k) ==
  /\ bucket' = [bucket EXCEPT ![k] = s]
  /\ spare' = [spare EXCEPT ![psCpu] = IF Cached(k) THEN bucket[k] ELSE @]
  /\ free' = free \ {s}

FinishUpdate ==
  /\ psPc = "write"
  /\ slot' = [slot EXCEPT ![psSlot] = PathToMapEntry(psKey, psPath)]
  /\ Link(psSlot, psKey)
  /\ Return
  /\ UNCHANGED <<daemon, answer, runVars>>

----------------------------------------------------------------------------
RunStep(c) == RequestPath(c) \/ CopyPart(c) \/ NoRoom(c) \/ Send(c)

ServiceStep ==
  \/ TakeRequest \/ QueryAnswered \/ QueryFails
  \/ InsertRefused \/ (\E c \in Cpus : BeginUpdate(c)) \/ FinishUpdate

Next ==
  \/ \E k \in Keys : DaemonChanges(k)
  \/ \E c \in Cpus, k \in Keys : Hit(c, k) \/ Miss(c, k)
  \/ \E c \in Cpus : RunStep(c)
  \/ ServiceStep

Spec == Init /\ [][Next]_vars

(***************************************************************************)
(* A run of the TC program ends.  The service thread goes on whenever it   *)
(* can; the update waits for the current packet of its CPU, between two    *)
(* packets the thread is scheduled again (strong fairness).  A query ends, *)
(* at the latest after its timeout, and a daemon that keeps having a path  *)
(* to k does not let every query for k time out.                           *)
(***************************************************************************)
Fairness ==
  /\ \A c \in Cpus : WF_vars(RunStep(c))
  /\ WF_vars(TakeRequest)
  /\ WF_vars(QueryAnswered \/ QueryFails)
  /\ \A k \in Keys : SF_vars(psKey = k /\ QueryAnswered)
  /\ WF_vars(InsertRefused)
  /\ SF_vars(\E c \in Cpus : BeginUpdate(c))
  /\ WF_vars(FinishUpdate)

FairSpec == Spec /\ Fairness

----------------------------------------------------------------------------
\* Every variable has its type (the shapes of the maps and of the two
\* programs' local state).
TypeOK ==
  /\ daemon \in [Keys -> Paths \union {None}]
  /\ answer \in [Keys -> Paths \union {None}]
  /\ ring \in Seq(Keys) /\ Len(ring) <= RingCap
  /\ psPc \in {"poll", "query", "insert", "write"}
  /\ psKey \in Keys \union {None} /\ psPath \in Paths \union {None}
  /\ psCpu \in Cpus \union {None} /\ psSlot \in Slots \union {None}
  /\ slot \in [Slots -> Entries \union {None}]
  /\ bucket \in [Keys -> Slots \union {None}]
  /\ free \subseteq Slots
  /\ spare \in [Cpus -> Slots]
  /\ pc \in [Cpus -> {"idle", "miss", "send"} \union Parts]
  /\ dst \in [Cpus -> Keys \union {None}]
  /\ held \in [Cpus -> Slots \union {None}]
  /\ got \in [Cpus -> SUBSET (Entries \union {None})]
  /\ overlap \in [Cpus -> 0..2]

\* What path_map holds for an AS is a path to that AS, and it is the one the
\* daemon answered last, unless that answer is just being inserted: neither
\* duplicate requests, failed queries nor replacements leave an older answer
\* or one for another AS behind (PathService::insertPaths).
CacheSound ==
  \A k \in Keys : Cached(k) =>
    /\ slot[bucket[k]] \in Entries
    /\ slot[bucket[k]].key = k
    /\ psKey # k \/ psPc \in {"poll", "query"} => slot[bucket[k]].path = answer[k]

\* A packet that overlaps with at most one update of path_map is built from
\* one entry, and from one for the packet's destination AS: header, length,
\* path, router port and router address belong together, although
\* scion_egress reads them one by one while the service may replace the
\* entry.
OneEntryPerPacket ==
  \A c \in Cpus : Running(c) /\ overlap[c] <= 1 =>
    \A e \in got[c] : /\ e # None /\ e.key = dst[c]
                      /\ \A f \in got[c] : e = f

\* Packets to an AS keep missing the cache, the daemon in the end always has a
\* path to it, and so it has to every other AS that packets go on missing: then
\* the AS is in the cache from some time on, unless others have all elements of
\* the map.  No request that the full ring buffer loses, no failed
\* query keeps it out for ever.  (ASes that stay unreachable and are asked for
\* again and again may: with the right timing they refill the ring buffer before
\* every packet to the reachable one.)
EventuallyCached ==
  \A k \in Keys :
    /\ <>[](daemon[k] # None)
    /\ []<>Asked(k)
    /\ \A j \in Keys \ {k} : <>[](daemon[j] # None) \/ <>[]~Asked(j)
    => <>[](Cached(k) \/ free = {})

\* The ring buffer always gets room for another request.
RingGetsRoom == []<>(Len(ring) < RingCap)

\* The cache follows the daemon: if the daemon settles on path p for a cached
\* AS, the cache will hold p (paths are "refreshed proactively",
\* design/scion-ip-translation.md:164-165).
PathsRefreshed ==
  \A k \in Keys, p \in Paths :
    <>[](Cached(k) /\ daemon[k] = p) => <>(Cached(k) /\ slot[bucket[k]].path = p)

----------------------------------------------------------------------------
(***************************************************************************)
(* The inductive invariant behind TypeOK, CacheSound and OneEntryPerPacket *)
(***************************************************************************)

\* An element is linked for one key, or free, or the spare of one CPU.
ElementsPartitioned ==
  /\ \A k \in Keys : Cached(k) =>
       /\ bucket[k] \notin free
       /\ \A c \in Cpus : bucket[k] # spare[c]
       /\ \A j \in Keys : bucket[j] = bucket[k] => j = k
  /\ \A c \in Cpus :
       /\ spare[c] \notin free
       /\ \A d \in Cpus : spare[d] = spare[c] => d = c

\* While the service works on a request it is the oldest of the ring buffer,
\* the path is the daemon's answer to it, and the update writes into an
\* element no lookup finds.
ServiceConsistent ==
  /\ psPc # "poll" => ring # << >> /\ psKey \in Keys /\ psKey = Head(ring)
  /\ psPc \in {"insert", "write"} => psPath \in Paths /\ psPath = answer[psKey]
  /\ Writing => psCpu \in Cpus /\ psSlot \in NewElements(psCpu, psKey)

\* A run that is past its lookup holds an entry for its key.  Until a second
\* update overlaps it that entry is not written to: it stays linked while
\* the first one is copying, and is at worst a spare afterwards.
RunsConsistent ==
  \A c \in Cpus :
    /\ pc[c] # "idle" => dst[c] \in Keys
    /\ ~Running(c) => got[c] = {}
    /\ Running(c) => held[c] \in Slots
    /\ Running(c) /\ overlap[c] <= 1 =>
         /\ slot[held[c]] \in Entries /\ slot[held[c]].key = dst[c]
         /\ got[c] \subseteq {slot[held[c]]}
         /\ Writing \/ overlap[c] = 0 => held[c] = bucket[dst[c]]
         /\ overlap[c] = 0 => ~Writing

IInv ==
  /\ TypeOK
  /\ ElementsPartitioned
  /\ ServiceConsistent
  /\ CacheSound
  /\ RunsConsistent

----------------------------------------------------------------------------
\* What a lookup of k can return now: the paths that can be read from the
\* linked element, also while an update is copying.
Visible(k) == IF Cached(k) THEN {e.path : e \in Readable(bucket[k])} ELSE {}

Abstract == INSTANCE PathCache WITH
  pending <- Range(ring),
  cache <- [k \in Keys |-> Visible(k)]

\* With its elements, spares and the copying update, the map implements the
\* abstract cache: seen through a lookup, an update takes effect in one step,
\* for a requested AS, and no cached AS is ever missed.
ImplementsPathCache == Abstract!Spec
=============================================================================
