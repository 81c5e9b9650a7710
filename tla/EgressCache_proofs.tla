------------------------- MODULE EgressCache_proofs -------------------------
(***************************************************************************)
(* Proofs about EgressCache for any sets of CPUs, ASes, paths and elements *)
(* and any size of the ring buffer.                                        *)
(***************************************************************************)
EXTENDS EgressCache, TLAPS

LEMMA InitIInv == Init => IInv
<1> SUFFICES ASSUME Init PROVE IInv
  OBVIOUS
<1> USE ConstantsAssumption DEF Init
<1>1. spare \in [Cpus -> Slots] /\ \A c, d \in Cpus : spare[c] = spare[d] => c = d
  BY DEF Injection, IsInjective
<1>2. \A c \in Cpus : spare[c] \notin free
  BY <1>1 DEF Range
<1>3. TypeOK
  BY <1>1 DEF TypeOK, Parts
<1>4. ElementsPartitioned
  BY <1>1, <1>2 DEF ElementsPartitioned, Cached
<1>5. ServiceConsistent /\ CacheSound
  BY DEF ServiceConsistent, CacheSound, Cached, Writing
<1>6. RunsConsistent
  BY DEF RunsConsistent, Running, Parts
<1> QED
  BY <1>3, <1>4, <1>5, <1>6 DEF IInv

----------------------------------------------------------------------------
\* The environment: the invariant says nothing about what the daemon offers.
LEMMA DaemonChangesIInv ==
  ASSUME IInv, NEW k \in Keys, DaemonChanges(k)
  PROVE  IInv'
<1> USE DEF IInv, DaemonChanges, psVars, mapVars, runVars
<1>1. TypeOK'
  BY DEF TypeOK
<1>2. ElementsPartitioned' /\ ServiceConsistent' /\ CacheSound'
  BY DEF ElementsPartitioned, ServiceConsistent, CacheSound, Cached, Writing,
         NewElements
<1>3. RunsConsistent'
  BY DEF RunsConsistent, Running, Writing
<1> QED
  BY <1>1, <1>2, <1>3

----------------------------------------------------------------------------
\* Steps of the TC program change neither the map nor the service; the map
\* part of the invariant is carried over once for all of them.
LEMMA RunStepsKeepMap ==
  ASSUME IInv, UNCHANGED <<psVars, mapVars, answer>>,
         psPc # "poll" => ring' # << >> /\ Head(ring') = Head(ring)
  PROVE  ElementsPartitioned' /\ ServiceConsistent' /\ CacheSound'
BY DEF IInv, ElementsPartitioned, ServiceConsistent, CacheSound, Cached, Writing,
       NewElements, psVars, mapVars

LEMMA HitIInv ==
  ASSUME IInv, NEW c \in Cpus, NEW k \in Keys, Hit(c, k)
  PROVE  IInv'
<1> USE ConstantsAssumption DEF IInv, Hit, psVars, mapVars, runVars
<1>1. TypeOK'
  BY DEF TypeOK, Cached, Parts
<1>2. ElementsPartitioned' /\ ServiceConsistent' /\ CacheSound'
  BY RunStepsKeepMap DEF ServiceConsistent
<1>3. bucket[k] \in Slots /\ slot[bucket[k]] \in Entries /\ slot[bucket[k]].key = k
  BY DEF TypeOK, CacheSound, Cached
<1>4. RunsConsistent'
  <2> SUFFICES ASSUME NEW d \in Cpus
               PROVE  RunsConsistent!(d)'
    BY DEF RunsConsistent
  <2>1. CASE d = c
    BY <2>1, <1>3 DEF RunsConsistent, TypeOK, Running, Writing, Parts
  <2>2. CASE d # c
    BY <2>2 DEF RunsConsistent, TypeOK, Running, Writing
  <2> QED
    BY <2>1, <2>2
<1> QED
  BY <1>1, <1>2, <1>4

LEMMA MissIInv ==
  ASSUME IInv, NEW c \in Cpus, NEW k \in Keys, Miss(c, k)
  PROVE  IInv'
<1> USE DEF IInv, Miss, psVars, mapVars, runVars
<1>1. TypeOK'
  BY DEF TypeOK
<1>2. ElementsPartitioned' /\ ServiceConsistent' /\ CacheSound'
  BY RunStepsKeepMap DEF ServiceConsistent
<1>3. RunsConsistent'
  BY DEF RunsConsistent, TypeOK, Running, Writing, Parts
<1> QED
  BY <1>1, <1>2, <1>3

\* A run that ends is in nobody's way.
LEMMA LeaveKeepsRuns ==
  ASSUME IInv, NEW c \in Cpus, Leave(c), UNCHANGED <<psVars, mapVars>>
  PROVE  RunsConsistent'
BY DEF IInv, TypeOK, Leave, RunsConsistent, Running, Writing, Parts, psVars, mapVars

LEMMA RequestPathIInv ==
  ASSUME IInv, NEW c \in Cpus, RequestPath(c)
  PROVE  IInv'
<1> USE DEF IInv, RequestPath, psVars, mapVars
<1>1. dst[c] \in Keys
  BY DEF RunsConsistent
<1>2. /\ ring' \in Seq(Keys) /\ Len(ring') <= RingCap
      /\ ring # << >> => ring' # << >> /\ Head(ring') = Head(ring)
  BY <1>1, ConstantsAssumption DEF Output, TypeOK
<1>3. TypeOK'
  BY <1>2 DEF TypeOK, Leave
<1>4. ElementsPartitioned' /\ ServiceConsistent' /\ CacheSound'
  BY <1>2, RunStepsKeepMap DEF ServiceConsistent
<1>5. RunsConsistent'
  BY LeaveKeepsRuns
<1> QED
  BY <1>3, <1>4, <1>5

\* NoRoom and Send only end the run.
LEMMA LeaveIInv ==
  ASSUME IInv, NEW c \in Cpus, Leave(c),
         UNCHANGED <<daemon, answer, ring, psVars, mapVars>>
  PROVE  IInv'
<1>1. TypeOK'
  BY DEF IInv, TypeOK, Leave, psVars, mapVars
<1>2. ElementsPartitioned' /\ ServiceConsistent' /\ CacheSound'
  BY RunStepsKeepMap DEF IInv, ServiceConsistent
<1>3. RunsConsistent'
  BY LeaveKeepsRuns
<1> QED
  BY <1>1, <1>2, <1>3 DEF IInv

LEMMA CopyPartIInv ==
  ASSUME IInv, NEW c \in Cpus, CopyPart(c)
  PROVE  IInv'
<1> USE DEF IInv, CopyPart, psVars, mapVars
<1>1. held[c] \in Slots /\ Running(c)
  BY DEF RunsConsistent, Running
<1>2. PICK e \in Readable(held[c]) : got' = [got EXCEPT ![c] = @ \union {e}]
  BY DEF Source
<1>3. e \in Entries \union {None}
  BY <1>1 DEF TypeOK, Readable, ServiceConsistent, PathToMapEntry, Entries, Writing
<1>4. pc'[c] \in Parts \union {"send"} /\ pc' = [pc EXCEPT ![c] = pc'[c]]
  BY DEF NextPart, Parts, TypeOK
<1>5. TypeOK'
  BY <1>2, <1>3, <1>4 DEF TypeOK
<1>6. ElementsPartitioned' /\ ServiceConsistent' /\ CacheSound'
  BY RunStepsKeepMap DEF ServiceConsistent
<1>7. overlap[c] <= 1 => e = slot[held[c]]
  <2> SUFFICES ASSUME overlap[c] <= 1, Writing
               PROVE  psSlot # held[c]
    BY DEF Readable
  <2>1. held[c] = bucket[dst[c]] /\ dst[c] \in Keys /\ Cached(dst[c])
    BY <1>1, ConstantsAssumption DEF RunsConsistent, Cached, Running, Parts
  <2>2. psSlot \in NewElements(psCpu, psKey) /\ psCpu \in Cpus
    BY DEF ServiceConsistent
  <2> QED
    BY <2>1, <2>2 DEF NewElements, ElementsPartitioned
<1>8. RunsConsistent'
  <2> SUFFICES ASSUME NEW d \in Cpus
               PROVE  RunsConsistent!(d)'
    BY DEF RunsConsistent
  <2>1. CASE d = c
    BY <2>1, <1>1, <1>2, <1>4, <1>7
       DEF RunsConsistent, TypeOK, Running, Writing, Parts
  <2>2. CASE d # c
    BY <2>2, <1>2, <1>4 DEF RunsConsistent, TypeOK, Running, Writing
  <2> QED
    BY <2>1, <2>2
<1> QED
  BY <1>5, <1>6, <1>8

----------------------------------------------------------------------------
\* Steps of the service that do not touch the map, and after which it is not
\* in the middle of an update, leave map and runs as they are.
LEMMA ServiceStepsKeepRuns ==
  ASSUME IInv, UNCHANGED <<mapVars, runVars>>, ~Writing, ~Writing'
  PROVE  ElementsPartitioned' /\ RunsConsistent'
BY DEF IInv, ElementsPartitioned, RunsConsistent, Running, Cached, mapVars, runVars

LEMMA TakeRequestIInv ==
  ASSUME IInv, TakeRequest
  PROVE  IInv'
<1> USE DEF IInv, TakeRequest, mapVars, runVars
<1>1. Head(ring) \in Keys
  BY DEF TypeOK
<1>2. TypeOK'
  BY <1>1 DEF TypeOK
<1>3. ServiceConsistent' /\ CacheSound'
  BY <1>1 DEF ServiceConsistent, CacheSound, Cached, Writing
<1>4. ElementsPartitioned' /\ RunsConsistent'
  BY ServiceStepsKeepRuns DEF Writing
<1> QED
  BY <1>2, <1>3, <1>4

LEMMA QueryAnsweredIInv ==
  ASSUME IInv, QueryAnswered
  PROVE  IInv'
<1> USE DEF IInv, QueryAnswered, mapVars, runVars
<1>1. psKey \in Keys /\ daemon[psKey] \in Paths
  BY DEF TypeOK, ServiceConsistent
<1>2. TypeOK'
  BY <1>1 DEF TypeOK
<1>3. ServiceConsistent' /\ CacheSound'
  BY <1>1 DEF ServiceConsistent, CacheSound, Cached, Writing, TypeOK
<1>4. ElementsPartitioned' /\ RunsConsistent'
  BY ServiceStepsKeepRuns DEF Writing
<1> QED
  BY <1>2, <1>3, <1>4

\* reqHandler returns without an update: the query failed, or the map is full.
\* In the second case the key is not cached, so the unused answer is no
\* newer than what the cache holds.
LEMMA ReturnIInv ==
  ASSUME IInv, Return, UNCHANGED <<daemon, answer, mapVars, runVars>>,
         psPc = "query" \/ (psPc = "insert" /\ ~Cached(psKey))
  PROVE  IInv'
<1> USE ConstantsAssumption DEF IInv, Return, mapVars, runVars
<1>1. ring # << >>
  BY DEF ServiceConsistent
<1>2. TypeOK'
  BY <1>1 DEF TypeOK
<1>3. ServiceConsistent' /\ CacheSound'
  BY DEF ServiceConsistent, CacheSound, Cached, Writing
<1>4. ElementsPartitioned' /\ RunsConsistent'
  BY ServiceStepsKeepRuns DEF Writing
<1> QED
  BY <1>2, <1>3, <1>4

\* The update starts: it becomes the first one to overlap with the runs that
\* none had overlapped with, and these hold the linked element, which is not
\* the one it writes.
LEMMA BeginUpdateIInv ==
  ASSUME IInv, NEW c \in Cpus, BeginUpdate(c)
  PROVE  IInv'
<1> USE DEF IInv, BeginUpdate, mapVars
<1>1. psKey \in Keys
  BY DEF ServiceConsistent
<1>2. psSlot' \in Slots
  BY DEF NewElements, TypeOK
<1>3. TypeOK'
  BY <1>2 DEF TypeOK, CountOverlap
<1>4. ElementsPartitioned' /\ ServiceConsistent' /\ CacheSound'
  BY DEF ElementsPartitioned, ServiceConsistent, CacheSound, Cached, Writing, NewElements
<1>5. RunsConsistent'
  BY DEF RunsConsistent, Running, Writing, CountOverlap, TypeOK
<1> QED
  BY <1>3, <1>4, <1>5

LEMMA FinishUpdateIInv ==
  ASSUME IInv, FinishUpdate
  PROVE  IInv'
<1> USE ConstantsAssumption DEF IInv, FinishUpdate, runVars
<1>1. /\ psKey \in Keys /\ psPath \in Paths /\ psPath = answer[psKey]
      /\ psCpu \in Cpus /\ psSlot \in NewElements(psCpu, psKey) /\ ring # << >>
  BY DEF ServiceConsistent, Writing
<1>2. psSlot \in Slots /\ PathToMapEntry(psKey, psPath) \in Entries
  BY <1>1 DEF NewElements, TypeOK, PathToMapEntry, Entries
<1>3. TypeOK'
  BY <1>1, <1>2 DEF TypeOK, Link, Return, Cached
<1>4. psSlot # None /\ \A k \in Keys : bucket[k] # psSlot
  BY <1>1, <1>2 DEF NewElements, ElementsPartitioned, Cached
<1>5. ElementsPartitioned'
  BY <1>1, <1>2, <1>4
     DEF ElementsPartitioned, Link, Cached, NewElements, TypeOK
<1>6. ServiceConsistent'
  BY DEF ServiceConsistent, Return, Writing
<1>7. CacheSound'
  <2> SUFFICES ASSUME NEW k \in Keys
               PROVE  CacheSound!(k)'
    BY DEF CacheSound
  <2>1. CASE k = psKey
    BY <2>1, <1>1, <1>2
       DEF CacheSound, Link, Return, Cached, TypeOK, PathToMapEntry
  <2>2. CASE k # psKey
    BY <2>2, <1>4 DEF CacheSound, Link, Return, Cached, TypeOK
  <2> QED
    BY <2>1, <2>2
<1>8. RunsConsistent'
  <2> SUFFICES ASSUME NEW c \in Cpus
               PROVE  RunsConsistent!(c)'
    BY DEF RunsConsistent
  <2>1. Running(c) /\ overlap[c] <= 1 => held[c] # psSlot
    <3>1. pc[c] # "idle" => dst[c] \in Keys
      BY DEF RunsConsistent
    <3>2. Running(c) /\ overlap[c] <= 1 => held[c] = bucket[dst[c]] /\ pc[c] # "idle"
      BY DEF RunsConsistent, Running, Parts, Writing
    <3> QED
      BY <3>1, <3>2, <1>4
  <2>2. Running(c) => overlap[c] # 0
    BY DEF RunsConsistent, Writing, TypeOK
  <2> QED
    BY <2>1, <2>2 DEF RunsConsistent, Running, Writing, Return, TypeOK
<1> QED
  BY <1>3, <1>5, <1>6, <1>7, <1>8

----------------------------------------------------------------------------
LEMMA StutterIInv == IInv /\ UNCHANGED vars => IInv'
BY DEF IInv, vars, psVars, mapVars, runVars, TypeOK, ElementsPartitioned, Cached,
       ServiceConsistent, CacheSound, RunsConsistent, Running, Writing, NewElements

\* Every step of the TC program, the service and the daemon preserves the
\* inductive invariant.
THEOREM NextIInv == IInv /\ [Next]_vars => IInv'
<1> SUFFICES ASSUME IInv, [Next]_vars PROVE IInv'
  OBVIOUS
<1>1. ASSUME NEW k \in Keys, DaemonChanges(k) PROVE IInv'
  BY <1>1, DaemonChangesIInv
<1>2. ASSUME NEW c \in Cpus, NEW k \in Keys, Hit(c, k) PROVE IInv'
  BY <1>2, HitIInv
<1>3. ASSUME NEW c \in Cpus, NEW k \in Keys, Miss(c, k) PROVE IInv'
  BY <1>3, MissIInv
<1>4. ASSUME NEW c \in Cpus, RunStep(c) PROVE IInv'
  <2>1. CASE RequestPath(c)
    BY <2>1, RequestPathIInv
  <2>2. CASE CopyPart(c)
    BY <2>2, CopyPartIInv
  <2>3. CASE NoRoom(c) \/ Send(c)
    BY <2>3, LeaveIInv DEF NoRoom, Send
  <2> QED
    BY <1>4, <2>1, <2>2, <2>3 DEF RunStep
<1>5. ASSUME ServiceStep PROVE IInv'
  <2>1. CASE TakeRequest
    BY <2>1, TakeRequestIInv
  <2>2. CASE QueryAnswered
    BY <2>2, QueryAnsweredIInv
  <2>3. CASE QueryFails
    BY <2>3, ReturnIInv DEF QueryFails
  <2>4. CASE InsertRefused
    BY <2>4, ReturnIInv DEF InsertRefused, Insertable
  <2>5. ASSUME NEW c \in Cpus, BeginUpdate(c) PROVE IInv'
    BY <2>5, BeginUpdateIInv
  <2>6. CASE FinishUpdate
    BY <2>6, FinishUpdateIInv
  <2> QED
    BY <1>5, <2>1, <2>2, <2>3, <2>4, <2>5, <2>6 DEF ServiceStep
<1> QED
  BY <1>1, <1>2, <1>3, <1>4, <1>5, StutterIInv DEF Next

\* The inductive invariant holds in every reachable state.
THEOREM Invariance == Spec => []IInv
BY InitIInv, NextIInv, PTL DEF Spec

\* All variables keep their types, for every size of the system.
THEOREM TypeCorrect == Spec => []TypeOK
<1>1. IInv => TypeOK
  BY DEF IInv
<1> QED
  BY <1>1, Invariance, PTL

\* What path_map holds for an AS is always the daemon's last answer for that
\* AS (PathService::insertPaths), whatever the CPUs and the service do
\* meanwhile.
THEOREM CacheIsSound == Spec => []CacheSound
<1>1. IInv => CacheSound
  BY DEF IInv
<1> QED
  BY <1>1, Invariance, PTL

\* A packet overlapped by at most one update is built from a single entry of
\* its own destination AS (scion_egress reading through `path`).
THEOREM PacketsAreConsistent == Spec => []OneEntryPerPacket
<1>1. IInv => OneEntryPerPacket
  <2> SUFFICES ASSUME IInv, NEW c \in Cpus, Running(c), overlap[c] <= 1,
                      NEW e \in got[c]
               PROVE  e # None /\ e.key = dst[c] /\ \A f \in got[c] : e = f
    BY DEF OneEntryPerPacket
  <2>1. /\ got[c] \subseteq {slot[held[c]]} /\ slot[held[c]].key = dst[c]
        /\ slot[held[c]] \in Entries
    BY DEF IInv, RunsConsistent
  <2>2. e = slot[held[c]] /\ \A f \in got[c] : f = slot[held[c]]
    BY <2>1
  <2>3. e # None
    BY <2>1, <2>2, ConstantsAssumption DEF Entries
  <2> QED
    BY <2>1, <2>2, <2>3
<1> QED
  BY <1>1, Invariance, PTL

----------------------------------------------------------------------------
(***************************************************************************)
(* EgressCache implements PathCache.                                       *)
(***************************************************************************)

LEMMA RangeAppend ==
  ASSUME NEW S, NEW s \in Seq(S), NEW x \in S
  PROVE  Range(Append(s, x)) = Range(s) \union {x}
<1>1. DOMAIN Append(s, x) = 1..(Len(s) + 1) /\ DOMAIN s = 1..Len(s)
  OBVIOUS
<1>2. \A i \in 1..Len(s) : Append(s, x)[i] = s[i]
  OBVIOUS
<1>3. Append(s, x)[Len(s) + 1] = x
  OBVIOUS
<1>4. 1..(Len(s) + 1) = 1..Len(s) \union {Len(s) + 1}
  OBVIOUS
<1> QED
  BY <1>1, <1>2, <1>3, <1>4, Zenon DEF Range

LEMMA RangeTail ==
  ASSUME NEW S, NEW s \in Seq(S), s # << >>
  PROVE  /\ Head(s) \in Range(s)
         /\ Range(Tail(s)) \in {Range(s), Range(s) \ {Head(s)}}
<1>1. /\ DOMAIN s = 1..Len(s) /\ Len(s) \in Nat /\ Len(s) >= 1
      /\ DOMAIN Tail(s) = 1..(Len(s) - 1)
      /\ Head(s) = s[1]
      /\ \A i \in 1..(Len(s) - 1) : Tail(s)[i] = s[i + 1]
  OBVIOUS
<1>2. \A x \in Range(Tail(s)) : x \in Range(s)
  BY <1>1 DEF Range
<1>3. \A x \in Range(s) : x = Head(s) \/ x \in Range(Tail(s))
  <2> SUFFICES ASSUME NEW i \in 1..Len(s), s[i] # Head(s)
               PROVE  s[i] \in Range(Tail(s))
    BY <1>1 DEF Range
  <2>1. i - 1 \in 1..(Len(s) - 1) /\ Tail(s)[i - 1] = s[i]
    BY <1>1
  <2> QED
    BY <2>1, <1>1 DEF Range
<1>4. Head(s) \in Range(s)
  BY <1>1 DEF Range
<1> QED
  BY <1>2, <1>3, <1>4

\* The update never writes into an element that a lookup can find.
VisibleIsLinked ==
  \A k \in Keys : Visible(k) = IF Cached(k) THEN {slot[bucket[k]].path} ELSE {}

LEMMA LookupsFindLinked == IInv => VisibleIsLinked
<1> SUFFICES ASSUME IInv, NEW k \in Keys, Cached(k)
             PROVE  Visible(k) = {slot[bucket[k]].path}
  BY DEF Visible, VisibleIsLinked
<1>1. Writing => psSlot # bucket[k]
  BY DEF IInv, ServiceConsistent, NewElements, ElementsPartitioned
<1>2. Readable(bucket[k]) = {slot[bucket[k]]}
  BY <1>1 DEF Readable
<1> QED
  BY <1>2 DEF Visible

\* The values of PathCache's variables under the refinement mapping.
cacheMap == [k \in Keys |-> Visible(k)]
pendingMap == Range(ring)

\* A step that does not change the map does not change what lookups find.
LEMMA CacheUnchanged ==
  ASSUME IInv, IInv', UNCHANGED mapVars
  PROVE  cacheMap' = cacheMap
<1>1. VisibleIsLinked /\ VisibleIsLinked'
  BY LookupsFindLinked, PTL
<1>2. \A k \in Keys : Visible(k)' = Visible(k)
  BY <1>1 DEF VisibleIsLinked, mapVars, Cached
<1> QED
  BY <1>2 DEF cacheMap

\* The service finishes the oldest request of the ring buffer.
LEMMA ReturnFinishes ==
  ASSUME IInv, Return, psPc # "poll"
  PROVE  psKey \in Keys /\ Abstract!Finish(psKey)
<1>1. ring \in Seq(Keys) /\ ring # << >> /\ psKey = Head(ring) /\ psKey \in Keys
  BY DEF IInv, TypeOK, ServiceConsistent
<1>2. psKey \in Range(ring) /\ Range(ring') \in {Range(ring), Range(ring) \ {psKey}}
  BY <1>1, RangeTail DEF Return
<1> QED
  BY <1>1, <1>2 DEF Abstract!Finish

\* Linking the written element is PathCache's Fill.
LEMMA FinishUpdateFills ==
  ASSUME IInv, IInv', FinishUpdate
  PROVE  psPath \in Paths /\ cacheMap' = [cacheMap EXCEPT ![psKey] = {psPath}]
<1>1. /\ psKey \in Keys /\ psPath \in Paths /\ psSlot \in Slots /\ psSlot # None
      /\ \A k \in Keys : bucket[k] # psSlot
  BY ConstantsAssumption
     DEF FinishUpdate, IInv, TypeOK, ServiceConsistent, Writing, NewElements,
         ElementsPartitioned, Cached
<1>2. VisibleIsLinked /\ VisibleIsLinked'
  BY LookupsFindLinked, PTL
<1>3. ASSUME NEW k \in Keys, k = psKey
      PROVE  Visible(k)' = {psPath}
  <2>1. bucket'[k] = psSlot /\ slot'[psSlot] = PathToMapEntry(psKey, psPath)
    BY <1>1, <1>3 DEF FinishUpdate, Link, IInv, TypeOK
  <2>2. Cached(k)' /\ slot'[bucket'[k]].path = psPath
    BY <1>1, <2>1 DEF Cached, PathToMapEntry
  <2> QED
    BY <1>2, <2>2 DEF VisibleIsLinked
<1>4. ASSUME NEW k \in Keys, k # psKey
      PROVE  Visible(k)' = Visible(k)
  <2>1. bucket'[k] = bucket[k]
    BY <1>1, <1>4 DEF FinishUpdate, Link, IInv, TypeOK
  <2>2. Cached(k) => slot'[bucket[k]] = slot[bucket[k]]
    BY <1>1 DEF FinishUpdate, Cached, IInv, TypeOK
  <2> QED
    BY <1>2, <2>1, <2>2 DEF VisibleIsLinked, Cached
<1>5. cacheMap' = [k \in Keys |-> IF k = psKey THEN {psPath} ELSE Visible(k)]
  BY <1>3, <1>4 DEF cacheMap
<1> QED
  BY <1>1, <1>5 DEF cacheMap

\* Every step of the translator is a step of the abstract cache or changes
\* nothing that can be seen of it.
LEMMA StepRefines ==
  ASSUME IInv, IInv', [Next]_vars
  PROVE  [Abstract!Next]_<<pendingMap, cacheMap>>
<1> USE DEF pendingMap
<1>1. CASE UNCHANGED <<ring, mapVars>>
  BY <1>1, CacheUnchanged
<1>2. ASSUME NEW c \in Cpus, RequestPath(c)
      PROVE  [Abstract!Next]_<<pendingMap, cacheMap>>
  <2>1. cacheMap' = cacheMap
    BY <1>2, CacheUnchanged DEF RequestPath
  <2>2. dst[c] \in Keys /\ ring \in Seq(Keys)
    BY <1>2 DEF IInv, TypeOK, RunsConsistent, RequestPath
  <2>3. CASE Len(ring) < RingCap
    <3>1. Range(ring') = Range(ring) \union {dst[c]}
      BY <1>2, <2>2, <2>3, RangeAppend DEF RequestPath, Output
    <3> QED
      BY <2>1, <2>2, <3>1 DEF Abstract!Next, Abstract!Request, cacheMap
  <2>4. CASE ~(Len(ring) < RingCap)
    BY <1>2, <2>1, <2>4 DEF RequestPath, Output
  <2> QED
    BY <2>3, <2>4
<1>3. ASSUME QueryFails \/ InsertRefused
      PROVE  [Abstract!Next]_<<pendingMap, cacheMap>>
  <2>1. cacheMap' = cacheMap
    BY <1>3, CacheUnchanged DEF QueryFails, InsertRefused
  <2>2. psKey \in Keys /\ Abstract!Finish(psKey)
    BY <1>3, ReturnFinishes DEF QueryFails, InsertRefused
  <2> QED
    BY <2>1, <2>2 DEF Abstract!Next, Abstract!GiveUp, cacheMap
<1>4. ASSUME FinishUpdate
      PROVE  [Abstract!Next]_<<pendingMap, cacheMap>>
  <2>1. psKey \in Keys /\ Abstract!Finish(psKey)
    BY <1>4, ReturnFinishes DEF FinishUpdate
  <2> QED
    BY <1>4, <2>1, FinishUpdateFills DEF Abstract!Next, Abstract!Fill, cacheMap
<1>5. ASSUME NEW c \in Cpus, NEW k \in Keys, Hit(c, k) \/ Miss(c, k)
      PROVE  UNCHANGED <<ring, mapVars>>
  BY <1>5 DEF Hit, Miss
<1>6. ASSUME NEW c \in Cpus, CopyPart(c) \/ NoRoom(c) \/ Send(c)
      PROVE  UNCHANGED <<ring, mapVars>>
  BY <1>6 DEF CopyPart, NoRoom, Send
<1>7. ASSUME NEW c \in Cpus, BeginUpdate(c)
      PROVE  UNCHANGED <<ring, mapVars>>
  BY <1>7 DEF BeginUpdate
<1>8. ASSUME TakeRequest \/ QueryAnswered \/ UNCHANGED vars
               \/ \E k \in Keys : DaemonChanges(k)
      PROVE  UNCHANGED <<ring, mapVars>>
  BY <1>8 DEF TakeRequest, QueryAnswered, vars, DaemonChanges
<1> QED
  BY <1>1, <1>2, <1>3, <1>4, <1>5, <1>6, <1>7, <1>8 DEF Next, RunStep, ServiceStep

\* The map with its elements, spares and concurrent readers implements the
\* abstract path cache: lookups see every update of insertPaths happen in one
\* step, for a requested AS only, and no update makes a cached AS missing.
THEOREM Refinement == Spec => ImplementsPathCache
<1>1. Init => Abstract!Init
  BY ConstantsAssumption DEF Init, Abstract!Init, Visible, Cached, Range
<1>2. IInv /\ IInv' /\ [Next]_vars => [Abstract!Next]_<<pendingMap, cacheMap>>
  BY StepRefines
<1> QED
  BY <1>1, <1>2, Invariance, PTL
     DEF Spec, ImplementsPathCache, Abstract!Spec, pendingMap, cacheMap
=============================================================================
