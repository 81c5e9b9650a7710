-------------------------- MODULE HostTraffic_proofs --------------------------
(***************************************************************************)
(* Proofs about PathManager for any configurations and number of runs, and *)
(* about what becomes of any traffic meanwhile.                            *)
(***************************************************************************)
EXTENDS HostTraffic, TLAPS

\* A running path manager has a tap of its configuration.
LEMMA TapIsNamed ==
  ASSUME TypeOK, pc # "off"
  PROVE  TapName[cfg] \in TapNames
BY DEF TypeOK, TapNames

LEMMA InitInv == Init => PathManagerInv
<1> SUFFICES ASSUME Init PROVE PathManagerInv
  OBVIOUS
<1>1. env \in Envs /\ env.routes = {} /\ env.filter = None
  BY DEF Init, Envs
<1>2. 0 \in 0..MaxRuns
  BY PathManagerAssumption
<1>3. before \in Envs
  BY <1>1 DEF Init
<1>4. TypeOK
  BY <1>1, <1>2, <1>3 DEF Init, TypeOK
<1>5. IndicesFollow /\ EnvConsistent
  BY <1>1 DEF Init, IndicesFollow, EnvConsistent
<1>6. ChangesKnown /\ NoFurther /\ UpStays /\ FailureUndone
  BY DEF Init, ChangesKnown, NoFurther, UpStays, FailureUndone
<1> QED
  BY <1>4, <1>5, <1>6 DEF PathManagerInv

\* A run starts from what it finds.
LEMMA StartInv ==
  ASSUME PathManagerInv, NEW c \in Configs, Start(c)
  PROVE  PathManagerInv'
<1> USE DEF Start, Goto, PathManagerInv
<1>1. TypeOK'
  <2>1. runs' \in 0..MaxRuns
    BY PathManagerAssumption DEF TypeOK
  <2>2. env' \in Envs /\ before' \in Envs
    BY DEF TypeOK
  <2> QED
    BY <2>1, <2>2 DEF TypeOK
<1>2. IndicesFollow' /\ EnvConsistent'
  BY DEF TypeOK, IndicesFollow, EnvConsistent
<1>3. ChangesKnown'
  BY DEF ChangesKnown, OwnTap
<1>4. NoFurther' /\ UpStays' /\ FailureUndone'
  BY DEF TypeOK, NoFurther, UpStays, FailureUndone
<1> QED
  BY <1>1, <1>2, <1>3, <1>4

\* Steps that change no more than pc.
LEMMA QuietInv ==
  ASSUME PathManagerInv, Connect \/ InitFails \/ TapUp \/ XdpUp \/ InitMapFails
  PROVE  PathManagerInv'
<1> USE DEF Goto, history, proc, PathManagerInv, TypeOK, IndicesFollow, EnvConsistent,
        ChangesKnown, NoFurther, UpStays, FailureUndone, Tap, OwnTap
<1>1. CASE Connect
  BY <1>1 DEF Connect
<1>2. CASE InitFails
  BY <1>2 DEF InitFails
<1>3. CASE TapUp
  BY <1>3 DEF TapUp
<1>4. CASE XdpUp
  BY <1>4 DEF XdpUp
<1>5. CASE InitMapFails
  BY <1>5 DEF InitMapFails
<1> QED
  BY <1>1, <1>2, <1>3, <1>4, <1>5

\* The steps of init that change something.
LEMMA CreateInv ==
  ASSUME PathManagerInv, CreateTap \/ CreateXdp \/ CreateXdpHalf \/ InitMap
  PROVE  PathManagerInv'
<1> USE DEF Goto, history, proc, PathManagerInv, TypeOK, Envs, IndicesFollow,
        EnvConsistent, ChangesKnown, NoFurther, UpStays, FailureUndone, Tap, OwnTap
<1>1. CASE CreateTap
  <2>1. TypeOK'
    <3>1. env' \in Envs /\ before' \in Envs
      BY <1>1, TapIsNamed DEF CreateTap
    <3> QED
      BY <1>1, <3>1 DEF CreateTap
  <2>2. IndicesFollow'
    BY <1>1 DEF CreateTap
  <2>3. EnvConsistent'
    BY <1>1 DEF CreateTap
  <2>4. ChangesKnown'
    BY <1>1 DEF CreateTap
  <2>5. (NoFurther /\ UpStays)'
    BY <1>1 DEF CreateTap
  <2>6. FailureUndone'
    BY <1>1 DEF CreateTap
  <2> QED
    BY <2>1, <2>2, <2>3, <2>4, <2>5, <2>6
<1>2. CASE CreateXdp
  <2>1. TypeOK'
    BY <1>2 DEF CreateXdp, LoadProgram
  <2>2. IndicesFollow'
    BY <1>2 DEF CreateXdp, LoadProgram
  <2>3. EnvConsistent'
    BY <1>2 DEF CreateXdp, LoadProgram
  <2>4. ChangesKnown'
    BY <1>2 DEF CreateXdp, LoadProgram
  <2>5. (NoFurther /\ UpStays)'
    BY <1>2 DEF CreateXdp, LoadProgram
  <2>6. FailureUndone'
    BY <1>2 DEF CreateXdp, LoadProgram
  <2> QED
    BY <2>1, <2>2, <2>3, <2>4, <2>5, <2>6
<1>3. CASE CreateXdpHalf
  BY <1>3 DEF CreateXdpHalf, LoadProgram
<1>4. CASE InitMap
  BY <1>4 DEF InitMap
<1> QED
  BY <1>1, <1>2, <1>3, <1>4

LEMMA RoutesInv ==
  ASSUME PathManagerInv, AddRoute \/ DelRoute
  PROVE  PathManagerInv'
<1> USE DEF Goto, history, proc, PathManagerInv, TypeOK, Envs, IndicesFollow,
        EnvConsistent, ChangesKnown, NoFurther, UpStays, FailureUndone, Tap, OwnTap
<1>1. CASE AddRoute
  BY <1>1 DEF AddRoute
<1>2. CASE DelRoute
  <2>1. TypeOK'
    <3>1. env' \in Envs /\ before' \in Envs
      BY <1>2 DEF DelRoute
    <3>2. up' # up =>
            up' \in Successes
      BY <1>2 DEF DelRoute, Successes
    <3> QED
      BY <1>2, <3>1, <3>2 DEF DelRoute
  <2>2. IndicesFollow'
    BY <1>2 DEF DelRoute
  <2>3. EnvConsistent'
    BY <1>2 DEF DelRoute
  <2>4. ChangesKnown'
    BY <1>2 DEF DelRoute
  <2>5. (NoFurther /\ UpStays)'
    <3>1. CASE up' = up
      BY <1>2, <3>1 DEF DelRoute
    <3>2. CASE up' # up
      <4>1. up' = [cfg |-> cfg, custom |-> custom, parts |-> env.parts, filter |-> env.filter] /\ pc' = "off"
        BY <1>2, <3>2 DEF DelRoute
      <4>2. /\ env'.taps = env.taps /\ env'.routes = env.routes
            /\ env'.parts = env.parts /\ env'.filter = env.filter
            /\ cfg \notin env'.hostRoutes
        BY <1>2 DEF DelRoute
      <4>3. Tap \in env.taps /\ Tap \in env.routes /\ "xdp" \in env.parts
        BY <1>2 DEF DelRoute
      <4> QED
        BY <4>1, <4>2, <4>3
    <3> QED
      BY <3>1, <3>2
  <2>6. FailureUndone'
    BY <1>2 DEF DelRoute
  <2> QED
    BY <2>1, <2>2, <2>3, <2>4, <2>5, <2>6
<1> QED
  BY <1>1, <1>2

\* What each step of the cleanup changes in env.
LEMMA CleanupFields ==
  ASSUME TypeOK
  PROVE  /\ WithoutXdp \in Envs
         /\ WithoutXdp.taps = env.taps /\ WithoutXdp.filter = env.filter
         /\ WithoutXdp.routes = env.routes /\ WithoutXdp.hostRoutes = env.hostRoutes
         /\ WithoutXdp.parts = env.parts \ {"xdp"}
         /\ WithoutTap(Tap) \in Envs
         /\ WithoutTap(Tap).parts = env.parts /\ WithoutTap(Tap).filter = env.filter
         /\ WithoutTap(Tap).hostRoutes = env.hostRoutes
         /\ WithoutTap(Tap).taps = env.taps \ {Tap}
         /\ WithoutTap(Tap).routes = env.routes \ {Tap}
         /\ Unpinned \in Envs
         /\ Unpinned.taps = env.taps /\ Unpinned.routes = env.routes
         /\ Unpinned.hostRoutes = env.hostRoutes
         /\ Unpinned.parts = env.parts \ {"pin"} /\ Unpinned.filter = None
<1>1. env \in Envs
  BY DEF TypeOK
<1> QED
  BY <1>1 DEF Envs, WithoutXdp, WithoutTap, Unpinned

\* Cleanup takes away what the indices stand for.
LEMMA CleanupInv ==
  ASSUME PathManagerInv, DestroyXdp \/ DestroyTap \/ CleanupThrows \/ Unpin \/ Kill
  PROVE  PathManagerInv'
<1> USE DEF Goto, history, proc, Destroyed, PathManagerInv
<1>1. CASE DestroyXdp
  <2>1. TypeOK'
    BY <1>1, CleanupFields DEF DestroyXdp, TypeOK
  <2>2. IndicesFollow'
    BY <1>1, CleanupFields DEF DestroyXdp, TypeOK, IndicesFollow
  <2>3. EnvConsistent'
    BY <1>1, CleanupFields DEF DestroyXdp, TypeOK, EnvConsistent, IndicesFollow, Tap
  <2>4. ChangesKnown'
    BY <1>1, CleanupFields DEF DestroyXdp, TypeOK, IndicesFollow, EnvConsistent, ChangesKnown, OwnTap, Tap
  <2>5. NoFurther'
    BY <1>1, CleanupFields DEF DestroyXdp, TypeOK, NoFurther, IndicesFollow, Tap
  <2>6. UpStays'
    BY <1>1, CleanupFields DEF DestroyXdp, TypeOK, IndicesFollow, NoFurther, UpStays, Tap, EnvConsistent
  <2>7. FailureUndone'
    BY <1>1, CleanupFields DEF DestroyXdp, TypeOK, IndicesFollow, EnvConsistent, ChangesKnown, OwnTap, FailureUndone, Tap
  <2> QED
    BY <2>1, <2>2, <2>3, <2>4, <2>5, <2>6, <2>7
<1>2. CASE DestroyTap
  <2>1. TypeOK'
    BY <1>2, CleanupFields DEF DestroyTap, TypeOK
  <2>2. IndicesFollow'
    BY <1>2, CleanupFields DEF DestroyTap, TypeOK, IndicesFollow
  <2>3. EnvConsistent'
    BY <1>2, CleanupFields DEF DestroyTap, TypeOK, EnvConsistent, IndicesFollow, Tap
  <2>4. ChangesKnown'
    BY <1>2, CleanupFields DEF DestroyTap, TypeOK, IndicesFollow, EnvConsistent, ChangesKnown, OwnTap, Tap
  <2>5. NoFurther'
    BY <1>2, CleanupFields DEF DestroyTap, TypeOK, NoFurther, IndicesFollow, Tap
  <2>6. UpStays'
    BY <1>2, CleanupFields DEF DestroyTap, TypeOK, IndicesFollow, NoFurther, UpStays, Tap, EnvConsistent
  <2>7. FailureUndone'
    BY <1>2, CleanupFields DEF DestroyTap, TypeOK, IndicesFollow, EnvConsistent, ChangesKnown, OwnTap, FailureUndone, Tap
  <2> QED
    BY <2>1, <2>2, <2>3, <2>4, <2>5, <2>6, <2>7
<1>3. CASE CleanupThrows
  <2>1. TypeOK'
    BY <1>3, CleanupFields DEF CleanupThrows, TypeOK
  <2>2. IndicesFollow'
    BY <1>3, CleanupFields DEF CleanupThrows, TypeOK, IndicesFollow
  <2>3. EnvConsistent'
    BY <1>3, CleanupFields DEF CleanupThrows, TypeOK, EnvConsistent, IndicesFollow, Tap
  <2>4. ChangesKnown'
    BY <1>3, CleanupFields DEF CleanupThrows, TypeOK, IndicesFollow, EnvConsistent, ChangesKnown, OwnTap, Tap
  <2>5. NoFurther'
    BY <1>3, CleanupFields DEF CleanupThrows, TypeOK, NoFurther, IndicesFollow, Tap
  <2>6. UpStays'
    BY <1>3, CleanupFields DEF CleanupThrows, TypeOK, IndicesFollow, NoFurther, UpStays, Tap, EnvConsistent
  <2>7. FailureUndone'
    BY <1>3, CleanupFields DEF CleanupThrows, TypeOK, IndicesFollow, EnvConsistent, ChangesKnown, OwnTap, FailureUndone, Tap
  <2> QED
    BY <2>1, <2>2, <2>3, <2>4, <2>5, <2>6, <2>7
<1>4. CASE Unpin
  <2>1. TypeOK'
    BY <1>4, CleanupFields DEF Unpin, TypeOK
  <2>2. IndicesFollow'
    BY <1>4, CleanupFields DEF Unpin, TypeOK, IndicesFollow
  <2>3. EnvConsistent'
    BY <1>4, CleanupFields DEF Unpin, TypeOK, EnvConsistent, IndicesFollow, Tap
  <2>4. ChangesKnown'
    BY <1>4, CleanupFields DEF Unpin, TypeOK, IndicesFollow, EnvConsistent, ChangesKnown, OwnTap, Tap
  <2>5. NoFurther'
    BY <1>4, CleanupFields DEF Unpin, TypeOK, NoFurther, IndicesFollow, Tap
  <2>6. UpStays'
    BY <1>4, CleanupFields DEF Unpin, TypeOK, IndicesFollow, NoFurther, UpStays, Tap, EnvConsistent
  <2>7. FailureUndone'
    BY <1>4, CleanupFields DEF Unpin, TypeOK, IndicesFollow, EnvConsistent, ChangesKnown, OwnTap, FailureUndone, Tap
  <2> QED
    BY <2>1, <2>2, <2>3, <2>4, <2>5, <2>6, <2>7
<1>5. CASE Kill
  BY <1>5 DEF Kill, TypeOK, IndicesFollow, EnvConsistent, ChangesKnown, NoFurther, UpStays,
    FailureUndone, Tap, OwnTap
<1> QED
  BY <1>1, <1>2, <1>3, <1>4, <1>5

\* The inductive invariant.
THEOREM PathManagerInvariance == Spec => []PathManagerInv
<1>1. PathManagerInv /\ [Next]_vars => PathManagerInv'
  <2> SUFFICES ASSUME PathManagerInv, [Next]_vars PROVE PathManagerInv'
    OBVIOUS
  <2>1. CASE UNCHANGED vars
    BY <2>1 DEF vars, history, proc, PathManagerInv, TypeOK, IndicesFollow,
      EnvConsistent, ChangesKnown, NoFurther, UpStays, FailureUndone, Tap, OwnTap
  <2>2. CASE Next
    BY <2>2, StartInv, QuietInv, CreateInv, RoutesInv, CleanupInv DEF Next
  <2> QED
    BY <2>1, <2>2
<1> QED
  BY <1>1, InitInv, PTL DEF Spec

\* What a successful run has set up stays (main, cleanDataplane).
THEOREM DataplaneStays == Spec => []UpStays
<1>1. PathManagerInv => UpStays
  BY DEF PathManagerInv
<1> QED
  BY <1>1, PathManagerInvariance, PTL

\* A failed run undoes its changes (init, cleanup).
THEOREM FailuresUndone == Spec => []FailureUndone
<1>1. PathManagerInv => FailureUndone
  BY DEF PathManagerInv
<1> QED
  BY <1>1, PathManagerInvariance, PTL

----------------------------------------------------------------------------
(***************************************************************************)
(* The walk of the XDP program along the headers.                          *)
(***************************************************************************)

\* The sets of places the walk may be at follow each other by Step.
LEMMA WalkUnfolds ==
  ASSUME NEW p
  PROVE  /\ Walk(p)[0] = {[next |-> p.headers[1], at |-> 1]}
         /\ \A turn \in 1..5 : Walk(p)[turn] = UNION {Step(p, s) : s \in Walk(p)[turn - 1]}
<1> DEFINE After(S) == UNION {Step(p, s) : s \in S}
           W0 == {[next |-> p.headers[1], at |-> 1]}
           Turns(walk) == [turn \in 0..5 |-> IF turn = 0 THEN W0 ELSE After(walk[turn - 1])]
<1>1. Walk(p) = CHOOSE walk : walk = Turns(walk)
  BY DEF Walk, IPV6_MAX_ESTENSIONS
<1> HIDE DEF W0, After
<1>2. \E walk : walk = Turns(walk)
  <2> DEFINE w == [turn \in 0..5 |->
                     CASE turn = 0 -> W0
                       [] turn = 1 -> After(W0)
                       [] turn = 2 -> After(After(W0))
                       [] turn = 3 -> After(After(After(W0)))
                       [] turn = 4 -> After(After(After(After(W0))))
                       [] OTHER -> After(After(After(After(After(W0)))))]
  <2>1. w = Turns(w)
    OBVIOUS
  <2> QED
    BY <2>1
<1>3. Walk(p) = Turns(Walk(p))
  BY <1>1, <1>2
<1>4. Walk(p)[0] = W0 /\ \A turn \in 1..5 : Walk(p)[turn] = After(Walk(p)[turn - 1])
  BY <1>3
<1> QED
  BY <1>4 DEF W0, After

\* As far as a chain can be followed, the walk is at the header it takes itself
\* to be at, or it knows the transport protocol already.
OnTheWay(p, turn, s) ==
  \/ s.at = turn + 1 /\ s.at \in DOMAIN p.headers /\ s.next = p.headers[s.at]
  \/ s.next = Transport(p)

LEMMA StepOnTheWay ==
  ASSUME NEW p \in Traffic, Followed(p), p.type = "ipv6", NEW turn \in 0..4,
         NEW s, OnTheWay(p, turn, s)
  PROVE  Step(p, s) # {} /\ \A r \in Step(p, s) : OnTheWay(p, turn + 1, r)
<1> DEFINE last == Len(p.headers)
<1>1. /\ p.headers \in Seq(Extensions \union Protocols)
      /\ last \in Nat /\ last > 0 /\ last <= 6 /\ DOMAIN p.headers = 1..last
      /\ \A i \in 1..last : p.headers[i] \in Protocols <=> i = last
      /\ \A i \in 1..(last - 2) : p.headers[i] # "AH"
  BY TrafficAssumption DEF Followed, IPV6_MAX_ESTENSIONS
<1>2. Transport(p) = p.headers[last] /\ Transport(p) \in Protocols
  BY <1>1 DEF Transport, Last
<1>3. Extensions \intersect Protocols = {}
  BY DEF Extensions, Protocols
<1>4. CASE s.next \notin Extensions
  <2>1. Step(p, s) = {s}
    BY <1>4 DEF Step
  <2>2. s.next = Transport(p)
    BY <1>1, <1>2, <1>3, <1>4 DEF OnTheWay
  <2> QED
    BY <2>1, <2>2 DEF OnTheWay
<1>5. CASE s.next \in Extensions
  <2>1. s.next # Transport(p)
    BY <1>2, <1>3, <1>5
  <2>2. s.at = turn + 1 /\ s.at \in 1..last /\ s.next = p.headers[s.at]
    BY <1>1, <2>1 DEF OnTheWay
  <2>3. s.at + 1 \in 1..last
    BY <1>1, <1>2, <2>1, <2>2
  <2> DEFINE r == [next |-> p.headers[s.at + 1],
                   at |-> IF s.next = "AH" THEN Lost ELSE s.at + 1]
  <2>4. Step(p, s) = {r}
    BY <1>5, <2>2 DEF Step, Lost
  <2>5. CASE s.next = "AH"
    <3>1. s.at \notin 1..(last - 2)
      BY <1>1, <2>2, <2>5
    <3>2. s.at + 1 = last
      BY <1>1, <2>2, <2>3, <3>1
    <3> QED
      BY <1>2, <2>4, <3>2 DEF OnTheWay
  <2>6. CASE s.next # "AH"
    BY <1>1, <2>2, <2>3, <2>4, <2>6 DEF OnTheWay
  <2> QED
    BY <2>5, <2>6
<1> QED
  BY <1>4, <1>5

\* The walk finds the transport protocol and nothing else (parse_ipv6).
LEMMA TransportFound ==
  ASSUME NEW p \in Traffic, Followed(p), p.type = "ipv6"
  PROVE  ParseIpv6(p) = {Transport(p)}
<1> DEFINE Good(turn) == /\ Walk(p)[turn] # {}
                         /\ \A s \in Walk(p)[turn] : OnTheWay(p, turn, s)
<1>1. Good(0)
  <2>1. 1 \in DOMAIN p.headers
    BY TrafficAssumption
  <2>2. OnTheWay(p, 0, [next |-> p.headers[1], at |-> 1])
    BY <2>1 DEF OnTheWay
  <2>3. Walk(p)[0] = {[next |-> p.headers[1], at |-> 1]}
    BY WalkUnfolds
  <2> QED
    BY <2>2, <2>3
<1>2. ASSUME NEW turn \in 0..4, Good(turn) PROVE Good(turn + 1)
  <2>1. Walk(p)[turn + 1] = UNION {Step(p, s) : s \in Walk(p)[turn]}
    <3>1. turn + 1 \in 1..5 /\ (turn + 1) - 1 = turn
      OBVIOUS
    <3> QED
      BY <3>1, WalkUnfolds
  <2> QED
    BY <1>2, <2>1, StepOnTheWay
<1>3. Good(5)
  <2> HIDE DEF Good
  <2>1. Good(1)
    BY <1>1, <1>2
  <2>2. Good(2)
    BY <1>2, <2>1
  <2>3. Good(3)
    BY <1>2, <2>2
  <2>4. Good(4)
    BY <1>2, <2>3
  <2> QED
    BY <1>2, <2>4
<1>4. \A s \in Walk(p)[5] : s.next = Transport(p)
  <2> SUFFICES ASSUME NEW s \in Walk(p)[5], s.at = 6, s.at \in DOMAIN p.headers,
                      s.next = p.headers[s.at]
               PROVE  s.next = Transport(p)
    BY <1>3 DEF OnTheWay
  <2>1. DOMAIN p.headers = 1..Len(p.headers) /\ Len(p.headers) \in Nat
    BY TrafficAssumption
  <2>2. Len(p.headers) <= 6
    BY DEF Followed, IPV6_MAX_ESTENSIONS
  <2> QED
    BY <2>1, <2>2 DEF Transport, Last
<1> QED
  BY <1>3, <1>4 DEF ParseIpv6, IPV6_MAX_ESTENSIONS

\* So does the program, of IPv4 and IPv6 packets.
LEMMA HeadersFound ==
  ASSUME NEW p \in Traffic, Followed(p)
  PROVE  /\ p.type \in {"ipv4", "ipv6"} => NextHeaders(p) = {Transport(p)}
         /\ p.type \notin {"ipv4", "ipv6"} => NextHeaders(p) = {}
<1>1. ParseEthernet(p) = p.type
  BY DEF Followed, ParseEthernet
<1>2. CASE p.type = "ipv4"
  <2> DEFINE n == Len(p.headers)
  <2>1. n \in Nat /\ n > 0
    BY TrafficAssumption
  <2>2. p.type # "ipv6"
    BY <1>2
  <2>3. n <= 1
    BY <2>2 DEF Followed
  <2>4. n = 1
    <3> HIDE DEF n
    <3> QED
      BY <2>1, <2>3
  <2> QED
    BY <1>1, <1>2, <2>4 DEF NextHeaders, Transport, Last
<1>3. CASE p.type = "ipv6"
  BY <1>1, <1>3, TransportFound DEF NextHeaders
<1>4. CASE p.type \notin {"ipv4", "ipv6"}
  BY <1>1, <1>4 DEF NextHeaders
<1> QED
  BY <1>2, <1>3, <1>4

----------------------------------------------------------------------------
\* The filter of the run that succeeded, and its map as later runs leave it.
LEMMA FilterStays ==
  ASSUME PathManagerInv, Filtering
  PROVE  up.cfg \in Configs /\ up.filter \in Filters /\ env.filter = up.filter
<1>1. up \in Successes
  BY DEF Filtering, PathManagerInv, TypeOK
<1> QED
  BY <1>1 DEF Filtering, PathManagerInv, UpStays, Successes, Filters

\* Once a run has succeeded with its addresses in the map, the translator's
\* packets reach VPP, whatever later runs do (scion_filter, initScionIpMap,
\* unpinScionIpMap).
THEOREM ScionTrafficReachesVpp == Spec => []TranslatorReached
<1>1. PathManagerInv => TranslatorReached
  <2> SUFFICES ASSUME PathManagerInv, Filtering, up.filter = up.cfg,
                      NEW p \in ScionTraffic[up.cfg]
               PROVE  p \in Surely[env.filter]
    BY DEF TranslatorReached
  <2>1. up.cfg \in Filters /\ env.filter = up.cfg
    BY FilterStays
  <2>2. p \in Traffic /\ p.bytes \in Nat /\ p.bytes >= MIN_PACKET_SIZE
    BY <2>1, TrafficAssumption DEF ScionTraffic
  <2>3. /\ p.dst = up.cfg /\ p.type \in {"ipv4", "ipv6"}
        /\ Transport(p) = "UDP" /\ Followed(p)
        /\ p.queue \in Queues
    BY <2>1 DEF ScionTraffic
  <2>4. ~(p.bytes < MIN_PACKET_SIZE)
    BY <2>2 DEF MIN_PACKET_SIZE
  <2>5. NextHeaders(p) = {"UDP"}
    BY <2>2, <2>3, HeadersFound
  <2>6. ~MayPass(p, up.cfg)
    BY <2>3, <2>4, <2>5 DEF MayPass, ToFilter
  <2> QED
    BY <2>1, <2>2, <2>6 DEF Surely
<1> QED
  BY <1>1, PathManagerInvariance, PTL

\* A packet that is not the translator's of f is not taken for the address of
\* f (scion_filter, parse_ipv6).
LEMMA OtherPassed ==
  ASSUME NEW f \in Filters
  PROVE  OtherTraffic[f] \intersect Redirected[f] = {}
<1> SUFFICES ASSUME NEW p \in OtherTraffic[f], p \in Redirected[f]
             PROVE  FALSE
  OBVIOUS
<1>1. p \in Traffic /\ MayRedirect(p, f)
  BY DEF Redirected
<1>2. p.dst # f \/ (Transport(p) = "TCP" /\ Followed(p))
  <2> DEFINE Other(g) == {q \in Traffic : \/ q.dst # g
                                          \/ Transport(q) = "TCP" /\ Followed(q)}
  <2>1. OtherTraffic = [g \in Filters |-> Other(g)]
    BY Zenon DEF OtherTraffic
  <2>2. p \in Other(f)
    <3> HIDE DEF Other
    <3> QED
      BY <2>1
  <2> QED
    BY <2>2
<1>3. CASE p.dst # f
  BY <1>1, <1>3 DEF MayRedirect, ToFilter
<1>4. CASE Transport(p) = "TCP" /\ Followed(p)
  <2>1. NextHeaders(p) \subseteq {"TCP"}
    BY <1>1, <1>4, HeadersFound
  <2> QED
    BY <1>1, <2>1 DEF MayRedirect
<1> QED
  BY <1>2, <1>3, <1>4

\* The host keeps the packets to other destinations and of other protocols,
\* whatever later runs do; but if the run that succeeded left another's
\* addresses in the map, VPP gets the packets to these, and no others
\* (scion_filter, parse_ipv6, initScionIpMap).
THEOREM OtherTrafficStays == Spec => []HostKeepsRest
<1>1. PathManagerInv => HostKeepsRest
  <2> SUFFICES ASSUME PathManagerInv, Filtering, NEW p \in OtherTraffic[up.cfg],
                      p \in Redirected[env.filter]
               PROVE  up.filter # up.cfg /\ p \notin OtherTraffic[up.filter]
    BY DEF HostKeepsRest
  <2>1. up.filter \in Filters /\ env.filter = up.filter
    BY FilterStays
  <2>2. p \notin OtherTraffic[up.filter]
    BY <2>1, OtherPassed
  <2> QED
    BY <2>2
<1> QED
  BY <1>1, PathManagerInvariance, PTL
=============================================================================
