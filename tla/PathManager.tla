----------------------------- MODULE PathManager -----------------------------
(***************************************************************************)
(* Start-up and cleanup of the VPP path manager: init() creates a tap and  *)
(* an AF_XDP interface in VPP, writes the addresses of the translator into *)
(* the pinned map of the XDP program and turns the host's routes to the    *)
(* tap.  When a step fails, main runs cleanup(); when all succeed it exits *)
(* and leaves everything in place.                                         *)
(*                                                                         *)
(* A request to VPP can be refused, it can fail without having been sent,  *)
(* and it can take effect although its reply never comes; a route change   *)
(* likewise.  The path manager connects under a fixed name, so one runs at *)
(* a time; its runs, with the same or another configuration, follow each   *)
(* other.  All configurations name the same host interface.                *)
(***************************************************************************)
EXTENDS Naturals

CONSTANTS
  Configs,   \* configuration files; each has a host_addr of its own
  TapName,   \* TapName[c]: the name of the tap interface in c
  None,      \* no configuration
  MaxRuns    \* bound on the runs

ASSUME PathManagerAssumption == None \notin Configs /\ MaxRuns \in Nat

VARIABLES
  pc,        \* where the path manager is; "off" while it does not run
  cfg,       \* its configuration
  custom,    \* customBpf: the XDP program of this project is used
  held,      \* "tap", "xdp": the ifIndex has a value; "map": scionIpMap is open
  env,       \* what it changes in VPP and in the kernel
  result,    \* how the last run ended
  before,    \* env when the run started (history)
  lost,      \* did a change of this run go unnoticed? (history)
  up,        \* what the run that succeeded has set up (history)
  runs       \* number of runs
proc == <<cfg, custom, held>>
history == <<before, up, runs>>
vars == <<pc, proc, env, result, lost, history>>

\* taps: the tap interfaces; parts: "xdp" if the host interface is attached,
\* "pin" if /sys/fs/bpf/scion_ip exists; filter: the configuration whose
\* addresses that holds, if any; routes: the taps with a route for fc00::/8;
\* hostRoutes: the configurations whose host_addr has a route through the host
\* interface.
TapNames == {TapName[c] : c \in Configs}
Envs == [taps : SUBSET TapNames, parts : SUBSET {"xdp", "pin"},
         filter : Configs \union {None}, routes : SUBSET TapNames,
         hostRoutes : SUBSET Configs]

\* What is remembered of a success: its configuration and program, and what
\* there was in the end.
Successes == [cfg : Configs, custom : BOOLEAN, parts : SUBSET {"xdp", "pin"},
              filter : Configs \union {None}]

Goto(step) == pc' = step
Tap == TapName[cfg]

Init ==
  /\ pc = "off" /\ cfg = None /\ custom = FALSE
  /\ held = {}
  /\ \E r \in SUBSET Configs :
       env = [taps |-> {}, parts |-> {}, filter |-> None, routes |-> {},
              hostRoutes |-> r]
  /\ before = env
  /\ result = "none" /\ lost = FALSE /\ up = None /\ runs = 0

----------------------------------------------------------------------------
\* The program starts and looks for its XDP program.
Start(c) ==
  /\ pc = "off" /\ runs < MaxRuns
  /\ cfg' = c /\ custom' \in BOOLEAN /\ held' = {}
  /\ before' = env /\ lost' = FALSE /\ runs' = runs + 1
  /\ Goto("connect")
  /\ UNCHANGED <<env, result, up>>

\* loadConfig succeeds and the connection to VPP stands.
Connect ==
  /\ pc = "connect" /\ Goto("tap")
  /\ UNCHANGED <<proc, env, result, lost, history>>

\* An exception before a request has any effect, or VPP refuses it: init
\* returns false and main cleans up.
InitFails ==
  /\ pc \in {"connect", "tap", "tapUp", "xdp", "xdpUp", "addRoute", "delRoute"}
  /\ Goto("cleanXdp")
  /\ UNCHANGED <<proc, env, result, lost, history>>

\* VPP does not create a tap with the name of another.
CreateTap ==
  /\ pc = "tap" /\ Tap \notin env.taps
  /\ env' = [env EXCEPT !.taps = @ \union {Tap}]
  /\ \/ held' = held \union {"tap"} /\ Goto("tapUp") /\ UNCHANGED lost
     \/ lost' = TRUE /\ Goto("cleanXdp") /\ UNCHANGED held
  /\ UNCHANGED <<cfg, custom, result, history>>

\* If VPP refuses to bring the interface up that is only logged.
TapUp ==
  /\ pc = "tapUp" /\ Goto("xdp")
  /\ UNCHANGED <<proc, env, result, lost, history>>

\* Loading the project's XDP program pins its map, or takes the pinned one
\* with what it holds.
LoadProgram(e) == IF custom THEN [e EXCEPT !.parts = @ \union {"pin"}] ELSE e

CreateXdp ==
  /\ pc = "xdp" /\ "xdp" \notin env.parts
  /\ env' = [LoadProgram(env) EXCEPT !.parts = @ \union {"xdp"}]
  /\ \/ held' = held \union {"xdp"} /\ Goto("xdpUp") /\ UNCHANGED lost
     \/ lost' = TRUE /\ Goto("cleanXdp") /\ UNCHANGED held
  /\ UNCHANGED <<cfg, custom, result, history>>

\* VPP loads the program and then fails to attach it.
CreateXdpHalf ==
  /\ pc = "xdp"
  /\ env' = LoadProgram(env)
  /\ Goto("cleanXdp")
  /\ UNCHANGED <<proc, result, lost, history>>

XdpUp ==
  /\ pc = "xdpUp" /\ Goto(IF custom THEN "map" ELSE "addRoute")
  /\ UNCHANGED <<proc, env, result, lost, history>>

\* initScionIpMap; nobody looks at its result.
InitMap ==
  /\ pc = "map" /\ "pin" \in env.parts
  /\ held' = held \union {"map"}
  /\ env' \in {env, [env EXCEPT !.filter = cfg]}
  /\ Goto("addRoute")
  /\ UNCHANGED <<cfg, custom, result, lost, history>>

InitMapFails ==
  /\ pc = "map" /\ Goto("addRoute")
  /\ UNCHANGED <<proc, env, result, lost, history>>

\* addRoute(fc00::/8, tap).  A route that is there although its reply is
\* missing goes with the tap.
AddRoute ==
  /\ pc = "addRoute"
  /\ env' = [env EXCEPT !.routes = @ \union {Tap}]
  /\ Goto("delRoute") \/ Goto("cleanXdp")
  /\ UNCHANGED <<proc, result, lost, history>>

\* delRoute(host_addr, host interface); a route that does not exist is no
\* error.  With that init() has succeeded and main returns.
DelRoute ==
  /\ pc = "delRoute"
  /\ env' = [env EXCEPT !.hostRoutes = @ \ {cfg}]
  /\ \/ /\ Goto("off") /\ result' = "ok"
        /\ up' = [cfg |-> cfg, custom |-> custom, parts |-> env.parts,
                  filter |-> env.filter]
        /\ UNCHANGED lost
     \/ /\ Goto("cleanXdp") /\ lost' = TRUE
        /\ UNCHANGED <<result, up>>
  /\ UNCHANGED <<proc, before, runs>>

----------------------------------------------------------------------------
\* cleanDataplane; without an interface destroy() returns at once.
Destroyed(interface, e) == IF interface \in held THEN e ELSE env
WithoutXdp == [env EXCEPT !.parts = @ \ {"xdp"}]
WithoutTap(t) == [env EXCEPT !.taps = @ \ {t}, !.routes = @ \ {t}]
Unpinned == [env EXCEPT !.parts = @ \ {"pin"}, !.filter = None]

\* Faulty variant: without an AF_XDP interface the tap is not looked at.
DestroyXdpOrReturn ==
  /\ pc = "cleanXdp"
  /\ env' = Destroyed("xdp", WithoutXdp)
  /\ held' = held \ {"xdp"}
  /\ Goto(IF "xdp" \in held THEN "cleanTap" ELSE "unpin")
  /\ UNCHANGED <<cfg, custom, result, lost, history>>

DestroyXdp ==
  /\ pc = "cleanXdp"
  /\ env' = Destroyed("xdp", WithoutXdp)
  /\ held' = held \ {"xdp"}
  /\ Goto("cleanTap")
  /\ UNCHANGED <<cfg, custom, result, lost, history>>

\* Faulty variant: the tap of that name goes, whoever created it.
DestroyTapByName ==
  /\ pc = "cleanTap"
  /\ env' = WithoutTap(Tap)
  /\ held' = held \ {"tap"}
  /\ Goto("unpin")
  /\ UNCHANGED <<cfg, custom, result, lost, history>>

\* With the tap go the routes through it.
DestroyTap ==
  /\ pc = "cleanTap"
  /\ env' = Destroyed("tap", WithoutTap(Tap))
  /\ held' = held \ {"tap"}
  /\ Goto("unpin")
  /\ UNCHANGED <<cfg, custom, result, lost, history>>

\* destroy() throws, with or without effect, and nobody catches it.
CleanupThrows ==
  /\ \/ pc = "cleanXdp" /\ "xdp" \in held /\ env' \in {env, WithoutXdp}
     \/ pc = "cleanTap" /\ "tap" \in held /\ env' \in {env, WithoutTap(Tap)}
  /\ Goto("off") /\ result' = "aborted"
  /\ UNCHANGED <<proc, lost, history>>

\* unpinScionIpMap; an error is caught.  main returns -1.
Unpin ==
  /\ pc = "unpin"
  /\ env' \in {env, Destroyed("map", Unpinned)}
  /\ held' = held \ {"map"}
  /\ Goto("off") /\ result' = "failed"
  /\ UNCHANGED <<cfg, custom, lost, history>>

\* SIGKILL or SIGINT, which nothing handles.
Kill ==
  /\ pc # "off"
  /\ Goto("off") /\ result' = "aborted"
  /\ UNCHANGED <<proc, env, lost, history>>

Next ==
  \/ \E c \in Configs : Start(c)
  \/ Connect \/ InitFails \/ CreateTap \/ TapUp \/ CreateXdp \/ CreateXdpHalf
  \/ XdpUp \/ InitMap \/ InitMapFails \/ AddRoute \/ DelRoute
  \/ DestroyXdp \/ DestroyTap \/ CleanupThrows \/ Unpin \/ Kill

Spec == Init /\ [][Next]_vars

----------------------------------------------------------------------------
\* Every variable has its type.
TypeOK ==
  /\ pc \in {"off", "connect", "tap", "tapUp", "xdp", "xdpUp", "map", "addRoute",
             "delRoute", "cleanXdp", "cleanTap", "unpin"}
  /\ cfg \in Configs \union {None} /\ (pc # "off" => cfg \in Configs)
  /\ custom \in BOOLEAN /\ held \subseteq {"tap", "xdp", "map"} /\ lost \in BOOLEAN
  /\ env \in Envs /\ before \in Envs
  /\ result \in {"none", "ok", "failed", "aborted"}
  /\ up \in Successes \union {None}
  /\ runs \in 0..MaxRuns

\* What a successful run has set up stays, whatever later runs try: the tap
\* with the route to it, the AF_XDP interface, the host's route away from it
\* and the addresses in the pinned map.  A later run fails, and its cleanup
\* is the same code that would take all of this away.
UpStays ==
  up # None =>
    /\ TapName[up.cfg] \in env.taps /\ TapName[up.cfg] \in env.routes
    /\ up.cfg \notin env.hostRoutes
    /\ "xdp" \in up.parts /\ up.parts \subseteq env.parts
    /\ env.filter = up.filter

\* When main returns -1 the interfaces and routes are those it found, at
\* whichever step init() failed, unless a change took effect unnoticed.
FailureUndone ==
  pc = "off" /\ result = "failed" /\ ~lost =>
    /\ env.taps = before.taps /\ ("xdp" \in env.parts <=> "xdp" \in before.parts)
    /\ env.routes = before.routes /\ env.hostRoutes = before.hostRoutes

\* The interface indices say how far init() came.
IndicesFollow ==
  /\ pc \in {"connect", "tap", "unpin"} => "tap" \notin held
  /\ pc \in {"tapUp", "xdp", "xdpUp", "map", "addRoute", "delRoute"} => "tap" \in held
  /\ pc \in {"connect", "tap", "tapUp", "xdp", "cleanTap", "unpin"} => "xdp" \notin held
  /\ pc \in {"xdpUp", "map", "addRoute", "delRoute"} => "xdp" \in held

\* Routes need their tap, addresses a pinned map, and what init() made is there.
EnvConsistent ==
  /\ env.routes \subseteq env.taps /\ before.routes \subseteq before.taps
  /\ env.filter # None => "pin" \in env.parts
  /\ "tap" \in held /\ pc # "off" => Tap \in env.taps
  /\ "xdp" \in held /\ pc # "off" => "xdp" \in env.parts
  /\ pc = "delRoute" => Tap \in env.routes

\* The tap that this run created and knows of.
OwnTap == IF "tap" \in held THEN {Tap} ELSE {}

\* What a run has changed so far is what its indices stand for.
ChangesKnown ==
  pc # "off" /\ ~lost =>
    /\ env.taps = before.taps \union OwnTap
    /\ OwnTap \intersect before.taps = {}
    /\ "xdp" \in env.parts <=> "xdp" \in before.parts \union held
    /\ "xdp" \notin before.parts \intersect held
    /\ env.routes \ OwnTap = before.routes
    /\ env.hostRoutes = before.hostRoutes

\* After a success no run gets beyond the AF_XDP interface, and the tap it
\* may create has another name.
NoFurther ==
  up # None /\ pc # "off" =>
    /\ held \subseteq {"tap"}
    /\ "tap" \in held => Tap # TapName[up.cfg]

\* The inductive invariant behind UpStays and FailureUndone.
PathManagerInv ==
  /\ TypeOK
  /\ IndicesFollow /\ EnvConsistent /\ ChangesKnown /\ NoFurther
  /\ UpStays /\ FailureUndone
=============================================================================
