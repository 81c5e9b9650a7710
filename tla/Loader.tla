------------------------------- MODULE Loader -------------------------------
(***************************************************************************)
(* Start, stop and crash of the eBPF loader (main.cxx, EgressLoader,       *)
(* IngressLoader) and what it leaves in the kernel.                        *)
(*                                                                         *)
(* Several instances may run on a machine.  An instance attaches the XDP   *)
(* program with a BPF link, which the kernel drops when the process ends,  *)
(* however it ends.  It attaches the TC program as a filter with a fixed   *)
(* handle and priority on the clsact qdisc of the interface; a filter is   *)
(* nobody's: it stays when its process is killed, the next instance finds  *)
(* it in its way, and the destructor of EgressLoader detaches whatever is  *)
(* at that handle, also if attaching failed.                               *)
(*                                                                         *)
(* The interfaces exist.  The destructors also release skeleton pointers   *)
(* that the constructors leave uninitialised; the process may crash there, *)
(* which the kernel state does not show, as the detaching comes first.     *)
(***************************************************************************)
EXTENDS Naturals

CONSTANTS
  Instances,  \* processes, each may be started again after its end
  Ifs,        \* network interfaces
  None,       \* no interface, no instance
  In, Eg,     \* In[p], Eg[p]: the interfaces given with -i and -e, or None
  Shared,     \* interfaces whose clsact qdisc another program created
  MaxKills    \* bound on the crashes and SIGKILLs

ASSUME LoaderAssumption ==
  /\ None \notin Ifs \union Instances
  /\ In \in [Instances -> Ifs \union {None}]
  /\ Eg \in [Instances -> Ifs \union {None}]
  /\ \A p \in Instances : In[p] # None \/ Eg[p] # None
  /\ Shared \subseteq Ifs
  /\ MaxKills \in Nat

VARIABLES
  pc,       \* where main is; "off" while there is no process
  exiting,  \* the flag set by the signal handler and by a failing service
  thread,   \* thread[p]: the PathService thread of p has not ended
  link,     \* link[i]: the instance whose XDP program is attached to i
  clsact,   \* interfaces with a clsact qdisc
  filter,   \* filter[i]: the instance whose TC program is at handle 1
  others,   \* interfaces with egress filters of other programs
  created,  \* hook_created of EgressLoader
  kills     \* crashes and SIGKILLs so far
vars == <<pc, exiting, thread, link, clsact, filter, others, created, kills>>

\* The TC filter of p is in place from the step "map" on.
Attached == {"map", "running", "joining"}
Starting == {"ingress", "hook", "attach", "map"}
Steps == Starting \union {"running", "joining", "teardown", "exit"}

Init ==
  /\ pc = [p \in Instances |-> "off"]
  /\ exiting = [p \in Instances |-> FALSE]
  /\ thread = [p \in Instances |-> FALSE]
  /\ link = [i \in Ifs |-> None]
  /\ clsact = Shared
  /\ filter = [i \in Ifs |-> None]
  /\ others = Shared
  /\ created = [p \in Instances |-> FALSE]
  /\ kills = 0

Goto(p, step) == pc' = [pc EXCEPT ![p] = step]

----------------------------------------------------------------------------
\* The process starts and has its signal handler.
Start(p) ==
  /\ pc[p] = "off"
  /\ Goto(p, "ingress")
  /\ exiting' = [exiting EXCEPT ![p] = FALSE]
  /\ created' = [created EXCEPT ![p] = FALSE]
  /\ UNCHANGED <<thread, link, clsact, filter, others, kills>>

\* Faulty variant: the result of bpf_program__attach_xdp is not looked at.
AttachIngressUnchecked(p) ==
  /\ pc[p] = "ingress"
  /\ link' = [i \in Ifs |-> IF i = In[p] /\ link[i] = None THEN p ELSE link[i]]
  /\ Goto(p, IF Eg[p] = None THEN "running" ELSE "hook")
  /\ UNCHANGED <<exiting, thread, clsact, filter, others, created, kills>>

\* The XDP program is attached if -i is given.
AttachIngress(p) ==
  /\ pc[p] = "ingress"
  /\ \/ In[p] = None /\ UNCHANGED link
     \/ /\ In[p] # None /\ link[In[p]] = None
        /\ link' = [link EXCEPT ![In[p]] = p]
  /\ Goto(p, IF Eg[p] = None THEN "running" ELSE "hook")
  /\ UNCHANGED <<exiting, thread, clsact, filter, others, created, kills>>

\* The program cannot be loaded, or the interface has an XDP program; there
\* is no EgressLoader yet.
IngressFails(p) ==
  /\ pc[p] = "ingress" /\ In[p] # None
  /\ Goto(p, "exit")
  /\ UNCHANGED <<exiting, thread, link, clsact, filter, others, created, kills>>

\* Faulty variant: a qdisc that exists counts as created.
CreateHookAlways(p) ==
  /\ pc[p] = "hook"
  /\ clsact' = clsact \union {Eg[p]}
  /\ created' = [created EXCEPT ![p] = TRUE]
  /\ Goto(p, "attach")
  /\ UNCHANGED <<exiting, thread, link, filter, others, kills>>

\* The TC program is loaded and the qdisc created unless it exists.
CreateHook(p) ==
  /\ pc[p] = "hook"
  /\ clsact' = clsact \union {Eg[p]}
  /\ created' = [created EXCEPT ![p] = Eg[p] \notin clsact]
  /\ Goto(p, "attach")
  /\ UNCHANGED <<exiting, thread, link, filter, others, kills>>

\* bpf_tc_attach does not replace a filter.
AttachEgress(p) ==
  /\ pc[p] = "attach"
  /\ filter[Eg[p]] = None
  /\ filter' = [filter EXCEPT ![Eg[p]] = p]
  /\ Goto(p, "map")
  /\ UNCHANGED <<exiting, thread, link, clsact, others, created, kills>>

\* Loading fails, or there is a filter; main returns.
EgressFails(p) ==
  /\ pc[p] \in {"hook", "attach"}
  /\ Goto(p, "teardown")
  /\ UNCHANGED <<exiting, thread, link, clsact, filter, others, created, kills>>

\* The path map is found, the daemon answers, the PathService thread starts.
StartService(p) ==
  /\ pc[p] = "map"
  /\ Goto(p, "running")
  /\ thread' = [thread EXCEPT ![p] = TRUE]
  /\ UNCHANGED <<exiting, link, clsact, filter, others, created, kills>>

\* Faulty variant: the process ends at once, without destructors.
ServiceFailsHard(p) ==
  /\ pc[p] = "map"
  /\ Goto(p, "exit")
  /\ UNCHANGED <<exiting, thread, link, clsact, filter, others, created, kills>>

\* No path map, or the daemon cannot be reached; main returns.
ServiceFails(p) ==
  /\ pc[p] = "map"
  /\ Goto(p, "teardown")
  /\ UNCHANGED <<exiting, thread, link, clsact, filter, others, created, kills>>

\* SIGINT.
Interrupt(p) ==
  /\ pc[p] # "off"
  /\ exiting' = [exiting EXCEPT ![p] = TRUE]
  /\ UNCHANGED <<pc, thread, link, clsact, filter, others, created, kills>>

\* PathService::run lets an exception out (no memory for an entry, an error of
\* the SCION library): the thread tells main to leave and ends.  It is the only
\* way out of run, which polls for ever.
ServiceThrows(p) ==
  /\ thread[p]
  /\ exiting' = [exiting EXCEPT ![p] = TRUE]
  /\ thread' = [thread EXCEPT ![p] = FALSE]
  /\ UNCHANGED <<pc, link, clsact, filter, others, created, kills>>

\* The main loop ends.  With -e, the destructor of the jthread comes first.
LeaveLoop(p) ==
  /\ pc[p] = "running" /\ exiting[p]
  /\ Goto(p, IF Eg[p] = None THEN "teardown" ELSE "joining")
  /\ UNCHANGED <<exiting, thread, link, clsact, filter, others, created, kills>>

\* The jthread is joined as soon as it has ended.
Join(p) ==
  /\ pc[p] = "joining" /\ ~thread[p]
  /\ Goto(p, "teardown")
  /\ UNCHANGED <<exiting, thread, link, clsact, filter, others, created, kills>>

\* bpf_tc_hook_destroy, if p created the hook, flushes it; the qdisc stays.
Flush(p) == others' = IF created[p] THEN others \ {Eg[p]} ELSE others

\* Faulty variant: an EgressLoader only detaches its own program.
DetachOwn(p) ==
  /\ pc[p] = "teardown"
  /\ filter' = [i \in Ifs |-> IF i = Eg[p] /\ filter[i] = p THEN None ELSE filter[i]]
  /\ Flush(p)
  /\ Goto(p, "exit")
  /\ UNCHANGED <<exiting, thread, link, clsact, created, kills>>

\* ~EgressLoader detaches the filter at its handle, whoever attached it.
\* Without -e there is no interface to detach from.
Detach(p) ==
  /\ pc[p] = "teardown"
  /\ filter' = [i \in Ifs |-> IF i = Eg[p] THEN None ELSE filter[i]]
  /\ Flush(p)
  /\ Goto(p, "exit")
  /\ UNCHANGED <<exiting, thread, link, clsact, created, kills>>

\* The process is gone, and with it its XDP link and its threads.
Gone(p) ==
  /\ Goto(p, "off")
  /\ link' = [i \in Ifs |-> IF link[i] = p THEN None ELSE link[i]]
  /\ thread' = [thread EXCEPT ![p] = FALSE]

Exit(p) ==
  /\ pc[p] = "exit"
  /\ Gone(p)
  /\ UNCHANGED <<exiting, clsact, filter, others, created, kills>>

\* SIGKILL or a crash.
Kill(p) ==
  /\ pc[p] # "off" /\ kills < MaxKills
  /\ Gone(p)
  /\ kills' = kills + 1
  /\ UNCHANGED <<exiting, clsact, filter, others, created>>

\* Another program attaches an egress filter to a qdisc it finds.
OthersAttach(i) ==
  /\ i \in clsact
  /\ others' = others \union {i}
  /\ UNCHANGED <<pc, exiting, thread, link, clsact, filter, created, kills>>

----------------------------------------------------------------------------
\* The steps main takes by itself.
Main(p) ==
  \/ AttachIngress(p) \/ IngressFails(p)
  \/ CreateHook(p) \/ AttachEgress(p) \/ EgressFails(p)
  \/ StartService(p) \/ ServiceFails(p)
  \/ LeaveLoop(p) \/ Join(p) \/ Detach(p) \/ Exit(p)

Next ==
  \/ \E p \in Instances :
       Start(p) \/ Main(p) \/ ServiceThrows(p) \/ Interrupt(p) \/ Kill(p)
  \/ \E i \in Ifs : OthersAttach(i)

Spec == Init /\ [][Next]_vars

\* A process runs; nobody has to start one.
FairSpec == Spec /\ \A p \in Instances : WF_vars(Main(p))

(***************************************************************************)
(* The operator starts an instance again whenever there is none, and when  *)
(* a step of the start can succeed over and over it does not fail each     *)
(* time.                                                                   *)
(***************************************************************************)
RestartingSpec ==
  /\ FairSpec
  /\ \A p \in Instances :
       /\ WF_vars(Start(p))
       /\ SF_vars(AttachIngress(p)) /\ SF_vars(CreateHook(p))
       /\ SF_vars(AttachEgress(p)) /\ SF_vars(StartService(p))

----------------------------------------------------------------------------
\* Every variable has its type.
TypeOK ==
  /\ pc \in [Instances -> Steps \union {"off"}]
  /\ exiting \in [Instances -> BOOLEAN]
  /\ thread \in [Instances -> BOOLEAN]
  /\ link \in [Ifs -> Instances \union {None}]
  /\ clsact \subseteq Ifs
  /\ filter \in [Ifs -> Instances \union {None}]
  /\ others \subseteq Ifs
  /\ created \in [Instances -> BOOLEAN]
  /\ kills \in 0..MaxKills

\* The steps at the TC hook are taken by instances with -e only.
EgressGiven ==
  \A p \in Instances : pc[p] \in {"hook", "attach", "map", "joining"} => Eg[p] # None

\* Instances with p's -e are all given p's -i.
OneIngress(p) ==
  \A q \in Instances \ {p} : Eg[q] = Eg[p] => In[q] = In[p] /\ In[p] # None

\* An instance that has got its filter keeps it until it ends, although a
\* failed start of another instance detaches from the same handle.  This
\* needs that instances on one -e are given one -i, so that the XDP link lets
\* only one of them as far as the TC hook (main.cxx attaches ingress first).
ServiceHasFilter ==
  \A p \in Instances :
    pc[p] \in Attached /\ Eg[p] # None /\ OneIngress(p) => filter[Eg[p]] = p

\* An instance past the first step holds the XDP link of its interface until
\* its destructors are done.
LinkHeld ==
  \A p \in Instances :
    pc[p] \notin {"off", "ingress", "exit"} /\ In[p] # None => link[In[p]] = p

\* The inductive invariant behind ServiceHasFilter.
LoaderInv == TypeOK /\ EgressGiven /\ LinkHeld /\ ServiceHasFilter

\* Only a crash leaves a filter behind without a process: every way out of
\* main detaches it (~EgressLoader).
LeftByCrash ==
  \A i \in Ifs : filter[i] # None /\ pc[filter[i]] = "off" => kills > 0

\* Filters of other programs on a qdisc that was there before stay, although
\* ~EgressLoader flushes the hook if hook_created says so.
OthersKept == Shared \subseteq others

\* Without crashes an attached filter belongs to an instance that is yet to
\* detach it.
FilterOwned ==
  \A i \in Ifs : filter[i] # None /\ kills = 0 =>
    i = Eg[filter[i]] /\ pc[filter[i]] \in Attached \union {"teardown"}

\* hook_created is set for a new qdisc only.
HooksKnown ==
  /\ Shared \subseteq clsact
  /\ \A p \in Instances : created[p] => Eg[p] \notin Shared

\* The inductive invariant behind LeftByCrash and OthersKept.
CleanupInv == TypeOK /\ EgressGiven /\ FilterOwned /\ HooksKnown /\ OthersKept

\* Some instance translates: its filter is attached, its service runs.
Serving == \E p \in Instances :
  thread[p] /\ Eg[p] # None /\ filter[Eg[p]] = p

ServiceFailure == \E p \in Instances : ServiceThrows(p)

\* However often services fail, and whatever crashes leave behind, the
\* translator comes back, and when no service fails any more it stays: the
\* filter a crash left behind makes one start fail, not every later one, and a
\* failed service gives link and filter back.
EventuallyServing ==
  /\ []<>Serving
  /\ <>[][~ServiceFailure]_vars => <>[]Serving

\* "Register signal handler for graceful shutdown" (main.cxx:88): an
\* interrupted instance ends.
ShutsDown == \A p \in Instances : exiting[p] ~> pc[p] = "off"
=============================================================================
