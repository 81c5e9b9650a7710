---------------------------- MODULE Loader_proofs ----------------------------
(***************************************************************************)
(* Proofs about Loader for any number of instances, interfaces and crashes. *)
(***************************************************************************)
EXTENDS Loader, TLAPS

\* The part that both inductive invariants share.
Typed == TypeOK /\ EgressGiven

\* The interfaces an instance is given, from the assumption.
LEMMA Arguments ==
  ASSUME NEW p \in Instances
  PROVE  /\ In[p] \in Ifs \union {None} /\ Eg[p] \in Ifs \union {None}
         /\ None \notin Ifs /\ p # None /\ MaxKills \in Nat
BY LoaderAssumption

LEMMA InitInvs == Init => LoaderInv /\ CleanupInv
BY LoaderAssumption DEF Init, LoaderInv, CleanupInv, TypeOK, EgressGiven, Steps,
  Starting, LinkHeld, ServiceHasFilter, Attached, FilterOwned, HooksKnown,
  OthersKept

\* Every step preserves the types.
LEMMA NextTyped ==
  ASSUME Typed, [Next]_vars
  PROVE  Typed'
<1> USE DEF Typed, TypeOK, EgressGiven, Steps, Starting, Goto
<1>1. CASE UNCHANGED vars
  BY <1>1 DEF vars
<1>2. ASSUME NEW p \in Instances, Start(p) PROVE Typed'
  BY Arguments, <1>2 DEF Start
<1>3. ASSUME NEW p \in Instances, AttachIngress(p) PROVE Typed'
  BY Arguments, <1>3 DEF AttachIngress
<1>4. ASSUME NEW p \in Instances, IngressFails(p) PROVE Typed'
  BY Arguments, <1>4 DEF IngressFails
<1>5. ASSUME NEW p \in Instances, CreateHook(p) PROVE Typed'
  BY Arguments, <1>5 DEF CreateHook
<1>6. ASSUME NEW p \in Instances, AttachEgress(p) PROVE Typed'
  BY Arguments, <1>6 DEF AttachEgress
<1>7. ASSUME NEW p \in Instances, EgressFails(p) PROVE Typed'
  BY Arguments, <1>7 DEF EgressFails
<1>8. ASSUME NEW p \in Instances, StartService(p) PROVE Typed'
  BY Arguments, <1>8 DEF StartService
<1>9. ASSUME NEW p \in Instances, ServiceFails(p) PROVE Typed'
  BY Arguments, <1>9 DEF ServiceFails
<1>10. ASSUME NEW p \in Instances, Interrupt(p) PROVE Typed'
  BY Arguments, <1>10 DEF Interrupt
<1>11. ASSUME NEW p \in Instances, LeaveLoop(p) PROVE Typed'
  BY Arguments, <1>11 DEF LeaveLoop
<1>12. ASSUME NEW p \in Instances, Detach(p) PROVE Typed'
  BY Arguments, <1>12 DEF Detach, Flush
<1>13. ASSUME NEW p \in Instances, Exit(p) PROVE Typed'
  BY Arguments, <1>13 DEF Exit, Gone
<1>14. ASSUME NEW p \in Instances, Kill(p) PROVE Typed'
  BY Arguments, <1>14 DEF Kill, Gone
<1>15. ASSUME NEW i \in Ifs, OthersAttach(i) PROVE Typed'
  BY <1>15 DEF OthersAttach
<1>16. ASSUME NEW p \in Instances, ServiceThrows(p) PROVE Typed'
  BY Arguments, <1>16 DEF ServiceThrows
<1>17. ASSUME NEW p \in Instances, Join(p) PROVE Typed'
  BY Arguments, <1>17 DEF Join
<1> QED
  BY <1>1, <1>2, <1>3, <1>4, <1>5, <1>6, <1>7, <1>8, <1>9, <1>10, <1>11,
     <1>12, <1>13, <1>14, <1>15, <1>16, <1>17 DEF Next, Main

\* The link goes with its process and is never taken over.
LEMMA NextLinkHeld ==
  ASSUME Typed, LinkHeld, [Next]_vars
  PROVE  LinkHeld'
<1> USE DEF Typed, TypeOK, EgressGiven, Steps, Starting, Goto, LinkHeld
<1>1. CASE UNCHANGED vars
  BY <1>1 DEF vars
<1>2. ASSUME NEW p \in Instances, Start(p) PROVE LinkHeld'
  BY Arguments, <1>2 DEF Start
<1>3. ASSUME NEW p \in Instances, AttachIngress(p) PROVE LinkHeld'
  BY Arguments, <1>3 DEF AttachIngress
<1>4. ASSUME NEW p \in Instances, IngressFails(p) PROVE LinkHeld'
  BY Arguments, <1>4 DEF IngressFails
<1>5. ASSUME NEW p \in Instances, CreateHook(p) PROVE LinkHeld'
  BY Arguments, <1>5 DEF CreateHook
<1>6. ASSUME NEW p \in Instances, AttachEgress(p) PROVE LinkHeld'
  BY Arguments, <1>6 DEF AttachEgress
<1>7. ASSUME NEW p \in Instances, EgressFails(p) PROVE LinkHeld'
  BY Arguments, <1>7 DEF EgressFails
<1>8. ASSUME NEW p \in Instances, StartService(p) PROVE LinkHeld'
  BY Arguments, <1>8 DEF StartService
<1>9. ASSUME NEW p \in Instances, ServiceFails(p) PROVE LinkHeld'
  BY Arguments, <1>9 DEF ServiceFails
<1>10. ASSUME NEW p \in Instances, Interrupt(p) PROVE LinkHeld'
  BY Arguments, <1>10 DEF Interrupt
<1>11. ASSUME NEW p \in Instances, LeaveLoop(p) PROVE LinkHeld'
  BY Arguments, <1>11 DEF LeaveLoop
<1>12. ASSUME NEW p \in Instances, Detach(p) PROVE LinkHeld'
  BY Arguments, <1>12 DEF Detach, Flush
<1>13. ASSUME NEW p \in Instances, Exit(p) PROVE LinkHeld'
  BY Arguments, <1>13 DEF Exit, Gone
<1>14. ASSUME NEW p \in Instances, Kill(p) PROVE LinkHeld'
  BY Arguments, <1>14 DEF Kill, Gone
<1>15. ASSUME NEW i \in Ifs, OthersAttach(i) PROVE LinkHeld'
  BY <1>15 DEF OthersAttach
<1>16. ASSUME NEW p \in Instances, ServiceThrows(p) PROVE LinkHeld'
  BY Arguments, <1>16 DEF ServiceThrows
<1>17. ASSUME NEW p \in Instances, Join(p) PROVE LinkHeld'
  BY Arguments, <1>17 DEF Join
<1> QED
  BY <1>1, <1>2, <1>3, <1>4, <1>5, <1>6, <1>7, <1>8, <1>9, <1>10, <1>11,
     <1>12, <1>13, <1>14, <1>15, <1>16, <1>17 DEF Next, Main

\* Only the instance that holds the link detaches a filter: itself.
LEMMA NextServiceHasFilter ==
  ASSUME Typed, LinkHeld, ServiceHasFilter, [Next]_vars
  PROVE  ServiceHasFilter'
<1> USE DEF Typed, TypeOK, EgressGiven, Steps, Starting, Goto, LinkHeld,
        OneIngress, ServiceHasFilter, Attached
<1>1. CASE UNCHANGED vars
  BY <1>1 DEF vars
<1>2. ASSUME NEW p \in Instances, Start(p) PROVE ServiceHasFilter'
  BY Arguments, <1>2 DEF Start
<1>3. ASSUME NEW p \in Instances, AttachIngress(p) PROVE ServiceHasFilter'
  BY Arguments, <1>3 DEF AttachIngress
<1>4. ASSUME NEW p \in Instances, IngressFails(p) PROVE ServiceHasFilter'
  BY Arguments, <1>4 DEF IngressFails
<1>5. ASSUME NEW p \in Instances, CreateHook(p) PROVE ServiceHasFilter'
  BY Arguments, <1>5 DEF CreateHook
<1>6. ASSUME NEW p \in Instances, AttachEgress(p) PROVE ServiceHasFilter'
  BY Arguments, <1>6 DEF AttachEgress
<1>7. ASSUME NEW p \in Instances, EgressFails(p) PROVE ServiceHasFilter'
  BY Arguments, <1>7 DEF EgressFails
<1>8. ASSUME NEW p \in Instances, StartService(p) PROVE ServiceHasFilter'
  BY Arguments, <1>8 DEF StartService
<1>9. ASSUME NEW p \in Instances, ServiceFails(p) PROVE ServiceHasFilter'
  BY Arguments, <1>9 DEF ServiceFails
<1>10. ASSUME NEW p \in Instances, Interrupt(p) PROVE ServiceHasFilter'
  BY Arguments, <1>10 DEF Interrupt
<1>11. ASSUME NEW p \in Instances, LeaveLoop(p) PROVE ServiceHasFilter'
  BY Arguments, <1>11 DEF LeaveLoop
<1>12. ASSUME NEW p \in Instances, Detach(p) PROVE ServiceHasFilter'
  BY Arguments, <1>12 DEF Detach, Flush
<1>13. ASSUME NEW p \in Instances, Exit(p) PROVE ServiceHasFilter'
  BY Arguments, <1>13 DEF Exit, Gone
<1>14. ASSUME NEW p \in Instances, Kill(p) PROVE ServiceHasFilter'
  BY Arguments, <1>14 DEF Kill, Gone
<1>15. ASSUME NEW i \in Ifs, OthersAttach(i) PROVE ServiceHasFilter'
  BY <1>15 DEF OthersAttach
<1>16. ASSUME NEW p \in Instances, ServiceThrows(p) PROVE ServiceHasFilter'
  BY Arguments, <1>16 DEF ServiceThrows
<1>17. ASSUME NEW p \in Instances, Join(p) PROVE ServiceHasFilter'
  BY Arguments, <1>17 DEF Join
<1> QED
  BY <1>1, <1>2, <1>3, <1>4, <1>5, <1>6, <1>7, <1>8, <1>9, <1>10, <1>11,
     <1>12, <1>13, <1>14, <1>15, <1>16, <1>17 DEF Next, Main

\* Without crashes an instance ends by way of its destructors.
LEMMA NextFilterOwned ==
  ASSUME Typed, FilterOwned, [Next]_vars
  PROVE  FilterOwned'
<1> USE DEF Typed, TypeOK, EgressGiven, Steps, Starting, Goto, FilterOwned, Attached
<1>1. CASE UNCHANGED vars
  BY <1>1 DEF vars
<1>2. ASSUME NEW p \in Instances, Start(p) PROVE FilterOwned'
  BY Arguments, <1>2 DEF Start
<1>3. ASSUME NEW p \in Instances, AttachIngress(p) PROVE FilterOwned'
  BY Arguments, <1>3 DEF AttachIngress
<1>4. ASSUME NEW p \in Instances, IngressFails(p) PROVE FilterOwned'
  BY Arguments, <1>4 DEF IngressFails
<1>5. ASSUME NEW p \in Instances, CreateHook(p) PROVE FilterOwned'
  BY Arguments, <1>5 DEF CreateHook
<1>6. ASSUME NEW p \in Instances, AttachEgress(p) PROVE FilterOwned'
  BY Arguments, <1>6 DEF AttachEgress
<1>7. ASSUME NEW p \in Instances, EgressFails(p) PROVE FilterOwned'
  BY Arguments, <1>7 DEF EgressFails
<1>8. ASSUME NEW p \in Instances, StartService(p) PROVE FilterOwned'
  BY Arguments, <1>8 DEF StartService
<1>9. ASSUME NEW p \in Instances, ServiceFails(p) PROVE FilterOwned'
  BY Arguments, <1>9 DEF ServiceFails
<1>10. ASSUME NEW p \in Instances, Interrupt(p) PROVE FilterOwned'
  BY Arguments, <1>10 DEF Interrupt
<1>11. ASSUME NEW p \in Instances, LeaveLoop(p) PROVE FilterOwned'
  BY Arguments, <1>11 DEF LeaveLoop
<1>12. ASSUME NEW p \in Instances, Detach(p) PROVE FilterOwned'
  BY Arguments, <1>12 DEF Detach, Flush
<1>13. ASSUME NEW p \in Instances, Exit(p) PROVE FilterOwned'
  BY Arguments, <1>13 DEF Exit, Gone
<1>14. ASSUME NEW p \in Instances, Kill(p) PROVE FilterOwned'
  BY Arguments, <1>14 DEF Kill, Gone
<1>15. ASSUME NEW i \in Ifs, OthersAttach(i) PROVE FilterOwned'
  BY <1>15 DEF OthersAttach
<1>16. ASSUME NEW p \in Instances, ServiceThrows(p) PROVE FilterOwned'
  BY Arguments, <1>16 DEF ServiceThrows
<1>17. ASSUME NEW p \in Instances, Join(p) PROVE FilterOwned'
  BY Arguments, <1>17 DEF Join
<1> QED
  BY <1>1, <1>2, <1>3, <1>4, <1>5, <1>6, <1>7, <1>8, <1>9, <1>10, <1>11,
     <1>12, <1>13, <1>14, <1>15, <1>16, <1>17 DEF Next, Main

\* hook_created is false on a qdisc that was there before.
LEMMA NextHooksKnown ==
  ASSUME Typed, HooksKnown, OthersKept, [Next]_vars
  PROVE  (HooksKnown /\ OthersKept)'
<1> USE DEF Typed, TypeOK, EgressGiven, Steps, Starting, Goto, HooksKnown, OthersKept
<1>1. CASE UNCHANGED vars
  BY <1>1 DEF vars
<1>2. ASSUME NEW p \in Instances, Start(p) PROVE (HooksKnown /\ OthersKept)'
  BY Arguments, <1>2 DEF Start
<1>3. ASSUME NEW p \in Instances, AttachIngress(p) PROVE (HooksKnown /\ OthersKept)'
  BY Arguments, <1>3 DEF AttachIngress
<1>4. ASSUME NEW p \in Instances, IngressFails(p) PROVE (HooksKnown /\ OthersKept)'
  BY Arguments, <1>4 DEF IngressFails
<1>5. ASSUME NEW p \in Instances, CreateHook(p) PROVE (HooksKnown /\ OthersKept)'
  BY Arguments, <1>5 DEF CreateHook
<1>6. ASSUME NEW p \in Instances, AttachEgress(p) PROVE (HooksKnown /\ OthersKept)'
  BY Arguments, <1>6 DEF AttachEgress
<1>7. ASSUME NEW p \in Instances, EgressFails(p) PROVE (HooksKnown /\ OthersKept)'
  BY Arguments, <1>7 DEF EgressFails
<1>8. ASSUME NEW p \in Instances, StartService(p) PROVE (HooksKnown /\ OthersKept)'
  BY Arguments, <1>8 DEF StartService
<1>9. ASSUME NEW p \in Instances, ServiceFails(p) PROVE (HooksKnown /\ OthersKept)'
  BY Arguments, <1>9 DEF ServiceFails
<1>10. ASSUME NEW p \in Instances, Interrupt(p) PROVE (HooksKnown /\ OthersKept)'
  BY Arguments, <1>10 DEF Interrupt
<1>11. ASSUME NEW p \in Instances, LeaveLoop(p) PROVE (HooksKnown /\ OthersKept)'
  BY Arguments, <1>11 DEF LeaveLoop
<1>12. ASSUME NEW p \in Instances, Detach(p) PROVE (HooksKnown /\ OthersKept)'
  BY Arguments, <1>12 DEF Detach, Flush
<1>13. ASSUME NEW p \in Instances, Exit(p) PROVE (HooksKnown /\ OthersKept)'
  BY Arguments, <1>13 DEF Exit, Gone
<1>14. ASSUME NEW p \in Instances, Kill(p) PROVE (HooksKnown /\ OthersKept)'
  BY Arguments, <1>14 DEF Kill, Gone
<1>15. ASSUME NEW i \in Ifs, OthersAttach(i) PROVE (HooksKnown /\ OthersKept)'
  BY <1>15 DEF OthersAttach
<1>16. ASSUME NEW p \in Instances, ServiceThrows(p) PROVE (HooksKnown /\ OthersKept)'
  BY Arguments, <1>16 DEF ServiceThrows
<1>17. ASSUME NEW p \in Instances, Join(p) PROVE (HooksKnown /\ OthersKept)'
  BY Arguments, <1>17 DEF Join
<1> QED
  BY <1>1, <1>2, <1>3, <1>4, <1>5, <1>6, <1>7, <1>8, <1>9, <1>10, <1>11,
     <1>12, <1>13, <1>14, <1>15, <1>16, <1>17 DEF Next, Main

----------------------------------------------------------------------------
\* The invariant behind FilterStays.
THEOREM LoaderInvariance == Spec => []LoaderInv
<1>1. LoaderInv /\ [Next]_vars => LoaderInv'
  <2> SUFFICES ASSUME LoaderInv, [Next]_vars PROVE LoaderInv'
    OBVIOUS
  <2>1. Typed /\ LinkHeld /\ ServiceHasFilter
    BY DEF LoaderInv, Typed
  <2>2. Typed' /\ LinkHeld' /\ ServiceHasFilter'
    BY <2>1, NextTyped, NextLinkHeld, NextServiceHasFilter
  <2> QED
    BY <2>2 DEF LoaderInv, Typed
<1> QED
  BY <1>1, InitInvs, PTL DEF Spec

\* An instance keeps its filter while it runs, whatever other instances try
\* (main.cxx, ~EgressLoader).
THEOREM FilterStays == Spec => []ServiceHasFilter
<1>1. LoaderInv => ServiceHasFilter
  BY DEF LoaderInv
<1> QED
  BY <1>1, LoaderInvariance, PTL

\* The invariant behind NoLeftovers and OthersStay.
THEOREM CleanupInvariance == Spec => []CleanupInv
<1>1. CleanupInv /\ [Next]_vars => CleanupInv'
  <2> SUFFICES ASSUME CleanupInv, [Next]_vars PROVE CleanupInv'
    OBVIOUS
  <2>1. Typed /\ FilterOwned /\ HooksKnown /\ OthersKept
    BY DEF CleanupInv, Typed
  <2>2. Typed' /\ FilterOwned' /\ HooksKnown' /\ OthersKept'
    BY <2>1, NextTyped, NextFilterOwned, NextHooksKnown
  <2> QED
    BY <2>2 DEF CleanupInv, Typed
<1> QED
  BY <1>1, InitInvs, PTL DEF Spec

\* Without a crash no filter stays behind (~EgressLoader).
THEOREM NoLeftovers == Spec => []LeftByCrash
<1>1. CleanupInv => LeftByCrash
  BY LoaderAssumption DEF CleanupInv, FilterOwned, LeftByCrash, TypeOK, Attached
<1> QED
  BY <1>1, CleanupInvariance, PTL

\* Filters on a qdisc of another program are never flushed (hook_created).
THEOREM OthersStay == Spec => []OthersKept
<1>1. CleanupInv => OthersKept
  BY DEF CleanupInv
<1> QED
  BY <1>1, CleanupInvariance, PTL
=============================================================================
