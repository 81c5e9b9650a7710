----------------------------- MODULE IpService -----------------------------
(***************************************************************************)
(* What applications expect of IP between two hosts: a packet may be lost, *)
(* duplicated and overtaken, but what arrives was sent, unchanged, to the  *)
(* host where it arrives.                                                  *)
(***************************************************************************)
CONSTANT Packets
VARIABLES
  sent,     \* packets handed to the network
  received  \* packets that arrived at least once

Init == sent = {} /\ received = {}

Send(p) ==
  /\ sent' = sent \union {p}
  /\ UNCHANGED received

Receive(p) ==
  /\ p \in sent
  /\ received' = received \union {p}
  /\ UNCHANGED sent

Next == \E p \in Packets : Send(p) \/ Receive(p)

Spec == Init /\ [][Next]_<<sent, received>>
=============================================================================
