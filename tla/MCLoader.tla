------------------------------ MODULE MCLoader ------------------------------
EXTENDS Loader

CONSTANTS eth0, eth1, l1, l2, l3, l4

\* "-i eth0 -e eth0", as in the README.
OnEth0 == [p \in Instances |-> eth0]

\* Besides two of these, one with "-e eth1" and one with "-i eth1".
MixedIngress ==
  [p \in Instances |-> IF p = l3 THEN None ELSE IF p = l4 THEN eth1 ELSE eth0]
MixedEgress ==
  [p \in Instances |-> IF p = l3 THEN eth1 ELSE IF p = l4 THEN None ELSE eth0]
=============================================================================
