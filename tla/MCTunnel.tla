------------------------------ MODULE MCTunnel ------------------------------
EXTENDS Tunnel

CONSTANTS a1, a2, b, A, B

\* Two hosts of one AS and a host of another.
ThreeHosts == [h \in {a1, a2, b} |-> IF h = b THEN B ELSE A]
=============================================================================
