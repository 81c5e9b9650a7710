SPECIFICATION Spec
CONSTANTS
  l1 = l1
  l2 = l2
  l3 = l3
  l4 = l4
  Instances = {l1, l2, l3, l4}
  eth0 = eth0
  eth1 = eth1
  Ifs = {eth0, eth1}
  None = None
  In <- MixedIngress
  Eg <- MixedEgress
  Shared = {eth1}
  MaxKills = 1
INVARIANTS LoaderInv ServiceHasFilter CleanupInv LeftByCrash OthersKept
