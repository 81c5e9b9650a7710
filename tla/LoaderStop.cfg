SPECIFICATION FairSpec
CONSTANTS
  l1 = l1
  l2 = l2
  l3 = l3
  l4 = l4
  Instances = {l1}
  eth0 = eth0
  eth1 = eth1
  Ifs = {eth0, eth1}
  None = None
  In <- OnEth0
  Eg <- OnEth0
  Shared = {eth1}
  MaxKills = 0
PROPERTIES ShutsDown
