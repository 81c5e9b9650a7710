SPECIFICATION Spec
CONSTANTS
  a1 = a1
  a2 = a2
  b = b
  A = A
  B = B
  Hosts = {a1, a2, b}
  AsOf <- ThreeHosts
  Router = Router
  RouterPort = 30042
  PathWords = {9}
  Lengths = {68, 432}
  SrcPorts = {1234}
  Mtu = 1500
  MaxSent = 1
  None = None
CHECK_DEADLOCK FALSE
INVARIANTS IntraAsFaithful
