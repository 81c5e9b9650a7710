SPECIFICATION Spec
CONSTANTS
  a1 = a1
  a2 = a2
  b = b
  A = A
  B = B
  Hosts = {a1, a2, b}
  AsOf <- ThreeHosts
  Router = Router
  RouterPort = 30042
  PathWords = {9, 240}
  Lengths = {7, 8, 68, 1460}
  SrcPorts = {1234}
  Mtu = 1500
  MaxSent = 2
  None = None
CHECK_DEADLOCK FALSE
INVARIANTS WireWellFormed InterAsFaithful TunnelInv
PROPERTIES ImplementsIpService
