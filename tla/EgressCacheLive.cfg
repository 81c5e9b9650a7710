SPECIFICATION FairSpec
CONSTANTS
  Cpus = {c1}
  Keys = {k1, k2, k3}
  Paths = {p1}
  Slots = {s1, s2, s3}
  RingCap = 1
  None = None
PROPERTIES EventuallyCached RingGetsRoom
