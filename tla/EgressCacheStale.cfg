SPECIFICATION FairSpec
CONSTANTS
  Cpus = {c1}
  Keys = {k1}
  Paths = {p1, p2}
  Slots = {s1, s2}
  RingCap = 1
  None = None
PROPERTIES PathsRefreshed
