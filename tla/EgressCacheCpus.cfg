SPECIFICATION Spec
CONSTANTS
  Cpus = {c1, c2}
  Keys = {k1, k2}
  Paths = {p1, p2}
  Slots = {s1, s2, s3, s4}
  RingCap = 2
  None = None
SYMMETRY Symmetry
INVARIANTS TypeOK CacheSound OneEntryPerPacket IInv
PROPERTIES ImplementsPathCache
