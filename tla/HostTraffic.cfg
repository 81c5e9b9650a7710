SPECIFICATION Spec
CONSTANTS
  a = a
  b = b
  c = c
  scion0 = scion0
  scion1 = scion1
  Configs = {a, b, c}
  TapName <- TwoTaps
  None = None
  MaxRuns = 3
  elsewhere = elsewhere
  NoHeader = NoHeader
  Queues = {0}
  Traffic <- AllTraffic
CHECK_DEADLOCK FALSE
INVARIANTS PathManagerInv UpStays FailureUndone TranslatorReached HostKeepsRest
