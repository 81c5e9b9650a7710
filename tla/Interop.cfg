SPECIFICATION MCSpec
CONSTANTS
  e1 = e1
  e2 = e2
  e3 = e3
  s6 = s6
  s4a = s4a
  s4c = s4c
  Hosts = {e1, e2, e3, s6, s4a, s4c}
  PythonHosts = {s6, s4a, s4c}
  Little = {e3}
  Ia <- Ases
  HostIp <- Ips
  RouterV <- Routers
  Strangers <- SomeStrangers
  Outers <- SomeOuters
  Unknown = Unknown
  Traffic <- AllTraffic
  MaxSent = 2
  MaxDown = 1
  Texts <- SomeTexts
  IsdTexts <- SomeIsds
  Numbers <- SomeNumbers
  Conversions <- SomeConversions
  None = None
  NoText = NoText
CHECK_DEADLOCK FALSE
INVARIANTS
  Inv
  ScitunFaithful EbpfFaithful AsMeant FlowLabelCarried BigEndianFaithful
  ConvertedBack TranslatorAgrees KeyIsAs DocumentedRead ConverterTextsAccepted PrintedReadBack
