SPECIFICATION Spec
CONSTANTS
  ft = ft
  rtp = rtp
  ibb = ibb
  s5b = s5b
  other = other
  udp = udp
  invalid = invalid
  foreign = foreign
  Apps = {ft, rtp}
  Transports = {ibb, s5b, other, udp, invalid, foreign}
  NoTransport = none
  Crash = crash
  Type <- ModuleType
  Priority <- TransportPriority
  Prefixed <- OurNamespaces
INVARIANTS ListsLoaded BestTransport
CHECK_DEADLOCK FALSE
