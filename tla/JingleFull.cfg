SPECIFICATION Spec
CONSTANTS
  Me = me
  Peers = {p1, p2}
  Roster = {p1}
  s1 = s1
  s2 = s2
  Sids = {s1, s2}
  FileName = "file"
  Names = {"file"}
  a1 = a1
  a2 = a2
  Addr = {a1, a2}
  MaxSessions = 2
  MaxFiles = 2
  MaxAcks = 2
  Disorder <- Everything
VIEW WithoutObs
SYMMETRY Symmetry
INVARIANTS TypeOK UniqueSession NoEmptySession
PROPERTIES OneReply OnlyTheseSever
CHECK_DEADLOCK FALSE
