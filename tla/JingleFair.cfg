SPECIFICATION FairSpec
CONSTANTS
  Me = me
  Peers = {p1}
  Roster = {p1}
  s1 = s1
  s2 = s2
  Sids = {s1, s2}
  FileName = "file"
  Names = {"file", "other"}
  a1 = a1
  a2 = a2
  Addr = {a1}
  MaxSessions = 2
  MaxFiles = 2
  MaxAcks = 2
  Disorder = {"cancel", "late", "linkfail"}
VIEW WithoutObs
INVARIANTS ContentsUnfinished
PROPERTIES RequestsResolve
CHECK_DEADLOCK FALSE
