SPECIFICATION FairSpec
CONSTANTS
  Alice = alice
  Bob = bob
  FileName = "file"
  Addr = {1, 2}
  MaxSessions = 2
  MaxFiles = 2
  MaxAcks = 2
  MaxOffersA = 1
  MaxOffersB = 1
  MaxLosses = 1
INVARIANTS Accompanied
PROPERTIES InOrder AcceptanceJoins
CHECK_DEADLOCK FALSE
