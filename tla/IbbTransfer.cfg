SPECIFICATION FairSpec
CONSTANTS
  FileSize = 9
  ReadSize = 2
  MaxBlock = 4
  Answers <- AllAnswers
  Wrap = 1000
INVARIANTS TypeOK OneInFlight Verified
PROPERTIES BufferBound BlockBound ImplementsStream Completes
CHECK_DEADLOCK FALSE
