SPECIFICATION FairSpec
CONSTANTS
  NodeNames = {"transport", "candidate"}
  Priorities = {1, 2, 3}
  MaxCandidates = 3
INVARIANTS TypeOK OneAttempt TimerOfAttempt ArgsCounted BestFirst
PROPERTIES AttemptEnds
CHECK_DEADLOCK FALSE
