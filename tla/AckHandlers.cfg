SPECIFICATION FairSpec
CONSTANTS
  Requests = {r1, r2, r3, r4}
  Timed = {r1, r2, r3}
  Patience = 2
INVARIANTS TypeOK CalledIsUnlisted
PROPERTIES KeepsPromise PromiseResolved
CHECK_DEADLOCK FALSE
