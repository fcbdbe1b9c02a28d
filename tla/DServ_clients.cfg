SPECIFICATION DFairSpec
CONSTANTS
  NumFrames = 3
  NumSections = 2
  Wide = 100
  Restarts = FALSE
  MaxNumber = 5
  MaxSession = 1
  MaxTries = 1
  Clients = {c1}
  Garbage = Garbage
  Empty = Empty
INVARIANTS SinglesFresh StreamsInTurn
PROPERTY StreamNotStuck
CHECK_DEADLOCK FALSE
