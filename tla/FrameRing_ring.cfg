SPECIFICATION FairSpec
CONSTANTS
  NumFrames = 3
  NumSections = 2
  Wide = 4
  Restarts = TRUE
  MaxNumber = 5
  MaxSession = 2
  Garbage = Garbage
  Empty = Empty
INVARIANTS RingInv ThreadFlagsTrue
PROPERTIES StopObeyed RingImplementsFeed
CHECK_DEADLOCK FALSE
