\* Three messages and two streams: a message may be lost with one stream, or be
\* acknowledged late, while another is stored from the next; fair goroutines.
CONSTANTS
  MaxMessages = 3
  MaxStreams = 2
SPECIFICATION FairSpec
INVARIANTS
  TypeOK
  AckedIsStored
  ClosedStaysEmpty
PROPERTIES
  TakenInTurn
  StreamsAreOneSubscription
  StopReturns
  Reconnects
CHECK_DEADLOCK FALSE
