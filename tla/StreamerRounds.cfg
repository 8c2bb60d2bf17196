\* Seven rows in batches of four, so that the last batch is short; two streams
\* at a time; windows that the first batch, all of whose rows can be encoded, fills
\* to the last place, requests, answers and the answer the handler blocks on; fair
\* goroutines.
CONSTANTS
  NumRows = 7
  BatchSize = 4
  Unencodable <- SomeUnencodable
  Streams = {1, 2}
  RequestWindow = 2
  AnswerWindow = 1
SPECIFICATION FairSpec
INVARIANTS
  TypeOK
  BatchIsCarried
  LossIsTail
PROPERTIES
  EveryRowComesUp
  BatchEnds
  StopReturns
CHECK_DEADLOCK FALSE
