\* Three rows in batches of two, two streams at a time; one process
\* that ends or one stream that breaks, wherever the other processes are.
CONSTANTS
  NumRows = 3
  BatchSize = 2
  Unencodable = {}
  Streams = {1, 2}
  RequestWindow = 1
  AnswerWindow = 1
  MaxMessages = 3
  MaxStreams = 2
  MaxTicks = 2
  MaxFaults = 1
SPECIFICATION Spec
INVARIANTS
  TypeOK
  FileOrder
  AckedWasStored
PROPERTY SinksAreOneSubscription
CHECK_DEADLOCK FALSE
