\* One stream of each kind and fair goroutines; no symmetry.
CONSTANTS
  MsgIds = {m1}
  Topics = {tA}
  Consumers = {c1}
  NoConsumer = NoConsumer
  NoTopic = NoTopic
  Subs = {s1}
  Pubs = {p1}
  Acks = {a1}
  ChanCap = 1
  BatchSizes = {}
  MaxStores = 2
CHECK_DEADLOCK FALSE
SPECIFICATION ServerFairSpec
INVARIANT StoppedIsEmpty
PROPERTIES
  CancelledStreamEnds
  StopCompletes
