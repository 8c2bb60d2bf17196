\* A consumer that connects again before its first handler returned.
CONSTANTS
  MsgIds = {m1}
  Topics = {tA}
  Consumers = {c1}
  NoConsumer = NoConsumer
  NoTopic = NoTopic
  Subs = {s1, s2}
  Pubs = {}
  Acks = {}
  ChanCap = 1
  BatchSizes = {}
  MaxStores = 0
CHECK_DEADLOCK FALSE
SPECIFICATION ServerSpec
INVARIANT DeliveringIsRegistered
