\* The process ends while Stop runs.
CONSTANTS
  MsgIds = {m1}
  Topics = {tA}
  Consumers = {c1}
  NoConsumer = NoConsumer
  NoTopic = NoTopic
  Subs = {s1}
  Pubs = {p1}
  Acks = {}
  ChanCap = 1
  BatchSizes = {}
  MaxStores = 1
CHECK_DEADLOCK FALSE
SPECIFICATION ServerSpec
PROPERTY GracefulExit
