\* Two subscriptions, two topics, channels of two slots, four stores: a channel
\* overflows, is drained, is closed by its goroutine and by Close in every order.
CONSTANTS
  MsgIds = {m1}
  Topics = {tA, tB}
  Consumers = {}
  NoConsumer = NoConsumer
  NoTopic = NoTopic
  Subs = {s1, s2}
  ChanCap = 2
  BatchSizes = {}
  MaxStores = 4
SYMMETRY SubSymmetry
SPECIFICATION Spec
INVARIANTS
  TypeOK
  NoPanic
  Registry
  DeliveryOrder
  NoEarlyLoss
PROPERTY ImplementsBroadcast
