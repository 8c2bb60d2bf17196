\* Two ids, two topics, two consumers: an id is stored again under the other
\* topic, deleted, stored anew, fetched and acknowledged in every order.
CONSTANTS
  MsgIds = {m1, m2}
  Topics = {tA, tB}
  Consumers = {c1, c2}
  NoConsumer = NoConsumer
  NoTopic = NoTopic
  Subs = {}
  ChanCap = 1
  BatchSizes = {0, 1, 2}
  MaxStores = 3
SYMMETRY ConsumerSymmetry
SPECIFICATION Spec
INVARIANT TrackedIsStored
PROPERTY NewIsFetchable
