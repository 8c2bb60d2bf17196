\* Two subscribers that may share a consumer id, one publisher.
CONSTANTS
  MsgIds = {m1}
  Topics = {tA}
  Consumers = {c1, c2}
  NoConsumer = NoConsumer
  NoTopic = NoTopic
  Subs = {s1, s2}
  Pubs = {p1}
  Acks = {}
  ChanCap = 1
  BatchSizes = {}
  MaxStores = 2
CHECK_DEADLOCK FALSE
SYMMETRY SubConsumerSymmetry
SPECIFICATION ServerSpec
INVARIANTS
  ServerTypeOK
  NoNilToClient
  RegistrationHasOwner
PROPERTIES
  ClientsSeeBroadcast
  ConfirmedIsStored
