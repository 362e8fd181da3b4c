SPECIFICATION MCSpec
CONSTANTS
  c1 = c1
  c2 = c2
  foo = foo
  bar = bar
  NoOne = NoOne
  Clients = {c1, c2}
  SubjectLists <- Lists
  MaxRequests = 3
  ReqCap = 1
  cnn = cnn  m1 = m1  x1 = x1  x2 = x2  None = None
  Connections = {cnn}
  MsgCards = {m1}
  MetricsCards = {x1, x2}
  CnnOf <- MCCnnOf
  MaxSockets = 2
  MaxDrops = 1
CONSTRAINT OneBusyOrTwoBrief
INVARIANTS
  TypeOK
  ChannelsSound
  SubscriptionsSound
  MetricsStoppable
  TeardownComplete
  RegisteredWhileServing
  NoZombie
  RetryArmed
  SocketsAgree
PROPERTIES
  TeardownHappens
  Reconnects
CHECK_DEADLOCK FALSE
