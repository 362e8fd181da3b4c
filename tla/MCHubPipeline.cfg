SPECIFICATION MCSpec
CONSTANTS
  c1 = c1
  foo = foo
  NoOne = NoOne
  Clients = {c1}
  SubjectLists <- JustFoo
  MaxRequests = 2
  ReqCap = 1
  MaxPub = 2
  SubCap = 1
  OutCap = 2
  MsgCap = 1
INVARIANTS
  PipeSound
PROPERTIES
  FollowsHub
  Delivered
  ForwardersReturn
  EventsReturn
CHECK_DEADLOCK FALSE
