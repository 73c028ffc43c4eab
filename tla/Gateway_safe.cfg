SPECIFICATION MCSpec
CONSTANTS
  Posts = {"p1", "p2"}
  Texts = {"t1", "t2"}
  Requests = {"s1"}
  Streams = {"s1"}
  Payload <- SomePayload
  Users = {"u", "v"}
  From <- SomeUser
  None = "none"
  SessionCap = 2
  DayCap = 2
  MaxCost = 1
  MaxCalls = 2
  PollLimit = 2
  MaxRestarts = 1
  MaxExpiries = 1
INVARIANTS
  OverspendIsBounded
  MessagesAreServedWhole
  EndMeansAll
PROPERTIES
  NobodyWaitsForever
CHECK_DEADLOCK FALSE
