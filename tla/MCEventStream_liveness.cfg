SPECIFICATION ConsumeSpec
CONSTANTS
  p1 = p1 p2 = p2 f1 = f1 w1 = w1 w2 = w2 k1 = k1
  NoKey = NoKey NoScope = NoScope
  Writers = {w1}
  Pollers = {p1}
  Followers = {}
  Streams <- MCStreams
  StreamOf <- Single
  Keys = {}
  Requests <- MCRequests
  Limit = 1
  Disciplined = TRUE
  MaxEvents = 3
  PollEvents = 3
  FollowLimit = 1
INVARIANTS
  AckedWasReceived
PROPERTIES
  EventuallyReceived
