SPECIFICATION RaceSpec
CONSTANTS
  p1 = p1 p2 = p2 f1 = f1 w1 = w1 w2 = w2 k1 = k1
  NoKey = NoKey NoScope = NoScope
  Writers = {w1, w2}
  Pollers = {p1, p2}
  Followers = {f1}
  Streams <- OneStream
  StreamOf <- Readers
  Keys = {k1}
  Requests <- MCRequests
  Limit = 1
  Disciplined = FALSE
  MaxEvents = 3
  PollEvents = 2
  FollowLimit = 2
INVARIANTS
  TypeOK
  NoEventSkipped
  OneEventPerKey
  AnswerIsTheEvent
  FollowerMissesNothing
PROPERTIES
  CursorsNeverRetreat
  DeliversAsPromised
