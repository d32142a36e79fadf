CONSTANTS
  Clients = {c1, c2}
  Kinds <- AllKinds
  MaxFd = 2
  None = None
SPECIFICATION Spec
INVARIANT OwnSocket
PROPERTIES CalmRepliesRight EveryoneAnswered
CHECK_DEADLOCK FALSE
