SPECIFICATION FairSpec
CONSTANTS
  A = A
  B = B
  C = C
  Nodes = {A, B, C}
  Sets = {s1}
  Replies = {}
  Requests <- LongRequests
  ReplyPaths <- AllReplyPaths
  MaxPathLength = 3
  PayloadSize = 4
  TextSize = 1
  Repeated = {s1}
  None = None
INVARIANTS
  AllOrNothing
  MaskUsedOnce
PROPERTIES
  ImplementsChannel
CHECK_DEADLOCK FALSE
